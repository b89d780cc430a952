------------------------- MODULE TaskStatusesProofs --------------------------
(***************************************************************************)
(* TypeOK with its foreign key, OneDefault and CompletedInItsGroup of      *)
(* TaskStatuses, for any number of statuses, groups, tasks and requests.   *)
(*                                                                         *)
(* The first is inductive as it stands.  OneDefault needs to know that a   *)
(* deletion is under way of a status that was no default when it was       *)
(* judged, and CompletedInItsGroup that what is moved stands somewhere.    *)
(***************************************************************************)
EXTENDS TaskStatuses, FiniteSetTheorems, TLAPS

-----------------------------------------------------------------------------
(* Types and the foreign key *)

\* A request that ends leaves an idle slot.
LEMMA DoneFits ==
    ASSUME request \in [Requests -> Request], NEW r \in Requests, Done(r)
    PROVE  request' \in [Requests -> Request]
  BY DEF Done, Request

LEMMA InitTypes == Init => TypeOK
<1> SUFFICES ASSUME Init PROVE TypeOK
  OBVIOUS
<1>1. status \in [Statuses -> Status]
  BY TaskStatusesAssumption DEF Init, Status
<1>2. task \in [Tasks -> Task] /\ \A t \in Tasks : ~Stands(t)
  BY DEF Init, Task, Stands
<1>3. request \in [Requests -> Request]
  BY DEF Init, Request
<1> QED
  BY <1>1, <1>2, <1>3 DEF Init, TypeOK

\* A read changes only its slot.
LEMMA ReadsFit ==
    ASSUME TypeOK, NEW r \in Requests, NEW q \in Request, Reads(r, q)
    PROVE  TypeOK'
  BY DEF TypeOK, Reads, Live, Stands

LEMMA BeginFits ==
    ASSUME TypeOK, NEW r \in Requests, NEW q \in Request, Begin(r, q)
    PROVE  TypeOK'
  BY ReadsFit DEF Begin

\* What arrives is a request.
LEMMA ArriveKeepsTypes ==
    ASSUME TypeOK, NEW r \in Requests, Arrive(r)
    PROVE  TypeOK'
<1>1. CASE \E s \in Statuses : DefaultBegin(r, s)
  <2>1. PICK s \in Statuses : DefaultBegin(r, s)
    BY <1>1
  <2>2. [op |-> "default", status |-> s, defaults |-> Defaults] \in Request
    BY DEF Request, Defaults, Live
  <2> QED
    BY <2>1, <2>2, BeginFits DEF DefaultBegin
<1>2. CASE \E s \in Statuses : DropBegin(r, s)
  <2>1. PICK s \in Statuses : DropBegin(r, s)
    BY <1>2
  <2>2. [op |-> "judged", status |-> s, defaults |-> Defaults] \in Request
    BY DEF Request, Defaults, Live
  <2> QED
    BY <2>1, <2>2, BeginFits DEF DropBegin
<1>3. CASE \E s \in Statuses, t \in Tasks : CreateBegin(r, t, s)
  <2>1. PICK s \in Statuses, t \in Tasks : CreateBegin(r, t, s)
    BY <1>3
  <2>2. PICK explicit \in BOOLEAN, value \in BOOLEAN :
          Begin(r, [op |-> "create", task |-> t, status |-> s,
                    done |-> IF explicit THEN value ELSE Complete(s)])
    BY <2>1 DEF CreateBegin
  <2>3. (IF explicit THEN value ELSE Complete(s)) \in BOOLEAN
    BY DEF Complete
  <2>4. [op |-> "create", task |-> t, status |-> s,
         done |-> IF explicit THEN value ELSE Complete(s)] \in Request
    BY <2>3 DEF Request
  <2> QED
    BY <2>2, <2>4, BeginFits
<1>4. CASE \E s \in Statuses, t \in Tasks, stamp \in {"set", "clear"} : PatchBegin(r, t, s, stamp)
  <2>1. PICK s \in Statuses, t \in Tasks, stamp \in {"set", "clear"} : PatchBegin(r, t, s, stamp)
    BY <1>4
  <2>2. [op |-> "move", status |-> s, tasks |-> {t},
         stamp |-> [u \in Tasks |-> IF u = t THEN stamp ELSE "keep"]] \in Request
    BY DEF Request, Stamps
  <2> QED
    BY <2>1, <2>2, BeginFits DEF PatchBegin
<1>5. CASE \E t \in Tasks : MoveBegin(r, t)
  <2>1. PICK t \in Tasks : MoveBegin(r, t)
    BY <1>5
  <2>2. task[t].status \in Statuses
    BY <2>1 DEF MoveBegin, Stands, TypeOK, Task
  <2>3. [op |-> "loaded", tasks |-> {t}, on |-> task[t].status] \in Request
    BY <2>2 DEF Request
  <2> QED
    BY <2>1, <2>3, BeginFits DEF MoveBegin
<1>6. CASE \E ts \in SUBSET Tasks : BulkBegin(r, ts)
  <2>1. PICK ts \in SUBSET Tasks : BulkBegin(r, ts)
    BY <1>6
  <2>2. [op |-> "selected", tasks |-> ts, was |-> {t \in ts : Complete(task[t].status)}] \in Request
    BY DEF Request
  <2> QED
    BY <2>1, <2>2, BeginFits DEF BulkBegin
<1> QED
  BY <1>1, <1>2, <1>3, <1>4, <1>5, <1>6 DEF Arrive

\* What a later read makes of a request is one.
LEMMA ReadKeepsTypes ==
    ASSUME TypeOK, NEW r \in Requests, Read(r)
    PROVE  TypeOK'
<1> DEFINE q == request[r]
<1>1. CASE DropRead(r)
  <2>1. q \in Request /\ q.op = "judged"
    BY <1>1 DEF TypeOK, DropRead
  <2>2. q.status \in Statuses /\ q.defaults \in SUBSET Statuses
    BY <2>1 DEF Request, Idle
  <2>3. PICK d \in Instead :
          Reads(r, [op |-> "drop", status |-> q.status, defaults |-> q.defaults, instead |-> d])
    BY <1>1 DEF DropRead
  <2>4. [op |-> "drop", status |-> q.status, defaults |-> q.defaults, instead |-> d] \in Request
    BY <2>2 DEF Request, Instead, Defaults, Live
  <2> QED
    BY <2>3, <2>4, ReadsFit
<1>2. CASE \E s \in Statuses : MoveRead(r, s)
  <2>1. PICK s \in Statuses : MoveRead(r, s)
    BY <1>2
  <2> DEFINE StampOf(t) == StampFor(t \in WasComplete(q), Complete(s))
             stamp == [t \in Tasks |-> IF t \in q.tasks THEN StampOf(t) ELSE "keep"]
  <2>2. q \in Request /\ q.op \in {"loaded", "selected"}
    BY <2>1 DEF TypeOK, MoveRead
  <2>3. q.tasks \in SUBSET Tasks
    BY <2>2 DEF Request, Idle
  <2>4. \A was, is \in BOOLEAN : StampFor(was, is) \in Stamps
    BY DEF StampFor, Stamps
  <2>5. \A t \in Tasks : StampOf(t) \in Stamps
    <3> SUFFICES ASSUME NEW t \in Tasks PROVE StampOf(t) \in Stamps
      OBVIOUS
    <3>1. (t \in WasComplete(q)) \in BOOLEAN /\ Complete(s) \in BOOLEAN
      BY DEF Complete
    <3> QED
      BY <2>4, <3>1
  <2>6. stamp \in [Tasks -> Stamps]
    BY <2>5 DEF Stamps
  <2>7. [op |-> "move", status |-> s, tasks |-> q.tasks, stamp |-> stamp] \in Request
    BY <2>3, <2>6 DEF Request
  <2> QED
    BY <2>1, <2>7, ReadsFit DEF MoveRead
<1> QED
  BY <1>1, <1>2 DEF Read

\* The steps that take no request.
LEMMA EditKeepsTypes ==
    ASSUME TypeOK,
           \/ \E s \in Statuses, group \in Groups : CreateStatus(s, group)
           \/ \E group \in [Statuses -> Groups] : Reorder(group)
           \/ \E t \in Tasks, done \in BOOLEAN : SetCompleted(t, done)
    PROVE  TypeOK'
<1>1. CASE \E s \in Statuses, group \in Groups : CreateStatus(s, group)
  BY <1>1 DEF TypeOK, CreateStatus, Status, Live, Stands
<1>2. CASE \E group \in [Statuses -> Groups] : Reorder(group)
  <2>1. PICK group \in [Statuses -> Groups] : Reorder(group)
    BY <1>2
  <2>2. status' \in [Statuses -> Status] /\ Live' = Live
    BY <2>1 DEF TypeOK, Reorder, Status, Live
  <2> QED
    BY <2>1, <2>2 DEF TypeOK, Reorder, Stands
<1>3. CASE \E t \in Tasks, done \in BOOLEAN : SetCompleted(t, done)
  BY <1>3 DEF TypeOK, SetCompleted, Task, Live, Stands
<1> QED
  BY <1>1, <1>2, <1>3

\* A status is dropped when nothing is left on it.
LEMMA DropKeepsTypes ==
    ASSUME TypeOK, NEW r \in Requests, DropStatus(r)
    PROVE  TypeOK'
<1> DEFINE q == request[r]
           s == q.status
<1>1. q \in Request /\ q.op = "drop"
  BY DEF TypeOK, DropStatus
<1>2. s \in Statuses /\ q.instead \in Statuses
  BY <1>1 DEF Request, Idle
<1>3. request' \in [Requests -> Request]
  BY DoneFits DEF TypeOK, DropStatus
<1>4. CASE s \in Live /\ (OnIt(s) = {} \/ q.instead \in Live \ {s})
  <2>1. task' = Rehomed(s, q.instead)
    BY <1>4 DEF DropStatus
  <2>2. status' = [status EXCEPT ![s] = [@ EXCEPT !.state = "gone", !.default = FALSE]]
    BY <1>4 DEF DropStatus
  <2>3. muddled' \in BOOLEAN /\ untied' \subseteq Tasks
    BY <1>4 DEF DropStatus, OnIt, TypeOK
  <2>4. status' \in [Statuses -> Status]
    BY <1>2, <2>2 DEF TypeOK, Status
  <2>5. task' \in [Tasks -> Task]
    BY <1>2, <2>1 DEF TypeOK, Rehomed, Task
  <2>6. Live' = Live \ {s}
    BY <1>2, <2>2 DEF TypeOK, Status, Live
  <2>7. \A t \in Tasks : task'[t].status # NoStatus => task'[t].status \in Live \ {s}
    <3> SUFFICES ASSUME NEW t \in Tasks, task'[t].status # NoStatus
                 PROVE  task'[t].status \in Live \ {s}
      OBVIOUS
    <3>1. CASE t \in OnIt(s)
      BY <1>4, <2>1, <3>1 DEF TypeOK, Task, Rehomed
    <3>2. CASE t \notin OnIt(s)
      <4>1. task'[t] = task[t] /\ task[t].status # s
        BY <2>1, <3>2 DEF Rehomed, OnIt
      <4> QED
        BY <4>1 DEF TypeOK, Stands
    <3> QED
      BY <3>1, <3>2
  <2> QED
    BY <1>3, <2>3, <2>4, <2>5, <2>6, <2>7 DEF TypeOK, Stands
<1>5. CASE ~(s \in Live /\ (OnIt(s) = {} \/ q.instead \in Live \ {s}))
  BY <1>3, <1>5 DEF TypeOK, DropStatus, Live, Stands
<1> QED
  BY <1>4, <1>5

\* The other writes.
LEMMA WriteKeepsTypes ==
    ASSUME TypeOK, NEW r \in Requests, Write(r)
    PROVE  TypeOK'
<1> DEFINE q == request[r]
<1>1. CASE MakeDefault(r)
  <2>1. request' \in [Requests -> Request] /\ q \in Request
    BY <1>1, DoneFits DEF TypeOK, MakeDefault
  <2>2. CASE q.status \in Live
    <3>1. status' = [s \in Statuses |->
             [status[s] EXCEPT !.default =
                s = q.status \/ (@ /\ s \notin Cleared(q.defaults, q.status))]]
      BY <1>1, <2>2 DEF MakeDefault
    <3>2. \A s \in Statuses : status[s] \in Status
      BY DEF TypeOK
    <3>3. status' \in [Statuses -> Status]
      BY <3>1, <3>2 DEF Status
    <3>4. \A s \in Statuses : status'[s].state = status[s].state
      BY <3>1, <3>2 DEF Status
    <3>5. Live' = Live
      BY <3>4 DEF Live
    <3>6. task' = task /\ untied' = untied /\ muddled' \in BOOLEAN
      BY <1>1, <2>2 DEF MakeDefault
    <3> QED
      BY <2>1, <3>3, <3>5, <3>6 DEF TypeOK, Stands
  <2>3. CASE q.status \notin Live
    BY <1>1, <2>1, <2>3 DEF TypeOK, MakeDefault, Live, Stands
  <2> QED
    BY <2>2, <2>3
<1>2. CASE DropStatus(r)
  BY <1>2, DropKeepsTypes
<1>3. CASE Create(r)
  <2>1. request' \in [Requests -> Request] /\ q \in Request /\ q.op = "create"
    BY <1>3, DoneFits DEF TypeOK, Create
  <2>2. q.task \in Tasks /\ q.status \in Statuses /\ q.done \in BOOLEAN
    BY <2>1 DEF Request, Idle
  <2>3. status' = status /\ muddled' = muddled
    BY <1>3 DEF Create
  <2>4. CASE q.status \in Live /\ ~Stands(q.task)
    <3>1. task' = [task EXCEPT ![q.task] = [status |-> q.status, done |-> q.done]]
      BY <1>3, <2>4 DEF Create
    <3>2. untied' \subseteq Tasks
      BY <1>3, <2>2, <2>4 DEF Create, TypeOK
    <3> QED
      BY <2>1, <2>2, <2>3, <2>4, <3>1, <3>2 DEF TypeOK, Task, Live, Stands
  <2>5. CASE ~(q.status \in Live /\ ~Stands(q.task))
    BY <1>3, <2>1, <2>3, <2>5 DEF TypeOK, Create, Live, Stands
  <2> QED
    BY <2>4, <2>5
<1>4. CASE Move(r)
  <2>1. request' \in [Requests -> Request] /\ q \in Request /\ q.op = "move"
    BY <1>4, DoneFits DEF TypeOK, Move
  <2>2. q.tasks \subseteq Tasks /\ q.status \in Statuses
    BY <2>1 DEF Request, Idle
  <2>3. status' = status /\ muddled' = muddled
    BY <1>4 DEF Move
  <2>4. CASE q.status \in Live
    <3>1. task' = [t \in Tasks |->
            IF t \in q.tasks
            THEN [status |-> q.status, done |-> Restamped(task[t].done, q.stamp[t])]
            ELSE task[t]]
      BY <1>4, <2>4 DEF Move
    <3>2. untied' \subseteq Tasks
      BY <1>4, <2>2, <2>4 DEF Move, TypeOK
    <3>3. \A t \in Tasks : Restamped(task[t].done, q.stamp[t]) \in BOOLEAN
      BY DEF Restamped
    <3> QED
      BY <2>1, <2>2, <2>3, <2>4, <3>1, <3>2, <3>3 DEF TypeOK, Task, Live, Stands
  <2>5. CASE q.status \notin Live
    BY <1>4, <2>1, <2>3, <2>5 DEF TypeOK, Move, Live, Stands
  <2> QED
    BY <2>4, <2>5
<1>5. CASE Abort(r)
  BY <1>5, DoneFits DEF TypeOK, Abort, Live, Stands
<1> QED
  BY <1>1, <1>2, <1>3, <1>4, <1>5 DEF Write

LEMMA NextKeepsTypes == TypeOK /\ [Next]_vars => TypeOK'
<1> SUFFICES ASSUME TypeOK, [Next]_vars PROVE TypeOK'
  OBVIOUS
<1>1. CASE UNCHANGED vars
  BY <1>1 DEF TypeOK, vars, Live, Stands
<1> QED
  BY <1>1, EditKeepsTypes, ArriveKeepsTypes, ReadKeepsTypes, WriteKeepsTypes DEF Next

\* Types, and that every task stands on a status that is there: the foreign key,
\* and the reassignment in deleteStatus.
THEOREM TypeCorrect == Spec => []TypeOK
  BY InitTypes, NextKeepsTypes, PTL DEF Spec

-----------------------------------------------------------------------------
(* One default *)

\* The one default, named, so that no set is counted before the end.
OneIsDefault == ~muddled => \E d \in Statuses : Defaults = {d}

\* deleteStatus goes on with a status only if it is no default.
DropsNoDefault ==
    \A r \in Requests :
        request[r].op \in {"judged", "drop"} => request[r].status \notin request[r].defaults

DefaultInv == TypeOK /\ DropsNoDefault /\ OneIsDefault

LEMMA InitDefault == Init => DefaultInv
<1> SUFFICES ASSUME Init PROVE DefaultInv
  OBVIOUS
<1>1. Defaults = {First}
  BY TaskStatusesAssumption DEF Init, Defaults, Live
<1>2. DropsNoDefault
  BY DEF Init, DropsNoDefault, Idle
<1> QED
  BY <1>1, <1>2, InitTypes, TaskStatusesAssumption DEF DefaultInv, OneIsDefault

\* A step that leaves the flags of the rows, and the requests or all but one that
\* begins, as they are.
LEMMA SameDefaults ==
    ASSUME DefaultInv, Defaults' = Defaults, muddled' = muddled, DropsNoDefault', TypeOK'
    PROVE  DefaultInv'
  BY DEF DefaultInv, OneIsDefault

\* A slot that is left, or that takes anything but a deletion, keeps the others.
LEMMA OtherSlots ==
    ASSUME TypeOK, DropsNoDefault, NEW r \in Requests, NEW q \in Request,
           request' = [request EXCEPT ![r] = q],
           q.op \in {"judged", "drop"} => q.status \notin q.defaults
    PROVE  DropsNoDefault'
  BY DEF TypeOK, DropsNoDefault

LEMMA DoneSlot ==
    ASSUME TypeOK, DropsNoDefault, NEW r \in Requests, Done(r)
    PROVE  DropsNoDefault'
  BY DEF TypeOK, DropsNoDefault, Done, Idle

LEMMA ArriveKeepsDefault ==
    ASSUME DefaultInv, NEW r \in Requests, Arrive(r)
    PROVE  DefaultInv'
<1>1. TypeOK'
  BY ArriveKeepsTypes DEF DefaultInv
<1>2. status' = status /\ muddled' = muddled
  BY DEF Arrive, DefaultBegin, DropBegin, CreateBegin, PatchBegin, MoveBegin, BulkBegin, Begin,
         Reads
<1>3. Defaults' = Defaults
  BY <1>2 DEF Defaults, Live
<1>4. DropsNoDefault'
  <2>1. CASE \E s \in Statuses : DropBegin(r, s)
    <3>1. PICK s \in Statuses : DropBegin(r, s)
      BY <2>1
    <3>2. s \notin Defaults
      BY <3>1 DEF DropBegin, Deletable, Defaults
    <3> QED
      BY <3>1, <3>2 DEF DefaultInv, TypeOK, DropsNoDefault, DropBegin, Begin, Reads
  <2>2. CASE ~\E s \in Statuses : DropBegin(r, s)
    BY <2>2 DEF Arrive, DefaultInv, TypeOK, DropsNoDefault, DefaultBegin, CreateBegin,
                PatchBegin, MoveBegin, BulkBegin, Begin, Reads
  <2> QED
    BY <2>1, <2>2
<1> QED
  BY <1>1, <1>2, <1>3, <1>4, SameDefaults

LEMMA ReadKeepsDefault ==
    ASSUME DefaultInv, NEW r \in Requests, Read(r)
    PROVE  DefaultInv'
<1>1. TypeOK'
  BY ReadKeepsTypes DEF DefaultInv
<1>2. status' = status /\ muddled' = muddled
  BY DEF Read, DropRead, MoveRead, Reads
<1>3. Defaults' = Defaults
  BY <1>2 DEF Defaults, Live
<1>4. DropsNoDefault'
  <2>1. CASE DropRead(r)
    BY <2>1 DEF DropRead, Reads, DefaultInv, TypeOK, DropsNoDefault
  <2>2. CASE \E s \in Statuses : MoveRead(r, s)
    BY <2>2 DEF MoveRead, Reads, DefaultInv, TypeOK, DropsNoDefault
  <2> QED
    BY <2>1, <2>2 DEF Read
<1> QED
  BY <1>1, <1>2, <1>3, <1>4, SameDefaults

\* The choice of a default that met the defaults it had read leaves its own.
LEMMA MakeDefaultKeepsDefault ==
    ASSUME DefaultInv, NEW r \in Requests, MakeDefault(r)
    PROVE  DefaultInv'
<1> DEFINE q == request[r]
<1>1. TypeOK'
  BY WriteKeepsTypes DEF DefaultInv, Write
<1>2. DropsNoDefault'
  BY DoneSlot DEF DefaultInv, MakeDefault
<1>3. CASE q.status \in Live
  <2>1. muddled' = (q.defaults # Defaults)
    BY <1>3 DEF MakeDefault
  <2>2. status' = [s \in Statuses |->
           [status[s] EXCEPT !.default =
              s = q.status \/ (@ /\ s \notin Cleared(q.defaults, q.status))]]
    BY <1>3 DEF MakeDefault
  <2>3. \A s \in Statuses : status[s] \in Status
    BY DEF DefaultInv, TypeOK
  <2>4. Live' = Live
    BY <2>2, <2>3 DEF Live, Status
  <2>5. \A s \in Statuses :
           status'[s].default <=>
              (s = q.status \/ (status[s].default /\ s \notin Cleared(q.defaults, q.status)))
    BY <2>2, <2>3 DEF Status
  <2>6. q.defaults = Defaults => Defaults' = {q.status}
    <3> SUFFICES ASSUME q.defaults = Defaults PROVE Defaults' = {q.status}
      OBVIOUS
    <3>1. Defaults' = {s \in Live : status'[s].default}
      BY <2>4 DEF Defaults
    <3>2. \A s \in Live : status'[s].default <=> s = q.status
      BY <2>5 DEF Defaults, Live, Cleared
    <3> QED
      BY <1>3, <3>1, <3>2
  <2> QED
    BY <1>1, <1>2, <1>3, <2>1, <2>6 DEF DefaultInv, OneIsDefault, Live
<1>4. CASE q.status \notin Live
  <2>1. status' = status /\ muddled' = muddled
    BY <1>4 DEF MakeDefault
  <2>2. Defaults' = Defaults
    BY <2>1 DEF Defaults, Live
  <2> QED
    BY <1>1, <1>2, <2>1, <2>2, SameDefaults
<1> QED
  BY <1>3, <1>4

\* A deletion that met the defaults it had read deletes none of them.
LEMMA DropKeepsDefault ==
    ASSUME DefaultInv, NEW r \in Requests, DropStatus(r)
    PROVE  DefaultInv'
<1> DEFINE q == request[r]
           s == q.status
<1>1. TypeOK' /\ TypeOK
  BY WriteKeepsTypes DEF DefaultInv, Write
<1>2. DropsNoDefault'
  BY DoneSlot DEF DefaultInv, DropStatus
<1>3. s \notin q.defaults
  BY DEF DefaultInv, DropsNoDefault, DropStatus
<1>4. CASE s \in Live /\ (OnIt(s) = {} \/ q.instead \in Live \ {s})
  <2>1. muddled' = (muddled \/ q.defaults # Defaults)
    BY <1>4 DEF DropStatus
  <2>2. status' = [status EXCEPT ![s] = [@ EXCEPT !.state = "gone", !.default = FALSE]]
    BY <1>4 DEF DropStatus
  <2>3. Defaults' = Defaults \ {s}
    BY <1>1, <1>4, <2>2 DEF TypeOK, Status, Defaults, Live
  <2> QED
    BY <1>1, <1>2, <1>3, <2>1, <2>3 DEF DefaultInv, OneIsDefault
<1>5. CASE ~(s \in Live /\ (OnIt(s) = {} \/ q.instead \in Live \ {s}))
  <2>1. status' = status /\ muddled' = muddled
    BY <1>5 DEF DropStatus
  <2>2. Defaults' = Defaults
    BY <2>1 DEF Defaults, Live
  <2> QED
    BY <1>1, <1>2, <2>1, <2>2, SameDefaults
<1> QED
  BY <1>4, <1>5

LEMMA NextKeepsDefault == DefaultInv /\ [Next]_vars => DefaultInv'
<1> SUFFICES ASSUME DefaultInv, [Next]_vars PROVE DefaultInv'
  OBVIOUS
<1>1. TypeOK' /\ TypeOK
  BY NextKeepsTypes DEF DefaultInv
<1>2. CASE \E s \in Statuses, group \in Groups : CreateStatus(s, group)
  <2>1. PICK s \in Statuses, group \in Groups : CreateStatus(s, group)
    BY <1>2
  <2>2. Defaults' = Defaults
    BY <1>1, <2>1 DEF CreateStatus, TypeOK, Defaults, Live
  <2>3. DropsNoDefault' /\ muddled' = muddled
    BY <2>1 DEF CreateStatus, DefaultInv, DropsNoDefault
  <2> QED
    BY <1>1, <2>2, <2>3, SameDefaults
<1>3. CASE \E group \in [Statuses -> Groups] : Reorder(group)
  <2>1. PICK group \in [Statuses -> Groups] : Reorder(group)
    BY <1>3
  <2>2. \A s \in Statuses : /\ status'[s].state = status[s].state
                            /\ status'[s].default = status[s].default
    BY <1>1, <2>1 DEF Reorder, TypeOK, Status
  <2>3. Defaults' = Defaults
    BY <2>2 DEF Defaults, Live
  <2>4. DropsNoDefault' /\ muddled' = muddled
    BY <2>1 DEF Reorder, DefaultInv, DropsNoDefault
  <2> QED
    BY <1>1, <2>3, <2>4, SameDefaults
<1>4. CASE \/ \E t \in Tasks, done \in BOOLEAN : SetCompleted(t, done)
           \/ UNCHANGED vars
  <2>1. UNCHANGED <<status, request, muddled>>
    BY <1>4 DEF SetCompleted, vars
  <2>2. Defaults' = Defaults
    BY <2>1 DEF Defaults, Live
  <2>3. DropsNoDefault'
    BY <2>1 DEF DefaultInv, DropsNoDefault
  <2> QED
    BY <1>1, <2>1, <2>2, <2>3, SameDefaults
<1>5. CASE \E r \in Requests : Create(r) \/ Move(r) \/ Abort(r)
  <2>1. PICK r \in Requests : Create(r) \/ Move(r) \/ Abort(r)
    BY <1>5
  <2>2. status' = status /\ muddled' = muddled /\ Done(r)
    BY <2>1 DEF Create, Move, Abort
  <2>3. Defaults' = Defaults
    BY <2>2 DEF Defaults, Live
  <2>4. DropsNoDefault'
    BY <2>2, DoneSlot DEF DefaultInv
  <2> QED
    BY <1>1, <2>2, <2>3, <2>4, SameDefaults
<1>6. CASE \E r \in Requests : Arrive(r) \/ Read(r) \/ MakeDefault(r) \/ DropStatus(r)
  BY <1>6, ArriveKeepsDefault, ReadKeepsDefault, MakeDefaultKeepsDefault, DropKeepsDefault
<1> QED
  BY <1>2, <1>3, <1>4, <1>5, <1>6 DEF Next, Write

\* One status is the default of a project, however many requests overlap, as
\* long as the write that chose it, and the deletions since, met the defaults
\* they had read: what the transaction of makeDefault and the refusal to delete
\* a default keep.
THEOREM DefaultIsOne == Spec => []OneDefault
<1>1. DefaultInv => OneDefault
  BY FS_Singleton DEF DefaultInv, OneIsDefault, OneDefault
<1> QED
  BY InitDefault, NextKeepsDefault, <1>1, PTL DEF Spec

-----------------------------------------------------------------------------
(* completedAt *)

\* Tasks stay once they are there, so what a move loaded still stands somewhere.
MovesWhatStands ==
    \A r \in Requests :
        request[r].op \in {"loaded", "selected", "move"} => \A t \in request[r].tasks : Stands(t)

GroupInv == TypeOK /\ MovesWhatStands /\ CompletedInItsGroup

LEMMA InitGroup == Init => GroupInv
  BY InitTypes DEF Init, GroupInv, MovesWhatStands, CompletedInItsGroup, Idle, Stands

LEMMA ArriveKeepsGroup ==
    ASSUME GroupInv, NEW r \in Requests, Arrive(r)
    PROVE  GroupInv'
<1>1. TypeOK' /\ TypeOK
  BY ArriveKeepsTypes DEF GroupInv
<1>2. UNCHANGED <<status, task, untied>>
  BY DEF Arrive, DefaultBegin, DropBegin, CreateBegin, PatchBegin, MoveBegin, BulkBegin, Begin,
         Reads
<1>3. CompletedInItsGroup'
  BY <1>2 DEF GroupInv, CompletedInItsGroup, Stands, Complete
<1>4. MovesWhatStands'
  BY <1>1, <1>2 DEF Arrive, DefaultBegin, DropBegin, CreateBegin, PatchBegin, MoveBegin,
                    BulkBegin, Begin, Reads, GroupInv, MovesWhatStands, Stands, TypeOK
<1> QED
  BY <1>1, <1>3, <1>4 DEF GroupInv

LEMMA ReadKeepsGroup ==
    ASSUME GroupInv, NEW r \in Requests, Read(r)
    PROVE  GroupInv'
<1>1. TypeOK' /\ TypeOK
  BY ReadKeepsTypes DEF GroupInv
<1>2. UNCHANGED <<status, task, untied>>
  BY DEF Read, DropRead, MoveRead, Reads
<1>3. CompletedInItsGroup'
  BY <1>2 DEF GroupInv, CompletedInItsGroup, Stands, Complete
<1>4. MovesWhatStands'
  <2>1. CASE DropRead(r)
    BY <1>1, <1>2, <2>1 DEF DropRead, Reads, GroupInv, MovesWhatStands, Stands, TypeOK
  <2>2. CASE \E s \in Statuses : MoveRead(r, s)
    BY <1>1, <1>2, <2>2 DEF MoveRead, Reads, GroupInv, MovesWhatStands, Stands, TypeOK
  <2> QED
    BY <2>1, <2>2 DEF Read
<1> QED
  BY <1>1, <1>3, <1>4 DEF GroupInv

\* No step takes a task off the board of statuses, and a request that ends leaves
\* the others.
LEMMA StandsOn ==
    ASSUME TypeOK, MovesWhatStands, TypeOK',
           \A t \in Tasks : Stands(t) => Stands(t)',
           request' = request \/ \E r \in Requests : Done(r)
    PROVE  MovesWhatStands'
<1> SUFFICES ASSUME NEW o \in Requests, request'[o].op \in {"loaded", "selected", "move"},
                    NEW t \in request'[o].tasks
             PROVE  Stands(t)'
  BY DEF MovesWhatStands
<1>1. request'[o] = request[o]
  BY DEF TypeOK, Done, Idle
<1>2. t \in Tasks
  BY <1>1 DEF TypeOK, Request, Idle
<1> QED
  BY <1>1, <1>2 DEF MovesWhatStands

\* A move stamps a task as its groups say, or unties it.
LEMMA MoveKeepsGroup ==
    ASSUME GroupInv, NEW r \in Requests, Move(r)
    PROVE  GroupInv'
<1> DEFINE q == request[r]
<1>1. TypeOK' /\ TypeOK
  BY WriteKeepsTypes DEF GroupInv, Write
<1>2. q.tasks \subseteq Tasks /\ q.status \in Statuses /\ q.op = "move"
  BY <1>1 DEF Move, TypeOK, Request, Idle
<1>3. CASE q.status \in Live
  <2>1. task' = [t \in Tasks |->
            IF t \in q.tasks
            THEN [status |-> q.status, done |-> Restamped(task[t].done, q.stamp[t])]
            ELSE task[t]]
    BY <1>3 DEF Move
  <2>2. untied' = (untied \ {t \in q.tasks : q.stamp[t] # "keep" /\ q.stamp[t] = Stamped(t, q.status)})
                      \cup {t \in q.tasks : ~(q.stamp[t] = Stamped(t, q.status))}
    BY <1>3 DEF Move
  <2>3. status' = status /\ Done(r)
    BY DEF Move
  <2>4. \A t \in Tasks : Stands(t) => Stands(t)'
    BY <1>2, <2>1, TaskStatusesAssumption DEF Stands
  <2>5. CompletedInItsGroup'
    <3> SUFFICES ASSUME NEW t \in Tasks, Stands(t)', t \notin untied'
                 PROVE  task'[t].done <=> Complete(task'[t].status)
      BY <2>3 DEF CompletedInItsGroup, Complete
    <3>1. CASE t \notin q.tasks
      BY <2>1, <2>2, <3>1 DEF GroupInv, CompletedInItsGroup, Stands
    <3>2. CASE t \in q.tasks
      <4>1. q.stamp[t] = Stamped(t, q.status) /\ Stands(t)
        BY <1>2, <2>2, <3>2 DEF GroupInv, MovesWhatStands
      <4>2. task'[t].status = q.status /\ task'[t].done = Restamped(task[t].done, q.stamp[t])
        BY <2>1, <3>2
      <4>3. q.stamp[t] = "keep" => (task[t].done <=> Complete(task[t].status))
        BY <2>2, <3>2, <4>1 DEF GroupInv, CompletedInItsGroup
      <4> DEFINE was == Complete(task[t].status)
                 is == Complete(q.status)
      <4>4. was \in BOOLEAN /\ is \in BOOLEAN
        BY DEF Complete
      <4>5. q.stamp[t] = StampFor(was, is)
        BY <4>1 DEF Stamped
      <4>6. CASE is /\ ~was
        BY <4>2, <4>5, <4>6 DEF Restamped, StampFor
      <4>7. CASE was /\ ~is
        BY <4>2, <4>5, <4>7 DEF Restamped, StampFor
      <4>8. CASE was <=> is
        BY <4>2, <4>3, <4>4, <4>5, <4>8 DEF Restamped, StampFor
      <4> QED
        BY <4>4, <4>6, <4>7, <4>8
    <3> QED
      BY <3>1, <3>2
  <2> QED
    BY <1>1, <2>3, <2>4, <2>5, StandsOn DEF GroupInv
<1>4. CASE q.status \notin Live
  <2>1. UNCHANGED <<status, task, untied>> /\ Done(r)
    BY <1>4 DEF Move
  <2> QED
    BY <1>1, <2>1, StandsOn DEF GroupInv, CompletedInItsGroup, Stands, Complete
<1> QED
  BY <1>3, <1>4

\* A deletion between groups that mean the same leaves completedAt right.
LEMMA DropKeepsGroup ==
    ASSUME GroupInv, NEW r \in Requests, DropStatus(r)
    PROVE  GroupInv'
<1> DEFINE q == request[r]
           s == q.status
<1>1. TypeOK' /\ TypeOK
  BY WriteKeepsTypes DEF GroupInv, Write
<1>2. s \in Statuses /\ q.instead \in Statuses /\ Done(r)
  BY <1>1 DEF DropStatus, TypeOK, Request, Idle
<1>3. CASE s \in Live /\ (OnIt(s) = {} \/ q.instead \in Live \ {s})
  <2>1. task' = Rehomed(s, q.instead)
    BY <1>3 DEF DropStatus
  <2>2. status' = [status EXCEPT ![s] = [@ EXCEPT !.state = "gone", !.default = FALSE]]
    BY <1>3 DEF DropStatus
  <2>3. untied' = IF Complete(s) = Complete(q.instead) THEN untied ELSE untied \cup OnIt(s)
    BY <1>3 DEF DropStatus
  <2>4. \A o \in Statuses : Complete(o)' = Complete(o)
    BY <1>1, <2>2 DEF Complete, TypeOK, Status
  <2>5. \A t \in Tasks : Stands(t) => Stands(t)'
    BY <1>2, <2>1, TaskStatusesAssumption DEF Rehomed, Stands
  <2>6. CompletedInItsGroup'
    <3> SUFFICES ASSUME NEW t \in Tasks, Stands(t)', t \notin untied'
                 PROVE  task'[t].done <=> status'[task'[t].status].group = "COMPLETE"
      BY DEF CompletedInItsGroup, Complete
    <3>1. CASE t \in OnIt(s)
      <4>1. task'[t].status = q.instead /\ task'[t].done = task[t].done
        BY <1>1, <2>1, <3>1 DEF Rehomed, TypeOK, Task
      <4>2. task[t].status = s /\ Stands(t)
        BY <1>2, <3>1, TaskStatusesAssumption DEF OnIt, Stands
      <4>3. task[t].done <=> Complete(s)
        BY <2>3, <4>2 DEF GroupInv, CompletedInItsGroup
      <4>4. Complete(s) <=> Complete(q.instead)
        BY <2>3, <3>1
      <4>5. status'[q.instead].group = "COMPLETE" <=> Complete(q.instead)
        BY <1>2, <2>4 DEF Complete
      <4> QED
        BY <4>1, <4>3, <4>4, <4>5
    <3>2. CASE t \notin OnIt(s)
      <4>1. task'[t] = task[t] /\ t \notin untied
        BY <2>1, <2>3, <3>2 DEF Rehomed
      <4>2. Stands(t) /\ task[t].status \in Statuses
        BY <1>1, <4>1 DEF Stands, TypeOK, Task
      <4>3. status'[task[t].status].group = "COMPLETE" <=> Complete(task[t].status)
        BY <2>4, <4>2 DEF Complete
      <4> QED
        BY <4>1, <4>2, <4>3 DEF GroupInv, CompletedInItsGroup
    <3> QED
      BY <3>1, <3>2
  <2> QED
    BY <1>1, <1>2, <2>5, <2>6, StandsOn DEF GroupInv
<1>4. CASE ~(s \in Live /\ (OnIt(s) = {} \/ q.instead \in Live \ {s}))
  <2>1. UNCHANGED <<status, task, untied>>
    BY <1>4 DEF DropStatus
  <2> QED
    BY <1>1, <1>2, <2>1, StandsOn DEF GroupInv, CompletedInItsGroup, Stands, Complete
<1> QED
  BY <1>3, <1>4

\* A task created on a group counts as the group says, or is untied.
LEMMA CreateKeepsGroup ==
    ASSUME GroupInv, NEW r \in Requests, Create(r)
    PROVE  GroupInv'
<1> DEFINE q == request[r]
<1>1. TypeOK' /\ TypeOK
  BY WriteKeepsTypes DEF GroupInv, Write
<1>2. q.task \in Tasks /\ q.status \in Statuses /\ q.done \in BOOLEAN
  BY <1>1 DEF Create, TypeOK, Request, Idle
<1>3. status' = status /\ Done(r)
  BY DEF Create
<1>4. CASE q.status \in Live /\ ~Stands(q.task)
  <2>1. task' = [task EXCEPT ![q.task] = [status |-> q.status, done |-> q.done]]
    BY <1>4 DEF Create
  <2>2. untied' = IF q.done = Complete(q.status) THEN untied ELSE untied \cup {q.task}
    BY <1>4 DEF Create
  <2>3. \A t \in Tasks : Stands(t) => Stands(t)'
    BY <1>1, <1>2, <2>1, TaskStatusesAssumption DEF Stands, TypeOK
  <2>4. CompletedInItsGroup'
    <3> SUFFICES ASSUME NEW t \in Tasks, Stands(t)', t \notin untied'
                 PROVE  task'[t].done <=> Complete(task'[t].status)
      BY <1>3 DEF CompletedInItsGroup, Complete
    <3>1. CASE t = q.task
      <4>1. q.done = Complete(q.status)
        BY <2>2, <3>1
      <4> QED
        BY <1>1, <2>1, <3>1, <4>1 DEF TypeOK
    <3>2. CASE t # q.task
      BY <1>1, <2>1, <2>2, <3>2 DEF GroupInv, CompletedInItsGroup, Stands, TypeOK
    <3> QED
      BY <3>1, <3>2
  <2> QED
    BY <1>1, <1>3, <2>3, <2>4, StandsOn DEF GroupInv
<1>5. CASE ~(q.status \in Live /\ ~Stands(q.task))
  <2>1. UNCHANGED <<task, untied>>
    BY <1>5 DEF Create
  <2> QED
    BY <1>1, <1>3, <2>1, StandsOn DEF GroupInv, CompletedInItsGroup, Stands, Complete
<1> QED
  BY <1>4, <1>5

\* The steps that take no request untie the tasks whose group they change.
LEMMA EditKeepsGroup ==
    ASSUME GroupInv,
           \/ \E s \in Statuses, group \in Groups : CreateStatus(s, group)
           \/ \E group \in [Statuses -> Groups] : Reorder(group)
           \/ \E t \in Tasks, done \in BOOLEAN : SetCompleted(t, done)
    PROVE  GroupInv'
<1>1. TypeOK' /\ TypeOK
  BY EditKeepsTypes DEF GroupInv
<1>2. CASE \E s \in Statuses, group \in Groups : CreateStatus(s, group)
  <2>1. PICK s \in Statuses, group \in Groups : CreateStatus(s, group)
    BY <1>2
  <2>2. \A o \in Live : Complete(o)' = Complete(o)
    BY <1>1, <2>1 DEF CreateStatus, TypeOK, Live, Complete
  <2>3. UNCHANGED <<task, request, untied>>
    BY <2>1 DEF CreateStatus
  <2>4. \A t \in Tasks : Stands(t) => Complete(task[t].status)' = Complete(task[t].status)
    BY <1>1, <2>2, <2>3 DEF TypeOK, Complete
  <2> QED
    BY <1>1, <2>3, <2>4, StandsOn DEF GroupInv, CompletedInItsGroup, Stands, Complete
<1>3. CASE \E group \in [Statuses -> Groups] : Reorder(group)
  <2>1. PICK group \in [Statuses -> Groups] : Reorder(group)
    BY <1>3
  <2>2. UNCHANGED <<task, request>> /\ untied' = untied \cup
         {t \in Tasks : Stands(t) /\ Complete(task[t].status) # (group[task[t].status] = "COMPLETE")}
    BY <2>1 DEF Reorder
  <2>3. \A o \in Live : Complete(o)' = (group[o] = "COMPLETE")
    BY <1>1, <2>1 DEF Reorder, TypeOK, Status, Live, Complete
  <2>4. CompletedInItsGroup'
    <3> SUFFICES ASSUME NEW t \in Tasks, Stands(t), t \notin untied'
                 PROVE  task[t].done <=> Complete(task[t].status)'
      BY <2>2 DEF CompletedInItsGroup, Complete, Stands
    <3>1. t \notin untied /\ Complete(task[t].status) = (group[task[t].status] = "COMPLETE")
      BY <2>2
    <3>2. Complete(task[t].status)' = (group[task[t].status] = "COMPLETE")
      BY <1>1, <2>2, <2>3 DEF TypeOK, Complete
    <3> QED
      BY <3>1, <3>2 DEF GroupInv, CompletedInItsGroup
  <2> QED
    BY <1>1, <2>2, <2>4, StandsOn DEF GroupInv, Stands
<1>4. CASE \E t \in Tasks, done \in BOOLEAN : SetCompleted(t, done)
  <2>1. PICK t \in Tasks, done \in BOOLEAN : SetCompleted(t, done)
    BY <1>4
  <2>2. UNCHANGED <<status, request>> /\ task' = [task EXCEPT ![t].done = done]
    BY <2>1 DEF SetCompleted
  <2>3. untied' = IF done = Complete(task[t].status) THEN untied ELSE untied \cup {t}
    BY <2>1 DEF SetCompleted
  <2>4. \A o \in Tasks : task'[o].status = task[o].status
    BY <1>1, <2>2 DEF TypeOK, Task
  <2>5. CompletedInItsGroup'
    <3> SUFFICES ASSUME NEW o \in Tasks, Stands(o), o \notin untied'
                 PROVE  task'[o].done <=> Complete(task[o].status)
      BY <2>2, <2>4 DEF CompletedInItsGroup, Complete, Stands
    <3>1. CASE o = t
      BY <1>1, <2>2, <2>3, <3>1 DEF TypeOK, Task
    <3>2. CASE o # t
      BY <1>1, <2>2, <2>3, <3>2 DEF GroupInv, CompletedInItsGroup, TypeOK
    <3> QED
      BY <3>1, <3>2
  <2> QED
    BY <1>1, <2>2, <2>4, <2>5, StandsOn DEF GroupInv, Stands
<1> QED
  BY <1>2, <1>3, <1>4

LEMMA NextKeepsGroup == GroupInv /\ [Next]_vars => GroupInv'
<1> SUFFICES ASSUME GroupInv, [Next]_vars PROVE GroupInv'
  OBVIOUS
<1>1. TypeOK' /\ TypeOK
  BY NextKeepsTypes DEF GroupInv
<1>2. CASE UNCHANGED vars
  BY <1>1, <1>2 DEF vars, GroupInv, MovesWhatStands, CompletedInItsGroup, Stands, Complete
<1>3. CASE \E r \in Requests : MakeDefault(r)
  <2>1. PICK r \in Requests : MakeDefault(r)
    BY <1>3
  <2>2. UNCHANGED <<task, untied>> /\ Done(r)
    BY <2>1 DEF MakeDefault
  <2>3. \A s \in Statuses : status'[s].group = status[s].group
    BY <1>1, <2>1 DEF MakeDefault, TypeOK, Status
  <2>4. \A t \in Tasks : Stands(t) => Complete(task[t].status)' = Complete(task[t].status)
    BY <1>1, <2>2, <2>3 DEF Complete, TypeOK, Live
  <2> QED
    BY <1>1, <2>2, <2>4, StandsOn DEF GroupInv, CompletedInItsGroup, Stands, Complete
<1>4. CASE \E r \in Requests : Abort(r)
  <2>1. PICK r \in Requests : Abort(r)
    BY <1>4
  <2>2. UNCHANGED <<status, task, untied>> /\ Done(r)
    BY <2>1 DEF Abort
  <2> QED
    BY <1>1, <2>2, StandsOn DEF GroupInv, CompletedInItsGroup, Stands, Complete
<1> QED
  BY <1>2, <1>3, <1>4, EditKeepsGroup, ArriveKeepsGroup, ReadKeepsGroup, DropKeepsGroup,
     CreateKeepsGroup, MoveKeepsGroup DEF Next, Write

\* Over any number of moves and deletions, on any workflow, completedAt is set
\* exactly while the task's status is complete, whatever was not done by hand,
\* by a change of the workflow or past another move: the table of completedAtFor
\* loses no task.
THEOREM CompletedExactlyInItsGroup == Spec => []CompletedInItsGroup
<1>1. GroupInv => CompletedInItsGroup
  BY DEF GroupInv
<1> QED
  BY InitGroup, NextKeepsGroup, <1>1, PTL DEF Spec

=============================================================================
