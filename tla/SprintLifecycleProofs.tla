------------------------ MODULE SprintLifecycleProofs ------------------------
(***************************************************************************)
(* What the index and the foreign key keep in SprintLifecycle, for any     *)
(* number of sprints, tasks and requests: TypeOK, whose last conjunct is   *)
(* the foreign key, and OneActiveSprint. Both are inductive as they stand. *)
(* And what its guards keep however requests overlap, because what a       *)
(* handler read still holds where it is not stale: OnlyStaleReadsTurnBack, *)
(* OnlyLateWritesAreMissorted and OnlyStaleMovesLand.                      *)
(***************************************************************************)
EXTENDS SprintLifecycle, TLAPS

-----------------------------------------------------------------------------
(* Planning *)

\* TypeOK but for the history.
RowsFit ==
    /\ state \in [Sprints -> {"none", "PLANNING", "ACTIVE", "COMPLETED", "deleted"}]
    /\ task \in [Tasks -> [state : {"none", "live", "trash", "gone"},
                           sprint : Places, done : BOOLEAN]]
    /\ request \in [Requests -> Request]
    /\ \A t \in Tasks : task[t].sprint # Backlog => Exists(task[t].sprint)

\* Planning any tasks into a place that has a row keeps the types and the
\* foreign key.
LEMMA PlannedFits ==
    ASSUME RowsFit, NEW S, NEW p \in Places, Writable(p)
    PROVE  /\ Planned(S, p) \in [Tasks -> [state : {"none", "live", "trash", "gone"},
                                           sprint : Places, done : BOOLEAN]]
           /\ \A t \in Tasks :
                Planned(S, p)[t].sprint # Backlog => Exists(Planned(S, p)[t].sprint)
  BY DEF RowsFit, Planned, Writable, Places

\* So does a move, which changes nothing where it fails.
LEMMA MovedFits ==
    ASSUME RowsFit, NEW S, NEW p \in Places
    PROVE  /\ Moved(S, p) \in [Tasks -> [state : {"none", "live", "trash", "gone"},
                                         sprint : Places, done : BOOLEAN]]
           /\ \A t \in Tasks :
                Moved(S, p)[t].sprint # Backlog => Exists(Moved(S, p)[t].sprint)
<1>1. CASE Movable(S, p)
  BY <1>1, PlannedFits DEF Moved, Movable
<1>2. CASE ~Movable(S, p)
  BY <1>2 DEF Moved, RowsFit
<1> QED
  BY <1>1, <1>2

\* A request that ends leaves an idle slot.
LEMMA DoneFits ==
    ASSUME request \in [Requests -> Request], NEW r \in Requests, Done(r)
    PROVE  request' \in [Requests -> Request]
  BY DEF Done, Request

-----------------------------------------------------------------------------
(* Types *)

LEMMA InitTypes == Init => TypeOK
  BY DEF Init, TypeOK, Request, Places

\* The steps of the sprint handlers.
LEMMA SprintStepsKeepTypes ==
    ASSUME RowsFit, NEW r \in Requests, NEW s \in Sprints,
           \/ CreateSprint(s) \/ StartBegin(r, s) \/ CompleteBegin(r, s) \/ DeleteBegin(r, s)
           \/ StartJudge(r) \/ Activate(r) \/ CompleteRead(r) \/ Complete(r)
           \/ DeleteSprint(r)
    PROVE  RowsFit'
<1> USE DEF RowsFit
<1>1. CASE CreateSprint(s)
  BY <1>1 DEF CreateSprint, Exists, Places
<1>2. CASE StartBegin(r, s)
  BY <1>2 DEF StartBegin, Request, Exists
<1>3. CASE CompleteBegin(r, s)
  BY <1>3 DEF CompleteBegin, Request, Exists
<1>4. CASE DeleteBegin(r, s)
  BY <1>4 DEF DeleteBegin, Request, Exists
<1>5. CASE StartJudge(r)
  BY <1>5 DEF StartJudge, Request, Idle, Exists
<1>6. CASE Activate(r)
  <2>1. request' \in [Requests -> Request]
    BY <1>6, DoneFits DEF Activate
  <2> QED
    BY <1>6, <2>1 DEF Activate, Activable, Exists, Places
<1>7. CASE CompleteRead(r)
  <2>1. Returned(request[r].sprint) \in SUBSET Tasks
    BY DEF Returned, Unfinished
  <2>2. request[r].sprint \in Sprints
    BY <1>7 DEF CompleteRead, Request, Idle
  <2>3. request' \in [Requests -> Request]
    BY <1>7, <2>1, <2>2 DEF CompleteRead, Request
  <2> QED
    BY <1>7, <2>3 DEF CompleteRead, Exists
<1>8. CASE Complete(r)
  <2>1. request' \in [Requests -> Request]
    BY <1>8, DoneFits DEF Complete
  <2>2. CASE Exists(request[r].sprint)
    <3>1. Writable(Backlog) /\ Backlog \in Places
      BY DEF Writable, Places
    <3>2. task' = Planned(request[r].return, Backlog)
      BY <1>8, <2>2 DEF Complete
    <3>3. state' = [state EXCEPT ![request[r].sprint] = "COMPLETED"]
      BY <1>8, <2>2 DEF Complete
    <3>4. \A o \in Sprints : Exists(o) => Exists(o)'
      BY <3>3 DEF Exists
    <3>5. \A t \in Tasks : task'[t].sprint # Backlog => Exists(task'[t].sprint)
      BY <3>1, <3>2, PlannedFits
    <3>6. \A t \in Tasks : task'[t].sprint \in Places
      BY <3>1, <3>2, PlannedFits
    <3>7. (\A t \in Tasks : task[t].sprint # Backlog => Exists(task[t].sprint))'
      BY <3>4, <3>5, <3>6 DEF Places
    <3> QED
      BY <2>1, <3>1, <3>2, <3>3, <3>7, PlannedFits
  <2>3. CASE ~Exists(request[r].sprint)
    BY <1>8, <2>1, <2>3 DEF Complete, Exists
  <2> QED
    BY <2>2, <2>3
<1>9. CASE DeleteSprint(r)
  <2> DEFINE s0 == request[r].sprint
  <2>1. request' \in [Requests -> Request]
    BY <1>9, DoneFits DEF DeleteSprint
  <2>2. state' = [state EXCEPT ![s0] = "deleted"] /\ task' = Emptied(s0)
    BY <1>9 DEF DeleteSprint
  <2>3. Writable(Backlog) /\ Backlog \in Places
    BY DEF Writable, Places
  <2>4. task' \in [Tasks -> [state : {"none", "live", "trash", "gone"},
                             sprint : Places, done : BOOLEAN]]
    BY <2>2, <2>3, PlannedFits DEF Emptied
  <2>5. \A t \in Tasks : task'[t].sprint # Backlog =>
           task'[t].sprint = task[t].sprint /\ task[t].sprint # s0
    BY <2>2 DEF Emptied, Planned
  <2>6. (\A t \in Tasks : task[t].sprint # Backlog => Exists(task[t].sprint))'
    BY <2>2, <2>4, <2>5 DEF Exists, Places
  <2> QED
    BY <2>1, <2>2, <2>4, <2>6
<1> QED
  BY <1>1, <1>2, <1>3, <1>4, <1>5, <1>6, <1>7, <1>8, <1>9

\* The steps of the task handlers.
LEMMA TaskStepsKeepTypes ==
    ASSUME RowsFit, NEW r \in Requests,
           \/ \E p \in Places : \/ \E t \in Tasks : CreateBegin(r, t, p)
                               \/ \E S \in SUBSET Tasks : MoveBegin(r, S, p)
           \/ Insert(r) \/ Move(r) \/ Descend(r) \/ Follow(r)
           \/ \E t \in Tasks : \/ SetStatus(r, t) \/ DeleteTask(r, t)
                              \/ RestoreTask(r, t) \/ PurgeTask(r, t)
           \/ Abort(r)
    PROVE  RowsFit'
<1> DEFINE q == request[r]
<1>0. q.pc \in {"insert", "move", "children", "follow"} => q.sprint \in Places /\ q.tasks \in SUBSET Tasks
  BY DEF RowsFit, Request, Idle
<1>1. CASE \E p \in Places, t \in Tasks : CreateBegin(r, t, p)
  BY <1>1 DEF CreateBegin, RowsFit, Request, Exists
<1>2. CASE \E p \in Places, S \in SUBSET Tasks : MoveBegin(r, S, p)
  BY <1>2 DEF MoveBegin, RowsFit, Request, Exists
<1>3. CASE Insert(r)
  <2>1. request' \in [Requests -> Request]
    BY <1>3, DoneFits DEF Insert, RowsFit
  <2>2. state' = state
    BY <1>3 DEF Insert
  <2>3. PICK done \in BOOLEAN :
          task' = [x \in Tasks |->
                     IF x \in q.tasks /\ task[x].state = "none" /\ Writable(q.sprint)
                     THEN [state |-> "live", sprint |-> q.sprint, done |-> done]
                     ELSE task[x]]
    BY <1>3 DEF Insert
  <2>4. q.sprint \in Places
    BY <1>0, <1>3 DEF Insert
  <2>5. task' \in [Tasks -> [state : {"none", "live", "trash", "gone"},
                             sprint : Places, done : BOOLEAN]]
    BY <2>3, <2>4 DEF RowsFit
  <2>6. \A x \in Tasks : task'[x].sprint # Backlog => Exists(task'[x].sprint)
    BY <2>3, <2>4 DEF RowsFit, Writable
  <2> QED
    BY <2>1, <2>2, <2>5, <2>6 DEF RowsFit, Exists
<1>4. CASE Move(r)
  <2>1. task' = Moved(q.tasks, q.sprint) /\ state' = state /\ q.sprint \in Places
    BY <1>0, <1>4 DEF Move
  <2>2. request' \in [Requests -> Request]
    BY <1>0, <1>4, DoneFits DEF Move, Children, RowsFit, Request
  <2> QED
    BY <2>1, <2>2, MovedFits DEF RowsFit, Exists
<1>5. CASE Follow(r)
  <2>1. q.sprint \in Places /\ state' = state
    BY <1>0, <1>5 DEF Follow
  <2>2. CASE Writable(q.sprint)
    <3>1. task' = Planned({t \in q.tasks : task[t].state # "gone"}, q.sprint)
      BY <1>5, <2>2 DEF Follow
    <3>2. request' = [request EXCEPT ![r] = Children(q.sprint)]
      BY <1>5, <2>2 DEF Follow
    <3>3. request' \in [Requests -> Request]
      BY <2>1, <3>2 DEF Children, RowsFit, Request
    <3> QED
      BY <2>1, <2>2, <3>1, <3>3, PlannedFits DEF RowsFit, Exists
  <2>3. CASE ~Writable(q.sprint)
    BY <1>5, <2>1, <2>3, DoneFits DEF Follow, RowsFit, Exists
  <2> QED
    BY <2>2, <2>3
<1>11. CASE Descend(r)
  <2>1. state' = state /\ task' = task
    BY <1>11 DEF Descend
  <2>2. CASE Done(r)
    BY <2>1, <2>2, DoneFits DEF RowsFit, Exists
  <2>3. CASE \E S \in SUBSET {t \in Tasks : Live(t)} :
               request' = [request EXCEPT ![r] =
                 [pc |-> "follow", sprint |-> q.sprint, tasks |-> S]]
    <3>1. q.sprint \in Places
      BY <1>0, <1>11 DEF Descend
    <3>2. request' \in [Requests -> Request]
      BY <2>3, <3>1 DEF RowsFit, Request
    <3> QED
      BY <2>1, <3>2 DEF RowsFit, Exists
  <2> QED
    BY <1>11, <2>2, <2>3 DEF Descend
<1>6. CASE \E t \in Tasks : SetStatus(r, t)
  <2> PICK t \in Tasks : SetStatus(r, t)
    BY <1>6
  <2> DEFINE undone == ~task[t].done
  <2>1. task' = [task EXCEPT ![t] = [task[t] EXCEPT !.done = undone]]
    BY DEF SetStatus
  <2>2. undone \in BOOLEAN
    OBVIOUS
  <2>3. state' = state /\ request' = request
    BY DEF SetStatus
  <2> HIDE DEF undone
  <2> QED
    BY <2>1, <2>2, <2>3 DEF RowsFit, Exists
<1>7. CASE \E t \in Tasks : DeleteTask(r, t)
  BY <1>7 DEF DeleteTask, RowsFit, Exists
<1>8. CASE \E t \in Tasks : RestoreTask(r, t)
  BY <1>8 DEF RestoreTask, RowsFit, Exists
<1>9. CASE \E t \in Tasks : PurgeTask(r, t)
  BY <1>9 DEF PurgeTask, RowsFit, Exists, Places
<1>10. CASE Abort(r)
  BY <1>10, DoneFits DEF Abort, RowsFit, Exists
<1> QED
  BY <1>1, <1>2, <1>3, <1>4, <1>5, <1>6, <1>7, <1>8, <1>9, <1>10, <1>11

LEMMA NextKeepsRows == RowsFit /\ [Next]_vars => RowsFit'
<1> SUFFICES ASSUME RowsFit, [Next]_vars
             PROVE  RowsFit'
  OBVIOUS
<1>1. CASE \E s \in Sprints : CreateSprint(s)
  BY <1>1 DEF CreateSprint, RowsFit, Exists, Places
<1>2. CASE \E r \in Requests :
             \/ \E s \in Sprints : StartBegin(r, s) \/ CompleteBegin(r, s) \/ DeleteBegin(r, s)
             \/ StartJudge(r) \/ Activate(r) \/ CompleteRead(r) \/ Complete(r)
             \/ DeleteSprint(r)
  <2> PICK r \in Requests :
             \/ \E s \in Sprints : StartBegin(r, s) \/ CompleteBegin(r, s) \/ DeleteBegin(r, s)
             \/ StartJudge(r) \/ Activate(r) \/ CompleteRead(r) \/ Complete(r)
             \/ DeleteSprint(r)
    BY <1>2
  <2>1. CASE \E s \in Sprints : StartBegin(r, s) \/ CompleteBegin(r, s) \/ DeleteBegin(r, s)
    BY <2>1, SprintStepsKeepTypes
  <2>2. CASE StartJudge(r) \/ Activate(r) \/ CompleteRead(r) \/ Complete(r) \/ DeleteSprint(r)
    <3>1. request[r].sprint \in Sprints
      BY <2>2 DEF StartJudge, Activate, CompleteRead, Complete, DeleteSprint,
                  RowsFit, Request, Idle
    <3> QED
      BY <2>2, <3>1, SprintStepsKeepTypes
  <2> QED
    BY <2>1, <2>2
<1>3. CASE \E r \in Requests :
             \/ \E p \in Places : \/ \E t \in Tasks : CreateBegin(r, t, p)
                                 \/ \E S \in SUBSET Tasks : MoveBegin(r, S, p)
             \/ Insert(r) \/ Move(r) \/ Descend(r) \/ Follow(r)
             \/ \E t \in Tasks : \/ SetStatus(r, t) \/ DeleteTask(r, t)
                                \/ RestoreTask(r, t) \/ PurgeTask(r, t)
             \/ Abort(r)
  BY <1>3, TaskStepsKeepTypes
<1>4. CASE UNCHANGED vars
  BY <1>4 DEF vars, RowsFit, Exists
<1> QED
  BY <1>1, <1>2, <1>3, <1>4 DEF Next

\* Every step keeps the history.
LEMMA NextRemembers == Next => Remember
  BY DEF Next, CreateSprint, StartBegin, CompleteBegin, DeleteBegin, StartJudge, Activate,
         CompleteRead, Complete, DeleteSprint, CreateBegin, MoveBegin, Insert, Move, Descend,
         Follow, SetStatus, DeleteTask, RestoreTask, PurgeTask, Abort

LEMMA NextKeepsTypes == TypeOK /\ [Next]_vars => TypeOK'
<1> SUFFICES ASSUME TypeOK, [Next]_vars
             PROVE  TypeOK'
  OBVIOUS
<1>1. RowsFit'
  BY NextKeepsRows DEF TypeOK, RowsFit
<1>2. (stale \in [Requests -> SUBSET (Sprints \cup Tasks)])'
  <2>1. CASE UNCHANGED vars
    BY <2>1 DEF TypeOK, vars
  <2>2. CASE Next
    <3> DEFINE new(r) == IF request[r] = Idle \/ request'[r] = Idle THEN {}
                         ELSE stale[r] \cup (Changed \cap Read(request'[r]))
    <3>1. \A r \in Requests : new(r) \in SUBSET (Sprints \cup Tasks)
      BY DEF TypeOK, Changed
    <3>2. stale' = [r \in Requests |-> new(r)]
      BY <2>2, NextRemembers DEF Remember
    <3> HIDE DEF new
    <3> QED
      BY <3>1, <3>2
  <2> QED
    BY <2>1, <2>2
<1> QED
  BY <1>1, <1>2 DEF TypeOK, RowsFit

\* Every sprint, task and request has its type, and no task is planned into a
\* sprint without a row (the foreign key), in every reachable state.
THEOREM TypeCorrect == Spec => []TypeOK
<1>1. Init => TypeOK
  BY InitTypes
<1>2. TypeOK /\ [Next]_vars => TypeOK'
  BY NextKeepsTypes
<1> QED
  BY <1>1, <1>2, PTL DEF Spec

-----------------------------------------------------------------------------
(* The index *)

\* Only Activate makes a sprint active, and the index judges at that moment.
LEMMA BecomesActive ==
    ASSUME TypeOK, [Next]_vars, NEW s \in Sprints, state'[s] = "ACTIVE", state[s] # "ACTIVE"
    PROVE  \A o \in Sprints \ {s} : state'[o] # "ACTIVE"
<1>1. PICK r \in Requests : Activate(r)
  BY DEF Next, vars, TypeOK, CreateSprint, StartBegin, CompleteBegin, DeleteBegin, StartJudge,
         CompleteRead, Complete, DeleteSprint, CreateBegin, MoveBegin, Insert, Move, Descend, Follow,
         SetStatus, DeleteTask, RestoreTask, PurgeTask, Abort
<1>2. request[r].sprint = s /\ Activable(s)
  BY <1>1 DEF Activate, TypeOK
<1> QED
  BY <1>1, <1>2 DEF Activate, Activable, TypeOK

\* However starts race, a project has one active sprint (the partial index
\* sprints_one_active_per_project).
THEOREM OneSprintIsActive == Spec => []OneActiveSprint
<1>1. Init => OneActiveSprint
  BY DEF Init, OneActiveSprint
<1>2. TypeOK /\ OneActiveSprint /\ [Next]_vars => OneActiveSprint'
  <2> SUFFICES ASSUME TypeOK, OneActiveSprint, [Next]_vars,
                      NEW s \in Sprints, NEW o \in Sprints,
                      state'[s] = "ACTIVE", state'[o] = "ACTIVE"
               PROVE  s = o
    BY DEF OneActiveSprint
  <2>1. CASE state[s] = "ACTIVE" /\ state[o] = "ACTIVE"
    BY <2>1 DEF OneActiveSprint
  <2>2. CASE state[s] # "ACTIVE" \/ state[o] # "ACTIVE"
    BY <2>2, BecomesActive
  <2> QED
    BY <2>1, <2>2
<1> QED
  BY <1>1, <1>2, TypeCorrect, PTL DEF Spec

-----------------------------------------------------------------------------
(* What was read *)

\* What handler r read, as far as it is not stale, still holds: the sprint it
\* judged, and the list of unfinished tasks.
Holds(q, S) ==
    /\ q.pc \in {"findActive", "activate", "delete"} /\ q.sprint \notin S =>
           state[q.sprint] = "PLANNING"
    /\ q.pc \in {"move", "children", "follow"} /\ q.sprint \notin S \cup {Backlog} =>
           state[q.sprint] # "COMPLETED"
    /\ q.pc = "complete" =>
           \A t \in Tasks \ S : t \in q.return <=> t \in Unfinished(q.sprint)

ReadHolds == \A r \in Requests : Holds(request[r], stale[r])

\* A handler under way forgets nothing that changed, and what it read and does
\* not remember as changed is as it was.
LEMMA NotStale ==
    ASSUME TypeOK, Remember, NEW r \in Requests, request[r] # Idle, request'[r] # Idle
    PROVE  /\ stale[r] \subseteq stale'[r]
           /\ \A s \in Sprints : request'[r].sprint = s /\ s \notin stale'[r] =>
                state'[s] = state[s]
           /\ request'[r].pc = "complete" =>
                \A t \in Tasks \ stale'[r] : task'[t] = task[t]
<1>1. stale'[r] = stale[r] \cup (Changed \cap Read(request'[r]))
  BY DEF Remember
<1> QED
  BY <1>1 DEF Changed, Read

\* So what still held of a handler that waits still holds.
LEMMA WaitingKeeps ==
    ASSUME TypeOK, Remember, NEW r \in Requests, request'[r] = request[r],
           Holds(request[r], stale[r])
    PROVE  Holds(request[r], stale[r])'
<1>1. CASE request[r] = Idle
  BY <1>1 DEF Holds, Idle
<1>2. CASE request[r] # Idle
  <2> DEFINE q == request[r]
  <2>1. /\ stale[r] \subseteq stale'[r]
        /\ \A s \in Sprints : q.sprint = s /\ s \notin stale'[r] => state'[s] = state[s]
        /\ q.pc = "complete" => \A t \in Tasks \ stale'[r] : task'[t] = task[t]
    BY <1>2, NotStale
  <2>2. /\ q.pc \in {"findActive", "activate", "delete"} => q.sprint \in Sprints
        /\ q.pc \in {"move", "children", "follow"} => q.sprint \in Sprints \cup {Backlog}
    BY DEF TypeOK, Request, Idle, Places
  <2>3. q.pc = "complete" =>
          \A t \in Tasks \ stale'[r] : t \in Unfinished(q.sprint)' <=> t \in Unfinished(q.sprint)
    BY <2>1 DEF Unfinished, In, Live
  <2> QED
    BY <2>1, <2>2, <2>3 DEF Holds
<1> QED
  BY <1>1, <1>2

\* The steps of one handler.
RequestStep(r) ==
    \/ \E s \in Sprints : StartBegin(r, s) \/ CompleteBegin(r, s) \/ DeleteBegin(r, s)
    \/ StartJudge(r) \/ Activate(r) \/ CompleteRead(r) \/ Complete(r) \/ DeleteSprint(r)
    \/ \E p \in Places : \/ \E t \in Tasks : CreateBegin(r, t, p)
                        \/ \E S \in SUBSET Tasks : MoveBegin(r, S, p)
    \/ Insert(r) \/ Move(r) \/ Descend(r) \/ Follow(r)
    \/ \E t \in Tasks : \/ SetStatus(r, t) \/ DeleteTask(r, t)
                       \/ RestoreTask(r, t) \/ PurgeTask(r, t)
    \/ Abort(r)

\* A handler's own step, if it goes on, leaves the sprint's state alone, and what
\* it reads is so.
LEMMA ActingKeeps ==
    ASSUME TypeOK, NEW r \in Requests, RequestStep(r), Remember, request'[r] # request[r],
           Holds(request[r], stale[r])
    PROVE  Holds(request[r], stale[r])'
<1>1. CASE request'[r] = Idle
  BY <1>1 DEF Holds, Idle
<1>2. CASE request'[r] # Idle
  <2>1. CASE \E s \in Sprints : StartBegin(r, s) \/ CompleteBegin(r, s) \/ DeleteBegin(r, s)
    BY <2>1 DEF StartBegin, CompleteBegin, DeleteBegin, Startable, Holds, TypeOK
  <2>2. CASE StartJudge(r)
    <3>1. /\ state' = state /\ request[r].pc = "findActive" /\ request[r] # Idle
          /\ request'[r].pc = "activate" /\ request'[r].sprint = request[r].sprint
      BY <1>2, <2>2 DEF StartJudge, TypeOK, Request, Idle
    <3>2. stale[r] \subseteq stale'[r]
      BY <1>2, <3>1, NotStale
    <3> QED
      BY <3>1, <3>2 DEF Holds
  <2>3. CASE CompleteRead(r)
    <3> PICK s : s = request[r].sprint
      OBVIOUS
    <3>1. request'[r] = [pc |-> "complete", sprint |-> s, return |-> Unfinished(s)]
          /\ task' = task
      BY <2>3 DEF CompleteRead, TypeOK, Returned
    <3>2. Unfinished(s)' = Unfinished(s)
      BY <3>1 DEF Unfinished, In, Live
    <3> QED
      BY <3>1, <3>2 DEF Holds
  <2>4. CASE \E p \in Places : \/ \E t \in Tasks : CreateBegin(r, t, p)
                              \/ \E S \in SUBSET Tasks : MoveBegin(r, S, p)
    BY <2>4 DEF CreateBegin, MoveBegin, TakesTasks, Holds, TypeOK
  <2>5. CASE Move(r) \/ Descend(r) \/ Follow(r)
    <3>1. /\ state' = state /\ request[r] # Idle
          /\ request[r].pc \in {"move", "children", "follow"}
          /\ request'[r].pc \in {"children", "follow"}
          /\ request'[r].sprint = request[r].sprint
      BY <1>2, <2>5 DEF Move, Descend, Follow, Children, Done, TypeOK, Idle
    <3>2. stale[r] \subseteq stale'[r]
      BY <1>2, <3>1, NotStale
    <3> QED
      BY <3>1, <3>2 DEF Holds
  <2>6. CASE \E t \in Tasks : \/ SetStatus(r, t) \/ DeleteTask(r, t)
                             \/ RestoreTask(r, t) \/ PurgeTask(r, t)
    BY <2>6 DEF SetStatus, DeleteTask, RestoreTask, PurgeTask
  <2>7. CASE Activate(r) \/ Complete(r) \/ DeleteSprint(r) \/ Insert(r) \/ Abort(r)
    BY <1>2, <2>7 DEF Activate, Complete, DeleteSprint, Insert, Abort, Done, TypeOK
  <2> QED
    BY <2>1, <2>2, <2>3, <2>4, <2>5, <2>6, <2>7 DEF RequestStep
<1> QED
  BY <1>1, <1>2

\* Handlers only step on their own request.
LEMMA OthersWait ==
    ASSUME TypeOK, NEW r \in Requests, RequestStep(r), NEW o \in Requests, o # r
    PROVE  request'[o] = request[o]
  BY DEF RequestStep, StartBegin, CompleteBegin, DeleteBegin, StartJudge, Activate,
         CompleteRead, Complete, DeleteSprint, CreateBegin, MoveBegin, Insert, Move, Descend,
         Follow, SetStatus, DeleteTask, RestoreTask, PurgeTask, Abort, Done, TypeOK

LEMMA NextKeepsRead == TypeOK /\ ReadHolds /\ [Next]_vars => ReadHolds'
<1> SUFFICES ASSUME TypeOK, ReadHolds, [Next]_vars, NEW o \in Requests
             PROVE  Holds(request[o], stale[o])'
  BY DEF ReadHolds
<1>0. Holds(request[o], stale[o])
  BY DEF ReadHolds
<1>1. CASE UNCHANGED vars
  BY <1>0, <1>1 DEF vars, Holds, Unfinished, In, Live
<1>2. CASE \E s \in Sprints : CreateSprint(s)
  <2>1. request' = request /\ Remember
    BY <1>2 DEF CreateSprint
  <2> QED
    BY <1>0, <2>1, WaitingKeeps
<1>3. CASE \E r \in Requests : RequestStep(r)
  <2> PICK r \in Requests : RequestStep(r)
    BY <1>3
  <2>1. Remember
    BY NextRemembers DEF Next, RequestStep
  <2>2. CASE request'[o] = request[o]
    BY <1>0, <2>1, <2>2, WaitingKeeps
  <2>3. CASE request'[o] # request[o]
    <3>1. o = r
      BY <2>3, OthersWait
    <3> QED
      BY <1>0, <2>1, <2>3, <3>1, ActingKeeps
  <2> QED
    BY <2>2, <2>3
<1> QED
  BY <1>1, <1>2, <1>3 DEF Next, RequestStep

LEMMA ReadInvariant == Spec => [](TypeOK /\ ReadHolds)
<1>1. Init => TypeOK /\ ReadHolds
  BY InitTypes DEF Init, ReadHolds, Holds, Idle
<1>2. TypeOK /\ ReadHolds /\ [Next]_vars => (TypeOK /\ ReadHolds)'
  BY NextKeepsTypes, NextKeepsRead
<1> QED
  BY <1>1, <1>2, PTL DEF Spec

-----------------------------------------------------------------------------
(* What only a stale read can do *)

\* Which steps write a sprint's state.
LEMMA StateWriters ==
    ASSUME [Next]_vars, state' # state
    PROVE  \/ \E s \in Sprints : CreateSprint(s)
           \/ \E r \in Requests : Activate(r) \/ Complete(r) \/ DeleteSprint(r)
  BY DEF Next, vars, StartBegin, CompleteBegin, DeleteBegin, StartJudge,
         CompleteRead, CreateBegin, MoveBegin, Insert, Move, Descend, Follow,
         SetStatus, DeleteTask, RestoreTask, PurgeTask, Abort

\* A handler that ends has acted.
LEMMA Ends ==
    ASSUME TypeOK, NEW r \in Requests, request[r].pc # "idle", Done(r), NEW x, Fresh(x)
    PROVE  x \notin stale[r]
  BY DEF TypeOK, Done, Idle, Fresh

\* However starts, completions and deletions overlap, a sprint leaves COMPLETED,
\* or ACTIVE other than by completion, only by a start or a deletion that loaded
\* it before its state changed.
THEOREM StaleReadsTurnBack == Spec => OnlyStaleReadsTurnBack
<1> DEFINE Kept == \A s \in Sprints : Fresh(s) => KeepsWay(s)
<1>1. TypeOK /\ ReadHolds /\ [Next]_vars => [Kept]_vars
  <2> SUFFICES ASSUME TypeOK, ReadHolds, [Next]_vars, NEW s \in Sprints, Fresh(s)
               PROVE  KeepsWay(s)
    OBVIOUS
  <2>1. CASE state' = state
    BY <2>1 DEF KeepsWay
  <2>2. CASE \E o \in Sprints : CreateSprint(o)
    BY <2>2 DEF CreateSprint, KeepsWay, TypeOK
  <2>3. CASE \E r \in Requests : Activate(r)
    <3> PICK r \in Requests : Activate(r)
      BY <2>3
    <3>1. s \notin stale[r]
      BY Ends DEF Activate
    <3>2. request[r].sprint = s => state[s] = "PLANNING"
      BY <3>1 DEF Activate, ReadHolds, Holds
    <3> QED
      BY <3>2 DEF Activate, KeepsWay, TypeOK
  <2>4. CASE \E r \in Requests : Complete(r)
    BY <2>4 DEF Complete, KeepsWay, TypeOK
  <2>5. CASE \E r \in Requests : DeleteSprint(r)
    <3> PICK r \in Requests : DeleteSprint(r)
      BY <2>5
    <3>1. s \notin stale[r]
      BY Ends DEF DeleteSprint
    <3>2. request[r].sprint = s => state[s] = "PLANNING"
      BY <3>1 DEF DeleteSprint, ReadHolds, Holds
    <3> QED
      BY <3>2 DEF DeleteSprint, KeepsWay, TypeOK
  <2> QED
    BY <2>1, <2>2, <2>3, <2>4, <2>5, StateWriters
<1> QED
  BY <1>1, ReadInvariant, PTL DEF Spec, OnlyStaleReadsTurnBack

\* However requests overlap, completing a sprint sends each of its unfinished
\* tasks to the backlog and moves no other task, but for those written after the
\* unfinished ones were listed.
THEOREM LateWritesAreMissorted == Spec => OnlyLateWritesAreMissorted
<1> DEFINE Kept == \A s \in Sprints, t \in Tasks : Completes(s) /\ Fresh(t) => Sorted(t, s)
<1>1. TypeOK /\ ReadHolds /\ [Next]_vars => [Kept]_vars
  <2> SUFFICES ASSUME TypeOK, ReadHolds, [Next]_vars, NEW s \in Sprints, NEW t \in Tasks,
                      Completes(s), Fresh(t)
               PROVE  Sorted(t, s)
    OBVIOUS
  <2>1. PICK r \in Requests : Complete(r)
    BY StateWriters DEF Completes, CreateSprint, Activate, DeleteSprint, TypeOK
  <2>2. Exists(request[r].sprint) /\ request[r].sprint = s
    BY <2>1 DEF Complete, Completes, TypeOK
  <2>3. t \notin stale[r]
    BY <2>1, Ends DEF Complete
  <2>4. t \in request[r].return <=> t \in Unfinished(s)
    BY <2>1, <2>2, <2>3 DEF Complete, ReadHolds, Holds
  <2>5. task' = Planned(request[r].return, Backlog)
    BY <2>1, <2>2 DEF Complete
  <2> QED
    BY <2>4, <2>5 DEF Sorted, Planned, TypeOK
<1> QED
  BY <1>1, ReadInvariant, PTL DEF Spec, OnlyLateWritesAreMissorted

\* The steps that plan a task elsewhere, and where: completing and deleting send
\* it to the backlog, a move to the sprint that was checked.
LEMMA PlanWriters ==
    ASSUME TypeOK, [Next]_vars, NEW t \in Tasks, Live(t), task'[t].sprint # task[t].sprint
    PROVE  \/ task'[t].sprint = Backlog
           \/ \E r \in Requests : /\ Move(r) \/ Follow(r)
                                  /\ task'[t].sprint = request[r].sprint
<1> USE DEF TypeOK, Live
<1>1. CASE \E r \in Requests : Complete(r) \/ DeleteSprint(r)
  BY <1>1 DEF Complete, DeleteSprint, Emptied, Planned
<1>2. CASE \E r \in Requests : Move(r) \/ Follow(r)
  <2> PICK r \in Requests : Move(r) \/ Follow(r)
    BY <1>2
  <2>1. task'[t].sprint \in {task[t].sprint, request[r].sprint}
    BY DEF Move, Follow, Moved, Planned
  <2> QED
    BY <2>1
<1>3. CASE \E r \in Requests : Insert(r)
  BY <1>3 DEF Insert
<1>4. CASE \E r \in Requests, u \in Tasks :
             SetStatus(r, u) \/ DeleteTask(r, u) \/ RestoreTask(r, u) \/ PurgeTask(r, u)
  BY <1>4 DEF SetStatus, DeleteTask, RestoreTask, PurgeTask, Restorable
<1> QED
  BY <1>1, <1>2, <1>3, <1>4 DEF Next, vars, CreateSprint, StartBegin, CompleteBegin,
     DeleteBegin, StartJudge, Activate, CompleteRead, CreateBegin, MoveBegin, Descend, Abort

\* However requests overlap, only a move that checked a sprint before it was
\* completed, or what follows such a move, puts a live task into it.
THEOREM StaleMovesLand == Spec => OnlyStaleMovesLand
<1> DEFINE Kept == \A s \in Sprints, t \in Tasks :
                     state[s] = "COMPLETED" /\ Live(t) /\ Fresh(s) => ~Lands(t, s)
<1>1. TypeOK /\ ReadHolds /\ [Next]_vars => [Kept]_vars
  <2> SUFFICES ASSUME TypeOK, ReadHolds, [Next]_vars, NEW s \in Sprints, NEW t \in Tasks,
                      state[s] = "COMPLETED", Live(t), Fresh(s), Lands(t, s)
               PROVE  FALSE
    OBVIOUS
  <2>1. task'[t].sprint = s /\ task[t].sprint # s
    BY DEF Lands, In
  <2>2. s # Backlog
    BY BacklogAssumption
  <2>3. PICK r \in Requests : (Move(r) \/ Follow(r)) /\ request[r].sprint = s
    BY <2>1, <2>2, PlanWriters
  <2>4. request[r].pc \in {"move", "follow"} /\ request'[r] # request[r]
    BY <2>3 DEF Move, Follow, Children, Done, Idle, TypeOK
  <2>5. s \notin stale[r]
    BY <2>4 DEF Fresh
  <2> QED
    BY <2>2, <2>3, <2>4, <2>5 DEF ReadHolds, Holds
<1> QED
  BY <1>1, ReadInvariant, PTL DEF Spec, OnlyStaleMovesLand

=============================================================================
