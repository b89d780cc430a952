--------------------------- MODULE SprintLifecycle ---------------------------
(***************************************************************************)
(* The sprints of one project and the tasks planned into them: planning,   *)
(* start, completion and deletion, and the task writes that put work into  *)
(* a sprint, take it out or finish it.                                     *)
(*                                                                         *)
(* Each handler judges a sprint as loadSprint or checkSprint read it and   *)
(* writes by id later; only the index sprints_one_active_per_project and   *)
(* the foreign key on tasks judge at the moment of the write.              *)
(***************************************************************************)

CONSTANTS
    Sprints,   \* rows of the table, bounding how many are ever created
    Tasks,     \* rows of the table, bounding how many are ever created
    Requests,  \* requests that can be in flight at once
    Backlog    \* sprintId is null

ASSUME BacklogAssumption == Backlog \notin Sprints

VARIABLES
    state,    \* state[s]: the sprint's state, or that it has no row
    task,     \* task[t]: is it live, in the trash or without a row; where it is
              \* planned; and whether its group is COMPLETE
    request,  \* request[r]: the handler running in slot r
    stale     \* history: stale[r] is what has changed since that handler read it

vars == <<state, task, request, stale>>

-----------------------------------------------------------------------------
Places == Sprints \cup {Backlog}

Idle == [pc |-> "idle"]

Request ==
    {Idle}
      \cup [pc : {"findActive", "activate", "unfinished", "delete"}, sprint : Sprints]
      \cup [pc : {"complete"}, sprint : Sprints, return : SUBSET Tasks]
      \cup [pc : {"insert", "move", "children", "follow"}, sprint : Places, tasks : SUBSET Tasks]

Exists(s) == state[s] \in {"PLANNING", "ACTIVE", "COMPLETED"}

Live(t) == task[t].state = "live"

In(t, s) == Live(t) /\ task[t].sprint = s

TypeOK ==
    /\ state \in [Sprints -> {"none", "PLANNING", "ACTIVE", "COMPLETED", "deleted"}]
    /\ task \in [Tasks -> [state : {"none", "live", "trash", "gone"},
                           sprint : Places, done : BOOLEAN]]
    /\ request \in [Requests -> Request]
    /\ stale \in [Requests -> SUBSET (Sprints \cup Tasks)]
    /\ \A t \in Tasks : task[t].sprint # Backlog => Exists(task[t].sprint)

Unfinished(s) == {t \in Tasks : In(t, s) /\ ~task[t].done}

\* The rows of S as they are once planned into p.
Planned(S, p) ==
    [t \in Tasks |-> IF t \in S THEN [task[t] EXCEPT !.sprint = p] ELSE task[t]]

Done(r) == request' = [request EXCEPT ![r] = Idle]

-----------------------------------------------------------------------------
(* History *)

\* What handler q has read and will act on: the sprint it judged and, when it
\* completes one, the tasks it sorted.
Read(q) ==
    {s \in Sprints : q # Idle /\ q.sprint = s} \cup {t \in Tasks : q.pc = "complete"}

Changed == {s \in Sprints : state'[s] # state[s]} \cup {t \in Tasks : task'[t] # task[t]}

Remember ==
    stale' = [r \in Requests |->
                IF request[r] = Idle \/ request'[r] = Idle THEN {}
                ELSE stale[r] \cup (Changed \cap Read(request'[r]))]

-----------------------------------------------------------------------------
(* Plausible slips *)

NoIndex(s) == Exists(s)
StartableAlways(s) == Exists(s)
ReturnTheDeleted(s) == {t \in Tasks : task[t].sprint = s /\ ~task[t].done}
AnySprint(p) == TRUE
LeftBehind(s) == task

-----------------------------------------------------------------------------
(* Sprints *)

CreateSprint(s) ==
    /\ state[s] = "none"
    /\ state' = [state EXCEPT ![s] = "PLANNING"]
    /\ UNCHANGED <<task, request>>
    /\ Remember

\* startSprint, on the sprint as the guard loaded it.
Startable(s) == state[s] = "PLANNING"

StartBegin(r, s) ==
    /\ request[r] = Idle
    /\ Startable(s)
    /\ request' = [request EXCEPT ![r] = [pc |-> "findActive", sprint |-> s]]
    /\ UNCHANGED <<state, task>>
    /\ Remember

StartJudge(r) ==
    /\ request[r].pc = "findActive"
    /\ request' = [request EXCEPT ![r] =
         IF \E s \in Sprints : state[s] = "ACTIVE" THEN Idle ELSE [@ EXCEPT !.pc = "activate"]]
    /\ UNCHANGED <<state, task>>
    /\ Remember

\* The update succeeds on any row, beside no other active one.
Activable(s) == Exists(s) /\ \A o \in Sprints \ {s} : state[o] # "ACTIVE"

Activate(r) ==
    LET s == request[r].sprint IN
    /\ request[r].pc = "activate"
    /\ state' = [state EXCEPT ![s] = IF Activable(s) THEN "ACTIVE" ELSE @]
    /\ Done(r)
    /\ UNCHANGED task
    /\ Remember

\* completeSprint reads the unfinished tasks before its transaction.
CompleteBegin(r, s) ==
    /\ request[r] = Idle
    /\ state[s] = "ACTIVE"
    /\ request' = [request EXCEPT ![r] = [pc |-> "unfinished", sprint |-> s]]
    /\ UNCHANGED <<state, task>>
    /\ Remember

Returned(s) == Unfinished(s)

CompleteRead(r) ==
    LET s == request[r].sprint IN
    /\ request[r].pc = "unfinished"
    /\ request' = [request EXCEPT ![r] =
         [pc |-> "complete", sprint |-> s, return |-> Returned(s)]]
    /\ UNCHANGED <<state, task>>
    /\ Remember

\* Both writes, or neither if the row is gone.
Complete(r) ==
    LET s == request[r].sprint IN
    /\ request[r].pc = "complete"
    /\ IF Exists(s)
       THEN /\ state' = [state EXCEPT ![s] = "COMPLETED"]
            /\ task' = Planned(request[r].return, Backlog)
       ELSE UNCHANGED <<state, task>>
    /\ Done(r)
    /\ Remember

DeleteBegin(r, s) ==
    /\ request[r] = Idle
    /\ state[s] = "PLANNING"
    /\ request' = [request EXCEPT ![r] = [pc |-> "delete", sprint |-> s]]
    /\ UNCHANGED <<state, task>>
    /\ Remember

\* The foreign key returns the tasks to the backlog, the deleted ones too.
Emptied(s) == Planned({t \in Tasks : task[t].sprint = s}, Backlog)

DeleteSprint(r) ==
    LET s == request[r].sprint IN
    /\ request[r].pc = "delete"
    /\ state' = [state EXCEPT ![s] = "deleted"]
    /\ task' = Emptied(s)
    /\ Done(r)
    /\ Remember

-----------------------------------------------------------------------------
(* Tasks *)

\* checkSprint: a sprint of this project that is not completed, or none.
TakesTasks(p) == p \in {Backlog} \cup {s \in Sprints : state[s] \in {"PLANNING", "ACTIVE"}}

\* A new sub-task takes its parent's sprint without a check.
Inherited(p) == \E t \in Tasks : In(t, p)

CreateBegin(r, t, p) ==
    /\ request[r] = Idle
    /\ task[t].state = "none"
    /\ TakesTasks(p) \/ Inherited(p)
    /\ request' = [request EXCEPT ![r] = [pc |-> "insert", sprint |-> p, tasks |-> {t}]]
    /\ UNCHANGED <<state, task>>
    /\ Remember

\* A write of sprintId fails on a sprint that is gone.
Writable(p) == p = Backlog \/ p \in {s \in Sprints : Exists(s)}

Insert(r) ==
    LET q == request[r] IN
    /\ q.pc = "insert"
    /\ \E done \in BOOLEAN :
         task' = [t \in Tasks |->
                    IF t \in q.tasks /\ task[t].state = "none" /\ Writable(q.sprint)
                    THEN [state |-> "live", sprint |-> q.sprint, done |-> done]
                    ELSE task[t]]
    /\ Done(r)
    /\ UNCHANGED state
    /\ Remember

\* updateTask, moveTask and bulkUpdateTasks with a sprintId.
MoveBegin(r, S, p) ==
    /\ request[r] = Idle
    /\ S # {} /\ \A t \in S : Live(t)
    /\ TakesTasks(p)
    /\ request' = [request EXCEPT ![r] = [pc |-> "move", sprint |-> p, tasks |-> S]]
    /\ UNCHANGED <<state, task>>
    /\ Remember

\* One transaction, by id, which fails as a whole.
Movable(S, p) == Writable(p) /\ \A t \in S : task[t].state # "gone"

Moved(S, p) == IF Movable(S, p) THEN Planned(S, p) ELSE task

Children(p) == [pc |-> "children", sprint |-> p, tasks |-> {}]

\* The sub-tasks follow: after a bulk move always, after one of a single task if
\* it was planned elsewhere when the handler loaded it.
Move(r) ==
    LET q == request[r] IN
    /\ q.pc = "move"
    /\ task' = Moved(q.tasks, q.sprint)
    /\ \/ Done(r)
       \/ /\ Movable(q.tasks, q.sprint)
          /\ request' = [request EXCEPT ![r] = Children(q.sprint)]
    /\ UNCHANGED state
    /\ Remember

\* moveSubtreeToSprint reads one level of live sub-tasks, whichever they are, ...
Descend(r) ==
    /\ request[r].pc = "children"
    /\ \/ Done(r)
       \/ \E S \in SUBSET {t \in Tasks : Live(t)} :
            /\ S # {}
            /\ request' = [request EXCEPT ![r] =
                 [pc |-> "follow", sprint |-> request[r].sprint, tasks |-> S]]
    /\ UNCHANGED <<state, task>>
    /\ Remember

\* ... and writes those that still have a row, before it goes a level down.
Follow(r) ==
    LET q == request[r] IN
    /\ q.pc = "follow"
    /\ IF Writable(q.sprint)
       THEN /\ task' = Planned({t \in q.tasks : task[t].state # "gone"}, q.sprint)
            /\ request' = [request EXCEPT ![r] = Children(q.sprint)]
       ELSE Done(r) /\ UNCHANGED task
    /\ UNCHANGED state
    /\ Remember

\* The writes below are requests of their own, whose reads do not bear on the
\* sprint: a status change that enters or leaves the Complete group, and the
\* way into the trash and out of it.
SetStatus(r, t) ==
    /\ request[r] = Idle
    /\ Live(t)
    /\ task' = [task EXCEPT ![t].done = ~@]
    /\ UNCHANGED <<state, request>>
    /\ Remember

DeleteTask(r, t) ==
    /\ request[r] = Idle
    /\ Live(t)
    /\ task' = [task EXCEPT ![t].state = "trash"]
    /\ UNCHANGED <<state, request>>
    /\ Remember

Restorable(t) == task[t].state = "trash"

RestoreTask(r, t) ==
    /\ request[r] = Idle
    /\ Restorable(t)
    /\ task' = [task EXCEPT ![t].state = "live"]
    /\ UNCHANGED <<state, request>>
    /\ Remember

PurgeTask(r, t) ==
    /\ request[r] = Idle
    /\ Restorable(t)
    /\ task' = [task EXCEPT ![t] = [state |-> "gone", sprint |-> Backlog, done |-> FALSE]]
    /\ UNCHANGED <<state, request>>
    /\ Remember

\* A handler fails, or its process dies, between two of its steps.
Abort(r) ==
    /\ request[r] # Idle
    /\ Done(r)
    /\ UNCHANGED <<state, task>>
    /\ Remember

-----------------------------------------------------------------------------
Init ==
    /\ state = [s \in Sprints |-> "none"]
    /\ task = [t \in Tasks |-> [state |-> "none", sprint |-> Backlog, done |-> FALSE]]
    /\ request = [r \in Requests |-> Idle]
    /\ stale = [r \in Requests |-> {}]

Next ==
    \/ \E s \in Sprints : CreateSprint(s)
    \/ \E r \in Requests :
         \/ \E s \in Sprints : StartBegin(r, s) \/ CompleteBegin(r, s) \/ DeleteBegin(r, s)
         \/ StartJudge(r) \/ Activate(r) \/ CompleteRead(r) \/ Complete(r) \/ DeleteSprint(r)
         \/ \E p \in Places : \/ \E t \in Tasks : CreateBegin(r, t, p)
                             \/ \E S \in SUBSET Tasks : MoveBegin(r, S, p)
         \/ Insert(r) \/ Move(r) \/ Descend(r) \/ Follow(r)
         \/ \E t \in Tasks : \/ SetStatus(r, t) \/ DeleteTask(r, t)
                            \/ RestoreTask(r, t) \/ PurgeTask(r, t)
         \/ Abort(r)

Spec == Init /\ [][Next]_vars

-----------------------------------------------------------------------------
(* Properties *)

\* Whatever starts race, one sprint of the project is active.
OneActiveSprint ==
    \A s, o \in Sprints : state[s] = "ACTIVE" /\ state[o] = "ACTIVE" => s = o

\* The handler that takes this step, if one does, knows x as it is.
Fresh(x) == \A r \in Requests : request'[r] # request[r] => x \notin stale[r]

\* "THE LIFECYCLE IS ONE WAY": a completed sprint stays completed, and the way
\* out of a running sprint is to complete it.
KeepsWay(s) ==
    /\ state[s] = "COMPLETED" => state'[s] = "COMPLETED"
    /\ state[s] = "ACTIVE" => state'[s] \in {"ACTIVE", "COMPLETED"}

OneWay == [][\A s \in Sprints : KeepsWay(s)]_vars

\* However requests overlap, only a start or a deletion that judged the sprint
\* before its state changed turns the lifecycle back.
OnlyStaleReadsTurnBack == [][\A s \in Sprints : Fresh(s) => KeepsWay(s)]_vars

\* "COMPLETING RETURNS UNFINISHED WORK TO THE BACKLOG", and every other task
\* stays where it is planned.
Completes(s) == state[s] # "COMPLETED" /\ state'[s] = "COMPLETED"

Sorted(t, s) ==
    task'[t].sprint = IF t \in Unfinished(s) THEN Backlog ELSE task[t].sprint

CompletingSortsTasks ==
    [][\A s \in Sprints, t \in Tasks : Completes(s) => Sorted(t, s)]_vars

\* However requests overlap, only a task written between the list of unfinished
\* tasks and the transaction is sorted wrongly.
OnlyLateWritesAreMissorted ==
    [][\A s \in Sprints, t \in Tasks : Completes(s) /\ Fresh(t) => Sorted(t, s)]_vars

\* Task t comes to be live in sprint s.
Lands(t, s) == ~In(t, s) /\ In(t, s)'

\* "A completed sprint is a record of what it delivered, not somewhere new work
\* can land": no move puts a live task there ...
NoLateMove ==
    [][\A s \in Sprints, t \in Tasks :
         state[s] = "COMPLETED" /\ Live(t) => ~Lands(t, s)]_vars

\* However requests overlap, only a move or a sub-task of one that checked the
\* sprint before it was completed puts a live task there.
OnlyStaleMovesLand ==
    [][\A s \in Sprints, t \in Tasks :
         state[s] = "COMPLETED" /\ Live(t) /\ Fresh(s) => ~Lands(t, s)]_vars

\* ... no task is created there ...
NoLateTask ==
    [][\A s \in Sprints, t \in Tasks :
         state[s] = "COMPLETED" /\ task[t].state = "none" => ~Lands(t, s)]_vars

\* ... and none is restored there unfinished.
NoLateRestore ==
    [][\A s \in Sprints, t \in Tasks :
         state[s] = "COMPLETED" /\ task[t].state = "trash" /\ ~task[t].done =>
             ~Lands(t, s)]_vars

=============================================================================
