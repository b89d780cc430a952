---------------------------- MODULE TaskStatuses -----------------------------
(***************************************************************************)
(* The statuses of one project, the tasks standing on them, and when a     *)
(* task counts as completed.                                               *)
(*                                                                         *)
(* A handler reads first and writes by id later, and each read that        *)
(* judges, or decides what is written, is a step.  Names, colours and      *)
(* positions are left out: of the display order only the fallback of       *)
(* findDefault depends, and any status may come first.                     *)
(***************************************************************************)
EXTENDS Naturals, FiniteSets

CONSTANTS
    Statuses,   \* rows of the table, bounding how many are ever created
    Groups,     \* STATUS_GROUPS
    Seeded,     \* the rows ensureDefaults has written, and the group of each
    First,      \* the one of them it made the default
    Tasks,      \* task rows; one in the trash still stands on a status
    NoStatus,   \* the status of a task that does not exist yet
    Requests    \* requests that can be in flight at once

ASSUME TaskStatusesAssumption ==
    /\ "COMPLETE" \in Groups
    /\ DOMAIN Seeded \subseteq Statuses
    /\ \A s \in DOMAIN Seeded : Seeded[s] \in Groups
    /\ First \in DOMAIN Seeded
    /\ NoStatus \notin Statuses

VARIABLES
    status,     \* status[s]: whether the row is there, its group, isDefault
    task,       \* task[t]: the status it stands on, whether completedAt is set
    request,    \* request[r]: the handler running in slot r
    muddled,    \* history: the default was last chosen, or a status deleted since, by
                \* a handler that had read other defaults than it then met
    untied      \* history: tasks whose completedAt was not left to their group

vars == <<status, task, request, muddled, untied>>

-----------------------------------------------------------------------------
(* Rows and requests *)

Status == [state : {"none", "live", "gone"}, group : Groups, default : BOOLEAN]
Task == [status : Statuses \cup {NoStatus}, done : BOOLEAN]

Idle == [op |-> "idle"]
Stamps == {"keep", "set", "clear"}

Request ==
    {Idle}
      \cup [op : {"default"}, status : Statuses, defaults : SUBSET Statuses]
      \cup [op : {"judged"}, status : Statuses, defaults : SUBSET Statuses]
      \cup [op : {"drop"}, status : Statuses, defaults : SUBSET Statuses, instead : Statuses]
      \cup [op : {"create"}, task : Tasks, status : Statuses, done : BOOLEAN]
      \cup [op : {"loaded"}, tasks : SUBSET Tasks, on : Statuses]
      \cup [op : {"selected"}, tasks : SUBSET Tasks, was : SUBSET Tasks]
      \cup [op : {"move"}, status : Statuses, tasks : SUBSET Tasks, stamp : [Tasks -> Stamps]]

Live == {s \in Statuses : status[s].state = "live"}
Defaults == {s \in Live : status[s].default}
Stands(t) == task[t].status # NoStatus
OnIt(s) == {t \in Tasks : task[t].status = s}
Complete(s) == status[s].group = "COMPLETE"

\* Every task stands on a row that is there: the foreign key.
TypeOK ==
    /\ status \in [Statuses -> Status]
    /\ task \in [Tasks -> Task]
    /\ request \in [Requests -> Request]
    /\ muddled \in BOOLEAN
    /\ untied \subseteq Tasks
    /\ \A t \in Tasks : Stands(t) => task[t].status \in Live

Reads(r, q) ==
    /\ request' = [request EXCEPT ![r] = q]
    /\ UNCHANGED <<status, task, muddled, untied>>

Begin(r, q) == request[r] = Idle /\ Reads(r, q)

Done(r) == request' = [request EXCEPT ![r] = Idle]

-----------------------------------------------------------------------------
(* Plausible slips *)

NoneCleared(defaults, s) == {}
AlwaysStamped(was, is) == IF is THEN "set" ELSE "keep"
TasksStay(s, instead) == task

-----------------------------------------------------------------------------
(* Statuses *)

\* createStatus: "never the default".
CreateStatus(s, group) ==
    /\ status[s].state = "none"
    /\ status' = [status EXCEPT ![s] = [state |-> "live", group |-> group, default |-> FALSE]]
    /\ UNCHANGED <<task, request, muddled, untied>>

\* updateStatus with isDefault: findStatus, and the transaction's first statement.
DefaultBegin(r, s) ==
    /\ s \in Live
    /\ Begin(r, [op |-> "default", status |-> s, defaults |-> Defaults])

\* What updateMany clears: the defaults that its snapshot showed it.
Cleared(defaults, s) == defaults \ {s}

\* The transaction commits, or fails without the row.
MakeDefault(r) ==
    LET q == request[r] IN
    /\ q.op = "default"
    /\ IF q.status \in Live
       THEN /\ status' = [s \in Statuses |->
                 [status[s] EXCEPT !.default =
                    s = q.status \/ (@ /\ s \notin Cleared(q.defaults, q.status))]]
            /\ muddled' = (q.defaults # Defaults)
       ELSE UNCHANGED <<status, muddled>>
    /\ Done(r)
    /\ UNCHANGED <<task, untied>>

\* reorderStatuses writes the group of every status that was there when it
\* compared the list, or of none.
Reorder(group) ==
    /\ status' = [s \in Statuses |-> IF s \in Live THEN [status[s] EXCEPT !.group = group[s]]
                                                   ELSE status[s]]
    /\ untied' = untied \cup
         {t \in Tasks : Stands(t) /\ Complete(task[t].status) # (group[task[t].status] = "COMPLETE")}
    /\ UNCHANGED <<task, request, muddled>>

\* findDefault: a default, or else whatever comes first.
Instead == IF Defaults # {} THEN Defaults ELSE Live

\* deleteStatus judges the row, and then looks for the replacement.
Deletable(s) == s \in Live /\ ~status[s].default

DropBegin(r, s) ==
    /\ Deletable(s)
    /\ Begin(r, [op |-> "judged", status |-> s, defaults |-> Defaults])

DropRead(r) ==
    LET q == request[r] IN
    /\ q.op = "judged"
    /\ \E d \in Instead :
         Reads(r, [op |-> "drop", status |-> q.status, defaults |-> q.defaults, instead |-> d])

Rehomed(s, instead) == [t \in Tasks |-> IF t \in OnIt(s) THEN [task[t] EXCEPT !.status = instead]
                                                         ELSE task[t]]

\* Both statements, unless the row is gone, or tasks are left that reference it
\* or would reference a replacement that is gone.
DropStatus(r) ==
    LET q == request[r]
        s == q.status
    IN
    /\ q.op = "drop"
    /\ IF s \in Live /\ (OnIt(s) = {} \/ q.instead \in Live \ {s})
       THEN /\ task' = Rehomed(s, q.instead)
            /\ status' = [status EXCEPT ![s] = [@ EXCEPT !.state = "gone", !.default = FALSE]]
            /\ muddled' = (muddled \/ q.defaults # Defaults)
            /\ untied' = IF Complete(s) = Complete(q.instead) THEN untied ELSE untied \cup OnIt(s)
       ELSE UNCHANGED <<status, task, muddled, untied>>
    /\ Done(r)

-----------------------------------------------------------------------------
(* Tasks *)

\* resolveStatus: the one requested, or a default.
CreateBegin(r, t, s) ==
    /\ ~Stands(t)
    /\ s \in Live
    /\ \E explicit \in BOOLEAN, value \in BOOLEAN :
         Begin(r, [op |-> "create", task |-> t, status |-> s,
                   done |-> IF explicit THEN value ELSE Complete(s)])

\* The insert fails without the status.
Create(r) ==
    LET q == request[r] IN
    /\ q.op = "create"
    /\ IF q.status \in Live /\ ~Stands(q.task)
       THEN /\ task' = [task EXCEPT ![q.task] = [status |-> q.status, done |-> q.done]]
            /\ untied' = IF q.done = Complete(q.status) THEN untied ELSE untied \cup {q.task}
       ELSE UNCHANGED <<task, untied>>
    /\ Done(r)
    /\ UNCHANGED <<status, muddled>>

\* completedAtFor, from whether the groups are COMPLETE.
StampFor(was, is) ==
    CASE is /\ ~was -> "set"
      [] was /\ ~is -> "clear"
      [] was = is -> "keep"

\* What a task as it stands calls for.
Stamped(t, s) == StampFor(Complete(task[t].status), Complete(s))

\* updateTask and moveTask load one task, with the id of its status.
MoveBegin(r, t) ==
    /\ Stands(t)
    /\ Begin(r, [op |-> "loaded", tasks |-> {t}, on |-> task[t].status])

\* bulkUpdateTasks loads several, with the groups of theirs.
BulkBegin(r, ts) ==
    /\ ts # {} /\ \A t \in ts : Stands(t)
    /\ Begin(r, [op |-> "selected", tasks |-> ts, was |-> {t \in ts : Complete(task[t].status)}])

\* previousGroup: a status that is gone by now has none.
WasComplete(q) ==
    IF q.op = "loaded" THEN {t \in q.tasks : q.on \in Live /\ Complete(q.on)} ELSE q.was

\* nextGroup, and a stamp for each task.
MoveRead(r, s) ==
    LET q == request[r]
        StampOf(t) == StampFor(t \in WasComplete(q), Complete(s))
    IN
    /\ q.op \in {"loaded", "selected"}
    /\ s \in Live
    /\ Reads(r, [op |-> "move", status |-> s, tasks |-> q.tasks,
                 stamp |-> [t \in Tasks |-> IF t \in q.tasks THEN StampOf(t) ELSE "keep"]])

\* A PATCH may carry a completedAt next to the status: "exactly what was sent".
PatchBegin(r, t, s, stamp) ==
    /\ Stands(t)
    /\ s \in Live
    /\ Begin(r, [op |-> "move", status |-> s, tasks |-> {t},
                 stamp |-> [u \in Tasks |-> IF u = t THEN stamp ELSE "keep"]])

Restamped(done, stamp) == stamp = "set" \/ (stamp = "keep" /\ done)

\* One transaction, which fails without the status.  A task is tied to its group
\* again by a move into or out of COMPLETE that knows where it stands, and is no
\* longer by a stamp that its status, as it is now, does not call for.
Move(r) ==
    LET q == request[r]
        Right(t) == q.stamp[t] = Stamped(t, q.status)
    IN
    /\ q.op = "move"
    /\ IF q.status \in Live
       THEN /\ task' = [t \in Tasks |->
                 IF t \in q.tasks
                 THEN [status |-> q.status, done |-> Restamped(task[t].done, q.stamp[t])]
                 ELSE task[t]]
            /\ untied' = (untied \ {t \in q.tasks : q.stamp[t] # "keep" /\ Right(t)})
                           \cup {t \in q.tasks : ~Right(t)}
       ELSE UNCHANGED <<task, untied>>
    /\ Done(r)
    /\ UNCHANGED <<status, muddled>>

\* A PATCH that carries only a completedAt.
SetCompleted(t, done) ==
    /\ Stands(t)
    /\ task' = [task EXCEPT ![t].done = done]
    /\ untied' = IF done = Complete(task[t].status) THEN untied ELSE untied \cup {t}
    /\ UNCHANGED <<status, request, muddled>>

\* The write fails, or the process dies before it.
Abort(r) ==
    /\ request[r] # Idle
    /\ Done(r)
    /\ UNCHANGED <<status, task, muddled, untied>>

-----------------------------------------------------------------------------
\* ensureDefaults: the first read of a project's statuses has written them, two
\* first reads being settled by the unique name.
Init ==
    /\ status = [s \in Statuses |->
         IF s \in DOMAIN Seeded
         THEN [state |-> "live", group |-> Seeded[s], default |-> s = First]
         ELSE [state |-> "none", group |-> "COMPLETE", default |-> FALSE]]
    /\ task = [t \in Tasks |-> [status |-> NoStatus, done |-> FALSE]]
    /\ request = [r \in Requests |-> Idle]
    /\ muddled = FALSE /\ untied = {}

Arrive(r) ==
    \/ \E s \in Statuses :
         \/ DefaultBegin(r, s) \/ DropBegin(r, s)
         \/ \E t \in Tasks :
              \/ CreateBegin(r, t, s)
              \/ \E stamp \in {"set", "clear"} : PatchBegin(r, t, s, stamp)
    \/ \E t \in Tasks : MoveBegin(r, t)
    \/ \E ts \in SUBSET Tasks : BulkBegin(r, ts)

Read(r) == DropRead(r) \/ \E s \in Statuses : MoveRead(r, s)

Write(r) == MakeDefault(r) \/ DropStatus(r) \/ Create(r) \/ Move(r) \/ Abort(r)

Next ==
    \/ \E s \in Statuses, group \in Groups : CreateStatus(s, group)
    \/ \E group \in [Statuses -> Groups] : Reorder(group)
    \/ \E t \in Tasks, done \in BOOLEAN : SetCompleted(t, done)
    \/ \E r \in Requests : Arrive(r) \/ Read(r) \/ Write(r)

Spec == Init /\ [][Next]_vars

-----------------------------------------------------------------------------
(* Properties *)

\* "Exactly one default": a project has one whenever the write that last chose
\* it, and those that deleted a status since, met the defaults they had read.  So
\* a muddle takes an overlap, and the next choice that stands alone ends it.
OneDefault == ~muddled => Cardinality(Defaults) = 1

\* The completedAt table of docs/api/task.md, over any number of moves: a task
\* is marked as completed exactly while its status's group is COMPLETE, unless
\* a request set the field, the workflow changed around the task, or a stale
\* move passed another.
CompletedInItsGroup ==
    \A t \in Tasks : Stands(t) /\ t \notin untied => (task[t].done <=> Complete(task[t].status))

\* "Exactly one default", without the exception.
AlwaysOneDefault == Cardinality(Defaults) = 1

=============================================================================
