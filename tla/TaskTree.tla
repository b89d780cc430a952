------------------------------ MODULE TaskTree ------------------------------
(***************************************************************************)
(* The sub-task tree of one project: creation under a parent, re-parenting *)
(* with its ancestor walk, soft deletion, and the trash's restore and      *)
(* purge.                                                                  *)
(*                                                                         *)
(* The walk of checkParent is one read per level; every write comes after  *)
(* the reads that judge it, by id, and nothing is locked.                  *)
(***************************************************************************)
EXTENDS Naturals

CONSTANTS
    Tasks,     \* rows of the table, bounding how many are ever created
    Requests,  \* requests that can be in flight at once
    MaxDepth,  \* MAX_DEPTH
    None       \* no parent

ASSUME TaskTreeAssumption == MaxDepth \in Nat /\ None \notin Tasks

VARIABLES
    row,      \* row[t]: is it live, in the trash or without a row; and its parent
    request,  \* request[r]: the handler running in slot r
    seen,     \* history: seen[r] is the rows that handler has read
    stale,    \* history: the handlers under way that read a row which has changed
    link      \* history: link[t] is what vouches for the parent of t

vars == <<row, request, seen, stale, link>>

-----------------------------------------------------------------------------
Parents == Tasks \cup {None}

Row == [state : {"none", "live", "trash", "gone"}, parent : Parents]

Idle == [pc |-> "idle"]

Request ==
    {Idle}
      \cup [pc : {"insert"}, task : Tasks, parent : Parents]
      \cup [pc : {"walk"}, task : Tasks, parent : Parents, cursor : Parents, depth : 0..MaxDepth]
      \cup [pc : {"delete"}, tasks : SUBSET Tasks]
      \cup [pc : {"restore", "purge"}, task : Tasks]

Live(t) == row[t].state = "live"

Stored(t) == row[t].state \in {"live", "trash"}

TypeOK ==
    /\ row \in [Tasks -> Row]
    /\ request \in [Requests -> Request]
    /\ seen \in [Requests -> SUBSET Tasks]
    /\ stale \subseteq Requests
    /\ link \in [Tasks -> {"checked", "stale", "deep", "restored"}]
    /\ \A t \in Tasks : row[t].parent # None => Stored(t) /\ Stored(row[t].parent)

Done(r) == request' = [request EXCEPT ![r] = Idle]

Gone == [state |-> "gone", parent |-> None]

-----------------------------------------------------------------------------
(* History *)

\* The rows handler q has read as it begins, and will act on.
Loaded(q) ==
    {t \in Tasks : \/ (q.pc \in {"insert", "walk"} /\ q.parent = t)
                  \/ (q.pc \in {"walk", "purge"} /\ q.task = t)}

Acts(r) == request'[r] # request[r]

\* What can be said of a parent that this step writes: the handler knew the rows
\* it had read as they are, and its walk reached the top.
Verdict ==
    CASE \E r \in stale : Acts(r) -> "stale"
      [] \E r \in Requests \ stale :
           Acts(r) /\ request[r].pc = "walk" /\ request[r].cursor # None -> "deep"
      [] OTHER -> "checked"

Remember ==
    /\ seen' = [r \in Requests |->
         IF request'[r] = Idle THEN {}
         ELSE seen[r] \cup Loaded(request'[r])
                \cup {t \in Tasks : Acts(r) /\ request[r].pc = "walk" /\ request[r].cursor = t}]
    /\ stale' = {r \in Requests :
         request'[r] # Idle /\ (r \in stale \/ \E t \in seen[r] : row'[t] # row[t])}
    /\ link' = [t \in Tasks |->
         CASE row'[t].parent = None -> "checked"
           [] row'[t].parent \notin {None, row[t].parent} -> Verdict
           [] OTHER ->
                IF row[t].state = "trash" /\ row'[t].state = "live" THEN "restored" ELSE link[t]]

-----------------------------------------------------------------------------
(* Plausible slips *)

PurgedBelow(t) ==
    [s \in Tasks |-> IF t \in {s, row[s].parent} THEN Gone ELSE row[s]]
PurgedAlone(t) == [row EXCEPT ![t] = Gone]
NotFound(r) == FALSE

-----------------------------------------------------------------------------
(* createTask *)

\* The foreign key asks for a parent row, live or not.
Referable(p) == p = None \/ p \in {t \in Tasks : Stored(t)}

\* checkParent: the parent, if any, must be live.
Acceptable(p) == p = None \/ p \in {t \in Tasks : Live(t)}

CreateBegin(r, t, p) ==
    /\ request[r] = Idle
    /\ row[t].state = "none" /\ Acceptable(p)
    /\ request' = [request EXCEPT ![r] = [pc |-> "insert", task |-> t, parent |-> p]]
    /\ UNCHANGED row
    /\ Remember

Insert(r) ==
    LET q == request[r] IN
    /\ q.pc = "insert"
    /\ row' = [row EXCEPT ![q.task] =
                 IF @.state = "none" /\ Referable(q.parent)
                 THEN [state |-> "live", parent |-> q.parent]
                 ELSE @]
    /\ Done(r)
    /\ Remember

-----------------------------------------------------------------------------
(* updateTask with a parentId *)

ReparentBegin(r, t, p) ==
    /\ request[r] = Idle
    /\ Live(t) /\ Acceptable(p) /\ t # p
    /\ request' = [request EXCEPT ![r] =
         [pc |-> "walk", task |-> t, parent |-> p, depth |-> 0,
          cursor |-> IF p = None THEN None ELSE row[p].parent]]
    /\ UNCHANGED row
    /\ Remember

\* The walk has met the task, which is refused.
MetItself(r) == request[r].cursor = request[r].task

Walking(r) == request[r].cursor # None /\ request[r].depth < MaxDepth

\* findParentLink does not see deleted rows: the walk ends at one.
Walk(r) ==
    LET c == request[r].cursor IN
    /\ request[r].pc = "walk"
    /\ Walking(r) /\ ~MetItself(r)
    /\ request' = [request EXCEPT ![r].cursor = IF Live(c) THEN row[c].parent ELSE None,
                                  ![r].depth = @ + 1]
    /\ UNCHANGED row
    /\ Remember

WalkRefuses(r) ==
    /\ request[r].pc = "walk"
    /\ Walking(r) /\ MetItself(r)
    /\ Done(r)
    /\ UNCHANGED row
    /\ Remember

\* The write is by id, on whatever has become of both rows.
Reparent(r) ==
    LET q == request[r] IN
    /\ q.pc = "walk"
    /\ ~Walking(r)
    /\ row' = [row EXCEPT ![q.task].parent =
                 IF Stored(q.task) /\ Referable(q.parent) THEN q.parent ELSE @]
    /\ Done(r)
    /\ Remember

-----------------------------------------------------------------------------
(* Deletion and the trash *)

\* loadForBulk, and loadTask for a single task.
DeleteBegin(r, S) ==
    /\ request[r] = Idle
    /\ S # {} /\ \A t \in S : Live(t)
    /\ request' = [request EXCEPT ![r] = [pc |-> "delete", tasks |-> S]]
    /\ UNCHANGED row
    /\ Remember

\* softDeleteTasks: live sub-tasks are promoted first, in the same transaction.
Deleted(S) ==
    [t \in Tasks |->
        LET promoted == Live(t) /\ row[t].parent \in S IN
        [state |-> IF t \in S /\ Stored(t) THEN "trash" ELSE row[t].state,
         parent |-> IF promoted THEN None ELSE row[t].parent]]

Delete(r) ==
    /\ request[r].pc = "delete"
    /\ row' = Deleted(request[r].tasks)
    /\ Done(r)
    /\ Remember

\* loadTaskFor
Discarded(t) == row[t].state = "trash"

TrashBegin(r, t) ==
    /\ request[r] = Idle
    /\ Discarded(t)
    /\ request' \in {[request EXCEPT ![r] = [pc |-> pc, task |-> t]] : pc \in {"restore", "purge"}}
    /\ UNCHANGED row
    /\ Remember

\* "deletedAt: null is the whole restore."
Restore(r) ==
    LET t == request[r].task IN
    /\ request[r].pc = "restore"
    /\ row' = [row EXCEPT ![t] =
                 IF @.state = "trash" THEN [@ EXCEPT !.state = "live"] ELSE @]
    /\ Done(r)
    /\ Remember

\* The row goes, and the foreign key clears the parent of its sub-tasks.
Purged(t) ==
    [s \in Tasks |-> IF s = t THEN Gone
                     ELSE IF row[s].parent = t THEN [row[s] EXCEPT !.parent = None]
                     ELSE row[s]]

Purge(r) ==
    /\ request[r].pc = "purge"
    /\ row' = Purged(request[r].task)
    /\ Done(r)
    /\ Remember

\* A handler fails, or its process dies, between two of its steps.
Abort(r) ==
    /\ request[r] # Idle
    /\ Done(r)
    /\ UNCHANGED row
    /\ Remember

-----------------------------------------------------------------------------
Init ==
    /\ row = [t \in Tasks |-> [state |-> "none", parent |-> None]]
    /\ request = [r \in Requests |-> Idle]
    /\ seen = [r \in Requests |-> {}]
    /\ stale = {}
    /\ link = [t \in Tasks |-> "checked"]

Next ==
    \E r \in Requests :
        \/ \E t \in Tasks, p \in Parents : CreateBegin(r, t, p) \/ ReparentBegin(r, t, p)
        \/ Insert(r) \/ Walk(r) \/ WalkRefuses(r) \/ Reparent(r)
        \/ \E S \in SUBSET Tasks : DeleteBegin(r, S)
        \/ \E t \in Tasks : TrashBegin(r, t)
        \/ Delete(r) \/ Restore(r) \/ Purge(r) \/ Abort(r)

Spec == Init /\ [][Next]_vars

-----------------------------------------------------------------------------
(* Properties *)

\* A set of tasks in which everybody's parent is inside is a cycle, or hangs
\* from one.
Closed(S) == S # {} /\ \A t \in S : row[t].parent \in S

\* "A task cannot be its own parent or its own ancestor."
Acyclic == \A S \in SUBSET {t \in Tasks : Live(t)} : ~Closed(S)

\* "Deleting a parent promotes its live children": no sub-tasks of nothing.
ParentsAreLive ==
    \A t \in Tasks : Live(t) /\ row[t].parent # None => Live(row[t].parent)

\* However requests overlap, the tree is broken only where nothing vouches for a
\* parent as it was written: every cycle has a link on it that a handler wrote on
\* stale reads or past the end of its walk, or that came back from the trash, and
\* no other task hangs from a deleted one.
OnlyUncheckedLinksBreakTheTree ==
    /\ \A S \in SUBSET {t \in Tasks : Live(t) /\ link[t] = "checked"} : ~Closed(S)
    /\ \A t \in Tasks : Live(t) /\ link[t] = "checked" /\ row[t].parent # None =>
           Live(row[t].parent)

\* "A task cannot be its own ancestor" and "deleting a parent promotes its live
\* children", but for what came back from the trash.
OnlyTheTrashBreaksTheTree ==
    /\ \A S \in SUBSET {t \in Tasks : Live(t) /\ link[t] # "restored"} : ~Closed(S)
    /\ \A t \in Tasks : Live(t) /\ link[t] # "restored" /\ row[t].parent # None =>
           Live(row[t].parent)

\* "Purging only gives up the ability to undo it": what is destroyed was in the
\* trash.
PurgeTakesTrash ==
    [][\A t \in Tasks : Live(t) => row'[t].state # "gone"]_vars

\* A row is destroyed by a purge that was asked for that very task, never with
\* its parent, and only a purge that was overtaken by a restore finds it live.
OnlyOvertakenPurgesTakeTheLive ==
    [][\A t \in Tasks : Stored(t) /\ row'[t].state = "gone" =>
         \E r \in Requests : /\ request[r] = [pc |-> "purge", task |-> t]
                             /\ request'[r] = Idle
                             /\ Live(t) => r \in stale]_vars

=============================================================================
