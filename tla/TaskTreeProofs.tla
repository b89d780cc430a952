--------------------------- MODULE TaskTreeProofs ---------------------------
(***************************************************************************)
(* What the database keeps in TaskTree whatever overlaps (TypeOK, with the *)
(* foreign key), and what the checks keep: a walk that reaches the top on  *)
(* rows that are still as it read them lets no cycle through, so that only *)
(* links nothing vouches for break the tree, and a purge takes its own     *)
(* task alone. For any number of tasks and requests.                       *)
(***************************************************************************)
EXTENDS TaskTree, TLAPS

-----------------------------------------------------------------------------
(* Types *)

ForeignKey == \A t \in Tasks : row[t].parent # None => Stored(t) /\ Stored(row[t].parent)

\* TypeOK but for the history.
RowsFit == row \in [Tasks -> Row] /\ request \in [Requests -> Request] /\ ForeignKey

LEMMA InitTypes == Init => TypeOK
  BY DEF Init, TypeOK, Row, Request, Parents

LEMMA DoneFits ==
    ASSUME request \in [Requests -> Request], NEW r \in Requests, Done(r)
    PROVE  request' \in [Requests -> Request]
  BY DEF Done, Request

\* The steps that only move a request along.
LEMMA RequestsKeepTypes ==
    ASSUME RowsFit, NEW r \in Requests,
           \/ \E t \in Tasks, p \in Parents : CreateBegin(r, t, p) \/ ReparentBegin(r, t, p)
           \/ Walk(r) \/ WalkRefuses(r) \/ Abort(r)
           \/ \E S \in SUBSET Tasks : DeleteBegin(r, S)
           \/ \E t \in Tasks : TrashBegin(r, t)
    PROVE  RowsFit' /\ row' = row
<1>1. row' = row
  BY DEF CreateBegin, ReparentBegin, Walk, WalkRefuses, Abort, DeleteBegin, TrashBegin
<1>2. CASE \E t \in Tasks, p \in Parents : CreateBegin(r, t, p)
  <2>1. request' \in [Requests -> Request]
    BY <1>2 DEF CreateBegin, RowsFit, Request
  <2> QED
    BY <1>1, <2>1 DEF RowsFit, ForeignKey, Stored
<1>3. CASE \E t \in Tasks, p \in Parents : ReparentBegin(r, t, p)
  <2> PICK t \in Tasks, p \in Parents : ReparentBegin(r, t, p)
    BY <1>3
  <2> DEFINE c == IF p = None THEN None ELSE row[p].parent
  <2>1. c \in Parents
    BY DEF RowsFit, Row, Parents
  <2>2. 0 \in 0..MaxDepth
    BY TaskTreeAssumption
  <2>3. request' = [request EXCEPT ![r] =
          [pc |-> "walk", task |-> t, parent |-> p, depth |-> 0, cursor |-> c]]
    BY DEF ReparentBegin
  <2> HIDE DEF c
  <2>4. request' \in [Requests -> Request]
    BY <2>1, <2>2, <2>3 DEF RowsFit, Request
  <2> QED
    BY <1>1, <2>4 DEF RowsFit, ForeignKey, Stored
<1>4. CASE Walk(r)
  <2> DEFINE q == request[r]
             c == IF Live(q.cursor) THEN row[q.cursor].parent ELSE None
  <2>1. q \in [pc : {"walk"}, task : Tasks, parent : Parents, cursor : Parents,
               depth : 0..MaxDepth]
    BY <1>4 DEF Walk, RowsFit, Request, Idle
  <2>2. c \in Parents
    BY <1>4, <2>1 DEF Walk, Walking, RowsFit, Row, Parents
  <2>3. q.depth + 1 \in 0..MaxDepth
    BY <1>4, <2>1, TaskTreeAssumption DEF Walk, Walking
  <2>4. request' = [request EXCEPT ![r] = [q EXCEPT !.cursor = c, !.depth = q.depth + 1]]
    BY <1>4 DEF Walk, RowsFit
  <2> HIDE DEF c
  <2>5. request' \in [Requests -> Request]
    BY <2>1, <2>2, <2>3, <2>4 DEF RowsFit, Request
  <2> QED
    BY <1>1, <2>5 DEF RowsFit, ForeignKey, Stored
<1>5. CASE WalkRefuses(r) \/ Abort(r)
  BY <1>1, <1>5, DoneFits DEF WalkRefuses, Abort, RowsFit, ForeignKey, Stored
<1>6. CASE \E S \in SUBSET Tasks : DeleteBegin(r, S)
  <2>1. request' \in [Requests -> Request]
    BY <1>6 DEF DeleteBegin, RowsFit, Request
  <2> QED
    BY <1>1, <2>1 DEF RowsFit, ForeignKey, Stored
<1>7. CASE \E t \in Tasks : TrashBegin(r, t)
  BY <1>1, <1>7 DEF TrashBegin, RowsFit, ForeignKey, Request, Stored
<1> QED
  BY <1>1, <1>2, <1>3, <1>4, <1>5, <1>6, <1>7 DEF RowsFit, ForeignKey, Stored

\* The steps that write rows, and what they write.
LEMMA WritesKeepTypes ==
    ASSUME RowsFit, NEW r \in Requests,
           Insert(r) \/ Reparent(r) \/ Delete(r) \/ Restore(r) \/ Purge(r)
    PROVE  RowsFit'
<1> DEFINE q == request[r]
<1>1. request' \in [Requests -> Request]
  BY DoneFits DEF Insert, Reparent, Delete, Restore, Purge, RowsFit
<1>2. CASE Insert(r)
  <2>1. q.task \in Tasks /\ q.parent \in Parents
    BY <1>2 DEF Insert, RowsFit, Request, Idle
  <2>2. row' = [row EXCEPT ![q.task] =
                  IF @.state = "none" /\ Referable(q.parent)
                  THEN [state |-> "live", parent |-> q.parent]
                  ELSE @]
    BY <1>2 DEF Insert
  <2> HIDE DEF q
  <2>3. row' \in [Tasks -> Row]
    BY <2>1, <2>2 DEF RowsFit, Row
  <2>4. ForeignKey'
    BY <2>1, <2>2 DEF RowsFit, ForeignKey, Stored, Referable, Row, Parents
  <2> QED
    BY <1>1, <2>3, <2>4 DEF RowsFit, ForeignKey
<1>3. CASE Reparent(r)
  <2>1. q.task \in Tasks /\ q.parent \in Parents
    BY <1>3 DEF Reparent, RowsFit, Request, Idle
  <2>2. row' = [row EXCEPT ![q.task].parent =
                  IF Stored(q.task) /\ Referable(q.parent) THEN q.parent ELSE @]
    BY <1>3 DEF Reparent
  <2> HIDE DEF q
  <2>3. row' \in [Tasks -> Row]
    BY <2>1, <2>2 DEF RowsFit, Row
  <2>4. ForeignKey'
    BY <2>1, <2>2 DEF RowsFit, ForeignKey, Stored, Referable, Row, Parents
  <2> QED
    BY <1>1, <2>3, <2>4 DEF RowsFit, ForeignKey
<1>4. CASE Delete(r)
  <2>1. row' = Deleted(q.tasks)
    BY <1>4 DEF Delete
  <2>2. \A t \in Tasks : /\ row'[t].parent \in Parents
                         /\ row'[t].state \in {"none", "live", "trash", "gone"}
    BY <2>1 DEF Deleted, RowsFit, Row, Parents
  <2>3. row' \in [Tasks -> Row]
    BY <2>1, <2>2 DEF Deleted, RowsFit, Row
  <2>4. ForeignKey'
    BY <2>1 DEF Deleted, RowsFit, ForeignKey, Stored, Row, Parents
  <2> QED
    BY <1>1, <2>3, <2>4 DEF RowsFit, ForeignKey
<1>5. CASE Restore(r)
  <2>1. q.task \in Tasks
    BY <1>5 DEF Restore, RowsFit, Request, Idle
  <2>2. row' = [row EXCEPT ![q.task] =
                  IF @.state = "trash" THEN [@ EXCEPT !.state = "live"]
                  ELSE @]
    BY <1>5 DEF Restore
  <2> HIDE DEF q
  <2>3. row' \in [Tasks -> Row]
    BY <2>1, <2>2 DEF RowsFit, Row
  <2>4. ForeignKey'
    BY <2>1, <2>2 DEF RowsFit, ForeignKey, Stored, Row, Parents
  <2> QED
    BY <1>1, <2>3, <2>4 DEF RowsFit, ForeignKey
<1>6. CASE Purge(r)
  <2>1. row' = Purged(q.task)
    BY <1>6 DEF Purge
  <2>2. row' \in [Tasks -> Row]
    BY <2>1 DEF Purged, RowsFit, Row, Gone, Parents
  <2>3. ForeignKey'
    BY <2>1 DEF Purged, RowsFit, ForeignKey, Stored, Row, Gone, Parents
  <2> QED
    BY <1>1, <2>2, <2>3 DEF RowsFit, ForeignKey
<1> QED
  BY <1>2, <1>3, <1>4, <1>5, <1>6

LEMMA NextKeepsRows == RowsFit /\ [Next]_vars => RowsFit'
<1> SUFFICES ASSUME RowsFit, [Next]_vars
             PROVE  RowsFit'
  OBVIOUS
<1>1. CASE UNCHANGED vars
  BY <1>1 DEF vars, RowsFit, ForeignKey, Stored
<1>2. CASE Next
  BY <1>2, RequestsKeepTypes, WritesKeepTypes DEF Next
<1> QED
  BY <1>1, <1>2

\* Every step keeps the history.
LEMMA NextRemembers == Next => Remember
  BY DEF Next, CreateBegin, Insert, ReparentBegin, Walk, WalkRefuses, Reparent, DeleteBegin,
         Delete, TrashBegin, Restore, Purge, Abort

LEMMA RememberKeepsTypes ==
    ASSUME TypeOK, Remember
    PROVE  /\ seen' \in [Requests -> SUBSET Tasks]
           /\ stale' \subseteq Requests
           /\ link' \in [Tasks -> {"checked", "stale", "deep", "restored"}]
<1>1. seen' \in [Requests -> SUBSET Tasks]
  <2> DEFINE new(r) == IF request'[r] = Idle THEN {}
                       ELSE seen[r] \cup Loaded(request'[r])
                              \cup {t \in Tasks : Acts(r) /\ request[r].pc = "walk"
                                                 /\ request[r].cursor = t}
  <2>1. \A r \in Requests : new(r) \in SUBSET Tasks
    BY DEF TypeOK, Loaded
  <2>2. seen' = [r \in Requests |-> new(r)]
    BY DEF Remember
  <2> HIDE DEF new
  <2> QED
    BY <2>1, <2>2
<1>2. stale' \subseteq Requests
  BY DEF Remember
<1>3. link' \in [Tasks -> {"checked", "stale", "deep", "restored"}]
  <2>1. Verdict \in {"checked", "stale", "deep"}
    BY DEF Verdict
  <2> DEFINE new(t) ==
         CASE row'[t].parent = None -> "checked"
           [] row'[t].parent \notin {None, row[t].parent} -> Verdict
           [] OTHER ->
                IF row[t].state = "trash" /\ row'[t].state = "live" THEN "restored" ELSE link[t]
  <2>2. \A t \in Tasks : new(t) \in {"checked", "stale", "deep", "restored"}
    BY <2>1 DEF TypeOK
  <2>3. link' = [t \in Tasks |-> new(t)]
    BY DEF Remember
  <2> HIDE DEF new
  <2> QED
    BY <2>2, <2>3
<1> QED
  BY <1>1, <1>2, <1>3

LEMMA NextKeepsTypes == TypeOK /\ [Next]_vars => TypeOK'
<1> SUFFICES ASSUME TypeOK, [Next]_vars
             PROVE  TypeOK'
  OBVIOUS
<1>1. RowsFit'
  BY NextKeepsRows DEF TypeOK, RowsFit, ForeignKey
<1>2. CASE UNCHANGED vars
  BY <1>1, <1>2 DEF vars, TypeOK, RowsFit, ForeignKey
<1>3. CASE Next
  BY <1>1, <1>3, NextRemembers, RememberKeepsTypes DEF TypeOK, RowsFit, ForeignKey
<1> QED
  BY <1>2, <1>3

\* Every row and request has its type, and a parent is a row that exists (the
\* foreign key), in every reachable state.
THEOREM TypeCorrect == Spec => []TypeOK
<1>1. Init => TypeOK
  BY InitTypes
<1>2. TypeOK /\ [Next]_vars => TypeOK'
  BY NextKeepsTypes
<1> QED
  BY <1>1, <1>2, PTL DEF Spec

-----------------------------------------------------------------------------
(* What was read *)

\* V is what the walk of request q has read above the task that is re-parented:
\* the parent of what is live there is there, or comes next.
Met(q, V) ==
    /\ q.parent # None => q.parent \in V
    /\ \A v \in V : Live(v) => row[v].parent \in V \cup {q.cursor, None}

\* What handler q found on the rows S it has read is so.
Holds(q, S) ==
    /\ q = Idle => S = {}
    /\ q.pc = "insert" => Acceptable(q.parent) /\ q.parent \in S \cup {None}
    /\ q.pc = "walk" =>
         /\ Live(q.task) /\ q.task \in S
         /\ Acceptable(q.parent)
         /\ Met(q, S \ {q.task})
    /\ q.pc = "purge" => Discarded(q.task) /\ q.task \in S

ReadHolds == \A r \in Requests \ stale : Holds(request[r], seen[r])

\* A handler that is not stale reads on, on rows that are as they were.
LEMMA NotStale ==
    ASSUME TypeOK, Remember, NEW r \in Requests, r \notin stale', request'[r] # Idle
    PROVE  /\ r \notin stale
           /\ \A t \in seen[r] : row'[t] = row[t]
           /\ seen'[r] = seen[r] \cup Loaded(request'[r])
                \cup {t \in Tasks : Acts(r) /\ request[r].pc = "walk" /\ request[r].cursor = t}
  BY DEF Remember

LEMMA WaitingKeeps ==
    ASSUME TypeOK, Remember, NEW r \in Requests, r \notin stale', request'[r] = request[r],
           r \notin stale => Holds(request[r], seen[r])
    PROVE  Holds(request[r], seen[r])'
<1>1. CASE request[r] = Idle
  BY <1>1 DEF Remember, Holds, Idle
<1>2. CASE request[r] # Idle
  <2> DEFINE q == request[r]
  <2>1. Holds(q, seen[r]) /\ \A t \in seen[r] : row'[t] = row[t]
    BY <1>2, NotStale
  <2>2. seen'[r] = seen[r] \cup Loaded(q)
    BY <1>2, NotStale DEF Acts
  <2>3. Loaded(q) \subseteq seen[r]
    BY <2>1, TaskTreeAssumption DEF Loaded, Holds, Met
  <2>4. seen'[r] = seen[r] /\ seen[r] \subseteq Tasks
    BY <2>2, <2>3 DEF TypeOK
  <2>5. CASE q.pc = "insert"
    BY <2>1, <2>4, <2>5, TaskTreeAssumption DEF Holds, Acceptable, Live
  <2>6. CASE q.pc = "walk"
    <3>1. Live(q.task)' /\ q.task \in seen[r]
      BY <2>1, <2>6 DEF Holds, Live
    <3>2. Acceptable(q.parent)'
      BY <2>1, <2>6 DEF Holds, Acceptable, Met, Live
    <3>3. Met(q, seen[r] \ {q.task})'
      BY <2>1, <2>4, <2>6 DEF Holds, Met, Live
    <3> QED
      BY <1>2, <2>4, <2>6, <3>1, <3>2, <3>3 DEF Holds
  <2>7. CASE q.pc = "purge"
    BY <2>1, <2>4, <2>7 DEF Holds, Discarded
  <2> QED
    BY <1>2, <2>5, <2>6, <2>7 DEF Holds
<1> QED
  BY <1>1, <1>2

\* The walk begins with the parent it was given.
LEMMA WalkStarts ==
    ASSUME TypeOK, NEW t \in Tasks, NEW p \in Parents, t # p, Live(t), Acceptable(p), NEW q,
           q = [pc |-> "walk", task |-> t, parent |-> p, depth |-> 0,
                cursor |-> IF p = None THEN None ELSE row[p].parent],
           NEW S, S = {t} \cup ({p} \cap Tasks)
    PROVE  Holds(q, S)
<1>1. /\ q.pc = "walk" /\ q.task = t /\ q.parent = p
      /\ p # None => q.cursor = row[p].parent
  OBVIOUS
<1>2. \A v \in S \ {t} : v = p /\ p # None
  BY TaskTreeAssumption
<1>3. p # None => p \in S \ {t}
  BY DEF Parents
<1>4. Met(q, S \ {t})
  BY <1>1, <1>2, <1>3 DEF Met
<1> QED
  BY <1>1, <1>4 DEF Holds, Idle

\* And goes on with the parent of the task it has come to.
LEMMA WalkGoesOn ==
    ASSUME TypeOK, NEW r \in Requests, Walk(r), Holds(request[r], seen[r]),
           seen'[r] = seen[r] \cup {request[r].cursor}
    PROVE  Holds(request[r], seen[r])'
<1> DEFINE q == request[r]
           c == q.cursor
           n == IF Live(c) THEN row[c].parent ELSE None
<1>1. /\ q \in [pc : {"walk"}, task : Tasks, parent : Parents, cursor : Parents,
                depth : 0..MaxDepth]
      /\ c \in Tasks /\ c # q.task /\ row' = row
  BY DEF Walk, Walking, MetItself, TypeOK, Request, Idle, Parents
<1>2. /\ request'[r].pc = "walk" /\ request'[r].task = q.task
      /\ request'[r].parent = q.parent /\ request'[r].cursor = n
  BY <1>1 DEF Walk, TypeOK
<1>3. Live(q.task) /\ q.task \in seen[r] /\ Acceptable(q.parent) /\ Met(q, seen[r] \ {q.task})
  BY <1>1 DEF Holds
<1> DEFINE W == (seen[r] \ {q.task}) \cup {c}
<1>4. seen'[r] \ {q.task} = W
  BY <1>1
<1>5. \A v \in W : Live(v) => row[v].parent \in W \cup {n, None}
  BY <1>3 DEF Met
<1> HIDE DEF W, n
<1>6. q.parent # None => q.parent \in W
  BY <1>3 DEF Met, W
<1>7. Met(request[r], seen[r] \ {request[r].task})'
  BY <1>1, <1>2, <1>4, <1>5, <1>6 DEF Met, Live
<1>8. Live(request[r].task)' /\ Acceptable(request[r].parent)' /\ request'[r].task \in seen'[r]
  BY <1>1, <1>2, <1>3 DEF Live, Acceptable
<1> QED
  BY <1>2, <1>7, <1>8 DEF Holds, Idle

\* The steps of one handler.
RequestStep(r) ==
    \/ \E t \in Tasks, p \in Parents : CreateBegin(r, t, p) \/ ReparentBegin(r, t, p)
    \/ Insert(r) \/ Walk(r) \/ WalkRefuses(r) \/ Reparent(r)
    \/ \E S \in SUBSET Tasks : DeleteBegin(r, S)
    \/ \E t \in Tasks : TrashBegin(r, t)
    \/ Delete(r) \/ Restore(r) \/ Purge(r) \/ Abort(r)

\* A handler's own step, if it goes on, only reads.
LEMMA ActingKeeps ==
    ASSUME TypeOK, Remember, NEW r \in Requests, RequestStep(r), r \notin stale',
           request'[r] # request[r], r \notin stale => Holds(request[r], seen[r])
    PROVE  Holds(request[r], seen[r])'
<1>1. CASE request'[r] = Idle
  BY <1>1 DEF Remember, Holds, Idle
<1>2. CASE request'[r] # Idle
  <2>1. /\ Holds(request[r], seen[r])
        /\ seen'[r] = seen[r] \cup Loaded(request'[r])
             \cup {t \in Tasks : Acts(r) /\ request[r].pc = "walk" /\ request[r].cursor = t}
    BY <1>2, NotStale
  <2>2. request[r] = Idle => seen'[r] = Loaded(request'[r])
    BY <2>1 DEF Holds, Idle
  <2>3. CASE \E t \in Tasks, p \in Parents : CreateBegin(r, t, p)
    <3> PICK t \in Tasks, p \in Parents : CreateBegin(r, t, p)
      BY <2>3
    <3>1. /\ request'[r] = [pc |-> "insert", task |-> t, parent |-> p]
          /\ row' = row /\ Acceptable(p) /\ request[r] = Idle
      BY DEF CreateBegin, TypeOK
    <3>2. p \in seen'[r] \cup {None}
      BY <2>2, <3>1 DEF Loaded, Parents
    <3> QED
      BY <3>1, <3>2 DEF Holds, Idle, Acceptable, Live
  <2>4. CASE \E t \in Tasks, p \in Parents : ReparentBegin(r, t, p)
    <3> PICK t \in Tasks, p \in Parents : ReparentBegin(r, t, p)
      BY <2>4
    <3> PICK q : q = [pc |-> "walk", task |-> t, parent |-> p, depth |-> 0,
                      cursor |-> IF p = None THEN None ELSE row[p].parent]
      OBVIOUS
    <3>1. /\ request'[r] = q /\ row' = row /\ request[r] = Idle
          /\ Live(t) /\ Acceptable(p) /\ t # p
      BY DEF ReparentBegin, TypeOK
    <3>2. seen'[r] = {t} \cup ({p} \cap Tasks)
      BY <2>2, <3>1 DEF Loaded
    <3>3. Holds(q, seen'[r])
      BY <3>1, <3>2, WalkStarts
    <3> QED
      BY <3>1, <3>3 DEF Holds, Met, Live, Acceptable, Discarded
  <2>5. CASE Walk(r)
    <3>1. /\ request[r].pc = "walk" /\ request[r].cursor \in Tasks /\ Acts(r)
          /\ request[r].task \in Tasks /\ request[r].parent \in Parents
      BY <1>2, <2>5 DEF Walk, Walking, TypeOK, Request, Idle, Parents, Acts
    <3>2. /\ request'[r].pc = "walk" /\ request'[r].task = request[r].task
          /\ request'[r].parent = request[r].parent
      BY <2>5, <3>1 DEF Walk, TypeOK, Request, Idle
    <3>3. Loaded(request'[r]) \subseteq seen[r]
      BY <2>1, <3>1, <3>2, TaskTreeAssumption DEF Loaded, Holds, Met
    <3>4. seen'[r] = seen[r] \cup {request[r].cursor}
      BY <2>1, <3>1, <3>3
    <3> QED
      BY <2>1, <2>5, <3>4, WalkGoesOn
  <2>6. CASE \E t \in Tasks : TrashBegin(r, t)
    <3> PICK t \in Tasks : TrashBegin(r, t)
      BY <2>6
    <3>1. /\ request'[r].pc \in {"restore", "purge"} /\ request'[r].task = t
          /\ row' = row /\ Discarded(t) /\ request[r] = Idle
      BY DEF TrashBegin, TypeOK
    <3>2. request'[r].pc = "purge" => t \in seen'[r]
      BY <2>2, <3>1 DEF Loaded
    <3> QED
      BY <1>2, <3>1, <3>2 DEF Holds, Discarded
  <2>7. CASE \E S \in SUBSET Tasks : DeleteBegin(r, S)
    BY <1>2, <2>7 DEF DeleteBegin, Holds, TypeOK
  <2>8. CASE \/ Insert(r) \/ WalkRefuses(r) \/ Reparent(r) \/ Delete(r) \/ Restore(r)
             \/ Purge(r) \/ Abort(r)
    BY <1>2, <2>8 DEF Insert, WalkRefuses, Reparent, Delete, Restore, Purge, Abort, Done, TypeOK
  <2> QED
    BY <2>3, <2>4, <2>5, <2>6, <2>7, <2>8 DEF RequestStep
<1> QED
  BY <1>1, <1>2

\* Handlers only step on their own request.
LEMMA OthersWait ==
    ASSUME TypeOK, NEW r \in Requests, RequestStep(r), NEW o \in Requests, o # r
    PROVE  request'[o] = request[o]
  BY DEF RequestStep, CreateBegin, Insert, ReparentBegin, Walk, WalkRefuses, Reparent,
         DeleteBegin, Delete, TrashBegin, Restore, Purge, Abort, Done, TypeOK

LEMMA NextKeepsRead == TypeOK /\ ReadHolds /\ [Next]_vars => ReadHolds'
<1> SUFFICES ASSUME TypeOK, ReadHolds, [Next]_vars, NEW o \in Requests, o \notin stale'
             PROVE  Holds(request[o], seen[o])'
  BY DEF ReadHolds
<1>0. o \notin stale => Holds(request[o], seen[o])
  BY DEF ReadHolds
<1>1. CASE UNCHANGED vars
  BY <1>0, <1>1 DEF vars, Holds, Met, Acceptable, Discarded, Live
<1>2. CASE Next
  <2> PICK r \in Requests : RequestStep(r)
    BY <1>2 DEF Next, RequestStep
  <2>1. Remember
    BY <1>2, NextRemembers
  <2>2. CASE request'[o] = request[o]
    BY <1>0, <2>1, <2>2, WaitingKeeps
  <2>3. CASE request'[o] # request[o]
    <3>1. o = r
      BY <2>3, OthersWait
    <3> QED
      BY <1>0, <2>1, <2>3, <3>1, ActingKeeps
  <2> QED
    BY <2>2, <2>3
<1> QED
  BY <1>1, <1>2

-----------------------------------------------------------------------------
(* The tree *)

\* The live tasks whose parent was checked, and the two halves of
\* OnlyUncheckedLinksBreakTheTree.
Kept == {t \in Tasks : Live(t) /\ link[t] = "checked"}

NoCycle == \A S \in SUBSET Kept : ~Closed(S)

NoOrphan == \A t \in Kept : row[t].parent # None => Live(row[t].parent)

TreeInv == TypeOK /\ ReadHolds /\ NoCycle /\ NoOrphan

\* A parent that was checked before a step, or that the step did not write.
LEMMA KeptLinks ==
    ASSUME TypeOK, Remember, NEW t \in Kept'
    PROVE  \/ row'[t].parent = None
           \/ row'[t].parent = row[t].parent /\ link[t] = "checked" /\ (Stored(t) => Live(t))
           \/ row'[t].parent # row[t].parent /\ Verdict = "checked"
<1>1. t \in Tasks /\ row'[t].state = "live" /\ link'[t] = "checked"
  BY DEF Kept, Live
<1>2. CASE row'[t].parent \notin {None, row[t].parent}
  BY <1>1, <1>2 DEF Remember
<1>3. CASE row'[t].parent = row[t].parent /\ row'[t].parent # None
  BY <1>1, <1>3 DEF Remember, Stored, Live
<1> QED
  BY <1>2, <1>3

\* Steps that clear parents and create no live task but by restoring one keep the
\* tree, if what they take away is nobody's parent any more.
LEMMA FewerLinksKeepTree ==
    ASSUME TypeOK, ForeignKey, Remember, NoCycle, NoOrphan,
           \A t \in Tasks : row'[t].parent \in {None, row[t].parent},
           \A t \in Tasks : row'[t].state = "live" => Stored(t),
           \A t \in Kept : Live(row[t].parent) /\ row'[t].parent # None => Live(row[t].parent)'
    PROVE  NoCycle' /\ NoOrphan'
<1>1. \A t \in Kept' : row'[t].parent # None => t \in Kept /\ row'[t].parent = row[t].parent
  <2> SUFFICES ASSUME NEW t \in Kept', row'[t].parent # None
               PROVE  t \in Kept /\ row'[t].parent = row[t].parent
    OBVIOUS
  <2>1. t \in Tasks /\ row'[t].state = "live"
    BY DEF Kept, Live
  <2>2. row'[t].parent = row[t].parent
    BY <2>1
  <2>3. link[t] = "checked" /\ Live(t)
    BY <2>1, <2>2, KeptLinks
  <2> QED
    BY <2>1, <2>2, <2>3 DEF Kept
<1>2. NoCycle'
  <2> SUFFICES ASSUME NEW S \in SUBSET Kept', Closed(S)'
               PROVE  FALSE
    BY DEF NoCycle
  <2>1. \A t \in S : row'[t].parent # None
    BY TaskTreeAssumption DEF Closed, Kept
  <2>2. S \in SUBSET Kept /\ Closed(S)
    BY <1>1, <2>1 DEF Closed
  <2> QED
    BY <2>2 DEF NoCycle
<1>3. NoOrphan'
  <2> SUFFICES ASSUME NEW t \in Kept', row'[t].parent # None
               PROVE  Live(row[t].parent)'
    BY DEF NoOrphan
  <2>1. t \in Kept /\ row'[t].parent = row[t].parent
    BY <1>1
  <2>2. Live(row[t].parent)
    BY <2>1 DEF NoOrphan
  <2> QED
    BY <2>1, <2>2
<1> QED
  BY <1>2, <1>3

\* V holds all that is above p, and t is not there.
Above(V, p, t) ==
    /\ p # None => p \in V
    /\ t \notin V
    /\ \A v \in V : Live(v) => row[v].parent \in V \cup {None}

\* Putting a task below what has no path to it closes no cycle.
LEMMA NewLinkKeepsNoCycle ==
    ASSUME TypeOK, NoCycle, NEW t \in Tasks, NEW p \in Parents, NEW V \in SUBSET Tasks,
           t \in Kept' => Above(V, p, t), row'[t].parent = p,
           \A s \in Tasks \ {t} : row'[s] = row[s],
           \A s \in Kept' \ {t} : row'[s].parent # None => s \in Kept
    PROVE  NoCycle'
<1> SUFFICES ASSUME NEW S \in SUBSET Kept', Closed(S)'
             PROVE  FALSE
  BY DEF NoCycle
<1>1. None \notin S /\ S \subseteq Tasks
  BY TaskTreeAssumption DEF Kept
<1>2. \A s \in S \ {t} : s \in Kept /\ row[s].parent \in S /\ Live(s)
  BY <1>1 DEF Closed, Kept
<1>3. CASE t \in S
  <2>0. Above(V, p, t)
    BY <1>3
  <2>1. p \in S \cap V
    BY <1>1, <1>3, <2>0 DEF Closed, Above
  <2>2. \A s \in S \cap V : s \in Kept /\ row[s].parent \in S \cap V
    BY <1>1, <1>2, <2>0 DEF Above
  <2>3. Closed(S \cap V) /\ S \cap V \in SUBSET Kept
    BY <2>1, <2>2 DEF Closed
  <2> QED
    BY <2>3 DEF NoCycle
<1>4. CASE t \notin S
  <2>1. Closed(S) /\ S \in SUBSET Kept
    BY <1>2, <1>4 DEF Closed
  <2> QED
    BY <2>1 DEF NoCycle
<1> QED
  BY <1>3, <1>4

\* A verdict that vouches for a parent: its writer was not stale, and its walk was
\* over.
LEMMA VerdictVouches ==
    ASSUME Verdict = "checked", NEW r \in Requests, Acts(r)
    PROVE  r \notin stale /\ (request[r].pc = "walk" => request[r].cursor = None)
  BY DEF Verdict

\* What is new below a parent was checked, or is not in Kept: the steps that write
\* a parent.
LEMMA NewLinkKeepsTree ==
    ASSUME TypeOK, ForeignKey, Remember, NoCycle, NoOrphan,
           NEW t \in Tasks, NEW p \in Parents, row'[t].parent = p,
           Stored(t) => row'[t].state = row[t].state,
           \A s \in Tasks \ {t} : row'[s] = row[s],
           p # row[t].parent /\ p # None /\ Verdict = "checked" =>
               Live(p) /\ \E V \in SUBSET Tasks : Above(V, p, t)
    PROVE  NoCycle' /\ NoOrphan'
<1>1. \A s \in Kept' \ {t} : row'[s].parent # None => s \in Kept
  <2> SUFFICES ASSUME NEW s \in Kept' \ {t}, row'[s].parent # None
               PROVE  s \in Kept
    OBVIOUS
  <2>1. s \in Tasks /\ row'[s] = row[s] /\ row'[s].state = "live"
    BY DEF Kept, Live
  <2>2. link[s] = "checked"
    BY <2>1, KeptLinks
  <2> QED
    BY <2>1, <2>2 DEF Kept, Live
<1>2. \A s \in Tasks : Live(s) => Live(s)'
  BY DEF Stored, Live
<1>3. CASE p = row[t].parent /\ p # None
  <2>1. Stored(t) /\ row'[t].state = row[t].state
    BY <1>3 DEF ForeignKey
  <2>2. \A s \in Kept' : row'[s].parent # None => s \in Kept /\ row'[s].parent = row[s].parent
    <3>1. t \in Kept' => t \in Kept
      BY <1>3, <2>1, KeptLinks DEF Kept, Live
    <3> QED
      BY <1>1, <1>3, <3>1 DEF Kept
  <2>3. NoCycle'
    <3> SUFFICES ASSUME NEW S \in SUBSET Kept', Closed(S)'
                 PROVE  FALSE
      BY DEF NoCycle
    <3>1. \A s \in S : row'[s].parent # None
      BY TaskTreeAssumption DEF Closed, Kept
    <3>2. S \in SUBSET Kept /\ Closed(S)
      BY <2>2, <3>1 DEF Closed
    <3> QED
      BY <3>2 DEF NoCycle
  <2>4. NoOrphan'
    BY <1>2, <2>2 DEF NoOrphan, TypeOK, Row, Parents, Kept
  <2> QED
    BY <2>3, <2>4
<1>4. CASE p = None
  <2>1. Above({}, p, t)
    BY <1>4 DEF Above
  <2>2. NoCycle'
    BY <1>1, <2>1, NewLinkKeepsNoCycle
  <2>3. NoOrphan'
    <3> SUFFICES ASSUME NEW s \in Kept', row'[s].parent # None
                 PROVE  Live(row[s].parent)'
      BY DEF NoOrphan
    <3>1. s \in Kept /\ row'[s] = row[s] /\ s \in Tasks
      BY <1>1, <1>4 DEF Kept
    <3> QED
      BY <1>2, <3>1 DEF NoOrphan, TypeOK, Row, Parents
  <2> QED
    BY <2>2, <2>3
<1>5. CASE p # row[t].parent /\ p # None
  <2>1. t \in Kept' => Verdict = "checked"
    BY <1>5, KeptLinks
  <2>2. CASE t \in Kept'
    <3>1. Live(p)
      BY <1>5, <2>1, <2>2
    <3>2. PICK V \in SUBSET Tasks : Above(V, p, t)
      BY <1>5, <2>1, <2>2
    <3>3. NoCycle'
      BY <1>1, <3>2, NewLinkKeepsNoCycle
    <3>4. NoOrphan'
      <4> SUFFICES ASSUME NEW s \in Kept', row'[s].parent # None
                   PROVE  Live(row[s].parent)'
        BY DEF NoOrphan
      <4>1. CASE s = t
        BY <1>2, <1>5, <3>1, <4>1 DEF Parents
      <4>2. CASE s # t
        <5>1. s \in Kept /\ row'[s] = row[s] /\ s \in Tasks
          BY <1>1, <4>2 DEF Kept
        <5> QED
          BY <1>2, <5>1 DEF NoOrphan, TypeOK, Row, Parents
      <4> QED
        BY <4>1, <4>2
    <3> QED
      BY <3>3, <3>4
  <2>3. CASE t \notin Kept'
    <3>1. NoCycle'
      BY <1>1, <2>3, NewLinkKeepsNoCycle
    <3>2. NoOrphan'
      <4> SUFFICES ASSUME NEW s \in Kept', row'[s].parent # None
                   PROVE  Live(row[s].parent)'
        BY DEF NoOrphan
      <4>1. s \in Kept /\ row'[s] = row[s] /\ s \in Tasks
        BY <1>1, <2>3 DEF Kept
      <4> QED
        BY <1>2, <4>1 DEF NoOrphan, TypeOK, Row, Parents
    <3> QED
      BY <3>1, <3>2
  <2> QED
    BY <2>2, <2>3
<1> QED
  BY <1>3, <1>4, <1>5

\* Each step keeps the tree: an insertion and a re-parenting add a link, the
\* others only take links away.
LEMMA StepsKeepTree ==
    ASSUME TreeInv, Remember, NEW r \in Requests, RequestStep(r)
    PROVE  NoCycle' /\ NoOrphan'
<1> USE DEF TreeInv
<1>0. ForeignKey
  BY DEF TypeOK, ForeignKey
<1>1. CASE row' = row
  BY <1>0, <1>1, FewerLinksKeepTree DEF Stored, Live
<1>2. CASE Insert(r) /\ row' # row
  <2> PICK t, p : t = request[r].task /\ p = request[r].parent
    OBVIOUS
  <2>1. /\ request[r].pc = "insert" /\ request[r] # Idle /\ Done(r)
        /\ t \in Tasks /\ p \in Parents
    BY <1>2 DEF Insert, TypeOK, Request, Idle
  <2>2. /\ row[t].state = "none"
        /\ row' = [row EXCEPT ![t] = [state |-> "live", parent |-> p]]
    BY <1>2, <2>1 DEF Insert, TypeOK
  <2>3. \A s \in Tasks : row[s].parent # t
    BY <1>0, <2>1, <2>2, TaskTreeAssumption DEF ForeignKey, Stored
  <2>4. ASSUME Verdict = "checked", p # None
        PROVE  Live(p) /\ \E V \in SUBSET Tasks : Above(V, p, t)
    <3>1. r \notin stale
      BY <2>1, <2>4, VerdictVouches DEF Acts, Done, TypeOK
    <3>2. Live(p)
      BY <2>1, <2>4, <3>1 DEF ReadHolds, Holds, Acceptable
    <3>3. Above(Tasks \ {t}, p, t)
      BY <2>1, <2>2, <2>3, <2>4, <3>2 DEF Above, Parents, Live, TypeOK, Row
    <3> QED
      BY <3>2, <3>3
  <2>5. row'[t].parent = p /\ ~Stored(t) /\ \A s \in Tasks \ {t} : row'[s] = row[s]
    BY <2>1, <2>2 DEF Stored, TypeOK
  <2> QED
    BY <1>0, <2>1, <2>4, <2>5, NewLinkKeepsTree
<1>3. CASE Reparent(r) /\ row' # row
  <2> PICK t, p : t = request[r].task /\ p = request[r].parent
    OBVIOUS
  <2>1. /\ request[r].pc = "walk" /\ request[r] # Idle /\ Done(r)
        /\ t \in Tasks /\ p \in Parents
    BY <1>3 DEF Reparent, TypeOK, Request, Idle
  <2>2. row' = [row EXCEPT ![t].parent = p]
    BY <1>3, <2>1 DEF Reparent, TypeOK, Row
  <2>3. ASSUME Verdict = "checked", p # None
        PROVE  Live(p) /\ \E V \in SUBSET Tasks : Above(V, p, t)
    <3>1. r \notin stale /\ request[r].cursor = None
      BY <2>1, <2>3, VerdictVouches DEF Acts, Done, TypeOK
    <3>2. Acceptable(p) /\ Met(request[r], seen[r] \ {t})
      BY <2>1, <3>1 DEF ReadHolds, Holds
    <3>3. Live(p)
      BY <2>3, <3>2 DEF Acceptable
    <3>4. Above(seen[r] \ {t}, p, t)
      BY <3>1, <3>2 DEF Met, Above
    <3>5. seen[r] \ {t} \in SUBSET Tasks
      BY DEF TypeOK
    <3> QED
      BY <3>3, <3>4, <3>5
  <2>4. /\ row'[t].parent = p /\ row'[t].state = row[t].state
        /\ \A s \in Tasks \ {t} : row'[s] = row[s]
    BY <2>1, <2>2 DEF TypeOK, Row
  <2> QED
    BY <1>0, <2>1, <2>3, <2>4, NewLinkKeepsTree
<1>4. CASE Delete(r)
  <2> PICK D : D = request[r].tasks
    OBVIOUS
  <2>1. row' = Deleted(D)
    BY <1>4 DEF Delete
  <2>2. \A t \in Tasks : row'[t].parent \in {None, row[t].parent}
    BY <2>1 DEF Deleted
  <2>3. \A t \in Tasks : row'[t].state = "live" => Stored(t)
    BY <2>1 DEF Deleted, Stored
  <2>4. ASSUME NEW t \in Kept, Live(row[t].parent), row'[t].parent # None
        PROVE  Live(row[t].parent)'
    <3> PICK p : p = row[t].parent
      OBVIOUS
    <3>1. t \in Tasks /\ Live(t) /\ p # None /\ p \notin D
      BY <2>1, <2>2, <2>4 DEF Kept, Deleted
    <3>2. p \in Tasks
      BY <3>1 DEF TypeOK, Row, Parents
    <3>3. row'[t].parent = p /\ row'[p].state = row[p].state
      BY <2>1, <2>2, <2>4, <3>1, <3>2 DEF Deleted
    <3> QED
      BY <2>4, <3>3 DEF Live
  <2> QED
    BY <1>0, <2>2, <2>3, <2>4, FewerLinksKeepTree
<1>5. CASE Restore(r)
  <2> PICK t : t = request[r].task
    OBVIOUS
  <2>1. t \in Tasks
    BY <1>5 DEF Restore, TypeOK, Request, Idle
  <2>2. \A s \in Tasks : /\ row'[s].parent = row[s].parent
                         /\ row'[s].state = "live" => Stored(s)
                         /\ Live(s) => Live(s)'
    BY <1>5, <2>1 DEF Restore, Live, Stored, TypeOK, Row
  <2>3. \A s \in Kept : row[s].parent \in Parents
    BY DEF Kept, TypeOK, Row
  <2>4. \A s \in Kept : Live(row[s].parent) /\ row'[s].parent # None => Live(row[s].parent)'
    BY <2>2, <2>3 DEF Kept, Parents
  <2> QED
    BY <1>0, <2>2, <2>4, FewerLinksKeepTree
<1>6. CASE Purge(r)
  <2> PICK t : t = request[r].task
    OBVIOUS
  <2>1. row' = Purged(t)
    BY <1>6 DEF Purge
  <2>2. \A s \in Tasks : /\ row'[s].parent \in {None, row[s].parent}
                         /\ row'[s].state = "live" => Stored(s)
    BY <2>1 DEF Purged, Gone, Stored
  <2>3. ASSUME NEW s \in Kept, Live(row[s].parent), row'[s].parent # None
        PROVE  Live(row[s].parent)'
    <3> PICK p : p = row[s].parent
      OBVIOUS
    <3>1. s \in Tasks /\ p # None /\ p # t
      BY <2>1, <2>3 DEF Kept, Purged, Gone
    <3>2. p \in Tasks
      BY <3>1 DEF TypeOK, Row, Parents
    <3>3. row'[s].parent = p /\ row'[p].state = row[p].state
      BY <2>1, <2>2, <2>3, <3>1, <3>2 DEF Purged
    <3> QED
      BY <2>3, <3>3 DEF Live
  <2> QED
    BY <1>0, <2>2, <2>3, FewerLinksKeepTree
<1> QED
  BY <1>1, <1>2, <1>3, <1>4, <1>5, <1>6 DEF RequestStep, CreateBegin, ReparentBegin, Walk,
     WalkRefuses, DeleteBegin, TrashBegin, Abort

LEMMA NextKeepsTreeInv == TreeInv /\ [Next]_vars => TreeInv'
<1> SUFFICES ASSUME TreeInv, [Next]_vars
             PROVE  TreeInv'
  OBVIOUS
<1>1. TypeOK' /\ ReadHolds'
  BY NextKeepsTypes, NextKeepsRead DEF TreeInv
<1>2. CASE UNCHANGED vars
  BY <1>1, <1>2 DEF vars, TreeInv, NoCycle, NoOrphan, Kept, Live, Closed
<1>3. CASE Next
  <2>1. Remember
    BY <1>3, NextRemembers
  <2>2. PICK r \in Requests : RequestStep(r)
    BY <1>3 DEF Next, RequestStep
  <2> QED
    BY <1>1, <2>1, <2>2, StepsKeepTree DEF TreeInv
<1> QED
  BY <1>2, <1>3

LEMMA TreeInvariant == Spec => []TreeInv
<1>1. Init => TreeInv
  <2> SUFFICES ASSUME Init
               PROVE  TreeInv
    OBVIOUS
  <2>1. TypeOK
    BY InitTypes
  <2>2. Kept = {}
    BY DEF Init, Kept, Live
  <2>3. NoCycle /\ NoOrphan
    BY <2>2 DEF NoCycle, NoOrphan, Closed
  <2>4. ReadHolds
    BY DEF Init, ReadHolds, Holds, Idle
  <2> QED
    BY <2>1, <2>3, <2>4 DEF TreeInv
<1> QED
  BY <1>1, NextKeepsTreeInv, PTL DEF Spec

\* However requests overlap and however deep the tree, every cycle has a link on
\* it that was written on stale reads or past the end of the walk, or that came
\* back from the trash, and no other live task hangs from a deleted one: what
\* checkParent and the promotion of sub-tasks do keep.
THEOREM ChecksKeepTheTree == Spec => []OnlyUncheckedLinksBreakTheTree
<1>1. TreeInv => OnlyUncheckedLinksBreakTheTree
  BY DEF TreeInv, OnlyUncheckedLinksBreakTheTree, NoCycle, NoOrphan, Kept
<1> QED
  BY <1>1, TreeInvariant, PTL

-----------------------------------------------------------------------------
(* Purges *)

\* A row vanishes by a purge that was asked for it, and was in the trash unless
\* it came back after that purge had read it.
THEOREM PurgesTakeTheirOwn == Spec => OnlyOvertakenPurgesTakeTheLive
<1> DEFINE Owned == \A t \in Tasks : Stored(t) /\ row'[t].state = "gone" =>
                      \E r \in Requests : /\ request[r] = [pc |-> "purge", task |-> t]
                                          /\ request'[r] = Idle
                                          /\ Live(t) => r \in stale
<1>1. TreeInv /\ [Next]_vars => [Owned]_vars
  <2> SUFFICES ASSUME TreeInv, Next, NEW t \in Tasks, Stored(t), row'[t].state = "gone"
               PROVE  \E r \in Requests : /\ request[r] = [pc |-> "purge", task |-> t]
                                          /\ request'[r] = Idle
                                          /\ Live(t) => r \in stale
    BY DEF vars
  <2> USE DEF TreeInv, TypeOK, Stored
  <2>1. PICK r \in Requests : RequestStep(r)
    BY DEF Next, RequestStep
  <2>2. CASE row' = row
    BY <2>2
  <2>3. CASE Insert(r) \/ Delete(r)
    BY <2>3 DEF Insert, Delete, Deleted
  <2>4. CASE Reparent(r)
    <3>1. \A u \in Tasks : row'[u].state = row[u].state
      BY <2>4 DEF Reparent, Row
    <3> QED
      BY <3>1
  <2>5. CASE Restore(r)
    BY <2>5 DEF Restore, Row
  <2>6. CASE Purge(r)
    <3>1. request[r] \in [pc : {"restore", "purge"}, task : Tasks] /\ request[r].pc = "purge"
      BY <2>6 DEF Purge, Request, Idle
    <3>2. request[r].task = t
      BY <2>6 DEF Purge, Purged
    <3>3. request[r] = [pc |-> "purge", task |-> t]
      BY <3>1, <3>2
    <3>4. request'[r] = Idle
      BY <2>6 DEF Purge, Done
    <3>5. r \notin stale => ~Live(t)
      BY <3>1, <3>2 DEF ReadHolds, Holds, Discarded, Live
    <3> QED
      BY <3>3, <3>4, <3>5
  <2> QED
    BY <2>1, <2>2, <2>3, <2>4, <2>5, <2>6 DEF RequestStep, CreateBegin, ReparentBegin, Walk,
       WalkRefuses, DeleteBegin, TrashBegin, Abort
<1> QED
  BY <1>1, TreeInvariant, PTL DEF Spec, OnlyOvertakenPurgesTakeTheLive

=============================================================================
