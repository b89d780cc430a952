-------------------------- MODULE WorkspaceProofs ----------------------------
(***************************************************************************)
(* What the guards and the foreign keys keep in Workspace, for any number  *)
(* of accounts, projects and requests: TypeOK, with the cascade of seats;  *)
(* OneOwner and SeatsNameTheOwner, which hold whatever overlaps; and       *)
(* ProjectsBelongToMembers, for requests that do not.  The first is        *)
(* inductive as it stands.  Each of the others needs what a request        *)
(* carries from its guards to its write.                                   *)
(*                                                                         *)
(* And of its channel, ChatChannel, for any number of tabs, messages and   *)
(* writes and any number of drops: its types; that a bubble is pending     *)
(* only while its send is under way; that the threads agree with the       *)
(* table; and that tombstones stay.  ChatBase and then Agreement are the   *)
(* inductive invariants.                                                   *)
(***************************************************************************)
EXTENDS Workspace, ChatChannel, SequenceTheorems, TLAPS

-----------------------------------------------------------------------------
(* Types *)

LEMMA DoneFits ==
    ASSUME request \in [Requests -> Request], NEW r \in Requests, Done(r)
    PROVE  request' \in [Requests -> Request]
  BY DEF Done, Request

LEMMA InitTypes == Init => TypeOK
<1> SUFFICES ASSUME Init PROVE TypeOK
  OBVIOUS
<1>1. member \in [Users -> Member]
  BY WorkspaceAssumption DEF Init, Member, Left, Tiers
<1>2. project \in [Projects -> Project]
  BY WorkspaceAssumption DEF Init, Project, NoProject
<1>3. seat \in [Projects -> [Users -> Seats]] /\ \A p \in Projects, u \in Users : seat[p][u] = "none"
  BY DEF Init, Seats
<1>4. request \in [Requests -> Request]
  BY DEF Init, Request
<1> QED
  BY <1>1, <1>2, <1>3, <1>4 DEF Init, TypeOK

\* A request that begins changes its slot, and the history of overlaps.
LEMMA BeginFits ==
    ASSUME TypeOK, NEW r \in Requests, NEW q \in Request, Begin(r, q)
    PROVE  TypeOK'
<1>1. request' \in [Requests -> Request] /\ overlapped' \in BOOLEAN
  BY DEF TypeOK, Begin, Overlap
<1>2. UNCHANGED <<member, project, seat, excused>>
  BY DEF Begin, rows
<1> QED
  BY <1>1, <1>2 DEF TypeOK, Stored

\* What a handler knows, from its guards, when it goes on to its write.
Judged(q) ==
    /\ q.op \in {"remove", "change"} => Touchable(q.target)
    /\ q.op = "remove" => OwnsNothing(q.target)
    /\ q.op = "create" => member[q.actor].in
    /\ q.op \in OnSeat => /\ project[q.project].state = "live"
                          /\ Fit(q.op, q.project, q.target)
                          /\ q.owner = project[q.project].owner
                          /\ q.seat \in Wanted(q.op)

\* What arrives is a request, and its guards have passed.
LEMMA ArrivesJudged ==
    ASSUME TypeOK, NEW r \in Requests, Arrive(r)
    PROVE  \E q \in Request : Begin(r, q) /\ Judged(q)
<1>1. CASE \E u \in Users : RemoveBegin(r, u)
  <2>1. PICK u \in Users : RemoveBegin(r, u)
    BY <1>1
  <2> DEFINE q == [op |-> "remove", target |-> u, id |-> member[u].id]
  <2>2. q \in Request
    BY DEF TypeOK, Member, Request
  <2>3. Begin(r, q) /\ Judged(q)
    BY <2>1 DEF RemoveBegin, Judged, OnSeat
  <2> QED
    BY <2>2, <2>3
<1>2. CASE \E u \in Users, tier \in Rungs : ChangeBegin(r, u, tier)
  <2>1. PICK u \in Users, tier \in Rungs : ChangeBegin(r, u, tier)
    BY <1>2
  <2> DEFINE q == [op |-> "change", target |-> u, id |-> member[u].id, tier |-> tier]
  <2>2. q \in Request
    BY DEF TypeOK, Member, Request
  <2>3. Begin(r, q) /\ Judged(q)
    BY <2>1 DEF ChangeBegin, Judged, OnSeat
  <2> QED
    BY <2>2, <2>3
<1>3. CASE \E a \in Users, p \in Projects : CreateBegin(r, a, p)
  <2>1. PICK a \in Users, p \in Projects : CreateBegin(r, a, p)
    BY <1>3
  <2> DEFINE q == [op |-> "create", project |-> p, actor |-> a]
  <2>2. q \in Request
    BY DEF Request
  <2>3. Begin(r, q) /\ Judged(q)
    BY <2>1 DEF CreateBegin, Judged, OnSeat
  <2> QED
    BY <2>2, <2>3
<1>4. CASE \E p \in Projects, op \in OnSeat, u \in Users : SeatBegin(r, op, p, u)
  <2>1. PICK p \in Projects, op \in OnSeat, u \in Users : SeatBegin(r, op, p, u)
    BY <1>4
  <2>2. PICK s \in Wanted(op) :
          Begin(r, [op |-> op, project |-> p, owner |-> project[p].owner, target |-> u, seat |-> s])
    BY <2>1 DEF SeatBegin
  <2> DEFINE q == [op |-> op, project |-> p, owner |-> project[p].owner, target |-> u, seat |-> s]
  <2>3. s \in Seats
    BY WorkspaceAssumption DEF Wanted, Seats, OnSeat
  <2>4. q \in Request
    BY <2>3 DEF TypeOK, Project, Request
  <2>5. Begin(r, q) /\ Judged(q)
    BY <2>1, <2>2 DEF SeatBegin, Judged, OnSeat
  <2> QED
    BY <2>4, <2>5
<1>5. CASE \E p \in Projects :
             DeleteBegin(r, p) \/ \E op \in {"restore", "purge"} : TrashBegin(r, op, p)
  <2>1. PICK p \in Projects, op \in OnRow : Begin(r, [op |-> op, project |-> p])
    BY <1>5 DEF DeleteBegin, TrashBegin, OnRow
  <2> DEFINE q == [op |-> op, project |-> p]
  <2>2. q \in Request
    BY DEF Request
  <2>3. Judged(q)
    BY DEF Judged, OnSeat, OnRow
  <2> QED
    BY <2>1, <2>2, <2>3
<1> QED
  BY <1>1, <1>2, <1>3, <1>4, <1>5 DEF Arrive

LEMMA ArriveKeepsTypes ==
    ASSUME TypeOK, NEW r \in Requests, Arrive(r)
    PROVE  TypeOK'
  BY ArrivesJudged, BeginFits

\* Somebody joins, leaves or changes tier.
LEMMA MemberStepsKeepTypes ==
    ASSUME TypeOK,
           \/ \E u \in Users, tier \in Rungs : Join(u, tier)
           \/ \E r \in Requests : Remove(r) \/ Change(r)
    PROVE  TypeOK'
<1>1. CASE \E u \in Users, tier \in Rungs : Join(u, tier)
  <2>1. PICK u \in Users, tier \in Rungs : Join(u, tier)
    BY <1>1
  <2>2. member' \in [Users -> Member]
    BY <2>1, WorkspaceAssumption DEF TypeOK, Join, Member, Tiers, Rungs
  <2>3. overlapped' \in BOOLEAN
    BY <2>1 DEF TypeOK, Join, Overlap
  <2> QED
    BY <2>1, <2>2, <2>3 DEF TypeOK, Join, Stored
<1>2. CASE \E r \in Requests : Remove(r)
  <2>1. PICK r \in Requests : Remove(r)
    BY <1>2
  <2> DEFINE u == request[r].target
  <2>2. u \in Users
    BY <2>1 DEF TypeOK, Remove, Request, Idle, OnSeat, OnRow
  <2>3. request' \in [Requests -> Request] /\ overlapped' = overlapped /\ project' = project
    BY <2>1, DoneFits DEF TypeOK, Remove, Done
  <2>4. CASE Current(request[r])
    <3>1. member' = [member EXCEPT ![u] = Left(@.id)] /\ seat' = SeatsWithout(u)
      BY <2>1, <2>4 DEF Remove
    <3>2. member' \in [Users -> Member]
      BY <2>2, <3>1 DEF TypeOK, Member, Left, Tiers
    <3>3. seat' \in [Projects -> [Users -> Seats]]
      BY <2>2, <3>1 DEF TypeOK, SeatsWithout, Seats
    <3>4. \A p \in Projects, v \in Users : seat'[p][v] # "none" => seat[p][v] # "none"
      BY <2>2, <3>1 DEF TypeOK, SeatsWithout
    <3>5. excused' \subseteq Projects
      BY <2>1, <2>4 DEF TypeOK, Remove
    <3> QED
      BY <2>3, <3>2, <3>3, <3>4, <3>5 DEF TypeOK, Stored
  <2>5. CASE ~Current(request[r])
    BY <2>1, <2>3, <2>5 DEF TypeOK, Remove, Stored
  <2> QED
    BY <2>4, <2>5
<1>3. CASE \E r \in Requests : Change(r)
  <2>1. PICK r \in Requests : Change(r)
    BY <1>3
  <2> DEFINE q == request[r]
  <2>2. q.target \in Users /\ q.tier \in Rungs
    BY <2>1 DEF TypeOK, Change, Request, Idle, OnSeat, OnRow
  <2>3. request' \in [Requests -> Request] /\ UNCHANGED <<overlapped, project, seat, excused>>
    BY <2>1, DoneFits DEF TypeOK, Change, Done
  <2>4. member' \in [Users -> Member]
    BY <2>1, <2>2 DEF TypeOK, Change, Member, Tiers, Rungs
  <2> QED
    BY <2>3, <2>4 DEF TypeOK, Stored
<1> QED
  BY <1>1, <1>2, <1>3

\* A write of a row, or of seats on a row that is stored.
LEMMA ProjectStepsKeepTypes ==
    ASSUME TypeOK, NEW r \in Requests,
           \/ Create(r) \/ SeatWrite(r) \/ Transfer(r)
           \/ SoftDelete(r) \/ Restore(r) \/ Purge(r)
    PROVE  TypeOK'
<1> DEFINE q == request[r]
           p == q.project
<1>1. /\ q.op \in {"create"} \cup OnSeat \cup OnRow => p \in Projects
      /\ q.op = "create" => q.actor \in Users
      /\ q.op \in OnSeat => q.owner \in Users /\ q.target \in Users /\ q.seat \in Seats
  BY DEF TypeOK, Request, Idle, OnSeat, OnRow
<1>2. request' \in [Requests -> Request] /\ overlapped' = overlapped /\ member' = member
  BY DoneFits DEF TypeOK, Create, SeatWrite, Transfer, SoftDelete, Restore, Purge, Done
<1>3. excused' \subseteq Projects
  BY <1>1 DEF TypeOK, Create, SeatWrite, Transfer, SoftDelete, Restore, Purge, Marked, OnSeat
<1>4. CASE Create(r)
  <2>1. CASE project[p].state = "none"
    <3>1. project' = [project EXCEPT ![p] = [state |-> "live", owner |-> q.actor, restored |-> FALSE]]
      BY <1>4, <2>1 DEF Create
    <3>2. seat' = [seat EXCEPT ![p][q.actor] = "OWNER"]
      BY <1>4, <2>1 DEF Create
    <3>3. project' \in [Projects -> Project]
      BY <1>1, <1>4, <3>1 DEF TypeOK, Create, Project
    <3>4. seat' \in [Projects -> [Users -> Seats]]
      BY <1>1, <1>4, <3>2 DEF TypeOK, Create, Seats
    <3>5. \A o \in Projects, u \in Users : seat'[o][u] # "none" => seat[o][u] # "none" \/ o = p
      BY <1>1, <1>4, <3>2 DEF TypeOK, Create
    <3>6. \A o \in Projects : Stored(o) \/ o = p => Stored(o)'
      BY <1>1, <1>4, <3>1 DEF TypeOK, Create, Stored
    <3> QED
      BY <1>2, <1>3, <3>3, <3>4, <3>5, <3>6 DEF TypeOK
  <2>2. CASE project[p].state # "none"
    BY <1>2, <1>3, <1>4, <2>2 DEF TypeOK, Create, Stored
  <2> QED
    BY <2>1, <2>2
<1>5. CASE SeatWrite(r)
  <2>0. project' = project /\ q.op \in OnSeat
    BY <1>5 DEF SeatWrite
  <2>1. CASE Stored(p) /\ (q.op = "add" <=> seat[p][q.target] = "none")
    <3>1. seat' = [seat EXCEPT ![p][q.target] = q.seat]
      BY <1>5, <2>1 DEF SeatWrite
    <3>2. seat' \in [Projects -> [Users -> Seats]]
      BY <1>1, <2>0, <3>1 DEF TypeOK
    <3>3. \A o \in Projects, u \in Users : seat'[o][u] # "none" => seat[o][u] # "none" \/ o = p
      BY <1>1, <2>0, <3>1 DEF TypeOK
    <3> QED
      BY <1>2, <1>3, <2>0, <2>1, <3>2, <3>3 DEF TypeOK, Stored
  <2>2. CASE ~(Stored(p) /\ (q.op = "add" <=> seat[p][q.target] = "none"))
    BY <1>2, <1>3, <1>5, <2>2 DEF TypeOK, SeatWrite, Stored
  <2> QED
    BY <2>1, <2>2
<1>6. CASE Transfer(r)
  <2>0. q.op \in OnSeat
    BY <1>6 DEF Transfer, OnSeat
  <2>1. CASE Stored(p)
    <3>1. project' = [project EXCEPT ![p].owner = q.target] /\ seat' = Handed(q)
      BY <1>6, <2>1 DEF Transfer
    <3>2. project' \in [Projects -> Project]
      BY <1>1, <2>0, <3>1 DEF TypeOK, Project
    <3>3. seat' \in [Projects -> [Users -> Seats]]
      BY <1>1, <2>0, <3>1 DEF TypeOK, Handed, Seats
    <3>4. \A o \in Projects, u \in Users : seat'[o][u] # "none" => seat[o][u] # "none" \/ o = p
      BY <1>1, <2>0, <3>1 DEF TypeOK, Handed
    <3>5. \A o \in Projects : project'[o].state = project[o].state
      BY <1>1, <2>0, <3>1 DEF TypeOK, Project
    <3> QED
      BY <1>2, <1>3, <2>1, <3>2, <3>3, <3>4, <3>5 DEF TypeOK, Stored
  <2>2. CASE ~Stored(p)
    BY <1>2, <1>3, <1>6, <2>2 DEF TypeOK, Transfer, Stored
  <2> QED
    BY <2>1, <2>2
<1>7. CASE SoftDelete(r) \/ Restore(r)
  <2>1. p \in Projects /\ seat' = seat
    BY <1>1, <1>7 DEF SoftDelete, Restore, OnRow
  <2>2. \/ project' = [project EXCEPT ![p].state = "trash"]
        \/ project' = [project EXCEPT ![p].state = "live", ![p].restored = TRUE]
        \/ project' = project
    BY <1>7 DEF SoftDelete, Restore
  <2>3. project' \in [Projects -> Project]
    <3>1. CASE project' = [project EXCEPT ![p].state = "trash"]
      BY <2>1, <3>1 DEF TypeOK, Project
    <3>2. CASE project' = [project EXCEPT ![p].state = "live", ![p].restored = TRUE]
      <4>1. \A o \in Projects : o # p => project'[o] = project[o]
        BY <2>1, <3>2 DEF TypeOK
      <4>2. project'[p] = [state |-> "live", owner |-> project[p].owner, restored |-> TRUE]
        BY <2>1, <3>2 DEF TypeOK, Project
      <4> QED
        BY <2>1, <3>2, <4>1, <4>2 DEF TypeOK, Project
    <3> QED
      BY <2>2, <3>1, <3>2 DEF TypeOK
  <2>4. \A o \in Projects : Stored(o) => Stored(o)'
    BY <2>1, <2>2 DEF TypeOK, Project, Stored
  <2> QED
    BY <1>2, <1>3, <2>1, <2>3, <2>4 DEF TypeOK
<1>8. CASE Purge(r)
  <2>1. p \in Projects
    BY <1>1, <1>8 DEF Purge, OnRow
  <2>2. project' = [project EXCEPT ![p] = NoProject("gone")]
    BY <1>8 DEF Purge
  <2>3. seat' = [seat EXCEPT ![p] = [u \in Users |-> "none"]]
    BY <1>8 DEF Purge, Emptied
  <2>4. project' \in [Projects -> Project]
    BY <2>1, <2>2, WorkspaceAssumption DEF TypeOK, Project, NoProject
  <2>5. seat' \in [Projects -> [Users -> Seats]]
    BY <2>1, <2>3 DEF TypeOK, Seats
  <2>6. \A o \in Projects, u \in Users : seat'[o][u] # "none" => seat[o][u] # "none" /\ o # p
    BY <2>1, <2>3 DEF TypeOK
  <2>7. \A o \in Projects : Stored(o) /\ o # p => Stored(o)'
    BY <2>1, <2>2 DEF TypeOK, Stored
  <2> QED
    BY <1>2, <1>3, <2>4, <2>5, <2>6, <2>7 DEF TypeOK
<1> QED
  BY <1>4, <1>5, <1>6, <1>7, <1>8

LEMMA NextKeepsTypes == TypeOK /\ [Next]_vars => TypeOK'
<1> SUFFICES ASSUME TypeOK, [Next]_vars PROVE TypeOK'
  OBVIOUS
<1>1. CASE UNCHANGED vars
  BY <1>1 DEF vars, rows, TypeOK, Stored
<1>2. CASE \E r \in Requests : Abort(r)
  BY <1>2, DoneFits DEF Abort, Done, rows, TypeOK, Stored
<1> QED
  BY <1>1, <1>2, ArriveKeepsTypes, MemberStepsKeepTypes, ProjectStepsKeepTypes DEF Next, Write

\* Types, and no seat on a project that has no row: the cascade.
THEOREM TypeCorrect == Spec => []TypeOK
  BY InitTypes, NextKeepsTypes, PTL DEF Spec

-----------------------------------------------------------------------------
(* The owner of the workspace *)

\* assertNotOwner has let none of the requests that touch a member have the owner.
TouchesNoOwner ==
    \A r \in Requests : request[r].op \in {"remove", "change"} => request[r].target # Creator

OwnerInv == TypeOK /\ TouchesNoOwner /\ OneOwner

LEMMA InitOwner == Init => OwnerInv
  BY InitTypes DEF Init, OwnerInv, TouchesNoOwner, OneOwner, Idle, Left

LEMMA ArriveKeepsOwner ==
    ASSUME OwnerInv, NEW r \in Requests, Arrive(r)
    PROVE  OwnerInv'
<1>1. TypeOK' /\ TypeOK
  BY ArriveKeepsTypes DEF OwnerInv
<1>2. PICK q \in Request : Begin(r, q) /\ Judged(q)
  BY <1>1, ArrivesJudged
<1>3. OneOwner'
  BY <1>2 DEF OwnerInv, OneOwner, Begin, rows
<1>4. q.op \in {"remove", "change"} => q.target # Creator
  BY <1>2, WorkspaceAssumption DEF OwnerInv, OneOwner, Judged, Touchable
<1>5. TouchesNoOwner'
  BY <1>1, <1>2, <1>4 DEF OwnerInv, TouchesNoOwner, Begin, TypeOK
<1> QED
  BY <1>1, <1>3, <1>5 DEF OwnerInv

LEMMA NextKeepsOwner == OwnerInv /\ [Next]_vars => OwnerInv'
<1> SUFFICES ASSUME OwnerInv, [Next]_vars PROVE OwnerInv'
  OBVIOUS
<1>1. TypeOK' /\ TypeOK
  BY NextKeepsTypes DEF OwnerInv
<1>2. CASE UNCHANGED vars
  BY <1>1, <1>2 DEF OwnerInv, TouchesNoOwner, OneOwner, vars, rows
<1>3. CASE \E r \in Requests : Arrive(r)
  BY <1>3, ArriveKeepsOwner
<1>4. CASE \E u \in Users, tier \in Rungs : Join(u, tier)
  <2>1. PICK u \in Users, tier \in Rungs : Join(u, tier)
    BY <1>4
  <2>2. u # Creator
    BY <2>1 DEF OwnerInv, OneOwner, Join
  <2>3. OneOwner'
    BY <1>1, <2>1, <2>2 DEF OwnerInv, OneOwner, Join, TypeOK, Rungs
  <2> QED
    BY <1>1, <2>1, <2>3 DEF OwnerInv, TouchesNoOwner, Join
<1>5. CASE \E r \in Requests : Write(r)
  <2>1. PICK r \in Requests : Write(r)
    BY <1>5
  <2>2. Done(r)
    BY <2>1 DEF Write, Remove, Change, Create, SeatWrite, Transfer, SoftDelete, Restore, Purge, Abort
  <2>3. TouchesNoOwner'
    BY <1>1, <2>2 DEF OwnerInv, TouchesNoOwner, Done, Idle, TypeOK
  <2>4. CASE Remove(r) \/ Change(r)
    <3>1. request[r].target # Creator
      BY <2>4 DEF OwnerInv, TouchesNoOwner, Remove, Change
    <3>2. request[r] \in Request /\ request[r].op \in {"remove", "change"}
      BY <1>1, <2>4 DEF TypeOK, Remove, Change
    <3>3. request[r].op = "change" => request[r].tier # "OWNER"
      BY <3>2 DEF Request, Idle, OnSeat, OnRow, Rungs
    <3>4. OneOwner'
      <4>1. CASE Remove(r)
        BY <1>1, <3>1, <4>1 DEF OwnerInv, OneOwner, Remove, Current, Left, TypeOK
      <4>2. CASE Change(r)
        BY <1>1, <3>1, <3>3, <4>2 DEF OwnerInv, OneOwner, Change, Current, TypeOK, Member
      <4> QED
        BY <2>4, <4>1, <4>2
    <3> QED
      BY <1>1, <2>3, <3>4 DEF OwnerInv
  <2>5. CASE member' = member
    BY <1>1, <2>3, <2>5 DEF OwnerInv, OneOwner
  <2> QED
    BY <2>1, <2>4, <2>5 DEF Write, Create, SeatWrite, Transfer, SoftDelete, Restore, Purge, Abort, rows
<1> QED
  BY <1>2, <1>3, <1>4, <1>5 DEF Next

\* Whatever overlaps, a workspace keeps its one OWNER: no removal and no change of
\* role reaches that membership, because no later write can make the row that
\* assertNotOwner judged the owner's.
THEOREM OwnerStays == Spec => []OneOwner
<1>1. OwnerInv => OneOwner
  BY DEF OwnerInv
<1> QED
  BY InitOwner, NextKeepsOwner, <1>1, PTL DEF Spec

-----------------------------------------------------------------------------
(* The owner of a project *)

\* What rejectIfOwner, and the choice of a target, have settled of the requests
\* about seats: only a transfer gives the owner's, and none but an addition
\* touches the one who owned the project when it was loaded.
SparesOwner(q) ==
    /\ q.op \in OnSeat \ {"transfer"} => q.seat # "OWNER"
    /\ q.op \in {"reseat", "unseat", "transfer"} => q.target # q.owner

SeatsAreAsked == \A r \in Requests : SparesOwner(request[r])

SeatsInv == TypeOK /\ SeatsAreAsked /\ SeatsNameTheOwner

LEMMA InitSeats == Init => SeatsInv
  BY InitTypes DEF Init, SeatsInv, SeatsAreAsked, SparesOwner, SeatsNameTheOwner, Idle, OnSeat,
                   Stored, NoProject

LEMMA ArriveKeepsSeats ==
    ASSUME SeatsInv, NEW r \in Requests, Arrive(r)
    PROVE  SeatsInv'
<1>1. TypeOK' /\ TypeOK
  BY ArriveKeepsTypes DEF SeatsInv
<1>2. PICK q \in Request : Begin(r, q) /\ Judged(q)
  BY <1>1, ArrivesJudged
<1>3. SeatsNameTheOwner'
  BY <1>2 DEF SeatsInv, SeatsNameTheOwner, Begin, rows, Stored, Owns
<1>4. SparesOwner(q)
  BY <1>2, WorkspaceAssumption DEF Judged, SparesOwner, Fit, Owns, Wanted, OnSeat
<1>5. SeatsAreAsked'
  BY <1>1, <1>2, <1>4 DEF SeatsInv, SeatsAreAsked, SparesOwner, Begin, TypeOK
<1> QED
  BY <1>1, <1>3, <1>5 DEF SeatsInv

\* A removal excuses the projects of the one it removes.
LEMMA RemoveKeepsSeats ==
    ASSUME SeatsInv, NEW r \in Requests, Remove(r)
    PROVE  SeatsNameTheOwner'
<1> DEFINE u == request[r].target
<1>1. project' = project /\ TypeOK
  BY DEF Remove, SeatsInv
<1>2. u \in Users
  BY <1>1 DEF TypeOK, Remove, Request, Idle, OnSeat, OnRow
<1>3. CASE Current(request[r])
  <2>1. seat' = SeatsWithout(u)
    BY <1>3 DEF Remove
  <2>2. excused' = excused \cup {p \in Projects : Stored(p) /\ project[p].owner = u}
    BY <1>3 DEF Remove
  <2> SUFFICES ASSUME NEW p \in Projects, Stored(p), p \notin excused', NEW v \in Users
               PROVE  seat'[p][v] = "OWNER" <=> Owns(v, p)
    BY <1>1 DEF SeatsNameTheOwner, Stored, Owns
  <2>3. seat[p][v] = "OWNER" <=> Owns(v, p)
    BY <2>2 DEF SeatsInv, SeatsNameTheOwner
  <2>4. ~Owns(u, p)
    BY <2>2 DEF Owns
  <2>5. seat'[p][v] = IF v = u THEN "none" ELSE seat[p][v]
    BY <1>1, <1>2, <2>1 DEF TypeOK, SeatsWithout
  <2> QED
    BY <2>3, <2>4, <2>5
<1>4. CASE ~Current(request[r])
  BY <1>1, <1>4 DEF Remove, SeatsInv, SeatsNameTheOwner, Stored, Owns
<1> QED
  BY <1>3, <1>4

\* A change of seats from the owner that still is one spares him.
LEMMA SeatWriteKeepsSeats ==
    ASSUME SeatsInv, NEW r \in Requests, SeatWrite(r)
    PROVE  SeatsNameTheOwner'
<1> DEFINE q == request[r]
           p == q.project
<1>1. project' = project /\ TypeOK /\ q.op \in OnSeat \ {"transfer"}
  BY DEF SeatWrite, SeatsInv
<1>2. p \in Projects /\ q.target \in Users /\ q.owner \in Users
  BY <1>1 DEF TypeOK, Request, Idle, OnSeat, OnRow
<1>3. CASE Stored(p) /\ (q.op = "add" <=> seat[p][q.target] = "none")
  <2>1. seat' = [seat EXCEPT ![p][q.target] = q.seat] /\ excused' = Marked(q)
    BY <1>3 DEF SeatWrite
  <2> SUFFICES ASSUME NEW o \in Projects, Stored(o), o \notin excused', NEW v \in Users
               PROVE  seat'[o][v] = "OWNER" <=> Owns(v, o)
    BY <1>1 DEF SeatsNameTheOwner, Stored, Owns
  <2>2. o \notin excused /\ (o = p => Owns(q.owner, p))
    BY <2>1 DEF Marked
  <2>3. \A w \in Users : seat[o][w] = "OWNER" <=> Owns(w, o)
    BY <2>2 DEF SeatsInv, SeatsNameTheOwner
  <2>4. CASE o = p /\ v = q.target
    <3>1. seat'[o][v] = q.seat /\ q.seat # "OWNER"
      BY <1>1, <1>2, <2>1, <2>4 DEF TypeOK, SeatsInv, SeatsAreAsked, SparesOwner
    <3>2. CASE q.op = "add"
      BY <1>3, <2>3, <2>4, <3>1, <3>2
    <3>3. CASE q.op # "add"
      <4>1. q.target # q.owner
        BY <1>1, <3>3 DEF SeatsInv, SeatsAreAsked, SparesOwner, OnSeat
      <4> QED
        BY <2>2, <2>4, <3>1, <4>1 DEF Owns
    <3> QED
      BY <3>2, <3>3
  <2>5. CASE ~(o = p /\ v = q.target)
    BY <1>1, <1>2, <2>1, <2>3, <2>5 DEF TypeOK
  <2> QED
    BY <2>4, <2>5
<1>4. CASE ~(Stored(p) /\ (q.op = "add" <=> seat[p][q.target] = "none"))
  BY <1>1, <1>4 DEF SeatWrite, SeatsInv, SeatsNameTheOwner, Stored, Owns
<1> QED
  BY <1>3, <1>4

\* A transfer moves the owner's seat with the ownership.
LEMMA TransferKeepsSeats ==
    ASSUME SeatsInv, NEW r \in Requests, Transfer(r)
    PROVE  SeatsNameTheOwner'
<1> DEFINE q == request[r]
           p == q.project
<1>1. TypeOK /\ q.op = "transfer"
  BY DEF Transfer, SeatsInv
<1>2. p \in Projects /\ q.target \in Users /\ q.owner \in Users
  BY <1>1 DEF TypeOK, Request, Idle, OnSeat, OnRow
<1>3. q.target # q.owner
  BY <1>1 DEF SeatsInv, SeatsAreAsked, SparesOwner
<1>4. CASE Stored(p)
  <2>1. project' = [project EXCEPT ![p].owner = q.target] /\ seat' = Handed(q) /\ excused' = Marked(q)
    BY <1>4 DEF Transfer
  <2>2. \A o \in Projects : project'[o].state = project[o].state
    BY <1>1, <1>2, <2>1 DEF TypeOK, Project
  <2>3. \A o \in Projects : project'[o].owner = IF o = p THEN q.target ELSE project[o].owner
    BY <1>1, <1>2, <2>1 DEF TypeOK, Project
  <2> SUFFICES ASSUME NEW o \in Projects, Stored(o), o \notin excused', NEW v \in Users
               PROVE  seat'[o][v] = "OWNER" <=> project'[o].owner = v
    BY <2>2 DEF SeatsNameTheOwner, Stored, Owns
  <2>4. o \notin excused /\ (o = p => Owns(q.owner, p))
    BY <2>1 DEF Marked
  <2>5. seat[o][v] = "OWNER" <=> Owns(v, o)
    BY <2>4 DEF SeatsInv, SeatsNameTheOwner
  <2>6. seat'[o][v] = IF o = p /\ v = q.target THEN "OWNER"
                      ELSE IF o = p /\ v = q.owner THEN "MANAGER" ELSE seat[o][v]
    BY <1>1, <1>2, <1>3, <2>1 DEF TypeOK, Handed
  <2> QED
    BY <1>3, <2>3, <2>4, <2>5, <2>6 DEF Owns
<1>5. CASE ~Stored(p)
  BY <1>5 DEF Transfer, SeatsInv, SeatsNameTheOwner, Stored, Owns
<1> QED
  BY <1>4, <1>5

\* A project begins with its owner's seat, and ends with none.
LEMMA RowStepsKeepSeats ==
    ASSUME SeatsInv, NEW r \in Requests, Create(r) \/ SoftDelete(r) \/ Restore(r) \/ Purge(r)
    PROVE  SeatsNameTheOwner'
<1> DEFINE q == request[r]
           p == q.project
<1>1. TypeOK /\ p \in Projects /\ excused' = excused
  BY DEF SeatsInv, TypeOK, Create, SoftDelete, Restore, Purge, Request, Idle, OnSeat, OnRow
<1>2. CASE Create(r)
  <2>0. q.actor \in Users
    BY <1>1, <1>2 DEF TypeOK, Create, Request, Idle, OnSeat, OnRow
  <2>1. CASE project[p].state = "none"
    <3>1. project' = [project EXCEPT ![p] = [state |-> "live", owner |-> q.actor, restored |-> FALSE]]
      BY <1>2, <2>1 DEF Create
    <3>2. seat' = [seat EXCEPT ![p][q.actor] = "OWNER"]
      BY <1>2, <2>1 DEF Create
    <3>3. \A v \in Users : seat[p][v] = "none"
      BY <1>1, <2>1 DEF TypeOK, Stored
    <3>4. \A v \in Users : seat'[p][v] = IF v = q.actor THEN "OWNER" ELSE "none"
      BY <1>1, <2>0, <3>2, <3>3 DEF TypeOK
    <3>5. \A o \in Projects : o # p => seat'[o] = seat[o] /\ project'[o] = project[o]
      BY <1>1, <3>1, <3>2 DEF TypeOK
    <3>6. project'[p].owner = q.actor
      BY <1>1, <3>1 DEF TypeOK
    <3> QED
      BY <1>1, <3>4, <3>5, <3>6 DEF SeatsInv, SeatsNameTheOwner, Stored, Owns
  <2>2. CASE project[p].state # "none"
    BY <1>1, <1>2, <2>2 DEF Create, SeatsInv, SeatsNameTheOwner, Stored, Owns
  <2> QED
    BY <2>1, <2>2
<1>3. CASE SoftDelete(r) \/ Restore(r)
  <2>1. \A o \in Projects : /\ project'[o].owner = project[o].owner
                            /\ Stored(o)' => Stored(o)
    BY <1>1, <1>3 DEF SoftDelete, Restore, TypeOK, Project, Stored
  <2> QED
    BY <1>1, <1>3, <2>1 DEF SoftDelete, Restore, SeatsInv, SeatsNameTheOwner, Owns
<1>4. CASE Purge(r)
  <2>1. \A o \in Projects : /\ Stored(o)' => o # p
                            /\ o # p => seat'[o] = seat[o] /\ project'[o] = project[o]
    BY <1>1, <1>4 DEF Purge, Emptied, NoProject, TypeOK, Stored
  <2> QED
    BY <1>1, <2>1 DEF SeatsInv, SeatsNameTheOwner, Stored, Owns
<1> QED
  BY <1>2, <1>3, <1>4

LEMMA NextKeepsSeats == SeatsInv /\ [Next]_vars => SeatsInv'
<1> SUFFICES ASSUME SeatsInv, [Next]_vars PROVE SeatsInv'
  OBVIOUS
<1>1. TypeOK' /\ TypeOK
  BY NextKeepsTypes DEF SeatsInv
<1>2. CASE UNCHANGED <<project, seat, request, excused>>
  BY <1>1, <1>2 DEF SeatsInv, SeatsAreAsked, SeatsNameTheOwner, Stored, Owns
<1>3. CASE \E r \in Requests : Arrive(r)
  BY <1>3, ArriveKeepsSeats
<1>4. CASE \E r \in Requests : Write(r)
  <2>1. PICK r \in Requests : Write(r)
    BY <1>4
  <2>2. Done(r)
    BY <2>1 DEF Write, Remove, Change, Create, SeatWrite, Transfer, SoftDelete, Restore, Purge, Abort
  <2>3. SeatsAreAsked'
    BY <1>1, <2>2 DEF SeatsInv, SeatsAreAsked, SparesOwner, Done, Idle, OnSeat, TypeOK
  <2>4. SeatsNameTheOwner'
    <3>1. CASE Change(r) \/ Abort(r)
      BY <3>1 DEF Change, Abort, rows, SeatsInv, SeatsNameTheOwner, Stored, Owns
    <3> QED
      BY <2>1, <3>1, RemoveKeepsSeats, SeatWriteKeepsSeats, TransferKeepsSeats, RowStepsKeepSeats
         DEF Write
  <2> QED
    BY <1>1, <2>3, <2>4 DEF SeatsInv
<1> QED
  BY <1>2, <1>3, <1>4 DEF Next, Join, vars, rows

\* In every interleaving the seats of a stored project name its owner and nobody
\* else, but for a write judged on an earlier owner and an owner taken out of the
\* workspace: the two upserts of a transfer, rejectIfOwner and the unique pair
\* keep the invariant of the schema.
THEOREM SeatsFollowTheOwner == Spec => []SeatsNameTheOwner
<1>1. SeatsInv => SeatsNameTheOwner
  BY DEF SeatsInv
<1> QED
  BY InitSeats, NextKeepsSeats, <1>1, PTL DEF Spec

-----------------------------------------------------------------------------
(* Members *)

\* A project that was never in the trash.
NeverTrashed(p) == project[p].state = "live" /\ ~project[p].restored

MembersHoldProjects ==
    \A p \in Projects : NeverTrashed(p) =>
        /\ member[project[p].owner].in
        /\ \A u \in Users : seat[p][u] # "none" => member[u].in

\* A request by itself finds at its write what it found at its guards.
StillSo(q) ==
    /\ q.op = "remove" => OwnsNothing(q.target)
    /\ q.op = "create" => member[q.actor].in
    /\ q.op \in {"add", "transfer"} => member[q.target].in
    /\ q.op = "unseat" => q.seat = "none"
    /\ q.op = "transfer" => q.owner = project[q.project].owner

Alone ==
    /\ \A r \in Requests, o \in Requests : request[r] # Idle /\ request[o] # Idle => r = o
    /\ \A r \in Requests : StillSo(request[r])
    /\ MembersHoldProjects

AloneInv == TypeOK /\ (~overlapped => Alone)

LEMMA InitAlone == Init => AloneInv
<1> SUFFICES ASSUME Init PROVE AloneInv
  OBVIOUS
<1>1. \A r \in Requests : request[r] = Idle
  BY DEF Init
<1>2. \A r \in Requests : StillSo(request[r])
  BY <1>1 DEF StillSo, Idle
<1>3. \A p \in Projects : ~NeverTrashed(p)
  BY DEF Init, NeverTrashed, NoProject
<1> QED
  BY <1>1, <1>2, <1>3, InitTypes DEF AloneInv, Alone, MembersHoldProjects

\* The first request to be in flight is the only one.
LEMMA ArriveKeepsAlone ==
    ASSUME AloneInv, NEW r \in Requests, Arrive(r)
    PROVE  AloneInv'
<1>1. TypeOK' /\ TypeOK
  BY ArriveKeepsTypes DEF AloneInv
<1>2. PICK q \in Request : Begin(r, q) /\ Judged(q)
  BY <1>1, ArrivesJudged
<1>3. ASSUME ~overlapped' PROVE Alone'
  <2>1. ~overlapped /\ \A o \in Requests : request[o] = Idle
    BY <1>2, <1>3 DEF Begin, Overlap
  <2>2. UNCHANGED <<member, project, seat>> /\ request' = [request EXCEPT ![r] = q]
    BY <1>2 DEF Begin, rows
  <2>3. \A o \in Requests : request'[o] = IF o = r THEN q ELSE Idle
    BY <1>1, <2>1, <2>2 DEF TypeOK
  <2>4. StillSo(q)
    BY <1>2 DEF Judged, StillSo, Fit, Wanted, OnSeat
  <2>5. StillSo(Idle)
    BY DEF StillSo, Idle
  <2>6. \A o \in Requests : StillSo(request'[o])
    BY <2>3, <2>4, <2>5
  <2>7. (\A o \in Requests : StillSo(request[o]))'
    BY <2>2, <2>6 DEF StillSo, OwnsNothing
  <2>8. MembersHoldProjects'
    BY <2>1, <2>2 DEF AloneInv, Alone, MembersHoldProjects, NeverTrashed
  <2> QED
    BY <2>3, <2>7, <2>8 DEF Alone
<1> QED
  BY <1>1, <1>3 DEF AloneInv

\* Nobody is in flight when somebody joins, and only takes a seat later.
LEMMA JoinKeepsAlone ==
    ASSUME AloneInv, NEW u \in Users, NEW tier \in Rungs, Join(u, tier)
    PROVE  AloneInv'
<1>1. TypeOK' /\ TypeOK
  BY MemberStepsKeepTypes DEF AloneInv
<1>2. ASSUME ~overlapped' PROVE Alone'
  <2>1. ~overlapped /\ \A o \in Requests : request[o] = Idle
    BY <1>2 DEF Join, Overlap
  <2>2. UNCHANGED <<project, seat, request>>
    BY DEF Join
  <2>3. \A v \in Users : member[v].in => member'[v].in
    BY <1>1 DEF Join, TypeOK
  <2>4. MembersHoldProjects'
    BY <1>1, <2>1, <2>2, <2>3 DEF AloneInv, Alone, MembersHoldProjects, NeverTrashed, TypeOK, Project
  <2>5. (\A o \in Requests : StillSo(request[o]))'
    BY <2>1, <2>2 DEF StillSo, Idle
  <2> QED
    BY <2>1, <2>2, <2>4, <2>5 DEF Alone
<1> QED
  BY <1>1, <1>2 DEF AloneInv

\* The removal finds the member without a live project, and takes the seats along.
LEMMA RemoveHoldsMembers ==
    ASSUME TypeOK, MembersHoldProjects, NEW r \in Requests, StillSo(request[r]), Remove(r)
    PROVE  MembersHoldProjects'
<1> DEFINE u == request[r].target
<1>1. project' = project /\ u \in Users /\ OwnsNothing(u)
  BY DEF TypeOK, Remove, Request, Idle, OnSeat, OnRow, StillSo
<1>2. CASE Current(request[r])
  <2>1. seat' = SeatsWithout(u) /\ member' = [member EXCEPT ![u] = Left(@.id)]
    BY <1>2 DEF Remove
  <2> SUFFICES ASSUME NEW p \in Projects, NeverTrashed(p)
               PROVE  /\ member'[project[p].owner].in
                      /\ \A v \in Users : seat'[p][v] # "none" => member'[v].in
    BY <1>1 DEF MembersHoldProjects, NeverTrashed
  <2>2. project[p].owner # u /\ project[p].owner \in Users
    BY <1>1 DEF OwnsNothing, NeverTrashed, TypeOK, Project
  <2>3. \A v \in Users : v # u => member'[v] = member[v] /\ seat'[p][v] = seat[p][v]
    BY <1>1, <2>1 DEF TypeOK, SeatsWithout
  <2>4. seat'[p][u] = "none"
    BY <1>1, <2>1 DEF TypeOK, SeatsWithout
  <2> QED
    BY <2>2, <2>3, <2>4 DEF MembersHoldProjects
<1>3. CASE ~Current(request[r])
  BY <1>1, <1>3 DEF Remove, MembersHoldProjects, NeverTrashed
<1> QED
  BY <1>2, <1>3

\* Seats and projects go to those found to be members.
LEMMA SeatsHoldMembers ==
    ASSUME TypeOK, MembersHoldProjects, NEW r \in Requests, StillSo(request[r]),
           SeatWrite(r) \/ Transfer(r)
    PROVE  MembersHoldProjects'
<1> DEFINE q == request[r]
           p == q.project
<1>1. p \in Projects /\ q.target \in Users /\ q.owner \in Users /\ member' = member /\ q.op \in OnSeat
  BY DEF TypeOK, SeatWrite, Transfer, Request, Idle, OnSeat, OnRow
<1>2. CASE SeatWrite(r)
  <2>1. project' = project /\ q.op \in {"add", "reseat", "unseat"}
    BY <1>2 DEF SeatWrite, OnSeat
  <2>2. CASE seat' = [seat EXCEPT ![p][q.target] = q.seat]
    <3> SUFFICES ASSUME NEW o \in Projects, NeverTrashed(o), NEW v \in Users, seat'[o][v] # "none"
                 PROVE  member[v].in
      BY <1>1, <2>1 DEF MembersHoldProjects, NeverTrashed
    <3>1. seat[o][v] # "none" \/ (v = q.target /\ q.op = "add")
      BY <1>1, <1>2, <2>1, <2>2 DEF TypeOK, StillSo, SeatWrite
    <3> QED
      BY <3>1 DEF MembersHoldProjects, StillSo
  <2>3. CASE seat' = seat
    BY <1>1, <2>1, <2>3 DEF MembersHoldProjects, NeverTrashed
  <2> QED
    BY <1>2, <2>2, <2>3 DEF SeatWrite
<1>3. CASE Transfer(r)
  <2>0. q.op = "transfer"
    BY <1>3 DEF Transfer
  <2>1. CASE Stored(p)
    <3>1. project' = [project EXCEPT ![p].owner = q.target] /\ seat' = Handed(q)
      BY <1>3, <2>1 DEF Transfer
    <3>2. \A o \in Projects : /\ project'[o].state = project[o].state
                              /\ project'[o].restored = project[o].restored
                              /\ project'[o].owner = IF o = p THEN q.target ELSE project[o].owner
      BY <1>1, <3>1 DEF TypeOK, Project
    <3>3. \A o \in Projects, v \in Users :
             seat'[o][v] # "none" =>
                seat[o][v] # "none" \/ v = q.target \/ (o = p /\ v = project[p].owner)
      BY <1>1, <2>0, <3>1 DEF TypeOK, Handed, StillSo
    <3>4. member[q.target].in
      BY <2>0 DEF StillSo
    <3> QED
      BY <1>1, <3>2, <3>3, <3>4 DEF MembersHoldProjects, NeverTrashed
  <2>2. CASE ~Stored(p)
    BY <1>1, <1>3, <2>2 DEF Transfer, MembersHoldProjects, NeverTrashed
  <2> QED
    BY <2>1, <2>2
<1> QED
  BY <1>2, <1>3

\* A project begins with a member, and comes back from the trash marked.
LEMMA RowsHoldMembers ==
    ASSUME TypeOK, MembersHoldProjects, NEW r \in Requests, StillSo(request[r]),
           Create(r) \/ SoftDelete(r) \/ Restore(r) \/ Purge(r)
    PROVE  MembersHoldProjects'
<1> DEFINE q == request[r]
           p == q.project
<1>1. p \in Projects /\ member' = member
  BY DEF TypeOK, Create, SoftDelete, Restore, Purge, Request, Idle, OnSeat, OnRow
<1>2. CASE Create(r)
  <2>0. q.actor \in Users /\ member[q.actor].in
    BY <1>1, <1>2 DEF TypeOK, Create, Request, Idle, OnSeat, OnRow, StillSo
  <2>1. CASE project[p].state = "none"
    <3>1. project' = [project EXCEPT ![p] = [state |-> "live", owner |-> q.actor, restored |-> FALSE]]
      BY <1>2, <2>1 DEF Create
    <3>2. seat' = [seat EXCEPT ![p][q.actor] = "OWNER"]
      BY <1>2, <2>1 DEF Create
    <3>3. \A v \in Users : seat[p][v] = "none"
      BY <1>1, <2>1 DEF TypeOK, Stored
    <3>4. \A v \in Users : seat'[p][v] = IF v = q.actor THEN "OWNER" ELSE "none"
      BY <1>1, <2>0, <3>2, <3>3 DEF TypeOK
    <3>5. \A o \in Projects : o # p => seat'[o] = seat[o] /\ project'[o] = project[o]
      BY <1>1, <3>1, <3>2 DEF TypeOK
    <3>6. project'[p].owner = q.actor
      BY <1>1, <3>1 DEF TypeOK
    <3> QED
      BY <1>1, <2>0, <3>4, <3>5, <3>6 DEF MembersHoldProjects, NeverTrashed
  <2>2. CASE project[p].state # "none"
    BY <1>1, <1>2, <2>2 DEF Create, MembersHoldProjects, NeverTrashed
  <2> QED
    BY <2>1, <2>2
<1>3. CASE SoftDelete(r) \/ Restore(r)
  <2>1. \/ project' = [project EXCEPT ![p].state = "trash"]
        \/ project' = [project EXCEPT ![p].state = "live", ![p].restored = TRUE]
        \/ project' = project
    BY <1>3 DEF SoftDelete, Restore
  <2>2. \A o \in Projects : /\ project'[o].owner = project[o].owner
                            /\ NeverTrashed(o)' => NeverTrashed(o)
    <3>1. CASE project' = [project EXCEPT ![p].state = "trash"]
      BY <1>1, <3>1 DEF TypeOK, Project, NeverTrashed
    <3>2. CASE project' = [project EXCEPT ![p].state = "live", ![p].restored = TRUE]
      BY <1>1, <3>2 DEF TypeOK, Project, NeverTrashed
    <3> QED
      BY <2>1, <3>1, <3>2 DEF NeverTrashed
  <2> QED
    BY <1>1, <1>3, <2>2 DEF SoftDelete, Restore, MembersHoldProjects
<1>4. CASE Purge(r)
  <2>1. \A o \in Projects : /\ NeverTrashed(o)' => o # p
                            /\ o # p => seat'[o] = seat[o] /\ project'[o] = project[o]
    BY <1>1, <1>4 DEF Purge, Emptied, NoProject, TypeOK, NeverTrashed
  <2> QED
    BY <1>1, <2>1 DEF MembersHoldProjects, NeverTrashed
<1> QED
  BY <1>2, <1>3, <1>4

LEMMA WriteKeepsAlone ==
    ASSUME AloneInv, NEW r \in Requests, Write(r)
    PROVE  AloneInv'
<1>1. TypeOK' /\ TypeOK
  BY NextKeepsTypes DEF AloneInv, Next
<1>2. Done(r)
  BY DEF Write, Remove, Change, Create, SeatWrite, Transfer, SoftDelete, Restore, Purge, Abort
<1>3. ASSUME ~overlapped' PROVE Alone'
  <2>1. Alone /\ request[r] # Idle
    BY <1>2, <1>3 DEF AloneInv, Done, Write, Remove, Change, Create, SeatWrite, Transfer, SoftDelete,
                      Restore, Purge, Abort, Idle, OnSeat
  <2>2. \A o \in Requests : request'[o] = Idle
    BY <1>1, <1>2, <2>1 DEF Alone, Done, TypeOK
  <2>3. (\A o \in Requests : StillSo(request[o]))'
    BY <2>2 DEF StillSo, Idle
  <2>4. MembersHoldProjects /\ StillSo(request[r])
    BY <2>1 DEF Alone
  <2>5. MembersHoldProjects'
    <3>1. CASE Change(r)
      <4>1. \A v \in Users : member'[v].in = member[v].in
        BY <1>1, <3>1 DEF Change, TypeOK, Member
      <4> QED
        BY <1>1, <2>4, <3>1, <4>1 DEF Change, MembersHoldProjects, NeverTrashed, TypeOK, Project
    <3>2. CASE Abort(r)
      BY <2>4, <3>2 DEF Abort, rows, MembersHoldProjects, NeverTrashed
    <3> QED
      BY <1>1, <2>4, <3>1, <3>2, RemoveHoldsMembers, SeatsHoldMembers, RowsHoldMembers DEF Write
  <2> QED
    BY <2>2, <2>3, <2>5 DEF Alone
<1> QED
  BY <1>1, <1>3 DEF AloneInv

LEMMA NextKeepsAlone == AloneInv /\ [Next]_vars => AloneInv'
<1> SUFFICES ASSUME AloneInv, [Next]_vars PROVE AloneInv'
  OBVIOUS
<1>1. CASE UNCHANGED vars
  <2>1. TypeOK'
    BY <1>1, NextKeepsTypes DEF AloneInv
  <2>2. Alone' = Alone /\ overlapped' = overlapped
    BY <1>1 DEF vars, rows, Alone, StillSo, OwnsNothing, MembersHoldProjects, NeverTrashed
  <2> QED
    BY <2>1, <2>2 DEF AloneInv
<1> QED
  BY <1>1, ArriveKeepsAlone, JoinKeepsAlone, WriteKeepsAlone DEF Next

\* As long as requests do not overlap, the owner of a project that was never in
\* the trash, and everybody seated on it, are members: OWNS_PROJECTS and the two
\* deletes of removeMember leave no orphan.
THEOREM NoProjectIsOrphaned == Spec => []ProjectsBelongToMembers
<1>1. AloneInv => ProjectsBelongToMembers
  BY DEF AloneInv, Alone, MembersHoldProjects, NeverTrashed, ProjectsBelongToMembers
<1> QED
  BY InitAlone, NextKeepsAlone, <1>1, PTL DEF Spec

-----------------------------------------------------------------------------
(* The channel: what is on its way *)

Items(s) == {s[i] : i \in DOMAIN s}

\* The events on their way to a tab, order aside.
OnItsWay(t) == Items(inbox[t])

\* Taking the first of a sequence, in terms of what it holds.
LEMMA ItemsOfTail ==
    ASSUME NEW S, NEW s \in Seq(S), s # <<>>
    PROVE  /\ Tail(s) \in Seq(S) /\ Head(s) \in S /\ Head(s) \in Items(s)
           /\ Items(Tail(s)) \subseteq Items(s)
           /\ \A e \in Items(s) : e = Head(s) \/ e \in Items(Tail(s))
<1>1. /\ Head(s) \in S /\ Tail(s) \in Seq(S) /\ Len(Tail(s)) = Len(s) - 1
      /\ \A i \in 1..Len(Tail(s)) : Tail(s)[i] = s[i + 1]
  BY HeadTailProperties
<1>2. /\ Len(s) \in Nat \ {0} /\ DOMAIN s = 1..Len(s)
      /\ DOMAIN Tail(s) = 1..Len(Tail(s)) /\ Head(s) = s[1]
  BY <1>1, LenProperties, EmptySeq
<1>3. Head(s) \in Items(s)
  BY <1>2 DEF Items
<1>4. Items(Tail(s)) \subseteq Items(s)
  BY <1>1, <1>2 DEF Items
<1>5. ASSUME NEW i \in 1..Len(s), i # 1 PROVE s[i] \in Items(Tail(s))
  <2>1. i - 1 \in 1..Len(Tail(s)) /\ (i - 1) + 1 = i
    BY <1>1, <1>2, <1>5
  <2> QED
    BY <1>1, <1>2, <2>1 DEF Items
<1> QED
  BY <1>1, <1>2, <1>3, <1>4, <1>5 DEF Items

\* And adding to its end.
LEMMA ItemsOfConcat ==
    ASSUME NEW S, NEW s \in Seq(S), NEW u \in Seq(S)
    PROVE  s \o u \in Seq(S) /\ Items(s \o u) = Items(s) \cup Items(u)
<1>1. /\ s \o u \in Seq(S) /\ Len(s \o u) = Len(s) + Len(u)
      /\ \A i \in 1..(Len(s) + Len(u)) :
           (s \o u)[i] = IF i <= Len(s) THEN s[i] ELSE u[i - Len(s)]
  BY ConcatProperties
<1>2. /\ Len(s) \in Nat /\ Len(u) \in Nat
      /\ DOMAIN s = 1..Len(s) /\ DOMAIN u = 1..Len(u) /\ DOMAIN (s \o u) = 1..Len(s \o u)
  BY <1>1, LenProperties
<1>3. ASSUME NEW i \in 1..Len(s) PROVE s[i] \in Items(s \o u)
  BY <1>1, <1>2 DEF Items
<1>4. ASSUME NEW i \in 1..Len(u) PROVE u[i] \in Items(s \o u)
  <2>1. i + Len(s) \in 1..(Len(s) + Len(u)) /\ (i + Len(s)) - Len(s) = i /\ ~(i + Len(s) <= Len(s))
    BY <1>2
  <2>2. (s \o u)[i + Len(s)] = u[i]
    BY <1>1, <2>1
  <2> QED
    BY <1>1, <1>2, <2>1, <2>2 DEF Items
<1>5. ASSUME NEW i \in 1..(Len(s) + Len(u)) PROVE (s \o u)[i] \in Items(s) \cup Items(u)
  <2>1. CASE i <= Len(s)
    BY <1>1, <1>2, <2>1 DEF Items
  <2>2. CASE ~(i <= Len(s))
    <3>1. i - Len(s) \in 1..Len(u) /\ (s \o u)[i] = u[i - Len(s)]
      BY <1>1, <1>2, <2>2
    <3> QED
      BY <1>2, <3>1 DEF Items
  <2> QED
    BY <2>1, <2>2
<1> QED
  BY <1>1, <1>2, <1>3, <1>4, <1>5 DEF Items

LEMMA ItemsOfFew ==
    /\ Items(<<>>) = {}
    /\ \A e : Items(<<e>>) = {e}
BY DEF Items

\* About and Answered, in terms of what is on its way.
LEMMA WaysToSay ==
    /\ \A t \in Tabs : \A m : m \in About(t) <=> \E e \in OnItsWay(t) : e.message = m
    /\ \A w \in Writes :
         Answered(w) <=> \E e \in OnItsWay(write[w].tab) : e.kind = "ack" /\ e.write = w
BY DEF About, Answered, OnItsWay, Items

-----------------------------------------------------------------------------
(* The channel: the inductive invariant of the types and of the calls *)

CallRecords ==
    [kind : Kinds, tab : Tabs, message : Messages \cup {NoMessage}, before : Writes \cup {None},
     phase : Phases, line : BOOLEAN, waiting : BOOLEAN, answer : Views \cup {None}]

Bubbles == [Tabs -> [Messages -> Views \cup {None}]]

\* An event is about a row that is there, and an ack answers a call of its tab.
EventIsSound(t, e) ==
    /\ Exists(e.message)
    /\ e.kind = "ack" => /\ e.write \in Writes /\ Made(e.write)
                         /\ write[e.write].tab = t /\ write[e.write].message = e.message

\* A call is about a row that is there; what it changes was on its tab's screen;
\* and a tab that will not hear of it is behind.
CallIsSound(w) ==
    LET q == write[w] IN
    /\ q.message # NoMessage => Exists(q.message)
    /\ q.kind # "send" => /\ q.message # NoMessage /\ q.before \in Writes
                          /\ bubble[q.tab][q.message] # None
    /\ q.phase \in {"buffered", "sent"} => q.line /\ (q.kind = "send" => q.message = NoMessage)
    /\ q.phase = "sent" => q.tab \in connected
    /\ q.phase = "loaded" => q.kind # "send"
    /\ q.phase = "written" => /\ q.message # NoMessage /\ q.answer \in Views
                              /\ q.kind = "remove" => q.answer = Tombstone
    /\ q.message # NoMessage
       /\ (~q.line \/ (q.waiting /\ q.phase # "buffered" /\ q.tab \notin connected))
         => q.message \in behind[q.tab]

\* The events, the calls and the rows of a page, one by one.
EventsAreSound == \A t \in Tabs : \A e \in OnItsWay(t) : EventIsSound(t, e)
CallsAreSound == \A w \in Writes : Made(w) => CallIsSound(w)
PagesAreSound ==
    \A t \in Tabs, m \in Messages :
        page[t].rows[m] # None => Exists(m) /\ page[t].state # "merged"

\* A pending bubble's call is waiting, or timed out offline.
BubblesAwait == \A w \in pending : Made(w) /\ (write[w].waiting \/ w \in adrift)

\* Inductive: what each variable holds, and what it has to do with the others.
ChatBase ==
    /\ ChatTypeOK
    /\ EventsAreSound
    /\ CallsAreSound
    /\ PagesAreSound
    /\ BubblesAwait

LEMMA ChatConstants ==
    /\ None \notin Writes /\ None \notin Messages /\ None # Tombstone
    /\ Tombstone \notin Writes /\ MaxDrops \in Nat /\ NoMessage = None
    /\ Views = Writes \cup {Tombstone}
BY ChatChannelAssumption DEF NoMessage, Views

\* A call is made when it has its record.
LEMMA CallsTyped ==
    ASSUME ChatTypeOK, NEW w \in Writes
    PROVE  /\ Made(w) <=> write[w] \in CallRecords
           /\ Made(w) => /\ write[w].kind \in {"send", "edit", "remove"} /\ write[w].tab \in Tabs
                         /\ write[w].message \in Messages \cup {NoMessage}
                         /\ write[w].before \in Writes \cup {None}
                         /\ write[w].phase \in {"buffered", "sent", "loaded", "written", "over"}
                         /\ write[w].line \in BOOLEAN /\ write[w].waiting \in BOOLEAN
                         /\ write[w].answer \in Views \cup {None}
<1>1. write[w] \in {Unmade} \cup CallRecords
  BY DEF ChatTypeOK, Calls, CallRecords
<1>2. Unmade \notin CallRecords
  BY DEF Unmade, CallRecords, Kinds
<1>3. Made(w) <=> write[w] \in CallRecords
  BY <1>1, <1>2 DEF Made
<1> QED
  BY <1>3 DEF CallRecords, Kinds, Phases

\* A row, and what toMessage makes of it.
LEMMA RowsTyped ==
    ASSUME ChatTypeOK, NEW m \in Messages
    PROVE  /\ row[m].text \in Writes \cup {None} /\ row[m].deleted \in BOOLEAN
           /\ row[m] = [text |-> row[m].text, deleted |-> row[m].deleted]
           /\ View(m) \in Views \cup {None}
           /\ Exists(m) => View(m) \in Views /\ View(m) # None
BY ChatConstants DEF ChatTypeOK, Row, View, Exists

\* A step that replaces one call.
LEMMA CallMoves ==
    ASSUME ChatTypeOK, NEW w \in Writes, NEW q \in CallRecords, write' = [write EXCEPT ![w] = q]
    PROVE  /\ write' \in [Writes -> Calls] /\ write'[w] = q /\ Made(w)'
           /\ \A v \in Writes : v # w => write'[v] = write[v] /\ (Made(v)' <=> Made(v))
<1>1. CallRecords \subseteq Calls /\ Unmade \notin CallRecords
  BY DEF Calls, CallRecords, Unmade, Kinds
<1>2. write' \in [Writes -> Calls] /\ write'[w] = q /\ \A v \in Writes : v # w => write'[v] = write[v]
  BY <1>1 DEF ChatTypeOK
<1> QED
  BY <1>1, <1>2 DEF Made

\* A step that draws one message on one tab.
LEMMA BubbleMoves ==
    ASSUME ChatTypeOK, NEW t \in Tabs, NEW m \in Messages, NEW view \in Views \cup {None},
           bubble' = Appended(t, m, view)
    PROVE  /\ bubble' \in Bubbles /\ bubble'[t][m] = view
           /\ \A s \in Tabs, n \in Messages : (s # t \/ n # m) => bubble'[s][n] = bubble[s][n]
<1> DEFINE thread == [bubble[t] EXCEPT ![m] = view]
<1>1. bubble \in Bubbles
  BY DEF ChatTypeOK, Bubbles
<1>2. /\ thread \in [Messages -> Views \cup {None}] /\ thread[m] = view
      /\ \A n \in Messages : n # m => thread[n] = bubble[t][n]
  BY <1>1 DEF Bubbles
<1>3. bubble' = [bubble EXCEPT ![t] = thread]
  BY DEF Appended
<1> HIDE DEF thread
<1>4. bubble' \in Bubbles
  BY <1>1, <1>2, <1>3 DEF Bubbles
<1> QED
  BY <1>1, <1>2, <1>3, <1>4 DEF Bubbles

\* The same for a message it may not hold.
LEMMA ReplacedMoves ==
    ASSUME ChatTypeOK, NEW t \in Tabs, NEW m \in Messages, NEW view \in Views,
           bubble' = Replaced(t, m, view)
    PROVE  /\ bubble' \in Bubbles
           /\ bubble'[t][m] = IF bubble[t][m] = None THEN None ELSE view
           /\ \A s \in Tabs, n \in Messages : (s # t \/ n # m) => bubble'[s][n] = bubble[s][n]
<1>1. CASE bubble[t][m] = None
  <2>1. bubble' = bubble /\ bubble \in Bubbles
    BY <1>1 DEF Replaced, ChatTypeOK, Bubbles
  <2> QED
    BY <1>1, <2>1
<1>2. CASE bubble[t][m] # None
  <2>1. bubble' = Appended(t, m, view) /\ view \in Views \cup {None}
    BY <1>2 DEF Replaced, Appended
  <2>2. bubble' \in Bubbles /\ bubble'[t][m] = view
    BY <2>1, BubbleMoves
  <2>3. \A s \in Tabs, n \in Messages : (s # t \/ n # m) => bubble'[s][n] = bubble[s][n]
    BY <2>1, BubbleMoves
  <2> QED
    BY <1>2, <2>2, <2>3
<1> QED
  BY <1>1, <1>2

\* What no step undoes: rows, calls and bubbles stay, and so does what a tab
\* has missed.
Growing ==
    /\ \A m \in Messages : Exists(m) => Exists(m)'
    /\ \A t \in Tabs, m \in Messages : bubble[t][m] # None => bubble'[t][m] # None
    /\ \A t \in Tabs : behind[t] \subseteq behind'[t]
    /\ adrift \subseteq adrift'
    /\ \A w \in Writes : Made(w) =>
         /\ Made(w)' /\ write'[w].tab = write[w].tab /\ write'[w].kind = write[w].kind
         /\ write[w].message # NoMessage => write'[w].message = write[w].message

\* So an event, or a call that stays as it is, stays sound.
LEMMA EventStaysSound ==
    ASSUME ChatTypeOK, Growing, NEW t \in Tabs, NEW e \in Events, EventIsSound(t, e)
    PROVE  EventIsSound(t, e)'
<1>1. e.message \in Messages /\ NoMessage \notin Messages
  BY ChatConstants DEF Events
<1> QED
  BY <1>1 DEF EventIsSound, Growing

LEMMA CallStaysSound ==
    ASSUME ChatTypeOK, Growing, NEW w \in Writes, Made(w), CallIsSound(w), write'[w] = write[w],
           write[w].tab \in connected => write[w].tab \in connected'
    PROVE  CallIsSound(w)'
<1>1. /\ write[w].message \in Messages \cup {NoMessage} /\ write[w].tab \in Tabs
  BY CallsTyped
<1> QED
  BY <1>1, ChatConstants DEF CallIsSound, Growing

LEMMA OnItsWayTyped ==
    ASSUME ChatTypeOK, NEW t \in Tabs
    PROVE  /\ OnItsWay(t) \subseteq Events
           /\ \A e \in OnItsWay(t) : /\ e.message \in Messages
                                     /\ e.kind \in {"new", "edited", "deleted", "ack"}
                                     /\ e.kind # "deleted" => e.view \in Views
                                     /\ e.kind \in {"new", "ack"} => e.write \in Writes
<1>1. inbox[t] \in Seq(Events)
  BY DEF ChatTypeOK
<1>2. \A i \in DOMAIN inbox[t] : inbox[t][i] \in Events
  BY <1>1, LenProperties, ElementOfSeq
<1>3. \A e \in Events : /\ e.message \in Messages
                        /\ e.kind \in {"new", "edited", "deleted", "ack"}
                        /\ e.kind # "deleted" => e.view \in Views
                        /\ e.kind \in {"new", "ack"} => e.write \in Writes
  BY DEF Events
<1> QED
  BY <1>2, <1>3 DEF OnItsWay, Items

\* ChatBase carries over a step that leaves most of it alone.
EventsCarry == \A t \in Tabs : \A e \in OnItsWay(t)' : e \in OnItsWay(t) \/ EventIsSound(t, e)'
CallsCarry ==
    \A w \in Writes : Made(w)' =>
        \/ /\ Made(w) /\ write'[w] = write[w]
           /\ write[w].tab \in connected => write[w].tab \in connected'
        \/ CallIsSound(w)'
BubblesCarry ==
    \A w \in pending' :
        \/ w \in pending /\ (write[w].waiting => write'[w].waiting \/ w \in adrift')
        \/ Made(w)' /\ write'[w].waiting

LEMMA BaseCarries ==
    ASSUME ChatBase, ChatTypeOK', Growing, EventsCarry, CallsCarry, PagesAreSound', BubblesCarry
    PROVE  ChatBase'
<1>1. EventsAreSound'
  BY OnItsWayTyped, EventStaysSound DEF ChatBase, EventsAreSound, EventsCarry
<1>2. CallsAreSound'
  BY CallStaysSound DEF ChatBase, CallsAreSound, CallsCarry
<1>3. BubblesAwait'
  <2>1. pending \subseteq Writes
    BY DEF ChatBase, ChatTypeOK
  <2> QED
    BY <2>1 DEF ChatBase, BubblesAwait, BubblesCarry, Growing
<1> QED
  BY <1>1, <1>2, <1>3 DEF ChatBase

LEMMA PagesStay ==
    ASSUME PagesAreSound, Growing, page' = page
    PROVE  PagesAreSound'
BY DEF PagesAreSound, Growing

LEMMA EventsStay ==
    ASSUME inbox' = inbox
    PROVE  (\A t : OnItsWay(t)' = OnItsWay(t)) /\ EventsCarry
BY DEF OnItsWay, EventsCarry

-----------------------------------------------------------------------------
(* The channel: what each step does, and that it keeps ChatBase *)

\* w becomes a call about m in this phase, with this answer, waiting or not.
Turns(w, m, phase, answer, waiting) ==
    /\ write' \in [Writes -> Calls] /\ Made(w)'
    /\ write'[w].kind = write[w].kind /\ write'[w].tab = write[w].tab
    /\ write'[w].before = write[w].before /\ write'[w].line = write[w].line
    /\ write'[w].message = m /\ write'[w].phase = phase
    /\ write'[w].answer = answer /\ write'[w].waiting = waiting
    /\ \A v \in Writes : v # w => write'[v] = write[v] /\ (Made(v)' <=> Made(v))

\* A call is turned by the record it is given.
LEMMA CallTurns ==
    ASSUME ChatTypeOK, NEW w \in Writes, Made(w), NEW m \in Messages \cup {NoMessage},
           NEW phase \in Phases, NEW answer \in Views \cup {None}, NEW waiting \in BOOLEAN,
           write' = [write EXCEPT ![w] =
                       [write[w] EXCEPT !.message = m, !.phase = phase,
                                        !.answer = answer, !.waiting = waiting]]
    PROVE  Turns(w, m, phase, answer, waiting)
<1> DEFINE q == [write[w] EXCEPT !.message = m, !.phase = phase,
                                 !.answer = answer, !.waiting = waiting]
<1>1. write[w] \in CallRecords
  BY CallsTyped
<1>2. /\ q \in CallRecords
      /\ q.kind = write[w].kind /\ q.tab = write[w].tab
      /\ q.before = write[w].before /\ q.line = write[w].line
      /\ q.message = m /\ q.phase = phase /\ q.answer = answer /\ q.waiting = waiting
  BY <1>1 DEF CallRecords
<1>3. write' = [write EXCEPT ![w] = q]
  OBVIOUS
<1> HIDE DEF q
<1> QED
  BY <1>2, <1>3, CallMoves DEF Turns

\* The steps that change one or two fields of a call.
LEMMA FieldsTurn ==
    ASSUME ChatTypeOK, NEW w \in Writes, Made(w)
    PROVE  /\ \A p \in Phases : write' = [write EXCEPT ![w].phase = p]
                => Turns(w, write[w].message, p, write[w].answer, write[w].waiting)
           /\ write' = [write EXCEPT ![w].waiting = FALSE]
                => Turns(w, write[w].message, write[w].phase, write[w].answer, FALSE)
           /\ \A a \in Views : write' = [write EXCEPT ![w].phase = "written", ![w].answer = a]
                => Turns(w, write[w].message, "written", a, write[w].waiting)
           /\ \A m \in Messages :
                write' = [write EXCEPT ![w].message = m, ![w].phase = "written", ![w].answer = w]
                => Turns(w, m, "written", w, write[w].waiting)
<1> DEFINE q == write[w]
           Moved(m, p, a, b) == [q EXCEPT !.message = m, !.phase = p, !.answer = a, !.waiting = b]
<1>1. q \in CallRecords /\ write \in [Writes -> Calls] /\ "written" \in Phases /\ w \in Views
  BY CallsTyped DEF ChatTypeOK, Phases, Views
<1>2. /\ q.message \in Messages \cup {NoMessage} /\ q.phase \in Phases
      /\ q.answer \in Views \cup {None} /\ q.waiting \in BOOLEAN /\ FALSE \in BOOLEAN
  BY <1>1 DEF CallRecords
<1>3. ASSUME NEW p, write' = [write EXCEPT ![w].phase = p]
      PROVE  write' = [write EXCEPT ![w] = Moved(q.message, p, q.answer, q.waiting)]
  <2>1. [q EXCEPT !.phase = p] = Moved(q.message, p, q.answer, q.waiting)
    BY <1>1 DEF CallRecords
  <2>2. write' = [write EXCEPT ![w] = [q EXCEPT !.phase = p]]
    BY <1>3
  <2> QED
    BY <2>1, <2>2
<1>4. ASSUME write' = [write EXCEPT ![w].waiting = FALSE]
      PROVE  write' = [write EXCEPT ![w] = Moved(q.message, q.phase, q.answer, FALSE)]
  <2>1. [q EXCEPT !.waiting = FALSE] = Moved(q.message, q.phase, q.answer, FALSE)
    BY <1>1 DEF CallRecords
  <2>2. write' = [write EXCEPT ![w] = [q EXCEPT !.waiting = FALSE]]
    BY <1>4
  <2> QED
    BY <2>1, <2>2
<1>5. ASSUME NEW a, write' = [write EXCEPT ![w].phase = "written", ![w].answer = a]
      PROVE  write' = [write EXCEPT ![w] = Moved(q.message, "written", a, q.waiting)]
  <2>1. [q EXCEPT !.phase = "written", !.answer = a] = Moved(q.message, "written", a, q.waiting)
    BY <1>1 DEF CallRecords
  <2>2. write' = [write EXCEPT ![w] = [q EXCEPT !.phase = "written", !.answer = a]]
    BY <1>1, <1>5
  <2> QED
    BY <2>1, <2>2
<1>6. ASSUME NEW m,
             write' = [write EXCEPT ![w].message = m, ![w].phase = "written", ![w].answer = w]
      PROVE  write' = [write EXCEPT ![w] = Moved(m, "written", w, q.waiting)]
  <2>1. [q EXCEPT !.message = m, !.phase = "written", !.answer = w] = Moved(m, "written", w, q.waiting)
    BY <1>1 DEF CallRecords
  <2>2. write' = [write EXCEPT ![w] = [q EXCEPT !.message = m, !.phase = "written", !.answer = w]]
    BY <1>1, <1>6
  <2> QED
    BY <2>1, <2>2
<1>7. ASSUME NEW m \in Messages \cup {NoMessage}, NEW p \in Phases,
             NEW a \in Views \cup {None}, NEW b \in BOOLEAN,
             write' = [write EXCEPT ![w] = Moved(m, p, a, b)]
      PROVE  Turns(w, m, p, a, b)
  BY <1>7, CallTurns
<1> HIDE DEF Moved
<1>8. ASSUME NEW p \in Phases, write' = [write EXCEPT ![w].phase = p]
      PROVE  Turns(w, q.message, p, q.answer, q.waiting)
  <2>1. write' = [write EXCEPT ![w] = Moved(q.message, p, q.answer, q.waiting)]
    BY <1>3, <1>8
  <2> HIDE DEF q
  <2> QED
    BY <1>2, <1>7, <2>1
<1>9. ASSUME write' = [write EXCEPT ![w].waiting = FALSE]
      PROVE  Turns(w, q.message, q.phase, q.answer, FALSE)
  <2>1. write' = [write EXCEPT ![w] = Moved(q.message, q.phase, q.answer, FALSE)]
    BY <1>4, <1>9
  <2> HIDE DEF q
  <2> QED
    BY <1>2, <1>7, <2>1
<1>10. ASSUME NEW a \in Views, write' = [write EXCEPT ![w].phase = "written", ![w].answer = a]
       PROVE  Turns(w, q.message, "written", a, q.waiting)
  <2>1. write' = [write EXCEPT ![w] = Moved(q.message, "written", a, q.waiting)]
    BY <1>5, <1>10
  <2> HIDE DEF q
  <2> QED
    BY <1>1, <1>2, <1>7, <2>1
<1>11. ASSUME NEW m \in Messages,
              write' = [write EXCEPT ![w].message = m, ![w].phase = "written", ![w].answer = w]
       PROVE  Turns(w, m, "written", w, q.waiting)
  <2>1. write' = [write EXCEPT ![w] = Moved(m, "written", w, q.waiting)]
    BY <1>6, <1>11
  <2> HIDE DEF q
  <2> QED
    BY <1>1, <1>2, <1>7, <2>1
<1> QED
  BY <1>8, <1>9, <1>10, <1>11

\* Tab t makes the call w about m.
Called(t, w, kind, m) ==
    /\ ~Made(w) /\ Made(w)' /\ write' \in [Writes -> Calls]
    /\ write'[w].kind = kind /\ write'[w].tab = t /\ write'[w].message = m
    /\ m # NoMessage => write'[w].before = bubble[t][m]
    /\ write'[w].phase = Emitted(t) /\ write'[w].line = TRUE
    /\ write'[w].waiting = TRUE /\ write'[w].answer = None
    /\ \A v \in Writes : v # w => write'[v] = write[v] /\ (Made(v)' <=> Made(v))
    /\ contended \subseteq contended' /\ contended' \subseteq Messages
    /\ m # NoMessage /\ m \notin contended' => ~Busy(m)
    /\ \A n \in Messages : n # m /\ n \in contended' => n \in contended
    /\ UNCHANGED <<row, connected, room, drops, inbox, page, behind, adrift>>

\* requestAck, for each of the three calls.
LEMMA CallStep ==
    ASSUME ChatTypeOK, NEW t \in Tabs, NEW w \in Writes, NEW kind \in Kinds,
           NEW m \in Messages \cup {NoMessage}, Call(w, kind, t, m),
           m # NoMessage => Shows(t, m)
    PROVE  Called(t, w, kind, m)
<1> DEFINE q == [kind |-> kind, tab |-> t, message |-> m,
                 before |-> IF m = NoMessage THEN None ELSE bubble[t][m],
                 phase |-> Emitted(t), line |-> TRUE, waiting |-> TRUE, answer |-> None]
<1>1. Emitted(t) \in Phases
  BY DEF Emitted, Phases
<1>2. (IF m = NoMessage THEN None ELSE bubble[t][m]) \in Writes \cup {None}
  BY DEF Shows
<1>3. q \in CallRecords
  BY <1>1, <1>2 DEF CallRecords
<1>4. write' = [write EXCEPT ![w] = q]
  BY DEF Call
<1>5. /\ q.kind = kind /\ q.tab = t /\ q.message = m
      /\ q.before = (IF m = NoMessage THEN None ELSE bubble[t][m])
      /\ q.phase = Emitted(t) /\ q.line = TRUE /\ q.waiting = TRUE /\ q.answer = None
  OBVIOUS
<1> HIDE DEF q
<1>6. /\ write' \in [Writes -> Calls] /\ write'[w] = q /\ Made(w)'
      /\ \A v \in Writes : v # w => write'[v] = write[v] /\ (Made(v)' <=> Made(v))
  BY <1>3, <1>4, CallMoves
<1>7. /\ contended \subseteq contended' /\ contended' \subseteq Messages
      /\ (m # NoMessage /\ m \notin contended') => ~Busy(m)
      /\ \A n \in Messages : (n # m /\ n \in contended') => n \in contended
  BY DEF Call, ChatTypeOK
<1> QED
  BY <1>5, <1>6, <1>7 DEF Call, Called

LEMMA SendBase ==
    ASSUME ChatBase, NEW t \in Tabs, NEW w \in Writes, SendMessage(t, w)
    PROVE  Growing /\ ChatBase'
<1> USE DEF ChatBase
<1>1. Call(w, "send", t, NoMessage) /\ pending' = pending \cup {w} /\ bubble' = bubble
  BY DEF SendMessage
<1>2. Called(t, w, "send", NoMessage)
  BY <1>1, CallStep DEF Kinds
<1>3. Growing
  BY <1>1, <1>2 DEF Called, Growing, Exists
<1>4. ChatTypeOK'
  BY <1>1, <1>2 DEF Called, ChatTypeOK, Exists
<1>5. CallIsSound(w)'
  BY <1>2 DEF Called, CallIsSound, Emitted
<1>6. CallsCarry
  BY <1>2, <1>5 DEF Called, CallsCarry
<1>7. BubblesCarry
  BY <1>1, <1>2 DEF Called, BubblesCarry, ChatTypeOK
<1> QED
  BY <1>2, <1>3, <1>4, <1>6, <1>7, BaseCarries, PagesStay, EventsStay DEF Called

LEMMA EditBase ==
    ASSUME ChatBase, NEW t \in Tabs, NEW w \in Writes, NEW m \in Messages,
           EditMessage(t, w, m) \/ DeleteMessage(t, w, m)
    PROVE  Growing /\ ChatBase'
<1> USE DEF ChatBase
<1>1. PICK kind \in {"edit", "remove"}, view \in Views :
        /\ Call(w, kind, t, m) /\ bubble' = Replaced(t, m, view) /\ pending' = pending
        /\ Shows(t, m)
  <2>1. w \in Views /\ Tombstone \in Views
    BY DEF Views
  <2> QED
    BY <2>1 DEF EditMessage, DeleteMessage
<1>2. Called(t, w, kind, m) /\ NoMessage # m
  BY <1>1, CallStep, ChatConstants DEF Kinds
<1>3. /\ bubble' \in Bubbles /\ bubble[t][m] \in Writes /\ bubble'[t][m] = view
      /\ \A u \in Tabs, n \in Messages : (u # t \/ n # m) => bubble'[u][n] = bubble[u][n]
      /\ None \notin Views
  BY <1>1, ReplacedMoves, ChatConstants DEF Shows
<1>4. \A u \in Tabs, n \in Messages : bubble'[u][n] # None => bubble[u][n] # None
  BY <1>3, ChatConstants
<1>5. Growing
  BY <1>2, <1>3 DEF Called, Growing, Exists
<1>6. ChatTypeOK'
  BY <1>1, <1>2, <1>3, <1>4 DEF Called, ChatTypeOK, Exists, Bubbles
<1>7. CallIsSound(w)'
  <2>1. Exists(m)'
    BY <1>2, <1>3, ChatConstants DEF Called, ChatTypeOK, Exists
  <2> QED
    BY <1>1, <1>2, <1>3, <2>1, ChatConstants DEF Called, CallIsSound, Emitted
<1>8. CallsCarry
  BY <1>2, <1>7 DEF Called, CallsCarry
<1>9. BubblesCarry
  BY <1>1, <1>2 DEF Called, BubblesCarry, BubblesAwait, ChatTypeOK
<1> QED
  BY <1>2, <1>5, <1>6, <1>8, <1>9, BaseCarries, PagesStay, EventsStay DEF Called

\* A timeout takes back what its call drew, if the tab is connected.
LEMMA TimeOutStep ==
    ASSUME ChatBase, NEW w \in Writes, TimeOut(w)
    PROVE  /\ Made(w) /\ write[w].waiting /\ write[w].tab \in Tabs
           /\ Turns(w, write[w].message, write[w].phase, write[w].answer, FALSE)
           /\ bubble' \in Bubbles
           /\ \A u \in Tabs, n \in Messages :
                bubble'[u][n] = IF /\ u = write[w].tab /\ n = write[w].message
                                   /\ u \in connected /\ write[w].kind # "send"
                                THEN write[w].before ELSE bubble[u][n]
           /\ \/ write[w].tab \in connected /\ pending' = pending \ {w} /\ adrift' = adrift
              \/ write[w].tab \notin connected /\ pending' = pending /\ adrift' = adrift \cup {w}
           /\ \A u \in Tabs : behind[u] \subseteq behind'[u]
           /\ Answered(w) => write[w].message \in behind'[write[w].tab]
           /\ behind' \in [Tabs -> SUBSET Messages]
           /\ UNCHANGED <<row, connected, room, drops, inbox, page, contended>>
<1> DEFINE q == write[w]
<1> USE DEF ChatBase
<1>1. /\ Made(w) /\ q.waiting /\ q.tab \in Tabs /\ q.message \in Messages \cup {NoMessage}
      /\ UNCHANGED <<row, connected, room, drops, inbox, page, contended>>
  BY CallsTyped DEF TimeOut
<1>2. Turns(w, q.message, q.phase, q.answer, FALSE)
  BY <1>1, FieldsTurn DEF TimeOut
<1>3. /\ \/ q.tab \in connected /\ pending' = pending \ {w} /\ adrift' = adrift
                /\ bubble' = TakenBack(q.tab, w)
         \/ q.tab \notin connected /\ pending' = pending /\ adrift' = adrift \cup {w}
                /\ bubble' = bubble
  BY DEF TimeOut
<1>4. /\ bubble' \in Bubbles
      /\ \A u \in Tabs, n \in Messages :
           bubble'[u][n] = IF /\ u = q.tab /\ n = q.message
                              /\ u \in connected /\ q.kind # "send"
                           THEN q.before ELSE bubble[u][n]
  <2>1. CASE q.tab \in connected /\ q.kind # "send"
    <3>1. /\ q.message # NoMessage /\ q.before \in Views /\ bubble[q.tab][q.message] # None
      BY <1>1, <2>1 DEF CallsAreSound, CallIsSound, Views
    <3>2. bubble' = Replaced(q.tab, q.message, q.before)
      BY <1>3, <2>1 DEF TakenBack
    <3>3. /\ bubble' \in Bubbles /\ bubble'[q.tab][q.message] = q.before
          /\ \A s \in Tabs, n \in Messages : (s # q.tab \/ n # q.message) => bubble'[s][n] = bubble[s][n]
      BY <1>1, <3>1, <3>2, ReplacedMoves
    <3> QED
      BY <2>1, <3>3
  <2>2. CASE q.tab \notin connected \/ q.kind = "send"
    <3>1. bubble' = bubble
      BY <1>3, <2>2 DEF TakenBack
    <3> QED
      BY <2>2, <3>1 DEF ChatTypeOK, Bubbles
  <2> QED
    BY <2>1, <2>2
<1>5. /\ \A u \in Tabs : behind[u] \subseteq behind'[u]
      /\ Answered(w) => q.message \in behind'[q.tab]
      /\ behind' \in [Tabs -> SUBSET Messages]
  <2>1. behind \in [Tabs -> SUBSET Messages]
    BY DEF ChatTypeOK
  <2>2. Answered(w) => q.message \in Messages
    <3>1. ASSUME Answered(w) PROVE \E e \in OnItsWay(q.tab) : e.kind = "ack" /\ e.write = w
      BY <3>1, WaysToSay
    <3>2. Answered(w) => \E e \in OnItsWay(q.tab) : e.message \in Messages /\ EventIsSound(q.tab, e)
                                                      /\ e.kind = "ack" /\ e.write = w
      BY <1>1, <3>1, OnItsWayTyped DEF EventsAreSound
    <3> QED
      BY <3>2 DEF EventIsSound
  <2>3. behind' = IF Answered(w) THEN [behind EXCEPT ![q.tab] = @ \cup {q.message}] ELSE behind
    BY DEF TimeOut
  <2> QED
    BY <1>1, <2>1, <2>2, <2>3
<1> QED
  BY <1>1, <1>2, <1>3, <1>4, <1>5

LEMMA TimeOutBase ==
    ASSUME ChatBase, NEW w \in Writes, TimeOut(w)
    PROVE  Growing /\ ChatBase'
<1> USE DEF ChatBase
<1> DEFINE q == write[w]
<1>1. /\ Made(w) /\ q.waiting /\ q.tab \in Tabs
      /\ Turns(w, q.message, q.phase, q.answer, FALSE)
      /\ bubble' \in Bubbles
      /\ \A u \in Tabs, n \in Messages :
           bubble'[u][n] = IF /\ u = q.tab /\ n = q.message
                              /\ u \in connected /\ q.kind # "send"
                           THEN q.before ELSE bubble[u][n]
      /\ \/ q.tab \in connected /\ pending' = pending \ {w} /\ adrift' = adrift
         \/ q.tab \notin connected /\ pending' = pending /\ adrift' = adrift \cup {w}
      /\ \A u \in Tabs : behind[u] \subseteq behind'[u]
      /\ behind' \in [Tabs -> SUBSET Messages]
      /\ UNCHANGED <<row, connected, room, drops, inbox, page, contended>>
  BY TimeOutStep
<1>2. CallIsSound(w)
  BY <1>1 DEF CallsAreSound
<1>3. q.kind # "send" => q.before # None /\ bubble[q.tab][q.message] # None
  BY <1>2, ChatConstants DEF CallIsSound
<1>4. \A u \in Tabs, n \in Messages : bubble'[u][n] # None <=> bubble[u][n] # None
  BY <1>1, <1>3
<1>5. Growing
  BY <1>1, <1>4 DEF Growing, Turns, Exists
<1>6. ChatTypeOK'
  BY <1>1, <1>4 DEF ChatTypeOK, Turns, Exists, Bubbles
<1>7. CallIsSound(w)'
  <2>1. q.message \in Messages \cup {NoMessage}
    BY <1>1, CallsTyped
  <2> QED
    BY <1>1, <1>2, <1>4, <2>1, ChatConstants DEF CallIsSound, Turns, Exists
<1>8. CallsCarry
  BY <1>1, <1>7 DEF CallsCarry, Turns
<1>9. BubblesCarry
  BY <1>1 DEF BubblesCarry, Turns, ChatTypeOK
<1> QED
  BY <1>1, <1>5, <1>6, <1>8, <1>9, BaseCarries, PagesStay, EventsStay

\* A tab takes an event off its connection.
LEMMA Taken ==
    ASSUME ChatTypeOK, NEW t \in Tabs, inbox[t] # <<>>,
           inbox' = [inbox EXCEPT ![t] = Tail(@)]
    PROVE  /\ inbox' \in [Tabs -> Seq(Events)]
           /\ Head(inbox[t]) \in OnItsWay(t)
           /\ \A u \in Tabs : /\ OnItsWay(u)' \subseteq OnItsWay(u)
                              /\ u # t => OnItsWay(u)' = OnItsWay(u)
           /\ \A e \in OnItsWay(t) : e = Head(inbox[t]) \/ e \in OnItsWay(t)'
<1>1. inbox \in [Tabs -> Seq(Events)]
  BY DEF ChatTypeOK
<1>2. inbox' = [inbox EXCEPT ![t] = Tail(inbox[t])]
  BY <1>1
<1>3. /\ Tail(inbox[t]) \in Seq(Events) /\ Head(inbox[t]) \in Items(inbox[t])
      /\ Items(Tail(inbox[t])) \subseteq Items(inbox[t])
      /\ \A e \in Items(inbox[t]) : e = Head(inbox[t]) \/ e \in Items(Tail(inbox[t]))
  BY <1>1, ItemsOfTail
<1>4. inbox' \in [Tabs -> Seq(Events)] /\ inbox'[t] = Tail(inbox[t])
      /\ \A u \in Tabs : u # t => inbox'[u] = inbox[u]
  BY <1>1, <1>2, <1>3
<1> QED
  BY <1>3, <1>4 DEF OnItsWay

\* What becomes of an event, by its kind.
TakesNew(t, e) ==
    /\ e.kind = "new"
    /\ bubble' = Appended(t, e.message, e.view)
    /\ pending' \subseteq pending
    /\ UNCHANGED <<write, behind>>
TakesChange(t, e, view) ==
    /\ e.kind \in {"edited", "deleted"}
    /\ view = IF e.kind = "edited" THEN e.view ELSE Tombstone
    /\ bubble' = Replaced(t, e.message, view)
    /\ behind' = IF bubble[t][e.message] # None
                 THEN behind ELSE [behind EXCEPT ![t] = @ \cup {e.message}]
    /\ UNCHANGED <<write, pending>>
TakesAck(t, e) ==
    /\ e.kind = "ack"
    /\ write' = [write EXCEPT ![e.write].waiting = FALSE]
    /\ \/ write[e.write].waiting /\ write[e.write].kind = "send"
             /\ bubble' = Appended(t, e.message, e.view)
       \/ write[e.write].waiting /\ write[e.write].kind = "edit"
             /\ bubble' = Replaced(t, e.message, e.view)
       \/ (~write[e.write].waiting \/ write[e.write].kind = "remove") /\ bubble' = bubble
    /\ pending' = IF write[e.write].waiting THEN pending \ {e.write} ELSE pending
    /\ UNCHANGED behind

\* A tab takes one event, and makes of it what its kind says.
LEMMA ReceiveStep ==
    ASSUME ChatBase, NEW t \in Tabs, Receive(t)
    PROVE  /\ inbox' \in [Tabs -> Seq(Events)]
           /\ \A u \in Tabs : /\ OnItsWay(u)' \subseteq OnItsWay(u)
                              /\ u # t => OnItsWay(u)' = OnItsWay(u)
           /\ \E e \in OnItsWay(t) :
                /\ \A f \in OnItsWay(t) : f = e \/ f \in OnItsWay(t)'
                /\ \/ TakesNew(t, e)
                   \/ \E view \in Views : TakesChange(t, e, view)
                   \/ TakesAck(t, e)
           /\ UNCHANGED <<row, connected, room, drops, page, contended, adrift>>
<1> USE DEF ChatBase
<1> DEFINE e == Head(inbox[t])
<1>1. /\ inbox[t] # <<>> /\ inbox' = [inbox EXCEPT ![t] = Tail(@)]
      /\ UNCHANGED <<row, connected, room, drops, page, contended, adrift>>
  BY DEF Receive
<1>2. /\ inbox' \in [Tabs -> Seq(Events)] /\ e \in OnItsWay(t)
      /\ \A u \in Tabs : /\ OnItsWay(u)' \subseteq OnItsWay(u)
                         /\ u # t => OnItsWay(u)' = OnItsWay(u)
      /\ \A f \in OnItsWay(t) : f = e \/ f \in OnItsWay(t)'
  BY <1>1, Taken
<1>3. /\ e.message \in Messages
      /\ e.kind # "deleted" => e.view \in Views
      /\ e.kind = "ack" => /\ e.write \in Writes /\ Made(e.write)
                           /\ write[e.write].kind \in {"send", "edit", "remove"}
                           /\ write[e.write].waiting \in BOOLEAN
  BY <1>2, OnItsWayTyped, CallsTyped DEF EventsAreSound, EventIsSound
<1>4. HearBroadcast(t, e) \/ HearAck(t, e)
  BY DEF Receive
<1> HIDE DEF e
<1>5. \/ TakesNew(t, e)
      \/ \E view \in Views : TakesChange(t, e, view)
      \/ TakesAck(t, e)
  <2>1. CASE HearBroadcast(t, e) /\ e.kind = "new"
    BY <2>1 DEF HearBroadcast, TakesNew, Undrawn
  <2>2. CASE HearBroadcast(t, e) /\ e.kind \in {"edited", "deleted"}
    <3>1. (IF e.kind = "edited" THEN e.view ELSE Tombstone) \in Views
      BY <1>3, <2>2 DEF Views
    <3> QED
      BY <2>2, <3>1 DEF HearBroadcast, TakesChange
  <2>3. CASE HearAck(t, e)
    BY <1>3, <2>3 DEF HearAck, TakesAck, Undrawn
  <2> QED
    BY <1>4, <2>1, <2>2, <2>3 DEF HearBroadcast
<1> QED
  BY <1>1, <1>2, <1>5

LEMMA ReceiveBase ==
    ASSUME ChatBase, NEW t \in Tabs, Receive(t)
    PROVE  Growing /\ ChatBase'
<1> USE DEF ChatBase
<1>1. PICK e \in OnItsWay(t) :
        \/ TakesNew(t, e)
        \/ \E view \in Views : TakesChange(t, e, view)
        \/ TakesAck(t, e)
  BY ReceiveStep
<1>2. /\ inbox' \in [Tabs -> Seq(Events)]
      /\ \A u \in Tabs : OnItsWay(u)' \subseteq OnItsWay(u)
      /\ UNCHANGED <<row, connected, room, drops, page, contended, adrift>>
  BY ReceiveStep
<1> DEFINE m == e.message
<1>3. /\ m \in Messages /\ Exists(m)
      /\ e.kind # "deleted" => e.view \in Views
      /\ e.kind = "ack" => e.write \in Writes /\ Made(e.write)
  BY OnItsWayTyped DEF EventsAreSound, EventIsSound
<1>4. EventsCarry
  BY <1>2 DEF EventsCarry
<1>5. \/ bubble' = bubble
      \/ \E view \in Views : bubble' = Appended(t, m, view) \/ bubble' = Replaced(t, m, view)
  BY <1>1, <1>3 DEF TakesNew, TakesChange, TakesAck
<1>6. /\ bubble' \in Bubbles
      /\ \A u \in Tabs, n \in Messages : bubble[u][n] # None => bubble'[u][n] # None
      /\ \A u \in Tabs, n \in Messages : bubble'[u][n] # None => bubble[u][n] # None \/ n = m
  <2>1. CASE bubble' = bubble
    BY <2>1 DEF ChatTypeOK, Bubbles
  <2>2. ASSUME NEW view \in Views, bubble' = Appended(t, m, view) \/ bubble' = Replaced(t, m, view)
        PROVE  /\ bubble' \in Bubbles
               /\ bubble'[t][m] \in {view, None} /\ (bubble[t][m] # None => bubble'[t][m] = view)
               /\ \A u \in Tabs, n \in Messages : (u # t \/ n # m) => bubble'[u][n] = bubble[u][n]
    <3>1. CASE bubble' = Appended(t, m, view)
      BY <1>3, <3>1, BubbleMoves
    <3>2. CASE bubble' = Replaced(t, m, view)
      BY <1>3, <3>2, ReplacedMoves
    <3> QED
      BY <2>2, <3>1, <3>2
  <2>3. \A view \in Views : view # None
    BY ChatConstants
  <2> QED
    BY <1>5, <2>1, <2>2, <2>3
<1>7. /\ \A u \in Tabs : behind[u] \subseteq behind'[u]
      /\ behind' \in [Tabs -> SUBSET Messages]
  <2>1. behind' = behind \/ behind' = [behind EXCEPT ![t] = @ \cup {m}]
    BY <1>1 DEF TakesNew, TakesChange, TakesAck
  <2>2. behind \in [Tabs -> SUBSET Messages]
    BY DEF ChatTypeOK
  <2> HIDE DEF m
  <2> QED
    BY <1>3, <2>1, <2>2
<1>8. pending' \subseteq pending
  BY <1>1 DEF TakesNew, TakesChange, TakesAck
<1>9. \/ write' = write
      \/ /\ e.kind = "ack" /\ e.write \in Writes /\ Made(e.write)
         /\ Turns(e.write, write[e.write].message, write[e.write].phase, write[e.write].answer, FALSE)
         /\ write[e.write].waiting => pending' = pending \ {e.write}
  BY <1>1, <1>3, FieldsTurn DEF TakesNew, TakesChange, TakesAck
<1>10. Growing
  BY <1>2, <1>6, <1>7, <1>9 DEF Growing, Exists, Turns, Made
<1>11. ChatTypeOK'
  BY <1>2, <1>3, <1>6, <1>7, <1>8, <1>9 DEF ChatTypeOK, Exists, Turns, Bubbles
<1>12. CallsCarry
  <2>1. CASE write' = write
    BY <1>2, <2>1 DEF CallsCarry, Made
  <2>2. CASE /\ e.kind = "ack" /\ e.write \in Writes /\ Made(e.write)
             /\ Turns(e.write, write[e.write].message, write[e.write].phase, write[e.write].answer, FALSE)
    <3>1. CallIsSound(e.write) /\ write[e.write].message \in Messages \cup {NoMessage}
          /\ write[e.write].tab \in Tabs
      BY <2>2, CallsTyped DEF CallsAreSound
    <3>2. CallIsSound(e.write)'
      BY <1>2, <1>6, <1>7, <2>2, <3>1, ChatConstants DEF CallIsSound, Turns, Exists
    <3> QED
      BY <1>2, <2>2, <3>2 DEF CallsCarry, Turns
  <2> QED
    BY <1>9, <2>1, <2>2
<1>13. BubblesCarry
  BY <1>8, <1>9 DEF BubblesCarry, Turns, ChatTypeOK
<1> QED
  BY <1>2, <1>4, <1>10, <1>11, <1>12, <1>13, BaseCarries, PagesStay

\* The first page, read and merged.
LEMMA ReadStep ==
    ASSUME ChatTypeOK, NEW t \in Tabs, ReadPage(t)
    PROVE  /\ page[t].state = "due" /\ page'[t].state = "read"
           /\ \A m \in Messages : page'[t].rows[m] = IF Exists(m) THEN View(m) ELSE None
           /\ \A u \in Tabs : u # t => page'[u] = page[u]
           /\ page' \in [Tabs -> [state : {"due", "read", "merged"},
                                  rows : [Messages -> Views \cup {None}]]]
           /\ UNCHANGED <<row, write, connected, room, drops, inbox, bubble, pending, history>>
<1> DEFINE first == [m \in Messages |-> IF Exists(m) THEN View(m) ELSE None]
<1>1. first \in [Messages -> Views \cup {None}]
  BY RowsTyped
<1>2. page' = [page EXCEPT ![t] = [state |-> "read", rows |-> first]]
  BY DEF ReadPage
<1>3. \A m \in Messages : first[m] = IF Exists(m) THEN View(m) ELSE None
  OBVIOUS
<1> HIDE DEF first
<1> QED
  BY <1>1, <1>2, <1>3 DEF ReadPage, ChatTypeOK

\* The first page, that could not be read.
LEMMA MissStep ==
    ASSUME ChatTypeOK, NEW t \in Tabs, MissPage(t)
    PROVE  /\ page[t].state = "due" /\ page'[t].state = "read"
           /\ \A m \in Messages : page'[t].rows[m] = None
           /\ \A u \in Tabs : u # t => page'[u] = page[u] /\ behind'[u] = behind[u]
           /\ behind'[t] = behind[t] \cup PastBroadcast(t)
           /\ behind' \in [Tabs -> SUBSET Messages]
           /\ page' \in [Tabs -> [state : {"due", "read", "merged"},
                                  rows : [Messages -> Views \cup {None}]]]
           /\ UNCHANGED <<row, write, connected, room, drops, inbox, bubble, pending,
                          contended, adrift>>
<1> DEFINE empty == NoPage("read")
<1>1. /\ empty \in [state : {"due", "read", "merged"}, rows : [Messages -> Views \cup {None}]]
      /\ empty.state = "read" /\ \A m \in Messages : empty.rows[m] = None
  BY DEF NoPage
<1>2. page' = [page EXCEPT ![t] = empty] /\ behind' = [behind EXCEPT ![t] = @ \cup PastBroadcast(t)]
  BY DEF MissPage
<1>3. PastBroadcast(t) \subseteq Messages
  BY DEF PastBroadcast
<1> HIDE DEF empty
<1> QED
  BY <1>1, <1>2, <1>3 DEF MissPage, ChatTypeOK

LEMMA MergeStep ==
    ASSUME ChatTypeOK, NEW t \in Tabs, MergePage(t)
    PROVE  /\ page[t].state = "read" /\ page'[t].state = "merged"
           /\ \A m \in Messages :
                /\ page'[t].rows[m] = None
                /\ bubble'[t][m] = IF bubble[t][m] = None THEN page[t].rows[m] ELSE bubble[t][m]
           /\ \A u \in Tabs : u # t => page'[u] = page[u] /\ bubble'[u] = bubble[u]
           /\ page' \in [Tabs -> [state : {"due", "read", "merged"},
                                  rows : [Messages -> Views \cup {None}]]]
           /\ bubble' \in Bubbles
           /\ UNCHANGED <<row, write, connected, room, drops, inbox, pending, history>>
<1> DEFINE thread == [m \in Messages |-> IF bubble[t][m] = None THEN page[t].rows[m] ELSE bubble[t][m]]
           empty == NoPage("merged")
<1>1. /\ page[t].rows \in [Messages -> Views \cup {None}] /\ bubble \in Bubbles
      /\ bubble[t] \in [Messages -> Views \cup {None}]
  BY DEF ChatTypeOK, Bubbles
<1>2. /\ thread \in [Messages -> Views \cup {None}]
      /\ \A m \in Messages :
           thread[m] = IF bubble[t][m] = None THEN page[t].rows[m] ELSE bubble[t][m]
  BY <1>1
<1>3. /\ empty \in [state : {"due", "read", "merged"}, rows : [Messages -> Views \cup {None}]]
      /\ empty.state = "merged" /\ \A m \in Messages : empty.rows[m] = None
  BY DEF NoPage
<1>4. bubble' = [bubble EXCEPT ![t] = thread] /\ page' = [page EXCEPT ![t] = empty]
  BY DEF MergePage, MergedOlder
<1> HIDE DEF thread, empty
<1>5. /\ bubble' \in Bubbles /\ bubble'[t] = thread
      /\ \A u \in Tabs : u # t => bubble'[u] = bubble[u]
  BY <1>1, <1>2, <1>4 DEF Bubbles
<1>6. /\ page' \in [Tabs -> [state : {"due", "read", "merged"},
                             rows : [Messages -> Views \cup {None}]]]
      /\ page'[t] = empty /\ \A u \in Tabs : u # t => page'[u] = page[u]
  BY <1>3, <1>4 DEF ChatTypeOK
<1> QED
  BY <1>2, <1>3, <1>5, <1>6 DEF MergePage

LEMMA PageBase ==
    ASSUME ChatBase, NEW t \in Tabs, ReadPage(t) \/ MissPage(t) \/ MergePage(t)
    PROVE  Growing /\ ChatBase'
<1> USE DEF ChatBase
<1>1. /\ UNCHANGED <<row, write, connected, room, drops, inbox, pending, contended, adrift>>
      /\ behind' \in [Tabs -> SUBSET Messages] /\ \A u \in Tabs : behind[u] \subseteq behind'[u]
      /\ page' \in [Tabs -> [state : {"due", "read", "merged"},
                             rows : [Messages -> Views \cup {None}]]]
  <2>1. CASE MissPage(t)
    BY <2>1, MissStep
  <2>2. CASE ReadPage(t) \/ MergePage(t)
    BY <2>2, ReadStep, MergeStep DEF history, ChatTypeOK
  <2> QED
    BY <2>1, <2>2
<1>2. /\ bubble' \in Bubbles
      /\ \A u \in Tabs, m \in Messages : bubble[u][m] # None => bubble'[u][m] # None
      /\ \A u \in Tabs, m \in Messages : bubble'[u][m] # None => Exists(m)
  <2>1. CASE ReadPage(t) \/ MissPage(t)
    BY <2>1 DEF ReadPage, MissPage, ChatTypeOK, Bubbles
  <2>2. CASE MergePage(t)
    <3>1. \A u \in Tabs, m \in Messages : bubble[u][m] # None => Exists(m)
      BY DEF ChatTypeOK
    <3>2. /\ bubble' \in Bubbles
          /\ \A m \in Messages :
               bubble'[t][m] = IF bubble[t][m] = None THEN page[t].rows[m] ELSE bubble[t][m]
          /\ \A u \in Tabs : u # t => bubble'[u] = bubble[u]
      BY <2>2, MergeStep
    <3> QED
      BY <3>1, <3>2 DEF PagesAreSound
  <2> QED
    BY <2>1, <2>2
<1>3. PagesAreSound'
  <2>1. ASSUME NEW u \in Tabs, NEW m \in Messages, page'[u].rows[m] # None
        PROVE  Exists(m) /\ page'[u].state # "merged"
    <3>1. CASE ReadPage(t)
      BY <2>1, <3>1, ReadStep DEF PagesAreSound
    <3>2. CASE MergePage(t)
      BY <2>1, <3>2, MergeStep DEF PagesAreSound
    <3>3. CASE MissPage(t)
      BY <2>1, <3>3, MissStep DEF PagesAreSound
    <3> QED
      BY <3>1, <3>2, <3>3
  <2> QED
    BY <1>1, <2>1 DEF PagesAreSound, Exists
<1>4. Growing
  BY <1>1, <1>2 DEF Growing, Exists, Made
<1>5. ChatTypeOK'
  BY <1>1, <1>2 DEF ChatTypeOK, Exists, Bubbles
<1>6. CallsCarry /\ BubblesCarry
  BY <1>1 DEF CallsCarry, BubblesCarry, Made
<1> QED
  BY <1>1, <1>3, <1>4, <1>5, <1>6, BaseCarries, EventsStay

\* A connection is lost: calls that have not reached the server are over, and
\* the others run on without it.
LEMMA DropStep ==
    ASSUME ChatTypeOK, NEW t \in Tabs, Drop(t)
    PROVE  /\ write' \in [Writes -> Calls]
           /\ \A w \in Writes :
                /\ Made(w)' <=> Made(w)
                /\ Made(w) /\ write[w].tab # t => write'[w] = write[w]
                /\ Made(w) /\ write[w].tab = t =>
                     /\ write'[w].kind = write[w].kind /\ write'[w].tab = t
                     /\ write'[w].message = write[w].message /\ write'[w].before = write[w].before
                     /\ write'[w].answer = write[w].answer /\ write'[w].waiting = write[w].waiting
                     /\ write'[w].phase = IF write[w].phase = "sent" THEN "over" ELSE write[w].phase
                     /\ write'[w].line = IF write[w].phase \in {"loaded", "written"}
                                         THEN FALSE ELSE write[w].line
           /\ inbox' \in [Tabs -> Seq(Events)]
           /\ OnItsWay(t)' = {} /\ \A u \in Tabs : u # t => OnItsWay(u)' = OnItsWay(u)
           /\ behind' \in [Tabs -> SUBSET Messages]
           /\ \A u \in Tabs : u # t => behind'[u] = behind[u]
           /\ behind[t] \subseteq behind'[t]
           /\ \A e \in OnItsWay(t) : e.message \in behind'[t]
           /\ \A w \in Writes : Made(w) /\ write[w].tab = t /\ Under(w) /\ write[w].message # NoMessage
                                  => write[w].message \in behind'[t]
           /\ connected' = connected \ {t} /\ room' = room \ {t} /\ drops' \in [Tabs -> 0..MaxDrops]
           /\ UNCHANGED <<row, client, contended, adrift>>
<1> DEFINE sent(w) == [write[w] EXCEPT !.phase = "over"]
           cut(w) == [write[w] EXCEPT !.line = FALSE]
<1>1. \A w \in Writes : write'[w] =
         IF Made(w) /\ write[w].tab = t /\ write[w].phase = "sent" THEN sent(w)
         ELSE IF Made(w) /\ write[w].tab = t /\ write[w].phase \in {"loaded", "written"} THEN cut(w)
         ELSE write[w]
  BY DEF Drop, Mine
<1>2. ASSUME NEW w \in Writes, Made(w)
      PROVE  /\ sent(w) \in CallRecords /\ cut(w) \in CallRecords
             /\ sent(w).kind = write[w].kind /\ sent(w).tab = write[w].tab
             /\ sent(w).message = write[w].message /\ sent(w).before = write[w].before
             /\ sent(w).answer = write[w].answer /\ sent(w).waiting = write[w].waiting
             /\ sent(w).phase = "over" /\ sent(w).line = write[w].line
             /\ cut(w).kind = write[w].kind /\ cut(w).tab = write[w].tab
             /\ cut(w).message = write[w].message /\ cut(w).before = write[w].before
             /\ cut(w).answer = write[w].answer /\ cut(w).waiting = write[w].waiting
             /\ cut(w).phase = write[w].phase /\ cut(w).line = FALSE
  <2>1. write[w] \in CallRecords
    BY <1>2, CallsTyped
  <2> QED
    BY <2>1 DEF CallRecords, Phases
<1> HIDE DEF sent, cut
<1>3. CallRecords \subseteq Calls /\ Unmade \notin CallRecords
  BY DEF Calls, CallRecords, Unmade, Kinds
<1>4. ASSUME NEW w \in Writes PROVE write'[w] \in Calls /\ (Made(w)' <=> Made(w))
  <2>1. CASE Made(w)
    <3>1. write'[w] \in CallRecords
      BY <1>1, <1>2, <2>1, CallsTyped
    <3> QED
      BY <1>3, <2>1, <3>1 DEF Made
  <2>2. CASE ~Made(w)
    BY <1>1, <2>2 DEF Made, ChatTypeOK
  <2> QED
    BY <2>1, <2>2
<1>5. write' \in [Writes -> Calls]
  BY <1>4 DEF Drop
<1>6. ASSUME NEW w \in Writes, Made(w)
      PROVE  /\ write[w].tab # t => write'[w] = write[w]
             /\ write[w].tab = t =>
                  /\ write'[w].kind = write[w].kind /\ write'[w].tab = t
                  /\ write'[w].message = write[w].message /\ write'[w].before = write[w].before
                  /\ write'[w].answer = write[w].answer /\ write'[w].waiting = write[w].waiting
                  /\ write'[w].phase = IF write[w].phase = "sent" THEN "over" ELSE write[w].phase
                  /\ write'[w].line = IF write[w].phase \in {"loaded", "written"}
                                      THEN FALSE ELSE write[w].line
  BY <1>1, <1>2, <1>6
<1>7. /\ inbox' \in [Tabs -> Seq(Events)] /\ inbox'[t] = <<>>
      /\ \A u \in Tabs : u # t => inbox'[u] = inbox[u]
  BY EmptySeq DEF Drop, ChatTypeOK
<1>8. OnItsWay(t)' = {} /\ \A u \in Tabs : u # t => OnItsWay(u)' = OnItsWay(u)
  BY <1>7, ItemsOfFew DEF OnItsWay
<1>9. behind' = [behind EXCEPT ![t] =
                   @ \cup About(t) \cup {m \in Messages : \E w \in Of(m) \cap Mine(t) : Under(w)}]
  BY DEF Drop
<1>10. About(t) \subseteq Messages /\ \A e \in OnItsWay(t) : e.message \in About(t)
  BY OnItsWayTyped, WaysToSay
<1>11. ASSUME NEW w \in Writes, Made(w), write[w].tab = t, Under(w), write[w].message # NoMessage
       PROVE  write[w].message \in {m \in Messages : \E v \in Of(m) \cap Mine(t) : Under(v)}
  BY <1>11, CallsTyped DEF Of, Mine
<1>12. /\ behind' \in [Tabs -> SUBSET Messages]
       /\ \A u \in Tabs : u # t => behind'[u] = behind[u]
       /\ behind'[t] = behind[t] \cup About(t) \cup {m \in Messages : \E w \in Of(m) \cap Mine(t) : Under(w)}
  BY <1>9, <1>10 DEF ChatTypeOK
<1>13. connected' = connected \ {t} /\ room' = room \ {t} /\ UNCHANGED <<row, client, contended, adrift>>
  BY DEF Drop
<1>14. drops' \in [Tabs -> 0..MaxDrops]
  <2>1. drops[t] \in 0..MaxDrops /\ drops[t] < MaxDrops /\ MaxDrops \in Nat
    BY ChatConstants DEF ChatTypeOK, Drop
  <2>2. drops[t] + 1 \in 0..MaxDrops /\ drops' = [drops EXCEPT ![t] = drops[t] + 1]
    BY <2>1 DEF Drop, ChatTypeOK
  <2> QED
    BY <2>2 DEF ChatTypeOK
<1> QED
  BY <1>4, <1>5, <1>6, <1>7, <1>8, <1>10, <1>11, <1>12, <1>13, <1>14

LEMMA DropBase ==
    ASSUME ChatBase, NEW t \in Tabs, Drop(t)
    PROVE  Growing /\ ChatBase'
<1> USE DEF ChatBase
<1>1. /\ write' \in [Writes -> Calls]
      /\ \A w \in Writes :
           /\ Made(w)' <=> Made(w)
           /\ Made(w) /\ write[w].tab # t => write'[w] = write[w]
           /\ Made(w) /\ write[w].tab = t =>
                /\ write'[w].kind = write[w].kind /\ write'[w].tab = t
                /\ write'[w].message = write[w].message /\ write'[w].before = write[w].before
                /\ write'[w].answer = write[w].answer /\ write'[w].waiting = write[w].waiting
                /\ write'[w].phase = IF write[w].phase = "sent" THEN "over" ELSE write[w].phase
                /\ write'[w].line = IF write[w].phase \in {"loaded", "written"}
                                    THEN FALSE ELSE write[w].line
      /\ inbox' \in [Tabs -> Seq(Events)]
      /\ OnItsWay(t)' = {} /\ \A u \in Tabs : u # t => OnItsWay(u)' = OnItsWay(u)
      /\ behind' \in [Tabs -> SUBSET Messages]
      /\ \A w \in Writes : Made(w) /\ write[w].tab = t /\ Under(w) /\ write[w].message # NoMessage
                             => write[w].message \in behind'[t]
      /\ connected' = connected \ {t} /\ room' = room \ {t} /\ drops' \in [Tabs -> 0..MaxDrops]
      /\ UNCHANGED <<row, bubble, page, pending, contended, adrift>>
  BY DropStep DEF client
<1>2. \A u \in Tabs : behind[u] \subseteq behind'[u]
  BY DropStep
<1>3. Growing
  BY <1>1, <1>2 DEF Growing, Exists
<1>4. ChatTypeOK'
  BY <1>1 DEF ChatTypeOK, Exists
<1>5. EventsCarry
  BY <1>1 DEF EventsCarry
<1>6. CallsCarry
  <2>1. ASSUME NEW w \in Writes, Made(w), write[w].tab = t PROVE CallIsSound(w)'
    <3>1. /\ CallIsSound(w) /\ write[w].message \in Messages \cup {NoMessage}
          /\ write[w].waiting \in BOOLEAN
          /\ write[w].phase \in {"buffered", "sent", "loaded", "written", "over"}
      BY <2>1, CallsTyped DEF CallsAreSound
    <3>2. /\ write[w].phase # "over" => Under(w)
          /\ write[w].waiting => Under(w)
      BY <2>1 DEF Under
    <3>3. /\ write'[w].message = write[w].message /\ write'[w].tab = t
          /\ write[w].message # NoMessage /\ Under(w) => write[w].message \in behind'[t]
      BY <1>1, <2>1
    <3> QED
      BY <1>1, <1>2, <2>1, <3>1, <3>2, <3>3 DEF CallIsSound, Exists
  <2> QED
    BY <1>1, <2>1, CallsTyped DEF CallsCarry
<1>7. BubblesCarry
  <2>1. \A w \in pending : w \in Writes /\ Made(w)
    BY DEF BubblesAwait, ChatTypeOK
  <2> QED
    BY <1>1, <2>1 DEF BubblesCarry
<1> QED
  BY <1>1, <1>3, <1>4, <1>5, <1>6, <1>7, BaseCarries, PagesStay

\* A connection is made: what was buffered is sent.
LEMMA ConnectStep ==
    ASSUME ChatTypeOK, NEW t \in Tabs, Connect(t)
    PROVE  /\ t \notin connected /\ connected' = connected \cup {t}
           /\ write' \in [Writes -> Calls]
           /\ \A w \in Writes :
                /\ Made(w)' <=> Made(w)
                /\ Made(w) /\ (write[w].tab # t \/ write[w].phase # "buffered") => write'[w] = write[w]
                /\ Made(w) /\ write[w].tab = t /\ write[w].phase = "buffered" =>
                     /\ write'[w].kind = write[w].kind /\ write'[w].tab = t
                     /\ write'[w].message = write[w].message /\ write'[w].before = write[w].before
                     /\ write'[w].answer = write[w].answer /\ write'[w].waiting = write[w].waiting
                     /\ write'[w].phase = "sent" /\ write'[w].line = write[w].line
           /\ UNCHANGED <<row, room, drops, inbox, client, history>>
<1> DEFINE sent(w) == [write[w] EXCEPT !.phase = "sent"]
<1>1. \A w \in Writes : write'[w] =
         IF Made(w) /\ write[w].tab = t /\ write[w].phase = "buffered" THEN sent(w) ELSE write[w]
  BY DEF Connect, Mine
<1>2. ASSUME NEW w \in Writes, Made(w)
      PROVE  /\ sent(w) \in CallRecords
             /\ sent(w).kind = write[w].kind /\ sent(w).tab = write[w].tab
             /\ sent(w).message = write[w].message /\ sent(w).before = write[w].before
             /\ sent(w).answer = write[w].answer /\ sent(w).waiting = write[w].waiting
             /\ sent(w).phase = "sent" /\ sent(w).line = write[w].line
  <2>1. write[w] \in CallRecords
    BY <1>2, CallsTyped
  <2> QED
    BY <2>1 DEF CallRecords, Phases
<1> HIDE DEF sent
<1>3. CallRecords \subseteq Calls /\ Unmade \notin CallRecords
  BY DEF Calls, CallRecords, Unmade, Kinds
<1>4. ASSUME NEW w \in Writes PROVE write'[w] \in Calls /\ (Made(w)' <=> Made(w))
  <2>1. CASE Made(w)
    <3>1. write'[w] \in CallRecords
      BY <1>1, <1>2, <2>1, CallsTyped
    <3> QED
      BY <1>3, <2>1, <3>1 DEF Made
  <2>2. CASE ~Made(w)
    BY <1>1, <2>2 DEF Made, ChatTypeOK
  <2> QED
    BY <2>1, <2>2
<1>5. write' \in [Writes -> Calls]
  BY <1>4 DEF Connect
<1>6. t \notin connected /\ connected' = connected \cup {t}
      /\ UNCHANGED <<row, room, drops, inbox, client, history>>
  BY DEF Connect
<1> QED
  BY <1>1, <1>2, <1>4, <1>5, <1>6

LEMMA ConnectBase ==
    ASSUME ChatBase, NEW t \in Tabs, Connect(t) \/ JoinChannel(t)
    PROVE  Growing /\ ChatBase'
<1> USE DEF ChatBase
<1>1. /\ UNCHANGED <<row, drops, inbox, bubble, page, pending, behind, contended, adrift>>
      /\ connected \subseteq connected' /\ connected' \subseteq Tabs
      /\ room \subseteq room' /\ room' \subseteq connected'
  BY DEF Connect, JoinChannel, MayJoin, client, history, ChatTypeOK
<1>2. \/ write' = write
      \/ /\ write' \in [Writes -> Calls] /\ t \in connected'
         /\ \A w \in Writes :
              /\ Made(w)' <=> Made(w)
              /\ Made(w) /\ (write[w].tab # t \/ write[w].phase # "buffered") => write'[w] = write[w]
              /\ Made(w) /\ write[w].tab = t /\ write[w].phase = "buffered" =>
                   /\ write'[w].kind = write[w].kind /\ write'[w].tab = t
                   /\ write'[w].message = write[w].message /\ write'[w].before = write[w].before
                   /\ write'[w].answer = write[w].answer /\ write'[w].waiting = write[w].waiting
                   /\ write'[w].phase = "sent" /\ write'[w].line = write[w].line
  BY ConnectStep DEF JoinChannel
<1>3. Growing
  BY <1>1, <1>2 DEF Growing, Exists, Made
<1>4. ChatTypeOK'
  BY <1>1, <1>2 DEF ChatTypeOK, Exists
<1>5. CallsCarry
  <2>1. CASE write' = write
    BY <1>1, <2>1 DEF CallsCarry, Made
  <2>2. ASSUME write' # write, NEW w \in Writes, Made(w), write[w].tab = t, write[w].phase = "buffered"
        PROVE  CallIsSound(w)'
    <3>1. CallIsSound(w) /\ write[w].message \in Messages \cup {NoMessage}
      BY <2>2, CallsTyped DEF CallsAreSound
    <3> QED
      BY <1>1, <1>2, <2>2, <3>1 DEF CallIsSound, Exists
  <2> QED
    BY <1>1, <1>2, <2>1, <2>2 DEF CallsCarry
<1>6. BubblesCarry
  <2>1. \A w \in pending : w \in Writes /\ Made(w)
    BY DEF BubblesAwait, ChatTypeOK
  <2> QED
    BY <1>1, <1>2, <2>1 DEF BubblesCarry
<1> QED
  BY <1>1, <1>3, <1>4, <1>5, <1>6, BaseCarries, PagesStay, EventsStay

\* A handler writes the row: the call has what the row now shows as its answer.
WritesRow(w, m, a) ==
    /\ Made(w) /\ Turns(w, m, "written", a, write[w].waiting)
    /\ row' \in [Messages -> Row]
    /\ \A n \in Messages : n # m => row'[n] = row[n]
    /\ Exists(m)' /\ View(m)' = a
    /\ write[w].kind = "remove" => a = Tombstone
    /\ \/ write[w].message = m /\ write[w].phase = "loaded" /\ Exists(m)
       \/ write[w].message = NoMessage /\ write[w].phase = "sent" /\ ~Exists(m)
    /\ UNCHANGED <<connected, room, drops, inbox, bubble, page, pending, behind, contended, adrift>>

\* Insert, Update and SoftDeleteMessage, each in its way.
LEMMA RowStep ==
    ASSUME ChatBase, NEW w \in Writes,
           (\E m \in Messages : Insert(w, m)) \/ Update(w) \/ SoftDeleteMessage(w)
    PROVE  \E m \in Messages, a \in Views : WritesRow(w, m, a)
<1> USE DEF ChatBase
<1>1. /\ w \in Views /\ Tombstone \in Views /\ w # None
      /\ UNCHANGED <<connected, room, drops, inbox, bubble, page, pending, behind, contended, adrift>>
  BY ChatConstants DEF Insert, Update, SoftDeleteMessage, client, history
<1>2. ASSUME Made(w)
      PROVE  CallIsSound(w) /\ write[w].message \in Messages \cup {NoMessage}
  BY <1>2, CallsTyped DEF CallsAreSound
<1>3. ASSUME NEW m \in Messages, Insert(w, m) PROVE WritesRow(w, m, w)
  <2>1. /\ Made(w) /\ write[w].kind = "send" /\ write[w].phase = "sent" /\ ~Exists(m)
        /\ row' = [row EXCEPT ![m] = [text |-> w, deleted |-> FALSE]]
    BY <1>3 DEF Insert, Running
  <2>2. Turns(w, m, "written", w, write[w].waiting)
    BY <1>3, <2>1, FieldsTurn DEF Insert
  <2>3. /\ row' \in [Messages -> Row] /\ row'[m] = [text |-> w, deleted |-> FALSE]
        /\ \A n \in Messages : n # m => row'[n] = row[n]
    BY <2>1 DEF ChatTypeOK, Row
  <2>4. Exists(m)' /\ View(m)' = w
    BY <1>1, <2>3 DEF Exists, View
  <2>5. write[w].message = NoMessage
    BY <1>2, <2>1 DEF CallIsSound
  <2> QED
    BY <1>1, <2>1, <2>2, <2>3, <2>4, <2>5 DEF WritesRow
<1>4. ASSUME Update(w) PROVE \E m \in Messages, a \in Views : WritesRow(w, m, a)
  <2>1. /\ Made(w) /\ write[w].kind = "edit" /\ write[w].phase = "loaded"
        /\ row' = [row EXCEPT ![write[w].message].text = w]
        /\ write' = [write EXCEPT ![w].phase = "written", ![w].answer = Returned(w)]
    BY <1>4 DEF Update, Running
  <2>2. PICK m \in Messages : m = write[w].message /\ Exists(m)
    BY <1>2, <2>1 DEF CallIsSound
  <2>3. PICK a \in Views : a = Returned(w) /\ a = IF row[m].deleted THEN Tombstone ELSE w
    BY <1>1, <2>2 DEF Returned
  <2>4. /\ row[m] \in Row /\ [row[m] EXCEPT !.text = w] \in Row
        /\ [row[m] EXCEPT !.text = w].text = w /\ [row[m] EXCEPT !.text = w].deleted = row[m].deleted
    <3>1. row[m] \in Row
      BY <2>2 DEF ChatTypeOK
    <3> QED
      BY <3>1 DEF Row
  <2>5. /\ row' \in [Messages -> Row] /\ row'[m].text = w /\ row'[m].deleted = row[m].deleted
        /\ \A n \in Messages : n # m => row'[n] = row[n]
    BY <2>1, <2>2, <2>4 DEF ChatTypeOK
  <2>6. Turns(w, m, "written", a, write[w].waiting)
    BY <2>1, <2>2, <2>3, FieldsTurn
  <2>7. Exists(m)' /\ View(m)' = a
    BY <1>1, <2>3, <2>5 DEF Exists, View
  <2> QED
    BY <1>1, <2>1, <2>2, <2>5, <2>6, <2>7 DEF WritesRow
<1>5. ASSUME SoftDeleteMessage(w) PROVE \E m \in Messages, a \in Views : WritesRow(w, m, a)
  <2>1. /\ Made(w) /\ write[w].kind = "remove" /\ write[w].phase = "loaded"
        /\ row' = [row EXCEPT ![write[w].message].deleted = TRUE]
        /\ write' = [write EXCEPT ![w].phase = "written", ![w].answer = Tombstone]
    BY <1>5 DEF SoftDeleteMessage, Running
  <2>2. PICK m \in Messages : m = write[w].message /\ Exists(m)
    BY <1>2, <2>1 DEF CallIsSound
  <2>3. /\ row[m] \in Row /\ [row[m] EXCEPT !.deleted = TRUE] \in Row
        /\ [row[m] EXCEPT !.deleted = TRUE].text = row[m].text /\ [row[m] EXCEPT !.deleted = TRUE].deleted
    <3>1. row[m] \in Row
      BY <2>2 DEF ChatTypeOK
    <3> QED
      BY <3>1 DEF Row
  <2>4. /\ row' \in [Messages -> Row] /\ row'[m].text = row[m].text /\ row'[m].deleted
        /\ \A n \in Messages : n # m => row'[n] = row[n]
    BY <2>1, <2>2, <2>3 DEF ChatTypeOK
  <2>5. Turns(w, m, "written", Tombstone, write[w].waiting)
    BY <1>1, <2>1, <2>2, FieldsTurn
  <2>6. Exists(m)' /\ View(m)' = Tombstone
    BY <2>2, <2>4 DEF Exists, View
  <2> QED
    BY <1>1, <2>1, <2>2, <2>4, <2>5, <2>6 DEF WritesRow
<1> QED
  BY <1>1, <1>3, <1>4, <1>5

LEMMA RowBase ==
    ASSUME ChatBase, NEW w \in Writes, NEW m \in Messages, NEW a \in Views, WritesRow(w, m, a)
    PROVE  Growing /\ ChatBase'
<1> USE DEF ChatBase, WritesRow
<1>1. \A n \in Messages : Exists(n) => Exists(n)'
  BY DEF Exists
<1>2. Growing
  BY <1>1 DEF Growing, Turns
<1>3. ChatTypeOK'
  <2>1. \A u \in Tabs, n \in Messages : bubble'[u][n] # None => Exists(n)'
    BY <1>1 DEF ChatTypeOK
  <2> QED
    BY <2>1 DEF ChatTypeOK, Turns
<1>4. CallIsSound(w)'
  <2>1. CallIsSound(w) /\ write[w].tab \in Tabs
    BY CallsTyped DEF CallsAreSound
  <2> QED
    BY <2>1, ChatConstants DEF CallIsSound, Turns
<1>5. CallsCarry
  BY <1>4 DEF CallsCarry, Turns
<1>6. BubblesCarry
  BY DEF BubblesCarry, Turns, ChatTypeOK
<1> QED
  BY <1>2, <1>3, <1>5, <1>6, BaseCarries, PagesStay, EventsStay

\* A call is loaded, or refused.
LEMMA PhaseBase ==
    ASSUME ChatBase, NEW w \in Writes, Load(w) \/ Refuse(w)
    PROVE  Growing /\ ChatBase'
<1> USE DEF ChatBase
<1>1. /\ Made(w) /\ write[w].phase \in {"sent", "loaded"}
      /\ UNCHANGED <<row, connected, room, drops, inbox, bubble, page, pending, contended, adrift>>
  BY DEF Load, Refuse, Running, client, history
<1>2. PICK phase \in {"loaded", "over"} :
        /\ Turns(w, write[w].message, phase, write[w].answer, write[w].waiting)
        /\ phase = "loaded" => write[w].kind # "send"
  <2>1. CASE Load(w)
    BY <1>1, <2>1, FieldsTurn DEF Load, Running, Phases
  <2>2. CASE Refuse(w)
    BY <1>1, <2>2, FieldsTurn DEF Refuse, Phases
  <2> QED
    BY <2>1, <2>2
<1>3. /\ write[w].message \in Messages \cup {NoMessage} /\ write[w].tab \in Tabs /\ CallIsSound(w)
  BY <1>1, CallsTyped DEF CallsAreSound
<1>4. /\ \A u \in Tabs : behind[u] \subseteq behind'[u]
      /\ behind' \in [Tabs -> SUBSET Messages]
  <2>1. \/ behind' = behind
        \/ write[w].message # NoMessage
              /\ behind' = [behind EXCEPT ![write[w].tab] = @ \cup {write[w].message}]
    BY DEF Load, Refuse, history
  <2>2. behind \in [Tabs -> SUBSET Messages]
    BY DEF ChatTypeOK
  <2> QED
    BY <1>3, <2>1, <2>2
<1>5. Growing
  BY <1>1, <1>2, <1>4 DEF Growing, Turns, Exists
<1>6. ChatTypeOK'
  BY <1>1, <1>2, <1>4 DEF ChatTypeOK, Turns, Exists
<1>7. CallIsSound(w)'
  BY <1>1, <1>2, <1>3, <1>4, ChatConstants DEF CallIsSound, Turns, Exists
<1>8. CallsCarry
  BY <1>1, <1>2, <1>7 DEF CallsCarry, Turns
<1>9. BubblesCarry
  BY <1>1, <1>2 DEF BubblesCarry, Turns, ChatTypeOK
<1> QED
  BY <1>1, <1>5, <1>6, <1>8, <1>9, BaseCarries, PagesStay, EventsStay

\* The answer goes to the room and to the caller.
LEMMA AnswerStep ==
    ASSUME ChatBase, NEW w \in Writes, Answer(w)
    PROVE  /\ Made(w) /\ write[w].phase = "written" /\ write[w].message \in Messages
           /\ Turns(w, write[w].message, "over", write[w].answer, write[w].waiting)
           /\ Broadcast(w) \in Events /\ Ack(w) \in Events
           /\ inbox' \in [Tabs -> Seq(Events)]
           /\ \A t \in Tabs :
                /\ OnItsWay(t)' = OnItsWay(t)
                                    \cup (IF t \in room THEN {Broadcast(w)} ELSE {})
                                    \cup (IF t = write[w].tab /\ write[w].line THEN {Ack(w)} ELSE {})
                /\ behind'[t] = IF t \in room \/ (page[t].state = "due"
                                                    /\ bubble[t][write[w].message] = None)
                                THEN behind[t] ELSE behind[t] \cup {write[w].message}
           /\ behind' \in [Tabs -> SUBSET Messages]
           /\ UNCHANGED <<row, connected, room, drops, bubble, page, pending, contended, adrift>>
<1> USE DEF ChatBase
<1>1. /\ Made(w) /\ write[w].phase = "written"
      /\ UNCHANGED <<row, connected, room, drops, bubble, page, pending, contended, adrift>>
  BY DEF Answer, client
<1>2. /\ write[w].message \in Messages /\ write[w].answer \in Views
      /\ write[w].kind \in {"send", "edit", "remove"}
  BY <1>1, CallsTyped DEF CallsAreSound, CallIsSound
<1>3. Turns(w, write[w].message, "over", write[w].answer, write[w].waiting)
  BY <1>1, FieldsTurn DEF Answer, Phases
<1>4. Broadcast(w) \in Events /\ Ack(w) \in Events
  BY <1>2 DEF Broadcast, Ack, Events
<1>5. ASSUME NEW t \in Tabs
      PROVE  /\ inbox'[t] \in Seq(Events)
             /\ Items(inbox'[t]) = Items(inbox[t])
                                    \cup (IF t \in room THEN {Broadcast(w)} ELSE {})
                                    \cup (IF t = write[w].tab /\ write[w].line THEN {Ack(w)} ELSE {})
  <2> DEFINE public == IF t \in room THEN <<Broadcast(w)>> ELSE <<>>
             private == IF t = write[w].tab /\ write[w].line THEN <<Ack(w)>> ELSE <<>>
  <2>1. inbox'[t] = inbox[t] \o public \o private
    BY DEF Answer, Audience, Acked
  <2>2. public \in Seq(Events) /\ private \in Seq(Events) /\ inbox[t] \in Seq(Events)
    BY <1>4, EmptySeq DEF ChatTypeOK
  <2>3. /\ Items(public) = IF t \in room THEN {Broadcast(w)} ELSE {}
        /\ Items(private) = IF t = write[w].tab /\ write[w].line THEN {Ack(w)} ELSE {}
    BY ItemsOfFew
  <2> HIDE DEF public, private
  <2>4. inbox[t] \o public \in Seq(Events) /\ Items(inbox[t] \o public) = Items(inbox[t]) \cup Items(public)
    BY <2>2, ItemsOfConcat
  <2> DEFINE both == inbox[t] \o public
  <2>5. both \in Seq(Events) /\ Items(both) = Items(inbox[t]) \cup Items(public)
    BY <2>4
  <2> HIDE DEF both
  <2>6. /\ both \o private \in Seq(Events)
        /\ Items(both \o private) = Items(both) \cup Items(private)
    BY <2>2, <2>5, ItemsOfConcat
  <2> QED
    BY <2>1, <2>3, <2>5, <2>6 DEF both
<1>6. inbox' \in [Tabs -> Seq(Events)]
  BY <1>5 DEF Answer
<1>7. \A t \in Tabs : behind'[t] = IF t \in room \/ (page[t].state = "due"
                                                    /\ bubble[t][write[w].message] = None)
                                THEN behind[t] ELSE behind[t] \cup {write[w].message}
  BY DEF Answer
<1>8. behind' \in [Tabs -> SUBSET Messages]
  <2>1. \A t \in Tabs : behind'[t] \subseteq Messages
    BY <1>2, <1>7 DEF ChatTypeOK
  <2> QED
    BY <2>1 DEF Answer
<1> QED
  BY <1>1, <1>2, <1>3, <1>4, <1>5, <1>6, <1>7, <1>8 DEF OnItsWay

LEMMA AnswerBase ==
    ASSUME ChatBase, NEW w \in Writes, Answer(w)
    PROVE  Growing /\ ChatBase'
<1> USE DEF ChatBase
<1>1. /\ Made(w) /\ write[w].phase = "written" /\ write[w].message \in Messages
      /\ Turns(w, write[w].message, "over", write[w].answer, write[w].waiting)
      /\ inbox' \in [Tabs -> Seq(Events)]
      /\ \A t \in Tabs : OnItsWay(t)' = OnItsWay(t)
                           \cup (IF t \in room THEN {Broadcast(w)} ELSE {})
                           \cup (IF t = write[w].tab /\ write[w].line THEN {Ack(w)} ELSE {})
      /\ behind' \in [Tabs -> SUBSET Messages]
      /\ UNCHANGED <<row, connected, room, drops, bubble, page, pending, contended, adrift>>
  BY AnswerStep
<1>2. \A u \in Tabs : behind[u] \subseteq behind'[u]
  BY AnswerStep
<1>3. CallIsSound(w) /\ write[w].kind \in {"send", "edit", "remove"} /\ write[w].tab \in Tabs
  BY <1>1, CallsTyped DEF CallsAreSound
<1>4. Growing
  BY <1>1, <1>2 DEF Growing, Turns, Exists
<1>5. ChatTypeOK'
  BY <1>1 DEF ChatTypeOK, Turns, Exists
<1>6. EventsCarry
  <2>1. /\ Broadcast(w).message = write[w].message /\ Broadcast(w).kind # "ack"
        /\ Ack(w).message = write[w].message /\ Ack(w).kind = "ack" /\ Ack(w).write = w
    BY <1>3 DEF Broadcast, Ack
  <2>2. Exists(write[w].message) /\ row' = row
    BY <1>1, <1>3, ChatConstants DEF CallIsSound
  <2>3. ASSUME NEW t \in Tabs, NEW e, e = Broadcast(w) PROVE EventIsSound(t, e)'
    BY <2>1, <2>2, <2>3 DEF EventIsSound, Exists
  <2>4. ASSUME NEW e, e = Ack(w), NEW t \in Tabs, t = write[w].tab PROVE EventIsSound(t, e)'
    BY <1>1, <2>1, <2>2, <2>4 DEF EventIsSound, Exists, Turns
  <2> QED
    BY <1>1, <2>3, <2>4 DEF EventsCarry
<1>7. CallIsSound(w)'
  BY <1>1, <1>2, <1>3, ChatConstants DEF CallIsSound, Turns, Exists
<1>8. CallsCarry
  BY <1>1, <1>7 DEF CallsCarry, Turns
<1>9. BubblesCarry
  BY <1>1 DEF BubblesCarry, Turns, ChatTypeOK
<1> QED
  BY <1>1, <1>4, <1>5, <1>6, <1>8, <1>9, BaseCarries, PagesStay

-----------------------------------------------------------------------------
(* The channel: its types, and its pending bubbles *)

LEMMA ChatInitBase ==
    ASSUME ChatInit
    PROVE  ChatBase
<1>1. ChatTypeOK
  <2>1. /\ [text |-> None, deleted |-> FALSE] \in Row
        /\ NoPage("due") \in [state : {"due", "read", "merged"}, rows : [Messages -> Views \cup {None}]]
        /\ Unmade \in Calls /\ <<>> \in Seq(Events) /\ 0 \in 0..MaxDrops
    BY ChatConstants, EmptySeq DEF Row, NoPage, Calls
  <2> QED
    BY <2>1 DEF ChatInit, ChatTypeOK
<1>2. \A t \in Tabs : OnItsWay(t) = {}
  BY ItemsOfFew DEF ChatInit, OnItsWay
<1>3. PagesAreSound
  BY DEF ChatInit, PagesAreSound, NoPage
<1> QED
  BY <1>1, <1>2, <1>3 DEF ChatInit, ChatBase, EventsAreSound, CallsAreSound, BubblesAwait, Made

LEMMA StutterBase ==
    ASSUME ChatBase, UNCHANGED chatVars
    PROVE  Growing /\ ChatBase'
<1>1. UNCHANGED <<row, write, connected, room, drops, inbox, bubble, page, pending, behind, contended, adrift>>
  BY DEF chatVars, client, history
<1>2. Growing
  BY <1>1 DEF Growing, Exists, Made
<1>3. ChatTypeOK'
  BY <1>1 DEF ChatBase, ChatTypeOK, Exists
<1>4. CallsCarry /\ BubblesCarry
  BY <1>1 DEF CallsCarry, BubblesCarry, Made
<1> QED
  BY <1>1, <1>2, <1>3, <1>4, BaseCarries, PagesStay, EventsStay DEF ChatBase

LEMMA ChatStepBase ==
    ASSUME ChatBase, [ChatNext]_chatVars
    PROVE  ChatBase'
<1>1. ASSUME NEW t \in Tabs, TabStep(t) PROVE ChatBase'
  BY <1>1, SendBase, EditBase, ReceiveBase, PageBase, DropBase, ConnectBase DEF TabStep
<1>2. ASSUME NEW w \in Writes, WriteStep(w) PROVE ChatBase'
  <2>1. CASE (\E m \in Messages : Insert(w, m)) \/ Update(w) \/ SoftDeleteMessage(w)
    BY <2>1, RowStep, RowBase
  <2>2. CASE Load(w) \/ Refuse(w) \/ Answer(w) \/ TimeOut(w)
    BY <2>2, PhaseBase, AnswerBase, TimeOutBase
  <2> QED
    BY <1>2, <2>1, <2>2 DEF WriteStep
<1> QED
  BY <1>1, <1>2, StutterBase DEF ChatNext

\* One step of anybody keeps ChatBase, and so does every behaviour.
LEMMA ChatBaseHolds == ChatSpec => []ChatBase
<1> QED
  BY ChatInitBase, ChatStepBase, PTL DEF ChatSpec

\* Types: in particular a tab shows only messages that have a row, whatever
\* order the page, the broadcasts and the acks come in.
THEOREM ChatTypeCorrect == ChatSpec => []ChatTypeOK
<1>1. ChatBase => ChatTypeOK
  BY DEF ChatBase
<1> QED
  BY <1>1, ChatBaseHolds, PTL

\* "The bubble then spins with no way out": it does not, as long as its send is
\* answered, refused or timed out while the tab is connected.
THEOREM NoBubbleSticks == ChatSpec => []NoStuckBubble
<1>1. ChatBase => NoStuckBubble
  BY DEF ChatBase, BubblesAwait, NoStuckBubble, Under
<1> QED
  BY <1>1, ChatBaseHolds, PTL

-----------------------------------------------------------------------------
(* The channel: the threads and the table *)

\* Word of a message, on its way to a tab; and what an event makes it show.
Word(t, m) == {e \in OnItsWay(t) : e.message = m}
Tells(e) == IF e.kind = "deleted" THEN Tombstone ELSE e.view
\* The answer to w itself is among it.
AckComes(t, m, w) == \E e \in Word(t, m) : e.kind = "ack" /\ e.write = w
\* The row has not been written.
Early == {"buffered", "sent", "loaded"}

\* Of a message that was never changed while another change was on its way:
\*   calls about it come one at a time;
OneAtATime(m) == \A v, w \in Of(m) : Under(v) /\ Under(w) => v = w
\*   nobody is told anything before the call is answered;
QuietBefore(m) == \A w \in Of(m), t \in Tabs : write[w].phase # "over" => Word(t, m) = {}
\*   what is told, or is about to be, is what the table holds;
TellsTheRow(m) ==
    /\ \A t \in Tabs : \A e \in Word(t, m) : Tells(e) = View(m)
    /\ \A w \in Of(m) : write[w].phase = "written" => write[w].answer = View(m)
\*   what a timeout would put back is what the table holds, unless the answer
\*   is on its way or the tab has missed something;
Undoes(m) ==
    \A t \in Tabs, w \in Of(m) :
        /\ write[w].tab = t /\ write[w].kind # "send"
        /\ write[w].waiting /\ write[w].phase # "written"
        /\ ~AckComes(t, m, w) /\ m \notin behind[t]
        => write[w].before = View(m)
\* What a tab shows of a message once its page is merged.
Prospect(t, m) ==
    IF bubble[t][m] # None THEN bubble[t][m]
    ELSE IF page[t].state = "due" THEN View(m) ELSE page[t].rows[m]
\* The tab is still to settle a call of its own: one that waits, or one it has
\* given up although the handler has not written yet.
Expects(t, m, w) ==
    /\ write[w].tab = t
    /\ \/ write[w].kind # "send" /\ write[w].waiting /\ ~AckComes(t, m, w)
       \/ ~write[w].waiting /\ write[w].phase \in Early
\*   and when nothing but acks is on its way to a tab that has missed nothing,
\*   the tab shows what the table holds, or is to settle a call of its own.
Quiet(t, m) ==
    /\ Exists(m)
    /\ \A e \in Word(t, m) : e.kind = "ack"
    /\ \A w \in Of(m) : write[w].phase # "written"
Converges(t, m) ==
    Quiet(t, m) /\ m \notin behind[t]
    => Prospect(t, m) = View(m) \/ \E w \in Of(m) : Expects(t, m, w)

Agrees(m) ==
    /\ OneAtATime(m) /\ QuietBefore(m) /\ TellsTheRow(m) /\ Undoes(m)
    /\ \A t \in Tabs : Converges(t, m)
\* Inductive, together with ChatBase.
Agreement == \A m \in Messages \ contended : Agrees(m)

\* A step that leaves alone all that concerns a message.
SameCall(w) ==
    /\ write'[w].kind = write[w].kind /\ write'[w].tab = write[w].tab
    /\ write'[w].before = write[w].before /\ write'[w].waiting = write[w].waiting
    /\ write'[w].answer = write[w].answer
    /\ write'[w].phase = write[w].phase \/ {write[w].phase, write'[w].phase} \subseteq Early
LeavesAlone(m) ==
    /\ Exists(m)' = Exists(m) /\ View(m)' = View(m)
    /\ Of(m)' = Of(m) /\ \A w \in Of(m) : SameCall(w)
    /\ \A t \in Tabs : /\ Word(t, m)' = Word(t, m)
                       /\ m \in behind[t] => m \in behind'[t]
                       /\ Quiet(t, m) /\ m \notin behind'[t] => Prospect(t, m)' = Prospect(t, m)

\* Such a step keeps the agreement about it.
LEMMA AgreesStays ==
    ASSUME NEW m \in Messages, Agrees(m), LeavesAlone(m)
    PROVE  Agrees(m)'
<1>1. \A w \in Of(m) : /\ Made(w) /\ Made(w)'
                       /\ Under(w)' => Under(w)
                       /\ write'[w].phase = "over" <=> write[w].phase = "over"
                       /\ write'[w].phase = "written" <=> write[w].phase = "written"
                       /\ write'[w].phase \in Early <=> write[w].phase \in Early
  BY DEF LeavesAlone, SameCall, Early, Under, Of
<1>2. \A t \in Tabs : \A w : AckComes(t, m, w)' <=> AckComes(t, m, w)
  BY DEF LeavesAlone, AckComes
<1>3. OneAtATime(m)'
  BY <1>1 DEF LeavesAlone, Agrees, OneAtATime
<1>4. QuietBefore(m)'
  BY <1>1 DEF LeavesAlone, Agrees, QuietBefore
<1>5. TellsTheRow(m)'
  BY <1>1 DEF LeavesAlone, Agrees, TellsTheRow, SameCall
<1>6. Undoes(m)'
  BY <1>1, <1>2 DEF LeavesAlone, Agrees, Undoes, SameCall
<1>7. ASSUME NEW t \in Tabs PROVE Converges(t, m)'
  <2>1. \A w \in Of(m) : Expects(t, m, w) => Expects(t, m, w)'
    BY <1>1, <1>2 DEF LeavesAlone, Expects, SameCall
  <2>2. Converges(t, m)
    BY DEF Agrees
  <2> QED
    BY <1>1, <2>1, <2>2 DEF LeavesAlone, Converges, Quiet
<1> QED
  BY <1>3, <1>4, <1>5, <1>6, <1>7 DEF Agrees

\* What the calls about a message, and the events on their way, come from.
LEMMA CallsOf ==
    ASSUME ChatBase, NEW m \in Messages
    PROVE  /\ \A w \in Of(m) : /\ w \in Writes /\ Made(w) /\ write[w].message = m /\ CallIsSound(w)
                               /\ Exists(m) /\ write[w].tab \in Tabs
                               /\ write[w].phase \in {"buffered", "sent", "loaded", "written", "over"}
                               /\ write[w].waiting \in BOOLEAN
                               /\ write[w].kind \in {"send", "edit", "remove"}
           /\ \A t \in Tabs : \A e \in Word(t, m) : e \in OnItsWay(t) /\ EventIsSound(t, e) /\ Exists(m)
           /\ Exists(m) => View(m) # None
           /\ \A t \in Tabs : bubble[t][m] # None => Exists(m)
<1>1. m # NoMessage
  BY ChatConstants
<1>2. \A w \in Of(m) : w \in Writes /\ Made(w) /\ write[w].message = m
  BY DEF Of
<1>3. \A w \in Of(m) : CallIsSound(w)
  BY <1>2 DEF ChatBase, CallsAreSound
<1>4. \A w \in Of(m) : Exists(m)
  BY <1>1, <1>2, <1>3 DEF CallIsSound
<1>5. \A t \in Tabs : \A e \in Word(t, m) : e \in OnItsWay(t) /\ EventIsSound(t, e) /\ Exists(m)
  BY DEF ChatBase, EventsAreSound, Word, EventIsSound
<1>6. \A w \in Of(m) : /\ write[w].tab \in Tabs /\ write[w].waiting \in BOOLEAN
                       /\ write[w].phase \in {"buffered", "sent", "loaded", "written", "over"}
                       /\ write[w].kind \in {"send", "edit", "remove"}
  BY <1>2, CallsTyped DEF ChatBase, Phases, Kinds
<1>7. Exists(m) => View(m) # None
  BY RowsTyped DEF ChatBase
<1> QED
  BY <1>2, <1>3, <1>4, <1>5, <1>6, <1>7 DEF ChatBase, ChatTypeOK

\* Nothing concerns the message.
AtRest(m) == /\ \A w \in Of(m) : ~Under(w)
             /\ \A t \in Tabs : Word(t, m) = {}

\* The same as not being Busy.
LEMMA RestIsNotBusy ==
    ASSUME NEW m
    PROVE  AtRest(m) <=> ~Busy(m)
BY WaysToSay DEF AtRest, Busy, Word

\* At rest, a tab that is not behind shows, or is to be shown, the row.
LEMMA RestAgrees ==
    ASSUME ChatBase, NEW m \in Messages, Agrees(m), AtRest(m), Exists(m),
           NEW t \in Tabs, m \notin behind[t]
    PROVE  Prospect(t, m) = View(m)
<1>1. \A w \in Of(m) : ~Expects(t, m, w) /\ write[w].phase # "written"
  BY DEF AtRest, Under, Expects, Of, Early
<1> QED
  BY <1>1 DEF AtRest, Agrees, Converges, Quiet

\* A send is about no message yet.
LEMMA SendAgrees ==
    ASSUME ChatBase, NEW t \in Tabs, NEW w \in Writes, SendMessage(t, w),
           NEW m \in Messages, Agrees(m)
    PROVE  Agrees(m)'
<1>1. Call(w, "send", t, NoMessage) /\ bubble' = bubble
  BY DEF SendMessage
<1>2. Called(t, w, "send", NoMessage) /\ m # NoMessage
  BY <1>1, CallStep, ChatConstants DEF Kinds, ChatBase
<1>3. Of(m)' = Of(m) /\ \A v \in Of(m) : SameCall(v)
  BY <1>2 DEF Called, Of, SameCall
<1>4. \A u : Word(u, m)' = Word(u, m)
  BY <1>2 DEF Called, Word, OnItsWay
<1>5. LeavesAlone(m)
  BY <1>1, <1>2, <1>3, <1>4 DEF LeavesAlone, Called, Exists, View, Prospect
<1> QED
  BY <1>5, AgreesStays

\* An edit or a deletion: nothing was on its way, so what it would put back is
\* what the table holds.
LEMMA EditAgrees ==
    ASSUME ChatBase, NEW t \in Tabs, NEW w \in Writes, NEW n \in Messages,
           EditMessage(t, w, n) \/ DeleteMessage(t, w, n),
           NEW m \in Messages \ contended', Agrees(m)
    PROVE  Agrees(m)'
<1>1. PICK kind \in {"edit", "remove"}, view \in Views :
        /\ Call(w, kind, t, n) /\ bubble' = Replaced(t, n, view) /\ Shows(t, n)
  <2>1. w \in Views /\ Tombstone \in Views
    BY DEF Views
  <2> QED
    BY <2>1 DEF EditMessage, DeleteMessage
<1>2. Called(t, w, kind, n) /\ NoMessage # n
  BY <1>1, CallStep, ChatConstants DEF Kinds, ChatBase
<1>3. \A u \in Tabs, k \in Messages : (u # t \/ k # n) => bubble'[u][k] = bubble[u][k]
  BY <1>1, ReplacedMoves DEF ChatBase
<1>4. \A u : Word(u, m)' = Word(u, m)
  BY <1>2 DEF Called, Word, OnItsWay
<1>5. Exists(m)' = Exists(m) /\ View(m)' = View(m)
  BY <1>2 DEF Called, Exists, View
<1>6. CASE m # n
  <2>1. Of(m)' = Of(m) /\ \A v \in Of(m) : SameCall(v)
    BY <1>2, <1>6 DEF Called, Of, SameCall
  <2>2. LeavesAlone(m)
    BY <1>2, <1>3, <1>4, <1>5, <1>6, <2>1 DEF LeavesAlone, Called, Prospect
  <2> QED
    BY <2>2, AgreesStays
<1>7. CASE m = n
  <2>1. AtRest(m) /\ Exists(m) /\ bubble[t][m] # None
    BY <1>1, <1>2, <1>7, RestIsNotBusy, CallsOf, ChatConstants DEF Called, Shows
  <2>2. /\ Of(m)' = Of(m) \cup {w} /\ w \notin Of(m)
        /\ \A v \in Of(m) : Made(v) /\ Made(v)' /\ write'[v] = write[v] /\ ~Under(v)' /\ write'[v].phase = "over"
    BY <1>2, <1>7, <2>1 DEF Called, Of, AtRest, Under
  <2>3. /\ write'[w].tab = t /\ write'[w].kind # "send" /\ write'[w].before = bubble[t][m]
        /\ write'[w].phase \in {"buffered", "sent"} /\ write'[w].waiting
    BY <1>2, <1>7 DEF Called, Emitted
  <2>4. OneAtATime(m)' /\ QuietBefore(m)' /\ TellsTheRow(m)'
    BY <1>4, <1>5, <2>1, <2>2, <2>3 DEF OneAtATime, QuietBefore, TellsTheRow, AtRest
  <2>5. behind' = behind /\ page' = page
    BY <1>2 DEF Called
  <2>6. m \notin behind[t] => bubble[t][m] = View(m)
    BY <2>1, RestAgrees DEF Prospect
  <2>7. Undoes(m)'
    BY <1>5, <2>2, <2>3, <2>5, <2>6 DEF Undoes, Under
  <2>8. ASSUME NEW u \in Tabs PROVE Converges(u, m)'
    <3>1. CASE u = t
      <4>1. ~AckComes(t, m, w)'
        BY <1>4, <2>1 DEF AckComes, AtRest
      <4>2. Expects(t, m, w)'
        BY <2>3, <4>1 DEF Expects
      <4> QED
        BY <3>1, <2>2, <4>2 DEF Converges, Quiet
    <3>2. CASE u # t
      <4>1. Prospect(u, m)' = Prospect(u, m)
        BY <1>3, <1>5, <2>5, <3>2 DEF Prospect
      <4> QED
        BY <1>5, <2>1, <2>5, <4>1, RestAgrees DEF Converges, Quiet
    <3> QED
      BY <3>1, <3>2
  <2> QED
    BY <2>4, <2>7, <2>8 DEF Agrees
<1> QED
  BY <1>6, <1>7

\* A timeout: what it puts back is what the table holds, or the handler has not
\* written yet, or the answer that will not be waited for leaves the tab behind.
LEMMA TimeOutAgrees ==
    ASSUME ChatBase, NEW w \in Writes, TimeOut(w), NEW m \in Messages, Agrees(m)
    PROVE  Agrees(m)'
<1> DEFINE q == write[w]
<1>1. /\ Made(w) /\ q.waiting /\ q.tab \in Tabs
      /\ Turns(w, q.message, q.phase, q.answer, FALSE)
      /\ \A u \in Tabs, n \in Messages :
           bubble'[u][n] = IF /\ u = q.tab /\ n = q.message
                              /\ u \in connected /\ q.kind # "send"
                           THEN q.before ELSE bubble[u][n]
      /\ \A u \in Tabs : behind[u] \subseteq behind'[u]
      /\ Answered(w) => q.message \in behind'[q.tab]
      /\ UNCHANGED <<row, connected, room, drops, inbox, page, contended>>
  BY TimeOutStep
<1>2. \A u \in Tabs, n \in Messages : (u # q.tab \/ n # q.message) => (n \in behind'[u] <=> n \in behind[u])
  BY <1>1 DEF TimeOut, ChatBase, ChatTypeOK
<1>3. \A u : Word(u, m)' = Word(u, m)
  BY <1>1 DEF Word, OnItsWay
<1>4. Exists(m)' = Exists(m) /\ View(m)' = View(m)
  BY <1>1 DEF Exists, View
<1>5. Of(m)' = Of(m) /\ \A v \in Of(m) : v # w => SameCall(v) /\ write'[v] = write[v]
  BY <1>1 DEF Turns, Of, SameCall
<1>6. CASE q.message # m
  <2>1. w \notin Of(m)
    BY <1>6 DEF Of
  <2>2. LeavesAlone(m)
    BY <1>1, <1>2, <1>3, <1>4, <1>5, <1>6, <2>1 DEF LeavesAlone, Prospect
  <2> QED
    BY <2>2, AgreesStays
<1>7. CASE q.message = m
  <2>1. w \in Of(m) /\ CallIsSound(w) /\ Exists(m) /\ View(m) # None
    BY <1>1, <1>7, CallsOf DEF Of
  <2>2. \A v \in Of(m) : /\ Made(v) /\ Made(v)' /\ write'[v].phase = write[v].phase
                         /\ write'[v].kind = write[v].kind /\ write'[v].tab = write[v].tab
                         /\ write'[v].before = write[v].before /\ write'[v].answer = write[v].answer
                         /\ write'[v].waiting => write[v].waiting
                         /\ Under(v)' => Under(v)
    BY <1>1, <1>5 DEF Turns, Of, Under
  <2>3. \A u \in Tabs : \A v : AckComes(u, m, v)' <=> AckComes(u, m, v)
    BY <1>3 DEF AckComes
  <2>4. OneAtATime(m)' /\ QuietBefore(m)' /\ TellsTheRow(m)'
    BY <1>3, <1>4, <1>5, <2>2 DEF Agrees, OneAtATime, QuietBefore, TellsTheRow
  <2>5. Undoes(m)'
    BY <1>1, <1>4, <1>5, <2>2, <2>3 DEF Agrees, Undoes
  <2>6. ASSUME NEW u \in Tabs PROVE Converges(u, m)'
    <3>1. Converges(u, m)
      BY DEF Agrees
    <3>2. \A v \in Of(m) : v # w => (Expects(u, m, v) => Expects(u, m, v)')
      BY <1>5, <2>3 DEF Expects
    <3>3. CASE u # q.tab
      <4>1. Prospect(u, m)' = Prospect(u, m)
        BY <1>1, <1>4, <3>3 DEF Prospect
      <4>2. ~Expects(u, m, w)
        BY <3>3 DEF Expects
      <4> QED
        BY <1>2, <1>3, <1>4, <1>5, <2>2, <3>1, <3>2, <3>3, <4>1, <4>2 DEF Converges, Quiet
    <3>4. CASE u = q.tab
      <4>1. SUFFICES ASSUME m \notin behind'[u], \A v \in Of(m) : write[v].phase # "written",
                            \A e \in Word(u, m) : e.kind = "ack"
                     PROVE  Prospect(u, m)' = View(m) \/ \E v \in Of(m) : Expects(u, m, v)'
        BY <1>3, <1>4, <1>5, <2>2 DEF Converges, Quiet
      <4>2. m \notin behind[u] /\ ~Answered(w)
        BY <1>1, <1>7, <3>4, <4>1
      <4>3. ~AckComes(u, m, w)
        BY <3>4, <4>2, WaysToSay DEF AckComes, Word
      <4>4. CASE q.kind = "send"
        <5>1. Prospect(u, m)' = Prospect(u, m)
          BY <1>1, <1>4, <4>4 DEF Prospect
        <5>2. ~Expects(u, m, w)
          BY <1>1, <4>4 DEF Expects
        <5> QED
          BY <2>1, <3>1, <3>2, <4>1, <4>2, <5>1, <5>2 DEF Converges, Quiet
      <4>5. CASE q.kind # "send" /\ u \in connected
        <5>1. q.before = View(m)
          BY <1>1, <2>1, <3>4, <4>1, <4>2, <4>3, <4>5 DEF Agrees, Undoes
        <5> QED
          BY <1>1, <1>7, <2>1, <3>4, <4>5, <5>1 DEF Prospect
      <4>6. CASE q.kind # "send" /\ u \notin connected
        <5>1. q.phase = "buffered"
          BY <1>1, <1>7, <2>1, <3>4, <4>2, <4>6, ChatConstants DEF CallIsSound
        <5>2. Expects(u, m, w)'
          BY <1>1, <3>4, <5>1 DEF Expects, Turns, Early
        <5> QED
          BY <2>1, <5>2
      <4> QED
        BY <4>4, <4>5, <4>6
    <3> QED
      BY <3>3, <3>4
  <2> QED
    BY <2>4, <2>5, <2>6 DEF Agrees
<1> QED
  BY <1>6, <1>7

\* What a tab is told is what the table holds; its own ack finds its call over.
LEMMA ReceiveAgrees ==
    ASSUME ChatBase, NEW t \in Tabs, Receive(t), NEW m \in Messages, Agrees(m)
    PROVE  Agrees(m)'
<1>1. PICK e \in OnItsWay(t) :
        /\ \A f \in OnItsWay(t) : f = e \/ f \in OnItsWay(t)'
        /\ \/ TakesNew(t, e)
           \/ \E view \in Views : TakesChange(t, e, view)
           \/ TakesAck(t, e)
  BY ReceiveStep
<1>2. /\ \A u \in Tabs : /\ OnItsWay(u)' \subseteq OnItsWay(u)
                         /\ u # t => OnItsWay(u)' = OnItsWay(u)
      /\ UNCHANGED <<row, connected, room, drops, page, contended, adrift>>
  BY ReceiveStep
<1>3. /\ EventIsSound(t, e) /\ e \in Events /\ e.message \in Messages
      /\ e.kind # "deleted" => e.view \in Views
  BY OnItsWayTyped DEF ChatBase, EventsAreSound
<1>4. /\ \A u \in Tabs : Word(u, m)' \subseteq Word(u, m) /\ (u # t => Word(u, m)' = Word(u, m))
      /\ e.message # m => Word(t, m)' = Word(t, m)
      /\ \A f \in Word(t, m) : f = e \/ f \in Word(t, m)'
      /\ e.message = m => e \in Word(t, m)
  BY <1>1, <1>2 DEF Word
<1>5. Exists(m)' = Exists(m) /\ View(m)' = View(m)
  BY <1>2 DEF Exists, View
<1>6. CASE TakesNew(t, e) \/ \E view \in Views : TakesChange(t, e, view)
  <2>1. write' = write /\ e.kind # "ack"
    BY <1>6 DEF TakesNew, TakesChange
  <2>2. Of(m)' = Of(m) /\ \A v \in Of(m) : write'[v] = write[v] /\ SameCall(v) /\ (Under(v)' <=> Under(v))
    BY <2>1 DEF Of, SameCall, Under, Made
  <2>3. \A u \in Tabs : \A v : AckComes(u, m, v)' <=> AckComes(u, m, v)
    BY <1>4, <2>1 DEF AckComes
  <2>4. \A u \in Tabs, n \in Messages :
          (u # t \/ n # e.message) =>
            /\ bubble'[u][n] = bubble[u][n]
            /\ n \in behind'[u] <=> n \in behind[u]
    <3>1. CASE TakesNew(t, e)
      BY <1>3, <3>1, BubbleMoves DEF TakesNew, ChatBase
    <3>2. CASE \E view \in Views : TakesChange(t, e, view)
      <4>1. PICK view \in Views : TakesChange(t, e, view)
        BY <3>2
      <4>2. \A u \in Tabs, n \in Messages : (u # t \/ n # e.message) => bubble'[u][n] = bubble[u][n]
        BY <1>3, <4>1, ReplacedMoves DEF TakesChange, ChatBase
      <4>3. behind \in [Tabs -> SUBSET Messages]
        BY DEF ChatBase, ChatTypeOK
      <4>4. \A u \in Tabs, n \in Messages :
              (u # t \/ n # e.message) => (n \in behind'[u] <=> n \in behind[u])
        BY <1>3, <4>1, <4>3 DEF TakesChange
      <4> QED
        BY <4>2, <4>4
    <3> QED
      BY <1>6, <3>1, <3>2
  <2>5. CASE e.message # m
    <3>1. LeavesAlone(m)
      BY <1>2, <1>4, <1>5, <2>2, <2>4, <2>5 DEF LeavesAlone, Prospect
    <3> QED
      BY <3>1, AgreesStays
  <2>6. CASE e.message = m
    <3>1. Tells(e) = View(m)
      BY <1>4, <2>6 DEF Agrees, TellsTheRow
    <3>2. bubble'[t][m] = View(m) \/ m \in behind'[t]
      <4>1. CASE TakesNew(t, e)
        BY <1>3, <2>6, <3>1, <4>1, BubbleMoves DEF TakesNew, Tells, ChatBase
      <4>2. CASE \E view \in Views : TakesChange(t, e, view)
        <5>1. PICK view \in Views : TakesChange(t, e, view)
          BY <4>2
        <5>2. view = View(m)
          BY <3>1, <5>1 DEF Tells, TakesChange
        <5>3. behind \in [Tabs -> SUBSET Messages]
          BY DEF ChatBase, ChatTypeOK
        <5> QED
          BY <2>6, <5>1, <5>2, <5>3, ReplacedMoves DEF TakesChange, ChatBase
      <4> QED
        BY <1>6, <4>1, <4>2
    <3>3. \A u \in Tabs : m \in behind[u] => m \in behind'[u]
      <4>1. behind \in [Tabs -> SUBSET Messages]
        BY DEF ChatBase, ChatTypeOK
      <4> QED
        BY <1>6, <4>1 DEF TakesNew, TakesChange
    <3>4. OneAtATime(m)' /\ QuietBefore(m)' /\ TellsTheRow(m)'
      BY <1>4, <1>5, <2>2 DEF Agrees, OneAtATime, QuietBefore, TellsTheRow
    <3>5. Undoes(m)'
      BY <1>5, <2>2, <2>3, <3>3 DEF Agrees, Undoes
    <3>6. ASSUME NEW u \in Tabs PROVE Converges(u, m)'
      <4>1. CASE u = t
        BY <1>5, <3>2, <4>1, CallsOf DEF Converges, Quiet, Prospect
      <4>2. CASE u # t
        <5>1. Prospect(u, m)' = Prospect(u, m) /\ (m \in behind'[u] <=> m \in behind[u])
          BY <1>2, <1>5, <2>4, <4>2 DEF Prospect
        <5>2. \A v \in Of(m) : Expects(u, m, v) => Expects(u, m, v)'
          BY <2>2, <2>3 DEF Expects
        <5>3. Converges(u, m) /\ Word(u, m)' = Word(u, m)
          BY <1>4, <4>2 DEF Agrees
        <5> QED
          BY <1>5, <2>2, <5>1, <5>2, <5>3 DEF Converges, Quiet
      <4> QED
        BY <4>1, <4>2
    <3> QED
      BY <3>4, <3>5, <3>6 DEF Agrees
  <2> QED
    BY <2>5, <2>6
<1>7. CASE TakesAck(t, e)
  <2> DEFINE w == e.write
  <2>1. /\ e.kind = "ack" /\ w \in Writes /\ Made(w) /\ write[w].tab = t /\ write[w].message = e.message
        /\ behind' = behind /\ e.view \in Views
    BY <1>3, <1>7 DEF TakesAck, EventIsSound
  <2>2. Turns(w, write[w].message, write[w].phase, write[w].answer, FALSE)
    BY <1>7, <2>1, FieldsTurn DEF TakesAck, ChatBase
  <2> HIDE DEF w
  <2>3. \A u \in Tabs, n \in Messages : (u # t \/ n # e.message) => bubble'[u][n] = bubble[u][n]
    <3>1. \/ bubble' = Appended(t, e.message, e.view) \/ bubble' = Replaced(t, e.message, e.view)
          \/ bubble' = bubble
      BY <1>7 DEF TakesAck
    <3> QED
      BY <1>3, <2>1, <3>1, BubbleMoves, ReplacedMoves DEF ChatBase
  <2>4. Of(m)' = Of(m) /\ \A v \in Of(m) : v # w => SameCall(v) /\ write'[v] = write[v]
    BY <2>1, <2>2 DEF Turns, Of, SameCall
  <2>5. CASE e.message # m
    <3>1. w \notin Of(m)
      BY <2>1, <2>5 DEF Of
    <3>2. LeavesAlone(m)
      BY <1>2, <1>4, <1>5, <2>1, <2>3, <2>4, <2>5, <3>1 DEF LeavesAlone, Prospect
    <3> QED
      BY <3>2, AgreesStays
  <2>6. CASE e.message = m
    <3>1. /\ w \in Of(m) /\ CallIsSound(w) /\ Exists(m) /\ View(m) # None
          /\ e \in Word(t, m) /\ e.view = View(m)
      <4>1. Tells(e) = View(m)
        BY <1>4, <2>6 DEF Agrees, TellsTheRow
      <4> QED
        BY <1>4, <2>1, <2>6, <4>1, CallsOf DEF Of, Tells
    <3>2. write[w].phase = "over"
      BY <3>1 DEF Agrees, QuietBefore
    <3>3. \A v \in Of(m) : /\ Made(v) /\ Made(v)' /\ write'[v].phase = write[v].phase
                           /\ write'[v].kind = write[v].kind /\ write'[v].tab = write[v].tab
                           /\ write'[v].before = write[v].before /\ write'[v].answer = write[v].answer
                           /\ write'[v].waiting => write[v].waiting
                           /\ Under(v)' => Under(v)
      BY <2>2, <2>4 DEF Turns, Of, Under
    <3>4. \A u \in Tabs : \A v : v # w => (AckComes(u, m, v)' <=> AckComes(u, m, v))
      BY <1>4 DEF AckComes, w
    <3>5. OneAtATime(m)' /\ QuietBefore(m)' /\ TellsTheRow(m)'
      BY <1>4, <1>5, <2>4, <3>3 DEF Agrees, OneAtATime, QuietBefore, TellsTheRow
    <3>6. Undoes(m)'
      BY <1>5, <2>1, <2>2, <2>4, <3>3, <3>4 DEF Agrees, Undoes, Turns
    <3>7. ASSUME NEW u \in Tabs PROVE Converges(u, m)'
      <4>1. Converges(u, m)
        BY DEF Agrees
      <4>2. \A v \in Of(m) : v # w => (Expects(u, m, v) => Expects(u, m, v)')
        BY <2>4, <3>4 DEF Expects
      <4>3. ~Expects(u, m, w)
        <5>1. u = t => AckComes(u, m, w)
          BY <2>1, <3>1 DEF AckComes, w
        <5> QED
          BY <2>1, <3>2, <5>1 DEF Expects, Early
      <4>4. \A f \in Word(u, m) : f.kind = "ack" \/ f \in Word(u, m)'
        BY <1>4, <2>1
      <4>5. CASE u = t /\ bubble' # bubble
        <5>1. \/ bubble' = Appended(t, m, View(m))
              \/ write[w].kind = "edit" /\ bubble' = Replaced(t, m, View(m))
          BY <1>7, <2>6, <3>1, <4>5 DEF TakesAck, w
        <5>2. write[w].kind = "edit" => bubble[t][m] # None
          BY <2>1, <3>1, <2>6 DEF CallIsSound
        <5>3. View(m) \in Views
          BY <2>1, <3>1
        <5>4. bubble'[t][m] = View(m)
          BY <5>1, <5>2, <5>3, BubbleMoves, ReplacedMoves DEF ChatBase
        <5> QED
          BY <1>5, <3>1, <4>5, <5>4 DEF Converges, Quiet, Prospect
      <4>6. CASE u # t \/ bubble' = bubble
        <5>1. Prospect(u, m)' = Prospect(u, m)
          BY <1>2, <1>5, <2>3, <4>6 DEF Prospect
        <5> QED
          BY <1>5, <2>1, <2>4, <3>3, <4>1, <4>2, <4>3, <4>4, <5>1 DEF Converges, Quiet
      <4> QED
        BY <4>5, <4>6
    <3> QED
      BY <3>5, <3>6, <3>7 DEF Agrees
  <2> QED
    BY <2>5, <2>6
<1> QED
  BY <1>1, <1>6, <1>7

\* Reading and merging the page change nothing of what a tab is to show.
LEMMA PageAgrees ==
    ASSUME ChatBase, NEW t \in Tabs, ReadPage(t) \/ MergePage(t), NEW m \in Messages, Agrees(m)
    PROVE  Agrees(m)'
<1>1. UNCHANGED <<row, write, connected, room, drops, inbox, pending, history>>
  BY ReadStep, MergeStep DEF ChatBase
<1>2. \A u \in Tabs : u # t => page'[u] = page[u] /\ bubble'[u] = bubble[u]
  <2>1. ReadPage(t) => bubble' = bubble /\ \A u \in Tabs : u # t => page'[u] = page[u]
    BY ReadStep DEF ChatBase
  <2>2. MergePage(t) => \A u \in Tabs : u # t => page'[u] = page[u] /\ bubble'[u] = bubble[u]
    BY MergeStep DEF ChatBase
  <2> QED
    BY <2>1, <2>2
<1>3. Exists(m)' = Exists(m) /\ View(m)' = View(m)
  BY <1>1 DEF Exists, View
<1>4. Exists(m) => Prospect(t, m)' = Prospect(t, m)
  <2>1. CASE ReadPage(t)
    BY <1>3, <2>1, ReadStep DEF ChatBase, Prospect
  <2>2. CASE MergePage(t)
    BY <1>3, <2>2, MergeStep DEF ChatBase, Prospect
  <2> QED
    BY <2>1, <2>2
<1>5. \A u \in Tabs : Exists(m) => Prospect(u, m)' = Prospect(u, m)
  BY <1>2, <1>3, <1>4 DEF Prospect
<1>6. LeavesAlone(m)
  BY <1>1, <1>3, <1>5 DEF LeavesAlone, Quiet, Of, SameCall, Word, OnItsWay, history, Made
<1> QED
  BY <1>6, AgreesStays

\* A page that could not be read leaves its tab behind on what nobody is to
\* tell it.
LEMMA MissAgrees ==
    ASSUME ChatBase, NEW t \in Tabs, MissPage(t), NEW m \in Messages, Agrees(m)
    PROVE  Agrees(m)'
<1>1. /\ UNCHANGED <<row, write, inbox, bubble>>
      /\ \A u \in Tabs : u # t => page'[u] = page[u] /\ behind'[u] = behind[u]
      /\ behind'[t] = behind[t] \cup PastBroadcast(t)
  BY MissStep DEF ChatBase
<1>2. Exists(m)' = Exists(m) /\ View(m)' = View(m)
  BY <1>1 DEF Exists, View
<1>3. ASSUME Quiet(t, m), m \notin behind'[t] PROVE bubble[t][m] # None
  <2>1. \A w \in Of(m) : write[w].phase # "written"
    BY <1>3 DEF Quiet
  <2>2. \A i \in DOMAIN inbox[t] : inbox[t][i].kind = "new" => inbox[t][i].message # m
    BY <1>3 DEF Quiet, Word, OnItsWay, Items
  <2> QED
    BY <1>1, <1>3, <2>1, <2>2 DEF Quiet, PastBroadcast
<1>4. \A u \in Tabs : Quiet(u, m) /\ m \notin behind'[u] => Prospect(u, m)' = Prospect(u, m)
  BY <1>1, <1>2, <1>3 DEF Prospect
<1>5. LeavesAlone(m)
  BY <1>1, <1>2, <1>4 DEF LeavesAlone, Of, SameCall, Word, OnItsWay, Made
<1> QED
  BY <1>5, AgreesStays

\* What a connection takes with it leaves its tab behind.
LEMMA DropAgrees ==
    ASSUME ChatBase, NEW t \in Tabs, Drop(t), NEW m \in Messages, Agrees(m)
    PROVE  Agrees(m)'
<1>1. /\ \A w \in Writes :
           /\ Made(w)' <=> Made(w)
           /\ Made(w) /\ write[w].tab # t => write'[w] = write[w]
           /\ Made(w) /\ write[w].tab = t =>
                /\ write'[w].kind = write[w].kind /\ write'[w].tab = t
                /\ write'[w].message = write[w].message /\ write'[w].before = write[w].before
                /\ write'[w].answer = write[w].answer /\ write'[w].waiting = write[w].waiting
                /\ write'[w].phase = IF write[w].phase = "sent" THEN "over" ELSE write[w].phase
                /\ write'[w].line = IF write[w].phase \in {"loaded", "written"}
                                    THEN FALSE ELSE write[w].line
      /\ OnItsWay(t)' = {} /\ \A u \in Tabs : u # t => OnItsWay(u)' = OnItsWay(u)
      /\ \A u \in Tabs : u # t => behind'[u] = behind[u]
      /\ behind[t] \subseteq behind'[t]
      /\ \A e \in OnItsWay(t) : e.message \in behind'[t]
      /\ \A w \in Writes : Made(w) /\ write[w].tab = t /\ Under(w) /\ write[w].message # NoMessage
                             => write[w].message \in behind'[t]
      /\ UNCHANGED <<row, client, contended, adrift>>
  BY DropStep DEF ChatBase
<1>2. Of(m)' = Of(m) /\ \A w \in Of(m) : w \in Writes /\ Made(w) /\ Made(w)' /\ write[w].message = m
  BY <1>1 DEF Of
<1>3. \A w \in Of(m) :
        /\ write'[w].tab = write[w].tab /\ write'[w].kind = write[w].kind
        /\ write'[w].before = write[w].before /\ write'[w].answer = write[w].answer
        /\ write'[w].waiting = write[w].waiting
        /\ write'[w].phase = write[w].phase \/ (write[w].phase = "sent" /\ write'[w].phase = "over")
        /\ write[w].tab # t => write'[w].phase = write[w].phase
  BY <1>1, <1>2
<1>4. \A w \in Of(m) : Under(w)' => Under(w)
  BY <1>2, <1>3 DEF Under
<1>5. /\ Word(t, m)' = {} /\ \A u \in Tabs : u # t => Word(u, m)' = Word(u, m)
      /\ Word(t, m) # {} => m \in behind'[t]
  BY <1>1 DEF Word
<1>6. /\ Exists(m)' = Exists(m) /\ View(m)' = View(m)
      /\ \A u : Prospect(u, m)' = Prospect(u, m)
  BY <1>1 DEF Exists, View, Prospect, client
<1>7. ASSUME NEW w \in Of(m), write[w].tab = t, Under(w) PROVE m \in behind'[t]
  BY <1>1, <1>2, <1>7, ChatConstants
<1>8. \A u \in Tabs : u # t => \A w : AckComes(u, m, w)' <=> AckComes(u, m, w)
  BY <1>5 DEF AckComes
<1>9. OneAtATime(m)' /\ QuietBefore(m)' /\ TellsTheRow(m)'
  BY <1>2, <1>3, <1>4, <1>5, <1>6 DEF Agrees, OneAtATime, QuietBefore, TellsTheRow
<1>10. Undoes(m)'
  <2> SUFFICES ASSUME NEW u \in Tabs, NEW w \in Of(m),
                      /\ write'[w].tab = u /\ write'[w].kind # "send"
                      /\ write'[w].waiting /\ write'[w].phase # "written"
                      /\ ~AckComes(u, m, w)' /\ m \notin behind'[u]
               PROVE  write'[w].before = View(m)
    BY <1>2, <1>6 DEF Undoes
  <2>1. CASE u = t
    BY <1>2, <1>3, <1>7, <2>1 DEF Under
  <2>2. CASE u # t
    BY <1>1, <1>3, <1>8, <2>2 DEF Agrees, Undoes
  <2> QED
    BY <2>1, <2>2
<1>11. ASSUME NEW u \in Tabs PROVE Converges(u, m)'
  <2>1. Converges(u, m)
    BY DEF Agrees
  <2>2. CASE u = t
    <3> SUFFICES ASSUME Exists(m), m \notin behind'[t], \A w \in Of(m) : write'[w].phase # "written"
                 PROVE  Prospect(t, m) = View(m)
      BY <1>2, <1>6, <2>2 DEF Converges, Quiet
    <3>1. Word(t, m) = {} /\ m \notin behind[t] /\ \A w \in Of(m) : write[w].phase # "written"
      BY <1>1, <1>3, <1>5
    <3>2. \A w \in Of(m) : ~Expects(t, m, w)
      BY <1>2, <1>7 DEF Expects, Under, Early
    <3> QED
      BY <2>1, <2>2, <3>1, <3>2 DEF Converges, Quiet
  <2>3. CASE u # t
    <3>1. \A w \in Of(m) : Expects(u, m, w) => Expects(u, m, w)'
      BY <1>3, <1>8, <2>3 DEF Expects
    <3>2. \A w \in Of(m) : write'[w].phase # "written" => write[w].phase # "written"
      BY <1>3
    <3> QED
      BY <1>1, <1>2, <1>5, <1>6, <2>1, <2>3, <3>1, <3>2 DEF Converges, Quiet
  <2> QED
    BY <2>2, <2>3
<1> QED
  BY <1>9, <1>10, <1>11 DEF Agrees

\* A connection, and a join, bring no message.
LEMMA ConnectAgrees ==
    ASSUME ChatBase, NEW t \in Tabs, Connect(t) \/ JoinChannel(t), NEW m \in Messages, Agrees(m)
    PROVE  Agrees(m)'
<1>1. UNCHANGED <<row, inbox, bubble, page, behind>>
  BY DEF Connect, JoinChannel, client, history
<1>2. Of(m)' = Of(m) /\ \A w \in Of(m) : SameCall(w)
  <2>1. CASE Connect(t)
    BY <2>1, ConnectStep DEF ChatBase, Of, SameCall, Early
  <2>2. CASE JoinChannel(t)
    BY <2>2 DEF JoinChannel, Of, SameCall, Made
  <2> QED
    BY <2>1, <2>2
<1>3. LeavesAlone(m)
  BY <1>1, <1>2 DEF LeavesAlone, Exists, View, Word, OnItsWay, Prospect
<1> QED
  BY <1>3, AgreesStays

\* A handler writes the row: no other call about it is under way, and nobody
\* has been told.
LEMMA RowAgrees ==
    ASSUME ChatBase, NEW w \in Writes, NEW n \in Messages, NEW a \in Views, WritesRow(w, n, a),
           NEW m \in Messages, Agrees(m)
    PROVE  Agrees(m)'
<1>1. /\ Made(w) /\ Turns(w, n, "written", a, write[w].waiting)
      /\ \A k \in Messages : k # n => row'[k] = row[k]
      /\ Exists(n)' /\ View(n)' = a
      /\ \/ write[w].message = n /\ write[w].phase = "loaded" /\ Exists(n)
         \/ write[w].message = NoMessage /\ write[w].phase = "sent" /\ ~Exists(n)
      /\ UNCHANGED <<inbox, bubble, page, behind>>
  BY DEF WritesRow
<1>2. \A u : Word(u, m)' = Word(u, m)
  BY <1>1 DEF Word, OnItsWay
<1>3. CASE m # n
  <2>1. w \notin Of(m) /\ Of(m)' = Of(m) /\ \A v \in Of(m) : SameCall(v)
    BY <1>1, <1>3, ChatConstants DEF Turns, Of, SameCall
  <2>2. Exists(m)' = Exists(m) /\ View(m)' = View(m)
    BY <1>1, <1>3 DEF Exists, View
  <2>3. LeavesAlone(m)
    BY <1>1, <1>2, <2>1, <2>2 DEF LeavesAlone, Prospect
  <2> QED
    BY <2>3, AgreesStays
<1>4. CASE m = n
  <2>1. \A v \in Of(m) : v # w => ~Under(v)
    <3>1. CASE ~Exists(m)
      BY <3>1, CallsOf
    <3>2. CASE write[w].message = m /\ write[w].phase = "loaded"
      BY <1>1, <3>2 DEF Agrees, OneAtATime, Of, Under
    <3> QED
      BY <1>1, <1>4, <3>1, <3>2
  <2>2. \A u \in Tabs : Word(u, m) = {}
    <3>1. CASE ~Exists(m)
      BY <3>1, CallsOf
    <3>2. CASE write[w].message = m /\ write[w].phase = "loaded"
      <4>1. w \in Of(m) /\ write[w].phase # "over"
        BY <1>1, <3>2 DEF Of
      <4> QED
        BY <4>1 DEF Agrees, QuietBefore
    <3> QED
      BY <1>1, <1>4, <3>1, <3>2
  <2>3. /\ Of(m)' = Of(m) \cup {w} /\ write'[w].phase = "written" /\ write'[w].answer = View(m)'
        /\ \A v \in Of(m) : v # w => ~Under(v)' /\ write'[v].phase = "over" /\ ~write'[v].waiting
    BY <1>1, <1>4, <2>1 DEF Turns, Of, Under
  <2>4. OneAtATime(m)'
    BY <2>3 DEF OneAtATime
  <2>5. QuietBefore(m)' /\ TellsTheRow(m)'
    BY <1>2, <2>2, <2>3 DEF QuietBefore, TellsTheRow
  <2>6. Undoes(m)' /\ \A u \in Tabs : Converges(u, m)'
    BY <2>3 DEF Undoes, Converges, Quiet
  <2> QED
    BY <2>4, <2>5, <2>6 DEF Agrees
<1> QED
  BY <1>3, <1>4

\* A refusal settles nothing: the call still waits, or leaves its tab behind.
LEMMA PhaseAgrees ==
    ASSUME ChatBase, NEW w \in Writes, Load(w) \/ Refuse(w), NEW m \in Messages, Agrees(m)
    PROVE  Agrees(m)'
<1>1. /\ Made(w) /\ write[w].phase \in {"sent", "loaded"}
      /\ UNCHANGED <<row, inbox, bubble, page>>
  BY DEF Load, Refuse, Running, client
<1>2. /\ \A u : Word(u, m)' = Word(u, m) /\ Prospect(u, m)' = Prospect(u, m)
      /\ Exists(m)' = Exists(m) /\ View(m)' = View(m)
  BY <1>1 DEF Word, OnItsWay, Exists, View, Prospect
<1>3. CASE Load(w)
  <2>1. Turns(w, write[w].message, "loaded", write[w].answer, write[w].waiting) /\ behind' = behind
    BY <1>1, <1>3, FieldsTurn DEF Load, Phases, ChatBase, history
  <2>2. Of(m)' = Of(m) /\ \A v \in Of(m) : SameCall(v)
    BY <1>1, <2>1 DEF Turns, Of, SameCall, Early
  <2>3. LeavesAlone(m)
    BY <1>2, <2>1, <2>2 DEF LeavesAlone
  <2> QED
    BY <2>3, AgreesStays
<1>4. CASE Refuse(w)
  <2>1. Turns(w, write[w].message, "over", write[w].answer, write[w].waiting)
    BY <1>1, <1>4, FieldsTurn DEF Refuse, Phases, ChatBase
  <2>2. /\ Of(m)' = Of(m)
        /\ \A v \in Of(m) : /\ Made(v) /\ Made(v)' /\ write'[v].kind = write[v].kind
                            /\ write'[v].tab = write[v].tab /\ write'[v].before = write[v].before
                            /\ write'[v].answer = write[v].answer
                            /\ write'[v].waiting = write[v].waiting
                            /\ v # w => write'[v] = write[v]
    <3>1. Of(m)' = Of(m)
      BY <1>1, <2>1 DEF Turns, Of
    <3>2. ASSUME NEW v \in Of(m)
          PROVE  v \in Writes /\ Made(v) /\ Made(v)' /\ (v # w => write'[v] = write[v])
      BY <1>1, <2>1 DEF Turns, Of
    <3> QED
      BY <2>1, <3>1, <3>2 DEF Turns
  <2>3. write[w].phase \in {"sent", "loaded"} /\ write'[w].phase = "over"
    BY <1>1, <2>1 DEF Turns
  <2>4. \A v \in Of(m) : /\ Under(v)' => Under(v)
                         /\ write'[v].phase # "over" => write[v].phase # "over"
                         /\ write'[v].phase = "written" <=> write[v].phase = "written"
    BY <2>2, <2>3 DEF Under
  <2>5. \A u \in Tabs : /\ m \in behind[u] => m \in behind'[u]
                        /\ u # write[w].tab => (m \in behind'[u] <=> m \in behind[u])
    BY <1>4 DEF Refuse, ChatBase, ChatTypeOK
  <2>6. w \in Of(m) /\ ~write[w].waiting => m \in behind'[write[w].tab]
    <3>1. w \in Of(m) => write[w].message = m /\ m # NoMessage /\ write[w].tab \in Tabs
      BY CallsOf, ChatConstants
    <3> QED
      BY <1>4, <3>1 DEF Refuse, ChatBase, ChatTypeOK
  <2>7. \A u \in Tabs : \A v : AckComes(u, m, v)' <=> AckComes(u, m, v)
    BY <1>2 DEF AckComes
  <2>8. OneAtATime(m)' /\ QuietBefore(m)' /\ TellsTheRow(m)'
    BY <1>2, <2>2, <2>4 DEF Agrees, OneAtATime, QuietBefore, TellsTheRow
  <2>9. Undoes(m)'
    BY <1>2, <2>2, <2>4, <2>5, <2>7 DEF Agrees, Undoes
  <2>10. ASSUME NEW u \in Tabs PROVE Converges(u, m)'
    <3>1. m \in behind'[u] \/ \A v \in Of(m) : Expects(u, m, v) => Expects(u, m, v)'
      BY <2>2, <2>6, <2>7 DEF Expects
    <3>2. Converges(u, m)
      BY DEF Agrees
    <3> QED
      BY <1>2, <2>2, <2>4, <2>5, <3>1, <3>2 DEF Converges, Quiet
  <2> QED
    BY <2>8, <2>9, <2>10 DEF Agrees
<1> QED
  BY <1>3, <1>4

\* An answer: the room is told, the caller has its ack coming, and everybody
\* else has its page still to read or is behind.
LEMMA AnswerAgrees ==
    ASSUME ChatBase, NEW w \in Writes, Answer(w), NEW m \in Messages, Agrees(m)
    PROVE  Agrees(m)'
<1> DEFINE q == write[w]
<1>1. /\ Made(w) /\ q.phase = "written" /\ q.message \in Messages
      /\ Turns(w, q.message, "over", q.answer, q.waiting)
      /\ Broadcast(w) \in Events /\ Ack(w) \in Events
      /\ inbox' \in [Tabs -> Seq(Events)]
      /\ \A t \in Tabs :
           /\ OnItsWay(t)' = OnItsWay(t)
                               \cup (IF t \in room THEN {Broadcast(w)} ELSE {})
                               \cup (IF t = q.tab /\ q.line THEN {Ack(w)} ELSE {})
           /\ behind'[t] = IF t \in room \/ (page[t].state = "due"
                                               /\ bubble[t][q.message] = None)
                           THEN behind[t] ELSE behind[t] \cup {q.message}
      /\ behind' \in [Tabs -> SUBSET Messages]
      /\ UNCHANGED <<row, connected, room, drops, bubble, page, pending, contended, adrift>>
  BY AnswerStep
<1>2. /\ \A u : Prospect(u, m)' = Prospect(u, m)
      /\ Exists(m)' = Exists(m) /\ View(m)' = View(m)
  BY <1>1 DEF Exists, View, Prospect
<1>3. q.kind \in {"send", "edit", "remove"} /\ q.tab \in Tabs
  BY <1>1, CallsTyped DEF ChatBase
<1>4. /\ Broadcast(w).message = q.message /\ Broadcast(w).kind # "ack"
      /\ Tells(Broadcast(w)) = IF q.kind = "remove" THEN Tombstone ELSE q.answer
      /\ Ack(w).message = q.message /\ Ack(w).kind = "ack" /\ Ack(w).write = w
      /\ Tells(Ack(w)) = q.answer
  BY <1>3 DEF Broadcast, Ack, Tells
<1>5. CASE m # q.message
  <2>1. Of(m)' = Of(m) /\ \A v \in Of(m) : SameCall(v)
    BY <1>1, <1>5 DEF Turns, Of, SameCall
  <2>2. \A u \in Tabs : Word(u, m)' = Word(u, m) /\ (m \in behind'[u] <=> m \in behind[u])
    BY <1>1, <1>4, <1>5 DEF Word
  <2>3. LeavesAlone(m)
    BY <1>2, <2>1, <2>2 DEF LeavesAlone
  <2> QED
    BY <2>3, AgreesStays
<1>6. CASE m = q.message
  <2>1. w \in Of(m) /\ Under(w) /\ CallIsSound(w)
    BY <1>1, <1>6, CallsOf DEF Of, Under
  <2>2. /\ \A v \in Of(m) : v # w => ~Under(v)
        /\ \A u \in Tabs : Word(u, m) = {}
        /\ q.answer = View(m)
    BY <1>1, <2>1 DEF Agrees, OneAtATime, QuietBefore, TellsTheRow
  <2>3. \A u \in Tabs : Word(u, m)' = (IF u \in room THEN {Broadcast(w)} ELSE {})
                                        \cup (IF u = q.tab /\ q.line THEN {Ack(w)} ELSE {})
    BY <1>1, <1>4, <1>6, <2>2 DEF Word
  <2>4. q.kind = "remove" => q.answer = Tombstone
    BY <1>1, <2>1 DEF CallIsSound
  <2>5. Tells(Broadcast(w)) = View(m) /\ Tells(Ack(w)) = View(m)
    BY <1>4, <2>2, <2>4
  <2>6. /\ Of(m)' = Of(m)
        /\ \A v \in Of(m) : /\ write'[v].phase = "over"
                            /\ v # w => ~write'[v].waiting /\ ~Under(v)'
    BY <1>1, <1>6, <2>2 DEF Turns, Of, Under
  <2>7. OneAtATime(m)' /\ QuietBefore(m)'
    BY <2>6 DEF OneAtATime, QuietBefore
  <2>8. TellsTheRow(m)'
    <3>1. ASSUME NEW u \in Tabs, NEW e \in Word(u, m)' PROVE Tells(e) = View(m)'
      BY <1>2, <2>3, <2>5
    <3> QED
      BY <2>6, <3>1 DEF TellsTheRow
  <2>9. Undoes(m)'
    <3>1. \A t \in Tabs : q.line /\ t = q.tab => AckComes(t, m, w)'
      <4> SUFFICES ASSUME q.line, NEW t \in Tabs, t = q.tab PROVE AckComes(t, m, w)'
        OBVIOUS
      <4>1. Ack(w) \in Word(t, m)'
        BY <2>3
      <4>2. PICK e : e = Ack(w)
        OBVIOUS
      <4> QED
        BY <1>4, <4>1, <4>2 DEF AckComes
    <3>2. ~q.line => m \in behind'[q.tab]
      BY <1>1, <1>3, <1>6, <2>1, ChatConstants DEF CallIsSound
    <3> SUFFICES ASSUME NEW t \in Tabs, NEW v \in Of(m)',
                        /\ write'[v].tab = t /\ write'[v].waiting
                        /\ ~AckComes(t, m, v)' /\ m \notin behind'[t]
                 PROVE  FALSE
      BY DEF Undoes
    <3>3. v = w /\ t = q.tab
      BY <1>1, <2>6 DEF Turns
    <3> QED
      BY <3>1, <3>2, <3>3
  <2>10. ASSUME NEW u \in Tabs PROVE Converges(u, m)'
    <3>1. CASE u \in room
      <4>1. Broadcast(w) \in Word(u, m)'
        BY <2>3, <3>1
      <4> QED
        BY <1>4, <4>1 DEF Converges, Quiet
    <3>2. CASE u \notin room /\ page[u].state = "due" /\ bubble[u][m] = None
      <4>1. Prospect(u, m) = View(m)
        BY <3>2 DEF Prospect
      <4> QED
        BY <1>2, <4>1 DEF Converges, Quiet
    <3>3. CASE u \notin room /\ ~(page[u].state = "due" /\ bubble[u][m] = None)
      <4>1. m \in behind'[u]
        BY <1>1, <1>6, <3>3
      <4> QED
        BY <4>1 DEF Converges, Quiet
    <3> QED
      BY <3>1, <3>2, <3>3
  <2> QED
    BY <2>7, <2>8, <2>9, <2>10 DEF Agrees
<1> QED
  BY <1>5, <1>6

LEMMA StutterAgrees ==
    ASSUME UNCHANGED chatVars, NEW m \in Messages, Agrees(m)
    PROVE  Agrees(m)'
<1>1. UNCHANGED <<row, write, inbox, bubble, page, behind>>
  BY DEF chatVars, client, history
<1>2. LeavesAlone(m)
  BY <1>1 DEF LeavesAlone, Exists, View, Word, OnItsWay, Prospect, Of, Made, SameCall
<1> QED
  BY <1>2, AgreesStays

\* Once contended, a message stays so.
LEMMA ContendedGrows ==
    ASSUME [ChatNext]_chatVars
    PROVE  contended \subseteq contended'
<1>1. ASSUME NEW t \in Tabs, TabStep(t) PROVE contended \subseteq contended'
  BY <1>1 DEF TabStep, SendMessage, EditMessage, DeleteMessage, Call, Receive, ReadPage,
              MissPage, MergePage, Drop, Connect, JoinChannel, history
<1>2. ASSUME NEW w \in Writes, WriteStep(w) PROVE contended \subseteq contended'
  BY <1>2 DEF WriteStep, Insert, Load, Update, SoftDeleteMessage, Answer, Refuse, TimeOut, history
<1> QED
  BY <1>1, <1>2 DEF ChatNext, chatVars, history

\* Every step, message by message.
LEMMA AgreementSteps ==
    ASSUME ChatBase, Agreement, [ChatNext]_chatVars
    PROVE  Agreement'
<1> SUFFICES ASSUME NEW m \in Messages \ contended' PROVE Agrees(m)'
  BY DEF Agreement
<1>1. contended \subseteq contended'
  BY ContendedGrows
<1>2. Agrees(m)
  BY <1>1 DEF Agreement
<1>3. ASSUME NEW t \in Tabs, TabStep(t) PROVE Agrees(m)'
  BY <1>2, <1>3, SendAgrees, EditAgrees, ReceiveAgrees, PageAgrees, MissAgrees, DropAgrees, ConnectAgrees
     DEF TabStep
<1>4. ASSUME NEW w \in Writes, WriteStep(w) PROVE Agrees(m)'
  <2>1. CASE (\E n \in Messages : Insert(w, n)) \/ Update(w) \/ SoftDeleteMessage(w)
    BY <1>2, <2>1, RowStep, RowAgrees
  <2>2. CASE Load(w) \/ Refuse(w) \/ Answer(w) \/ TimeOut(w)
    BY <1>2, <2>2, PhaseAgrees, AnswerAgrees, TimeOutAgrees
  <2> QED
    BY <1>4, <2>1, <2>2 DEF WriteStep
<1> QED
  BY <1>2, <1>3, <1>4, StutterAgrees DEF ChatNext

LEMMA AgreementInit ==
    ASSUME ChatInit
    PROVE  Agreement
<1>1. \A m : Of(m) = {} /\ (\A t \in Tabs : Word(t, m) = {}) /\ (m \in Messages => ~Exists(m))
  BY ItemsOfFew DEF ChatInit, Of, Made, Word, OnItsWay, Exists
<1> QED
  BY <1>1 DEF Agreement, Agrees, OneAtATime, QuietBefore, TellsTheRow, Undoes, Converges, Quiet

\* The thread chat-messages.ts puts together: whatever was drawn early, acked
\* late, timed out, taken back or read in a page, a tab shows what the table
\* holds of a message about which nothing is on its way, except for what it was
\* not told and for a message changed while another change of it was under way.
THEOREM ThreadsConverge == ChatSpec => []ThreadsAgree
<1>1. ChatInit => ChatBase /\ Agreement
  BY ChatInitBase, AgreementInit
<1>2. ChatBase /\ Agreement /\ [ChatNext]_chatVars => (ChatBase /\ Agreement)'
  BY ChatStepBase, AgreementSteps
<1>3. ChatBase /\ Agreement => ThreadsAgree
  <2> SUFFICES ASSUME ChatBase, Agreement, NEW t \in Tabs, NEW m \in Messages,
                      Exists(m), page[t].state = "merged", ~Busy(m),
                      m \notin behind[t] \cup contended
               PROVE  bubble[t][m] = View(m)
    BY DEF ThreadsAgree
  <2>1. Agrees(m) /\ AtRest(m)
    BY RestIsNotBusy DEF Agreement
  <2>2. Prospect(t, m) = View(m) /\ View(m) # None
    BY <2>1, RestAgrees, CallsOf
  <2>3. page[t].rows[m] = None
    BY DEF ChatBase, PagesAreSound
  <2> QED
    BY <2>2, <2>3 DEF Prospect
<1> QED
  BY <1>1, <1>2, <1>3, PTL DEF ChatSpec

-----------------------------------------------------------------------------
(* The channel: tombstones *)

\* An edit that has been loaded was loaded from a live row, which is one still.
EditsAreOfTheLiving ==
    /\ \A m \in Messages : row[m].deleted => Exists(m)
    /\ \A w \in Writes :
         /\ Made(w) /\ write[w].kind = "edit" /\ write[w].phase = "loaded"
         /\ write[w].message \notin contended
         => ~row[write[w].message].deleted

\* No call but those that were becomes loaded.
NoneLoads ==
    \A w \in Writes :
        Made(w)' /\ write'[w].phase = "loaded" =>
            /\ Made(w) /\ write[w].phase = "loaded"
            /\ write'[w].kind = write[w].kind /\ write'[w].message = write[w].message

\* Load alone leaves a call in phase "loaded" that was not there before.
LEMMA OnlyLoadLoads ==
    ASSUME ChatBase
    PROVE  /\ \A t \in Tabs : TabStep(t) => NoneLoads
           /\ \A w \in Writes : WriteStep(w) => Load(w) \/ NoneLoads
<1> USE DEF ChatBase
<1>1. ASSUME NEW t \in Tabs, TabStep(t) PROVE NoneLoads
  <2>1. CASE \E w \in Writes : SendMessage(t, w)
    <3>1. PICK w \in Writes : Call(w, "send", t, NoMessage)
      BY <2>1 DEF SendMessage
    <3>2. Called(t, w, "send", NoMessage)
      BY <3>1, CallStep DEF Kinds
    <3> QED
      BY <3>2 DEF Called, NoneLoads, Emitted
  <2>2. CASE \E w \in Writes, m \in Messages : EditMessage(t, w, m) \/ DeleteMessage(t, w, m)
    <3>1. PICK w \in Writes, m \in Messages, kind \in {"edit", "remove"} : Call(w, kind, t, m) /\ Shows(t, m)
      BY <2>2 DEF EditMessage, DeleteMessage
    <3>2. Called(t, w, kind, m)
      BY <3>1, CallStep DEF Kinds
    <3> QED
      BY <3>2 DEF Called, NoneLoads, Emitted
  <2>3. CASE Receive(t)
    <3>1. PICK e \in OnItsWay(t) : write' = write \/ TakesAck(t, e)
      BY <2>3, ReceiveStep DEF TakesNew, TakesChange
    <3>2. CASE write' = write
      BY <3>2 DEF NoneLoads, Made
    <3>3. CASE TakesAck(t, e)
      <4>1. e.write \in Writes /\ Made(e.write)
        BY <3>3 DEF TakesAck, EventsAreSound, EventIsSound
      <4>2. PICK w \in Writes : w = e.write
        BY <4>1
      <4>3. Turns(w, write[w].message, write[w].phase, write[w].answer, FALSE)
        BY <3>3, <4>1, <4>2, FieldsTurn DEF TakesAck
      <4> QED
        BY <4>1, <4>2, <4>3 DEF Turns, NoneLoads
    <3> QED
      BY <3>1, <3>2, <3>3
  <2>4. CASE ReadPage(t) \/ MissPage(t) \/ MergePage(t) \/ JoinChannel(t)
    BY <2>4 DEF ReadPage, MissPage, MergePage, JoinChannel, NoneLoads, Made
  <2>5. CASE Drop(t)
    <3>1. \A w \in Writes :
            /\ Made(w)' <=> Made(w)
            /\ Made(w) /\ write[w].tab # t => write'[w] = write[w]
            /\ Made(w) /\ write[w].tab = t =>
                 /\ write'[w].kind = write[w].kind /\ write'[w].tab = t
                 /\ write'[w].message = write[w].message /\ write'[w].before = write[w].before
                 /\ write'[w].answer = write[w].answer /\ write'[w].waiting = write[w].waiting
                 /\ write'[w].phase = IF write[w].phase = "sent" THEN "over" ELSE write[w].phase
                 /\ write'[w].line = IF write[w].phase \in {"loaded", "written"}
                                     THEN FALSE ELSE write[w].line
      BY <2>5, DropStep
    <3> QED
      BY <3>1 DEF NoneLoads
  <2>6. CASE Connect(t)
    <3>1. \A w \in Writes :
            /\ Made(w)' <=> Made(w)
            /\ Made(w) /\ (write[w].tab # t \/ write[w].phase # "buffered") => write'[w] = write[w]
            /\ Made(w) /\ write[w].tab = t /\ write[w].phase = "buffered" => write'[w].phase = "sent"
      BY <2>6, ConnectStep
    <3> QED
      BY <3>1 DEF NoneLoads
  <2> QED
    BY <1>1, <2>1, <2>2, <2>3, <2>4, <2>5, <2>6 DEF TabStep
<1>2. ASSUME NEW w \in Writes, WriteStep(w) PROVE Load(w) \/ NoneLoads
  <2>1. CASE (\E m \in Messages : Insert(w, m)) \/ Update(w) \/ SoftDeleteMessage(w)
    <3>1. PICK m \in Messages, a \in Views : Turns(w, m, "written", a, write[w].waiting)
      BY <2>1, RowStep DEF WritesRow
    <3> QED
      BY <3>1 DEF Turns, NoneLoads
  <2>2. CASE Refuse(w)
    <3>1. Turns(w, write[w].message, "over", write[w].answer, write[w].waiting)
      BY <2>2, FieldsTurn DEF Refuse, Phases
    <3> QED
      BY <3>1 DEF Turns, NoneLoads
  <2>3. CASE Answer(w)
    <3>1. Turns(w, write[w].message, "over", write[w].answer, write[w].waiting)
      BY <2>3, AnswerStep
    <3> QED
      BY <3>1 DEF Turns, NoneLoads
  <2>4. CASE TimeOut(w)
    <3>1. Made(w) /\ Turns(w, write[w].message, write[w].phase, write[w].answer, FALSE)
      BY <2>4, TimeOutStep
    <3> QED
      BY <3>1 DEF Turns, NoneLoads
  <2> QED
    BY <1>2, <2>1, <2>2, <2>3, <2>4 DEF WriteStep
<1> QED
  BY <1>1, <1>2

\* A row that is not written stays; of one that is, a tombstone stays one.
LEMMA TombstoneSteps ==
    ASSUME ChatBase, Agreement, EditsAreOfTheLiving, [ChatNext]_chatVars
    PROVE  /\ EditsAreOfTheLiving'
           /\ \A m \in Messages \ contended : row[m].deleted => row'[m] = row[m]
<1> USE DEF ChatBase
<1>0. contended \subseteq contended'
  BY ContendedGrows
<1>1. CASE row' = row /\ NoneLoads
  BY <1>0, <1>1 DEF EditsAreOfTheLiving, NoneLoads, Exists
<1>2. ASSUME NEW w \in Writes, Load(w)
      PROVE  EditsAreOfTheLiving' /\ row' = row
  <2>1. /\ Made(w) /\ row' = row /\ contended' = contended
        /\ write[w].kind = "edit" => ~row[write[w].message].deleted
    BY <1>2 DEF Load, Running, history
  <2>2. Turns(w, write[w].message, "loaded", write[w].answer, write[w].waiting)
    BY <1>2, <2>1, FieldsTurn DEF Load, Phases
  <2> QED
    BY <2>1, <2>2 DEF EditsAreOfTheLiving, Turns, Exists
<1>3. ASSUME NEW w \in Writes, NEW m \in Messages, Insert(w, m)
      PROVE  /\ EditsAreOfTheLiving'
             /\ \A n \in Messages \ contended : row[n].deleted => row'[n] = row[n]
  <2>1. /\ ~Exists(m) /\ row' = [row EXCEPT ![m] = [text |-> w, deleted |-> FALSE]]
        /\ contended' = contended
    BY <1>3 DEF Insert, history
  <2>2. /\ row'[m].text = w /\ row'[m].deleted = FALSE
        /\ \A n \in Messages : n # m => row'[n] = row[n]
    BY <2>1 DEF ChatTypeOK
  <2>3. NoneLoads
    BY <1>3, OnlyLoadLoads DEF WriteStep, Load, Insert, Running
  <2>4. ASSUME NEW v \in Writes, Made(v), write[v].kind = "edit"
        PROVE  write[v].message \in Messages /\ write[v].message # m
    BY <2>1, <2>4, CallsTyped, ChatConstants DEF CallsAreSound, CallIsSound
  <2> QED
    BY <2>1, <2>2, <2>3, <2>4, ChatConstants DEF EditsAreOfTheLiving, NoneLoads, Exists
<1>4. ASSUME NEW w \in Writes, Update(w) \/ SoftDeleteMessage(w)
      PROVE  /\ EditsAreOfTheLiving'
             /\ \A n \in Messages \ contended : row[n].deleted => row'[n] = row[n]
  <2>1. /\ Made(w) /\ write[w].phase = "loaded" /\ write[w].kind \in {"edit", "remove"}
        /\ contended' = contended
    BY <1>4 DEF Update, SoftDeleteMessage, Running, history
  <2>2. PICK m \in Messages : m = write[w].message /\ Exists(m)
    BY <2>1, CallsTyped DEF CallsAreSound, CallIsSound
  <2>3. row[m] \in Row /\ row[m] = [text |-> row[m].text, deleted |-> row[m].deleted]
    BY <2>2, RowsTyped DEF ChatTypeOK
  <2>4. /\ \A n \in Messages : n # m => row'[n] = row[n]
        /\ row'[m] = IF write[w].kind = "edit" THEN [row[m] EXCEPT !.text = w]
                                               ELSE [row[m] EXCEPT !.deleted = TRUE]
    BY <1>4, <2>2 DEF Update, SoftDeleteMessage, Running, ChatTypeOK
  <2>5. \/ write[w].kind = "edit" /\ row'[m].text = w /\ row'[m].deleted = row[m].deleted
        \/ /\ write[w].kind = "remove" /\ row'[m].text = row[m].text /\ row'[m].deleted
           /\ row[m].deleted => row'[m] = row[m]
    BY <2>1, <2>3, <2>4 DEF Row
  <2>6. NoneLoads /\ write'[w].phase = "written"
    <3>1. NoneLoads
      BY <1>4, <2>1, OnlyLoadLoads DEF WriteStep, Load, Running
    <3>2. \E k \in Messages, a \in Views : WritesRow(w, k, a)
      BY <1>4, RowStep
    <3> QED
      BY <3>1, <3>2 DEF WritesRow, Turns
  <2>7. \A n \in Messages : row'[n].deleted => Exists(n)'
    BY <2>2, <2>4, <2>5, ChatConstants DEF EditsAreOfTheLiving, Exists
  <2>8. ASSUME NEW v \in Writes, Made(v)', write'[v].kind = "edit", write'[v].phase = "loaded",
               write'[v].message \notin contended
        PROVE  ~row'[write'[v].message].deleted
    <3>1. /\ v # w /\ Made(v) /\ write[v].phase = "loaded" /\ write[v].kind = "edit"
          /\ write'[v].message = write[v].message
      BY <2>6, <2>8 DEF NoneLoads
    <3>2. PICK k \in Messages : k = write[v].message
      BY <3>1, CallsTyped DEF CallsAreSound, CallIsSound
    <3>3. k # m
      <4> SUFFICES ASSUME k = m PROVE FALSE
        OBVIOUS
      <4>1. OneAtATime(m)
        BY <2>8, <3>1, <3>2 DEF Agreement, Agrees
      <4>2. v \in Of(m) /\ w \in Of(m) /\ Under(v) /\ Under(w)
        BY <2>1, <2>2, <3>1, <3>2 DEF Of, Under
      <4> QED
        BY <3>1, <4>1, <4>2 DEF OneAtATime
    <3> QED
      BY <2>4, <2>8, <3>1, <3>2, <3>3 DEF EditsAreOfTheLiving
  <2>9. ASSUME NEW n \in Messages \ contended, row[n].deleted PROVE row'[n] = row[n]
    BY <2>1, <2>2, <2>4, <2>5, <2>9 DEF EditsAreOfTheLiving
  <2> QED
    BY <2>1, <2>7, <2>8, <2>9 DEF EditsAreOfTheLiving
<1>5. ASSUME NEW t \in Tabs, TabStep(t) PROVE row' = row /\ NoneLoads
  BY <1>5, OnlyLoadLoads DEF TabStep, SendMessage, EditMessage, DeleteMessage, Call, Receive,
     HearBroadcast, HearAck, ReadPage, MissPage, MergePage, Drop, Connect, JoinChannel
<1>6. ASSUME NEW w \in Writes, Answer(w) \/ Refuse(w) \/ TimeOut(w)
      PROVE  row' = row /\ (NoneLoads \/ Load(w))
  BY <1>6, OnlyLoadLoads DEF WriteStep, Answer, Refuse, TimeOut
<1>7. CASE UNCHANGED chatVars
  BY <1>1, <1>7 DEF chatVars, NoneLoads, Made
<1>8. CASE \E t \in Tabs : TabStep(t)
  BY <1>1, <1>5, <1>8
<1>9. CASE \E w \in Writes : WriteStep(w)
  BY <1>1, <1>2, <1>3, <1>4, <1>6, <1>9 DEF WriteStep
<1> QED
  BY <1>7, <1>8, <1>9 DEF ChatNext

\* "Editing a deleted message is 404": a tombstone stays as it is, whatever is
\* written, except for a message changed while another change of it was on its
\* way: there updateMessage, which leaves deletedAt alone, may write over one.
THEOREM TombstonesKeep == ChatSpec => TombstonesStay
<1>1. ChatInit => ChatBase /\ Agreement /\ EditsAreOfTheLiving
  BY ChatInitBase, AgreementInit DEF ChatInit, EditsAreOfTheLiving, Made
<1>2. ChatBase /\ Agreement /\ EditsAreOfTheLiving /\ [ChatNext]_chatVars
        => (ChatBase /\ Agreement /\ EditsAreOfTheLiving)'
  BY ChatStepBase, AgreementSteps, TombstoneSteps
<1>3. ChatBase /\ Agreement /\ EditsAreOfTheLiving /\ [ChatNext]_chatVars
        => [\A m \in Messages \ contended : row[m].deleted => row'[m] = row[m]]_chatVars
  BY TombstoneSteps
<1> QED
  BY <1>1, <1>2, <1>3, PTL DEF ChatSpec, TombstonesStay

==============================================================================
