------------------------------ MODULE Workspace ------------------------------
(***************************************************************************)
(* One workspace: who is in it and on which tier, its projects with their  *)
(* owners, and the seats people hold on them, through to the project       *)
(* trash.                                                                  *)
(*                                                                         *)
(* A handler passes its guards and reads what it judges, and writes by id  *)
(* later.  Its reads are one step: what changes between two of them might  *)
(* as well have changed before both (somebody joins), or is asked for      *)
(* again by the write (a membership by its id, a seat by its pair).        *)
(*                                                                         *)
(* The grants of the workspace's own roles are not kept: any member may    *)
(* hold one, so a guard that asks for a permission lets any member pass.   *)
(***************************************************************************)
EXTENDS Naturals

CONSTANTS
    Users,     \* accounts
    Creator,   \* the one who made the workspace
    Projects,  \* rows of the table, bounding how many are ever created
    Given,     \* the roles a seat may be given, of MANAGER and COLLABORATOR
    Requests,  \* requests that can be in flight at once
    MaxJoins   \* how often one account may join, being removed in between

ASSUME WorkspaceAssumption ==
    /\ Creator \in Users
    /\ Given \subseteq {"MANAGER", "COLLABORATOR"}
    /\ MaxJoins \in Nat \ {0}

VARIABLES
    member,     \* member[u]: whether u is in, under which membership id, on which tier
    project,    \* project[p]: where the row is and who owns it
    seat,       \* seat[p][u]: the role of u's ProjectMember row, if there is one
    request,    \* request[r]: the handler running in slot r
    overlapped, \* history: a request has begun while another was in flight
    excused     \* history: projects written by a handler that had loaded another
                \* owner, or whose owner a removal has taken out

rows == <<member, project, seat>>
vars == <<rows, request, overlapped, excused>>

-----------------------------------------------------------------------------
(* Rows and requests *)

Tiers == {"OWNER", "ADMIN", "MEMBER"}
Rungs == {"ADMIN", "MEMBER"}
Seats == {"none", "OWNER", "MANAGER"} \cup Given
Member == [in : BOOLEAN, id : 0..MaxJoins, tier : Tiers]
Project == [state : {"none", "live", "trash", "gone"}, owner : Users, restored : BOOLEAN]

\* A row that is not there yet, or no longer.
NoProject(why) == [state |-> why, owner |-> Creator, restored |-> FALSE]

Idle == [op |-> "idle"]

OnSeat == {"add", "reseat", "unseat", "transfer"}
OnRow == {"delete", "restore", "purge"}

Request ==
    {Idle}
      \cup [op : {"create"}, project : Projects, actor : Users]
      \cup [op : OnSeat, project : Projects, owner : Users, target : Users, seat : Seats]
      \cup [op : OnRow, project : Projects]
      \cup [op : {"remove"}, target : Users, id : 0..MaxJoins]
      \cup [op : {"change"}, target : Users, id : 0..MaxJoins, tier : Rungs]

\* A row that an update or a delete by id, or a foreign key, finds.
Stored(p) == project[p].state \in {"live", "trash"}

TypeOK ==
    /\ member \in [Users -> Member]
    /\ project \in [Projects -> Project]
    /\ seat \in [Projects -> [Users -> Seats]]
    /\ request \in [Requests -> Request]
    /\ overlapped \in BOOLEAN
    /\ excused \subseteq Projects
    /\ \A p \in Projects, u \in Users : seat[p][u] # "none" => Stored(p)

\* A change that takes no request of the model's begins and ends at once.
Overlap == overlapped' = (overlapped \/ \E o \in Requests : request[o] # Idle)

Begin(r, q) ==
    /\ request[r] = Idle
    /\ request' = [request EXCEPT ![r] = q]
    /\ Overlap
    /\ UNCHANGED <<rows, excused>>

Done(r) == request' = [request EXCEPT ![r] = Idle] /\ UNCHANGED overlapped

-----------------------------------------------------------------------------
(* Plausible slips *)

AnyTier(u) == member[u].in
NothingOwned(u) == TRUE
SeatsStay(p) == seat
OldSeatStays(q) == [seat EXCEPT ![q.project][q.target] = "OWNER"]

-----------------------------------------------------------------------------
(* Members *)

\* An accepted invitation, on the tier it offered.
Join(u, tier) ==
    /\ ~member[u].in /\ member[u].id < MaxJoins
    /\ member' = [member EXCEPT ![u] = [in |-> TRUE, id |-> @.id + 1, tier |-> tier]]
    /\ Overlap
    /\ UNCHANGED <<project, seat, request, excused>>

\* Who may be asking; nobody removes or changes himself.
Members == {a \in Users : member[a].in}

\* findMemberOrThrow, then assertNotOwner on the row it read.
Touchable(u) == member[u].in /\ member[u].tier # "OWNER"

\* findOwnedProjects: the trash is not searched.
OwnsNothing(u) == \A p \in Projects : project[p].state = "live" => project[p].owner # u

RemoveBegin(r, u) ==
    /\ Members \ {u} # {}
    /\ Touchable(u) /\ OwnsNothing(u)
    /\ Begin(r, [op |-> "remove", target |-> u, id |-> member[u].id])

\* No membership, but the ids of the earlier ones are used up.
Left(id) == [in |-> FALSE, id |-> id, tier |-> "MEMBER"]

SeatsWithout(u) == [p \in Projects |-> [seat[p] EXCEPT ![u] = "none"]]

\* The membership a request read is still there.
Current(q) == member[q.target].in /\ member[q.target].id = q.id

\* Both deletes in one transaction, which fails without the membership.
Remove(r) ==
    LET q == request[r]
        u == q.target
    IN
    /\ q.op = "remove"
    /\ IF Current(q)
       THEN /\ member' = [member EXCEPT ![u] = Left(@.id)]
            /\ seat' = SeatsWithout(u)
            /\ excused' = excused \cup {p \in Projects : Stored(p) /\ project[p].owner = u}
       ELSE UNCHANGED <<member, seat, excused>>
    /\ Done(r)
    /\ UNCHANGED project

\* changeRole names a tier, or a role that brings its rung along.
ChangeBegin(r, u, tier) ==
    /\ Members \ {u} # {}
    /\ Touchable(u)
    /\ Begin(r, [op |-> "change", target |-> u, id |-> member[u].id, tier |-> tier])

Change(r) ==
    LET q == request[r] IN
    /\ q.op = "change"
    /\ member' = IF Current(q) THEN [member EXCEPT ![q.target].tier = q.tier] ELSE member
    /\ Done(r)
    /\ UNCHANGED <<project, seat, excused>>

-----------------------------------------------------------------------------
(* Projects *)

CreateBegin(r, a, p) ==
    /\ member[a].in
    /\ project[p].state = "none"
    /\ Begin(r, [op |-> "create", project |-> p, actor |-> a])

\* insertProject: the row and its owner's seat.
Create(r) ==
    LET q == request[r]
        p == q.project
    IN
    /\ q.op = "create"
    /\ IF project[p].state = "none"
       THEN /\ project' = [project EXCEPT ![p] =
                 [state |-> "live", owner |-> q.actor, restored |-> FALSE]]
            /\ seat' = [seat EXCEPT ![p][q.actor] = "OWNER"]
       ELSE UNCHANGED <<project, seat>>
    /\ Done(r)
    /\ UNCHANGED <<member, excused>>

\* resolveProjectAccess reads the membership without its role, so the tier
\* alone opens other people's projects.
Escalated(u) == member[u].tier \in {"OWNER", "ADMIN"}

Owns(u, p) == project[p].owner = u

\* Whom requireProjectOwner and requireProjectWrite let through.
ProjectOwners(p) == {a \in Members : Escalated(a) \/ Owns(a, p)}
ProjectWriters(p) == ProjectOwners(p) \cup {a \in Members : seat[p][a] = "MANAGER"}

\* What the service asks of the target: findWorkspaceMembership for whom it
\* brings in, rejectIfOwner for whom it moves or takes out, and no transfer to
\* the owner.  findProjectMember comes after that: the write asks the same.
Fit(op, p, u) ==
    /\ op \in {"add", "transfer"} => member[u].in
    /\ op # "add" => ~Owns(u, p)

\* The seat a request asks for.
Wanted(op) ==
    CASE op \in {"add", "reseat"} -> Given
      [] op = "unseat" -> {"none"}
      [] op = "transfer" -> {"OWNER"}

SeatBegin(r, op, p, u) ==
    /\ project[p].state = "live"
    /\ (IF op = "transfer" THEN ProjectOwners(p) ELSE ProjectWriters(p)) # {}
    /\ Fit(op, p, u)
    /\ \E s \in Wanted(op) :
         Begin(r, [op |-> op, project |-> p, owner |-> project[p].owner, target |-> u, seat |-> s])

\* The owner a handler loaded is not the owner any more.
Marked(q) == IF Owns(q.owner, q.project) THEN excused ELSE excused \cup {q.project}

\* addProjectMember, updateProjectMemberRole and removeProjectMember: by the
\* pair of ids, which is unique, in a table that is as the call expects.
SeatWrite(r) ==
    LET q == request[r] IN
    /\ q.op \in OnSeat \ {"transfer"}
    /\ IF Stored(q.project) /\ (q.op = "add" <=> seat[q.project][q.target] = "none")
       THEN /\ seat' = [seat EXCEPT ![q.project][q.target] = q.seat]
            /\ excused' = Marked(q)
       ELSE UNCHANGED <<seat, excused>>
    /\ Done(r)
    /\ UNCHANGED <<member, project>>

\* The two upserts of a transfer, from the owner as loaded.
Handed(q) ==
    [seat EXCEPT ![q.project] = [@ EXCEPT ![q.target] = "OWNER", ![q.owner] = "MANAGER"]]

Transfer(r) ==
    LET q == request[r] IN
    /\ q.op = "transfer"
    /\ IF Stored(q.project)
       THEN /\ project' = [project EXCEPT ![q.project].owner = q.target]
            /\ seat' = Handed(q)
            /\ excused' = Marked(q)
       ELSE UNCHANGED <<project, seat, excused>>
    /\ Done(r)
    /\ UNCHANGED member

DeleteBegin(r, p) ==
    /\ project[p].state = "live"
    /\ ProjectOwners(p) # {}
    /\ Begin(r, [op |-> "delete", project |-> p])

SoftDelete(r) ==
    LET q == request[r] IN
    /\ q.op = "delete"
    /\ project' = IF Stored(q.project) THEN [project EXCEPT ![q.project].state = "trash"]
                                       ELSE project
    /\ Done(r)
    /\ UNCHANGED <<member, seat, excused>>

-----------------------------------------------------------------------------
(* The trash of projects *)

\* findDeletedProject, and canManageProject on a membership read with its role.
TrashBegin(r, op, p) ==
    /\ project[p].state = "trash" /\ Members # {}
    /\ Begin(r, [op |-> op, project |-> p])

Restore(r) ==
    LET q == request[r] IN
    /\ q.op = "restore"
    /\ project' = IF Stored(q.project)
                  THEN [project EXCEPT ![q.project].state = "live", ![q.project].restored = TRUE]
                  ELSE project
    /\ Done(r)
    /\ UNCHANGED <<member, seat, excused>>

\* A real delete, on which the seats cascade.
Emptied(p) == [seat EXCEPT ![p] = [u \in Users |-> "none"]]

Purge(r) ==
    LET p == request[r].project IN
    /\ request[r].op = "purge"
    /\ project' = [project EXCEPT ![p] = NoProject("gone")]
    /\ seat' = Emptied(p)
    /\ Done(r)
    /\ UNCHANGED <<member, excused>>

\* The write fails, or the process dies before it.
Abort(r) ==
    /\ request[r] # Idle
    /\ Done(r)
    /\ UNCHANGED <<rows, excused>>

-----------------------------------------------------------------------------
\* createWorkspaceWithOwner
Init ==
    /\ member = [u \in Users |->
         IF u = Creator THEN [in |-> TRUE, id |-> 1, tier |-> "OWNER"] ELSE Left(0)]
    /\ project = [p \in Projects |-> NoProject("none")]
    /\ seat = [p \in Projects |-> [u \in Users |-> "none"]]
    /\ request = [r \in Requests |-> Idle]
    /\ overlapped = FALSE /\ excused = {}

Arrive(r) ==
    \/ \E u \in Users : RemoveBegin(r, u) \/ \E tier \in Rungs : ChangeBegin(r, u, tier)
    \/ \E p \in Projects :
         \/ \E a \in Users : CreateBegin(r, a, p)
         \/ \E op \in OnSeat, u \in Users : SeatBegin(r, op, p, u)
         \/ DeleteBegin(r, p)
         \/ \E op \in {"restore", "purge"} : TrashBegin(r, op, p)

Write(r) ==
    \/ Remove(r) \/ Change(r)
    \/ Create(r) \/ SeatWrite(r) \/ Transfer(r) \/ SoftDelete(r) \/ Restore(r) \/ Purge(r)
    \/ Abort(r)

Next ==
    \/ \E u \in Users, tier \in Rungs : Join(u, tier)
    \/ \E r \in Requests : Arrive(r) \/ Write(r)

Spec == Init /\ [][Next]_vars

-----------------------------------------------------------------------------
(* Properties *)

\* "A workspace with no OWNER membership is unrecoverable": whatever overlaps,
\* the creator stays in, on the tier nobody else reaches.
OneOwner ==
    \A u \in Users : member[u].in /\ member[u].tier = "OWNER" <=> u = Creator

\* "A project whose ownerId has no matching OWNER member row is an invariant
\* violation": the seats name the owner, and nobody else as one.  In every
\* interleaving the exceptions are a write that had loaded an earlier owner, and
\* an owner whom a removal took out of the workspace.
SeatsNameTheOwner ==
    \A p \in Projects : Stored(p) /\ p \notin excused =>
        \A u \in Users : seat[p][u] = "OWNER" <=> Owns(u, p)

\* "Losing a user never silently orphans projects": as long as requests do not
\* overlap, the owner of a live project and everybody seated on it are members,
\* unless the project came back from the trash.
ProjectsBelongToMembers ==
    ~overlapped =>
        \A p \in Projects : project[p].state = "live" /\ ~project[p].restored =>
            /\ member[project[p].owner].in
            /\ \A u \in Users : seat[p][u] # "none" => member[u].in

\* The same without the exception: what member.service.js says of a removal.
OwnersAreMembers ==
    ~overlapped =>
        \A p \in Projects : project[p].state = "live" => member[project[p].owner].in

=============================================================================
