---------------------------- MODULE RefreshTokens ----------------------------
(***************************************************************************)
(* Refresh-token sessions of the API: sign-in, rotation with its grace     *)
(* window, reuse detection, logout and password reset, as implemented by   *)
(* modules/auth/auth.service.js over the RefreshToken table.               *)
(*                                                                         *)
(* A request is a process of its own: every await of a handler is a point  *)
(* where other requests run, so each database statement (or transaction)   *)
(* is one action.  PostgreSQL runs at its default isolation level, READ    *)
(* COMMITTED: an UPDATE works on the rows its snapshot sees, waits for any *)
(* of them another open transaction has locked, and then looks at them     *)
(* again before touching them.  A rotation is the only transaction that    *)
(* holds a lock between two actions (claim, then insert and commit).       *)
(***************************************************************************)
EXTENDS Naturals, FiniteSets

CONSTANTS
    Tokens,     \* refresh-token rows, named by the secret that finds them
    Families,   \* familyId values; one per sign-in
    Users,      \* accounts
    Requests,   \* request slots: how many handlers can run at once
    OwnerOf,    \* OwnerOf[f] is the user whose sign-in founded family f
    NoToken,    \* SQL NULL in replacedById, and "no token presented"
    NoFamily,   \* the family of a token that has no row
    Grace,      \* REFRESH_GRACE_MS, in ticks of the model's clock
    Ttl,        \* refreshTokenTtlDays, in ticks
    MaxTime     \* bound on the clock

ASSUME SessionAssumption ==
    /\ OwnerOf \in [Families -> Users]
    /\ NoToken \notin Tokens
    /\ NoFamily \notin Families
    /\ Grace \in Nat
    /\ Ttl \in Nat \ {0}
    /\ MaxTime \in Nat \ {0}

VARIABLES
    row,            \* row[t]: the RefreshToken row of token t
    request,        \* request[q]: the handler running in slot q
    now,            \* Date.now()
    ended,          \* history: families some completed revocation covered
    closed,         \* history: those of them no rotation was racing with
    rotatedDuring   \* history: families rotated while slot q was revoking

tables == <<row, now>>
history == <<ended, closed, rotatedDuring>>
vars == <<row, request, now, ended, closed, rotatedDuring>>

-----------------------------------------------------------------------------
(* Types and null values *)

NotRevoked == 0     \* revokedAt IS NULL; the clock starts at 1

Row == [family     : Families \cup {NoFamily},
        expiresAt  : Nat,
        revokedAt  : Nat,
        replacedBy : Tokens \cup {NoToken}]

NoRow == [family |-> NoFamily, expiresAt |-> 0,
          revokedAt |-> NotRevoked, replacedBy |-> NoToken]

\* Where a handler is: about to claim a row for rotation, holding the claim
\* in an open transaction, about to re-read a row it failed to claim, about
\* to read a successor for replay, about to raise the reuse alarm, or inside
\* the revoking UPDATE.
Steps == {"idle", "claim", "commit", "reread", "replay", "alarm", "sweep"}

Request == [pc       : Steps,
            token    : Tokens \cup {NoToken},
            at       : Nat,
            families : SUBSET Families,
            scope    : SUBSET Tokens]

Asking(step, t) == [pc |-> step, token |-> t, at |-> 0,
                    families |-> {}, scope |-> {}]

Idle == Asking("idle", NoToken)

TypeOK ==
    /\ row \in [Tokens -> Row]
    /\ request \in [Requests -> Request]
    /\ now \in Nat \ {0}
    /\ ended \subseteq Families
    /\ closed \subseteq ended
    /\ rotatedDuring \in [Requests -> SUBSET Families]

-----------------------------------------------------------------------------
(* Reading the table *)

Issued(t) == row[t].family # NoFamily
Live(t) == Issued(t) /\ row[t].revokedAt = NotRevoked
LiveTokens == {t \in Tokens : Live(t)}
LiveIn(f) == {t \in LiveTokens : row[t].family = f}
UsedFamilies == {f \in Families : \E t \in Tokens : row[t].family = f}

\* t is claimed by a rotation whose transaction has not committed yet.
Locked(t) == \E q \in Requests : request[q].pc = "commit" /\ request[q].token = t

Rotating(f) == \E t \in Tokens : Locked(t) /\ row[t].family = f

\* Plausible slips of the definitions below: a claim
\* without its WHERE, a strict comparison, a successor nobody looks at, a
\* revocation that overwrites, a retry instead of an alarm, a new lineage per
\* rotation, and a row written with its columns swapped.
ClaimableUnguarded(t) == Issued(t)
GraceStrict(r) == now < r.revokedAt + Grace /\ r.replacedBy # NoToken
SuccessorUnchecked(t) == Issued(t)
SweptWithoutFilter(S) == S
RefusedRetries == "reread"
FreshFamilyFor(t) ==
    IF \E f \in Families : f \notin UsedFamilies
    THEN CHOOSE f \in Families : f \notin UsedFamilies ELSE row[t].family
RowMisfiled(f) == [family |-> f, expiresAt |-> now + Ttl,
                   revokedAt |-> NotRevoked, replacedBy |-> f]

\* claimRefreshToken's WHERE revokedAt IS NULL, re-checked after the lock.
Claimable(t) == Live(t)

\* The rows a revoking UPDATE touches: revokedAt: null keeps the moment a
\* token was first revoked.
Swept(S) == {t \in S : Live(t)}

\* refreshFromRevoked replays only inside the grace window and only a token
\* that was rotated: one revoked without a successor is a logout.
WithinGrace(r) == now <= r.revokedAt + Grace /\ r.replacedBy # NoToken

\* The replacement is handed out again only while it still works itself.
Replayable(t) == Live(t)

\* A refused replay is treated as reuse.
RefusedStep == "alarm"

\* Rotation extends a lineage, it does not start one.
SuccessorFamily(t) == row[t].family

NewRow(f) == [family |-> f, expiresAt |-> now + Ttl,
              revokedAt |-> NotRevoked, replacedBy |-> NoToken]

\* Bound of the instance: the rows left are enough for every rotation under
\* way, so that a rotation is never stuck for want of a name.
Room == Cardinality({q \in Requests : request[q].pc \in {"claim", "commit"}})
          < Cardinality({t \in Tokens : ~Issued(t)})

-----------------------------------------------------------------------------
(* Sign-in *)

\* issueSession: one insert, reached from login, both code redemptions, the
\* invited registration and OAuth.  The family id is a fresh UUID.
SignIn(t, f) ==
    /\ Room
    /\ ~Issued(t)
    /\ f \notin UsedFamilies
    /\ row' = [row EXCEPT ![t] = NewRow(f)]
    /\ UNCHANGED <<request, now, history>>

-----------------------------------------------------------------------------
(* Rotation *)

\* A revoked record goes to refreshFromRevoked, which decides between replay
\* and alarm from the record it was given and the clock at that moment.
AfterRevoked(t) == Asking(IF WithinGrace(row[t]) THEN "replay" ELSE "alarm", t)

\* refresh, up to the transaction: the row is read and judged, revoked
\* before expired.  An expired token is answered at once and changes nothing.
RefreshRead(q, t) ==
    /\ request[q] = Idle
    /\ Issued(t)
    /\ row[t].revokedAt # NotRevoked \/ (row[t].expiresAt > now /\ Room)
    /\ request' = [request EXCEPT ![q] =
                     IF row[t].revokedAt # NotRevoked THEN AfterRevoked(t)
                     ELSE Asking("claim", t)]
    /\ UNCHANGED <<tables, history>>

\* The conditional UPDATE finds the row live: it is locked, the rotation is
\* under way, and every revocation running meanwhile is racing with it.
ClaimWon(q) ==
    LET t == request[q].token IN
    /\ request[q].pc = "claim"
    /\ ~Locked(t)
    /\ Claimable(t)
    /\ request' = [request EXCEPT ![q] =
                     [Asking("commit", t) EXCEPT !.at = now]]
    /\ rotatedDuring' = [p \in Requests |-> rotatedDuring[p] \cup {row[t].family}]
    /\ UNCHANGED <<tables, ended, closed>>

\* The conditional UPDATE matches no row: another request got there first.
ClaimLost(q) ==
    LET t == request[q].token IN
    /\ request[q].pc = "claim"
    /\ ~Locked(t)
    /\ ~Claimable(t)
    /\ request' = [request EXCEPT ![q].pc = "reread"]
    /\ UNCHANGED <<tables, history>>

\* The rest of the transaction: the successor is inserted, the old row points
\* at it, and all of it becomes visible in one commit.
RotateCommit(q, t) ==
    LET s == request[q].token IN
    /\ request[q].pc = "commit"
    /\ ~Issued(t)
    /\ row' = [row EXCEPT ![s].revokedAt = request[q].at,
                          ![s].replacedBy = t,
                          ![t] = NewRow(SuccessorFamily(s))]
    /\ request' = [request EXCEPT ![q] = Idle]
    /\ UNCHANGED <<now, history>>

\* The loser of a race reads the row again and falls to the revoked path.
Reread(q) ==
    /\ request[q].pc = "reread"
    /\ request' = [request EXCEPT ![q] = AfterRevoked(request[q].token)]
    /\ UNCHANGED <<tables, history>>

\* The replacement still works: the caller gets an access token for it and no
\* new refresh token.
Replay(q) ==
    /\ request[q].pc = "replay"
    /\ Replayable(row[request[q].token].replacedBy)
    /\ request' = [request EXCEPT ![q] = Idle]
    /\ UNCHANGED <<tables, history>>

\* The replacement was spent or ended since: treated as reuse.
ReplayRefused(q) ==
    /\ request[q].pc = "replay"
    /\ ~Replayable(row[request[q].token].replacedBy)
    /\ request' = [request EXCEPT ![q].pc = RefusedStep]
    /\ UNCHANGED <<tables, history>>

-----------------------------------------------------------------------------
(* Revocation *)

\* A revoking UPDATE over the families F starts: its snapshot sees the live
\* committed rows, and rotations still open are racing with it.
BeginSweep(q, F) ==
    /\ request' = [request EXCEPT ![q] =
                     [pc |-> "sweep", token |-> NoToken, at |-> now,
                      families |-> F, scope |-> UNION {LiveIn(f) : f \in F}]]
    /\ rotatedDuring' = [rotatedDuring EXCEPT ![q] = {f \in F : Rotating(f)}]
    /\ UNCHANGED <<tables, ended, closed>>

\* Reuse detected: the whole lineage of the presented token is revoked.
AlarmSweep(q) ==
    /\ request[q].pc = "alarm"
    /\ BeginSweep(q, {row[request[q].token].family})

\* Logout names its family by the access token's fid claim, or by the row of
\* the refresh token a non-browser client presents.
Logout(q, f) ==
    /\ request[q] = Idle
    /\ f \in UsedFamilies
    /\ BeginSweep(q, {f})

\* resetPassword's transaction revokes every session the user has.
ResetPassword(q, u) ==
    /\ request[q] = Idle
    /\ BeginSweep(q, {f \in UsedFamilies : OwnerOf[f] = u})

\* The UPDATE completes once no row of its snapshot is locked any more.
EndSweep(q) ==
    LET S == Swept(request[q].scope) IN
    /\ request[q].pc = "sweep"
    /\ \A t \in request[q].scope : ~Locked(t)
    /\ row' = [t \in Tokens |-> IF t \in S
                 THEN [row[t] EXCEPT !.revokedAt = request[q].at] ELSE row[t]]
    /\ ended' = ended \cup request[q].families
    /\ closed' = closed \cup (request[q].families \ rotatedDuring[q])
    /\ request' = [request EXCEPT ![q] = Idle]
    /\ UNCHANGED <<now, rotatedDuring>>

-----------------------------------------------------------------------------
(* Environment *)

\* The connection or the process dies: an open transaction rolls back and the
\* statement in flight leaves no trace.
Abort(q) ==
    /\ request[q] # Idle
    /\ request' = [request EXCEPT ![q] = Idle]
    /\ UNCHANGED <<tables, history>>

Tick ==
    /\ now < MaxTime
    /\ now' = now + 1
    /\ UNCHANGED <<row, request, history>>

Init ==
    /\ row = [t \in Tokens |-> NoRow]
    /\ request = [q \in Requests |-> Idle]
    /\ now = 1
    /\ ended = {}
    /\ closed = {}
    /\ rotatedDuring = [q \in Requests |-> {}]

\* What a started handler does next, whoever calls.
Proceed(q) ==
    \/ ClaimWon(q) \/ ClaimLost(q)
    \/ \E t \in Tokens : RotateCommit(q, t)
    \/ Reread(q) \/ Replay(q) \/ ReplayRefused(q)
    \/ AlarmSweep(q) \/ EndSweep(q)

Next ==
    \/ \E t \in Tokens, f \in Families : SignIn(t, f)
    \/ \E q \in Requests :
         \/ \E t \in Tokens : RefreshRead(q, t)
         \/ \E f \in Families : Logout(q, f)
         \/ \E u \in Users : ResetPassword(q, u)
         \/ Proceed(q)
         \/ Abort(q)
    \/ Tick

Spec == Init /\ [][Next]_vars

\* The event loop resumes every handler whose statement has answered (weak
\* fairness), and PostgreSQL grants a row lock to its waiters in turn, so a
\* statement waiting for a row that is free again and again gets it (strong).
Fairness == \A q \in Requests : SF_vars(Proceed(q))

FairSpec == Spec /\ Fairness

-----------------------------------------------------------------------------
(* Properties *)

\* "Exactly one of them wins": however many requests present the same token,
\* a family never has two tokens the API would still rotate.
OneLivePerFamily == \A f \in Families : Cardinality(LiveIn(f)) <= 1

\* A rotation keeps the lineage: the successor exists, belongs to the same
\* family, succeeds no other token, and the token it replaced is revoked.
RotationKeepsLineage ==
    \A s \in Tokens : row[s].replacedBy # NoToken =>
        LET t == row[s].replacedBy IN
        /\ row[s].revokedAt # NotRevoked
        /\ row[t].family = row[s].family
        /\ \A r \in Tokens : row[r].replacedBy = t => r = s

\* The reuse alarm, which ends the whole session, is never about to be raised
\* against a caller who merely lost a race: the token was ended without a
\* successor, or its successor is dead too, or the grace window is over.
AlarmIsJustified ==
    \A q \in Requests : request[q].pc = "alarm" =>
        LET r == row[request[q].token] IN
        /\ r.revokedAt # NotRevoked
        /\ \/ r.replacedBy = NoToken
           \/ ~Live(r.replacedBy)
           \/ now > r.revokedAt + Grace

\* A logout, reset or alarm that no rotation of the same family overlapped is
\* final: no token of the family works again, and none is being rotated.
ClosedStaysClosed ==
    \A f \in closed : LiveIn(f) = {} /\ ~Rotating(f)

\* "Every refresh family for the user is revoked", "revocation is by family":
\* what the callers of a completed logout or reset are told.
EndedStaysEnded == \A f \in ended : LiveIn(f) = {}

\* Revocation is permanent and keeps its first timestamp, the forensic detail
\* revokeRefreshTokenFamily's filter protects; no row changes family.
RevocationIsPermanent ==
    [][\A t \in Tokens :
         /\ row[t].revokedAt # NotRevoked => row'[t].revokedAt = row[t].revokedAt
         /\ Issued(t) => row'[t].family = row[t].family]_vars

\* Replaying never resurrects a session the user deliberately ended.
NoReplayIntoClosedSession ==
    [][\A q \in Requests : Replay(q) => row[request[q].token].family \notin closed]_vars

\* Whatever rotations, revocations and aborts it waits for, a request is
\* answered: neither the row locks nor the replay and alarm paths can hold a
\* handler forever.
EveryRequestAnswered ==
    \A q \in Requests : request[q] # Idle ~> request[q] = Idle

\* The store implements the abstract lineage: see SessionLineage.
Lineage == INSTANCE SessionLineage WITH
    lineage <- [t \in Tokens |-> row[t].family],
    usable <- LiveTokens

ImplementsLineage == Lineage!AbsSpec

=============================================================================
