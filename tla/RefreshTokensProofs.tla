------------------------ MODULE RefreshTokensProofs ------------------------
(***************************************************************************)
(* Proofs about RefreshTokens, for any number of tokens, families, users   *)
(* and concurrent requests.  The safety properties are not inductive: a    *)
(* family keeps one usable token only because an open rotation holds the   *)
(* one live row, and a revocation is final only because its snapshot holds *)
(* every live row of a family nobody rotates meanwhile.  IInv says so.     *)
(***************************************************************************)
EXTENDS RefreshTokens, FiniteSetTheorems, TLAPS

-----------------------------------------------------------------------------
(* The inductive invariant *)

\* Requests past the first read name a row that exists.
PendingIsIssued ==
    \A q \in Requests :
        request[q].pc \in {"claim", "commit", "reread", "replay", "alarm"} =>
            request[q].token \in Tokens /\ Issued(request[q].token)

\* Requests on the revoked path hold a revoked row, a replay one with a
\* successor, an alarm one that justifies it.
RevokedPath ==
    \A q \in Requests : LET t == request[q].token IN
        /\ request[q].pc \in {"reread", "replay", "alarm"} =>
               row[t].revokedAt # NotRevoked
        /\ request[q].pc = "replay" => row[t].replacedBy # NoToken
        /\ request[q].pc = "alarm" =>
               \/ row[t].replacedBy = NoToken
               \/ ~Live(row[t].replacedBy)
               \/ now > row[t].revokedAt + Grace

\* An open rotation holds a live row, alone.
RotationOwnsItsRow ==
    /\ \A q \in Requests : request[q].pc = "commit" => Live(request[q].token)
    /\ \A p, q \in Requests :
         /\ request[p].pc = "commit"
         /\ request[q].pc = "commit"
         /\ request[p].token = request[q].token
         => p = q

\* The moment a revocation or a claim will write is a moment of the clock.
WritesATime ==
    \A q \in Requests : request[q].pc \in {"commit", "sweep"} => request[q].at # NotRevoked

\* A token that was never issued was never revoked.
UnissuedIsBlank == \A t \in Tokens : ~Issued(t) => row[t].revokedAt = NotRevoked

\* A family has one live row.
OneLive == \A s, t \in Tokens :
    Live(s) /\ Live(t) /\ row[s].family = row[t].family => s = t

\* A successor exists, in the family of the one revoked row that names it.
SuccessorsAreFamily ==
    \A s \in Tokens : row[s].replacedBy # NoToken =>
        /\ row[s].revokedAt # NotRevoked
        /\ Issued(row[s].replacedBy)
        /\ row[row[s].replacedBy].family = row[s].family
        /\ \A r \in Tokens : row[r].replacedBy = row[s].replacedBy => r = s

\* A revocation under way sees every live row of the families nobody rotates.
SweepSeesAll ==
    \A q \in Requests : request[q].pc = "sweep" =>
        /\ request[q].families \subseteq UsedFamilies
        /\ \A f \in request[q].families \ rotatedDuring[q] :
             LiveIn(f) \subseteq request[q].scope /\ ~Rotating(f)

\* A closed family stays empty.
ClosedIsEmpty ==
    /\ closed \subseteq UsedFamilies
    /\ \A f \in closed : LiveIn(f) = {} /\ ~Rotating(f)

IInv ==
    /\ TypeOK
    /\ PendingIsIssued
    /\ RevokedPath
    /\ RotationOwnsItsRow
    /\ WritesATime
    /\ UnissuedIsBlank
    /\ OneLive
    /\ SuccessorsAreFamily
    /\ SweepSeesAll
    /\ ClosedIsEmpty

-----------------------------------------------------------------------------
(* Steps that only move a request *)

USE SessionAssumption

\* A handler that writes nothing and opens no transaction keeps the invariant
\* if where it goes next suits the row it names.
LEMMA MoveKeepsIInv ==
    ASSUME IInv, NEW q \in Requests, NEW r \in Request,
           request' = [request EXCEPT ![q] = r],
           UNCHANGED <<tables, history>>,
           r.pc \notin {"commit", "sweep"},
           r.pc # "idle" => r.token \in Tokens /\ Issued(r.token),
           r.pc \in {"reread", "replay", "alarm"} => row[r.token].revokedAt # NotRevoked,
           r.pc = "replay" => row[r.token].replacedBy # NoToken,
           r.pc = "alarm" => \/ row[r.token].replacedBy = NoToken
                             \/ ~Live(row[r.token].replacedBy)
                             \/ now > row[r.token].revokedAt + Grace
    PROVE  IInv'
<1> USE DEF IInv
<1>0. /\ row' = row /\ now' = now /\ closed' = closed /\ ended' = ended
      /\ rotatedDuring' = rotatedDuring
  BY DEF tables, history
<1>1. TypeOK'
  BY <1>0 DEF TypeOK
<1>2. /\ request'[q] = r
      /\ \A p \in Requests \ {q} : request'[p] = request[p]
  BY DEF TypeOK
<1>3. PendingIsIssued'
  BY <1>0, <1>2 DEF PendingIsIssued, Issued
<1>4. RevokedPath'
  BY <1>0, <1>2 DEF RevokedPath, Live, Issued
<1>5. RotationOwnsItsRow'
  BY <1>0, <1>2 DEF RotationOwnsItsRow, Live, Issued
<1>6. WritesATime'
  BY <1>0, <1>2 DEF WritesATime
<1>7. OneLive' /\ UnissuedIsBlank'
  BY <1>0 DEF OneLive, UnissuedIsBlank, Live, Issued
<1>8. SuccessorsAreFamily'
  BY <1>0 DEF SuccessorsAreFamily, Issued
<1>9. \A f \in Families : Rotating(f)' => Rotating(f)
  BY <1>0, <1>2 DEF Rotating, Locked
<1>10. UsedFamilies' = UsedFamilies /\ \A f \in Families : LiveIn(f)' = LiveIn(f)
  BY <1>0 DEF UsedFamilies, LiveIn, LiveTokens, Live, Issued
<1>11. SweepSeesAll'
  BY <1>0, <1>2, <1>9, <1>10 DEF SweepSeesAll, TypeOK, Request
<1>12. ClosedIsEmpty'
  BY <1>0, <1>9, <1>10 DEF ClosedIsEmpty, TypeOK
<1> QED
  BY <1>1, <1>3, <1>4, <1>5, <1>6, <1>7, <1>8, <1>11, <1>12

\* Revoking a row, with or without naming its successor, leaves a row.
LEMMA RevokedRow ==
    ASSUME NEW r \in Row, NEW a \in Nat, NEW t \in Tokens
    PROVE  /\ [r EXCEPT !.revokedAt = a, !.replacedBy = t] \in Row
           /\ [r EXCEPT !.revokedAt = a, !.replacedBy = t].family = r.family
           /\ [r EXCEPT !.revokedAt = a, !.replacedBy = t].revokedAt = a
BY DEF Row

\* Where the revoked path sends a request: the judgement is a fact about the row.
LEMMA AfterRevokedFits ==
    ASSUME IInv, NEW t \in Tokens, Issued(t), row[t].revokedAt # NotRevoked
    PROVE  LET r == AfterRevoked(t) IN
           /\ r \in Request
           /\ r.pc \in {"replay", "alarm"}
           /\ r.token = t
           /\ r.pc = "replay" => row[t].replacedBy # NoToken
           /\ r.pc = "alarm" => \/ row[t].replacedBy = NoToken
                               \/ now > row[t].revokedAt + Grace
<1>1. now \in Nat /\ row[t].revokedAt \in Nat
  BY DEF IInv, TypeOK, Row
<1>2. \A step \in Steps : /\ Asking(step, t) \in Request
                          /\ Asking(step, t).pc = step
                          /\ Asking(step, t).token = t
  BY DEF Asking, Request
<1>3. CASE WithinGrace(row[t])
  <2>1. AfterRevoked(t) = Asking("replay", t)
    BY <1>3 DEF AfterRevoked
  <2>2. row[t].replacedBy # NoToken
    BY <1>3 DEF WithinGrace
  <2> QED
    BY <1>2, <2>1, <2>2 DEF Steps
<1>4. CASE ~WithinGrace(row[t])
  <2>1. AfterRevoked(t) = Asking("alarm", t)
    BY <1>4 DEF AfterRevoked
  <2>2. row[t].replacedBy = NoToken \/ now > row[t].revokedAt + Grace
    BY <1>1, <1>4 DEF WithinGrace
  <2> QED
    BY <1>2, <2>1, <2>2 DEF Steps
<1> QED
  BY <1>3, <1>4

LEMMA RefreshReadKeepsIInv ==
    ASSUME IInv, NEW q \in Requests, NEW t \in Tokens, RefreshRead(q, t)
    PROVE  IInv'
<1>1. CASE row[t].revokedAt # NotRevoked
  <2>1. request' = [request EXCEPT ![q] = AfterRevoked(t)]
    BY <1>1 DEF RefreshRead
  <2>2. Issued(t) /\ UNCHANGED <<tables, history>>
    BY DEF RefreshRead
  <2> QED
    BY <1>1, <2>1, <2>2, AfterRevokedFits, MoveKeepsIInv
<1>2. CASE row[t].revokedAt = NotRevoked
  <2> DEFINE r == Asking("claim", t)
  <2>1. r \in Request /\ r.pc = "claim" /\ r.token = t
    BY DEF Asking, Request, Steps
  <2>2. request' = [request EXCEPT ![q] = r] /\ Issued(t) /\ UNCHANGED <<tables, history>>
    BY <1>2 DEF RefreshRead
  <2> HIDE DEF r
  <2> QED
    BY <2>1, <2>2, MoveKeepsIInv
<1> QED
  BY <1>1, <1>2

LEMMA ClaimLostKeepsIInv ==
    ASSUME IInv, NEW q \in Requests, ClaimLost(q)
    PROVE  IInv'
<1> DEFINE r == [request[q] EXCEPT !.pc = "reread"]
<1>1. request \in [Requests -> Request] /\ request[q].pc = "claim"
  BY DEF IInv, TypeOK, ClaimLost
<1>2. r \in Request /\ r.pc = "reread" /\ r.token = request[q].token
  BY <1>1 DEF Request, Steps
<1>3. request' = [request EXCEPT ![q] = r] /\ UNCHANGED <<tables, history>>
  BY DEF ClaimLost
<1>4. r.token \in Tokens /\ Issued(r.token)
  BY <1>1, <1>2 DEF IInv, PendingIsIssued
<1>5. row[r.token].revokedAt # NotRevoked
  BY <1>2, <1>4 DEF ClaimLost, Claimable, Live
<1> HIDE DEF r
<1> QED
  BY <1>2, <1>3, <1>4, <1>5, MoveKeepsIInv

LEMMA RereadKeepsIInv ==
    ASSUME IInv, NEW q \in Requests, Reread(q)
    PROVE  IInv'
<1> DEFINE t == request[q].token
<1>1. t \in Tokens /\ Issued(t) /\ row[t].revokedAt # NotRevoked
  BY DEF IInv, PendingIsIssued, RevokedPath, Reread
<1>2. request' = [request EXCEPT ![q] = AfterRevoked(t)] /\ UNCHANGED <<tables, history>>
  BY DEF Reread
<1> HIDE DEF t
<1> QED
  BY <1>1, <1>2, AfterRevokedFits, MoveKeepsIInv

LEMMA GoesIdleKeepsIInv ==
    ASSUME IInv, NEW q \in Requests,
           request' = [request EXCEPT ![q] = Idle], UNCHANGED <<tables, history>>
    PROVE  IInv'
<1>1. Idle \in Request /\ Idle.pc = "idle"
  BY DEF Idle, Asking, Request, Steps
<1> QED
  BY <1>1, MoveKeepsIInv

LEMMA ReplayRefusedKeepsIInv ==
    ASSUME IInv, NEW q \in Requests, ReplayRefused(q)
    PROVE  IInv'
<1> DEFINE r == [request[q] EXCEPT !.pc = "alarm"]
<1>1. request \in [Requests -> Request] /\ request[q].pc = "replay"
  BY DEF IInv, TypeOK, ReplayRefused
<1>2. r \in Request /\ r.pc = "alarm" /\ r.token = request[q].token
  BY <1>1 DEF Request, Steps
<1>3. request' = [request EXCEPT ![q] = r] /\ UNCHANGED <<tables, history>>
  BY DEF ReplayRefused, RefusedStep
<1>4. r.token \in Tokens /\ Issued(r.token) /\ row[r.token].revokedAt # NotRevoked
  BY <1>1, <1>2 DEF IInv, PendingIsIssued, RevokedPath
<1>5. ~Live(row[r.token].replacedBy)
  BY <1>2 DEF ReplayRefused, Replayable
<1> HIDE DEF r
<1> QED
  BY <1>2, <1>3, <1>4, <1>5, MoveKeepsIInv

-----------------------------------------------------------------------------
(* Steps that write *)

LEMMA TickKeepsIInv ==
    ASSUME IInv, Tick
    PROVE  IInv'
<1> USE DEF IInv
<1>0. /\ row' = row /\ request' = request /\ now' = now + 1 /\ ended' = ended
      /\ closed' = closed /\ rotatedDuring' = rotatedDuring
  BY DEF Tick, history
<1>1. TypeOK'
  BY <1>0 DEF TypeOK
<1>2. RevokedPath'
  <2> SUFFICES ASSUME NEW q \in Requests, request[q].pc = "alarm",
                      now > row[request[q].token].revokedAt + Grace
               PROVE  now + 1 > row[request[q].token].revokedAt + Grace
    BY <1>0 DEF RevokedPath, Live, Issued
  <2>1. request[q].token \in Tokens
    BY DEF PendingIsIssued
  <2> QED
    BY <2>1 DEF TypeOK, Row
<1>3. PendingIsIssued' /\ RotationOwnsItsRow' /\ WritesATime'
  BY <1>0 DEF PendingIsIssued, RotationOwnsItsRow, WritesATime, Live, Issued
<1>4. OneLive' /\ UnissuedIsBlank' /\ SuccessorsAreFamily'
  BY <1>0 DEF OneLive, UnissuedIsBlank, SuccessorsAreFamily, Live, Issued
<1>5. SweepSeesAll' /\ ClosedIsEmpty'
  BY <1>0 DEF SweepSeesAll, ClosedIsEmpty, UsedFamilies, LiveIn, LiveTokens,
              Live, Issued, Rotating, Locked
<1> QED
  BY <1>1, <1>2, <1>3, <1>4, <1>5

\* A new family is in nobody's snapshot and in no closed set.
LEMMA SignInKeepsIInv ==
    ASSUME IInv, NEW t \in Tokens, NEW f \in Families, SignIn(t, f)
    PROVE  IInv'
<1> USE DEF IInv
<1>0. /\ request' = request /\ now' = now /\ ended' = ended
      /\ closed' = closed /\ rotatedDuring' = rotatedDuring
      /\ ~Issued(t) /\ f \notin UsedFamilies
      /\ row' = [row EXCEPT ![t] = NewRow(f)]
  BY DEF SignIn, history
<1>1. NewRow(f) \in Row
  BY DEF NewRow, Row, NotRevoked, TypeOK
<1>2. TypeOK'
  BY <1>0, <1>1 DEF TypeOK
<1>3. /\ row'[t].family = f /\ row'[t].revokedAt = NotRevoked
      /\ row'[t].replacedBy = NoToken
      /\ \A s \in Tokens \ {t} : row'[s] = row[s]
  BY <1>0 DEF TypeOK, NewRow
<1>4. \A s \in Tokens : row[s].family # f
  BY <1>0 DEF UsedFamilies
<1>5. f # NoFamily
  OBVIOUS
<1>6. PendingIsIssued'
  BY <1>0, <1>3 DEF PendingIsIssued, Issued
<1>7. RevokedPath'
  <2> SUFFICES ASSUME NEW q \in Requests
               PROVE  LET s == request[q].token IN
                      /\ request[q].pc \in {"reread", "replay", "alarm"} =>
                             row'[s].revokedAt # NotRevoked
                      /\ request[q].pc = "replay" => row'[s].replacedBy # NoToken
                      /\ request[q].pc = "alarm" =>
                             \/ row'[s].replacedBy = NoToken
                             \/ ~Live(row[s].replacedBy)'
                             \/ now > row'[s].revokedAt + Grace
    BY <1>0 DEF RevokedPath
  <2>1. request[q].pc \in {"reread", "replay", "alarm"} =>
           row'[request[q].token] = row[request[q].token] /\ request[q].token \in Tokens
    BY <1>0, <1>3 DEF PendingIsIssued
  <2>2. /\ request[q].pc \in {"reread", "replay", "alarm"} =>
              row'[request[q].token].revokedAt # NotRevoked
        /\ request[q].pc = "replay" => row'[request[q].token].replacedBy # NoToken
    BY <2>1 DEF RevokedPath
  <2>3. ASSUME request[q].pc = "alarm", row[request[q].token].replacedBy # NoToken,
               ~Live(row[request[q].token].replacedBy)
        PROVE  ~Live(row[request[q].token].replacedBy)'
    <3>1. Issued(row[request[q].token].replacedBy)
      BY <2>1, <2>3 DEF SuccessorsAreFamily
    <3>2. row'[row'[request[q].token].replacedBy] = row[row[request[q].token].replacedBy]
      BY <1>0, <1>3, <2>1, <2>3, <3>1 DEF TypeOK, Row
    <3> QED
      BY <1>0, <2>1, <2>3, <3>2 DEF Live, Issued
  <2>4. request[q].pc = "alarm" =>
            \/ row'[request[q].token].replacedBy = NoToken
            \/ ~Live(row[request[q].token].replacedBy)'
            \/ now > row'[request[q].token].revokedAt + Grace
    BY <1>0, <2>1, <2>3 DEF RevokedPath
  <2> QED
    BY <2>2, <2>4
<1>8. RotationOwnsItsRow'
  BY <1>0, <1>3 DEF RotationOwnsItsRow, PendingIsIssued, Live, Issued
<1>9. WritesATime'
  BY <1>0 DEF WritesATime
<1>10. OneLive' /\ UnissuedIsBlank'
  BY <1>0, <1>3, <1>4 DEF OneLive, UnissuedIsBlank, Live, Issued
<1>11. SuccessorsAreFamily'
  <2> SUFFICES ASSUME NEW s \in Tokens, row'[s].replacedBy # NoToken
               PROVE  /\ row'[s].revokedAt # NotRevoked
                      /\ Issued(row[s].replacedBy)'
                      /\ row'[row'[s].replacedBy].family = row'[s].family
                      /\ \A r \in Tokens : row'[r].replacedBy = row'[s].replacedBy => r = s
    BY DEF SuccessorsAreFamily, Issued
  <2>1. s # t /\ row'[s] = row[s]
    BY <1>3
  <2>2. row[s].replacedBy # t /\ row[s].replacedBy \in Tokens
    BY <1>0, <2>1 DEF SuccessorsAreFamily, TypeOK, Row
  <2> QED
    BY <1>3, <2>1, <2>2 DEF SuccessorsAreFamily, Issued
<1>12. /\ UsedFamilies' = UsedFamilies \cup {f}
       /\ \A g \in Families \ {f} : LiveIn(g)' = LiveIn(g)
       /\ \A g \in Families : Rotating(g)' => Rotating(g)
  <2>1. UsedFamilies' = UsedFamilies \cup {f}
    BY <1>0, <1>3 DEF UsedFamilies, Issued
  <2>2. \A g \in Families \ {f} : LiveIn(g)' = LiveIn(g)
    BY <1>0, <1>3 DEF LiveIn, LiveTokens, Live, Issued
  <2>3. \A s \in Tokens : Locked(s)' => Locked(s) /\ Issued(s)
    BY <1>0 DEF Locked, RotationOwnsItsRow, Live
  <2>4. \A g \in Families : Rotating(g)' => Rotating(g)
    BY <1>0, <1>3, <2>3 DEF Rotating
  <2> QED
    BY <2>1, <2>2, <2>4
<1>13. SweepSeesAll'
  BY <1>0, <1>12 DEF SweepSeesAll, TypeOK, Request
<1>14. ClosedIsEmpty'
  BY <1>0, <1>12 DEF ClosedIsEmpty, TypeOK
<1> QED
  BY <1>2, <1>6, <1>7, <1>8, <1>9, <1>10, <1>11, <1>13, <1>14

\* The claim takes a live, unlocked row, and marks its family as rotated in
\* every revocation under way.
LEMMA ClaimWonKeepsIInv ==
    ASSUME IInv, NEW q \in Requests, ClaimWon(q)
    PROVE  IInv'
<1> USE DEF IInv
<1> DEFINE t == request[q].token
           r == [Asking("commit", t) EXCEPT !.at = now]
<1>0. /\ row' = row /\ now' = now /\ ended' = ended /\ closed' = closed
      /\ request[q].pc = "claim" /\ ~Locked(t) /\ Live(t) /\ t \in Tokens
      /\ request' = [request EXCEPT ![q] = r]
      /\ rotatedDuring' = [p \in Requests |-> rotatedDuring[p] \cup {row[t].family}]
  BY DEF ClaimWon, tables, Claimable, PendingIsIssued
<1>1. /\ r \in Request /\ r.pc = "commit" /\ r.token = t /\ r.at = now
      /\ row[t].family \in Families
  BY <1>0 DEF Asking, Request, Steps, TypeOK, Row, Live, Issued
<1> HIDE DEF r
<1>2. TypeOK'
  BY <1>0, <1>1 DEF TypeOK
<1>3. request'[q] = r /\ \A p \in Requests \ {q} : request'[p] = request[p]
  BY <1>0 DEF TypeOK
<1>4. PendingIsIssued'
  BY <1>0, <1>1, <1>3 DEF PendingIsIssued, Issued, Live
<1>5. RevokedPath'
  BY <1>0, <1>1, <1>3 DEF RevokedPath, Live, Issued
<1>6. RotationOwnsItsRow'
  BY <1>0, <1>1, <1>3 DEF RotationOwnsItsRow, Locked, Live, Issued
<1>7. WritesATime'
  BY <1>0, <1>1, <1>3 DEF WritesATime, TypeOK, NotRevoked
<1>8. OneLive' /\ UnissuedIsBlank' /\ SuccessorsAreFamily'
  BY <1>0 DEF OneLive, UnissuedIsBlank, SuccessorsAreFamily, Live, Issued
<1>9. /\ UsedFamilies' = UsedFamilies
      /\ \A f \in Families : LiveIn(f)' = LiveIn(f)
      /\ \A f \in Families \ {row[t].family} : Rotating(f)' => Rotating(f)
  <2>1. UsedFamilies' = UsedFamilies /\ \A f \in Families : LiveIn(f)' = LiveIn(f)
    BY <1>0 DEF UsedFamilies, LiveIn, LiveTokens, Live, Issued
  <2>2. \A s \in Tokens \ {t} : Locked(s)' => Locked(s)
    BY <1>1, <1>3 DEF Locked
  <2> QED
    BY <1>0, <2>1, <2>2 DEF Rotating
<1>10. SweepSeesAll'
  <2> SUFFICES ASSUME NEW p \in Requests, request'[p].pc = "sweep"
               PROVE  /\ request'[p].families \subseteq UsedFamilies'
                      /\ \A f \in request'[p].families \ rotatedDuring'[p] :
                           LiveIn(f)' \subseteq request'[p].scope /\ ~Rotating(f)'
    BY DEF SweepSeesAll
  <2>1. p # q /\ request'[p] = request[p]
    BY <1>1, <1>3
  <2>2. rotatedDuring'[p] = rotatedDuring[p] \cup {row[t].family}
    BY <1>0
  <2> QED
    BY <1>9, <2>1, <2>2 DEF SweepSeesAll, TypeOK, Request
<1>11. ClosedIsEmpty'
  <2>1. row[t].family \notin closed
    BY <1>0, <1>1 DEF ClosedIsEmpty, LiveIn, LiveTokens
  <2> QED
    BY <1>0, <1>9, <2>1 DEF ClosedIsEmpty, TypeOK
<1> QED
  BY <1>2, <1>4, <1>5, <1>6, <1>7, <1>8, <1>10, <1>11

\* The commit moves the one live row of a family to a new token; no closed set
\* and no snapshot that counts on the family can exist, for it was rotating.
LEMMA RotateCommitKeepsIInv ==
    ASSUME IInv, NEW q \in Requests, NEW t \in Tokens, RotateCommit(q, t)
    PROVE  IInv'
<1> USE DEF IInv
<1> DEFINE s == request[q].token
<1>0. /\ now' = now /\ ended' = ended /\ closed' = closed
      /\ rotatedDuring' = rotatedDuring
      /\ request[q].pc = "commit" /\ ~Issued(t) /\ Live(s) /\ s \in Tokens
      /\ request[q].at \in Nat /\ request[q].at # NotRevoked
      /\ request' = [request EXCEPT ![q] = Idle]
      /\ s # t
  BY DEF RotateCommit, history, PendingIsIssued, RotationOwnsItsRow, WritesATime,
         TypeOK, Request, Live
<1>1. /\ row'[t] = NewRow(row[s].family)
      /\ row'[s] = [row[s] EXCEPT !.revokedAt = request[q].at, !.replacedBy = t]
      /\ \A u \in Tokens \ {s, t} : row'[u] = row[u]
      /\ row' \in [Tokens -> Row]
  <2>1. NewRow(row[s].family) \in Row
    BY <1>0 DEF NewRow, Row, NotRevoked, TypeOK
  <2>2. [row[s] EXCEPT !.revokedAt = request[q].at, !.replacedBy = t] \in Row
    BY <1>0, RevokedRow DEF TypeOK
  <2>3. row' = [row EXCEPT ![s] = [row[s] EXCEPT !.revokedAt = request[q].at,
                                                 !.replacedBy = t],
                           ![t] = NewRow(row[s].family)]
    BY <1>0 DEF RotateCommit, SuccessorFamily, TypeOK, Row
  <2> HIDE DEF s
  <2> QED
    BY <1>0, <2>1, <2>2, <2>3 DEF TypeOK
<1>2. /\ row'[t].family = row[s].family /\ row'[t].revokedAt = NotRevoked
      /\ row'[t].replacedBy = NoToken
      /\ row'[s].family = row[s].family /\ row'[s].revokedAt = request[q].at
      /\ row'[s].replacedBy = t
      /\ row[s].family \in Families
  <2>1. row[s] \in Row
    BY <1>0 DEF TypeOK
  <2> QED
    BY <1>0, <1>1, <2>1 DEF NewRow, Row, Live, Issued
<1>3. request'[q] = Idle /\ \A p \in Requests \ {q} : request'[p] = request[p]
  BY <1>0 DEF TypeOK
<1>4. Idle \in Request /\ Idle.pc = "idle"
  BY DEF Idle, Asking, Request, Steps
<1>5. TypeOK'
  BY <1>0, <1>1, <1>4 DEF TypeOK
<1>6. \A u \in Tokens : Issued(u) => Issued(u)' /\ row'[u].family = row[u].family
  BY <1>0, <1>1, <1>2 DEF Issued
<1>7. PendingIsIssued'
  BY <1>3, <1>4, <1>6 DEF PendingIsIssued
<1>8. \A u \in Tokens : row[u].revokedAt # NotRevoked /\ Issued(u) => row'[u] = row[u]
  BY <1>0, <1>1 DEF Live
<1>9. RevokedPath'
  <2> SUFFICES ASSUME NEW p \in Requests
               PROVE  /\ request'[p].pc \in {"reread", "replay", "alarm"} =>
                             row'[request'[p].token].revokedAt # NotRevoked
                      /\ request'[p].pc = "replay" =>
                             row'[request'[p].token].replacedBy # NoToken
                      /\ request'[p].pc = "alarm" =>
                             \/ row'[request'[p].token].replacedBy = NoToken
                             \/ ~Live(row[request[p].token].replacedBy)'
                             \/ now' > row'[request'[p].token].revokedAt + Grace
    BY DEF RevokedPath
  <2> DEFINE u == request[p].token
  <2>1. CASE p = q
    BY <1>3, <1>4, <2>1
  <2>2. CASE p # q
    <3>1. request'[p] = request[p]
      BY <1>3, <2>2
    <3>2. request[p].pc \in {"reread", "replay", "alarm"} => u \in Tokens /\ row'[u] = row[u]
      BY <1>8 DEF PendingIsIssued, RevokedPath
    <3>3. ASSUME request[p].pc = "alarm", row[u].replacedBy # NoToken, ~Live(row[u].replacedBy)
          PROVE  ~Live(row[u].replacedBy)'
      <4>1. /\ Issued(row[u].replacedBy)
            /\ row[u].replacedBy \in Tokens
            /\ row[row[u].replacedBy].revokedAt # NotRevoked
        BY <3>2, <3>3 DEF SuccessorsAreFamily, Live, TypeOK, Row
      <4> QED
        BY <1>8, <3>1, <3>2, <3>3, <4>1 DEF Live, Issued
    <3> QED
      BY <1>0, <3>1, <3>2, <3>3 DEF RevokedPath
  <2> QED
    BY <2>1, <2>2
<1>10. RotationOwnsItsRow'
  BY <1>0, <1>1, <1>2, <1>3, <1>4 DEF RotationOwnsItsRow, PendingIsIssued, Live, Issued
<1>11. WritesATime'
  BY <1>3, <1>4 DEF WritesATime
<1>12. \A u \in Tokens : Live(u)' <=> u = t \/ (Live(u) /\ u # s)
  BY <1>0, <1>1, <1>2 DEF Live, Issued
<1>13. OneLive' /\ UnissuedIsBlank'
  <2>1. OneLive'
    BY <1>0, <1>1, <1>2, <1>12 DEF OneLive
  <2>2. \A u \in Tokens \ {s, t} : row'[u] = row[u]
    BY <1>1
  <2>3. UnissuedIsBlank'
    BY <1>0, <1>2, <2>2 DEF UnissuedIsBlank, Issued
  <2> QED
    BY <2>1, <2>3
<1>14. SuccessorsAreFamily'
  <2> SUFFICES ASSUME NEW v \in Tokens, row'[v].replacedBy # NoToken
               PROVE  /\ row'[v].revokedAt # NotRevoked
                      /\ Issued(row[v].replacedBy)'
                      /\ row'[row'[v].replacedBy].family = row'[v].family
                      /\ \A r \in Tokens : row'[r].replacedBy = row'[v].replacedBy => r = v
    BY DEF SuccessorsAreFamily
  <2>1. \A r \in Tokens : row[r].replacedBy # t
    BY <1>0 DEF SuccessorsAreFamily
  <2>2. CASE v = s
    BY <1>0, <1>1, <1>2, <2>1, <2>2 DEF Issued
  <2>3. CASE v # s
    <3>1. v # t /\ row'[v] = row[v]
      BY <1>1, <1>2, <2>3
    <3>2. row[v].replacedBy \in Tokens /\ Issued(row[v].replacedBy)
      BY <3>1 DEF SuccessorsAreFamily, TypeOK, Row
    <3>3. /\ Issued(row[v].replacedBy)'
          /\ row'[row'[v].replacedBy].family = row'[v].family
      BY <1>6, <3>1, <3>2 DEF SuccessorsAreFamily, Issued
    <3>4. \A r \in Tokens : row'[r].replacedBy = row[v].replacedBy => r = v
      <4> SUFFICES ASSUME NEW r \in Tokens, row'[r].replacedBy = row[v].replacedBy
                   PROVE  r = v
        OBVIOUS
      <4>1. r # t /\ r # s
        BY <1>2, <2>1, <3>1, <3>2
      <4> QED
        BY <1>1, <3>1, <4>1 DEF SuccessorsAreFamily
    <3> QED
      BY <3>1, <3>3, <3>4 DEF SuccessorsAreFamily
  <2> QED
    BY <2>2, <2>3
<1>15. /\ UsedFamilies' = UsedFamilies
       /\ \A f \in Families \ {row[s].family} : LiveIn(f)' = LiveIn(f)
       /\ \A f \in Families : Rotating(f)' => Rotating(f)
       /\ Rotating(row[s].family)
  <2>0. \A u \in Tokens \ {t} : row'[u].family = row[u].family
    BY <1>1, <1>2
  <2>1. UsedFamilies' = UsedFamilies
    <3>1. ASSUME NEW f \in Families, NEW u \in Tokens, row[u].family = f
          PROVE  row'[u].family = f
      BY <1>0, <2>0, <3>1 DEF Issued
    <3>2. ASSUME NEW f \in Families, NEW u \in Tokens, row'[u].family = f
          PROVE  row[u].family = f \/ row[s].family = f
      BY <1>2, <2>0, <3>2
    <3> QED
      BY <1>0, <3>1, <3>2 DEF UsedFamilies
  <2>2. \A f \in Families \ {row[s].family} : LiveIn(f)' = LiveIn(f)
    <3>1. ASSUME NEW f \in Families \ {row[s].family}, NEW u \in Tokens
          PROVE  Live(u)' /\ row'[u].family = f <=> Live(u) /\ row[u].family = f
      <4>1. CASE u = t
        BY <1>0, <1>2, <3>1, <4>1 DEF Live
      <4>2. CASE u # t
        BY <1>12, <2>0, <3>1, <4>2
      <4> QED
        BY <4>1, <4>2
    <3> QED
      BY <3>1 DEF LiveIn, LiveTokens
  <2>3. \A u \in Tokens : Locked(u)' => Locked(u) /\ Issued(u)
    BY <1>3, <1>4 DEF Locked, RotationOwnsItsRow, Live
  <2>4. \A f \in Families : Rotating(f)' => Rotating(f)
    BY <1>6, <2>3 DEF Rotating
  <2> QED
    BY <1>0, <2>1, <2>2, <2>4 DEF Rotating, Locked
<1>16. SweepSeesAll'
  BY <1>0, <1>3, <1>4, <1>15 DEF SweepSeesAll, TypeOK, Request
<1>17. ClosedIsEmpty'
  BY <1>0, <1>15 DEF ClosedIsEmpty, TypeOK
<1> QED
  BY <1>5, <1>7, <1>9, <1>10, <1>11, <1>13, <1>14, <1>16, <1>17

\* A revocation starts with a snapshot that misses only what is being rotated.
LEMMA BeginSweepKeepsIInv ==
    ASSUME IInv, NEW q \in Requests, NEW F \in SUBSET Families, F \subseteq UsedFamilies,
           BeginSweep(q, F)
    PROVE  IInv'
<1> USE DEF IInv
<1> DEFINE S == UNION {LiveIn(f) : f \in F}
           r == [pc |-> "sweep", token |-> NoToken, at |-> now, families |-> F, scope |-> S]
<1>0. /\ row' = row /\ now' = now /\ ended' = ended /\ closed' = closed
      /\ request' = [request EXCEPT ![q] = r]
      /\ rotatedDuring' = [rotatedDuring EXCEPT ![q] = {f \in F : Rotating(f)}]
  BY DEF BeginSweep, tables
<1>1. S \subseteq Tokens /\ \A f \in F : LiveIn(f) \subseteq S
  BY DEF LiveIn, LiveTokens
<1> HIDE DEF S
<1>2. /\ r \in Request /\ r.pc = "sweep" /\ r.at # NotRevoked
      /\ r.families = F /\ r.scope = S
  BY <1>1 DEF Request, Steps, TypeOK, NotRevoked
<1> HIDE DEF r
<1>3. request'[q] = r /\ \A p \in Requests \ {q} : request'[p] = request[p]
  BY <1>0 DEF TypeOK
<1>4. TypeOK'
  BY <1>0, <1>2 DEF TypeOK
<1>5. PendingIsIssued' /\ RevokedPath' /\ WritesATime'
  BY <1>0, <1>2, <1>3 DEF PendingIsIssued, RevokedPath, WritesATime, Live, Issued
<1>6. RotationOwnsItsRow'
  BY <1>0, <1>2, <1>3 DEF RotationOwnsItsRow, Live, Issued
<1>7. OneLive' /\ UnissuedIsBlank' /\ SuccessorsAreFamily'
  BY <1>0 DEF OneLive, UnissuedIsBlank, SuccessorsAreFamily, Live, Issued
<1>8. /\ UsedFamilies' = UsedFamilies
      /\ \A f \in Families : LiveIn(f)' = LiveIn(f)
      /\ \A f \in Families : Rotating(f)' => Rotating(f)
  BY <1>0, <1>2, <1>3 DEF UsedFamilies, LiveIn, LiveTokens, Live, Issued, Rotating, Locked
<1>9. SweepSeesAll'
  <2> SUFFICES ASSUME NEW p \in Requests, request'[p].pc = "sweep"
               PROVE  /\ request'[p].families \subseteq UsedFamilies'
                      /\ \A f \in request'[p].families \ rotatedDuring'[p] :
                           LiveIn(f)' \subseteq request'[p].scope /\ ~Rotating(f)'
    BY DEF SweepSeesAll
  <2>1. CASE p = q
    BY <1>0, <1>1, <1>2, <1>3, <1>8, <2>1 DEF TypeOK
  <2>2. CASE p # q
    BY <1>0, <1>3, <1>8, <2>2 DEF SweepSeesAll, TypeOK, Request
  <2> QED
    BY <2>1, <2>2
<1>10. ClosedIsEmpty'
  BY <1>0, <1>8 DEF ClosedIsEmpty, TypeOK
<1> QED
  BY <1>4, <1>5, <1>6, <1>7, <1>9, <1>10

\* A revocation completes: what it swept is dead, and the families nobody
\* rotated meanwhile have nothing left.
LEMMA EndSweepKeepsIInv ==
    ASSUME IInv, NEW q \in Requests, EndSweep(q)
    PROVE  IInv'
<1> USE DEF IInv
<1> DEFINE S == Swept(request[q].scope)
<1>0. /\ request[q].pc = "sweep" /\ request[q].at \in Nat /\ request[q].at # NotRevoked
      /\ \A t \in request[q].scope : ~Locked(t)
      /\ row' = [t \in Tokens |-> IF t \in S
                    THEN [row[t] EXCEPT !.revokedAt = request[q].at] ELSE row[t]]
      /\ now' = now /\ rotatedDuring' = rotatedDuring
      /\ ended' = ended \cup request[q].families
      /\ closed' = closed \cup (request[q].families \ rotatedDuring[q])
      /\ request' = [request EXCEPT ![q] = Idle]
      /\ request[q].families \subseteq Families
  BY DEF EndSweep, WritesATime, TypeOK, Request
<1>1. \A t \in S : t \in Tokens /\ t \in request[q].scope /\ Live(t)
  BY DEF Swept, TypeOK, Request
<1>2. \A t \in request[q].scope : Live(t) => t \in S
  BY DEF Swept
<1> HIDE DEF S
<1>3. Idle \in Request /\ Idle.pc = "idle"
  BY DEF Idle, Asking, Request, Steps
<1>4. request'[q] = Idle /\ \A p \in Requests \ {q} : request'[p] = request[p]
  BY <1>0 DEF TypeOK
<1>5. \A t \in Tokens : /\ t \in S => row'[t] = [row[t] EXCEPT !.revokedAt = request[q].at]
                        /\ t \notin S => row'[t] = row[t]
  BY <1>0
<1>6. \A t \in Tokens : /\ row'[t] \in Row
                        /\ row'[t].family = row[t].family
                        /\ row'[t].replacedBy = row[t].replacedBy
                        /\ row'[t].revokedAt =
                             IF t \in S THEN request[q].at ELSE row[t].revokedAt
  BY <1>0, <1>5 DEF TypeOK, Row
<1>7. TypeOK'
  BY <1>0, <1>3, <1>6 DEF TypeOK
<1>8. \A t \in Tokens : /\ Issued(t)' <=> Issued(t)
                        /\ Live(t)' <=> Live(t) /\ t \notin S
                        /\ row[t].revokedAt # NotRevoked => row'[t].revokedAt = row[t].revokedAt
  BY <1>0, <1>1, <1>6 DEF Issued, Live
<1>9. PendingIsIssued'
  BY <1>3, <1>4, <1>8 DEF PendingIsIssued
<1>10. RevokedPath'
  <2> SUFFICES ASSUME NEW p \in Requests
               PROVE  /\ request'[p].pc \in {"reread", "replay", "alarm"} =>
                             row'[request'[p].token].revokedAt # NotRevoked
                      /\ request'[p].pc = "replay" =>
                             row'[request'[p].token].replacedBy # NoToken
                      /\ request'[p].pc = "alarm" =>
                             \/ row'[request'[p].token].replacedBy = NoToken
                             \/ ~Live(row[request[p].token].replacedBy)'
                             \/ now' > row'[request'[p].token].revokedAt + Grace
    BY DEF RevokedPath
  <2> DEFINE u == request[p].token
  <2>1. CASE p = q
    BY <1>3, <1>4, <2>1
  <2>2. CASE p # q
    <3>1. request'[p] = request[p]
      BY <1>4, <2>2
    <3>2. request[p].pc \in {"reread", "replay", "alarm"} =>
             /\ u \in Tokens
             /\ row[u].revokedAt # NotRevoked
             /\ row'[u].revokedAt = row[u].revokedAt
             /\ row'[u].replacedBy = row[u].replacedBy
      BY <1>6, <1>8 DEF PendingIsIssued, RevokedPath
    <3>3. ASSUME request[p].pc = "alarm", row[u].replacedBy # NoToken, ~Live(row[u].replacedBy)
          PROVE  ~Live(row[u].replacedBy)'
      <4>1. row[u].replacedBy \in Tokens
        BY <3>2, <3>3 DEF TypeOK, Row
      <4>2. row'[request'[p].token].replacedBy = row[u].replacedBy
        BY <3>1, <3>2, <3>3
      <4> QED
        BY <1>8, <3>3, <4>1, <4>2
    <3> QED
      BY <1>0, <3>1, <3>2, <3>3 DEF RevokedPath
  <2> QED
    BY <2>1, <2>2
<1>11. RotationOwnsItsRow'
  <2>1. \A t \in S : ~Locked(t)
    BY <1>0, <1>1
  <2> QED
    BY <1>3, <1>4, <1>8, <2>1 DEF RotationOwnsItsRow, PendingIsIssued, Locked
<1>12. WritesATime'
  BY <1>3, <1>4 DEF WritesATime
<1>13. OneLive' /\ UnissuedIsBlank'
  BY <1>1, <1>6, <1>8 DEF OneLive, UnissuedIsBlank, Live
<1>14. SuccessorsAreFamily'
  <2> SUFFICES ASSUME NEW v \in Tokens, row'[v].replacedBy # NoToken
               PROVE  /\ row'[v].revokedAt # NotRevoked
                      /\ Issued(row[v].replacedBy)'
                      /\ row'[row'[v].replacedBy].family = row'[v].family
                      /\ \A r \in Tokens : row'[r].replacedBy = row'[v].replacedBy => r = v
    BY DEF SuccessorsAreFamily
  <2>1. row'[v].replacedBy = row[v].replacedBy /\ row[v].replacedBy \in Tokens
    BY <1>6 DEF TypeOK, Row
  <2>2. Issued(row[v].replacedBy)'
    BY <1>8, <2>1 DEF SuccessorsAreFamily, Issued
  <2> QED
    BY <1>6, <1>8, <2>1, <2>2 DEF SuccessorsAreFamily
<1>15. /\ UsedFamilies' = UsedFamilies
       /\ \A f \in Families : LiveIn(f)' = LiveIn(f) \ S
       /\ \A f \in Families : Rotating(f)' => Rotating(f)
  <2>1. UsedFamilies' = UsedFamilies
    BY <1>6 DEF UsedFamilies
  <2>2. \A f \in Families : LiveIn(f)' = LiveIn(f) \ S
    BY <1>6, <1>8 DEF LiveIn, LiveTokens
  <2>3. \A f \in Families : Rotating(f)' => Rotating(f)
    BY <1>3, <1>4, <1>6 DEF Rotating, Locked
  <2> QED
    BY <2>1, <2>2, <2>3
<1>16. SweepSeesAll'
  BY <1>0, <1>3, <1>4, <1>15 DEF SweepSeesAll, TypeOK, Request
<1>17. ClosedIsEmpty'
  <2>1. \A f \in request[q].families \ rotatedDuring[q] :
           LiveIn(f) \subseteq S /\ ~Rotating(f)
    BY <1>0, <1>2 DEF SweepSeesAll, LiveIn, LiveTokens
  <2>2. request[q].families \subseteq UsedFamilies
    BY <1>0 DEF SweepSeesAll
  <2> QED
    BY <1>0, <1>15, <2>1, <2>2 DEF ClosedIsEmpty, TypeOK
<1> QED
  BY <1>7, <1>9, <1>10, <1>11, <1>12, <1>13, <1>14, <1>16, <1>17

-----------------------------------------------------------------------------
(* The invariant holds *)

LEMMA InitEstablishesIInv == Init => IInv
<1> SUFFICES ASSUME Init PROVE IInv
  OBVIOUS
<1>1. /\ \A t \in Tokens : row[t] = NoRow
      /\ \A q \in Requests : request[q] = Idle
      /\ NoRow \in Row /\ Idle \in Request /\ Idle.pc = "idle"
      /\ NoRow.family = NoFamily /\ NoRow.replacedBy = NoToken
  BY DEF Init, NoRow, Row, Idle, Asking, Request, Steps, NotRevoked
<1>2. TypeOK
  BY <1>1 DEF Init, TypeOK
<1>3. \A t \in Tokens : ~Issued(t) /\ ~Live(t)
  BY <1>1 DEF Issued, Live
<1>4. PendingIsIssued /\ RevokedPath /\ RotationOwnsItsRow /\ WritesATime
  BY <1>1 DEF PendingIsIssued, RevokedPath, RotationOwnsItsRow, WritesATime
<1>5. OneLive /\ UnissuedIsBlank /\ SuccessorsAreFamily
  BY <1>1, <1>3 DEF NoRow, OneLive, UnissuedIsBlank, SuccessorsAreFamily
<1>6. SweepSeesAll /\ ClosedIsEmpty
  BY <1>1 DEF Init, SweepSeesAll, ClosedIsEmpty
<1> QED
  BY <1>2, <1>4, <1>5, <1>6 DEF IInv

LEMMA StutterKeepsIInv ==
    ASSUME IInv, UNCHANGED vars
    PROVE  IInv'
BY DEF vars, IInv, TypeOK, PendingIsIssued, RevokedPath, RotationOwnsItsRow, WritesATime,
       OneLive, UnissuedIsBlank, SuccessorsAreFamily, SweepSeesAll, ClosedIsEmpty, UsedFamilies, LiveIn,
       LiveTokens, Live, Issued, Rotating, Locked

LEMMA NextKeepsIInv == IInv /\ [Next]_vars => IInv'
<1> SUFFICES ASSUME IInv, [Next]_vars PROVE IInv'
  OBVIOUS
<1>1. ASSUME NEW t \in Tokens, NEW f \in Families, SignIn(t, f) PROVE IInv'
  BY <1>1, SignInKeepsIInv
<1>2. ASSUME NEW q \in Requests, NEW t \in Tokens, RefreshRead(q, t) PROVE IInv'
  BY <1>2, RefreshReadKeepsIInv
<1>3. ASSUME NEW q \in Requests, NEW f \in Families, Logout(q, f) PROVE IInv'
  BY <1>3, BeginSweepKeepsIInv DEF Logout
<1>4. ASSUME NEW q \in Requests, NEW u \in Users, ResetPassword(q, u) PROVE IInv'
  <2> DEFINE F == {f \in UsedFamilies : OwnerOf[f] = u}
  <2>1. F \in SUBSET Families /\ F \subseteq UsedFamilies
    BY DEF UsedFamilies
  <2>2. BeginSweep(q, F)
    BY <1>4 DEF ResetPassword
  <2> HIDE DEF F
  <2> QED
    BY <2>1, <2>2, BeginSweepKeepsIInv
<1>5. ASSUME NEW q \in Requests, Proceed(q) PROVE IInv'
  <2>1. CASE AlarmSweep(q)
    <3> DEFINE f == row[request[q].token].family
    <3>1. f \in Families /\ {f} \subseteq UsedFamilies
      BY <2>1 DEF AlarmSweep, IInv, PendingIsIssued, TypeOK, Row, Issued, UsedFamilies
    <3>2. BeginSweep(q, {f})
      BY <2>1 DEF AlarmSweep
    <3> HIDE DEF f
    <3> QED
      BY <3>1, <3>2, BeginSweepKeepsIInv
  <2>2. CASE Replay(q)
    BY <2>2, GoesIdleKeepsIInv DEF Replay
  <2>3. CASE \E t \in Tokens : RotateCommit(q, t)
    BY <2>3, RotateCommitKeepsIInv
  <2> QED
    BY <1>5, <2>1, <2>2, <2>3, ClaimWonKeepsIInv, ClaimLostKeepsIInv, RereadKeepsIInv,
       ReplayRefusedKeepsIInv, EndSweepKeepsIInv DEF Proceed
<1>6. ASSUME NEW q \in Requests, Abort(q) PROVE IInv'
  BY <1>6, GoesIdleKeepsIInv DEF Abort
<1> QED
  BY <1>1, <1>2, <1>3, <1>4, <1>5, <1>6, TickKeepsIInv, StutterKeepsIInv DEF Next

\* The strengthened invariant holds of every reachable state.
THEOREM InductiveInvariant == Spec => []IInv
BY InitEstablishesIInv, NextKeepsIInv, PTL DEF Spec

-----------------------------------------------------------------------------
(* What follows from it *)

\* Types, and the shape of the history: only ended families are closed.
THEOREM TypeCorrect == Spec => []TypeOK
<1>1. IInv => TypeOK
  BY DEF IInv
<1> QED
  BY <1>1, InductiveInvariant, PTL

\* However many requests present the same token, refresh leaves a family at
\* most one token that still works.
THEOREM OneLiveTokenPerFamily == Spec => []OneLivePerFamily
<1>1. IInv => OneLivePerFamily
  <2> SUFFICES ASSUME IInv, NEW f \in Families PROVE Cardinality(LiveIn(f)) <= 1
    BY DEF OneLivePerFamily
  <2>1. CASE LiveIn(f) = {}
    BY <2>1, FS_EmptySet
  <2>2. CASE LiveIn(f) # {}
    <3>1. PICK t \in LiveIn(f) : TRUE
      BY <2>2
    <3>2. LiveIn(f) = {t}
      BY <3>1 DEF IInv, OneLive, LiveIn, LiveTokens
    <3>3. Cardinality({t}) = 1
      BY FS_Singleton
    <3> QED
      BY <3>2, <3>3
  <2> QED
    BY <2>1, <2>2
<1> QED
  BY <1>1, InductiveInvariant, PTL

\* A rotation extends a lineage: the successor is of the family of the one
\* revoked token it replaces.
THEOREM RotationsKeepLineage == Spec => []RotationKeepsLineage
<1>1. IInv => RotationKeepsLineage
  BY DEF IInv, SuccessorsAreFamily, RotationKeepsLineage
<1> QED
  BY <1>1, InductiveInvariant, PTL

\* The reuse alarm never threatens a caller who only lost a race.
THEOREM AlarmsAreJustified == Spec => []AlarmIsJustified
<1>1. IInv => AlarmIsJustified
  BY DEF IInv, RevokedPath, AlarmIsJustified
<1> QED
  BY <1>1, InductiveInvariant, PTL

\* A logout, reset or alarm no rotation overlapped is final.
THEOREM ClosedFamiliesStayClosed == Spec => []ClosedStaysClosed
<1>1. IInv => ClosedStaysClosed
  BY DEF IInv, ClosedIsEmpty, ClosedStaysClosed
<1> QED
  BY <1>1, InductiveInvariant, PTL

-----------------------------------------------------------------------------
(* Steps *)

\* Every step is a step that leaves the rows alone or one of the three that
\* write them.
LEMMA RowWriters ==
    ASSUME [Next]_vars
    PROVE  \/ row' = row
           \/ \E t \in Tokens, f \in Families : SignIn(t, f)
           \/ \E q \in Requests, t \in Tokens : RotateCommit(q, t)
           \/ \E q \in Requests : EndSweep(q)
BY DEF vars, Next, Proceed, tables, Tick, Abort, RefreshRead, Logout, ResetPassword,
       BeginSweep, AlarmSweep, ClaimWon, ClaimLost, Reread, Replay, ReplayRefused

\* What a rotation writes.
LEMMA RotationWrites ==
    ASSUME IInv, NEW q \in Requests, NEW t \in Tokens, RotateCommit(q, t)
    PROVE  LET s == request[q].token IN
           /\ s \in Tokens /\ Live(s) /\ s # t /\ ~Issued(t)
           /\ row'[t] = NewRow(row[s].family)
           /\ row'[s] = [row[s] EXCEPT !.revokedAt = request[q].at, !.replacedBy = t]
           /\ row'[s].family = row[s].family
           /\ row'[s].revokedAt = request[q].at /\ request[q].at # NotRevoked
           /\ row[s].family \in Families
           /\ \A u \in Tokens \ {s, t} : row'[u] = row[u]
           /\ row' \in [Tokens -> Row]
<1> DEFINE s == request[q].token
           a == request[q].at
<1>1. s \in Tokens /\ Live(s) /\ ~Issued(t) /\ a # NotRevoked /\ a \in Nat
  BY DEF IInv, PendingIsIssued, RotationOwnsItsRow, WritesATime, RotateCommit, TypeOK, Request
<1>2. s # t /\ row[s] \in Row /\ row[s].family \in Families
  BY <1>1 DEF Live, Issued, IInv, TypeOK, Row
<1>3. row' = [row EXCEPT ![s] = [row[s] EXCEPT !.revokedAt = a, !.replacedBy = t],
                         ![t] = NewRow(row[s].family)]
  BY <1>1, <1>2 DEF RotateCommit, SuccessorFamily, IInv, TypeOK, Row
<1> HIDE DEF s, a
<1>4. NewRow(row[s].family) \in Row
  BY <1>2 DEF NewRow, Row, NotRevoked, IInv, TypeOK
<1>5. /\ [row[s] EXCEPT !.revokedAt = a, !.replacedBy = t] \in Row
      /\ [row[s] EXCEPT !.revokedAt = a, !.replacedBy = t].family = row[s].family
      /\ [row[s] EXCEPT !.revokedAt = a, !.replacedBy = t].revokedAt = a
  <2> DEFINE r == row[s]
  <2>1. r \in Row
    BY <1>2
  <2> HIDE DEF r
  <2>2. /\ [r EXCEPT !.revokedAt = a, !.replacedBy = t] \in Row
        /\ [r EXCEPT !.revokedAt = a, !.replacedBy = t].family = r.family
        /\ [r EXCEPT !.revokedAt = a, !.replacedBy = t].revokedAt = a
    BY <1>1, <2>1 DEF Row
  <2> QED
    BY <2>2 DEF r
<1>6. /\ row'[t] = NewRow(row[s].family)
      /\ row'[s] = [row[s] EXCEPT !.revokedAt = a, !.replacedBy = t]
      /\ \A u \in Tokens \ {s, t} : row'[u] = row[u]
      /\ row' \in [Tokens -> Row]
  BY <1>1, <1>2, <1>3, <1>4, <1>5 DEF IInv, TypeOK
<1> QED
  BY <1>1, <1>2, <1>5, <1>6 DEF s, a

\* What a revocation writes.
LEMMA SweepWrites ==
    ASSUME IInv, NEW q \in Requests, EndSweep(q)
    PROVE  LET S == Swept(request[q].scope) IN
           /\ S \subseteq LiveTokens
           /\ \A t \in Tokens :
                /\ row'[t].family = row[t].family
                /\ row'[t].revokedAt = IF t \in S THEN request[q].at ELSE row[t].revokedAt
           /\ request[q].at # NotRevoked
<1> DEFINE S == Swept(request[q].scope)
<1>1. S \subseteq LiveTokens /\ request[q].at # NotRevoked /\ request[q].at \in Nat
  BY DEF Swept, LiveTokens, IInv, TypeOK, Request, WritesATime, EndSweep
<1>2. row' = [t \in Tokens |-> IF t \in S
                THEN [row[t] EXCEPT !.revokedAt = request[q].at] ELSE row[t]]
  BY DEF EndSweep
<1> HIDE DEF S
<1>3. \A t \in Tokens :
         /\ row'[t].family = row[t].family
         /\ row'[t].revokedAt = IF t \in S THEN request[q].at ELSE row[t].revokedAt
  BY <1>1, <1>2 DEF IInv, TypeOK, Row
<1> QED
  BY <1>1, <1>3 DEF S

\* Revocation is permanent, keeps its first timestamp, and no row ever moves
\* to another family.
THEOREM RevocationsArePermanent == Spec => RevocationIsPermanent
<1> DEFINE Kept == \A t \in Tokens :
             /\ row[t].revokedAt # NotRevoked => row'[t].revokedAt = row[t].revokedAt
             /\ Issued(t) => row'[t].family = row[t].family
<1>1. IInv /\ [Next]_vars => [Kept]_vars
  <2> SUFFICES ASSUME IInv, [Next]_vars PROVE Kept
    OBVIOUS
  <2>1. CASE row' = row
    BY <2>1
  <2>2. ASSUME NEW t \in Tokens, NEW f \in Families, SignIn(t, f) PROVE Kept
    <3>1. ~Issued(t) /\ row' = [row EXCEPT ![t] = NewRow(f)]
      BY <2>2 DEF SignIn
    <3>2. row[t].revokedAt = NotRevoked
      BY <3>1 DEF IInv, UnissuedIsBlank
    <3> QED
      BY <3>1, <3>2 DEF IInv, TypeOK
  <2>3. ASSUME NEW q \in Requests, NEW t \in Tokens, RotateCommit(q, t) PROVE Kept
    <3>1. row[t].revokedAt = NotRevoked
      BY <2>3, RotationWrites DEF IInv, UnissuedIsBlank
    <3> DEFINE s == request[q].token
    <3>2. /\ row'[s].family = row[s].family /\ row[s].revokedAt = NotRevoked
          /\ \A u \in Tokens \ {s, t} : row'[u] = row[u]
          /\ ~Issued(t)
      BY <2>3, RotationWrites DEF Live
    <3> HIDE DEF s
    <3> QED
      BY <3>1, <3>2
  <2>4. ASSUME NEW q \in Requests, EndSweep(q) PROVE Kept
    BY <2>4, SweepWrites DEF LiveTokens, Live
  <2> QED
    BY <2>1, <2>2, <2>3, <2>4, RowWriters
<1> QED
  BY <1>1, InductiveInvariant, PTL DEF Spec, RevocationIsPermanent

\* Replaying hands nothing out for a session that was closed.
THEOREM ReplaysStayOutOfClosedSessions == Spec => NoReplayIntoClosedSession
<1> DEFINE Quiet == \A q \in Requests : Replay(q) => row[request[q].token].family \notin closed
<1>1. IInv => Quiet
  <2> SUFFICES ASSUME IInv, NEW q \in Requests, Replay(q)
               PROVE  row[request[q].token].family \notin closed
    OBVIOUS
  <2> DEFINE s == request[q].token
             t == row[s].replacedBy
  <2>1. s \in Tokens /\ t # NoToken /\ Live(t)
    BY DEF IInv, PendingIsIssued, RevokedPath, Replay, Replayable
  <2>2. t \in Tokens /\ row[t].family = row[s].family
    BY <2>1 DEF IInv, TypeOK, Row, SuccessorsAreFamily
  <2>3. t \in LiveIn(row[s].family)
    BY <2>1, <2>2 DEF LiveIn, LiveTokens
  <2> QED
    BY <2>3 DEF IInv, ClosedIsEmpty
<1> QED
  BY <1>1, InductiveInvariant, PTL DEF Spec, NoReplayIntoClosedSession

-----------------------------------------------------------------------------
(* The refinement *)

\* The statement-level store implements the abstract lineage.
THEOREM StoreImplementsLineage == Spec => ImplementsLineage
<1> DEFINE lin == [t \in Tokens |-> row[t].family]
<1>1. Init => Lineage!AbsInit
  <2> SUFFICES ASSUME Init PROVE Lineage!AbsInit
    OBVIOUS
  <2>1. \A t \in Tokens : row[t].family = NoFamily
    BY DEF Init, NoRow
  <2> QED
    BY <2>1 DEF Lineage!AbsInit, LiveTokens, Live, Issued
<1>2. IInv /\ [Next]_vars => [Lineage!AbsNext]_Lineage!absVars
  <2> SUFFICES ASSUME IInv, [Next]_vars
               PROVE  Lineage!AbsNext \/ UNCHANGED Lineage!absVars
    OBVIOUS
  <2>1. CASE row' = row
    BY <2>1 DEF Lineage!absVars, LiveTokens, Live, Issued
  <2>2. ASSUME NEW t \in Tokens, NEW f \in Families, SignIn(t, f)
        PROVE  Lineage!AbsNext
    <3>1. /\ ~Issued(t) /\ row'[t].family = f /\ row'[t].revokedAt = NotRevoked
          /\ \A u \in Tokens \ {t} : row'[u] = row[u]
          /\ \A u \in Tokens : row[u].family # f
          /\ f # NoFamily
      BY <2>2 DEF SignIn, NewRow, IInv, TypeOK, UsedFamilies
    <3>2. lin' = [lin EXCEPT ![t] = f]
      <4>1. \A u \in Tokens : row'[u].family = IF u = t THEN f ELSE row[u].family
        BY <3>1
      <4> QED
        BY <4>1
    <3>3. LiveTokens' = LiveTokens \cup {t}
      BY <3>1 DEF LiveTokens, Live, Issued
    <3>4. Lineage!AbsSignIn(t, f)
      BY <3>1, <3>2, <3>3 DEF Lineage!AbsSignIn, Issued
    <3> QED
      BY <3>4 DEF Lineage!AbsNext
  <2>3. ASSUME NEW q \in Requests, NEW t \in Tokens, RotateCommit(q, t)
        PROVE  Lineage!AbsNext
    <3> DEFINE s == request[q].token
    <3>0. /\ s \in Tokens /\ Live(s) /\ s # t /\ ~Issued(t)
          /\ row'[t] = NewRow(row[s].family)
          /\ row'[s].family = row[s].family
          /\ row'[s].revokedAt # NotRevoked
          /\ row[s].family \in Families
          /\ \A u \in Tokens \ {s, t} : row'[u] = row[u]
      BY <2>3, RotationWrites
    <3> HIDE DEF s
    <3>1. /\ s \in Tokens /\ Live(s) /\ s # t /\ ~Issued(t)
          /\ row'[t].family = row[s].family /\ row'[t].revokedAt = NotRevoked
          /\ row'[s].family = row[s].family
          /\ row'[s].revokedAt # NotRevoked
          /\ row[s].family \in Families
          /\ \A u \in Tokens \ {s, t} : row'[u] = row[u]
      BY <3>0 DEF NewRow
    <3>2. lin' = [lin EXCEPT ![t] = lin[s]]
      BY <3>1
    <3>3. LiveTokens' = (LiveTokens \ {s}) \cup {t}
      BY <3>1 DEF LiveTokens, Live, Issued
    <3>4. Lineage!AbsRotate(s, t)
      BY <3>1, <3>2, <3>3 DEF Lineage!AbsRotate, LiveTokens, Issued
    <3> QED
      BY <3>1, <3>4 DEF Lineage!AbsNext
  <2>4. ASSUME NEW q \in Requests, EndSweep(q)
        PROVE  Lineage!AbsNext
    <3> DEFINE S == Swept(request[q].scope)
    <3>1. /\ S \subseteq LiveTokens /\ request[q].at # NotRevoked
          /\ \A t \in Tokens :
               /\ row'[t].family = row[t].family
               /\ row'[t].revokedAt = IF t \in S THEN request[q].at ELSE row[t].revokedAt
      BY <2>4, SweepWrites
    <3> HIDE DEF S
    <3>2. lin' = lin
      BY <3>1
    <3>3. LiveTokens' = LiveTokens \ S
      BY <3>1 DEF LiveTokens, Live, Issued
    <3>4. Lineage!AbsEnd(S) /\ S \in SUBSET Tokens
      BY <3>1, <3>2, <3>3 DEF Lineage!AbsEnd, LiveTokens
    <3> QED
      BY <3>4 DEF Lineage!AbsNext
  <2> QED
    BY <2>1, <2>2, <2>3, <2>4, RowWriters
<1> QED
  BY <1>1, <1>2, InductiveInvariant, PTL DEF Spec, ImplementsLineage, Lineage!AbsSpec

=============================================================================
