-------------------------- MODULE InvitationsProofs --------------------------
(***************************************************************************)
(* What holds of Invitations for any number of rows and of requests.       *)
(***************************************************************************)
EXTENDS Invitations, TLAPS

\* Only an account can have accepted: registering with an invitation, the one
\* join that does not judge the row again, finds it unspent because of this.
AcceptedHaveAccount == \A i \in Invitations : row[i].accepted => account

IInv == TypeOK /\ OneLiveInvitation /\ AcceptedHaveAccount

-----------------------------------------------------------------------------
\* A handler that is running names a row, whatever step it is at.
LEMMA RunningNamesARow ==
    ASSUME TypeOK, NEW r \in Requests, request[r].pc \in Steps
    PROVE  request[r].inv \in Invitations /\ request[r] # Idle
BY DEF TypeOK, Request, Steps, Idle

\* Stamping a row opens none and keeps the others as they are.
LEMMA ClosingKeepsType ==
    ASSUME row \in [Invitations -> Row], NEW i \in Invitations,
           NEW stamp \in {"accepted", "declined", "revoked"}, Close(i, stamp)
    PROVE  /\ row' \in [Invitations -> Row]
           /\ \A j \in Invitations : Live(j)' => Live(j)
           /\ \A j \in Invitations : stamp # "accepted" => row'[j].accepted = row[j].accepted
           /\ \A j \in Invitations : j # i => row'[j].accepted = row[j].accepted
<1>1. row' = [row EXCEPT ![i][stamp] = TRUE]
    BY DEF Close
<1>2. row[i] \in Row
    OBVIOUS
<1>3. \A j \in Invitations : j # i => row'[j] = row[j]
    BY <1>1
<1>4. row'[i] = [row[i] EXCEPT ![stamp] = TRUE]
    BY <1>1
<1>5. CASE stamp = "accepted"
    BY <1>1, <1>2, <1>3, <1>4, <1>5 DEF Row, Live
<1>6. CASE stamp = "declined"
    BY <1>1, <1>2, <1>3, <1>4, <1>6 DEF Row, Live
<1>7. CASE stamp = "revoked"
    BY <1>1, <1>2, <1>3, <1>4, <1>7 DEF Row, Live
<1>8. QED
    BY <1>5, <1>6, <1>7

\* Nothing new goes live: at most one live row remains.
LEMMA FewerLiveRows ==
    ASSUME OneLiveInvitation, \A j \in Invitations : Live(j)' => Live(j)
    PROVE  OneLiveInvitation'
BY DEF OneLiveInvitation

\* Links only change age.
LEMMA AgedLinks ==
    ASSUME NEW links \in SUBSET Links, NEW i \in Invitations
    PROVE  Aged(links, i) \subseteq Links
BY DEF Aged, Links

-----------------------------------------------------------------------------
LEMMA InitIInv == Init => IInv
<1> SUFFICES ASSUME Init PROVE IInv
    OBVIOUS
<1>1. \A i \in Invitations : ~row[i].made /\ ~row[i].accepted
    BY DEF Init
<1>2. row \in [Invitations -> Row] /\ account \in BOOLEAN /\ member = FALSE
    BY DEF Init, Row
<1>3. request \in [Requests -> Request] /\ jobs \subseteq Links /\ mailed \subseteq Links
    BY DEF Init, Request
<1>4. QED
    BY <1>1, <1>2, <1>3 DEF IInv, TypeOK, OneLiveInvitation, Live, AcceptedHaveAccount

\* The steps that touch no row, account or membership.
Bystanders == UNCHANGED <<row, account, member>>

LEMMA BystandersKeepRows ==
    ASSUME IInv, Bystanders,
           request' \in [Requests -> Request], jobs' \subseteq Links, mailed' \subseteq Links
    PROVE  IInv'
BY DEF IInv, Bystanders, TypeOK, OneLiveInvitation, Live, AcceptedHaveAccount

\* A slot is freed, or moves to a step with a row.
LEMMA FreedSlot ==
    ASSUME TypeOK, NEW r \in Requests, Done(r)
    PROVE  request' \in [Requests -> Request]
BY DEF TypeOK, Done, Request

LEMMA StartedSlot ==
    ASSUME TypeOK, NEW r \in Requests, NEW pc \in Steps, NEW i \in Invitations,
           request' = [request EXCEPT ![r] = At(pc, i)]
    PROVE  request' \in [Requests -> Request]
BY DEF TypeOK, At, Request

LEMMA MovedSlot ==
    ASSUME TypeOK, NEW r \in Requests, NEW pc \in Steps, request[r].pc \in Steps,
           request' = [request EXCEPT ![r].pc = pc]
    PROVE  request' \in [Requests -> Request]
<1>1. request[r] \in [pc : Steps, inv : Invitations, age : {"current", "old"}]
    BY RunningNamesARow DEF TypeOK, Request
<1>2. request'[r] \in [pc : Steps, inv : Invitations, age : {"current", "old"}]
    BY <1>1 DEF TypeOK
<1>3. QED
    BY <1>2 DEF TypeOK, Request

-----------------------------------------------------------------------------
\* IInv is inductive.
LEMMA NextIInv == IInv /\ [Next]_vars => IInv'
<1> SUFFICES ASSUME IInv, [Next]_vars PROVE IInv'
    OBVIOUS
<1> USE DEF IInv
<1>1. ASSUME NEW r \in Requests, NEW i \in Invitations, CreateBegin(r, i)
      PROVE  IInv'
    BY <1>1, StartedSlot, BystandersKeepRows DEF CreateBegin, Bystanders, TypeOK, Steps
<1>2. ASSUME NEW r \in Requests, CreateJudge(r)
      PROVE  IInv'
    <2>1. CASE \E i \in Invitations : Live(i)
        <3>1. Done(r)
            BY <1>2, <2>1 DEF CreateJudge, Done
        <3>2. QED
            BY <1>2, <3>1, FreedSlot, BystandersKeepRows DEF CreateJudge, Bystanders, TypeOK
    <2>2. CASE ~\E i \in Invitations : Live(i)
        <3>1. request' = [request EXCEPT ![r].pc = "insert"]
            BY <1>2, <2>2 DEF CreateJudge
        <3>2. request' \in [Requests -> Request]
            BY <1>2, <3>1, MovedSlot DEF CreateJudge, Steps
        <3>3. QED
            BY <1>2, <3>2, BystandersKeepRows DEF CreateJudge, Bystanders, TypeOK
    <2>3. QED
        BY <2>1, <2>2
<1>3. ASSUME NEW r \in Requests, CreateInsert(r)
      PROVE  IInv'
    <2> DEFINE i == request[r].inv
    <2>1. i \in Invitations /\ request[r].pc \in Steps
        BY <1>3, RunningNamesARow DEF CreateInsert, Steps
    <2>2. request' \in [Requests -> Request]
        BY <1>3, <2>1, MovedSlot DEF CreateInsert, Steps
    <2>3. /\ row' = [row EXCEPT ![i].made = TRUE]
          /\ \A j \in Invitations : ~Live(j)
        BY <1>3 DEF CreateInsert, Insertable
    <2>4. /\ row' \in [Invitations -> Row]
          /\ \A j \in Invitations : j # i => row'[j] = row[j]
          /\ \A j \in Invitations : row'[j].accepted = row[j].accepted
        BY <2>1, <2>3 DEF TypeOK, Row
    <2>5. \A j \in Invitations : Live(j)' => j = i
        BY <2>3, <2>4 DEF Live
    <2>6. OneLiveInvitation'
        BY <2>5 DEF OneLiveInvitation
    <2>7. QED
        BY <1>3, <2>2, <2>4, <2>6 DEF CreateInsert, TypeOK, AcceptedHaveAccount
<1>4. ASSUME NEW r \in Requests, CreateRefused(r) \/ AcceptRefused(r) \/ Abort(r)
      PROVE  IInv'
    BY <1>4, FreedSlot, BystandersKeepRows DEF CreateRefused, AcceptRefused, Abort, Bystanders, TypeOK
<1>5. ASSUME NEW r \in Requests, Enqueue(r)
      PROVE  IInv'
    <2>1. request[r].inv \in Invitations /\ request[r].age \in {"current", "old"}
        BY <1>5 DEF Enqueue, TypeOK, Request, Idle
    <2>2. jobs' \subseteq Links
        BY <1>5, <2>1 DEF Enqueue, TypeOK, Links
    <2>3. QED
        BY <1>5, <2>2, FreedSlot, BystandersKeepRows DEF Enqueue, Bystanders, TypeOK
<1>6. ASSUME NEW r \in Requests, NEW i \in Invitations,
             AdminBegin(r, i, "revoke") \/ AdminBegin(r, i, "resend")
      PROVE  IInv'
    BY <1>6, StartedSlot, BystandersKeepRows DEF AdminBegin, Bystanders, TypeOK, Steps
<1>7. ASSUME NEW r \in Requests, Revoke(r)
      PROVE  IInv'
    BY <1>7, RunningNamesARow, ClosingKeepsType, FewerLiveRows, FreedSlot
       DEF Revoke, TypeOK, Steps, AcceptedHaveAccount
<1>8. ASSUME NEW r \in Requests, Resend(r)
      PROVE  IInv'
    <2> DEFINE i == request[r].inv
    <2>1. i \in Invitations
        BY <1>8, RunningNamesARow DEF Resend, Steps
    <2>2. row' = [row EXCEPT ![i].expired = FALSE]
        BY <1>8 DEF Resend
    <2>3. /\ row' \in [Invitations -> Row]
          /\ \A j \in Invitations : /\ row'[j].accepted = row[j].accepted
                                    /\ Live(j)' => Live(j)
        BY <2>1, <2>2 DEF TypeOK, Row, Live
    <2>4. request' \in [Requests -> Request]
        <3>1. At("enqueue", i) \in Request
            BY <2>1 DEF At, Request, Steps
        <3>2. \A s \in Requests : request[s] # Idle => [request[s] EXCEPT !.age = "old"] \in Request
            <4> TAKE s \in Requests
            <4> HAVE request[s] # Idle
            <4>1. request[s] \in [pc : Steps, inv : Invitations, age : {"current", "old"}]
                BY DEF TypeOK, Request
            <4>2. QED
                BY <4>1 DEF Request
        <3>3. QED
            BY <1>8, <3>1, <3>2 DEF Resend, TypeOK
    <2>5. jobs' \subseteq Links /\ mailed' \subseteq Links
        BY <1>8, <2>1, AgedLinks DEF Resend, TypeOK
    <2>6. QED
        BY <1>8, <2>3, <2>4, <2>5, FewerLiveRows DEF Resend, TypeOK, AcceptedHaveAccount
<1>9. ASSUME NEW r \in Requests, NEW i \in Invitations,
             AcceptBegin(r, i) \/ DeclineBegin(r, i) \/ RegisterBegin(r, i)
      PROVE  IInv'
    BY <1>9, StartedSlot, BystandersKeepRows
       DEF AcceptBegin, DeclineBegin, RegisterBegin, Bystanders, TypeOK, Steps
<1>10. ASSUME NEW r \in Requests, Accept(r) \/ Register(r)
       PROVE  IInv'
    <2> DEFINE i == request[r].inv
    <2>1. i \in Invitations
        BY <1>10, RunningNamesARow DEF Accept, Register, Steps
    <2>2. Close(i, "accepted") /\ Done(r) /\ member' = TRUE /\ account' = TRUE /\ UNCHANGED <<jobs, mailed>>
        BY <1>10 DEF Accept, Register, Join
    <2>3. /\ row' \in [Invitations -> Row]
          /\ OneLiveInvitation'
        BY <2>1, <2>2, ClosingKeepsType, FewerLiveRows DEF TypeOK
    <2>4. QED
        BY <2>2, <2>3, FreedSlot DEF TypeOK, AcceptedHaveAccount
<1>11. ASSUME NEW r \in Requests, Decline(r)
       PROVE  IInv'
    BY <1>11, RunningNamesARow, ClosingKeepsType, FewerLiveRows, FreedSlot
       DEF Decline, TypeOK, Steps, AcceptedHaveAccount
<1>12. ASSUME NEW l \in Links, Send(l) \/ Skip(l)
       PROVE  IInv'
    BY <1>12, BystandersKeepRows DEF Send, Skip, Bystanders, TypeOK
<1>13. ASSUME NEW i \in Invitations, Expire(i)
       PROVE  IInv'
    <2>1. row' = [row EXCEPT ![i].expired = TRUE]
        BY <1>13 DEF Expire
    <2>2. /\ row' \in [Invitations -> Row]
          /\ \A j \in Invitations : /\ row'[j].accepted = row[j].accepted
                                    /\ Live(j)' => Live(j)
        BY <2>1 DEF TypeOK, Row, Live
    <2>3. QED
        BY <1>13, <2>2, FewerLiveRows DEF Expire, TypeOK, AcceptedHaveAccount
<1>14. CASE SignUp \/ RemoveMember
    BY <1>14 DEF SignUp, RemoveMember, TypeOK, OneLiveInvitation, Live, AcceptedHaveAccount
<1>15. CASE UNCHANGED vars
    BY <1>15 DEF vars, TypeOK, OneLiveInvitation, Live, AcceptedHaveAccount
<1>16. QED
    BY <1>1, <1>2, <1>3, <1>4, <1>5, <1>6, <1>7, <1>8, <1>9, <1>10, <1>11, <1>12,
       <1>13, <1>14, <1>15 DEF Next

-----------------------------------------------------------------------------
\* Types, and that an accepted invitation has an account, hold always.
THEOREM InductiveInvariant == Spec => []IInv
BY InitIInv, NextIInv, PTL DEF Spec

\* Every row, request and link stays of its kind, and members have accounts.
THEOREM TypeCorrect == Spec => []TypeOK
BY InductiveInvariant, PTL DEF IInv

\* createInvitation, however many administrators race: one live row.
THEOREM AtMostOneLiveInvitation == Spec => []OneLiveInvitation
BY InductiveInvariant, PTL DEF IInv

\* Only an acceptance or a registration creates a membership.
LEMMA StepSpendsInvitation ==
    ASSUME IInv, [Next]_vars, ~member, member'
    PROVE  \E i \in Invitations : /\ ~row[i].accepted /\ row'[i].accepted
                                  /\ account => Pending(i)
<1>1. PICK r \in Requests : Accept(r) \/ Register(r)
    BY DEF IInv, TypeOK, Next, vars, CreateBegin, CreateJudge, CreateInsert, CreateRefused,
           Enqueue, AdminBegin, Revoke, Resend, AcceptBegin, AcceptRefused, DeclineBegin,
           Decline, RegisterBegin, Abort, Send, Skip, Expire, SignUp, RemoveMember
<1> DEFINE i == request[r].inv
<1>2. i \in Invitations
    BY <1>1, RunningNamesARow DEF IInv, Accept, Register, Steps
<1>3. row' = [row EXCEPT ![i]["accepted"] = TRUE]
    BY <1>1 DEF Accept, Register, Close
<1>4. row[i] \in Row
    BY <1>2 DEF IInv, TypeOK
<1>5. row'[i].accepted
    BY <1>2, <1>3, <1>4 DEF IInv, TypeOK, Row
<1>6. CASE Accept(r)
    BY <1>2, <1>5, <1>6 DEF Accept, Acceptable, Pending, Live
<1>7. CASE Register(r)
    BY <1>2, <1>5, <1>7 DEF Register, IInv, AcceptedHaveAccount
<1>8. QED
    BY <1>1, <1>6, <1>7

\* acceptInvitation and register: no membership without an unspent invitation,
\* one still pending when the account already existed.
THEOREM JoinsSpendInvitations == Spec => JoinSpendsInvitation
<1>1. IInv /\ [Next]_vars =>
        [~member /\ member' =>
           \E i \in Invitations : /\ ~row[i].accepted /\ row'[i].accepted
                                  /\ account => Pending(i)]_vars
    BY StepSpendsInvitation
<1>2. QED
    BY <1>1, InductiveInvariant, PTL DEF Spec, JoinSpendsInvitation

-----------------------------------------------------------------------------
(* Outcomes *)

\* A step that leaves the outcome of a settled row, and lets no handler judge
\* it open, leaves it settled.
LEMMA StaysSettled ==
    ASSUME IInv, NEW i \in Invitations, Settled(i),
           row'[i].accepted = row[i].accepted,
           row'[i].declined = row[i].declined,
           row'[i].revoked = row[i].revoked,
           \A r \in Requests : request'[r].pc \in Unlocked =>
               \/ request[r].pc \in Unlocked /\ request'[r].inv = request[r].inv
               \/ request'[r].inv # i
    PROVE  Settled(i)' /\ Outcome(i)' = Outcome(i)
BY DEF Settled, Outcome

LEMMA StepKeepsOutcome ==
    ASSUME IInv, [Next]_vars, NEW i \in Invitations, Settled(i)
    PROVE  Settled(i)' /\ Outcome(i)' = Outcome(i)
<1> USE DEF IInv
<1>1. ~Live(i)
  BY DEF Settled, Live
<1>2. row[i] \in Row
  BY DEF TypeOK
<1>3. ASSUME NEW r \in Requests, NEW j \in Invitations,
             \/ CreateBegin(r, j) \/ AdminBegin(r, j, "revoke") \/ AdminBegin(r, j, "resend")
             \/ AcceptBegin(r, j) \/ DeclineBegin(r, j) \/ RegisterBegin(r, j)
      PROVE  Settled(i)' /\ Outcome(i)' = Outcome(i)
  <2>1. UNCHANGED row
    BY <1>3 DEF CreateBegin, AdminBegin, AcceptBegin, DeclineBegin, RegisterBegin
  <2>2. PICK pc \in {"findLive", "accept", "resend"} \cup Unlocked :
            request' = [request EXCEPT ![r] = At(pc, j)] /\ (pc \in Unlocked => Live(j))
    BY <1>3 DEF CreateBegin, AdminBegin, AcceptBegin, DeclineBegin, RegisterBegin, Pending, Unlocked
  <2>3. request'[r].pc = pc /\ request'[r].inv = j
    BY <2>2 DEF TypeOK, At
  <2>4. \A s \in Requests : s # r => request'[s] = request[s]
    BY <2>2 DEF TypeOK
  <2> QED
    BY <1>1, <2>1, <2>2, <2>3, <2>4, StaysSettled
<1>4. ASSUME NEW r \in Requests,
             CreateJudge(r) \/ CreateRefused(r) \/ Enqueue(r) \/ AcceptRefused(r) \/ Abort(r)
      PROVE  Settled(i)' /\ Outcome(i)' = Outcome(i)
  <2>1. UNCHANGED row
    BY <1>4 DEF CreateJudge, CreateRefused, Enqueue, AcceptRefused, Abort
  <2>2. request'[r].pc \notin Unlocked
    BY <1>4 DEF CreateJudge, CreateRefused, Enqueue, AcceptRefused, Abort, Done, TypeOK,
                Request, Idle, Unlocked
  <2>3. \A s \in Requests : s # r => request'[s] = request[s]
    BY <1>4 DEF CreateJudge, CreateRefused, Enqueue, AcceptRefused, Abort, Done, TypeOK
  <2> QED
    BY <2>1, <2>2, <2>3, StaysSettled
<1>5. ASSUME NEW r \in Requests, CreateInsert(r) \/ Resend(r)
      PROVE  Settled(i)' /\ Outcome(i)' = Outcome(i)
  <2> DEFINE j == request[r].inv
  <2>1. j \in Invitations /\ request[r] # Idle /\ request[r] \in Request
    BY <1>5, RunningNamesARow DEF TypeOK, CreateInsert, Resend, Steps
  <2>2. /\ row'[i].accepted = row[i].accepted
        /\ row'[i].declined = row[i].declined
        /\ row'[i].revoked = row[i].revoked
    BY <1>2, <1>5, <2>1 DEF CreateInsert, Resend, TypeOK, Row
  <2>3. request'[r].pc \notin Unlocked
    BY <1>5, <2>1 DEF CreateInsert, Resend, At, TypeOK, Request, Idle, Unlocked
  <2>4. ASSUME NEW s \in Requests, s # r, request'[s].pc \in Unlocked
        PROVE  request[s].pc \in Unlocked /\ request'[s].inv = request[s].inv
    <3>1. request[s] \in Request
      BY DEF TypeOK
    <3>2. request'[s] = request[s] \/ request'[s] = [request[s] EXCEPT !.age = "old"]
      BY <1>5, <2>4 DEF CreateInsert, Resend, TypeOK
    <3> QED
      BY <2>4, <3>1, <3>2 DEF Request, Idle
  <2> QED
    BY <2>2, <2>3, <2>4, StaysSettled
<1>6. ASSUME NEW r \in Requests, Revoke(r) \/ Accept(r) \/ Decline(r) \/ Register(r)
      PROVE  Settled(i)' /\ Outcome(i)' = Outcome(i)
  <2> DEFINE j == request[r].inv
  <2>1. j # i
    BY <1>1, <1>6
       DEF Revoke, Accept, Decline, Register, Settled, Unlocked, Acceptable, Pending
  <2>2. \E stamp \in {"accepted", "declined", "revoked"} : Close(j, stamp)
    BY <1>6 DEF Revoke, Accept, Decline, Register
  <2>3. row'[i] = row[i]
    BY <2>1, <2>2 DEF Close, TypeOK
  <2>4. request' = [request EXCEPT ![r] = Idle]
    BY <1>6 DEF Revoke, Accept, Decline, Register, Done
  <2>5. \A s \in Requests : request'[s] = IF s = r THEN Idle ELSE request[s]
    BY <2>4 DEF TypeOK
  <2> QED
    BY <2>3, <2>5, StaysSettled DEF Idle, Unlocked
<1>7. ASSUME UNCHANGED request,
             /\ row'[i].accepted = row[i].accepted
             /\ row'[i].declined = row[i].declined
             /\ row'[i].revoked = row[i].revoked
      PROVE  Settled(i)' /\ Outcome(i)' = Outcome(i)
  BY <1>7, StaysSettled
<1>8. CASE \E l \in Links : Send(l) \/ Skip(l)
  BY <1>7, <1>8 DEF Send, Skip
<1>9. CASE \E j \in Invitations : Expire(j)
  BY <1>2, <1>7, <1>9 DEF Expire, TypeOK, Row
<1>10. CASE SignUp \/ RemoveMember \/ UNCHANGED vars
  BY <1>7, <1>10 DEF SignUp, RemoveMember, vars
<1> QED
  BY <1>3, <1>4, <1>5, <1>6, <1>8, <1>9, <1>10 DEF Next

\* "All four are terminal", for any number of overlapping requests: a closed
\* row that no overtaken handler is about to stamp keeps its outcome for good.
THEOREM OutcomesAreFinal == Spec => OutcomesAreTerminal
<1>1. IInv /\ [Next]_vars =>
        [\A i \in Invitations :
           Settled(i) => Settled(i)' /\ Outcome(i)' = Outcome(i)]_vars
  BY StepKeepsOutcome
<1> QED
  BY <1>1, InductiveInvariant, PTL DEF Spec, OutcomesAreTerminal

=============================================================================
