----------------------------- MODULE Invitations -----------------------------
(***************************************************************************)
(* Invitations of one address to one workspace: creation, resend and       *)
(* revocation by admins, acceptance and refusal by the addressee,          *)
(* registration with an invitation, and the worker that mails the links.   *)
(*                                                                         *)
(* A handler reads and judges a row in one step and writes it in another;  *)
(* only acceptance locks the row and judges it again.  A link is "current" *)
(* while the row still holds its hash, and "old" once a resend replaced it.*)
(***************************************************************************)

CONSTANTS
    Invitations,  \* rows of the table, bounding how many are ever created
    Requests      \* requests that can be in flight at once

VARIABLES
    row,      \* row[i]: the invitation row
    account,  \* the address has an account
    member,   \* that account is a member of the workspace
    request,  \* request[r]: the handler running in slot r
    jobs,     \* links queued for the worker
    mailed    \* links that reached the addressee

vars == <<row, account, member, request, jobs, mailed>>

-----------------------------------------------------------------------------
\* The timestamps matter only as "is it set" and "has it passed".
Row == [made : BOOLEAN, expired : BOOLEAN,
        accepted : BOOLEAN, declined : BOOLEAN, revoked : BOOLEAN]

Links == Invitations \X {"current", "old"}

Steps == {"findLive", "insert", "enqueue", "revoke", "resend",
          "accept", "decline", "register"}

Idle == [pc |-> "idle"]

At(pc, i) == [pc |-> pc, inv |-> i, age |-> "current"]

Request == {Idle} \cup [pc : Steps, inv : Invitations, age : {"current", "old"}]

TypeOK ==
    /\ row \in [Invitations -> Row]
    /\ account \in BOOLEAN
    /\ member \in BOOLEAN
    /\ request \in [Requests -> Request]
    /\ jobs \subseteq Links
    /\ mailed \subseteq Links
    /\ member => account

\* The condition of findLive and of the index invitations_live_email_workspace.
Live(i) == row[i].made /\ ~row[i].accepted /\ ~row[i].declined /\ ~row[i].revoked

\* A plausible slip: a status derived without looking at declined_at.
DeclineForgotten(i) == row[i].made /\ ~row[i].accepted /\ ~row[i].revoked /\ ~row[i].expired

\* statusOf answers PENDING.
Pending(i) == Live(i) /\ ~row[i].expired

Close(i, stamp) == row' = [row EXCEPT ![i][stamp] = TRUE]

Done(r) == request' = [request EXCEPT ![r] = Idle]

-----------------------------------------------------------------------------
(* Plausible slips *)

AcceptableUnchecked(i) == row[i].made
JoinAlone(i) == member' = TRUE /\ account' = FALSE

-----------------------------------------------------------------------------
(* The administrators' side *)

\* createInvitation looks for a membership, then for a live invitation.
CreateBegin(r, i) ==
    /\ request[r] = Idle
    /\ ~member
    /\ ~row[i].made
    /\ request' = [request EXCEPT ![r] = At("findLive", i)]
    /\ UNCHANGED <<row, account, member, jobs, mailed>>

CreateJudge(r) ==
    /\ request[r].pc = "findLive"
    /\ request' = [request EXCEPT ![r] =
         IF \E i \in Invitations : Live(i) THEN Idle ELSE [@ EXCEPT !.pc = "insert"]]
    /\ UNCHANGED <<row, account, member, jobs, mailed>>

\* The partial unique index admits a row only beside closed ones.
Insertable(i) == ~row[i].made /\ \A j \in Invitations : ~Live(j)

CreateInsert(r) ==
    /\ request[r].pc = "insert"
    /\ Insertable(request[r].inv)
    /\ row' = [row EXCEPT ![request[r].inv].made = TRUE]
    /\ request' = [request EXCEPT ![r].pc = "enqueue"]
    /\ UNCHANGED <<account, member, jobs, mailed>>

CreateRefused(r) ==
    /\ request[r].pc = "insert"
    /\ ~Insertable(request[r].inv)
    /\ Done(r)
    /\ UNCHANGED <<row, account, member, jobs, mailed>>

\* The raw link goes into the job, once the row is committed.
Enqueue(r) ==
    /\ request[r].pc = "enqueue"
    /\ jobs' = jobs \cup {<<request[r].inv, request[r].age>>}
    /\ Done(r)
    /\ UNCHANGED <<row, account, member, mailed>>

\* revokeInvitation and resendInvitation turn away all but pending rows.
AdminBegin(r, i, pc) ==
    /\ request[r] = Idle
    /\ Pending(i)
    /\ request' = [request EXCEPT ![r] = At(pc, i)]
    /\ UNCHANGED <<row, account, member, jobs, mailed>>

Revoke(r) ==
    /\ request[r].pc = "revoke"
    /\ Close(request[r].inv, "revoked")
    /\ Done(r)
    /\ UNCHANGED <<account, member, jobs, mailed>>

\* A resend replaces the hash: every copy of the link grows old.
Aged(links, i) == {l \in links : l[1] # i} \cup {<<i, "old">> : l \in {m \in links : m[1] = i}}

Resend(r) ==
    LET i == request[r].inv IN
    /\ request[r].pc = "resend"
    /\ row' = [row EXCEPT ![i].expired = FALSE]
    /\ jobs' = Aged(jobs, i)
    /\ mailed' = Aged(mailed, i)
    /\ request' = [s \in Requests |->
         IF s = r THEN At("enqueue", i)
         ELSE IF request[s] # Idle /\ request[s].inv = i
         THEN [request[s] EXCEPT !.age = "old"]
         ELSE request[s]]
    /\ UNCHANGED <<account, member>>

-----------------------------------------------------------------------------
(* The addressee's side *)

\* acceptInvitation finds the row by the link's hash; members are answered
\* with their membership, and the row's state is judged later, under the lock.
AcceptBegin(r, i) ==
    /\ request[r] = Idle
    /\ account /\ ~member
    /\ <<i, "current">> \in mailed
    /\ request' = [request EXCEPT ![r] = At("accept", i)]
    /\ UNCHANGED <<row, account, member, jobs, mailed>>

Acceptable(i) == Pending(i)

Join(i) == member' = TRUE /\ account' = TRUE

\* SELECT ... FOR UPDATE, the second judgement, the membership and acceptedAt.
Accept(r) ==
    LET i == request[r].inv IN
    /\ request[r].pc = "accept"
    /\ Acceptable(i) /\ ~member
    /\ Join(i)
    /\ Close(i, "accepted")
    /\ Done(r)
    /\ UNCHANGED <<jobs, mailed>>

\* Answered 410 or 404, or with the membership another request created.
AcceptRefused(r) ==
    /\ request[r].pc = "accept"
    /\ ~Acceptable(request[r].inv) \/ member
    /\ Done(r)
    /\ UNCHANGED <<row, account, member, jobs, mailed>>

DeclineBegin(r, i) ==
    /\ request[r] = Idle
    /\ account
    /\ <<i, "current">> \in mailed
    /\ Pending(i)
    /\ request' = [request EXCEPT ![r] = At("decline", i)]
    /\ UNCHANGED <<row, account, member, jobs, mailed>>

Decline(r) ==
    /\ request[r].pc = "decline"
    /\ Close(request[r].inv, "declined")
    /\ Done(r)
    /\ UNCHANGED <<account, member, jobs, mailed>>

\* register with an inviteToken: inside the transaction that inserts the user,
\* applyInviteTokenOnRegister reads the row without locking it.
RegisterBegin(r, i) ==
    /\ request[r] = Idle
    /\ ~account
    /\ <<i, "current">> \in mailed
    /\ Pending(i)
    /\ request' = [request EXCEPT ![r] = At("register", i)]
    /\ UNCHANGED <<row, account, member, jobs, mailed>>

\* The user, the membership and acceptedAt land together, unless the address
\* was registered meanwhile.
Register(r) ==
    /\ request[r].pc = "register"
    /\ ~account
    /\ Join(request[r].inv)
    /\ Close(request[r].inv, "accepted")
    /\ Done(r)
    /\ UNCHANGED <<jobs, mailed>>

\* A registration without an invitation, or whose token did not apply.
SignUp ==
    /\ ~account
    /\ account' = TRUE
    /\ UNCHANGED <<row, member, request, jobs, mailed>>

\* removeMember, from the member module.
RemoveMember ==
    /\ member
    /\ member' = FALSE
    /\ UNCHANGED <<row, account, request, jobs, mailed>>

-----------------------------------------------------------------------------
(* The worker, the clock and failures *)

\* The handler of send-invitation; a worker that dies after sending leaves the
\* job to be run again.
Send(l) ==
    /\ l \in jobs
    /\ ~row[l[1]].accepted /\ ~row[l[1]].expired
    /\ mailed' = mailed \cup {l}
    /\ jobs' \in {jobs, jobs \ {l}}
    /\ UNCHANGED <<row, account, member, request>>

\* The row is accepted or expired, or the attempts ran out.
Skip(l) ==
    /\ l \in jobs
    /\ jobs' = jobs \ {l}
    /\ UNCHANGED <<row, account, member, request, mailed>>

Expire(i) ==
    /\ row[i].made /\ ~row[i].expired
    /\ row' = [row EXCEPT ![i].expired = TRUE]
    /\ UNCHANGED <<account, member, request, jobs, mailed>>

\* A handler fails, or its process dies, between two of its steps.
Abort(r) ==
    /\ request[r] # Idle
    /\ Done(r)
    /\ UNCHANGED <<row, account, member, jobs, mailed>>

Init ==
    /\ row = [i \in Invitations |-> [made |-> FALSE, expired |-> FALSE,
                accepted |-> FALSE, declined |-> FALSE, revoked |-> FALSE]]
    /\ account \in BOOLEAN
    /\ member = FALSE
    /\ request = [r \in Requests |-> Idle]
    /\ jobs = {}
    /\ mailed = {}

Next ==
    \/ \E r \in Requests :
         \/ \E i \in Invitations :
              \/ CreateBegin(r, i) \/ AdminBegin(r, i, "revoke") \/ AdminBegin(r, i, "resend")
              \/ AcceptBegin(r, i) \/ DeclineBegin(r, i) \/ RegisterBegin(r, i)
         \/ CreateJudge(r) \/ CreateInsert(r) \/ CreateRefused(r) \/ Enqueue(r)
         \/ Revoke(r) \/ Resend(r)
         \/ Accept(r) \/ AcceptRefused(r) \/ Decline(r) \/ Register(r)
         \/ Abort(r)
    \/ \E l \in Links : Send(l) \/ Skip(l)
    \/ \E i \in Invitations : Expire(i)
    \/ SignUp
    \/ RemoveMember

Spec == Init /\ [][Next]_vars

\* An administrator who keeps resending and revoking whatever can be, with
\* handlers that keep running.
FairSpec ==
    /\ Spec
    /\ \A r \in Requests :
         /\ WF_vars(Resend(r) \/ Revoke(r) \/ Enqueue(r))
         /\ \A i \in Invitations :
              WF_vars(AdminBegin(r, i, "revoke") \/ AdminBegin(r, i, "resend"))

-----------------------------------------------------------------------------
(* Properties *)

\* Whatever creations race, at most one invitation of the address is live.
OneLiveInvitation ==
    \A i, j \in Invitations : Live(i) /\ Live(j) => i = j

\* A membership is paid for by an invitation not spent before, and for an
\* account that exists, by one still pending at that moment: a link used once
\* does not bring back a removed member, nor one revoked meanwhile.
JoinSpendsInvitation ==
    [][~member /\ member' =>
         \E i \in Invitations : /\ ~row[i].accepted /\ row'[i].accepted
                                /\ account => Pending(i)]_vars

\* "All four are terminal": once a row is closed and no handler holds a
\* judgement of it made before (only acceptance judges again, under the lock),
\* its outcome is final: whatever is retried, resent, mailed twice or already
\* waiting for the row, it is neither stamped again nor let through to be.
Outcome(i) == <<row[i].accepted, row[i].declined, row[i].revoked>>

Unlocked == {"revoke", "decline", "register"}

Settled(i) ==
    /\ row[i].accepted \/ row[i].declined \/ row[i].revoked
    /\ \A r \in Requests : request[r].pc \in Unlocked => request[r].inv # i

OutcomesAreTerminal ==
    [][\A i \in Invitations :
         Settled(i) => Settled(i)' /\ Outcome(i)' = Outcome(i)]_vars

\* The same with no allowance for such a handler: an invitation is not both
\* accepted and revoked, so nobody joins on an invitation the administrator sees cancelled.
OneOutcome ==
    \A i \in Invitations : ~(row[i].accepted /\ row[i].revoked)

\* "EXPIRED: terminal, and reversible only by a resend".
ExpiredIsReversible ==
    \A i \in Invitations : Live(i) /\ row[i].expired ~> ~Live(i) \/ ~row[i].expired

\* "The old link stops working immediately."
OldLinkGrantsNothing ==
    [][\A r \in Requests :
         request[r] # Idle /\ request[r].age = "old" /\ request'[r] = Idle
           => member' = member]_vars

\* "A revoked or already-accepted invitation returns" from the worker: no mail
\* is sent for it.  (The worker's steps are those that touch no request.)
ClosedIsNotMailed ==
    [][request' = request =>
         \A l \in mailed' \ mailed : Live(l[1])]_vars

=============================================================================
