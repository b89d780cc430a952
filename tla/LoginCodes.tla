----------------------------- MODULE LoginCodes -----------------------------
(***************************************************************************)
(* Six-digit codes of one account: requestLoginCode and                    *)
(* verifyLoginCodeAndSignIn, whose shape issueRegistrationCode and         *)
(* verifyRegistrationCodeAndSignIn repeat on a table of their own.         *)
(*                                                                         *)
(* None of it runs in a transaction: every database statement and every    *)
(* bcrypt call is an await, and requests interleave between them.          *)
(***************************************************************************)
EXTENDS Naturals, FiniteSets

CONSTANTS
    MaxCodes,     \* bound on the codes issued in a behaviour
    Issuers,      \* request slots that ask for a code
    Verifiers,    \* request slots that redeem one
    MaxAttempts,  \* loginCodeMaxAttempts
    Wrong         \* a guess that is no code's

ASSUME CodesAssumption ==
    /\ MaxCodes \in Nat
    /\ Issuers \cap Verifiers = {}
    /\ IsFiniteSet(Verifiers)
    /\ MaxAttempts \in Nat \ {0}
    /\ Wrong \notin 1..MaxCodes

VARIABLES
    code,      \* code[c]: the LoginCode row
    request,   \* request[r]: the handler running in slot r
    sessions   \* sessions[c]: how many sessions redeeming c has issued

vars == <<code, request, sessions>>

-----------------------------------------------------------------------------
\* Codes in the order of their createdAt.
Codes == 1..MaxCodes

Requests == Issuers \cup Verifiers

\* consumedAt and expiresAt matter only as "is it set" and "has it passed".
Row == [issued : BOOLEAN, consumed : BOOLEAN, expired : BOOLEAN, attempts : Nat]

Steps == {"idle", "hash", "burn", "compare", "miss", "consume", "signin"}

Request == [pc : Steps, code : Codes \cup {Wrong}, guess : Codes \cup {Wrong}]

Idle == [pc |-> "idle", code |-> Wrong, guess |-> Wrong]

TypeOK ==
    /\ code \in [Codes -> Row]
    /\ request \in [Requests -> Request]
    /\ sessions \in [Codes -> Nat]
    /\ \A r \in Requests : request[r].pc \notin {"idle", "hash"} =>
           request[r].code \in Codes /\ code[request[r].code].issued

Live(c) == code[c].issued /\ ~code[c].consumed

\* findLatestLoginCode: unconsumed, newest first; expiry plays no part in it.
Latest(c) == Live(c) /\ \A d \in Codes : Live(d) => d <= c

\* Requests between reading c below the cap and writing the outcome.
Comparing(c) == {r \in Verifiers : request[r].pc \in {"compare", "miss"}
                                     /\ request[r].code = c}

-----------------------------------------------------------------------------
(* Plausible slips *)

CappedLate(c) == code[c].attempts > MaxAttempts
ConsumeNothing == code
IncrementLost(c) == [code EXCEPT ![c].issued = FALSE]

-----------------------------------------------------------------------------
(* Asking for a code *)

\* consumeOutstandingLoginCodes
OutstandingConsumed ==
    [c \in Codes |-> [code[c] EXCEPT !.consumed = @ \/ code[c].issued]]

\* requestLoginCode: outstanding codes are consumed, then the new one hashed.
RequestCode(r) ==
    /\ request[r] = Idle
    /\ code' = OutstandingConsumed
    /\ request' = [request EXCEPT ![r].pc = "hash"]
    /\ UNCHANGED sessions

\* createLoginCode, once bcrypt has answered; the code is mailed.
CreateCode(r, c) ==
    /\ request[r].pc = "hash"
    /\ ~code[c].issued
    /\ \A d \in Codes : d < c => code[d].issued
    /\ code' = [code EXCEPT ![c].issued = TRUE]
    /\ request' = [request EXCEPT ![r] = Idle]
    /\ UNCHANGED sessions

-----------------------------------------------------------------------------
(* Redeeming one *)

\* A guess is a mailed code or a wrong one.
Guesses == {Wrong} \cup {c \in Codes : code[c].issued}

\* At or over the cap.
Capped(c) == code[c].attempts >= MaxAttempts

\* The latest live code is read and judged; with none, a dummy hash is burned
\* and nothing changes.
SubmitCode(r, c, g) ==
    /\ request[r] = Idle
    /\ Latest(c)
    /\ g \in Guesses
    /\ request' = [request EXCEPT ![r] =
         [pc |-> IF code[c].expired \/ Capped(c) THEN "burn" ELSE "compare",
          code |-> c, guess |-> g]]
    /\ UNCHANGED <<code, sessions>>

\* An expired or exhausted code is consumed and the caller refused.
Burn(r) ==
    /\ request[r].pc = "burn"
    /\ code' = [code EXCEPT ![request[r].code].consumed = TRUE]
    /\ request' = [request EXCEPT ![r] = Idle]
    /\ UNCHANGED sessions

\* bcrypt compares the guess with the hash that was read.
Compare(r) ==
    /\ request[r].pc = "compare"
    /\ request' = [request EXCEPT ![r].pc =
         IF request[r].guess = request[r].code THEN "consume" ELSE "miss"]
    /\ UNCHANGED <<code, sessions>>

\* incrementLoginCodeAttempts: one atomic UPDATE on the row.
Incremented(c) == [code EXCEPT ![c].attempts = @ + 1]

Miss(r) ==
    /\ request[r].pc = "miss"
    /\ code' = Incremented(request[r].code)
    /\ request' = [request EXCEPT ![r] = Idle]
    /\ UNCHANGED sessions

\* consumeLoginCode names the row by id: it succeeds whatever became of it.
Consume(r) ==
    /\ request[r].pc = "consume"
    /\ code' = [code EXCEPT ![request[r].code].consumed = TRUE]
    /\ request' = [request EXCEPT ![r].pc = "signin"]
    /\ UNCHANGED sessions

\* The address is marked verified if it was not, and a session is issued.
SignIn(r) ==
    /\ request[r].pc = "signin"
    /\ sessions' = [sessions EXCEPT ![request[r].code] = @ + 1]
    /\ request' = [request EXCEPT ![r] = Idle]
    /\ UNCHANGED code

-----------------------------------------------------------------------------
Expire(c) ==
    /\ code[c].issued /\ ~code[c].expired
    /\ code' = [code EXCEPT ![c].expired = TRUE]
    /\ UNCHANGED <<request, sessions>>

\* The process dies between two statements of a handler.
Abort(r) ==
    /\ request[r] # Idle
    /\ request' = [request EXCEPT ![r] = Idle]
    /\ UNCHANGED <<code, sessions>>

Init ==
    /\ code = [c \in Codes |->
                 [issued |-> FALSE, consumed |-> FALSE, expired |-> FALSE, attempts |-> 0]]
    /\ request = [r \in Requests |-> Idle]
    /\ sessions = [c \in Codes |-> 0]

Next ==
    \/ \E r \in Issuers : RequestCode(r) \/ \E c \in Codes : CreateCode(r, c)
    \/ \E r \in Verifiers :
         \/ \E c \in Codes, g \in Codes \cup {Wrong} : SubmitCode(r, c, g)
         \/ Burn(r) \/ Compare(r) \/ Miss(r) \/ Consume(r) \/ SignIn(r)
    \/ \E r \in Requests : Abort(r)
    \/ \E c \in Codes : Expire(c)

Spec == Init /\ [][Next]_vars

-----------------------------------------------------------------------------
(* Properties *)

\* "The attempt cap is what makes a six-digit code safe": concurrent guesses
\* overrun it by no more than the requests that read the row together.
AttemptsAreCapped ==
    \A c \in Codes :
        code[c].attempts + Cardinality(Comparing(c)) < MaxAttempts + Cardinality(Verifiers)

\* "Exactly one live code exists at a time."
OneLiveCode == Cardinality({c \in Codes : Live(c)}) <= 1

\* "A single-use consume": a code signs in once.
SingleUse == \A c \in Codes : sessions[c] <= 1

=============================================================================
