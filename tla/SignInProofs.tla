---------------------------- MODULE SignInProofs -----------------------------
(***************************************************************************)
(* Signing in and staying signed in.                                       *)
(*                                                                         *)
(* Of LoginCodes, for any number of codes, of requests and any cap: its    *)
(* types, the bound on wrong guesses, the single live code of an account   *)
(* whose requests for a code do not overlap, and that a code signs in once *)
(* where redemptions do not.                                               *)
(*                                                                         *)
(* Of SessionRenewal, for any number of requests, rotations and faults:    *)
(* its types, and that only the API ends a session, whatever the           *)
(* lifetimes; and, for lifetimes that leave room for a request, that a     *)
(* lapse costs one rotation and that use alone never ends a session.       *)
(***************************************************************************)
EXTENDS LoginCodes, SessionRenewal, FiniteSetTheorems, TLAPS

\* The types of the fields, for the steps that change a few of them.
LEMMA Fields ==
    ASSUME TypeOK
    PROVE  /\ \A c \in Codes : /\ code[c] \in Row
                               /\ code[c].attempts \in Nat
                               /\ code[c].issued \in BOOLEAN
           /\ \A r \in Requests : request[r] \in Request
BY DEF TypeOK, Row

\* Idle is a request, and no request field is stale in it.
LEMMA IdleTyped == Idle \in Request /\ Idle.pc = "idle" /\ Idle.code = Wrong
BY DEF Idle, Request, Steps

\* A step that only moves slot r to slot keeps the types.
LEMMA SlotTyped ==
    ASSUME TypeOK, NEW r \in Requests, NEW slot \in Request,
           slot.pc \notin {"idle", "hash"} => slot.code \in Codes /\ code[slot.code].issued,
           request' = [request EXCEPT ![r] = slot],
           code' \in [Codes -> Row],
           \A c \in Codes : code[c].issued => code'[c].issued,
           sessions' \in [Codes -> Nat]
    PROVE  TypeOK'
<1>1. request' \in [Requests -> Request]
  BY DEF TypeOK
<1>2. ASSUME NEW q \in Requests, request'[q].pc \notin {"idle", "hash"}
      PROVE  request'[q].code \in Codes /\ code'[request'[q].code].issued
  <2>1. CASE q = r
    BY <1>2, <2>1 DEF TypeOK
  <2>2. CASE q # r
    BY <1>2, <2>2 DEF TypeOK
  <2> QED
    BY <2>1, <2>2
<1> QED
  BY <1>1, <1>2 DEF TypeOK

\* Changing flags or the counter of one row keeps the rows typed.
LEMMA RowTyped ==
    ASSUME TypeOK, NEW c \in Codes, NEW row \in Row, row.issued,
           code' = [code EXCEPT ![c] = row]
    PROVE  code' \in [Codes -> Row] /\ \A d \in Codes : code[d].issued => code'[d].issued
BY DEF TypeOK

-----------------------------------------------------------------------------
LEMMA InitTypeOK == Init => TypeOK
<1> SUFFICES ASSUME Init PROVE TypeOK
  OBVIOUS
<1>1. [issued |-> FALSE, consumed |-> FALSE, expired |-> FALSE, attempts |-> 0] \in Row
  BY DEF Row
<1>2. code \in [Codes -> Row] /\ sessions \in [Codes -> Nat]
  BY <1>1 DEF Init
<1>3. request \in [Requests -> Request] /\ \A r \in Requests : request[r].pc = "idle"
  BY IdleTyped DEF Init
<1> QED
  BY <1>2, <1>3 DEF TypeOK

LEMMA IssuerTypeOK ==
    ASSUME TypeOK, NEW r \in Issuers,
           RequestCode(r) \/ \E c \in Codes : CreateCode(r, c)
    PROVE  TypeOK'
<1>1. r \in Requests /\ request[r] \in Request
  BY Fields DEF Requests
<1>2. CASE RequestCode(r)
  <2> DEFINE slot == [request[r] EXCEPT !.pc = "hash"]
  <2>1. slot \in Request /\ slot.pc = "hash"
    BY <1>1 DEF Request, Steps
  <2>2. request' = [request EXCEPT ![r] = slot]
    BY <1>2 DEF RequestCode
  <2> HIDE DEF slot
  <2>3. \A c \in Codes : /\ [code[c] EXCEPT !.consumed = @ \/ code[c].issued] \in Row
                         /\ [code[c] EXCEPT !.consumed = @ \/ code[c].issued].issued = code[c].issued
    BY Fields DEF Row
  <2>4. code' \in [Codes -> Row] /\ \A c \in Codes : code'[c].issued = code[c].issued
    BY <1>2, <2>3 DEF RequestCode, OutstandingConsumed
  <2>5. sessions' \in [Codes -> Nat]
    BY <1>2 DEF RequestCode, TypeOK
  <2> QED
    BY <1>1, <2>1, <2>2, <2>4, <2>5, SlotTyped
<1>3. ASSUME NEW c \in Codes, CreateCode(r, c)
      PROVE  TypeOK'
  <2> DEFINE row == [code[c] EXCEPT !.issued = TRUE]
  <2>1. row \in Row /\ row.issued
    BY Fields DEF Row
  <2>2. code' = [code EXCEPT ![c] = row]
    BY <1>3 DEF CreateCode
  <2> HIDE DEF row
  <2>3. code' \in [Codes -> Row] /\ \A d \in Codes : code[d].issued => code'[d].issued
    BY <2>1, <2>2, RowTyped
  <2> QED
    BY <1>1, <1>3, <2>3, IdleTyped, SlotTyped DEF CreateCode, TypeOK
<1> QED
  BY <1>2, <1>3

LEMMA VerifierTypeOK ==
    ASSUME TypeOK, NEW r \in Verifiers,
           \/ \E c \in Codes, g \in Codes \cup {Wrong} : SubmitCode(r, c, g)
           \/ Burn(r) \/ Compare(r) \/ Miss(r) \/ Consume(r) \/ SignIn(r)
    PROVE  TypeOK'
<1> DEFINE c == request[r].code
<1>1. r \in Requests /\ request[r] \in Request
  BY Fields DEF Requests
<1>2. request[r].pc \notin {"idle", "hash"} => c \in Codes /\ code[c] \in Row /\ code[c].issued
  BY <1>1, Fields DEF TypeOK
<1>3. UNCHANGED code => code' \in [Codes -> Row] /\ \A d \in Codes : code[d].issued => code'[d].issued
  BY DEF TypeOK
<1>4. UNCHANGED sessions => sessions' \in [Codes -> Nat]
  BY DEF TypeOK
<1> HIDE DEF c
<1>5. ASSUME NEW d \in Codes, NEW g \in Codes \cup {Wrong}, SubmitCode(r, d, g)
      PROVE  TypeOK'
  <2> DEFINE slot == [pc |-> IF code[d].expired \/ Capped(d) THEN "burn" ELSE "compare",
                      code |-> d, guess |-> g]
  <2>1. slot \in Request /\ slot.code = d
    BY DEF Request, Steps
  <2>2. request' = [request EXCEPT ![r] = slot]
    BY <1>5 DEF SubmitCode
  <2> HIDE DEF slot
  <2> QED
    BY <1>1, <1>3, <1>4, <1>5, <2>1, <2>2, SlotTyped DEF SubmitCode, Latest, Live
<1>6. CASE Burn(r)
  <2> DEFINE row == [code[c] EXCEPT !.consumed = TRUE]
  <2>1. row \in Row /\ row.issued
    BY <1>2, <1>6 DEF Burn, Row
  <2>2. code' = [code EXCEPT ![c] = row]
    BY <1>6 DEF Burn, c
  <2> HIDE DEF row
  <2> QED
    BY <1>1, <1>2, <1>4, <1>6, <2>1, <2>2, RowTyped, IdleTyped, SlotTyped DEF Burn
<1>7. CASE Compare(r)
  <2> DEFINE step == IF request[r].guess = request[r].code THEN "consume" ELSE "miss"
             slot == [request[r] EXCEPT !.pc = step]
  <2>1. step \in Steps
    BY DEF Steps
  <2>2. request' = [request EXCEPT ![r] = slot]
    BY <1>7 DEF Compare
  <2> HIDE DEF step
  <2>3. slot \in Request /\ slot.code = c
    BY <1>1, <2>1 DEF Request, c
  <2> HIDE DEF slot
  <2> QED
    BY <1>1, <1>2, <1>3, <1>4, <1>7, <2>2, <2>3, SlotTyped DEF Compare
<1>8. CASE Miss(r)
  <2> DEFINE row == [code[c] EXCEPT !.attempts = @ + 1]
  <2>1. row \in Row /\ row.issued
    BY <1>2, <1>8 DEF Miss, Row
  <2>2. code' = [code EXCEPT ![c] = row]
    BY <1>8 DEF Miss, Incremented, c
  <2> HIDE DEF row
  <2> QED
    BY <1>1, <1>2, <1>4, <1>8, <2>1, <2>2, RowTyped, IdleTyped, SlotTyped DEF Miss
<1>9. CASE Consume(r)
  <2> DEFINE row == [code[c] EXCEPT !.consumed = TRUE]
             slot == [request[r] EXCEPT !.pc = "signin"]
  <2>1. row \in Row /\ row.issued
    BY <1>2, <1>9 DEF Consume, Row
  <2>2. code' = [code EXCEPT ![c] = row] /\ request' = [request EXCEPT ![r] = slot]
    BY <1>9 DEF Consume, c
  <2>3. slot \in Request /\ slot.code = c
    BY <1>1 DEF Request, Steps, c
  <2> HIDE DEF row, slot
  <2> QED
    BY <1>1, <1>2, <1>4, <1>9, <2>1, <2>2, <2>3, RowTyped, SlotTyped DEF Consume
<1>10. CASE SignIn(r)
  <2>1. sessions' \in [Codes -> Nat]
    BY <1>2, <1>10 DEF SignIn, TypeOK, c
  <2> QED
    BY <1>1, <1>3, <1>10, <2>1, IdleTyped, SlotTyped DEF SignIn
<1> QED
  BY <1>5, <1>6, <1>7, <1>8, <1>9, <1>10

LEMMA NextTypeOK == TypeOK /\ [Next]_vars => TypeOK'
<1> SUFFICES ASSUME TypeOK, [Next]_vars PROVE TypeOK'
  OBVIOUS
<1>1. ASSUME NEW r \in Requests, Abort(r)
      PROVE  TypeOK'
  <2>1. code' \in [Codes -> Row] /\ sessions' \in [Codes -> Nat] /\ code' = code
    BY <1>1 DEF Abort, TypeOK
  <2> QED
    BY <1>1, <2>1, IdleTyped, SlotTyped DEF Abort
<1>2. ASSUME NEW c \in Codes, Expire(c)
      PROVE  TypeOK'
  <2> DEFINE row == [code[c] EXCEPT !.expired = TRUE]
  <2>1. row \in Row /\ row.issued
    BY <1>2, Fields DEF Expire, Row
  <2>2. code' = [code EXCEPT ![c] = row]
    BY <1>2 DEF Expire
  <2> HIDE DEF row
  <2>3. code' \in [Codes -> Row] /\ \A d \in Codes : code[d].issued => code'[d].issued
    BY <2>1, <2>2, RowTyped
  <2> QED
    BY <1>2, <2>3 DEF Expire, TypeOK
<1>3. CASE UNCHANGED vars
  BY <1>3 DEF vars, TypeOK
<1> QED
  BY <1>1, <1>2, <1>3, IssuerTypeOK, VerifierTypeOK DEF Next

\* Types: in particular a request that has read a code holds one that exists,
\* so the updates by id that follow find their row.
THEOREM TypeCorrect == Spec => []TypeOK
BY InitTypeOK, NextTypeOK, PTL DEF Spec

-----------------------------------------------------------------------------
LEMMA ComparingIsFinite ==
    ASSUME NEW c
    PROVE  /\ IsFiniteSet(Comparing(c))
           /\ Cardinality(Comparing(c)) \in Nat
           /\ Cardinality(Comparing(c)) <= Cardinality(Verifiers)
           /\ Cardinality(Verifiers) \in Nat
<1>1. Comparing(c) \subseteq Verifiers
  BY DEF Comparing
<1> QED
  BY <1>1, CodesAssumption, FS_Subset, FS_CardinalityType

\* A step that counts no attempt and starts no comparison keeps the bound.
LEMMA NothingCounted ==
    ASSUME TypeOK, AttemptsAreCapped,
           \A c \in Codes : code'[c].attempts = code[c].attempts /\ Comparing(c)' \subseteq Comparing(c)
    PROVE  AttemptsAreCapped'
<1> SUFFICES ASSUME NEW c \in Codes
             PROVE  code'[c].attempts + Cardinality(Comparing(c)') < MaxAttempts + Cardinality(Verifiers)
  BY DEF AttemptsAreCapped
<1>1. Cardinality(Comparing(c)') \in Nat /\ Cardinality(Comparing(c)') <= Cardinality(Comparing(c))
  BY ComparingIsFinite, FS_Subset, FS_CardinalityType
<1>2. code[c].attempts \in Nat
  BY Fields
<1>3. code[c].attempts + Cardinality(Comparing(c)) < MaxAttempts + Cardinality(Verifiers)
  BY DEF AttemptsAreCapped
<1>4. code'[c].attempts = code[c].attempts
  OBVIOUS
<1> QED
  BY <1>1, <1>2, <1>3, <1>4, ComparingIsFinite, CodesAssumption

\* A guess is let through below the cap only, and there is one slot for it.
LEMMA SubmitCapped ==
    ASSUME TypeOK, AttemptsAreCapped, NEW r \in Verifiers, NEW d \in Codes,
           NEW g \in Codes \cup {Wrong}, SubmitCode(r, d, g)
    PROVE  AttemptsAreCapped'
<1> SUFFICES ASSUME NEW c \in Codes
             PROVE  code'[c].attempts + Cardinality(Comparing(c)') < MaxAttempts + Cardinality(Verifiers)
  BY DEF AttemptsAreCapped
<1>1. code' = code /\ code[c].attempts \in Nat
  BY Fields DEF SubmitCode
<1>2. r \in Requests /\ request \in [Requests -> Request]
  BY DEF TypeOK, Requests
<1>3. Comparing(c)' \subseteq Verifiers
  BY DEF Comparing
<1>4. /\ Cardinality(Comparing(c)') \in Nat
      /\ Cardinality(Comparing(c)') <= Cardinality(Verifiers)
      /\ Cardinality(Verifiers) \in Nat
  BY <1>3, CodesAssumption, FS_Subset, FS_CardinalityType
<1>5. CASE c = d /\ ~Capped(d)
  BY <1>1, <1>4, <1>5, CodesAssumption DEF Capped
<1>6. CASE ~(c = d /\ ~Capped(d))
  <2>1. Comparing(c)' \subseteq Comparing(c)
    BY <1>2, <1>6 DEF SubmitCode, Comparing
  <2>2. Cardinality(Comparing(c)') <= Cardinality(Comparing(c))
    BY <2>1, ComparingIsFinite, FS_Subset
  <2> QED
    BY <1>1, <1>4, <2>2, ComparingIsFinite, CodesAssumption DEF AttemptsAreCapped
<1> QED
  BY <1>5, <1>6

\* A miss moves one request from the comparisons to the count.
LEMMA MissCapped ==
    ASSUME TypeOK, AttemptsAreCapped, NEW r \in Verifiers, Miss(r)
    PROVE  AttemptsAreCapped'
<1> DEFINE d == request[r].code
<1>1. r \in Requests /\ d \in Codes /\ request \in [Requests -> Request]
  BY DEF TypeOK, Requests, Miss
<1>2. r \in Comparing(d)
  BY DEF Miss, Comparing
<1>3. \A c \in Codes : Comparing(c)' \subseteq Comparing(c) \ {r}
  BY <1>1, IdleTyped DEF Miss, Comparing
<1>4. \A c \in Codes : code'[c].attempts = IF c = d THEN code[c].attempts + 1 ELSE code[c].attempts
  BY <1>1, Fields DEF Miss, Incremented, TypeOK, Row
<1> HIDE DEF d
<1> SUFFICES ASSUME NEW c \in Codes
             PROVE  code'[c].attempts + Cardinality(Comparing(c)') < MaxAttempts + Cardinality(Verifiers)
  BY DEF AttemptsAreCapped
<1>5. code[c].attempts \in Nat
  BY Fields
<1>6. /\ Cardinality(Comparing(c)') \in Nat
      /\ Cardinality(Comparing(c)') <= Cardinality(Comparing(c) \ {r})
      /\ Cardinality(Comparing(c) \ {r}) \in Nat
  BY <1>3, ComparingIsFinite, FS_RemoveElement, FS_Subset, FS_CardinalityType
<1>7. Cardinality(Comparing(c) \ {r}) =
        IF r \in Comparing(c) THEN Cardinality(Comparing(c)) - 1 ELSE Cardinality(Comparing(c))
  BY ComparingIsFinite, FS_RemoveElement
<1>8. code[c].attempts + Cardinality(Comparing(c)) < MaxAttempts + Cardinality(Verifiers)
  BY DEF AttemptsAreCapped
<1>9. CASE c = d
  BY <1>2, <1>4, <1>5, <1>6, <1>7, <1>8, <1>9, ComparingIsFinite, CodesAssumption
<1>10. CASE c # d
  BY <1>4, <1>5, <1>6, <1>7, <1>8, <1>10, ComparingIsFinite, CodesAssumption
<1> QED
  BY <1>9, <1>10

LEMMA NextCapped == TypeOK /\ AttemptsAreCapped /\ [Next]_vars => AttemptsAreCapped'
<1> SUFFICES ASSUME TypeOK, AttemptsAreCapped, [Next]_vars PROVE AttemptsAreCapped'
  OBVIOUS
<1> DEFINE Harmless == \A c \in Codes :
                         code'[c].attempts = code[c].attempts /\ Comparing(c)' \subseteq Comparing(c)
<1>1. request \in [Requests -> Request] /\ code \in [Codes -> Row]
  BY DEF TypeOK
<1>2. ASSUME NEW r \in Issuers, RequestCode(r) \/ \E c \in Codes : CreateCode(r, c)
      PROVE  Harmless
  <2>1. r \in Requests /\ r \notin Verifiers
    BY CodesAssumption DEF Requests
  <2>2. \A c \in Codes : Comparing(c)' = Comparing(c)
    BY <1>1, <1>2, <2>1 DEF RequestCode, CreateCode, Comparing, Requests
  <2>3. \A c \in Codes : code'[c].attempts = code[c].attempts
    BY <1>1, <1>2 DEF RequestCode, CreateCode, OutstandingConsumed, Row
  <2> QED
    BY <2>2, <2>3
<1>3. ASSUME NEW r \in Verifiers, Burn(r) \/ Compare(r) \/ Consume(r) \/ SignIn(r)
      PROVE  Harmless
  <2>1. r \in Requests
    BY DEF Requests
  <2>2. \A c \in Codes : Comparing(c)' \subseteq Comparing(c)
    BY <1>1, <1>3, <2>1, IdleTyped DEF Burn, Compare, Consume, SignIn, Comparing, Request, Requests
  <2>3. \A c \in Codes : code'[c].attempts = code[c].attempts
    BY <1>1, <1>3 DEF Burn, Compare, Consume, SignIn, Row
  <2> QED
    BY <2>2, <2>3
<1>4. ASSUME NEW r \in Requests, Abort(r)
      PROVE  Harmless
  BY <1>1, <1>4, IdleTyped DEF Abort, Comparing, Requests
<1>5. ASSUME NEW c \in Codes, Expire(c)
      PROVE  Harmless
  BY <1>1, <1>5 DEF Expire, Comparing, Row
<1>6. CASE UNCHANGED vars
  BY <1>6 DEF vars, AttemptsAreCapped, Comparing
<1> HIDE DEF Harmless
<1>7. Harmless => AttemptsAreCapped'
  BY NothingCounted DEF Harmless
<1> QED
  BY <1>2, <1>3, <1>4, <1>5, <1>6, <1>7, SubmitCapped, MissCapped DEF Next

LEMMA InitCapped == Init => AttemptsAreCapped
<1> SUFFICES ASSUME Init, NEW c \in Codes
             PROVE  code[c].attempts + Cardinality(Comparing(c)) < MaxAttempts + Cardinality(Verifiers)
  BY DEF AttemptsAreCapped
<1>1. Comparing(c) = {} /\ code[c].attempts = 0
  BY IdleTyped DEF Init, Comparing, Requests
<1> QED
  BY <1>1, FS_EmptySet, ComparingIsFinite, CodesAssumption

\* "The attempt cap is what makes a six-digit code safe": whatever the number
\* of concurrent guesses, the misses a code takes stay below the cap plus the
\* requests that were let in together.
THEOREM WrongGuessesAreCapped == Spec => []AttemptsAreCapped
BY TypeCorrect, InitCapped, NextCapped, PTL DEF Spec

-----------------------------------------------------------------------------
\* Requests for a code do not overlap.
OneIssuer == \A r, s \in Issuers : r = s

\* No two codes are live, and none while a new one is being made.
CodesAreReplaced ==
    /\ \A c, d \in Codes : Live(c) /\ Live(d) => c = d
    /\ \A r \in Issuers : request[r].pc = "hash" => \A c \in Codes : ~Live(c)
    /\ \A r \in Verifiers : request[r].pc # "hash"

LEMMA NextReplaced ==
    ASSUME OneIssuer, TypeOK, CodesAreReplaced, [Next]_vars
    PROVE  CodesAreReplaced'
<1> USE DEF Requests
<1>1. request \in [Requests -> Request] /\ code \in [Codes -> Row]
  BY DEF TypeOK
<1>2. ASSUME NEW r \in Issuers, RequestCode(r)
      PROVE  CodesAreReplaced'
  <2>1. \A c \in Codes : code'[c].consumed = (code[c].consumed \/ code[c].issued)
                           /\ code'[c].issued = code[c].issued
    BY <1>1, <1>2 DEF RequestCode, OutstandingConsumed, Row
  <2>2. \A c \in Codes : ~Live(c)'
    BY <2>1 DEF Live
  <2>3. \A q \in Verifiers : request'[q] = request[q]
    BY <1>1, <1>2, CodesAssumption DEF RequestCode
  <2> QED
    BY <2>2, <2>3 DEF CodesAreReplaced
<1>3. ASSUME NEW r \in Issuers, NEW c \in Codes, CreateCode(r, c)
      PROVE  CodesAreReplaced'
  <2>1. \A d \in Codes \ {c} : ~Live(d)'
    BY <1>1, <1>3 DEF CreateCode, CodesAreReplaced, Live
  <2>2. request'[r].pc = "idle" /\ \A q \in Verifiers : request'[q] = request[q]
    BY <1>1, <1>3, CodesAssumption, IdleTyped DEF CreateCode
  <2> QED
    BY <2>1, <2>2 DEF OneIssuer, CodesAreReplaced
<1>4. ASSUME \A c \in Codes : Live(c)' => Live(c),
             \A q \in Requests : request'[q].pc = "hash" => request[q].pc = "hash"
      PROVE  CodesAreReplaced'
  BY <1>4 DEF CodesAreReplaced
<1>5. ASSUME NEW r \in Verifiers,
             \/ \E c \in Codes, g \in Codes \cup {Wrong} : SubmitCode(r, c, g)
             \/ Burn(r) \/ Compare(r) \/ Miss(r) \/ Consume(r) \/ SignIn(r)
      PROVE  CodesAreReplaced'
  <2>1. \A q \in Requests : request'[q].pc = "hash" => request[q].pc = "hash"
    BY <1>1, <1>5, IdleTyped DEF SubmitCode, Burn, Compare, Miss, Consume, SignIn, Request
  <2>2. \A c \in Codes : Live(c)' => Live(c)
    BY <1>1, <1>5 DEF SubmitCode, Burn, Compare, Miss, Incremented, Consume, SignIn, Live, Row
  <2> QED
    BY <1>4, <2>1, <2>2
<1>6. ASSUME NEW r \in Requests, Abort(r)
      PROVE  CodesAreReplaced'
  <2>1. \A q \in Requests : request'[q].pc = "hash" => request[q].pc = "hash"
    BY <1>1, <1>6, IdleTyped DEF Abort
  <2> QED
    BY <1>4, <1>6, <2>1 DEF Abort, Live
<1>7. ASSUME NEW c \in Codes, Expire(c)
      PROVE  CodesAreReplaced'
  BY <1>1, <1>4, <1>7 DEF Expire, Live, Row
<1>8. CASE UNCHANGED vars
  BY <1>4, <1>8 DEF vars, Live
<1> QED
  BY <1>2, <1>3, <1>5, <1>6, <1>7, <1>8 DEF Next

LEMMA InitReplaced == Init => CodesAreReplaced
BY IdleTyped DEF Init, CodesAreReplaced, Live, Requests

LEMMA ReplacedIsOne == CodesAreReplaced => OneLiveCode
<1> SUFFICES ASSUME CodesAreReplaced PROVE Cardinality({c \in Codes : Live(c)}) <= 1
  BY DEF OneLiveCode
<1>1. CASE \A c \in Codes : ~Live(c)
  <2>1. {c \in Codes : Live(c)} = {}
    BY <1>1
  <2> QED
    BY <2>1, FS_EmptySet
<1>2. CASE \E c \in Codes : Live(c)
  <2>1. PICK c \in Codes : Live(c)
    BY <1>2
  <2>2. {d \in Codes : Live(d)} = {c}
    BY <2>1 DEF CodesAreReplaced
  <2> QED
    BY <2>2, FS_Singleton
<1> QED
  BY <1>1, <1>2

\* "Exactly one live code exists at a time", provided that requests for a code
\* do not overlap: consuming the outstanding codes and inserting the new one
\* are two statements.
THEOREM OneLiveCodePerIssuer == OneIssuer => (Spec => []OneLiveCode)
<1> SUFFICES ASSUME OneIssuer PROVE Spec => []OneLiveCode
  OBVIOUS
<1>1. TypeOK /\ CodesAreReplaced /\ [Next]_vars => CodesAreReplaced'
  BY NextReplaced
<1> QED
  BY TypeCorrect, InitReplaced, <1>1, ReplacedIsOne, PTL DEF Spec

-----------------------------------------------------------------------------
\* Redemptions do not overlap.
OneVerifier == \A r, s \in Verifiers : r = s

\* What is spent stays consumed, and a redemption under way is of a code that is
\* not spent, which it has consumed by the time it signs in.
SpentIsConsumed ==
    /\ \A c \in Codes : sessions[c] = 0 \/ (sessions[c] = 1 /\ code[c].consumed)
    /\ \A r \in Verifiers : request[r].pc \in {"compare", "consume", "signin"} =>
           /\ sessions[request[r].code] = 0
           /\ request[r].pc = "signin" => code[request[r].code].consumed

\* Every step; only what is not consumed is begun to be redeemed.
LEMMA NextSpent ==
    ASSUME OneVerifier, TypeOK, SpentIsConsumed, [Next]_vars
    PROVE  SpentIsConsumed'
<1> DEFINE Redeeming == {"compare", "consume", "signin"}
<1>1. request \in [Requests -> Request] /\ code \in [Codes -> Row] /\ sessions \in [Codes -> Nat]
  BY DEF TypeOK
<1>2. /\ Verifiers \subseteq Requests /\ Issuers \subseteq Requests
      /\ \A r \in Verifiers : request[r].pc \in Redeeming => request[r].code \in Codes
  BY DEF TypeOK, Requests
<1>3. ASSUME UNCHANGED sessions,
             \A c \in Codes : code[c].consumed => code'[c].consumed,
             \A r \in Verifiers : request'[r] = request[r] \/ request'[r].pc \notin Redeeming
      PROVE  SpentIsConsumed'
  BY <1>2, <1>3 DEF SpentIsConsumed
<1>4. ASSUME NEW r \in Issuers, RequestCode(r) \/ \E c \in Codes : CreateCode(r, c)
      PROVE  SpentIsConsumed'
  <2>1. \A c \in Codes : code[c].consumed => code'[c].consumed
    BY <1>1, <1>4 DEF RequestCode, OutstandingConsumed, CreateCode, Row
  <2>2. \A q \in Verifiers : request'[q] = request[q] \/ request'[q].pc \notin Redeeming
    BY <1>1, <1>2, <1>4, IdleTyped DEF RequestCode, CreateCode, Request
  <2> QED
    BY <1>3, <1>4, <2>1, <2>2 DEF RequestCode, CreateCode
<1>5. ASSUME NEW r \in Verifiers, Burn(r) \/ Miss(r)
      PROVE  SpentIsConsumed'
  <2>1. request[r].code \in Codes /\ UNCHANGED sessions /\ request' = [request EXCEPT ![r] = Idle]
    BY <1>2, <1>5 DEF Burn, Miss, TypeOK
  <2>2. \A c \in Codes : code[c].consumed => code'[c].consumed
    BY <1>1, <1>5, <2>1 DEF Burn, Miss, Incremented, Row
  <2> QED
    BY <1>1, <1>2, <1>3, <2>1, <2>2, IdleTyped
<1>6. ASSUME NEW r \in Requests, Abort(r)
      PROVE  SpentIsConsumed'
  BY <1>1, <1>2, <1>3, <1>6, IdleTyped DEF Abort
<1>7. ASSUME NEW r \in Verifiers, NEW c \in Codes, NEW g \in Codes \cup {Wrong}, SubmitCode(r, c, g)
      PROVE  SpentIsConsumed'
  <2>1. UNCHANGED <<code, sessions>> /\ ~code[c].consumed
    BY <1>7 DEF SubmitCode, Latest, Live
  <2>2. request'[r].code = c /\ request'[r].pc # "signin"
    BY <1>1, <1>2, <1>7 DEF SubmitCode
  <2>3. sessions[c] = 0
    BY <2>1 DEF SpentIsConsumed
  <2> QED
    BY <2>1, <2>2, <2>3 DEF OneVerifier, SpentIsConsumed
<1>8. ASSUME NEW r \in Verifiers, Compare(r) \/ Consume(r)
      PROVE  SpentIsConsumed'
  <2> DEFINE c == request[r].code
  <2>1. c \in Codes /\ sessions[c] = 0 /\ UNCHANGED sessions
    BY <1>2, <1>8 DEF Compare, Consume, SpentIsConsumed
  <2>2. request'[r].code = c /\ (request'[r].pc = "signin" => code'[c].consumed)
    BY <1>1, <1>2, <1>8, <2>1 DEF Compare, Consume, Request, Row
  <2>3. \A d \in Codes : code[d].consumed => code'[d].consumed
    BY <1>1, <1>8, <2>1 DEF Compare, Consume, Row
  <2> QED
    BY <2>1, <2>2, <2>3 DEF OneVerifier, SpentIsConsumed
<1>9. ASSUME NEW r \in Verifiers, SignIn(r)
      PROVE  SpentIsConsumed'
  <2> DEFINE c == request[r].code
  <2>1. c \in Codes /\ sessions[c] = 0 /\ code[c].consumed
    BY <1>2, <1>9 DEF SignIn, SpentIsConsumed
  <2>2. sessions' = [sessions EXCEPT ![c] = 1] /\ UNCHANGED code
    BY <1>9, <2>1 DEF SignIn
  <2>3. request'[r].pc = "idle"
    BY <1>1, <1>2, <1>9, IdleTyped DEF SignIn
  <2> QED
    BY <1>1, <2>1, <2>2, <2>3 DEF OneVerifier, SpentIsConsumed
<1>10. ASSUME NEW c \in Codes, Expire(c)
       PROVE  SpentIsConsumed'
  BY <1>1, <1>3, <1>10 DEF Expire, Row
<1>11. CASE UNCHANGED vars
  BY <1>3, <1>11 DEF vars
<1> QED
  BY <1>4, <1>5, <1>6, <1>7, <1>8, <1>9, <1>10, <1>11 DEF Next

\* "A single-use consume", provided that redemptions do not overlap: the consume
\* names the row by id and succeeds whatever became of it.
THEOREM SingleUsePerVerifier == OneVerifier => (Spec => []SingleUse)
<1> SUFFICES ASSUME OneVerifier PROVE Spec => []SingleUse
  OBVIOUS
<1>1. ASSUME Init PROVE SpentIsConsumed
  <2>1. \A r \in Verifiers : request[r].pc = "idle"
    BY <1>1, IdleTyped DEF Init, Requests
  <2>2. \A c \in Codes : sessions[c] = 0
    BY <1>1 DEF Init
  <2> QED
    BY <2>1, <2>2 DEF SpentIsConsumed
<1>2. TypeOK /\ SpentIsConsumed /\ [Next]_vars => SpentIsConsumed'
  BY NextSpent
<1>3. SpentIsConsumed => SingleUse
  BY DEF SpentIsConsumed, SingleUse
<1> QED
  BY TypeCorrect, <1>1, <1>2, <1>3, PTL DEF Spec

-----------------------------------------------------------------------------
(* Renewal: the steps of a handler *)

HandlerStates ==
    [pc : {"idle", "proxy", "render", "respond"}, route : {"guarded", "open", "action"},
     born : 0..now, sees : Cookies, writes : Writes]

\* The cookies of a rotation and of a replay.
Pair(g) == [refresh |-> g, access |-> NewAccess]
AccessOnly == [refresh |-> Keep, access |-> NewAccess]

\* Numbers the SMT solver can use, and the two markers told apart from them.
LEMMA Settings ==
    /\ {MaxFaults, MaxGen, Margin, Grace, MaxTransit, MaxTime, AccessTtl} \subseteq Nat
    /\ Margin < AccessTtl
    /\ NoCookie \notin Nat /\ Keep \notin Nat /\ Keep # NoCookie
    /\ Gens \subseteq Nat /\ NoCookie \notin Gens /\ Keep \notin Gens
BY RenewalAssumption DEF Gens

\* What RenewalTypeOK says field by field.
LEMMA RenewalFields ==
    ASSUME RenewalTypeOK
    PROVE  /\ now \in Nat /\ live \in Gens /\ over \in BOOLEAN /\ faults \in Nat
           /\ \A g \in Gens : spentAt[g] \in Nat /\ spentAt[g] <= now
           /\ jar \in Cookies
           /\ \A r \in Handlers : /\ handler[r] \in HandlerStates
                                  /\ handler[r].born \in Nat /\ handler[r].born <= now
                                  /\ handler[r].sees \in Cookies
                                  /\ handler[r].writes \in Writes
           /\ NewAccess \in 0..(now + AccessTtl)
<1>1. now \in Nat /\ live \in Gens /\ over \in BOOLEAN /\ faults \in Nat /\ jar \in Cookies
  BY Settings DEF RenewalTypeOK
<1>2. \A g \in Gens : spentAt[g] \in Nat /\ spentAt[g] <= now
  BY <1>1 DEF RenewalTypeOK
<1>3. \A r \in Handlers : handler[r] \in HandlerStates
  BY DEF RenewalTypeOK, HandlerStates
<1>4. \A h \in HandlerStates : /\ h.born \in Nat /\ h.born <= now
                               /\ h.sees \in Cookies /\ h.writes \in Writes
  BY <1>1 DEF HandlerStates
<1>5. NewAccess \in 0..(now + AccessTtl)
  BY <1>1, Settings DEF NewAccess
<1> QED
  BY <1>1, <1>2, <1>3, <1>4, <1>5

\* A refresh rotates, replays, ends the session, or comes to nothing.
Rotated(g) ==
    /\ ~over /\ over' = over /\ g = live
    /\ live' = live + 1 /\ live' \in Gens
    /\ spentAt' = [spentAt EXCEPT ![g] = now]
Replayed(g) ==
    /\ ~over /\ g # live /\ UNCHANGED <<api, faults>>
Ended(g) ==
    /\ over' = TRUE /\ UNCHANGED <<live, spentAt>>
    /\ over \/ faults' = faults + 1 \/ (g # live /\ ~Forgiven(g))
Nothing == UNCHANGED api /\ faults' = faults + 1

LEMMA RefreshOutcomes ==
    ASSUME RenewalTypeOK, NEW g, NEW answer, NEW w, Refreshing(g, answer, w)
    PROVE  \/ Rotated(g) /\ answer = "ok" /\ w = Pair(live + 1) /\ UNCHANGED faults
           \/ Rotated(g) /\ answer = "unreachable" /\ w = NoWrites /\ faults' = faults + 1
           \/ Replayed(g) /\ answer = "ok" /\ w = AccessOnly
           \/ Ended(g) /\ answer = "refused" /\ w = NoCookies /\ UNCHANGED faults
           \/ Ended(g) /\ answer = "unreachable" /\ w = NoWrites /\ faults' = faults + 1
           \/ Nothing /\ answer = "unreachable" /\ w = NoWrites
           \/ Nothing /\ answer = "error" /\ w = NoCookies /\ "error" \in FaultKinds
<1>1. ASSUME NEW a, NEW l, RefreshAt(g, a, l)
      PROVE  \/ Rotated(g) /\ a = "ok" /\ l = Pair(live + 1)
             \/ /\ ~over /\ g # live /\ UNCHANGED api
                /\ a = "ok" /\ l = AccessOnly
             \/ /\ over' = TRUE /\ UNCHANGED <<live, spentAt>>
                /\ over \/ (g # live /\ ~Forgiven(g))
                /\ a = "refused" /\ l = NoCookies
  <2>1. CASE Rotates(g, a, l)
    <3>1. live + 1 \in Gens
      BY <2>1, RenewalFields, Settings DEF Rotates, Gens
    <3> QED
      BY <2>1, <3>1 DEF Rotates, Rotated, Pair
  <2>2. CASE Replays(g, a, l)
    BY <2>2 DEF Replays, AccessOnly, api
  <2>3. CASE Refuses(g, a, l)
    BY <2>3 DEF Refuses
  <2> QED
    BY <1>1, <2>1, <2>2, <2>3 DEF RefreshAt
<1>2. CASE RefreshAt(g, answer, w) /\ UNCHANGED faults
  <2>1. \/ Rotated(g) /\ answer = "ok" /\ w = Pair(live + 1)
        \/ /\ ~over /\ g # live /\ UNCHANGED api
           /\ answer = "ok" /\ w = AccessOnly
        \/ /\ over' = TRUE /\ UNCHANGED <<live, spentAt>>
           /\ over \/ (g # live /\ ~Forgiven(g))
           /\ answer = "refused" /\ w = NoCookies
    BY <1>1, <1>2
  <2> QED
    BY <1>2, <2>1 DEF Replayed, Ended
<1>3. CASE /\ Fault("unreachable") /\ answer = "unreachable" /\ w = NoWrites
           /\ \/ UNCHANGED api
              \/ \E a \in {"ok", "refused"}, l \in {NoCookies,
                      [refresh |-> live + 1, access |-> NewAccess],
                      [refresh |-> Keep, access |-> NewAccess]} : RefreshAt(g, a, l)
  <2>1. faults' = faults + 1
    BY <1>3 DEF Fault
  <2>2. CASE UNCHANGED api
    BY <1>3, <2>1, <2>2 DEF Nothing, api
  <2>3. CASE \E a \in {"ok", "refused"}, l \in {NoCookies,
                      [refresh |-> live + 1, access |-> NewAccess],
                      [refresh |-> Keep, access |-> NewAccess]} : RefreshAt(g, a, l)
    <3>1. PICK a \in {"ok", "refused"}, l \in {NoCookies,
                      [refresh |-> live + 1, access |-> NewAccess],
                      [refresh |-> Keep, access |-> NewAccess]} : RefreshAt(g, a, l)
      BY <2>3
    <3>2. \/ Rotated(g)
          \/ UNCHANGED api
          \/ /\ over' = TRUE /\ UNCHANGED <<live, spentAt>>
             /\ over \/ (g # live /\ ~Forgiven(g))
      BY <3>1, <1>1
    <3> QED
      BY <1>3, <2>1, <3>2 DEF Nothing, Ended, api
  <2> QED
    BY <1>3, <2>2, <2>3
<1>4. CASE Fault("error") /\ answer = "error" /\ w = NoCookies /\ UNCHANGED api
  BY <1>4 DEF Fault, Nothing, api
<1> QED
  BY <1>2, <1>3, <1>4 DEF Refreshing

\* What a renewal makes of its handler: the handler moves on with the cookies
\* of a rotation, with those of a replay, with its own, or with none.
Renewal(r, h) ==
    LET s == handler[r].sees
        w == handler[r].writes
        g == s.refresh
        Same == h.sees = s /\ h.writes = w
        Cleared == h.writes = NoCookies /\ h.sees \in {s, NoCookies}
    IN  \/ Rotated(g) /\ UNCHANGED faults /\ h.sees = Pair(live + 1) /\ h.writes = Pair(live + 1)
        \/ Rotated(g) /\ Same /\ (faults' = faults + 1 \/ (UNCHANGED faults /\ handler[r].pc = "render"))
        \/ /\ Replayed(g) /\ h.sees = [refresh |-> g, access |-> NewAccess]
           /\ h.writes \in {AccessOnly, [refresh |-> w.refresh, access |-> NewAccess]}
        \/ Replayed(g) /\ Same /\ handler[r].pc = "render"
        \/ Ended(g) /\ faults' \in {faults, faults + 1} /\ (Same \/ Cleared)
        \/ Nothing /\ Same
        \/ Nothing /\ h.sees = NoCookies /\ h.writes = NoCookies /\ "error" \in FaultKinds

LEMMA RenewalStep ==
    ASSUME RenewalTypeOK, NEW r \in Handlers, ProxyRenews(r) \/ RenderRenews(r)
    PROVE  /\ UNCHANGED <<now, jar>>
           /\ handler[r].pc \in {"proxy", "render"}
           /\ IF handler[r].pc = "proxy" THEN handler[r].sees.access < now + Margin
                                         ELSE /\ handler[r].sees.access <= now
                                              /\ handler[r].sees.refresh # NoCookie
           /\ \E h \in HandlerStates :
                /\ handler' = [handler EXCEPT ![r] = h]
                /\ h.pc \in {"render", "respond"} /\ h.born = handler[r].born
                /\ h.route = handler[r].route
                /\ Renewal(r, h)
<1> DEFINE o == handler[r]
           g == o.sees.refresh
           Moved(pc, sees, writes) == [o EXCEPT !.pc = pc, !.sees = sees, !.writes = writes]
           Fits(h) == /\ h \in HandlerStates /\ h.pc \in {"render", "respond"}
                      /\ h.born = o.born /\ h.route = o.route
<1>0. /\ o \in HandlerStates /\ o.sees \in Cookies /\ o.writes \in Writes
      /\ NewAccess \in 0..(now + AccessTtl)
  BY RenewalFields
<1>1. /\ g \in Gens \cup {NoCookie} /\ o.sees.access \in 0..(now + AccessTtl)
      /\ o.writes.refresh \in Gens \cup {NoCookie, Keep}
      /\ o.writes.access \in 0..(now + AccessTtl) \cup {Keep}
      /\ o.sees = [refresh |-> g, access |-> o.sees.access]
      /\ o.writes = [refresh |-> o.writes.refresh, access |-> o.writes.access]
  BY <1>0 DEF Cookies, Writes
<1>2. now \in Nat /\ AccessTtl \in Nat /\ 0 \in 0..(now + AccessTtl)
  BY RenewalFields, Settings
<1>3. NoCookies \in Cookies /\ NoCookies \in Writes
  BY <1>2 DEF NoCookies, Cookies, Writes
<1>4. AccessOnly \in Writes /\ [refresh |-> o.writes.refresh, access |-> NewAccess] \in Writes
  BY <1>0, <1>1 DEF AccessOnly, Writes
<1>5. [refresh |-> g, access |-> NewAccess] \in Cookies
  BY <1>0, <1>1 DEF Cookies
<1>6. ASSUME live + 1 \in Gens PROVE Pair(live + 1) \in Cookies /\ Pair(live + 1) \in Writes
  BY <1>0, <1>6 DEF Pair, Cookies, Writes
<1>7. ASSUME NEW pc \in {"render", "respond"}, NEW sees \in Cookies, NEW writes \in Writes
      PROVE  /\ Fits(Moved(pc, sees, writes))
             /\ Moved(pc, sees, writes).sees = sees
             /\ Moved(pc, sees, writes).writes = writes
  BY <1>0 DEF HandlerStates
<1> HIDE DEF Moved, Fits
<1>9. /\ Written(o.sees, NoWrites) = o.sees /\ Both(o.writes, NoWrites) = o.writes
      /\ Written(o.sees, NoCookies) = NoCookies /\ Both(o.writes, NoCookies) = NoCookies
      /\ Written(o.sees, AccessOnly) = [refresh |-> g, access |-> NewAccess]
      /\ Both(o.writes, AccessOnly) = [refresh |-> o.writes.refresh, access |-> NewAccess]
      /\ live + 1 \in Gens => /\ Written(o.sees, Pair(live + 1)) = Pair(live + 1)
                              /\ Both(o.writes, Pair(live + 1)) = Pair(live + 1)
  <2>1. 0 # Keep /\ NoCookie # Keep /\ (live + 1 \in Gens => live + 1 # Keep) /\ NewAccess # Keep
    BY <1>0, <1>2, Settings
  <2> QED
    BY <1>1, <2>1 DEF Written, Both, NoWrites, NoCookies, AccessOnly, Pair
<1>10. CASE ProxyRenews(r)
  <2>1. PICK answer \in Answers, w \in Lines :
              /\ Refreshing(g, answer, w)
              /\ handler' = [handler EXCEPT ![r] =
                   IF answer = "ok"
                   THEN [o EXCEPT !.pc = "render", !.sees = Written(o.sees, w), !.writes = w]
                   ELSE IF EndsSession(answer) /\ o.route = "guarded"
                   THEN [o EXCEPT !.pc = "respond", !.writes = NoCookies]
                   ELSE [o EXCEPT !.pc = "render"]]
    BY <1>10 DEF ProxyRenews
  <2> DEFINE hok == Moved("render", Written(o.sees, w), w)
             hend == Moved("respond", o.sees, NoCookies)
             hsame == Moved("render", o.sees, o.writes)
  <2>3. Fits(hend) /\ hend.sees = o.sees /\ hend.writes = NoCookies
    BY <1>0, <1>3, <1>7
  <2>4. Fits(hsame) /\ hsame.sees = o.sees /\ hsame.writes = o.writes
    BY <1>0, <1>7
  <2>5. w \in Writes /\ Written(o.sees, w) \in Cookies
          => Fits(hok) /\ hok.sees = Written(o.sees, w) /\ hok.writes = w
    BY <1>7
  <2>8. /\ [o EXCEPT !.pc = "render", !.sees = Written(o.sees, w), !.writes = w] = hok
        /\ [o EXCEPT !.pc = "respond", !.writes = NoCookies] = hend
        /\ [o EXCEPT !.pc = "render"] = hsame
    BY <1>0 DEF HandlerStates, Moved
  <2> HIDE DEF hok, hend, hsame
  <2>6. handler' = [handler EXCEPT ![r] = IF answer = "ok" THEN hok
              ELSE IF EndsSession(answer) /\ o.route = "guarded" THEN hend ELSE hsame]
    BY <2>1, <2>8
  <2>7. \E h : Fits(h) /\ handler' = [handler EXCEPT ![r] = h] /\ Renewal(r, h)
    <3>0. \/ Rotated(g) /\ answer = "ok" /\ w = Pair(live + 1) /\ UNCHANGED faults
          \/ Rotated(g) /\ answer = "unreachable" /\ w = NoWrites /\ faults' = faults + 1
          \/ Replayed(g) /\ answer = "ok" /\ w = AccessOnly
          \/ Ended(g) /\ answer = "refused" /\ w = NoCookies /\ UNCHANGED faults
          \/ Ended(g) /\ answer = "unreachable" /\ w = NoWrites /\ faults' = faults + 1
          \/ Nothing /\ answer = "unreachable" /\ w = NoWrites
          \/ Nothing /\ answer = "error" /\ w = NoCookies /\ "error" \in FaultKinds
      BY <2>1, RefreshOutcomes
    <3>1. CASE Rotated(g) /\ answer = "ok" /\ w = Pair(live + 1) /\ UNCHANGED faults
      <4>1. Rotated(g) => live + 1 \in Gens
        BY DEF Rotated
      <4> QED
        BY <3>1, <4>1, <2>5, <2>6, <1>6, <1>9 DEF Renewal
    <3>2. CASE Rotated(g) /\ answer = "unreachable" /\ w = NoWrites /\ faults' = faults + 1
      BY <3>2, <2>4, <2>6 DEF Renewal, EndsSession
    <3>3. CASE Replayed(g) /\ answer = "ok" /\ w = AccessOnly
      BY <3>3, <2>5, <2>6, <1>4, <1>5, <1>9 DEF Renewal
    <3>4. CASE Ended(g) /\ answer = "refused" /\ w = NoCookies /\ UNCHANGED faults
      BY <3>4, <2>3, <2>4, <2>6 DEF Renewal, EndsSession
    <3>5. CASE Ended(g) /\ answer = "unreachable" /\ w = NoWrites /\ faults' = faults + 1
      BY <3>5, <2>4, <2>6 DEF Renewal, EndsSession
    <3>6. CASE Nothing /\ answer = "unreachable" /\ w = NoWrites
      BY <3>6, <2>4, <2>6 DEF Renewal, EndsSession
    <3>7. CASE Nothing /\ answer = "error" /\ w = NoCookies /\ "error" \in FaultKinds
      BY <3>7, <2>4, <2>6 DEF Renewal, EndsSession
    <3> QED
      BY <3>0, <3>1, <3>2, <3>3, <3>4, <3>5, <3>6, <3>7
  <2> QED
    BY <1>10, <2>7 DEF ProxyRenews, NeedsRefresh, Fits
<1>11. CASE RenderRenews(r)
  <2>1. PICK answer \in Answers, w \in Lines :
              /\ Refreshing(g, answer, w)
              /\ handler' = [handler EXCEPT ![r] =
                   IF o.route = "action"
                   THEN [o EXCEPT !.sees = Written(o.sees, w), !.writes = Both(o.writes, w)]
                   ELSE o]
    BY <1>11 DEF RenderRenews
  <2>2. o.pc = "render" /\ o.sees.access <= now /\ g # NoCookie /\ UNCHANGED <<now, jar>>
    BY <1>11 DEF RenderRenews
  <2> DEFINE hact == Moved("render", Written(o.sees, w), Both(o.writes, w))
  <2>3. Fits(o)
    BY <1>0, <2>2 DEF Fits
  <2>5. Written(o.sees, w) \in Cookies /\ Both(o.writes, w) \in Writes
          => /\ Fits(hact) /\ hact.sees = Written(o.sees, w) /\ hact.writes = Both(o.writes, w)
    BY <1>7
  <2>8. [o EXCEPT !.sees = Written(o.sees, w), !.writes = Both(o.writes, w)] = hact
    BY <1>0, <2>2 DEF HandlerStates, Moved
  <2> HIDE DEF hact
  <2>6. handler' = [handler EXCEPT ![r] = IF o.route = "action" THEN hact ELSE o]
    BY <2>1, <2>8
  <2>7. \E h : Fits(h) /\ handler' = [handler EXCEPT ![r] = h] /\ Renewal(r, h)
    <3>0. \/ Rotated(g) /\ answer = "ok" /\ w = Pair(live + 1) /\ UNCHANGED faults
          \/ Rotated(g) /\ answer = "unreachable" /\ w = NoWrites /\ faults' = faults + 1
          \/ Replayed(g) /\ answer = "ok" /\ w = AccessOnly
          \/ Ended(g) /\ answer = "refused" /\ w = NoCookies /\ UNCHANGED faults
          \/ Ended(g) /\ answer = "unreachable" /\ w = NoWrites /\ faults' = faults + 1
          \/ Nothing /\ answer = "unreachable" /\ w = NoWrites
          \/ Nothing /\ answer = "error" /\ w = NoCookies /\ "error" \in FaultKinds
      BY <2>1, RefreshOutcomes
    <3>1. CASE Rotated(g) /\ answer = "ok" /\ w = Pair(live + 1) /\ UNCHANGED faults
      <4>1. Rotated(g) => live + 1 \in Gens
        BY DEF Rotated
      <4> QED
        BY <3>1, <4>1, <2>2, <2>3, <2>5, <2>6, <1>6, <1>9 DEF Renewal
    <3>2. CASE Rotated(g) /\ answer = "unreachable" /\ w = NoWrites /\ faults' = faults + 1
      BY <3>2, <2>3, <2>5, <2>6, <1>0, <1>9 DEF Renewal
    <3>3. CASE Replayed(g) /\ answer = "ok" /\ w = AccessOnly
      BY <3>3, <2>2, <2>3, <2>5, <2>6, <1>4, <1>5, <1>9 DEF Renewal
    <3>4. CASE Ended(g) /\ answer = "refused" /\ w = NoCookies /\ UNCHANGED faults
      BY <3>4, <2>3, <2>5, <2>6, <1>3, <1>9 DEF Renewal
    <3>5. CASE Ended(g) /\ answer = "unreachable" /\ w = NoWrites /\ faults' = faults + 1
      BY <3>5, <2>3, <2>5, <2>6, <1>0, <1>9 DEF Renewal
    <3>6. CASE Nothing /\ answer = "unreachable" /\ w = NoWrites
      BY <3>6, <2>3, <2>5, <2>6, <1>0, <1>9 DEF Renewal
    <3>7. CASE Nothing /\ answer = "error" /\ w = NoCookies /\ "error" \in FaultKinds
      BY <3>7, <2>3, <2>5, <2>6, <1>3, <1>9 DEF Renewal
    <3> QED
      BY <3>0, <3>1, <3>2, <3>3, <3>4, <3>5, <3>6, <3>7
  <2> QED
    BY <2>2, <2>7 DEF Fits
<1> QED
  BY <1>10, <1>11

LEMMA RefreshTyped ==
    ASSUME RenewalTypeOK, NEW g, NEW answer, NEW w, Refreshing(g, answer, w)
    PROVE  /\ live' \in Gens /\ over' \in BOOLEAN /\ faults' \in 0..MaxFaults
           /\ spentAt' \in [Gens -> 0..now]
<1>1. faults' \in 0..MaxFaults
  <2>1. ASSUME NEW kind, Fault(kind) PROVE faults' \in 0..MaxFaults
    BY <2>1, Settings DEF Fault, RenewalTypeOK
  <2> QED
    BY <2>1 DEF Refreshing, RenewalTypeOK
<1>2. now \in 0..now
  BY RenewalFields
<1>3. live' \in Gens /\ over' \in BOOLEAN /\ spentAt' \in [Gens -> 0..now]
  <2>1. CASE Rotated(g)
    BY <1>2, <2>1 DEF Rotated, RenewalTypeOK
  <2>2. CASE Replayed(g) \/ Ended(g) \/ Nothing
    BY <2>2 DEF Replayed, Ended, Nothing, api, RenewalTypeOK
  <2> QED
    BY <2>1, <2>2, RefreshOutcomes
<1> QED
  BY <1>1, <1>3

\* A step that moves one handler and keeps the rest typed.
LEMMA HandlerMoves ==
    ASSUME RenewalTypeOK, NEW r \in Handlers, NEW h \in HandlerStates,
           handler' = [handler EXCEPT ![r] = h], now' = now, jar' \in Cookies,
           live' \in Gens, over' \in BOOLEAN, faults' \in 0..MaxFaults,
           spentAt' \in [Gens -> 0..now]
    PROVE  /\ RenewalTypeOK'
           /\ handler'[r] = h
           /\ \A q \in Handlers : q # r => handler'[q] = handler[q]
<1>1. Cookies' = Cookies /\ Writes' = Writes
  BY DEF Cookies, Writes
<1>2. handler' \in [Handlers -> HandlerStates]
  BY DEF RenewalTypeOK, HandlerStates
<1> QED
  BY <1>1, <1>2 DEF RenewalTypeOK, HandlerStates

LEMMA NoRequestTyped ==
    ASSUME RenewalTypeOK
    PROVE  /\ NoRequest \in HandlerStates
           /\ NoRequest.pc = "idle" /\ NoRequest.sees.refresh \notin Gens
           /\ NoRequest.writes = NoWrites
<1>1. 0 \in 0..now /\ 0 \in 0..(now + AccessTtl)
  BY RenewalFields, Settings
<1>2. NoCookies \in Cookies /\ NoWrites \in Writes
  BY <1>1 DEF NoCookies, Cookies, NoWrites, Writes
<1> QED
  BY <1>1, <1>2, Settings DEF NoRequest, HandlerStates, NoCookies

LEMMA WrittenTyped ==
    ASSUME NEW c \in Cookies, NEW w \in Writes
    PROVE  Written(c, w) \in Cookies
BY DEF Cookies, Writes, Written

-----------------------------------------------------------------------------
(* Renewal: whatever the settings *)

\* A free handler holds nothing, a proxied one a refresh token.
IdleIsClear == \A r \in Handlers : handler[r].pc = "idle" => handler[r] = NoRequest
ProxiesHoldTokens == \A r \in Handlers : handler[r].pc = "proxy" => handler[r].sees.refresh \in Gens

\* No request is older than MaxTransit.
AnsweredInTime ==
    \A r \in Handlers : handler[r] # NoRequest => now <= handler[r].born + MaxTransit

\* Nobody holds a token the API has not issued.
NothingFromTheFuture ==
    /\ jar.refresh \in Gens => jar.refresh <= live
    /\ \A r \in Handlers :
         /\ handler[r].sees.refresh \in Gens => handler[r].sees.refresh <= live
         /\ handler[r].writes.refresh \in Gens => handler[r].writes.refresh <= live

RenewalBase ==
    /\ RenewalTypeOK
    /\ IdleIsClear
    /\ ProxiesHoldTokens
    /\ AnsweredInTime
    /\ NothingFromTheFuture

\* What the response of r brings the browser: a rotated token, or an access
\* cookie alone.
NewPair(r) == handler[r].writes.refresh \in Gens
ReplayOf(r) == handler[r].writes.refresh = Keep /\ handler[r].writes.access # Keep

\* A step of a handler that leaves the API alone and moves nothing but its pc.
LEMMA MovesOn ==
    ASSUME RenewalTypeOK, NEW r \in Handlers, ProxyPasses(r) \/ Finish(r)
    PROVE  \E h \in HandlerStates :
             /\ handler' = [handler EXCEPT ![r] = h]
             /\ handler[r].pc \in {"proxy", "render"} /\ h.pc \in {"render", "respond"}
             /\ h.pc = "render" => handler[r].sees.access >= now + Margin
             /\ h.born = handler[r].born /\ h.sees = handler[r].sees /\ h.writes = handler[r].writes
             /\ UNCHANGED <<now, live, spentAt, over, jar, faults>>
<1>1. handler[r] \in HandlerStates
  BY RenewalFields
<1> DEFINE Moved(pc) == [handler[r] EXCEPT !.pc = pc]
<1>2. ASSUME NEW pc \in {"render", "respond"}
      PROVE  /\ Moved(pc) \in HandlerStates /\ Moved(pc).pc = pc
             /\ Moved(pc).born = handler[r].born
             /\ Moved(pc).sees = handler[r].sees /\ Moved(pc).writes = handler[r].writes
  BY <1>1 DEF HandlerStates
<1>3. CASE ProxyPasses(r)
  <2>1. handler[r].sees.access \in Nat /\ now + Margin \in Nat
    BY RenewalFields, Settings DEF Cookies
  <2>2. handler[r].sees.access >= now + Margin
    BY <1>3, <2>1 DEF ProxyPasses, NeedsRefresh
  <2>3. /\ handler' = [handler EXCEPT ![r] = Moved("render")] /\ handler[r].pc = "proxy"
        /\ UNCHANGED <<now, live, spentAt, over, jar, faults>>
    BY <1>3 DEF ProxyPasses, api
  <2> HIDE DEF Moved
  <2> QED
    BY <1>2, <2>2, <2>3
<1>4. CASE Finish(r)
  <2>1. /\ handler' = [handler EXCEPT ![r] = Moved("respond")] /\ handler[r].pc = "render"
        /\ UNCHANGED <<now, live, spentAt, over, jar, faults>>
    BY <1>4 DEF Finish, api
  <2> HIDE DEF Moved
  <2> QED
    BY <1>2, <2>1
<1> QED
  BY <1>3, <1>4

\* A new request carries the browser's cookies.
LEMMA SendStep ==
    ASSUME RenewalTypeOK, NEW r \in Handlers, NEW route \in Routes, Send(r, route)
    PROVE  \E h \in HandlerStates :
             /\ handler' = [handler EXCEPT ![r] = h]
             /\ h.pc \in {"proxy", "render"}
             /\ h.pc = "render" => route = "open"
             /\ h.born = now /\ h.sees = jar /\ h.writes = NoWrites /\ jar.refresh \in Gens
             /\ UNCHANGED <<now, live, spentAt, over, jar, faults>>
<1> DEFINE h == [NoRequest EXCEPT !.pc = IF route = "open" THEN "render" ELSE "proxy",
                                  !.route = route, !.born = now, !.sees = jar]
<1>1. now \in 0..now /\ jar \in Cookies /\ route \in {"guarded", "open", "action"}
  BY RenewalFields, RenewalAssumption
<1>2. h \in HandlerStates /\ h.pc \in {"proxy", "render"} /\ (h.pc = "render" => route = "open")
  BY <1>1, NoRequestTyped DEF HandlerStates
<1>3. h.born = now /\ h.sees = jar /\ h.writes = NoWrites
  BY NoRequestTyped DEF HandlerStates
<1>4. jar.refresh \in Gens
  BY <1>1 DEF Send, Cookies
<1>5. handler' = [handler EXCEPT ![r] = h] /\ UNCHANGED <<now, live, spentAt, over, jar, faults>>
  BY DEF Send, api
<1> HIDE DEF h
<1> QED
  BY <1>2, <1>3, <1>4, <1>5

LEMMA InitBase == RenewalInit => RenewalBase
<1> SUFFICES ASSUME RenewalInit PROVE RenewalBase
  OBVIOUS
<1> USE DEF RenewalInit
<1>1. 0 \in Gens /\ 0 \in 0..now /\ 0 \in 0..MaxTime /\ 0 \in 0..MaxFaults
  BY Settings DEF Gens
<1>2. jar \in Cookies
  BY <1>1, Settings DEF Cookies
<1>3. NoRequest \in HandlerStates
  <2>1. NoCookies \in Cookies /\ NoWrites \in Writes
    BY Settings DEF NoCookies, Cookies, NoWrites, Writes
  <2> QED
    BY <1>1, <2>1 DEF NoRequest, HandlerStates
<1>4. NoRequest.pc = "idle" /\ NoRequest.sees.refresh \notin Gens
  BY Settings DEF NoRequest, NoCookies
<1>5. RenewalTypeOK
  BY <1>1, <1>2, <1>3 DEF RenewalTypeOK, HandlerStates
<1> QED
  BY <1>4, <1>5, Settings, NoRequestTyped
  DEF RenewalBase, NoWrites, IdleIsClear, ProxiesHoldTokens, AnsweredInTime, NothingFromTheFuture

LEMMA StepBase ==
    ASSUME RenewalBase, [RenewalNext]_renewalVars
    PROVE  RenewalBase'
<1> USE DEF RenewalBase
<1>0. /\ now \in Nat /\ live \in Nat /\ Gens \subseteq Nat /\ MaxTransit \in Nat
      /\ \A r \in Handlers : handler[r].born \in Nat /\ handler[r].born <= now
      /\ live \in Gens /\ over \in BOOLEAN /\ spentAt \in [Gens -> 0..now]
      /\ faults \in 0..MaxFaults /\ jar \in Cookies
  BY RenewalFields, Settings DEF RenewalTypeOK
<1> DEFINE Rest == ProxiesHoldTokens' /\ AnsweredInTime' /\ NothingFromTheFuture' /\ IdleIsClear'
<1>1. ASSUME NEW r \in Handlers, NEW route \in Routes, Send(r, route)
      PROVE  RenewalBase'
  <2>1. PICK h \in HandlerStates :
             /\ handler' = [handler EXCEPT ![r] = h]
             /\ h.pc \in {"proxy", "render"}
             /\ h.born = now /\ h.sees = jar /\ h.writes = NoWrites /\ jar.refresh \in Gens
             /\ UNCHANGED <<now, live, spentAt, over, jar, faults>>
    BY <1>1, SendStep
  <2>2. /\ RenewalTypeOK' /\ handler'[r] = h
        /\ \A q \in Handlers : q # r => handler'[q] = handler[q]
    BY <1>0, <2>1, HandlerMoves
  <2>3. NoWrites.refresh \notin Gens
    BY Settings DEF NoWrites
  <2>4. NothingFromTheFuture'
    BY <1>0, <2>1, <2>2, <2>3 DEF NothingFromTheFuture
  <2> QED
    BY <1>0, <2>1, <2>2, <2>4 DEF IdleIsClear, ProxiesHoldTokens, AnsweredInTime
<1>2. ASSUME NEW r \in Handlers, ProxyPasses(r) \/ Finish(r)
      PROVE  RenewalBase'
  <2>1. PICK h \in HandlerStates :
             /\ handler' = [handler EXCEPT ![r] = h]
             /\ handler[r].pc \in {"proxy", "render"} /\ h.pc \in {"render", "respond"}
             /\ h.born = handler[r].born /\ h.sees = handler[r].sees /\ h.writes = handler[r].writes
             /\ UNCHANGED <<now, live, spentAt, over, jar, faults>>
    BY <1>2, MovesOn
  <2>2. /\ RenewalTypeOK' /\ handler'[r] = h
        /\ \A q \in Handlers : q # r => handler'[q] = handler[q]
    BY <1>0, <2>1, HandlerMoves
  <2>3. handler[r] # NoRequest
    BY <2>1, NoRequestTyped
  <2>4. NothingFromTheFuture'
    BY <1>0, <2>1, <2>2 DEF NothingFromTheFuture
  <2> QED
    BY <1>0, <2>1, <2>2, <2>3, <2>4 DEF IdleIsClear, ProxiesHoldTokens, AnsweredInTime
<1>3. ASSUME NEW r \in Handlers, ProxyRenews(r) \/ RenderRenews(r)
      PROVE  RenewalBase'
  <2>1. PICK h \in HandlerStates :
             /\ handler' = [handler EXCEPT ![r] = h]
             /\ h.pc \in {"render", "respond"} /\ h.born = handler[r].born
             /\ Renewal(r, h)
    BY <1>3, RenewalStep
  <2>2. UNCHANGED <<now, jar>> /\ handler[r].pc \in {"proxy", "render"}
    BY <1>3, RenewalStep
  <2>3. /\ live' \in Gens /\ over' \in BOOLEAN /\ faults' \in 0..MaxFaults
        /\ spentAt' \in [Gens -> 0..now]
    BY <1>3, RefreshTyped DEF ProxyRenews, RenderRenews
  <2>4. /\ RenewalTypeOK' /\ handler'[r] = h
        /\ \A q \in Handlers : q # r => handler'[q] = handler[q]
    BY <1>0, <2>1, <2>2, <2>3, HandlerMoves
  <2>5. handler[r] # NoRequest
    BY <2>2, NoRequestTyped
  <2>6. live' \in Nat /\ live <= live'
    BY <1>0, <2>1, <2>3 DEF Renewal, Rotated, Replayed, Ended, Nothing, api
  <2>7. /\ h.sees.refresh \in Gens => h.sees.refresh <= live'
        /\ h.writes.refresh \in Gens => h.writes.refresh <= live'
    <3>1. /\ NoCookies.refresh = NoCookie /\ NoCookie \notin Gens
          /\ AccessOnly.refresh = Keep /\ Keep \notin Gens
          /\ Pair(live + 1).refresh = live + 1
      BY Settings DEF NoCookies, AccessOnly, Pair
    <3>2. /\ \/ h.sees = Pair(live + 1) /\ live' = live + 1
             \/ h.sees.refresh = handler[r].sees.refresh
             \/ h.sees = NoCookies
          /\ \/ h.writes = Pair(live + 1) /\ live' = live + 1
             \/ h.writes.refresh = handler[r].writes.refresh
             \/ h.writes \in {NoCookies, AccessOnly}
      BY <2>1 DEF Renewal, Rotated
    <3>0. ASSUME NEW g \in Gens, g <= live PROVE g <= live'
      BY <1>0, <2>6, <3>0
    <3>3. /\ handler[r].sees.refresh \in Gens => handler[r].sees.refresh <= live'
          /\ handler[r].writes.refresh \in Gens => handler[r].writes.refresh <= live'
      BY <3>0 DEF NothingFromTheFuture
    <3> QED
      BY <1>0, <2>6, <3>1, <3>2, <3>3
  <2>8. NothingFromTheFuture'
    <3>1. ASSUME NEW g \in Gens, g <= live PROVE g <= live'
      BY <1>0, <2>6, <3>1
    <3>2. ASSUME NEW q \in Handlers, q # r
          PROVE  /\ handler'[q].sees.refresh \in Gens => handler'[q].sees.refresh <= live'
                 /\ handler'[q].writes.refresh \in Gens => handler'[q].writes.refresh <= live'
      BY <2>4, <3>1, <3>2 DEF NothingFromTheFuture
    <3>3. Gens' = Gens /\ jar' = jar
      BY <2>2 DEF Gens
    <3> QED
      BY <2>4, <2>7, <3>1, <3>2, <3>3 DEF NothingFromTheFuture
  <2> QED
    BY <1>0, <2>1, <2>2, <2>4, <2>5, <2>8 DEF IdleIsClear, ProxiesHoldTokens, AnsweredInTime
<1>4. ASSUME NEW r \in Handlers, Respond(r) \/ Lose(r)
      PROVE  RenewalBase'
  <2>1. /\ handler' = [handler EXCEPT ![r] = NoRequest]
        /\ UNCHANGED <<now, live, spentAt, over>> /\ faults' \in 0..MaxFaults
        /\ jar' \in {jar, Written(jar, handler[r].writes)}
    BY <1>0, <1>4, Settings DEF Respond, Lose, Fault, api
  <2>2. jar' \in Cookies
    BY <1>0, <2>1, RenewalFields, WrittenTyped
  <2>3. /\ RenewalTypeOK' /\ handler'[r] = NoRequest
        /\ \A q \in Handlers : q # r => handler'[q] = handler[q]
    BY <1>0, <2>1, <2>2, HandlerMoves, NoRequestTyped
  <2>4. /\ NoRequest.pc = "idle" /\ NoRequest.sees.refresh \notin Gens
        /\ NoRequest.writes.refresh = Keep /\ Keep \notin Gens
    BY NoRequestTyped, Settings DEF NoWrites
  <2>5. jar'.refresh \in {jar.refresh, handler[r].writes.refresh}
    BY <2>1 DEF Written
  <2>6. NothingFromTheFuture'
    BY <1>0, <2>1, <2>3, <2>4, <2>5 DEF NothingFromTheFuture
  <2> QED
    BY <1>0, <2>1, <2>3, <2>4, <2>6 DEF IdleIsClear, ProxiesHoldTokens, AnsweredInTime
<1>5. CASE Tick
  <2>1. /\ now' = now + 1 /\ now' \in 0..MaxTime /\ now' \in Nat
        /\ UNCHANGED <<live, spentAt, over, jar, handler, faults>>
    BY <1>0, <1>5, Settings DEF Tick, api, RenewalTypeOK
  <2>2. jar \in Cookies' /\ HandlerStates \subseteq HandlerStates'
    <3>1. 0..now \subseteq 0..now' /\ 0..(now + AccessTtl) \subseteq 0..(now' + AccessTtl)
      BY <1>0, <2>1, Settings
    <3>2. Cookies \subseteq Cookies' /\ Writes \subseteq Writes'
      BY <3>1 DEF Cookies, Writes
    <3> QED
      BY <1>0, <3>1, <3>2 DEF HandlerStates
  <2>3. handler' \in [Handlers -> HandlerStates']
    BY <2>1, <2>2 DEF RenewalTypeOK, HandlerStates
  <2>4. spentAt' \in [Gens -> 0..now']
    BY <1>0, <2>1
  <2>5. RenewalTypeOK'
    BY <2>1, <2>2, <2>3, <2>4 DEF RenewalTypeOK, HandlerStates
  <2>6. AnsweredInTime'
    BY <1>0, <1>5, <2>1 DEF Tick, AnsweredInTime
  <2> QED
    BY <2>1, <2>5, <2>6 DEF IdleIsClear, ProxiesHoldTokens, NothingFromTheFuture, NoRequest, NoCookies
<1>6. CASE UNCHANGED renewalVars
  <2>1. UNCHANGED <<now, live, spentAt, over, jar, handler, faults>>
    BY <1>6 DEF renewalVars, api
  <2>2. HandlerStates' = HandlerStates /\ Cookies' = Cookies
    BY <2>1 DEF HandlerStates, Cookies, Writes
  <2>3. RenewalTypeOK'
    BY <2>1, <2>2 DEF RenewalTypeOK, HandlerStates
  <2> QED
    BY <2>1, <2>3 DEF IdleIsClear, ProxiesHoldTokens, AnsweredInTime, NothingFromTheFuture
<1> QED
  BY <1>1, <1>2, <1>3, <1>4, <1>5, <1>6 DEF RenewalNext

\* The types, whatever the settings.
THEOREM RenewalTypeCorrect == RenewalSpec => []RenewalTypeOK
<1>1. RenewalInit => RenewalBase
  BY InitBase
<1>2. RenewalBase /\ [RenewalNext]_renewalVars => RenewalBase'
  BY StepBase
<1>3. RenewalBase => RenewalTypeOK
  BY DEF RenewalBase
<1> QED
  BY <1>1, <1>2, <1>3, PTL DEF RenewalSpec

-----------------------------------------------------------------------------
(* Renewal: only the API signs a browser out *)

ClearedOnlyWhenOver ==
    /\ SignedOutOnlyWhenOver
    /\ \A r \in Handlers : handler[r].writes.refresh = NoCookie => over

LEMMA StepCleared ==
    ASSUME "error" \notin FaultKinds, RenewalBase, ClearedOnlyWhenOver,
           [RenewalNext]_renewalVars
    PROVE  ClearedOnlyWhenOver'
<1> USE DEF ClearedOnlyWhenOver, SignedOutOnlyWhenOver
<1>0. RenewalTypeOK /\ over \in BOOLEAN
  BY RenewalFields DEF RenewalBase
<1>1. NoWrites.refresh = Keep /\ AccessOnly.refresh = Keep /\ Keep # NoCookie
  BY Settings DEF NoWrites, AccessOnly
<1>2. ASSUME NEW r \in Handlers, NEW h, handler' = [handler EXCEPT ![r] = h]
      PROVE  /\ handler'[r] = h
             /\ \A q \in Handlers : q # r => handler'[q] = handler[q]
  BY <1>0, <1>2 DEF RenewalTypeOK
<1>3. ASSUME NEW r \in Handlers, NEW route \in Routes, Send(r, route)
      PROVE  ClearedOnlyWhenOver'
  BY <1>0, <1>1, <1>2, <1>3, SendStep
<1>4. ASSUME NEW r \in Handlers, ProxyPasses(r) \/ Finish(r)
      PROVE  ClearedOnlyWhenOver'
  <2>1. PICK h \in HandlerStates : /\ handler' = [handler EXCEPT ![r] = h]
                                  /\ h.writes = handler[r].writes
                                  /\ UNCHANGED <<over, jar>>
    BY <1>0, <1>4, MovesOn
  <2> QED
    BY <1>2, <2>1
<1>5. ASSUME NEW r \in Handlers, ProxyRenews(r) \/ RenderRenews(r)
      PROVE  ClearedOnlyWhenOver'
  <2>1. PICK h \in HandlerStates : handler' = [handler EXCEPT ![r] = h] /\ Renewal(r, h)
    BY <1>0, <1>5, RenewalStep
  <2>2. jar' = jar
    BY <1>0, <1>5, RenewalStep
  <2>3. over => over'
    BY <2>1 DEF Renewal, Rotated, Replayed, Ended, Nothing, api
  <2>4. \/ h.writes = Pair(live + 1) /\ live + 1 \in Gens
        \/ h.writes.refresh = handler[r].writes.refresh
        \/ h.writes = AccessOnly
        \/ over' = TRUE
    BY <2>1 DEF Renewal, Rotated, Ended
  <2>5. Pair(live + 1).refresh = live + 1 /\ NoCookie \notin Gens
    BY Settings DEF Pair
  <2>6. h.writes.refresh = NoCookie => over'
    BY <1>1, <2>3, <2>4, <2>5
  <2> QED
    BY <1>2, <2>1, <2>2, <2>3, <2>6
<1>6. ASSUME NEW r \in Handlers, Respond(r) \/ Lose(r)
      PROVE  ClearedOnlyWhenOver'
  <2>1. /\ handler' = [handler EXCEPT ![r] = NoRequest] /\ over' = over
        /\ jar' \in {jar, Written(jar, handler[r].writes)}
    BY <1>6 DEF Respond, Lose, api
  <2>2. jar'.refresh \in {jar.refresh, handler[r].writes.refresh}
    BY <2>1 DEF Written
  <2>3. NoRequest.writes.refresh # NoCookie
    BY <1>0, <1>1, NoRequestTyped
  <2> QED
    BY <1>2, <2>1, <2>2, <2>3
<1>7. CASE Tick \/ UNCHANGED renewalVars
  BY <1>7 DEF Tick, renewalVars, api
<1> QED
  BY <1>3, <1>4, <1>5, <1>6, <1>7 DEF RenewalNext

\* "An outage must not sign anyone out": as long as no refresh is answered with
\* an error, the browser loses its refresh cookie only when the API has ended
\* the session, whatever is lost, late or unreachable.
THEOREM SignOutIsTheApis ==
    "error" \notin FaultKinds => (RenewalSpec => []SignedOutOnlyWhenOver)
<1> SUFFICES ASSUME "error" \notin FaultKinds PROVE RenewalSpec => []SignedOutOnlyWhenOver
  OBVIOUS
<1>1. RenewalInit => RenewalBase /\ ClearedOnlyWhenOver
  <2>1. ASSUME RenewalInit PROVE ClearedOnlyWhenOver
    <3>1. jar.refresh # NoCookie
      BY <2>1, Settings DEF RenewalInit
    <3>2. \A r \in Handlers : handler[r].writes.refresh # NoCookie
      BY <2>1, Settings DEF RenewalInit, NoRequest, NoWrites
    <3> QED
      BY <3>1, <3>2 DEF ClearedOnlyWhenOver, SignedOutOnlyWhenOver
  <2> QED
    BY <2>1, InitBase
<1>2. RenewalBase /\ ClearedOnlyWhenOver /\ [RenewalNext]_renewalVars
          => (RenewalBase /\ ClearedOnlyWhenOver)'
  BY StepBase, StepCleared
<1>3. ClearedOnlyWhenOver => SignedOutOnlyWhenOver
  BY DEF ClearedOnlyWhenOver
<1> QED
  BY <1>1, <1>2, <1>3, PTL DEF RenewalSpec

-----------------------------------------------------------------------------
(* Renewal: one rotation per lapse *)

\* When the newest token was issued, 0 standing for the sign-in.
LastRotation == IF live = 0 THEN 0 ELSE spentAt[live - 1]

Old(r) == handler[r].sees.refresh \in Gens /\ handler[r].sees.refresh # live

\* The newest token is with a browser or a request that can present it.
Held == jar.refresh = live \/ \E r \in Handlers : handler[r].sees.refresh = live

\* A pair on its way is the newest one, and nobody else has it yet.
PairsAreNewest ==
    \A r \in Handlers : NewPair(r) =>
        /\ handler[r].writes.refresh = live /\ handler[r].sees.refresh = live
        /\ handler[r].born <= LastRotation
        /\ jar.refresh # live
        /\ \A q \in Handlers : q # r => handler[q].sees.refresh # live

\* An access cookie alone answers an older token.
ReplaysAnswerTheOld == \A r \in Handlers : ReplayOf(r) => Old(r)

\* While the newest token is held, an older one is only in requests sent before
\* it was delivered; and before that only its rotator has it.
OldOnesAreFromBefore ==
    ~over /\ Held => \A r \in Handlers : Old(r) => handler[r].born <= LastRotation + MaxTransit
DeliveredFirst ==
    ~over /\ jar.refresh \in Gens /\ jar.refresh # live =>
        \A r \in Handlers : handler[r].sees.refresh = live => NewPair(r)

\* The access cookie beside the newest token lapses an access token's life
\* after the rotation, or later.
LapsesLate(access) == access >= LastRotation + AccessTtl
NewestIsFresh ==
    ~over =>
        /\ jar.refresh = live => LapsesLate(jar.access)
        /\ \A r \in Handlers :
             /\ handler[r].sees.refresh = live => LapsesLate(handler[r].sees.access)
             /\ NewPair(r) => /\ handler[r].writes.access # Keep
                              /\ LapsesLate(handler[r].writes.access)
             /\ Held /\ ReplayOf(r) => LapsesLate(handler[r].writes.access)

PacedInv ==
    /\ PairsAreNewest
    /\ ReplaysAnswerTheOld
    /\ OldOnesAreFromBefore
    /\ DeliveredFirst
    /\ NewestIsFresh
    /\ RenewalIsPaced

LEMMA LastRotationTyped ==
    ASSUME RenewalTypeOK
    PROVE  LastRotation \in Nat /\ LastRotation <= now
<1>1. live \in Nat /\ (live # 0 => live - 1 \in Gens)
  BY RenewalFields, Settings DEF Gens
<1> QED
  BY <1>1, RenewalFields DEF LastRotation

\* When the newest token is presented for renewal, every request that held an
\* older one has been answered, and every response with a newer cookie is in.
LEMMA RotationIsLate ==
    ASSUME PacedSettings, RenewalBase, PacedInv, ~over,
           NEW r \in Handlers, handler[r].sees.refresh = live,
           handler[r].sees.access < now + Margin
    PROVE  /\ now > LastRotation + AccessTtl - Margin
           /\ \A q \in Handlers : ~Old(q) /\ ~NewPair(q) /\ ~ReplayOf(q)
<1>1. /\ now \in Nat /\ Margin \in Nat /\ AccessTtl \in Nat /\ MaxTransit \in Nat
      /\ LastRotation \in Nat /\ LastRotation <= now
      /\ handler[r].sees.access \in Nat
      /\ \A q \in Handlers : handler[q].born \in Nat
  BY RenewalFields, LastRotationTyped, Settings DEF RenewalBase, Cookies
<1>2. now > LastRotation + AccessTtl - Margin
  BY <1>1 DEF PacedInv, NewestIsFresh, LapsesLate
<1>3. now > LastRotation + MaxTransit + MaxTransit
  BY <1>1, <1>2 DEF PacedSettings
<1>4. Held
  BY DEF Held
<1>5. ASSUME NEW q \in Handlers, handler[q].sees.refresh \in Gens
      PROVE  now <= handler[q].born + MaxTransit
  BY <1>5, NoRequestTyped DEF RenewalBase, AnsweredInTime
<1>6. ASSUME NEW q \in Handlers, Old(q) PROVE FALSE
  <2>1. now <= handler[q].born + MaxTransit /\ handler[q].born <= LastRotation + MaxTransit
    BY <1>4, <1>5, <1>6 DEF PacedInv, OldOnesAreFromBefore, Old
  <2> QED
    BY <1>1, <1>3, <2>1
<1>7. ASSUME NEW q \in Handlers, NewPair(q) PROVE FALSE
  <2>1. /\ handler[q].sees.refresh = live /\ handler[q].born <= LastRotation
    BY <1>7 DEF PacedInv, PairsAreNewest
  <2>2. live \in Gens
    BY RenewalFields DEF RenewalBase
  <2> QED
    BY <1>1, <1>3, <1>5, <2>1, <2>2
<1>8. ASSUME NEW q \in Handlers, ReplayOf(q) PROVE FALSE
  BY <1>6, <1>8 DEF PacedInv, ReplaysAnswerTheOld
<1> QED
  BY <1>2, <1>6, <1>7, <1>8

\* A rotation, whoever learns of its outcome.
LEMMA RotationPaced ==
    ASSUME PacedSettings, RenewalBase, PacedInv, NEW r \in Handlers, NEW h \in HandlerStates,
           handler' = [handler EXCEPT ![r] = h], jar' = jar, now' = now,
           h.born = handler[r].born,
           Rotated(handler[r].sees.refresh), handler[r].sees.access < now + Margin,
           \/ h.sees = Pair(live + 1) /\ h.writes = Pair(live + 1)
           \/ h.sees = handler[r].sees /\ h.writes = handler[r].writes
    PROVE  PacedInv'
<1>1. /\ now \in Nat /\ Margin \in Nat /\ AccessTtl \in Nat /\ MaxTransit \in Nat
      /\ live \in Nat /\ live \in Gens /\ Gens \subseteq Nat
      /\ \A q \in Handlers : handler[q].born \in Nat /\ handler[q].born <= now
  BY RenewalFields, Settings DEF RenewalBase
<1>2. /\ ~over /\ ~over' /\ handler[r].sees.refresh = live
      /\ live' = live + 1 /\ live' \in Gens /\ spentAt' = [spentAt EXCEPT ![live] = now]
  BY DEF Rotated
<1>3. /\ now > LastRotation + AccessTtl - Margin
      /\ \A q \in Handlers : ~Old(q) /\ ~NewPair(q) /\ ~ReplayOf(q)
  BY <1>2, RotationIsLate
<1>4. LastRotation' = now
  <2>1. live' # 0 /\ live' - 1 = live /\ spentAt \in [Gens -> 0..now]
    BY <1>1, <1>2 DEF RenewalBase, RenewalTypeOK
  <2> QED
    BY <1>1, <1>2, <2>1 DEF LastRotation
<1>5. /\ handler'[r] = h /\ \A q \in Handlers : q # r => handler'[q] = handler[q]
  BY DEF RenewalBase, RenewalTypeOK
<1>6. /\ Gens' = Gens /\ jar'.refresh # live'
      /\ \A q \in Handlers : handler[q].sees.refresh # live'
  BY <1>1, <1>2 DEF Gens, RenewalBase, NothingFromTheFuture
<1>7. /\ Pair(live + 1).refresh = live' /\ Pair(live + 1).access = now + AccessTtl
      /\ live' # Keep /\ now + AccessTtl # Keep
  BY <1>1, <1>2, Settings DEF Pair, NewAccess
<1>8. ASSUME NEW q \in Handlers
      PROVE  /\ NewPair(q)' => q = r /\ h.sees = Pair(live + 1) /\ h.writes = Pair(live + 1)
             /\ ~ReplayOf(q)'
             /\ handler'[q].sees.refresh = live' => q = r /\ h.sees = Pair(live + 1)
             /\ handler'[q].born \in Nat /\ handler'[q].born <= now
  BY <1>1, <1>3, <1>5, <1>6, <1>7 DEF NewPair, ReplayOf
<1>9. PairsAreNewest'
  <2> SUFFICES ASSUME NEW q \in Handlers, NewPair(q)'
               PROVE  /\ handler'[q].writes.refresh = live' /\ handler'[q].sees.refresh = live'
                      /\ handler'[q].born <= LastRotation'
                      /\ jar'.refresh # live'
                      /\ \A p \in Handlers : p # q => handler'[p].sees.refresh # live'
    BY DEF PairsAreNewest
  <2> QED
    BY <1>4, <1>5, <1>6, <1>7, <1>8
<1>10. ReplaysAnswerTheOld'
  BY <1>8 DEF ReplaysAnswerTheOld
<1>11. OldOnesAreFromBefore'
  BY <1>1, <1>4, <1>8 DEF OldOnesAreFromBefore
<1>12. DeliveredFirst'
  <2> SUFFICES ASSUME NEW q \in Handlers, handler'[q].sees.refresh = live'
               PROVE  NewPair(q)'
    BY DEF DeliveredFirst
  <2>1. q = r /\ h.sees = Pair(live + 1)
    BY <1>8
  <2>2. h.writes = Pair(live + 1)
    BY <1>5, <1>6, <1>7, <2>1
  <2> QED
    BY <1>2, <1>5, <1>6, <1>7, <2>1, <2>2 DEF NewPair
<1>13. NewestIsFresh'
  <2>1. LapsesLate(now + AccessTtl)'
    BY <1>1, <1>4 DEF LapsesLate
  <2>2. ASSUME NEW q \in Handlers
        PROVE  /\ handler'[q].sees.refresh = live' => LapsesLate(handler[q].sees.access)'
               /\ NewPair(q)' => /\ handler'[q].writes.access # Keep
                                 /\ LapsesLate(handler[q].writes.access)'
    BY <1>4, <1>5, <1>7, <1>8, <2>1 DEF LapsesLate
  <2> QED
    BY <1>6, <1>8, <2>2 DEF NewestIsFresh
<1>14. RenewalIsPaced'
  <2> SUFFICES ASSUME NEW g \in Gens, g + 1 < live'
               PROVE  spentAt'[g + 1] > spentAt'[g] + AccessTtl - Margin
    BY <1>6 DEF RenewalIsPaced
  <2>1. g \in Nat /\ g + 1 \in Gens /\ g # live /\ spentAt \in [Gens -> 0..now]
    BY <1>1, <1>2, Settings DEF Gens, RenewalBase, RenewalTypeOK
  <2>2. CASE g + 1 = live
    <3>1. LastRotation = spentAt[g]
      BY <1>1, <2>1, <2>2 DEF LastRotation
    <3>2. spentAt'[g + 1] = now /\ spentAt'[g] = spentAt[g]
      BY <1>2, <2>1, <2>2
    <3> QED
      BY <1>3, <3>1, <3>2
  <2>3. CASE g + 1 # live
    <3>1. g + 1 < live
      BY <1>1, <1>2, <2>1, <2>3
    <3>2. spentAt'[g + 1] = spentAt[g + 1] /\ spentAt'[g] = spentAt[g]
      BY <1>2, <2>1, <2>3
    <3> QED
      BY <3>1, <3>2 DEF PacedInv, RenewalIsPaced
  <2> QED
    BY <2>2, <2>3
<1> QED
  BY <1>9, <1>10, <1>11, <1>12, <1>13, <1>14 DEF PacedInv

\* A renewal that rotates nothing: the tokens stay where they were, except that
\* they may be cleared, or a replay's access cookie joins an older one.
LEMMA NoRotationPaced ==
    ASSUME RenewalBase, PacedInv, NEW r \in Handlers, NEW h \in HandlerStates,
           handler' = [handler EXCEPT ![r] = h], jar' = jar,
           handler[r].sees.refresh \in Gens,
           h.born = handler[r].born, UNCHANGED <<live, spentAt>>, over => over',
           \/ h.sees = handler[r].sees /\ h.writes = handler[r].writes
           \/ h.writes = NoCookies /\ (h.sees = NoCookies \/ (h.sees = handler[r].sees /\ over'))
           \/ /\ Old(r) /\ h.sees = [refresh |-> handler[r].sees.refresh, access |-> NewAccess]
              /\ h.writes \in {AccessOnly, [refresh |-> handler[r].writes.refresh, access |-> NewAccess]}
    PROVE  PacedInv'
<1>1. /\ handler'[r] = h /\ \A q \in Handlers : q # r => handler'[q] = handler[q]
  BY DEF RenewalBase, RenewalTypeOK
<1>2. /\ now \in Nat /\ AccessTtl \in Nat /\ live \in Gens /\ Gens' = Gens
      /\ LastRotation \in Nat /\ LastRotation <= now /\ LastRotation' = LastRotation
      /\ NoCookie \notin Gens /\ Keep \notin Gens /\ NoCookie # Keep
      /\ NewAccess = now + AccessTtl
  BY RenewalFields, LastRotationTyped, Settings DEF RenewalBase, LastRotation, Gens, NewAccess
<1>3. /\ NoCookies.refresh = NoCookie
      /\ AccessOnly.refresh = Keep /\ AccessOnly.access = NewAccess
  BY DEF NoCookies, AccessOnly
<1>4. LapsesLate(NewAccess)
  BY <1>2 DEF LapsesLate
<1>5. NewAccess # Keep
  BY <1>2, Settings
<1>6. ASSUME NewPair(r)' PROVE NewPair(r) /\ h.sees = handler[r].sees /\ h.writes = handler[r].writes
  <2>1. CASE h.writes = NoCookies
    BY <1>1, <1>2, <1>3, <1>6, <2>1 DEF NewPair
  <2>2. CASE h.sees = handler[r].sees /\ h.writes = handler[r].writes
    BY <1>1, <1>2, <1>6, <2>2 DEF NewPair
  <2>3. CASE Old(r) /\ h.writes.refresh \in {Keep, handler[r].writes.refresh}
    <3>1. NewPair(r)
      BY <1>1, <1>2, <1>6, <2>3 DEF NewPair
    <3> QED
      BY <2>3, <3>1 DEF PacedInv, PairsAreNewest, Old
  <2> QED
    BY <1>3, <2>1, <2>2, <2>3
<1>7. /\ h.sees.refresh \in {handler[r].sees.refresh, NoCookie}
      /\ Old(r)' => Old(r)
      /\ h.sees.refresh = live => h.sees = handler[r].sees
  BY <1>1, <1>2, <1>3 DEF Old
<1>8. ASSUME ReplayOf(r)'
      PROVE  /\ h.sees.refresh = handler[r].sees.refresh /\ Old(r)
             /\ h.writes = handler[r].writes \/ h.writes.access = NewAccess
  <2>1. CASE h.writes = NoCookies
    BY <1>1, <1>2, <1>3, <1>8, <2>1 DEF ReplayOf
  <2>2. CASE h.sees = handler[r].sees /\ h.writes = handler[r].writes
    BY <1>1, <1>8, <2>2 DEF ReplayOf, PacedInv, ReplaysAnswerTheOld
  <2>3. CASE Old(r) /\ h.sees = [refresh |-> handler[r].sees.refresh, access |-> NewAccess]
             /\ h.writes \in {AccessOnly, [refresh |-> handler[r].writes.refresh, access |-> NewAccess]}
    BY <1>3, <2>3
  <2> QED
    BY <2>1, <2>2, <2>3
<1>9. ASSUME NEW q \in Handlers
      PROVE  /\ NewPair(q)' => NewPair(q) /\ handler'[q].sees = handler[q].sees
                                          /\ handler'[q].writes = handler[q].writes
             /\ handler'[q].born = handler[q].born
             /\ Old(q)' => Old(q)
             /\ handler'[q].sees.refresh = live => handler'[q].sees = handler[q].sees
             /\ ReplayOf(q)' => /\ Old(q)'
                                /\ \/ ReplayOf(q) /\ handler'[q].writes = handler[q].writes
                                   \/ handler'[q].writes.access = NewAccess
  <2>1. CASE q = r
    BY <1>1, <1>6, <1>7, <1>8, <2>1 DEF Old, ReplayOf
  <2>2. CASE q # r
    BY <1>1, <1>2, <2>2 DEF Old, ReplayOf, NewPair, PacedInv, ReplaysAnswerTheOld
  <2> QED
    BY <2>1, <2>2
<1>10. Held' => Held
  BY <1>9 DEF Held
<1>11. PairsAreNewest'
  BY <1>2, <1>9 DEF PacedInv, PairsAreNewest
<1>12. ReplaysAnswerTheOld'
  BY <1>9 DEF ReplaysAnswerTheOld
<1>13. OldOnesAreFromBefore'
  BY <1>2, <1>9, <1>10 DEF PacedInv, OldOnesAreFromBefore
<1>14. DeliveredFirst'
  <2> SUFFICES ASSUME ~over', jar.refresh \in Gens, jar.refresh # live,
                      NEW q \in Handlers, handler'[q].sees.refresh = live
               PROVE  NewPair(q)'
    BY <1>2 DEF DeliveredFirst
  <2>1. NewPair(q) /\ ~Old(q)
    BY <1>9 DEF PacedInv, DeliveredFirst, Old
  <2>2. CASE q # r
    BY <1>1, <1>2, <2>1, <2>2 DEF NewPair
  <2>3. CASE q = r /\ h.writes = handler[r].writes
    BY <1>1, <1>2, <2>1, <2>3 DEF NewPair
  <2>4. CASE q = r /\ h.writes = NoCookies
    BY <1>1, <1>2, <1>3, <2>1, <2>4 DEF NewPair
  <2> QED
    BY <2>1, <2>2, <2>3, <2>4
<1>15. NewestIsFresh'
  BY <1>2, <1>4, <1>5, <1>9, <1>10 DEF PacedInv, NewestIsFresh, LapsesLate
<1>16. RenewalIsPaced'
  BY <1>2 DEF PacedInv, RenewalIsPaced
<1> QED
  BY <1>11, <1>12, <1>13, <1>14, <1>15, <1>16 DEF PacedInv

LEMMA StepPaced ==
    ASSUME PacedSettings, RenewalBase, PacedInv, [RenewalNext]_renewalVars
    PROVE  PacedInv'
<1> USE DEF RenewalBase
<1>0. /\ now \in Nat /\ MaxTransit \in Nat /\ live \in Gens /\ Keep \notin Gens /\ Keep # NoCookie
      /\ LastRotation \in Nat /\ \A q \in Handlers : handler[q].born \in Nat
      /\ Gens' = Gens /\ NoCookie \notin Gens
      /\ NoWrites.refresh = Keep /\ NoWrites.access = Keep
  BY RenewalFields, LastRotationTyped, Settings DEF NoWrites, Gens
<1>1. ASSUME NEW r \in Handlers, NEW h \in HandlerStates, handler' = [handler EXCEPT ![r] = h]
      PROVE  handler'[r] = h /\ \A q \in Handlers : q # r => handler'[q] = handler[q]
  BY <1>1 DEF RenewalTypeOK
<1>2. ASSUME UNCHANGED <<live, spentAt, over>>
      PROVE  LastRotation' = LastRotation /\ (RenewalIsPaced => RenewalIsPaced')
  BY <1>0, <1>2 DEF LastRotation, RenewalIsPaced
<1>3. ASSUME NEW r \in Handlers, NEW route \in Routes, Send(r, route)
      PROVE  PacedInv'
  <2>1. PICK h \in HandlerStates :
             /\ handler' = [handler EXCEPT ![r] = h]
             /\ h.born = now /\ h.sees = jar /\ h.writes = NoWrites /\ jar.refresh \in Gens
             /\ UNCHANGED <<now, live, spentAt, over, jar, faults>>
    BY <1>3, SendStep
  <2>2. /\ handler'[r] = h /\ \A q \in Handlers : q # r => handler'[q] = handler[q]
        /\ LastRotation' = LastRotation /\ RenewalIsPaced'
    BY <1>1, <1>2, <2>1 DEF PacedInv
  <2>3. ~NewPair(r)' /\ ~ReplayOf(r)'
    BY <1>0, <2>1, <2>2 DEF NewPair, ReplayOf
  <2>4. ASSUME NEW q \in Handlers, q # r
        PROVE  /\ NewPair(q)' <=> NewPair(q)
               /\ ReplayOf(q)' <=> ReplayOf(q)
               /\ Old(q)' <=> Old(q)
    BY <1>0, <2>1, <2>2, <2>4 DEF NewPair, ReplayOf, Old
  <2>5. Held' => Held
    BY <2>1, <2>2 DEF Held
  <2>6. PairsAreNewest'
    BY <1>0, <2>1, <2>2, <2>3, <2>4 DEF PacedInv, PairsAreNewest
  <2>7. ReplaysAnswerTheOld'
    BY <2>3, <2>4 DEF PacedInv, ReplaysAnswerTheOld
  <2>8. OldOnesAreFromBefore'
    <3>1. ASSUME ~over, Held, jar.refresh # live
          PROVE  now <= LastRotation + MaxTransit
      <4>1. PICK p \in Handlers : handler[p].sees.refresh = live
        BY <3>1 DEF Held
      <4>2. NewPair(p)
        BY <2>1, <3>1, <4>1 DEF PacedInv, DeliveredFirst
      <4>3. handler[p].born <= LastRotation
        BY <4>2 DEF PacedInv, PairsAreNewest
      <4>4. now <= handler[p].born + MaxTransit
        BY <1>0, <4>1, NoRequestTyped DEF AnsweredInTime
      <4> QED
        BY <1>0, <4>3, <4>4
    <3>2. Old(r)' => jar.refresh # live
      BY <2>1, <2>2 DEF Old
    <3> QED
      BY <2>1, <2>2, <2>4, <2>5, <3>1, <3>2 DEF PacedInv, OldOnesAreFromBefore
  <2>9. DeliveredFirst'
    BY <1>0, <2>1, <2>2, <2>4 DEF PacedInv, DeliveredFirst
  <2>10. NewestIsFresh'
    BY <1>0, <2>1, <2>2, <2>3, <2>4, <2>5 DEF PacedInv, NewestIsFresh, LapsesLate
  <2> QED
    BY <2>2, <2>6, <2>7, <2>8, <2>9, <2>10 DEF PacedInv
<1>4. ASSUME NEW r \in Handlers, ProxyPasses(r) \/ Finish(r)
      PROVE  PacedInv'
  <2>1. PICK h \in HandlerStates :
             /\ handler' = [handler EXCEPT ![r] = h]
             /\ h.born = handler[r].born /\ h.sees = handler[r].sees /\ h.writes = handler[r].writes
             /\ UNCHANGED <<now, live, spentAt, over, jar, faults>>
    BY <1>4, MovesOn
  <2>2. /\ \A q \in Handlers : /\ handler'[q].born = handler[q].born
                               /\ handler'[q].sees = handler[q].sees
                               /\ handler'[q].writes = handler[q].writes
        /\ LastRotation' = LastRotation /\ RenewalIsPaced'
    BY <1>1, <1>2, <2>1 DEF PacedInv
  <2>3. /\ \A q \in Handlers : /\ NewPair(q)' <=> NewPair(q)
                               /\ ReplayOf(q)' <=> ReplayOf(q)
                               /\ Old(q)' <=> Old(q)
        /\ Held' <=> Held
    BY <1>0, <2>1, <2>2 DEF NewPair, ReplayOf, Old, Held
  <2>4. PairsAreNewest' /\ ReplaysAnswerTheOld'
    BY <2>1, <2>2, <2>3 DEF PacedInv, PairsAreNewest, ReplaysAnswerTheOld
  <2>5. OldOnesAreFromBefore' /\ DeliveredFirst'
    BY <1>0, <2>1, <2>2, <2>3 DEF PacedInv, OldOnesAreFromBefore, DeliveredFirst
  <2>6. NewestIsFresh'
    BY <2>1, <2>2, <2>3 DEF PacedInv, NewestIsFresh, LapsesLate
  <2> QED
    BY <2>2, <2>4, <2>5, <2>6 DEF PacedInv
<1>5. ASSUME NEW r \in Handlers, ProxyRenews(r) \/ RenderRenews(r)
      PROVE  PacedInv'
  <2>1. PICK h \in HandlerStates :
             /\ handler' = [handler EXCEPT ![r] = h]
             /\ h.born = handler[r].born /\ Renewal(r, h)
    BY <1>5, RenewalStep
  <2>2. /\ UNCHANGED <<now, jar>>
        /\ IF handler[r].pc = "proxy" THEN handler[r].sees.access < now + Margin
                                      ELSE /\ handler[r].sees.access <= now
                                           /\ handler[r].sees.refresh # NoCookie
        /\ handler[r].sees \in Cookies
    BY <1>5, RenewalStep, RenewalFields
  <2>3. handler[r].sees.refresh \in Gens
    BY <2>2 DEF ProxiesHoldTokens, Cookies
  <2>4. handler[r].sees.access < now + Margin
    BY <1>0, <2>2, Settings DEF PacedSettings, Cookies
  <2>5. CASE Rotated(handler[r].sees.refresh)
    <3>1. \/ h.sees = Pair(live + 1) /\ h.writes = Pair(live + 1)
          \/ h.sees = handler[r].sees /\ h.writes = handler[r].writes
      BY <2>1, <2>5 DEF Renewal, Rotated, Replayed, Ended, Nothing, api
    <3> QED
      BY <2>1, <2>2, <2>4, <2>5, <3>1, RotationPaced
  <2>6. CASE ~Rotated(handler[r].sees.refresh)
    <3>1. \/ h.sees = handler[r].sees /\ h.writes = handler[r].writes
          \/ h.writes = NoCookies /\ (h.sees = NoCookies \/ (h.sees = handler[r].sees /\ over'))
          \/ /\ Old(r) /\ h.sees = [refresh |-> handler[r].sees.refresh, access |-> NewAccess]
             /\ h.writes \in {AccessOnly, [refresh |-> handler[r].writes.refresh, access |-> NewAccess]}
      BY <2>1, <2>3, <2>6 DEF Renewal, Replayed, Ended, Old
    <3>2. UNCHANGED <<live, spentAt>> /\ (over => over')
      BY <2>1, <2>6 DEF Renewal, Replayed, Ended, Nothing, api
    <3> QED
      BY <2>1, <2>2, <2>3, <3>1, <3>2, NoRotationPaced
  <2> QED
    BY <2>5, <2>6
<1>6. ASSUME NEW r \in Handlers, Respond(r) \/ Lose(r)
      PROVE  PacedInv'
  <2>1. /\ handler' = [handler EXCEPT ![r] = NoRequest]
        /\ UNCHANGED <<live, spentAt, over>>
        /\ jar' \in {jar, Written(jar, handler[r].writes)}
    BY <1>6 DEF Respond, Lose, api
  <2>2. /\ handler'[r] = NoRequest /\ \A q \in Handlers : q # r => handler'[q] = handler[q]
        /\ LastRotation' = LastRotation /\ RenewalIsPaced'
    BY <1>1, <1>2, <2>1, NoRequestTyped DEF PacedInv
  <2>3. ~NewPair(r)' /\ ~ReplayOf(r)' /\ ~Old(r)' /\ handler'[r].sees.refresh # live
    BY <1>0, <2>1, <2>2, NoRequestTyped DEF NewPair, ReplayOf, Old
  <2>4. ASSUME NEW q \in Handlers, q # r
        PROVE  /\ NewPair(q)' <=> NewPair(q)
               /\ ReplayOf(q)' <=> ReplayOf(q)
               /\ Old(q)' <=> Old(q)
    BY <1>0, <2>1, <2>2, <2>4 DEF NewPair, ReplayOf, Old
  <2>5. \/ jar'.refresh = jar.refresh /\ jar'.access = jar.access
        \/ /\ jar'.refresh = jar.refresh /\ ReplayOf(r) /\ jar'.access = handler[r].writes.access
        \/ /\ NewPair(r) /\ jar'.refresh = live
           /\ handler[r].writes.access # Keep => jar'.access = handler[r].writes.access
        \/ jar'.refresh = NoCookie
    <3>1. handler[r].writes.refresh \in Gens \cup {NoCookie, Keep}
      BY RenewalFields DEF Writes
    <3>2. NewPair(r) => handler[r].writes.refresh = live
      BY DEF PacedInv, PairsAreNewest
    <3> QED
      BY <1>0, <2>1, <3>1, <3>2 DEF Written, ReplayOf, NewPair
  <2>6. NewPair(r) => Held /\ \A q \in Handlers : q # r => handler[q].sees.refresh # live
    BY DEF Held, PacedInv, PairsAreNewest
  <2>7. Held' => Held
    BY <1>0, <2>1, <2>2, <2>3, <2>5, <2>6 DEF Held
  <2>8. PairsAreNewest'
    <3> SUFFICES ASSUME NEW q \in Handlers, NewPair(q)'
                 PROVE  /\ handler'[q].writes.refresh = live /\ handler'[q].sees.refresh = live
                        /\ handler'[q].born <= LastRotation
                        /\ jar'.refresh # live
                        /\ \A p \in Handlers : p # q => handler'[p].sees.refresh # live
      BY <2>1, <2>2 DEF PairsAreNewest
    <3>1. q # r /\ NewPair(q)
      BY <2>3, <2>4
    <3>2. /\ handler[q].writes.refresh = live /\ handler[q].sees.refresh = live
          /\ handler[q].born <= LastRotation
          /\ jar.refresh # live
          /\ \A p \in Handlers : p # q => handler[p].sees.refresh # live
      BY <3>1 DEF PacedInv, PairsAreNewest
    <3>3. jar'.refresh # live
      BY <1>0, <2>5, <2>6, <3>1, <3>2
    <3> QED
      BY <2>2, <2>3, <3>1, <3>2, <3>3
  <2>9. ReplaysAnswerTheOld'
    BY <2>3, <2>4 DEF PacedInv, ReplaysAnswerTheOld
  <2>10. OldOnesAreFromBefore'
    BY <2>1, <2>2, <2>3, <2>4, <2>7 DEF PacedInv, OldOnesAreFromBefore
  <2>11. DeliveredFirst'
    BY <1>0, <2>1, <2>2, <2>3, <2>4, <2>5 DEF PacedInv, DeliveredFirst
  <2>12. NewestIsFresh'
    <3> SUFFICES ASSUME ~over PROVE NewestIsFresh'
      BY <2>1 DEF NewestIsFresh
    <3>1. jar'.refresh = live => LapsesLate(jar.access)'
      <4>1. NewPair(r) => /\ handler[r].writes.access # Keep
                          /\ LapsesLate(handler[r].writes.access)
        BY DEF PacedInv, NewestIsFresh
      <4>2. jar.refresh = live => LapsesLate(jar.access)
        BY DEF PacedInv, NewestIsFresh
      <4>3. jar.refresh = live /\ ReplayOf(r) => LapsesLate(handler[r].writes.access)
        BY DEF PacedInv, NewestIsFresh, Held
      <4> QED
        BY <1>0, <2>2, <2>5, <4>1, <4>2, <4>3 DEF LapsesLate
    <3>2. ASSUME NEW q \in Handlers
          PROVE  /\ handler'[q].sees.refresh = live => LapsesLate(handler[q].sees.access)'
                 /\ NewPair(q)' => /\ handler'[q].writes.access # Keep
                                   /\ LapsesLate(handler[q].writes.access)'
                 /\ Held' /\ ReplayOf(q)' => LapsesLate(handler[q].writes.access)'
      <4>1. CASE q = r
        BY <2>3, <4>1
      <4>2. CASE q # r
        BY <2>2, <2>4, <2>7, <4>2 DEF PacedInv, NewestIsFresh, LapsesLate
      <4> QED
        BY <4>1, <4>2
    <3> QED
      BY <2>1, <3>1, <3>2 DEF NewestIsFresh
  <2> QED
    BY <2>2, <2>8, <2>9, <2>10, <2>11, <2>12 DEF PacedInv
<1>7. CASE Tick \/ UNCHANGED renewalVars
  <2>1. UNCHANGED <<live, spentAt, over, jar, handler>>
    BY <1>7 DEF Tick, renewalVars, api
  <2>2. LastRotation' = LastRotation /\ RenewalIsPaced'
    BY <1>2, <2>1 DEF PacedInv
  <2>3. /\ \A q \in Handlers : /\ NewPair(q)' <=> NewPair(q)
                               /\ ReplayOf(q)' <=> ReplayOf(q)
                               /\ Old(q)' <=> Old(q)
        /\ Held' <=> Held
    BY <1>0, <2>1 DEF NewPair, ReplayOf, Old, Held
  <2>4. PairsAreNewest' /\ ReplaysAnswerTheOld'
    BY <2>1, <2>2, <2>3 DEF PacedInv, PairsAreNewest, ReplaysAnswerTheOld
  <2>5. OldOnesAreFromBefore' /\ DeliveredFirst'
    BY <1>0, <2>1, <2>2, <2>3 DEF PacedInv, OldOnesAreFromBefore, DeliveredFirst
  <2>6. NewestIsFresh'
    BY <2>1, <2>2, <2>3 DEF PacedInv, NewestIsFresh, LapsesLate
  <2> QED
    BY <2>2, <2>4, <2>5, <2>6 DEF PacedInv
<1> QED
  BY <1>3, <1>4, <1>5, <1>6, <1>7 DEF RenewalNext

LEMMA InitPaced == RenewalInit => PacedInv
<1> SUFFICES ASSUME RenewalInit PROVE PacedInv
  OBVIOUS
<1> USE DEF RenewalInit
<1>1. /\ jar.refresh = live /\ jar.access = AccessTtl /\ live = 0 /\ LastRotation = 0
      /\ AccessTtl \in Nat
  BY Settings DEF LastRotation
<1>2. ASSUME NEW r \in Handlers
      PROVE  ~NewPair(r) /\ ~ReplayOf(r) /\ ~Old(r) /\ handler[r].sees.refresh # live
  BY Settings DEF NewPair, ReplayOf, Old, NoRequest, NoCookies, NoWrites
<1>3. RenewalIsPaced
  BY Settings DEF RenewalIsPaced, Gens
<1> QED
  BY <1>1, <1>2, <1>3 DEF PacedInv, PairsAreNewest, ReplaysAnswerTheOld, OldOnesAreFromBefore,
     DeliveredFirst, NewestIsFresh, LapsesLate

\* One rotation per lapse, however many requests find the access token lapsed
\* and whatever is lost, late, unreachable or fails, provided two requests in a
\* row fit between two renewals.
THEOREM OneRotationPerLapse == PacedSettings => (RenewalSpec => []RenewalIsPaced)
<1> SUFFICES ASSUME PacedSettings PROVE RenewalSpec => []RenewalIsPaced
  OBVIOUS
<1>1. RenewalInit => RenewalBase /\ PacedInv
  BY InitBase, InitPaced
<1>2. RenewalBase /\ PacedInv /\ [RenewalNext]_renewalVars => (RenewalBase /\ PacedInv)'
  BY StepBase, StepPaced
<1>3. PacedInv => RenewalIsPaced
  BY DEF PacedInv
<1> QED
  BY <1>1, <1>2, <1>3, PTL DEF RenewalSpec

-----------------------------------------------------------------------------
(* Renewal: use alone never ends a session *)

\* As long as nothing failed: the browser holds the newest token or is about to
\* be given it, no request holds one older than the last, no response clears
\* the cookies, and an access token let through outlives its request.
SurvivesInv ==
    faults = 0 =>
        /\ ~over
        /\ jar.refresh \in Gens
        /\ jar.refresh = live \/ (jar.refresh + 1 = live /\ \E r \in Handlers : NewPair(r))
        /\ \A r \in Handlers : handler[r].writes.refresh # NoCookie
        /\ \A r \in Handlers : handler[r].pc # "idle" =>
             /\ handler[r].sees.refresh \in Gens
             /\ handler[r].sees.refresh = live \/ handler[r].sees.refresh + 1 = live
        /\ \A r \in Handlers :
             handler[r].pc = "render" => handler[r].sees.access >= handler[r].born + Margin

\* An older token presented is one the API forgives.
LEMMA OldIsForgiven ==
    ASSUME SafeSettings, RenewalBase, PacedInv, SurvivesInv, faults = 0,
           NEW r \in Handlers, handler[r].pc # "idle", handler[r].sees.refresh # live
    PROVE  Forgiven(handler[r].sees.refresh)
<1> DEFINE g == handler[r].sees.refresh
<1>1. /\ now \in Nat /\ Grace \in Nat /\ MaxTransit \in Nat /\ LastRotation \in Nat
      /\ Gens \subseteq Nat /\ live \in Gens /\ handler[r].born \in Nat
  BY RenewalFields, LastRotationTyped, Settings DEF RenewalBase
<1>2. g \in Gens /\ g + 1 = live /\ ~over
  BY DEF SurvivesInv
<1>3. Held
  BY DEF SurvivesInv, Held, PacedInv, PairsAreNewest
<1>4. handler[r].born <= LastRotation + MaxTransit
  BY <1>2, <1>3 DEF PacedInv, OldOnesAreFromBefore, Old
<1>5. now <= handler[r].born + MaxTransit
  BY NoRequestTyped DEF RenewalBase, AnsweredInTime
<1>6. LastRotation = spentAt[g]
  <2>1. g \in Nat /\ g + 1 = live
    BY <1>1, <1>2
  <2>2. live # 0 /\ live - 1 = g
    BY <2>1
  <2> QED
    BY <2>2 DEF LastRotation
<1>7. now <= LastRotation + Grace
  BY <1>1, <1>4, <1>5 DEF SafeSettings
<1> QED
  BY <1>2, <1>6, <1>7 DEF Forgiven

LEMMA StepSurvives ==
    ASSUME SafeSettings, RenewalBase, PacedInv, SurvivesInv, [RenewalNext]_renewalVars
    PROVE  SurvivesInv'
<1> USE DEF RenewalBase
<1>0. /\ now \in Nat /\ MaxTransit \in Nat /\ Margin \in Nat /\ AccessTtl \in Nat
      /\ Margin < AccessTtl /\ MaxTransit < Margin /\ faults \in Nat
      /\ Gens' = Gens /\ Gens \subseteq Nat /\ live \in Gens
      /\ NoCookie \notin Gens /\ Keep \notin Gens /\ NoCookie # Keep
      /\ \A r \in Handlers : /\ handler[r].born \in Nat /\ handler[r].born <= now
                             /\ handler[r].sees.access \in Nat
  BY RenewalFields, Settings DEF SafeSettings, Gens, Cookies
<1>1. ASSUME NEW r \in Handlers, NEW h, handler' = [handler EXCEPT ![r] = h]
      PROVE  handler'[r] = h /\ \A q \in Handlers : q # r => handler'[q] = handler[q]
  BY <1>1 DEF RenewalTypeOK
<1>2. ASSUME NEW r \in Handlers, NEW route \in Routes, Send(r, route)
      PROVE  SurvivesInv'
  <2>1. PICK h \in HandlerStates :
             /\ handler' = [handler EXCEPT ![r] = h]
             /\ h.pc \in {"proxy", "render"}
             /\ h.pc = "render" => route = "open"
             /\ h.born = now /\ h.sees = jar /\ h.writes = NoWrites /\ jar.refresh \in Gens
             /\ UNCHANGED <<now, live, spentAt, over, jar, faults>>
    BY <1>2, SendStep
  <2>2. handler'[r] = h /\ (\A q \in Handlers : q # r => handler'[q] = handler[q]) /\ h.pc = "proxy"
    BY <1>1, <2>1 DEF SafeSettings
  <2>3. ~NewPair(r)
    BY <1>0, <1>2, NoRequestTyped DEF Send, NewPair, NoWrites
  <2>4. ASSUME NEW q \in Handlers, NewPair(q) PROVE NewPair(q)'
    BY <1>0, <2>2, <2>3, <2>4 DEF NewPair
  <2>5. NoWrites.refresh # NoCookie
    BY <1>0 DEF NoWrites
  <2> QED
    BY <1>0, <2>1, <2>2, <2>4, <2>5 DEF SurvivesInv
<1>3. ASSUME NEW r \in Handlers, ProxyPasses(r) \/ Finish(r)
      PROVE  SurvivesInv'
  <2>1. PICK h \in HandlerStates :
             /\ handler' = [handler EXCEPT ![r] = h]
             /\ handler[r].pc \in {"proxy", "render"} /\ h.pc \in {"render", "respond"}
             /\ h.pc = "render" => handler[r].sees.access >= now + Margin
             /\ h.born = handler[r].born /\ h.sees = handler[r].sees /\ h.writes = handler[r].writes
             /\ UNCHANGED <<now, live, spentAt, over, jar, faults>>
    BY <1>3, MovesOn
  <2>2. /\ handler'[r] = h /\ \A q \in Handlers : q # r => handler'[q] = handler[q]
        /\ \A q \in Handlers : handler'[q].writes = handler[q].writes
    BY <1>1, <2>1
  <2>3. \A q \in Handlers : NewPair(q)' <=> NewPair(q)
    BY <1>0, <2>2 DEF NewPair
  <2> QED
    BY <1>0, <2>1, <2>2, <2>3 DEF SurvivesInv
<1>4. ASSUME NEW r \in Handlers, ProxyRenews(r) \/ RenderRenews(r)
      PROVE  SurvivesInv'
  <2>1. PICK h \in HandlerStates :
             /\ handler' = [handler EXCEPT ![r] = h]
             /\ h.pc \in {"render", "respond"} /\ h.born = handler[r].born
             /\ Renewal(r, h)
    BY <1>4, RenewalStep
  <2>2. /\ UNCHANGED <<now, jar>>
        /\ handler[r].pc \in {"proxy", "render"}
        /\ IF handler[r].pc = "proxy" THEN handler[r].sees.access < now + Margin
                                      ELSE handler[r].sees.access <= now
    BY <1>4, RenewalStep
  <2>3. handler'[r] = h /\ \A q \in Handlers : q # r => handler'[q] = handler[q]
    BY <1>1, <2>1
  <2> DEFINE g == handler[r].sees.refresh
  <2> SUFFICES ASSUME faults' = 0 PROVE SurvivesInv'
    BY DEF SurvivesInv
  <2>4. faults = 0 /\ faults' # faults + 1 /\ UNCHANGED faults
    <3>1. faults' \in {faults, faults + 1}
      BY <2>1 DEF Renewal, Replayed, Nothing
    <3> QED
      BY <1>0, <3>1
  <2>5. /\ ~over /\ jar.refresh \in Gens
        /\ jar.refresh = live \/ (jar.refresh + 1 = live /\ \E q \in Handlers : NewPair(q))
        /\ \A q \in Handlers : handler[q].writes.refresh # NoCookie
        /\ \A q \in Handlers : handler[q].pc # "idle" =>
             /\ handler[q].sees.refresh \in Gens
             /\ handler[q].sees.refresh = live \/ handler[q].sees.refresh + 1 = live
        /\ \A q \in Handlers :
             handler[q].pc = "render" => handler[q].sees.access >= handler[q].born + Margin
    BY <2>4 DEF SurvivesInv
  <2>6. handler[r].pc = "proxy"
    <3>1. now <= handler[r].born + MaxTransit
      BY <2>2, NoRequestTyped DEF AnsweredInTime
    <3> QED
      BY <1>0, <2>2, <2>5, <3>1
  <2>7. ~Ended(g)
    <3>1. g # live => Forgiven(g)
      BY <2>4, <2>6, OldIsForgiven
    <3> QED
      BY <2>4, <2>5, <3>1 DEF Ended
  <2>8. \/ Rotated(g) /\ h.sees = Pair(live + 1) /\ h.writes = Pair(live + 1)
        \/ /\ Replayed(g) /\ h.sees = [refresh |-> g, access |-> NewAccess]
           /\ h.writes \in {AccessOnly, [refresh |-> handler[r].writes.refresh, access |-> NewAccess]}
    BY <2>1, <2>4, <2>6, <2>7 DEF Renewal, Nothing
  <2>9. NewAccess \in Nat /\ NewAccess >= h.born + Margin
    BY <1>0, <2>1 DEF NewAccess
  <2>10. CASE Rotated(g) /\ h.sees = Pair(live + 1) /\ h.writes = Pair(live + 1)
    <3>1. /\ g = live /\ live' = live + 1 /\ live' \in Gens /\ ~over'
          /\ handler[r].sees.access < now + Margin
      BY <2>2, <2>5, <2>6, <2>10 DEF Rotated
    <3>2. \A q \in Handlers : ~Old(q) /\ ~NewPair(q)
      BY <2>5, <3>1, RotationIsLate DEF SafeSettings
    <3>3. jar.refresh = live
      BY <2>5, <3>2
    <3>4. /\ Pair(live + 1).refresh = live' /\ Pair(live + 1).access = NewAccess
      BY <3>1 DEF Pair
    <3>5. NewPair(r)'
      BY <1>0, <2>3, <2>10, <3>1, <3>4 DEF NewPair
    <3>6. ASSUME NEW q \in Handlers, handler'[q].pc # "idle"
          PROVE  /\ handler'[q].sees.refresh \in Gens
                 /\ handler'[q].sees.refresh = live' \/ handler'[q].sees.refresh + 1 = live'
      BY <2>3, <2>5, <2>10, <3>1, <3>2, <3>4, <3>6 DEF Old
    <3>7. ASSUME NEW q \in Handlers
          PROVE  /\ handler'[q].writes.refresh # NoCookie
                 /\ handler'[q].pc = "render" => handler'[q].sees.access >= handler'[q].born + Margin
      BY <1>0, <2>3, <2>5, <2>9, <2>10, <3>1, <3>4
    <3> QED
      BY <1>0, <2>2, <3>1, <3>3, <3>5, <3>6, <3>7 DEF SurvivesInv
  <2>11. CASE /\ Replayed(g) /\ h.sees = [refresh |-> g, access |-> NewAccess]
              /\ h.writes \in {AccessOnly, [refresh |-> handler[r].writes.refresh, access |-> NewAccess]}
    <3>1. g # live /\ UNCHANGED <<live, over>>
      BY <2>11 DEF Replayed, api
    <3>2. ~NewPair(r)
      BY <3>1 DEF PacedInv, PairsAreNewest
    <3>3. ASSUME NEW q \in Handlers, NewPair(q) PROVE NewPair(q)'
      BY <1>0, <2>3, <3>2, <3>3 DEF NewPair
    <3>4. AccessOnly.refresh = Keep
      BY DEF AccessOnly
    <3>5. ASSUME NEW q \in Handlers
          PROVE  /\ handler'[q].pc # "idle" =>
                      /\ handler'[q].sees.refresh \in Gens
                      /\ handler'[q].sees.refresh = live \/ handler'[q].sees.refresh + 1 = live
                 /\ handler'[q].writes.refresh # NoCookie
                 /\ handler'[q].pc = "render" => handler'[q].sees.access >= handler'[q].born + Margin
      <4>1. CASE q = r
        BY <1>0, <2>2, <2>3, <2>5, <2>6, <2>9, <2>11, <3>4, <4>1
      <4>2. CASE q # r
        BY <2>3, <2>5, <4>2
      <4> QED
        BY <4>1, <4>2
    <3> QED
      BY <1>0, <2>2, <2>5, <3>1, <3>3, <3>5 DEF SurvivesInv
  <2> QED
    BY <2>8, <2>10, <2>11
<1>5. ASSUME NEW r \in Handlers, Lose(r)
      PROVE  SurvivesInv'
  BY <1>0, <1>5 DEF Lose, Fault, SurvivesInv
<1>6. ASSUME NEW r \in Handlers, Respond(r)
      PROVE  SurvivesInv'
  <2>1. /\ handler' = [handler EXCEPT ![r] = NoRequest]
        /\ UNCHANGED <<now, live, spentAt, over, faults>>
        /\ jar' = Written(jar, handler[r].writes)
    BY <1>6 DEF Respond, api
  <2>2. /\ handler'[r] = NoRequest /\ \A q \in Handlers : q # r => handler'[q] = handler[q]
    BY <1>1, <2>1, NoRequestTyped
  <2>5. NoRequest.pc = "idle" /\ NoRequest.writes.refresh # NoCookie
    BY <1>0, NoRequestTyped DEF NoWrites
  <2>3. \/ NewPair(r) /\ jar'.refresh = live
        \/ ~NewPair(r) /\ jar'.refresh = jar.refresh
        \/ handler[r].writes.refresh = NoCookie
    <3>1. handler[r].writes.refresh \in Gens \cup {NoCookie, Keep}
      BY RenewalFields DEF Writes
    <3> QED
      BY <1>0, <2>1, <3>1 DEF Written, NewPair, PacedInv, PairsAreNewest
  <2>4. ASSUME NEW q \in Handlers, NewPair(q), q # r PROVE NewPair(q)'
    BY <1>0, <2>2, <2>4 DEF NewPair
  <2> QED
    BY <1>0, <2>1, <2>2, <2>3, <2>4, <2>5 DEF SurvivesInv
<1>7. CASE Tick \/ UNCHANGED renewalVars
  <2>1. UNCHANGED <<live, spentAt, over, jar, handler, faults>>
    BY <1>7 DEF Tick, renewalVars, api
  <2>2. \A q \in Handlers : NewPair(q)' <=> NewPair(q)
    BY <1>0, <2>1 DEF NewPair
  <2> QED
    BY <1>0, <2>1, <2>2 DEF SurvivesInv
<1> QED
  BY <1>2, <1>3, <1>4, <1>5, <1>6, <1>7 DEF RenewalNext

LEMMA InitSurvives == RenewalInit => SurvivesInv
<1> SUFFICES ASSUME RenewalInit PROVE SurvivesInv
  OBVIOUS
<1>1. \A r \in Handlers : handler[r].pc = "idle" /\ handler[r].writes.refresh = Keep
  BY DEF RenewalInit, NoRequest, NoWrites
<1> QED
  BY <1>1, Settings DEF RenewalInit, SurvivesInv, Gens

\* A browser that just uses the application is never taken for a thief, however
\* many requests and Server Actions race for the same token, provided a request
\* is answered within half the grace window and within the margin.
THEOREM UseNeverEndsSession == SafeSettings => (RenewalSpec => []SessionSurvivesUse)
<1> SUFFICES ASSUME SafeSettings PROVE RenewalSpec => []SessionSurvivesUse
  OBVIOUS
<1>1. RenewalInit => RenewalBase /\ PacedInv /\ SurvivesInv
  BY InitBase, InitPaced, InitSurvives
<1>2. RenewalBase /\ PacedInv /\ SurvivesInv /\ [RenewalNext]_renewalVars
          => (RenewalBase /\ PacedInv /\ SurvivesInv)'
  BY StepBase, StepPaced, StepSurvives DEF SafeSettings
<1>3. RenewalBase /\ SurvivesInv => SessionSurvivesUse
  BY RenewalFields DEF RenewalBase, SurvivesInv, SessionSurvivesUse
<1> QED
  BY <1>1, <1>2, <1>3, PTL DEF RenewalSpec

==============================================================================
