------------------------ MODULE VersionedCacheProofs ------------------------
(***************************************************************************)
(* Proofs about VersionedCache, for any readers, writers and faults: its   *)
(* types, and the two promises of the cache.                               *)
(***************************************************************************)
EXTENDS VersionedCache, FiniteSets, FiniteSetTheorems, TLAPS

\* Every commit has one bump to come at most, so versions never pass commits.
BumpsAreOwed ==
    /\ IsFiniteSet(pending)
    /\ version + Cardinality(pending) <= row.commit

\* A key is read from the version, so no call holds one from the future, and
\* a call about to store has one.
KeysArePast ==
    \A r \in Readers : /\ reader[r].key # None => reader[r].key <= version
                       /\ reader[r].pc \in {"get", "set"} => reader[r].key # None

\* No call has been promised more than is announced.
FloorsAreAnnounced == \A r \in Readers : reader[r].floor <= announced

\* The call in slot r is about to store under key k.
Storing(r, k) == reader[r].pc = "set" /\ reader[r].key = k

\* With no bump missing, the current version holds the row as it is.
CurrentIsFresh ==
    Quiet => /\ entry[version] # None => entry[version] = row.commit /\ row.present
             /\ \A r \in Readers : Storing(r, version) => reader[r].val = row.commit /\ row.present

\* Whatever fails, the current version holds every announced commit.
CurrentIsAnnounced ==
    /\ entry[version] # None => entry[version] >= announced
    /\ \A r \in Readers : Storing(r, version) => reader[r].val >= announced

\* Two calls that share a key: what one may hit, or the other may store for
\* it to hit, keeps the promise made to it, even after the version moved on.
SharedKeysKeepPromises ==
    \A r \in Readers, k \in Commits :
        reader[r].key = k =>
            /\ entry[k] # None => entry[k] >= reader[r].floor
            /\ \A s \in Readers : Storing(s, k) => reader[s].val >= reader[r].floor

IInv ==
    /\ TypeOK
    /\ BumpsAreOwed
    /\ KeysArePast
    /\ FloorsAreAnnounced
    /\ CurrentIsFresh
    /\ CurrentIsAnnounced
    /\ SharedKeysKeepPromises
    /\ ReadsSeeAnnounced

-----------------------------------------------------------------------------
LEMMA InitIInv == Init => IInv
<1> SUFFICES ASSUME Init PROVE IInv
  OBVIOUS
<1> USE DEF Init
<1>1. /\ IsFiniteSet(pending)
      /\ Cardinality(pending) = 0
  BY FS_EmptySet
<1>2. /\ \A v \in Commits : entry[v] = None
      /\ \A r \in Readers : reader[r] = Idle
      /\ 0 \in Commits
  BY CacheAssumption DEF Commits
<1>3. Idle \in Slots /\ Idle.pc = "idle" /\ Idle.key = None /\ Idle.floor = 0
  BY <1>2 DEF Idle, Slots
<1>4. TypeOK
  <2>1. row \in [commit : Commits, present : BOOLEAN] /\ announced \in 0..row.commit
    BY <1>2
  <2>2. reader \in [Readers -> Slots] /\ entry \in [Commits -> Commits \cup {None}]
    BY <1>3
  <2>3. version \in Commits /\ pending \subseteq Writers /\ lost \in BOOLEAN
    BY <1>2
  <2> QED
    BY <1>2, <2>1, <2>2, <2>3 DEF TypeOK
<1>5. \A r \in Readers, k \in Commits : ~Storing(r, k)
  BY <1>2, <1>3 DEF Storing
<1>6. BumpsAreOwed /\ KeysArePast /\ FloorsAreAnnounced /\ ReadsSeeAnnounced
  BY <1>1, <1>2, <1>3 DEF BumpsAreOwed, KeysArePast, FloorsAreAnnounced, ReadsSeeAnnounced
<1>7. CurrentIsFresh /\ CurrentIsAnnounced
  BY <1>2, <1>5 DEF CurrentIsFresh, CurrentIsAnnounced
<1>8. SharedKeysKeepPromises
  BY <1>2, <1>5 DEF SharedKeysKeepPromises
<1> QED
  BY <1>4, <1>6, <1>7, <1>8 DEF IInv

-----------------------------------------------------------------------------
LEMMA ChangeStep ==
    ASSUME IInv, NEW w \in Writers, Change(w)
    PROVE  IInv'
<1> USE CacheAssumption DEF IInv, Commits
<1>1. TypeOK'
  BY DEF Change, TypeOK
<1>2. BumpsAreOwed'
  <2>1. /\ IsFiniteSet(pending \cup {w})
        /\ Cardinality(pending \cup {w}) = Cardinality(pending) + 1
    BY FS_AddElement DEF Change, BumpsAreOwed
  <2>2. Cardinality(pending) \in Nat
    BY FS_CardinalityType DEF BumpsAreOwed
  <2> QED
    BY <2>1, <2>2 DEF Change, BumpsAreOwed, TypeOK
<1>3. CurrentIsFresh'
  BY DEF Change, CurrentIsFresh, Quiet, TypeOK
<1> QED
  BY <1>1, <1>2, <1>3
  DEF Change, KeysArePast, FloorsAreAnnounced, CurrentIsAnnounced, SharedKeysKeepPromises,
      ReadsSeeAnnounced, Storing

LEMMA CreateStep ==
    ASSUME IInv, Create
    PROVE  IInv'
<1> USE CacheAssumption DEF IInv, Commits
<1>1. TypeOK'
  BY DEF Create, TypeOK
<1>2. BumpsAreOwed'
  <2>1. Cardinality(pending) \in Nat
    BY FS_CardinalityType DEF BumpsAreOwed
  <2> QED
    BY <2>1 DEF Create, BumpsAreOwed, TypeOK
<1>3. FloorsAreAnnounced'
  BY DEF Create, FloorsAreAnnounced, TypeOK, Slots
<1>4. CurrentIsFresh' /\ CurrentIsAnnounced'
  BY DEF Create, CurrentIsFresh, CurrentIsAnnounced, Quiet, Storing
<1> QED
  BY <1>1, <1>2, <1>3, <1>4
  DEF Create, KeysArePast, SharedKeysKeepPromises, ReadsSeeAnnounced, Storing

LEMMA BumpStep ==
    ASSUME IInv, NEW w \in Writers, Bump(w)
    PROVE  IInv'
<1> USE CacheAssumption DEF IInv, Commits
<1>1. /\ IsFiniteSet(pending \ {w})
      /\ Cardinality(pending \ {w}) = Cardinality(pending) - 1
      /\ Cardinality(pending) \in Nat
  BY FS_RemoveElement, FS_CardinalityType DEF Bump, BumpsAreOwed
<1>2. Cardinality(pending \ {w}) \in Nat
  BY <1>1, FS_CardinalityType
<1>3. BumpsAreOwed'
  BY <1>1, <1>2 DEF Bump, Bumped, BumpsAreOwed, TypeOK
<1>4. version' \in Commits /\ version' = version + 1
  BY <1>1, <1>2 DEF Bump, Bumped, BumpsAreOwed, TypeOK
<1>5. TypeOK'
  <2>1. \A v \in Commits : v > version' => entry[v] = None
    BY <1>4 DEF TypeOK
  <2>2. row.commit \in Nat /\ row.commit \in 0..row.commit
    BY DEF TypeOK
  <2> QED
    BY <1>4, <2>1, <2>2 DEF Bump, TypeOK
<1>6. KeysArePast'
  BY <1>4 DEF Bump, KeysArePast, TypeOK, Slots
<1>7. FloorsAreAnnounced'
  BY DEF Bump, FloorsAreAnnounced, TypeOK, Slots
<1>8. entry[version'] = None /\ \A r \in Readers : ~Storing(r, version')
  BY <1>4 DEF TypeOK, Storing, KeysArePast
<1>9. CurrentIsFresh' /\ CurrentIsAnnounced'
  BY <1>8 DEF Bump, CurrentIsFresh, CurrentIsAnnounced, Storing
<1> QED
  BY <1>3, <1>5, <1>6, <1>7, <1>9 DEF Bump, SharedKeysKeepPromises, ReadsSeeAnnounced, Storing

\* A bump that Redis refuses, and one that a failing write skips.
LEMMA MissedBumpStep ==
    ASSUME IInv, NEW w \in Writers, BumpFails(w) \/ WriteThrows(w)
    PROVE  IInv'
<1> USE CacheAssumption DEF IInv, Commits, BumpFails, WriteThrows
<1>1. /\ IsFiniteSet(pending \ {w})
      /\ Cardinality(pending \ {w}) = Cardinality(pending) - 1
      /\ Cardinality(pending) \in Nat
  BY FS_RemoveElement, FS_CardinalityType DEF BumpsAreOwed
<1>2. BumpsAreOwed'
  <2>1. version \in Nat /\ row.commit \in Nat
    BY DEF TypeOK
  <2>2. version + Cardinality(pending \ {w}) <= row.commit
    BY <1>1, <2>1 DEF BumpsAreOwed
  <2> QED
    BY <1>1, <2>2 DEF BumpsAreOwed
<1>3. TypeOK'
  BY DEF TypeOK
<1>4. CurrentIsFresh'
  BY DEF CurrentIsFresh, Quiet
<1> QED
  BY <1>2, <1>3, <1>4
  DEF KeysArePast, FloorsAreAnnounced, CurrentIsAnnounced, SharedKeysKeepPromises,
      ReadsSeeAnnounced, Storing

\* What a call must hold for the others, and for itself, to be safe.
SlotIsSafe(slot) ==
    /\ slot.key # None => slot.key <= version
    /\ slot.pc \in {"get", "set"} => slot.key # None
    /\ slot.floor <= announced
    /\ slot.pc = "set" /\ slot.key = version => slot.val >= announced
    /\ slot.pc = "set" /\ slot.key = version /\ Quiet => slot.val = row.commit /\ row.present
    /\ \A k \in Commits : slot.key = k =>
          /\ entry[k] # None => entry[k] >= slot.floor
          /\ \A s \in Readers : Storing(s, k) => reader[s].val >= slot.floor
    /\ \A q \in Readers : slot.pc = "set" /\ reader[q].key = slot.key => slot.val >= reader[q].floor
    /\ slot.pc \in {"set", "done"} => slot.val >= slot.floor

LEMMA SlotStep ==
    ASSUME IInv, NEW r \in Readers, NEW slot \in Slots, SlotIsSafe(slot),
           reader' = [reader EXCEPT ![r] = slot],
           UNCHANGED <<row, version, entry, pending, lost, announced>>
    PROVE  IInv'
<1> USE DEF IInv
<1>1. /\ reader'[r] = slot
      /\ \A q \in Readers \ {r} : reader'[q] = reader[q]
  BY DEF TypeOK
<1>2. \A q \in Readers, k \in Commits :
        Storing(q, k)' <=> IF q = r THEN slot.pc = "set" /\ slot.key = k ELSE Storing(q, k)
  BY <1>1 DEF Storing
<1>3. TypeOK'
  BY DEF TypeOK
<1>4. KeysArePast' /\ FloorsAreAnnounced'
  BY <1>1 DEF SlotIsSafe, KeysArePast, FloorsAreAnnounced
<1>5. CurrentIsFresh' /\ CurrentIsAnnounced'
  BY <1>1, <1>2 DEF SlotIsSafe, CurrentIsFresh, CurrentIsAnnounced, Quiet, TypeOK
<1>6. SharedKeysKeepPromises'
  <2> SUFFICES ASSUME NEW q \in Readers, NEW k \in Commits, reader'[q].key = k
               PROVE  /\ entry[k] # None => entry[k] >= reader'[q].floor
                      /\ \A s \in Readers : Storing(s, k)' => reader'[s].val >= reader'[q].floor
    BY DEF SharedKeysKeepPromises
  <2>2. CASE q = r
    BY <1>1, <1>2, <2>2 DEF SlotIsSafe
  <2>3. CASE q # r
    BY <1>1, <1>2, <2>3 DEF SlotIsSafe, SharedKeysKeepPromises
  <2> QED
    BY <2>2, <2>3
<1>7. ReadsSeeAnnounced'
  BY <1>1 DEF SlotIsSafe, ReadsSeeAnnounced
<1> QED
  BY <1>3, <1>4, <1>5, <1>6, <1>7 DEF BumpsAreOwed

LEMMA StartStep ==
    ASSUME IInv, NEW r \in Readers, Start(r)
    PROVE  IInv'
<1> DEFINE slot == [reader[r] EXCEPT !.pc = "version", !.floor = announced]
<1>1. reader[r] \in Slots /\ reader[r].key = None /\ announced \in Commits
  BY CacheAssumption DEF Start, IInv, TypeOK, Commits, Idle
<1>2. slot \in Slots /\ slot.pc = "version" /\ slot.key = None /\ slot.floor = announced
  BY <1>1 DEF Slots
<1>3. reader' = [reader EXCEPT ![r] = slot]
  BY DEF Start
<1> HIDE DEF slot
<1>4. SlotIsSafe(slot)
  BY <1>1, <1>2, CacheAssumption DEF SlotIsSafe, Commits
<1> QED
  BY <1>2, <1>3, <1>4, SlotStep DEF Start

LEMMA GetVersionStep ==
    ASSUME IInv, NEW r \in Readers, GetVersion(r)
    PROVE  IInv'
<1> DEFINE slot == [reader[r] EXCEPT !.pc = "get", !.key = version]
<1>1. reader[r] \in Slots /\ version \in Commits /\ announced \in Nat
  BY CacheAssumption DEF IInv, TypeOK, Commits
<1>2. slot \in Slots /\ slot.pc = "get" /\ slot.key = version /\ slot.floor = reader[r].floor
  BY <1>1 DEF Slots
<1>3. reader' = [reader EXCEPT ![r] = slot]
  BY DEF GetVersion
<1> HIDE DEF slot
<1>4. reader[r].floor <= announced /\ reader[r].floor \in Nat
  BY <1>1 DEF IInv, FloorsAreAnnounced, Slots, Commits
<1>5. entry[version] # None => entry[version] \in Nat /\ entry[version] >= announced
  BY <1>1 DEF IInv, CurrentIsAnnounced, TypeOK, Commits
<1>6. \A s \in Readers : Storing(s, version) => reader[s].val \in Nat /\ reader[s].val >= announced
  BY DEF IInv, CurrentIsAnnounced, TypeOK, Slots, Commits
<1>7. SlotIsSafe(slot)
  BY <1>1, <1>2, <1>4, <1>5, <1>6, CacheAssumption DEF SlotIsSafe, Commits
<1> QED
  BY <1>2, <1>3, <1>7, SlotStep DEF GetVersion

LEMMA HitStep ==
    ASSUME IInv, NEW r \in Readers, Hit(r)
    PROVE  IInv'
<1> DEFINE slot == [reader[r] EXCEPT !.pc = "done", !.val = entry[reader[r].key]]
<1>1. reader[r] \in Slots /\ reader[r].key \in Commits
  BY DEF IInv, TypeOK, Hit, KeysArePast, Slots
<1>2. entry[reader[r].key] \in Commits /\ entry[reader[r].key] >= reader[r].floor
  BY <1>1 DEF IInv, TypeOK, Hit, SharedKeysKeepPromises, KeysArePast
<1>3. slot \in Slots /\ slot.pc = "done" /\ slot.key = reader[r].key
        /\ slot.val = entry[reader[r].key] /\ slot.floor = reader[r].floor
  BY <1>1, <1>2 DEF Slots
<1>4. reader' = [reader EXCEPT ![r] = slot]
  BY DEF Hit
<1> HIDE DEF slot
<1>5. SlotIsSafe(slot)
  BY <1>2, <1>3
  DEF SlotIsSafe, IInv, KeysArePast, FloorsAreAnnounced, SharedKeysKeepPromises
<1> QED
  BY <1>3, <1>4, <1>5, SlotStep DEF Hit

\* A miss, a refused read, a refused store: the call moves on without a value.
LEMMA MoveOnStep ==
    ASSUME IInv, NEW r \in Readers, Miss(r) \/ ReadFails(r) \/ SetFails(r)
    PROVE  IInv'
<1>1. reader[r] \in Slots
  BY DEF IInv, TypeOK
<1>2. CASE Miss(r)
  <2> DEFINE slot == [reader[r] EXCEPT !.pc = "load"]
  <2>1. slot \in Slots /\ slot.pc = "load" /\ slot.key = reader[r].key /\ slot.floor = reader[r].floor
    BY <1>1 DEF Slots
  <2>2. reader' = [reader EXCEPT ![r] = slot]
    BY <1>2 DEF Miss
  <2> HIDE DEF slot
  <2>3. SlotIsSafe(slot)
    BY <2>1 DEF SlotIsSafe, IInv, KeysArePast, FloorsAreAnnounced, SharedKeysKeepPromises
  <2> QED
    BY <1>2, <2>1, <2>2, <2>3, SlotStep DEF Miss
<1>3. CASE ReadFails(r)
  <2> DEFINE slot == [reader[r] EXCEPT !.pc = "load", !.key = None]
  <2>1. slot \in Slots /\ slot.pc = "load" /\ slot.key = None /\ slot.floor = reader[r].floor
    BY <1>1 DEF Slots
  <2>2. reader' = [reader EXCEPT ![r] = slot]
    BY <1>3 DEF ReadFails
  <2> HIDE DEF slot
  <2>3. SlotIsSafe(slot)
    BY <2>1, CacheAssumption DEF SlotIsSafe, IInv, FloorsAreAnnounced, TypeOK, Commits
  <2> QED
    BY <1>3, <2>1, <2>2, <2>3, SlotStep DEF ReadFails
<1>4. CASE SetFails(r)
  <2> DEFINE slot == [reader[r] EXCEPT !.pc = "done"]
  <2>1. slot \in Slots /\ slot.pc = "done" /\ slot.key = reader[r].key
          /\ slot.val = reader[r].val /\ slot.floor = reader[r].floor
    BY <1>1 DEF Slots
  <2>2. reader' = [reader EXCEPT ![r] = slot]
    BY <1>4 DEF SetFails
  <2> HIDE DEF slot
  <2>3. reader[r].key \in Commits /\ Storing(r, reader[r].key)
    BY <1>1, <1>4 DEF SetFails, IInv, KeysArePast, Storing, Slots
  <2>4. SlotIsSafe(slot)
    BY <2>1, <2>3 DEF SlotIsSafe, IInv, KeysArePast, FloorsAreAnnounced, SharedKeysKeepPromises
  <2> QED
    BY <1>4, <2>1, <2>2, <2>4, SlotStep DEF SetFails
<1> QED
  BY <1>2, <1>3, <1>4

LEMMA LoadStep ==
    ASSUME IInv, NEW r \in Readers, Load(r)
    PROVE  IInv'
<1> DEFINE next == IF Cacheable /\ reader[r].key # None THEN "set" ELSE "done"
           slot == [reader[r] EXCEPT !.val = row.commit, !.pc = next]
<1>1. reader[r] \in Slots /\ row.commit \in Commits /\ announced \in Nat /\ row.commit >= announced
  BY CacheAssumption DEF IInv, TypeOK, Commits
<1>2. next \in {"set", "done"} /\ (next = "set" => row.present /\ reader[r].key # None)
  BY DEF Cacheable
<1>3. reader' = [reader EXCEPT ![r] = slot]
  BY DEF Load
<1> HIDE DEF next
<1>4. slot \in Slots /\ slot.pc = next /\ slot.key = reader[r].key
        /\ slot.val = row.commit /\ slot.floor = reader[r].floor
  BY <1>1, <1>2 DEF Slots
<1> HIDE DEF slot
<1>5. \A q \in Readers : reader[q].floor \in Nat /\ reader[q].floor <= announced
  BY DEF IInv, TypeOK, Slots, Commits, FloorsAreAnnounced
<1>6. \A q \in Readers : row.commit >= reader[q].floor
  <2>1. row.commit \in Nat
    BY <1>1 DEF Commits
  <2>2. ASSUME NEW q \in Readers PROVE row.commit >= reader[q].floor
    BY <1>1, <1>5, <2>1
  <2> QED
    BY <2>2
<1>7. SlotIsSafe(slot)
  BY <1>1, <1>2, <1>4, <1>5, <1>6
  DEF SlotIsSafe, IInv, KeysArePast, SharedKeysKeepPromises
<1> QED
  BY <1>3, <1>4, <1>7, SlotStep DEF Load

LEMMA ReturnStep ==
    ASSUME IInv, NEW r \in Readers, Return(r)
    PROVE  IInv'
<1>1. Idle \in Slots /\ Idle.pc = "idle" /\ Idle.key = None /\ Idle.floor = 0
  BY CacheAssumption DEF Idle, Slots, Commits
<1>2. SlotIsSafe(Idle)
  BY <1>1, CacheAssumption DEF SlotIsSafe, IInv, TypeOK, Commits
<1> QED
  BY <1>1, <1>2, SlotStep DEF Return

\* The store writes what the call held, under the key it held.
LEMMA SetStep ==
    ASSUME IInv, NEW r \in Readers, Set(r)
    PROVE  IInv'
<1> DEFINE slot == [reader[r] EXCEPT !.pc = "done"]
           k == reader[r].key
<1> USE DEF IInv
<1>1. reader[r] \in Slots /\ k \in Commits /\ k <= version /\ Storing(r, k)
  BY DEF Set, TypeOK, Slots, KeysArePast, Storing
<1>2. slot \in Slots /\ slot.pc = "done" /\ slot.key = k
        /\ slot.val = reader[r].val /\ slot.floor = reader[r].floor
  BY <1>1 DEF Slots
<1>3. reader' = [reader EXCEPT ![r] = slot]
  BY DEF Set
<1>4. entry' = [entry EXCEPT ![k] = reader[r].val]
  BY DEF Set
<1>5. UNCHANGED <<row, version, pending, lost, announced>>
  BY DEF Set
<1> HIDE DEF slot, k
<1>6. /\ entry'[k] = reader[r].val
      /\ \A v \in Commits \ {k} : entry'[v] = entry[v]
  BY <1>1, <1>4 DEF TypeOK
<1>7. /\ reader'[r] = slot
      /\ \A q \in Readers \ {r} : reader'[q] = reader[q]
  BY <1>3 DEF TypeOK
<1>8. \A q \in Readers : reader'[q].key = reader[q].key /\ reader'[q].floor = reader[q].floor
                           /\ reader'[q].val = reader[q].val
  BY <1>2, <1>7 DEF k
<1>9. \A q \in Readers, v \in Commits : Storing(q, v)' => Storing(q, v)
  BY <1>2, <1>7 DEF Storing
<1>10. reader[r].val \in Commits /\ version \in Commits
  BY <1>1 DEF Slots, TypeOK
<1>11. TypeOK'
  <2>1. reader' \in [Readers -> Slots]
    BY <1>2, <1>3 DEF TypeOK
  <2>2. entry' \in [Commits -> Commits \cup {None}]
    BY <1>4, <1>10 DEF TypeOK
  <2>3. \A v \in Commits : v > version => entry'[v] = None
    BY <1>1, <1>6, <1>10 DEF TypeOK, Commits
  <2> QED
    BY <1>5, <2>1, <2>2, <2>3 DEF TypeOK
<1>12. KeysArePast' /\ FloorsAreAnnounced'
  BY <1>2, <1>5, <1>7, <1>8 DEF KeysArePast, FloorsAreAnnounced
<1>13. CurrentIsFresh' /\ CurrentIsAnnounced'
  BY <1>1, <1>5, <1>6, <1>8, <1>9, <1>10 DEF CurrentIsFresh, CurrentIsAnnounced, Quiet
<1>14. SharedKeysKeepPromises'
  <2> SUFFICES ASSUME NEW q \in Readers, NEW v \in Commits, reader[q].key = v
               PROVE  /\ entry'[v] # None => entry'[v] >= reader[q].floor
                      /\ \A s \in Readers : Storing(s, v)' => reader[s].val >= reader[q].floor
    BY <1>8 DEF SharedKeysKeepPromises
  <2>1. CASE v = k
    BY <1>1, <1>6, <1>9, <2>1 DEF SharedKeysKeepPromises
  <2>2. CASE v # k
    BY <1>6, <1>9, <2>2 DEF SharedKeysKeepPromises
  <2> QED
    BY <2>1, <2>2
<1>15. ReadsSeeAnnounced'
  <2>1. reader[r].val >= reader[r].floor
    BY <1>1, CacheAssumption DEF SharedKeysKeepPromises, Commits, k
  <2> QED
    BY <1>2, <1>7, <2>1 DEF ReadsSeeAnnounced
<1> QED
  BY <1>5, <1>11, <1>12, <1>13, <1>14, <1>15 DEF BumpsAreOwed

LEMMA ReadsStep ==
    ASSUME IInv, NEW r \in Readers, Reads(r)
    PROVE  IInv'
BY GetVersionStep, HitStep, MoveOnStep, LoadStep, SetStep, ReturnStep DEF Reads

LEMMA ExpireStep ==
    ASSUME IInv, NEW v \in Commits, Expire(v)
    PROVE  IInv'
<1> USE CacheAssumption DEF IInv, Commits, Expire
<1>1. TypeOK'
  BY DEF TypeOK
<1>2. CurrentIsFresh' /\ CurrentIsAnnounced'
  BY DEF TypeOK, CurrentIsFresh, CurrentIsAnnounced, Quiet, Storing
<1>3. SharedKeysKeepPromises'
  BY DEF TypeOK, SharedKeysKeepPromises, Storing
<1> QED
  BY <1>1, <1>2, <1>3
  DEF BumpsAreOwed, KeysArePast, FloorsAreAnnounced, ReadsSeeAnnounced

-----------------------------------------------------------------------------
LEMMA NextIInv == IInv /\ [Next]_vars => IInv'
<1> SUFFICES ASSUME IInv, [Next]_vars PROVE IInv'
  OBVIOUS
<1>1. CASE Next
  BY <1>1, ChangeStep, CreateStep, BumpStep, MissedBumpStep, StartStep, ReadsStep, ExpireStep
  DEF Next
<1>2. CASE UNCHANGED vars
  BY <1>2
  DEF vars, IInv, TypeOK, BumpsAreOwed, KeysArePast, FloorsAreAnnounced, CurrentIsFresh,
      CurrentIsAnnounced, SharedKeysKeepPromises, ReadsSeeAnnounced, Storing, Quiet
<1> QED
  BY <1>1, <1>2

\* The strengthening behind the theorems below holds throughout.
THEOREM Invariant == Spec => []IInv
BY InitIInv, NextIInv, PTL DEF Spec

\* Types, and versions that never pass the commits they announce: bumpVersion
\* is called once at most for a write.
THEOREM TypeCorrect == Spec => []TypeOK
<1>1. IInv => TypeOK
  BY DEF IInv
<1> QED
  BY Invariant, <1>1, PTL

\* "Any read that starts after [a bump] can only ever see fresh keys": it
\* returns every commit made before, whatever Redis and the writes do.
THEOREM ReadsSeeEveryAnnouncedCommit == Spec => []ReadsSeeAnnounced
<1>1. IInv => ReadsSeeAnnounced
  BY DEF IInv
<1> QED
  BY Invariant, <1>1, PTL

\* With every bump done, what remember would find in Redis is the row as it
\* is, even though no lock orders the reads, the writes and the stores.
THEOREM QuietCachesAreFresh == Spec => []FreshWhenQuiet
<1>1. IInv => FreshWhenQuiet
  BY DEF IInv, CurrentIsFresh, FreshWhenQuiet, Fresh
<1> QED
  BY Invariant, <1>1, PTL

=============================================================================
