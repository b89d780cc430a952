--------------------------- MODULE VersionedCache ---------------------------
(***************************************************************************)
(* One scope of the versioned read-through cache over Redis, with one      *)
(* entry per version and the database row it is filled from: remember,     *)
(* bumpVersion and bumpingAfter, call by call.                             *)
(*                                                                         *)
(* The row is the hardest case, a membership: it can be absent, an absent  *)
(* row is never cached, and creating it bumps nothing.                     *)
(***************************************************************************)
EXTENDS Naturals

CONSTANTS
    Readers,    \* calls of remember in flight
    Writers,    \* writes in flight
    Faults,     \* which of "redis" and "write" may happen
    MaxWrites,  \* bound on the commits of a behaviour
    None        \* no entry, or no key

ASSUME CacheAssumption ==
    /\ Faults \subseteq {"redis", "write"}
    /\ MaxWrites \in Nat
    /\ None \notin Nat

VARIABLES
    row,        \* the row: how many commits it has seen, and whether it exists
    version,    \* the scope's version key
    entry,      \* entry[v]: what is cached under version v
    reader,     \* reader[r]: the call in slot r
    pending,    \* writers that have committed and not yet bumped
    lost,       \* a bump has been refused or skipped since the last one done
    announced   \* the commit every read that starts now must have seen

vars == <<row, version, entry, reader, pending, lost, announced>>

-----------------------------------------------------------------------------
Commits == 0..MaxWrites

Idle == [pc |-> "idle", key |-> None, val |-> 0, floor |-> 0]

Slots == [pc : {"idle", "version", "get", "load", "set", "done"},
          key : Commits \cup {None}, val : Commits, floor : Commits]

TypeOK ==
    /\ row \in [commit : Commits, present : BOOLEAN]
    /\ version \in Commits
    /\ entry \in [Commits -> Commits \cup {None}]
    /\ reader \in [Readers -> Slots]
    /\ pending \subseteq Writers
    /\ lost \in BOOLEAN
    /\ announced \in 0..row.commit
    /\ \A v \in Commits : v > version => entry[v] = None

\* No write is between its commit and its bump, and no bump is missing.
Quiet == pending = {} /\ ~lost

-----------------------------------------------------------------------------
(* Plausible slips *)

NotBumped == version
AbsentToo == TRUE
NeverExpires(v) == FALSE
BumpedTwice == version + 2

-----------------------------------------------------------------------------
(* Writers *)

\* A change or a removal commits.  Its caller has not bumped yet.
Change(w) ==
    /\ w \notin pending
    /\ row.present
    /\ row.commit < MaxWrites
    /\ \E p \in BOOLEAN : row' = [commit |-> row.commit + 1, present |-> p]
    /\ pending' = pending \cup {w}
    /\ UNCHANGED <<version, entry, reader, lost, announced>>

\* A creation commits, and bumps nothing: "null is NEVER cached".
Create ==
    /\ ~row.present
    /\ row.commit < MaxWrites
    /\ row' = [commit |-> row.commit + 1, present |-> TRUE]
    /\ announced' = IF Quiet THEN row.commit + 1 ELSE announced
    /\ UNCHANGED <<version, entry, reader, pending, lost>>

\* INCR
Bumped == version + 1

Bump(w) ==
    /\ w \in pending
    /\ pending' = pending \ {w}
    /\ version' = Bumped
    /\ lost' = FALSE
    /\ announced' = row.commit
    /\ UNCHANGED <<row, entry, reader>>

\* bumpVersion swallows the error.
BumpFails(w) ==
    /\ "redis" \in Faults
    /\ w \in pending
    /\ pending' = pending \ {w}
    /\ lost' = TRUE
    /\ UNCHANGED <<row, version, entry, reader, announced>>

\* A write wrapped in bumpingAfter throws after one of its commits: updateTask
\* and bulkUpdateTasks commit before they move the sub-tree.
WriteThrows(w) ==
    /\ "write" \in Faults
    /\ w \in pending
    /\ pending' = pending \ {w}
    /\ lost' = TRUE
    /\ UNCHANGED <<row, version, entry, reader, announced>>

-----------------------------------------------------------------------------
(* remember *)

Start(r) ==
    /\ reader[r] = Idle
    /\ reader' = [reader EXCEPT ![r].pc = "version", ![r].floor = announced]
    /\ UNCHANGED <<row, version, entry, pending, lost, announced>>

GetVersion(r) ==
    /\ reader[r].pc = "version"
    /\ reader' = [reader EXCEPT ![r].pc = "get", ![r].key = version]
    /\ UNCHANGED <<row, version, entry, pending, lost, announced>>

Hit(r) ==
    /\ reader[r].pc = "get"
    /\ entry[reader[r].key] # None
    /\ reader' = [reader EXCEPT ![r].pc = "done", ![r].val = entry[reader[r].key]]
    /\ UNCHANGED <<row, version, entry, pending, lost, announced>>

Miss(r) ==
    /\ reader[r].pc = "get"
    /\ entry[reader[r].key] = None
    /\ reader' = [reader EXCEPT ![r].pc = "load"]
    /\ UNCHANGED <<row, version, entry, pending, lost, announced>>

\* "FAILS OPEN": the loader runs, and nothing is cached.
ReadFails(r) ==
    /\ "redis" \in Faults
    /\ reader[r].pc \in {"version", "get"}
    /\ reader' = [reader EXCEPT ![r].pc = "load", ![r].key = None]
    /\ UNCHANGED <<row, version, entry, pending, lost, announced>>

Cacheable == row.present

Load(r) ==
    /\ reader[r].pc = "load"
    /\ reader' = [reader EXCEPT ![r].val = row.commit,
                    ![r].pc = IF Cacheable /\ reader[r].key # None THEN "set" ELSE "done"]
    /\ UNCHANGED <<row, version, entry, pending, lost, announced>>

Set(r) ==
    /\ reader[r].pc = "set"
    /\ entry' = [entry EXCEPT ![reader[r].key] = reader[r].val]
    /\ reader' = [reader EXCEPT ![r].pc = "done"]
    /\ UNCHANGED <<row, version, pending, lost, announced>>

SetFails(r) ==
    /\ "redis" \in Faults
    /\ reader[r].pc = "set"
    /\ reader' = [reader EXCEPT ![r].pc = "done"]
    /\ UNCHANGED <<row, version, entry, pending, lost, announced>>

Return(r) ==
    /\ reader[r].pc = "done"
    /\ reader' = [reader EXCEPT ![r] = Idle]
    /\ UNCHANGED <<row, version, entry, pending, lost, announced>>

\* The TTL of an entry runs out.
Expires(v) == entry[v] # None

Expire(v) ==
    /\ Expires(v)
    /\ entry' = [entry EXCEPT ![v] = None]
    /\ UNCHANGED <<row, version, reader, pending, lost, announced>>

-----------------------------------------------------------------------------
Init ==
    /\ row = [commit |-> 0, present |-> TRUE]
    /\ version = 0
    /\ entry = [v \in Commits |-> None]
    /\ reader = [r \in Readers |-> Idle]
    /\ pending = {}
    /\ lost = FALSE
    /\ announced = 0

Reads(r) == \/ GetVersion(r) \/ Hit(r) \/ Miss(r) \/ ReadFails(r)
            \/ Load(r) \/ Set(r) \/ SetFails(r) \/ Return(r)

Next ==
    \/ \E w \in Writers : Change(w) \/ Bump(w) \/ BumpFails(w) \/ WriteThrows(w)
    \/ Create
    \/ \E r \in Readers : Start(r) \/ Reads(r)
    \/ \E v \in Commits : Expire(v)

Spec == Init /\ [][Next]_vars

\* A call of remember runs to its end, and a TTL runs out.
FairSpec ==
    /\ Spec
    /\ \A r \in Readers : WF_vars(Reads(r))
    /\ \A v \in Commits : WF_vars(Expire(v))

-----------------------------------------------------------------------------
(* Properties *)

\* "Any read that starts after [a bump] can only ever see fresh keys": it
\* returns every commit made before that bump, whatever fails meanwhile.
ReadsSeeAnnounced ==
    \A r \in Readers : reader[r].pc = "done" => reader[r].val >= reader[r].floor

Fresh == entry[version] \in {None, row.commit}

\* With no write between commit and bump and no bump refused or skipped, what
\* the next read would find in the cache is the row as it is.
FreshWhenQuiet == Quiet => Fresh

\* "Entries stale until TTL": once writes stop, the cache is fresh for good,
\* whatever bumps were lost.
EventuallyFresh == <>[]Fresh

=============================================================================
