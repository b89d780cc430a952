# A verification project for Tizello

Tizello is a project-planning application: an Express API over PostgreSQL and
Redis (`src/backend`), and a Next.js frontend that renders on a server of its
own (`src/frontend`). This directory holds TLA+ models of the parts of it in
which concurrency, failure and order decide whether the program is right, the
TLC configurations that check them, and proofs checked by TLAPS.

`PROJECT.json` is the index: the components, the runs, the source lines each
definition stands for, the hazards of the code and the theorems.

    tlc -workers 2 -config RefreshTokens.cfg MCRefreshTokens.tla   # one run
    tlapm RefreshTokensProofs.tla                                  # one proof

## How the models read the code

* **A request is a process.** Every `await` lets other requests run. A database
  statement, or a `$transaction` whose locks nobody can observe half-way, is
  one action; a read that judges and a write that follows are two. A handler
  holds in `request[r]` what it has read so far. Where a handler reads several
  times, each read that judges, or decides what is written, is a step; only in
  `Workspace` are the reads of a handler one step, for the reason given there.
* **PostgreSQL runs at READ COMMITTED**, Prisma's default; nothing in
  `config/db.js` changes it. An `UPDATE` sees the rows of its snapshot, waits
  for the ones another transaction has locked, and judges those again.
  Unique indexes and foreign keys judge at the moment of the write.
* **A process may die, or a handler fail, between any two of its steps**
  (`Abort` in every module that has requests).
* **Data is abstracted to what the properties tell apart.** A token is a model
  value, a timestamp is "set", "passed" or a tick of a bounded clock, and a
  task has no title.
* **A row that never existed is bounded, not limited.** `Tasks`, `Sprints`,
  `Tokens`... are the rows a behaviour may create; once they are used up no
  more are created, and the system stops there. This is why the
  configurations turn the deadlock check off.

## Inventory

### Modelled

| Component | State | Operations | What is hard |
|---|---|---|---|
| Refresh-token sessions (`auth.service.js`, `auth.repository.js`) | `RefreshToken` rows: family, expiry, `revokedAt`, `replacedById` | sign-in, rotation, replay in the grace window, reuse alarm, logout, password reset | requests race on one token; a revoking `UPDATE` meets an open rotation; retries must not look like theft |
| Session renewal (`proxy.ts`, `session-refresh.ts`, `api-client.ts`, `auth.controller.js`, `cookies.js`) | the browser's cookie jar, each request's view of it, the API's family | proxy renewal, refresh in a render or a Server Action, cookie forwarding | answers are lost or reordered, renders cannot write cookies, the API is down |
| Login and registration codes (`auth.service.js`) | `LoginCode` rows, the attempts counter | issue, compare, count, consume, sign in | bcrypt runs between the read and the write; nothing is locked |
| Invitations and their mail (`invitation.service.js`, `email.worker.js`) | `Invitation` rows, the membership, the job queue | create, resend, revoke, accept, decline, register with a link, mail | administrators and the addressee act on one row at once; a queued job is late |
| Versioned cache (`cache.js`) | a version and an entry per version in Redis | `remember`, `bumpVersion`, `bumpingAfter` | a read straddles a write; Redis fails at any call |
| Sprints (`sprint.service.js`, with the writes of `task.service.js` and `trash.service.js` that touch them) | sprint states, each task's sprint and completion | create, start, complete, delete; create, move, finish, delete, restore, purge a task | a sprint is judged as it was read and written by id |
| Task tree and trash (`task.service.js`, `trash.service.js`) | each task's parent and whether it is in the trash | create, re-parent, delete, restore, purge | the ancestor walk is one read per level; the trash keeps old parents |
| Task statuses (`task-status.service.js`, with the writes of `task.service.js` that move tasks between them) | each status's group and `isDefault`, each task's status and `completedAt` | create, make default, reorder, delete with reassignment; create, move, bulk-move a task, set `completedAt` | the default is cleared from a snapshot; a task is stamped from the status it was loaded with |
| Workspace, its members, its projects (`workspace.repository.js`, `member.service.js`, `project.service.js`, `trash.service.js`) | memberships and tiers, each project's owner and trash state, `ProjectMember` seats | join, change tier, remove; create, seat, transfer, delete, restore, purge | a member is removed, and a project handed over, on what was read before |
| Workspace chat (`chat.service.js`, `chat.namespace.js`, `chat-send.ts`, `use-chat-socket.ts`, `chat-messages.ts`) | message rows, rooms, each tab's thread, pending bubbles and calls | send, edit, delete; ack, broadcast, timeout; connect, join, drop; first page of history | a tab shows a change before the server has it, and hears of it by three ways that cross |

How they meet. A password reset and a login end in, or end, the sessions of
`RefreshTokens`; `SessionRenewal` is the client of that API; an acceptance
creates the membership that `VersionedCache` may hold; a task write bumps the
sprint cache; `SprintLifecycle` and `TaskTree` are two views of the same task
rows, and both take the trash into account. A task stands on a status of
`TaskStatuses` whatever its sprint and parent; an acceptance of `Invitations`
is a `Join` of `Workspace`, whose members are the people the chat lets into its
room.

### Not modelled

| Component | What it keeps | Why not |
|---|---|---|
| Accounts, password reset tokens, OAuth | `isVerified`, the reset token, linked providers | single-row writes by a key only the holder has; the session side of a reset is in `RefreshTokens`, and the registration code is `LoginCodes` again. The crash window of a registration with a link (`auth.service.js:180`) is a hazard of the list no property covers |
| Custom roles | a name, a rung, permissions | `Workspace` keeps the rung; what a role permits is taken to be anything (below) |
| Task ranking | ranks as doubles | the question is how many midpoints a double has room for, and neither tool has doubles |
| Task properties, tags, comments, history | JSON values and single rows | values; the lost update of two merges (`task.service.js:296`) has nothing to relate it to |
| Read watermarks, typing, presence | a timestamp per reader | the watermark's read and write (`chat.service.js:144`) cross in the way any two reads and writes do, and no other state depends on it |
| Sprint dates | two dates | `checkWindow` reads what `loadSprint` read; the same shape as the state check that is modelled |
| Notifications, other mail jobs | rows and pushes | best effort by design: nothing depends on a push |
| Board and backlog screens | optimistic edits | they settle on what the server returns; the chat is the screen where order matters |

### Left aside

Search only reads, and what the guards let through is in the actions they guard; validation, formatting and the design system
are pure; uploads are calls to a storage provider; the rate limiter's windows
are the state of `express-rate-limit`; start-up and wiring keep no state of the
domain. `PROJECT.json` lists each with its files.

## The modules

| Module | Models | Extended or instantiated by |
|---|---|---|
| `RefreshTokens` | the API's sessions, statement by statement | `MCRefreshTokens`, `RefreshTokensProofs` |
| `SessionLineage` | what the sessions promise, with no requests, statements or clock | `RefreshTokens`, as `Lineage` |
| `SessionRenewal` | one browser session across browser, Next server and API | `MCSessionRenewal`, `SignInProofs` |
| `LoginCodes` | the codes of one account | `MCLoginCodes`, `SignInProofs` |
| `Invitations` | the invitations of one address to one workspace | `MCInvitations`, `InvitationsProofs` |
| `VersionedCache` | one scope of the cache and the row behind it | `VersionedCacheProofs` |
| `SprintLifecycle` | the sprints of a project and the tasks in them | `MCSprintLifecycle`, `SprintLifecycleProofs` |
| `TaskTree` | the sub-task tree of a project and its trash | `MCTaskTree`, `TaskTreeProofs` |
| `TaskStatuses` | the statuses of a project and the tasks standing on them | `MCTaskStatuses`, `TaskStatusesProofs` |
| `Workspace` | a workspace's members, its projects and who sits on them | `MCWorkspace`, `WorkspaceProofs` |
| `ChatChannel` | one channel, from the rows to the tabs | `MCChatChannel`, `WorkspaceProofs` |

Two proof modules speak of two components each: `SignInProofs` of the codes and
of the session they begin, `WorkspaceProofs` of a workspace and of its channel.
This is why the names of `SessionRenewal` and `ChatChannel` are told apart from
the others' (`RenewalSpec`, `RenewalTypeOK`, `ChatNext`, `ChatTypeOK`...).

Each module carries, under "Plausible slips", the small bugs its properties are
tested against: for every property of every passing run there is one that makes
it fail.

### RefreshTokens

`row[t]` is a `RefreshToken` row, `request[q]` a handler. A refresh reads the
row (`RefreshRead`); a live one is claimed by `UPDATE ... WHERE revokedAt IS
NULL` (`ClaimWon`, `ClaimLost`), and the successor is inserted in the same
transaction (`RotateCommit`), which is the one transaction modelled in two
actions, because a revocation can be waiting for its lock. A lost claim is
read again (`Reread`) and, like a token found revoked, is served from its
successor inside the grace window (`Replay`) or raises the alarm
(`ReplayRefused`, `AlarmSweep`). `Logout`, `ResetPassword` and the alarm share
the revoking `UPDATE`: `BeginSweep` takes the snapshot, `EndSweep` writes what
of it is still live when no lock is left to wait for. `ended`, `closed` and
`rotatedDuring` are history: which families a revocation covered, and which of
those no rotation overlapped.

`SessionLineage` is the promise: a sign-in founds a family, a rotation
exchanges the one usable token for a fresh one, ending sessions takes tokens
away. `ImplementsLineage` maps `lineage` to the families of the rows and
`usable` to the live ones.

### SessionRenewal

`jar` is what the browser holds, and each request keeps the copy it was sent
with (`sees`) and the cookies its answer will set (`writes`). A route is
`guarded` (behind the proxy, which renews first), `action` (a Server Action,
which renews in the call and may write cookies) or `open` (a page outside the
proxy's matcher). The API is the family of `RefreshTokens` with one request at
a time: since a family is a chain with one usable token, a token is its
generation. Faults are lost answers, an unreachable API and an error answer.

### LoginCodes

`Latest` is `findLatestLoginCode`. A guess is judged on the row as read
(`SubmitCode`), compared by bcrypt (`Compare`), and counted (`Miss`) or spent
(`Consume`, `SignIn`) by id. `RequestCode` and `CreateCode` are the two
statements of a new code, with a bcrypt hash between them.

### Invitations

An administrator's handler judges a row (`AdminBegin`, `CreateBegin`,
`CreateJudge`) and writes it (`Revoke`, `Resend`, `CreateInsert`); an
acceptance locks the row and judges it again in one transaction (`Accept`); a
refusal judges and writes (`Decline`); a registration applies the link it came
with (`Register`). `jobs` are links queued for the worker, which re-reads the
row (`Send`, `Skip`). A link is `old` once a resend has replaced its hash.

`OutcomesAreTerminal` says of a row what its three stamps promise together: once
it is accepted, declined or revoked it stays so. It allows for a handler that has
judged the row and is still to write it without a lock (`Unlocked`: a revocation,
a refusal, a registration), and claims that when no such handler is left none
will come, whatever links, retries and removals follow. `OneOutcome` makes no
allowance and is violated (Divergences). That the address has one live row is
`OneLiveInvitation`: the partial unique index alone decides it, so it is proved
and not among the runs.

### VersionedCache

A write commits (`Change`, or `Create` for a row that did not exist, which no
code bumps for) and later bumps (`Bump`), is refused (`BumpFails`), or skips
it because the write failed after its first commit (`WriteThrows`). `remember`
is `GetVersion`, `Hit` or `Miss`, `Load`, `Set`, with its two fallbacks. The
row is a membership: it may be absent, and an absent row is never cached.
`announced` is the commit that every read starting now must have seen.

### SprintLifecycle

`StartBegin`, `StartJudge` and `Activate` are `loadSprint` with its state
check, `findActiveSprint`, and the update; `Activable` is the partial unique
index. `CompleteBegin`, `CompleteRead` and `Complete` are the load, the read of
unfinished tasks, and the transaction. A task write checks the sprint
(`CreateBegin`, `MoveBegin`) and writes by id (`Insert`, `Move`), and a moved
task's sub-tree follows level by level, a read (`Descend`) and a write (`Follow`)
each. `Descend` takes any set of live tasks as the next level, since the tree is
in `TaskTree`; the walk's cap of a hundred levels only ends it, which a handler
may do anywhere. After a bulk move the sub-tree follows even if nothing changed;
after the update of one task, only if it was planned elsewhere as loaded, and
`Move` allows both.

`stale[r]` is history: the sprints and tasks that handler `r` has read and that
have changed since. The one-way lifecycle, the sorting of a completion and the
ban on moves into a completed sprint are all broken by some overlap
(Divergences), so what is checked is which: `OnlyStaleReadsTurnBack`,
`OnlyLateWritesAreMissorted` and `OnlyStaleMovesLand` say that the handler that
does it read the very sprint, or the very task, before it changed. No request is
assumed to run alone.

### TaskTree

`ReparentBegin`, `Walk` and `Reparent` are `checkParent`, one read per level,
and the update. `Deleted` is `softDeleteTasks`, which promotes live sub-tasks.
The trash reads a row and then acts on it by id (`TrashBegin`, `Restore`,
`Purge`).

`seen`, `stale` and `link` are history: the rows a handler has read, the handlers
of whose rows one has changed since, and what vouches for each parent. A link is
`checked` when the handler that wrote it knew every row it had read as it was and
its walk reached the top; otherwise it is `stale`, or `deep` past the end of the
walk, or `restored` with its task. `OnlyUncheckedLinksBreakTheTree` is about all
four at once: a cycle may close around several checked links, but one link of it
is not, so no interleaving of re-parentings that each saw the tree as it was can
make one. `OnlyOvertakenPurgesTakeTheLive` says the same of a purge: it destroys
the row it was asked for and no other, and a live one only if that row changed
after the purge had read it.

### TaskStatuses

`status[s]` is a row with its group and `isDefault`, `task[t]` the status a task
stands on and whether `completedAt` is set. `DefaultBegin` and `MakeDefault` are
the first statement of the transaction, with its snapshot, and its commit:
`Cleared` are the defaults the snapshot showed, which is all an `updateMany`
clears. `DropBegin`, `DropRead` and `DropStatus` are the three steps of
`deleteStatus`. A move loads (`MoveBegin` one task with the id of its status,
`BulkBegin` several with the groups of theirs), reads the next group and
computes the stamp (`MoveRead`, `StampFor`), and writes by id (`Move`);
`PatchBegin` is the request that brings its own `completedAt`. `Reorder` moves
statuses between groups and leaves `completedAt` alone, as its comment says.
The state starts after `ensureDefaults`. `muddled` remembers whether the default
was last chosen against the defaults that were there, and `untied` which tasks
have a `completedAt` that somebody set, or that a reorder, a deletion or a stale
move has parted from their group.

### Workspace

`member[u]` is a `Membership` with the id it was given, since a removal deletes
by id and a person who joins again has a new one. `project[p]` is the row with
its owner, and `seat[p][u]` the `ProjectMember` row, whose `OWNER` is "a display
mirror" of `Project.ownerId`. `RemoveBegin`/`Remove` and `ChangeBegin`/`Change`
are `member.service.js`; `CreateBegin`/`Create`, `SeatBegin`/`SeatWrite`,
`SeatBegin`/`Transfer` and `DeleteBegin`/`SoftDelete` are `project.service.js`;
`TrashBegin` with `Restore` and `Purge` is the trash. A handler's reads are one
step here: between two of them somebody may join, which might as well have
happened before both, and everything else that could change is asked for again
by the write, which names a membership by its id and a seat by its pair.

Who may act is `ProjectOwners` and `ProjectWriters`, from `project-access.js`.
A workspace's own roles carry their own permissions, so where a route asks for
a permission any member may be the one who has it. Two things met on the way:
`resolveProjectAccess` reads the membership without its role while the trash
reads it with one, so a role with `PROJECT_MANAGE_ANY` restores and purges
projects it may not delete ("RESTORING TAKES EXACTLY THE AUTHORITY DELETING
TOOK", `trash.service.js:5`); and changing the rung of a role does not reach the
tier of those who hold it ("The tier follows the custom role's rung",
`member.service.js:171`). That a membership is read from a cache is in
`VersionedCache`.

### ChatChannel

`row[m]` is the message, its text named by the call that wrote it. `write[w]` is
one call of send, edit or delete: where it is on its way through the handler,
whether `requestAck` still waits for it, and what the row was on the caller's
screen. `inbox[t]` are the events on their way to a tab, in order; `page[t]` is
the first page of history, which comes over HTTP past them (`ReadPage`) or fails
to load and is merged as an empty one (`MissPage`); `bubble[t]` is the
thread as `chat-messages.ts` has put it together, and `pending` the optimistic
bubbles. `Insert`, `Load`, `Update`, `SoftDeleteMessage`, `Answer` and `Refuse`
are the handler; `SendMessage`, `EditMessage`, `DeleteMessage`, `TimeOut` and
`Receive` (a broadcast, `HearBroadcast`, or an answer, `HearAck`) the tab; `Drop`, `Connect` and `JoinChannel` its connection. What a tab emits without a connection is
buffered by Socket.IO's client and leaves before the join when it is back.
Nothing assumes that it ever comes back: after a disconnection the *server* asked
for, as at a token's expiry (`realtime/auth.js:83`), Socket.IO's client does not
reconnect by itself, and no code here calls `connect`.

`behind`, `contended` and `adrift` are history, and name the exceptions: messages
a tab was not told something about (it was not in the room, the event met a
thread that did not hold the message yet, the ack came after its timeout, or its
page failed to load and the message's broadcast was past it);
messages changed while another change was on its way; calls that timed out while
the tab was offline.

## The runs

| Run | Instance | What it shows |
|---|---|---|
| `sessions` | 3 tokens, 2 families of one user, 2 requests, grace 1, TTL 2, clock to 3 | types, five safety properties, and the refinement |
| `sessions_live` | 3 tokens, 1 family, 2 requests, grace 1, TTL 2, clock to 2 | every request is answered |
| `renewal` | 3 requests, guarded pages and actions, 1 fault, 3 rotations, access TTL 4, margin 2, grace 2, answers within 1 tick, clock to 8 | plain use never ends a session, and the browser is signed out only with it |
| `codes` | 2 codes, 1 issuer, 3 verifiers, cap 2 | the cap holds up to the requests let in together; one live code |
| `invitations` | 2 rows, 2 requests | a membership spends an invitation; a closed one keeps its outcome once no older judgement is under way |
| `cache` | 2 readers, 2 writers, 2 commits, Redis and writes failing | reads see what was announced; a quiet cache is fresh; it becomes fresh in the end |
| `sprint_races` | 2 sprints, 1 task, 3 requests | one active sprint, and no task in a sprint that does not exist, in every interleaving |
| `sprint_overlap` | 2 sprints, 2 tasks, 2 requests | with requests overlapping, only a handler that read the sprint or the task before it changed turns the lifecycle back, missorts a task or moves work into a completed sprint |
| `task_tree` | 3 tasks, 2 requests, walk to depth 1 | with requests overlapping, only a link written on stale reads, past the end of the walk or brought back by the trash breaks the tree; only an overtaken purge takes a live task |
| `workspace` | 3 accounts, 1 project, 2 requests, 2 joins each | the workspace keeps its owner and a project's seats name its own, whatever overlaps; without overlap projects belong to members |
| `statuses` | 3 statuses in 2 groups, 1 task, 2 requests | one default, and `completedAt` follows the group, up to named exceptions; no task on a status that is gone |
| `chat` | 2 tabs, 1 message, 2 calls, 1 lost connection each, pages that may fail | tabs agree with the table once nothing is on its way, up to named exceptions; no bubble pending for nothing |

Why the bounds are enough:

* three tokens are a sign-in, its rotation and one more: a race has a winner, a
  loser, a successor that can itself be spent, and a stranger in the other
  family. Two requests are a racer and a revocation; the theorems lift both
  numbers. The clock covers "inside the window", "outside it" and "expired".
* in `renewal`, the clock of 8 is two useful lives of an access token, so a
  spent token is met both inside and after its grace window.
* three guesses against a cap of two exceed the cap if anything lets them.
* two invitation rows are the old and the new one of every race; one address
  and one workspace are all that the code ever relates.
* two commits let a reader straddle a bump while a second write is pending, and
  let a row be removed and created again.
* three requests on two sprints are two starts and a completion or deletion.
  `sprint_overlap` needs two: one that reads, and one that changes what it read,
  on the sprint or task in question and on another. 215 thousand states.
* three accounts are an owner who cannot be removed, a member who can, and one to
  hand a project to; two joins let a removed member come back under another
  membership id. 1.5 million states.
* three statuses are the default, another in `COMPLETE`, and one that is created
  meanwhile; each property of a task speaks of one task. 1.7 million states.
* two calls are a message and one change of it, or a send of each tab that race;
  one lost connection is enough to lose every event once. 2.8 million states.
  Three calls for one tab (630 thousand states) were checked too, and three for
  two tabs without a lost connection as far as 11 million states.
* three tasks hold a chain, a cycle and a parent that is deleted. The walk is cut
  to one step, so that a chain of three is longer than it can see and its cap is
  reached; two requests are two re-parentings that cross, or one and a deletion
  or restore in its middle. 228 thousand states.

### Fairness

* `sessions_live`: strong fairness of each request's own steps. Node resumes
  every handler, and PostgreSQL grants a row lock to its waiters in turn;
  weak fairness would not do, because a step waiting for a lock is enabled only
  now and then. Sign-ins, refreshes and the clock are not assumed to happen.
* `cache`: weak fairness of the steps of a `remember` call, and of `Expire`:
  every entry is stored with `EX`. Writes and bumps are not assumed to happen.

## What is proved

All theorems hold for every value of the constants: any number of tokens,
families, requests, codes, rows, readers and writers.

**`RefreshTokensProofs`** proves the types, the five safety properties of
`sessions` and the refinement (`TypeCorrect`, `OneLiveTokenPerFamily`, `RotationsKeepLineage`,
`AlarmsAreJustified`, `ClosedFamiliesStayClosed`, `RevocationsArePermanent`,
`ReplaysStayOutOfClosedSessions`, `StoreImplementsLineage`), assuming
`SessionAssumption` (families have owners, null values are not tokens, a
positive TTL). The inductive invariant `IInv` adds to the types:
requests hold issued tokens (`PendingIsIssued`); a handler on the revoked path
holds a revoked token (`RevokedPath`); an open rotation owns the row it claimed
(`RotationOwnsItsRow`); what a claim or revocation will write is a moment of the
clock (`WritesATime`); a token never issued was never revoked
(`UnissuedIsBlank`); a family has one live row (`OneLive`);
successors are of the family (`SuccessorsAreFamily`); a revoking `UPDATE` that
no rotation overlapped has every live row of its families in its snapshot
(`SweepSeesAll`), which is what makes `ClosedIsEmpty` hold when it ends. Without
`SweepSeesAll` the last is not inductive, and where a rotation does overlap it
is false: see `EndedStaysEnded` below. `RevocationIsPermanent` is proved too and
not among the runs: no step moves a timestamp or a family.

**`SignInProofs`** proves of `LoginCodes` the types, `WrongGuessesAreCapped`
(`attempts + comparisons under way < cap + requests`, inductive with the
types, by counting: a guess let in below the cap takes a slot, and a miss moves
it from the comparisons to the counter), `OneLiveCodePerIssuer`, which
assumes that requests for a code do not overlap, and `SingleUsePerVerifier`,
which assumes that redemptions do not: what is spent is consumed, and a
redemption under way is of a code that is not spent (`SpentIsConsumed`).

It proves all four invariants of `SessionRenewal`, for any number of requests,
tokens and faults. Whatever the lifetimes, `RenewalTypeCorrect` and
`SignOutIsTheApis`: where no refresh is answered with an error, only the API
signs a browser out. `RenewalBase` adds to the types that no request outlives
`MaxTransit` and that nobody holds a token from the future. The other two are
about time, and state what it must satisfy as a hypothesis:

* `OneRotationPerLapse`, if two requests in a row fit in the access token's life
  less the margin (`PacedSettings`). The invariant (`PacedInv`) is about the
  moment of the last rotation: a pair on its way is the newest and nobody else
  has it (`PairsAreNewest`); until it is delivered nobody new presents the newest
  token (`DeliveredFirst`); once it is, whoever still has an older one was sent
  before (`OldOnesAreFromBefore`); and the access cookie beside the newest
  token lapses a life after the rotation (`NewestIsFresh`), so that the next
  rotation is that late.
* `UseNeverEndsSession`, if they also fit in the grace window, a request is
  answered within the margin, and every page is behind the proxy or an action
  (`SafeSettings`). Without a fault (`SurvivesInv`) the browser holds the newest
  token or is about to be given it, and no request holds one older than the
  last, which the API forgives because it was spent within two answers' time.

With the code's values (an access token of five minutes, `env.js:37`;
`EXPIRY_MARGIN_MS` of a minute, `session-refresh.ts:29`; `REFRESH_GRACE_MS` of ten
seconds, `auth.service.js:510`) the hypotheses about time come to one: a request is answered
within five seconds. Nothing in the code sees to that. They are tight: with
`Grace`, the life less the margin, or the margin one tick less than they ask, TLC
finds the property violated. The instance of `renewal` satisfies them.

**`InvitationsProofs`** proves the types, `AtMostOneLiveInvitation`,
`JoinsSpendInvitations` and `OutcomesAreFinal` (`OutcomesAreTerminal`), for any
number of rows and overlapping requests; the strengthening is that an accepted
row has an account behind it. For the last it is enough to see what each door
judges: nothing but an acceptance, which judges under its lock, and the three
unlocked handlers stamps a row, and none of these begins on a closed one.

**`VersionedCacheProofs`** proves the types, `ReadsSeeEveryAnnouncedCommit` and
`QuietCachesAreFresh`. The invariant says why no lock is needed: bumps never
outnumber commits (`BumpsAreOwed`), keys are of the past (`KeysArePast`), the
current version holds every announced commit, and the row itself if no bump is
missing (`CurrentIsAnnounced`, `CurrentIsFresh`), and a value that one call
may store under an old key is good enough for every call still holding that
key (`SharedKeysKeepPromises`), which is the straddling reader.

**`SprintLifecycleProofs`** proves, whatever overlaps, the types with the foreign
key and `OneActiveSprint`, both inductive as they stand, and the three action
properties of `sprint_overlap` (`StaleReadsTurnBack`, `LateWritesAreMissorted`,
`StaleMovesLand`). The invariant behind the three is `ReadHolds`: the sprint a
handler loaded, the sprint it checked and the unfinished tasks it listed are
still so, unless that sprint or task is among what it is known to have missed
(`stale`). A step that breaks the rule must then be taken by a handler that
missed something, and the theorems say what.

**`TaskTreeProofs`** proves, whatever overlaps, on any number of tasks and for any
depth of the walk, the types with the foreign key, `ChecksKeepTheTree`
(`OnlyUncheckedLinksBreakTheTree`) and `PurgesTakeTheirOwn`
(`OnlyOvertakenPurgesTakeTheLive`). The invariant (`ReadHolds`) is about
handlers none of whose rows has changed; of a walk (`Met`) it says that, the
re-parented task aside, the parent of a live row it has read is again one it has
read, or the one it reads next. So if it ends at the
top, a set closed under parents that contains the new link would have to stay
inside what it has read, where the re-parented task is not. A walk that ends
at its cap vouches for nothing, and its link is `deep`: `TaskTreeDeep.cfg` closes
a cycle of three tasks that way with one request at a time (the code gives up
after 100 steps, `docs/api/task.md:166`).

**`TaskStatusesProofs`** proves, whatever overlaps, the types with the foreign
key, `OneDefault` and `CompletedInItsGroup`, for any number of statuses, tasks
and requests. For the default (`DefaultInv`): without a muddle there
is one, and a deletion goes on only with a status that was not among the
defaults it read (`DropsNoDefault`), which are those it meets unless it muddles
them. For the groups (`GroupInv`): what a move loaded still stands on some status
(`MovesWhatStands`), since no task leaves the statuses; nothing has to be known
of the stamp a request carries, because `untied` judges it when it is written.

**`WorkspaceProofs`** proves `OneOwner` and `SeatsNameTheOwner` whatever
overlaps, and `ProjectsBelongToMembers` for requests that do not. The invariants
say what a request in flight has been judged on. `TouchesNoOwner`: none is about
to remove or demote the owner. `SeatsAreAsked`: the seat a request will write is
never `OWNER` but in a transfer, and nothing except an addition targets the
owner it loaded. `Alone`: the one
request that runs finds the members, the owner and the project as it read them.

It proves the three invariants of `ChatChannel`, for any number of tabs, messages
and calls, of lost connections and of pages that fail to load. `ChatBase` is enough for the types
(`ChatTypeCorrect`) and for `NoBubbleSticks`: it says that what is on its way,
called, or in a page is about a message that has a row (`EventsAreSound`,
`CallsAreSound`, `PagesAreSound`), that an ack answers a call of its own tab,
that a tab which will not hear of its call is behind, and that a pending
bubble's call waits or went adrift (`BubblesAwait`). `ThreadsConverge` needs
more, and `Agreement` says it of each message that was not contended for: its
calls come one at a time (`OneAtATime`); nobody is told anything before the call
is answered (`QuietBefore`); what is told, or about to be, is what the table
holds (`TellsTheRow`); what a timeout would put back is what the table holds,
unless the answer is on its way or the tab has missed something (`Undoes`); and
when only acks are left on the way to a tab that missed nothing, what it shows or
its page is to bring is what the table holds, or it has a call of its own still
to settle (`Converges`). `Undoes` and `Converges` need each other: what an edit
remembers to take back is right because the thread was, and the thread is right
after a timeout because what it took back was. TLC checked `Agreement` first, on
the instance of `chat` and with three calls of one tab. From it follows
`TombstonesKeep`: a deleted message stays as it is, unless it was changed while
another change of it was on its way, because an edit that has been loaded is of a
row that is alive still (`EditsAreOfTheLiving`). So the exception is all there is
to `NoTextInTombstones` below.

Only model-checked: the two liveness properties (`EveryRequestAnswered`,
`EventuallyFresh`), since the prover has no rule for fairness. Every invariant,
action property and refinement the runs check is proved.

## Divergences

Where a comment or a document says more than the code does. Each is kept as a
property of its module with a configuration that shows it: `tlc -config
RefreshTokensEnd.cfg MCRefreshTokens.tla` ends in a counterexample, and so on. A
configuration that lists several stops at the first. All of them need two
overlapping requests unless noted; for `OneLiveCode` and `SingleUse` that they do
is proved. For `OneOutcome`, the three of `SprintDivergences.cfg` and the two of
`TaskTreeDivergences.cfg` the runs check, and the theorems prove, by exactly which
overlaps they are broken (`OutcomesAreTerminal`, `OnlyStaleReadsTurnBack`,
`OnlyLateWritesAreMissorted`, `OnlyStaleMovesLand`,
`OnlyUncheckedLinksBreakTheTree`, `OnlyOvertakenPurgesTakeTheLive`).

| Property | Configuration | What happens | What is said |
|---|---|---|---|
| `EndedStaysEnded` | `RefreshTokensEnd.cfg` | a logout or password reset racing a rotation leaves the successor alive | `auth.service.js:637`, `:653` |
| `SignedOutOnlyWhenOver` | `SessionRenewalError.cfg` | a Server Action whose refresh meets an error answer clears the browser's cookies | `auth.controller.js:165`, `api-client.ts:280` |
| `SessionSurvivesUse` | `SessionRenewalOpen.cfg` | a sign-in page rotates the token in a render that cannot write cookies | `lib/auth.ts:56` |
| `OneLiveCode` | `LoginCodesTwoIssuers.cfg` | two requests for a code leave two live codes | `auth.service.js:343` |
| `SingleUse` | `LoginCodesTwoVerifiers.cfg` | one code signs in twice | `docs/api/auth.md:464` |
| `OneOutcome` | `InvitationsDivergences.cfg` | an invitation is both accepted and revoked | `invitation.service.js:210` |
| `ExpiredIsReversible` | `InvitationsExpired.cfg` | an expired invitation can be neither resent, revoked nor replaced (one request) | `docs/api/invitation.md:66` |
| `OldLinkGrantsNothing` | `InvitationsDivergences.cfg` | a link replaced during its acceptance still joins | `docs/api/invitation.md:388` |
| `ClosedIsNotMailed` | `InvitationsDivergences.cfg` | a revoked or declined invitation is mailed | `email.worker.js:9` |
| `OneWay` | `SprintDivergences.cfg` | a completed sprint is started again, a running one deleted | `sprint.service.js:10` |
| `CompletingSortsTasks` | `SprintDivergences.cfg` | a task planned during a completion stays in the completed sprint | `sprint.service.js:16` |
| `NoLateMove` | `SprintDivergences.cfg` | a move that was checked before a completion lands after it | `task.service.js:94` |
| `NoLateTask` | `SprintLate.cfg` | a sub-task is born into its parent's completed sprint (one request) | `docs/api/sprint.md:59` |
| `NoLateRestore` | `SprintLate.cfg` | an unfinished task is restored into a completed sprint (one request) | `sprint.repository.js:83` |
| `ParentsAreLive` | `TaskTreeOrphan.cfg` | a restored sub-task hangs from a deleted parent (one request) | `task.repository.js:243` |
| `OnlyTheTrashBreaksTheTree` | `TaskTreeDivergences.cfg`, `TaskTreeDeep.cfg` | a parent deleted after its check is taken all the same; past the end of the walk a cycle closes (one request) | `docs/api/task.md:162`, `:164` |
| `PurgeTakesTrash` | `TaskTreeDivergences.cfg` | a task restored between the purge's read and its write is destroyed | `trash.service.js:14` |
| `Acyclic` | `TaskTreeRestored.cfg` | three legal requests and a restore put live tasks on a cycle (one request) | `task.service.js:128`, `docs/api/task.md:164` |
| `AlwaysOneDefault` | `TaskStatusesTwoDefaults.cfg` | two statuses made the default at once are both the default, or a deleted one leaves none | `docs/api/task.md:113`, `task-status.repository.js:60` |
| `OwnersAreMembers` | `WorkspaceOrphans.cfg` | a member whose project is in the trash is removed, and the project restored: its owner is no member (one request) | `member.service.js:217`, `docs/api/member.md:116` |
| `ThreadsAlwaysAgree` | `ChatDivergences.cfg` | a tab that never lost its connection shows a text the table has tombstoned: the deletion came before the page did | `chat-messages.ts:42`, `:55` |
| `BubblesSettle` | `ChatDivergences.cfg` | a send times out offline, the answer finds nobody waiting and the tab not in the room: the bubble spins | `chat-send.ts:38` |
| `NoTextInTombstones` | `ChatDivergences.cfg` | an edit loaded before a deletion writes its text into the tombstone | `chat.service.js:200` |

One more has no property of its own: `cache.js:82` says that a write that throws
has changed nothing, but `updateTask` commits before it moves the sub-tree.
`VersionedCache` has that step (`WriteThrows`), and counts it with the bumps
that are missing.

## What is left

Every component of the table "Not modelled" that keeps state of its own could be
given a module. In order of what it would say: sprint dates beside the state
check of `SprintLifecycle`; the composition of `SprintLifecycle` and `TaskTree`,
so that the sub-tree that follows a task is the real one; accounts, with the
crash between a registration and its verification; the read watermark.
