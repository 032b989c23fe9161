# A verification project for apage

apage publishes files that an AI agent produced as preview links. This directory holds TLA+
models of its server side, the TLC configurations that check them on small instances, and
TLAPS proofs of the safety properties and of the refinement for every value of the constants.

Paths below are relative to the repository (`src/internal/...`). `PROJECT.json` maps every
definition to the lines it models and lists runs, mutants, hazards, findings and theorems.

## 1. The system

Three Go processes and a web front end share three stores that have no common transaction:

| part | role |
|---|---|
| `apage-api` (`internal/api`) | HTTP handlers: console, agent API, admin console, visitor runtime and render origin. Any number of requests run at once. |
| `apage-worker` (`internal/worker`) | one scan consumer, one delete consumer, one audit consumer and the tickers: expiry sweep, usage flush, domain recheck, audit retention. |
| `apage-cli` (`internal/agent`) | MCP server on the agent's machine: upload, wait until ready, create link. |
| `web/` | Next.js console over the same API; it keeps no state the system relies on. |
| PostgreSQL (`internal/store`) | tenants, accounts, instances, files, links, quotas, audit. Nearly every handler uses single autocommitted statements. |
| Redis (`internal/redisx`) | job lists, view counters, usage buffers, rate limits, idempotency cache, one-time codes. |
| object store (`internal/objstore`) | the bytes, one object per file. |

### Components, state, operations and what makes each correct

| component | state it keeps | operations | hard behaviour | what must hold |
|---|---|---|---|---|
| Cloud file lifecycle (`api/files.go`, `store/files.go`) | `files` rows, `storage_bytes_used` | upload, presign, complete, delete | status writes are unconditional; check-then-charge; best-effort calls | bytes of a dead file are deleted; a ready file has bytes and has been through a scan; the quota is overshot by a bounded amount |
| Worker: scan, delete, sweep (`worker/worker.go`) | Redis lists, jobs in memory, timers | handleScan, handleDelete, sweep, reject | at-most-once jobs, retries, restarts, races with handlers | no object forgotten, no file ready unscanned, everything ends |
| Tenant data deletion (`store/compliance.go`) | one transaction | purge, enqueue of keys | READ COMMITTED between two statements | every key that can be seen is queued |
| Egress metering (`redisx`, `store/usage.go`) | buffers and key set in Redis; `quotas`, `usage_daily` | AddUsage, DrainUsage, flush | unregister before take; deltas only in memory | nothing counted twice, nothing lost unnoticed |
| Moderation (`api/moderation.go`, `api/admin.go`) | `tenants.status`, `agent_instances.status`, one `frozen_reason` per link | freeze, unfreeze, suspend, restore | two statements per operation, overlapping measures | what a measure applies to is held; abuse holds survive mass releases |
| Visitor runtime (`api/runtime.go`, `api/render.go`) | view counter, unlock cookies, render grants | preview, raw, unlock | checks spread over four reads; TTLs in whole seconds | admissible at one instant; the cap per counter; a lost key stops working within two grant windows |
| Link management (`api/links.go`) | `preview_links` | create, update, revoke | update clamps only to a new file | the runtime's minimum of expiries decides |
| Access policy (`api/policy.go`) | none | effective expiry, cap, CIDR match | precedence of policies | strictest wins |
| Instances and credentials (`api/instances.go`) | `agent_instances`, key hashes | create, rotate, delete | count-then-insert; two rotations at once | the limit is overshot by a bounded amount; the newest key is accepted, and nothing older than the one before it |
| Members and tenants (`api/members.go`) | `memberships`, invites | invite, accept, change role, remove | owners counted, and the target's role read, before the write | at least one owner; only owners make or touch owners |
| Accounts, sessions, tokens (`api/auth.go`) | `sessions`, `auth_tokens` | login, reset, verify | login racing a reset | a reset ends old sessions |
| Admin console and MFA (`api/admin.go`, `totp`) | TOTP secrets, pending logins, used codes | seed, login, enrol, confirm, logout | two logins before enrolment; nonces that expire | one code, one session; what is enrolled was confirmed |
| Idempotency, rate limits (`api/middleware.go`) | Redis keys | get, run, set; fixed window | a retry while the first is running | one effect per key |
| Custom domains (`api/domains.go`) | `custom_domains` | create, verify, delete, recheck | stale write-back after a DNS lookup; a name deleted and added again | a verified domain was proven and stays verified; a vanished record is noticed |
| Agent tools (`agent/`) | the tool calls running | create_preview_link, modify_link | requests sent again by the transport; polling | a call returns, with one link to its own bytes |
| Audit log and retention | audit list and table | enqueue, persist, purge in batches | at-most-once persist | no event purged early |
| Abuse reports, OAuth, usage and metrics endpoints, HTTP helpers, configuration | – | reads, single inserts, formatting | none of interest | – |

### How the components interact

The runtime reads `files.status` and `expires_at`, which the file lifecycle and the sweeper
write; it reads `frozen_at` and `revoked_at`, which moderation writes; it meters what it serves
into the buffers that the worker drains. Link creation checks instance and tenant status before
its insert, so it races moderation. Handlers hand work to the worker only through the Redis
lists `scan` and `delete`; the worker answers only through row statuses. The agent sees files only
through `GET /files/{id}`; the console sees memberships, instances and domains through a role it
read at the start of its request.

## 2. Modules

| module | models | proofs |
|---|---|---|
| `FileLifecycle` | files, quota, queues, scan, delete, sweep, purge, faults | `FileLifecycle_proofs` |
| `FileService` | what the file component promises: the phases a client sees | |
| `FileRefinement` | the mapping under which `FileLifecycle` implements `FileService` | `FileLifecycle_proofs` |
| `AgentFlow` | the agent's tools, the Idempotency-Key wrapper, files as `FileService` | `AgentFlow_proofs` |
| `UsageMeter` | the usage buffers and their flush | `UsageMeter_proofs` |
| `Moderation` | freezes and suspensions against link creation | `Moderation_proofs` |
| `LinkRuntime` | one link as its visitors see it | `LinkRuntime_proofs` |
| `Accounts` | accounts, sessions, tokens, invitations and memberships | `Accounts_proofs` |
| `TenantResources` | instances, their keys and custom domains | `TenantResources_proofs` |
| `AdminMfa` | seeding, login, enrolment and codes of the platform administrator | `AdminMfa_proofs` |
| `MCFileLifecycle`, `MCModeration`, `MCLinkRuntime`, `MCAccounts`, `MCAdminMfa` | the symmetry sets and start values of the runs | |

`FileService` is the joint between two detailed models: `FileLifecycle` implements it and
`AgentFlow` is composed with it, so that the agent is checked against the insertions, completions,
scans and ends that the file component can show, in any order it allows, without its queues.

One action is one call to PostgreSQL, Redis or the object store, because that is the grain at
which processes interleave. A handler in flight is a record with a `pc`; its early returns go
back to `"idle"`. History variables guard nothing and are read only by properties.

### FileLifecycle

One tenant. `row` is the `files` table (status and size), `object` the object under the file's
key (absent, or with bytes that match the declared type or not), `used` is
`quotas.storage_bytes_used`, `scanQ` and `deleteQ` are the Redis lists and `dead` the
dead-letter list. `due` and `urls` stand for the clock: which files have reached `expires_at` and
which presigned URLs still work. `Texts` are the files declared `text/*`, JSON or HTML, which an
empty head matches.

| actions | code |
|---|---|
| `UploadCheck` … `QueueScan` | `handleUploadFile`: quota read, INSERT, Put, status, charge, enqueue |
| `PresignCheck`, `PresignCreate`, `ClientPut` | `handlePresign` and the client's use of the URL |
| `CompleteRead` … `CompleteFinal`, `Charge`, `QueueScan` | `handleCompleteUpload`, with its over-quota branch |
| `DeleteRead` … `QueueDelete` | `handleDeleteFile` with `MarkFileDeleted` as read and write |
| `PurgeSelect` … `PurgeEnqueue` | `PurgeTenantData` (two statements and a commit, with row locks) and `handleDataDeletion` |
| `ScanTake` … `RejectEnqueue` | `consume`, `handleScan`, `sniffVerdict`, `reject` |
| `DeleteTake`, `DeleteObject`, `DeleteFails`, `TimerFires` | `handleDelete`, `requeueAfter`, dead letters |
| `SweepSelect` … `SweepEnqueue` | `sweep`, `ExpireDueFiles` |
| `CallLost`, `RequestDies`, `PurgeDies`, `ScanCallLost`, `SweepCallLost`, `RetryLost`, `WorkerCrash` | errors the code ignores (`_ =`), cancelled requests, worker restarts |

`ScanGetFails` is an error of `Get`, which is retried. `ScanReadFails` is an error of the read of the
body, which `sniffVerdict` drops: the head is empty, so a text passes (`unread`) and anything else is
rejected. `SetFileStatus` overwrites any status, as its SQL does; that is the source of most of what the
model shows.

### UsageMeter

A key is a tenant with a dimension. `Incr` and `Register` are the INCRBY and SADD of
`AddUsage`; `Members`, `Rem`, `Get` are SMEMBERS, SREM and GETDEL of `DrainUsage`; `Flush`,
`Daily`, `FlushDone` are `flushUsage` with its two tables. `RegisterLost`, `RemFails`,
`GetFails`, `FlushFails` and `Crash` are the failures. `usage_daily` is summed over days.

### Moderation

`tenant`, `inst` and `link` are the three tables. A link has one hold (`frozen_at` with
`frozen_reason`); `Hold` and `Release` are the mass UPDATE statements, which touch only unheld
links and only holds with their own tag, the comparison being of text. `abused` are the links whose hold
`handleFreezeLink` set, with any reason, the mass tags included: such a hold a mass release with that
tag clears (`NamesakeRelease`), and `AbuseHoldKept` names no other exception.
`CreateAuth`, `CreateTenant`, `CreateInsert` are the steps of `handleCreateLink` that look at or
write these tables. `SecondLost` is the ignored error of a second statement.

### LinkRuntime

`visit` holds the requests in flight: `Admit` (`admitLink`), `ResolveBacking`, `IssueGrant` or
`PassGates`, and `ConsumeView`, `Uncapped` or `ConsumeFails`; what follows streams bytes and changes
nothing here. `counter` is the Redis key with its TTL. A policy is a view cap and a lock: a password,
an account, or an account that is listed or a member of a tenant. `cookie` is when each visitor's
unlock cookie ends (`Hour` after `Unlock`), `account` who the visitor is signed in as; sessions begin
and end (`SignIn`, `SignOut`) and memberships come and go (`Join`, `Leave`), under requests in
flight as well: a request carries the cookies it brought, while its session must still exist and its
membership is looked up when the gate is reached. `grant` is the newest render grant of each visitor.
A grant names a link and a window and no visitor, so `PassGates` on the render origin takes anybody's.
The owner edits (`UpdateRead`, `UpdateLink`), revokes; moderators freeze and unfreeze;
files die; `Tick` is the clock, `Second` ticks to a second. `isolated` is whether
`RENDER_DOMAIN` is configured; both deployments are initial states. IP lists, rate limits and
failed reads only end a request early and are in `Refuse`.

### FileService and FileRefinement

A file is absent, awaiting its bytes, being checked, serving, ended or purged. `Phase` maps the
statuses of `files` to these; `revived` is the set `resurrected` of `FileLifecycle`. `held` are the
files some process has in hand, from its INSERT or its read of the row to the status it writes
(`InHand`), and `refused` the rejected ones. A process takes a file up only before its end (`Open`),
but `handleScan` (worker.go:203) turns back only from deleted and expired rows: a rejected one may be
taken up and checked again.
`ImplementsFileService` then says that each of the many writers of a status makes only the moves
that clients rely on: nothing is served that did not pass through a check, an ended file comes
back only through a process that took it up before its end or checks a rejected file once more, no
file goes back to awaiting, and a purge is final.

### AgentFlow

`agent` is a tool call (`uploadResolved`, then `createLink` or `updateLink`), `att` its API
request and possibly an orphan of it. `IdempotencyGet`, the operation (`Presign`,
`CompleteUpload`, `FileByID` with `CreateLink` or `UpdateLink`) and `IdempotencySet` are the
three stages of `idempotent`. `Reconnect` is Go's HTTP transport, which sends a request that has
an `Idempotency-Key` again when its connection breaks; `GiveUp` the client's timeout. `cache` is
keyed by endpoint and key, and since the key is a clock reading, any call may draw any key.
`PollReady`, `PollAgain` and `PollFails` are `waitReady`. The rate limit of the write endpoints
only refuses requests and is left out. A completion that the transport repeats finds the file no
longer awaiting it and is answered 409, so the tool reports a failure although the upload
succeeded. The model has this and no property forbids it, although specs/apage-spec.md:249-250 lists
the completion among the endpoints that support an Idempotency-Key and answer alike for 24 hours; the
handlers of presign and link creation go through `idempotent`, that of the completion does not.
`AgentFlow` takes the moves `Insert`, `Complete`, `Publish` and `End` of `FileService`, whose `held`
and `refused` it leaves empty: no file comes back from its end there, and none is purged.

### Accounts

`user`, `sessions`, `tokens` and `member` are the tables; an account is its e-mail address and
its passwords are numbered. `SessionUser` and `MembershipFor` are `requireSession`: the role is
read there and not again. `MembershipByID`, `CountOwners` and `WriteMember` are the statements of
`handleUpdateMember` and `handleRemoveMember` (which is a change to `"none"`). Invitations pass
through `idempotent`, whose replays change nothing; it is modelled in `AgentFlow`.

### TenantResources

`inst` and `dom` are the tables, with fresh ids for rows and keys; `dns` is what the owner of a
host publishes. `CreateCount` and `CreateInsert` are the two statements of both creations: at
PostgreSQL's default isolation the count does not see rows that others have yet to commit. A
verification reads the row, looks its record up and writes (`VerifyRead`, `VerifyLookup`,
`VerifyWrite`); the worker lists, looks up and writes back (`RecheckList`, `RecheckLookup`,
`RecheckWrite`). `Ages` is the passing of twelve hours.

### AdminMfa

`BootCount` and `BootCreate` are `BootstrapAdmin` of each replica. A login is `Arrive` (within the
limit), `LoginRead`, `LoginSecret`; a code is `MfaPending`, `MfaRow`, `MfaCode`, `MfaNonce`,
`MfaEnroll`, `MfaFinish`. A code is the pair of its secret and its step, so that two pairs never
collide as six digits may. Time is counted in steps of 30 seconds. `MaxLag` bounds the steps that
begin between the check of a code and its nonce: a request that rests longer there is not covered.
A code is accepted over three steps and its nonce lives for four (two minutes), so the margin is one
step; the proof has it as the hypothesis `MaxLag + 2 < NonceSteps`.

## 3. Runs

| run | expects | properties | what it shows |
|---|---|---|---|
| `file_safety` | pass | TypeOK, CleanupTracked, ReadyHasBytes, ReadyWasScanned, ImplementsFileService | all interleavings of two concurrent requests (three in all), the worker, a purge and one fault on one file, and that each is a behaviour of `FileService` |
| `file_quota` | pass | QuotaOvershootBounded | the check-then-charge race overshoots by at most one body per other request in flight |
| `file_live` | pass | EventuallyDead, EventuallyClean | with one fault, every file ends for good and the bytes of dead files go or are dead-lettered |
| `file_unread` | violation | ReadyWasRead | a text file becomes ready although its body could not be read |
| `usage_metering` | pass | TypeOK, Conservation, BufferReachable, DailyWithinTotal, EventuallyFlushed | metering with two faults |
| `moderation_safety` | pass | TypeOK, HeldWhileInForce, AbuseHoldKept | two operators and a creating agent, four operations, one fault; abuse holds with any reason, a mass tag's text among them |
| `moderation_frozen` | violation | FrozenInstanceServesNothing | restoring a tenant frees links of a frozen instance |
| `link_runtime` | pass | TypeOK, AdmittedAtOneInstant, CapHoldsPerLife, LockTakesHold | two visitors, signed in or not, two requests, one change (of the link, its file, a session or a membership), unlock cookies, grants handed on, errors of Redis, time |
| `accounts` | pass | TypeOK, OwnerKept, OwnersMadeByOwners, ResetEndsSessions, InviteNotWasted, OwnerTouchedByOwners | an owner, an admin and an outsider, three requests two at a time, one fault |
| `agent_flow` | pass | TypeOK, OwnLink, OneLinkPerCall, ToolReturns | two tool calls and an orphan, one broken connection and one fault |
| `tenant_resources` | pass | TypeOK, OvershootBounded, OnlyNewestKeys, VerifiedWasProven, VerifiedKept, VanishedReverts | four requests two at a time, the recheck loop, three DNS changes, one fault |
| `admin_mfa` | pass | TypeOK, OneSessionPerCode, EnrolledIsConfirmed, EnrolmentKept | two replicas, two handlers, two logins and two codes, five steps of the clock, one fault |

Deadlock is not checked where the bounds on requests, operations or time let a behaviour end.

Each passing property has a mutant in `PROJECT.json`: an operator next to the action it replaces,
marked `Mutant` in its comment, with a bug one could plausibly write there.

### Bounds, and why they are enough

* **Files and sizes.** Rows of different files touch each other only through `used` and the
  order of the queues. One file with two concurrent requests shows every race on a row;
  `file_quota` uses two files because its property relates several rows to one counter.
  A body of size 1 with limit 1 fills the quota, so a second completion is over it;
  `file_quota` has sizes 1 and 2, so that bodies fit, fill and exceed the quota and completions
  find another size than the declared one. `Texts` is the one file in `file_safety` and
  `file_unread`, and empty where a file's type makes no difference (`file_quota`, `file_live`).
* **Requests.** Three requests allow upload, complete or delete, and a second delete or a
  purge; two at a time are what a race needs. The theorems have no such bound.
* **`MaxDeleteAttempts`** is 6 in the code. It is 1 in `file_safety` (every failure is the last)
  and 2 in `file_live` (one retry through a timer, then the last).
* **Faults.** One fault anywhere (two for metering, none in `file_quota`) is enough to tell a lost object from an
  excused one; the theorems allow any number.
* **Links and operators.** Two links of two instances, two operators: a mass statement between
  the two statements of another, on a link it covers and one it does not.
* **Time.** `Window = 1` and `MaxTime = 2` reach the third window, in which a grant of the first has
  ended; `Hour = 1` ends a cookie while a grant issued with it is still good. A link lifetime of a
  second of two ticks, with a view one tick into it, shows the rounding of the TTL.
* **Policies and requests of a link.** A public policy, and one of a single view with both a password
  and a member's account, so that either half of the lock may be lost. Two requests are a race for the
  view, or a page that earns a grant and the `/raw` that uses it, by the same visitor or another.
  One change of the link, its file, a session or a membership; the theorems have no such bound.
* **Accounts.** Three requests are a promotion and two demotions of the two owners at once, or an
  invitation, its acceptance and a change of role; or a reset and a login with the old password.
* **Agent.** One agent at a time, but the requests it gave up run on, so a second call overlaps
  with what is left of the first; with two keys any two requests may share one or not. Two agents
  side by side give too many states for a run of a few minutes. Three files are a file of each call and one
  of a doubled presign.
* **Tenant resources.** Two names under a limit of one let two creations race for the last place;
  one host, deleted and added again, has rows of two ids; three DNS changes publish, withdraw and
  publish again.
* **Administrator.** `Limit` is 2 where the code has 10: two logins and two codes are what a race
  for a secret or a code needs. Five steps reach past the last at which a code is accepted, plus the
  life of its nonce.

### Fairness

`file_live`, `usage_metering`, `agent_flow` and `tenant_resources` use `FairSpec`. Weak fairness holds of each handler once it is
running (nothing in it blocks for ever; its errors are returns), of the worker's loops and
tickers (`Run` restarts none of them because none ends), of timers, and of the passing of time.
Clients, visitors and faults are not fair. `ScanSniff` is strongly fair: reads of an object that
exists do not fail for ever, which is what the code's "transient read error" assumes. Without it
a scan could be requeued for ever by a store that always fails, and the sweep alone would end
the file. In `AgentFlow` the tool that runs and the handler of its current request are fair (every
call has a timeout), files and orphans are not: `ToolReturns` holds although a scan may never end. In
`TenantResources` the recheck loop, time and running handlers are fair, users and DNS are not.

## 4. What the checks found

Two runs are expected to find a violation; each states a sentence of the repository that the code
does not keep, quoted in `PROJECT.json`, "findings".

1. `file_unread`: "Fails closed on a content mismatch and retries on a transient read error"
   (worker.go:350). Only an error of `Get` is retried. `Get` opens the object; the error of the read
   of its body is dropped (worker.go:363), an empty head counts as plain text, and a file declared
   `text/*`, JSON or HTML is ready with no byte read. (An image or a PDF is rejected instead, and its
   object deleted.) `ReadyWasScanned` is what is left: a ready file was opened by a scan, and its
   bytes were accepted or could not be read.
2. `moderation_frozen`: one `frozen_reason` cannot record two overlapping measures.

Other departures met while modelling are exceptions that the passing properties name:

* A scan that read the row before a delete writes `ready` after it; the object goes and the row
  serves nothing until the sweep (`resurrected`, and `Revive` of `FileService`).
* `handleScan` skips deleted and expired rows but not rejected ones, although the comment at
  worker.go:329 calls `rejected` terminal: a second job checks a rejected file again, and may publish
  it (`refused`).
* A release subtracts a size without looking at the status it leaves, so a delete racing the sweep, or
  a second delete, releases it twice, and a purge sets to zero a counter that an upload has just
  charged; the floor at zero hides this only when the counter is empty. No property bounds the
  counter from below but `TypeOK`.
* A missing object is taken for a transient error and its scan requeued; the sweep ends it, except
  for a rejected file, which passes the status check and is never swept.
* GETDEL before the UPDATE makes the flush at most once (`lost`), not exactly once.
* The TTL of a view counter is rounded down to whole seconds, so it may end before its link and
  the cap begin again: `CapHoldsPerLife` is about one life of the counter. An error of Redis lets
  a view through uncounted, and a refused attempt has already been counted.
* Two owners who demote or remove each other at once leave a tenant without one (`overlapped`), and
  an admin may change an owner who was promoted after the admin's request had read the role.
* A login that overlaps a password reset keeps its session (`spared`).
* An invite is used up before the membership is inserted; a failure in between wastes it (`wasted`).
* Two attempts with one Idempotency-Key both run if the second looks before the first has stored
  its answer, or if storing or looking fails (`excused`).
* An abuse freeze takes any text for a reason; when the text is `instance_frozen` or
  `tenant_suspended`, releasing the instance or the tenant frees the link, against the comments at
  admin.go:307, instances.go:139 and moderation.go:99 (`NamesakeRelease`).
* A render grant survives the key it was issued for and may be handed on: a visitor whose cookie ended,
  who signed out, left the tenant or never had a key passes `/raw` with it for up to two windows
  (`LockTakesHold` says when that ends). An unlock cookie is for a link, not for its password: a
  changed password leaves it good for the rest of its hour.
* specs/apage-spec.md:234 wants a rotated key to become invalid after a grace period, and 236-239 a
  leaked key to be ended by rotation. `token_grace_hash` has no expiry (instances.go:92-112): the
  previous key stays accepted until the next rotation. `OnlyNewestKeys` does not ask that it be; it
  says that the installed key is accepted and that nothing older than the previous one ever is.
* instances.go:12 says that the instance limit is enforced in the transaction. The count does not see
  what other transactions have yet to commit, so creations at once overshoot it (`OvershootBounded`
  says by how much).
* The comments on deleting an instance (instances.go:119 of `api`, 114 of `store`) say that its links
  are revoked by cascade; migration 0001 declares `ON DELETE SET NULL`, and the links stay. No property
  covers this.
* A second login before enrolment replaces the secret whose code the first is confirming (`raced`).
* A recheck writes back the status it listed, over a verification that came in between
  (`OlderFinding`).

The passing properties name these cases as exceptions (`resurrected`, `escaped`, `faulted`,
`unread`, `crossed`, `late`, `lifted`, `broken`, `stranded`, `lost`, `collided` and those above). That
has a price: where a hazard of `PROJECT.json` is itself such a case (a `ready` written over a delete, a
lost enqueue or a late PUT, a link inserted during a freeze or a half-done mass operation, two owners
demoting each other, a role gone stale in a request, a login in flight during a reset, a wasted invite,
two logins before enrolment, a recheck over a verification, overlapping attempts, a counter that ends
before its link), the property does not say that it is harmless. It says that the named case is the
only way to the bad state, and that nothing else, alone or together with it, leads there.

## 5. Proofs

TLAPS checks every theorem below for all values of the constants, from the named assumptions in
the modules (markers distinct from real values, sizes natural and bounded, bounds natural,
windows and seconds positive, at least one and finitely many requests). With them every
invariant and every action property of the passing runs is proved, and so is the refinement.

| module | theorem | statement |
|---|---|---|
| `FileLifecycle_proofs` | `TypeCorrect` | `Spec => []TypeOK` |
| | `CleanupIsTracked` | `Spec => []CleanupTracked` |
| | `ReadyFilesHaveBytes` | `Spec => []ReadyHasBytes` |
| | `ReadyFilesWereScanned` | `Spec => []ReadyWasScanned` |
| | `OvershootIsBounded` | `Spec => []QuotaOvershootBounded` |
| | `Refinement` | `Spec => ImplementsFileService` |
| `AgentFlow_proofs` | `AgentTypeCorrect` | `Spec => []TypeOK` |
| | `CallsLinkOnce` | `Spec => []OneLinkPerCall` |
| | `LinksAreOwn` | `Spec => []OwnLink` |
| `UsageMeter_proofs` | `UsageTypeCorrect` | `Spec => []TypeOK` |
| | `EveryByteAccounted` | `Spec => []Conservation` |
| | `BuffersStayReachable` | `Spec => []BufferReachable` |
| | `DailyFollowsTotal` | `Spec => []DailyWithinTotal` |
| `Moderation_proofs` | `ModerationTypeCorrect` | `Spec => []TypeOK` |
| | `HoldsStayInForce` | `Spec => []HeldWhileInForce` |
| | `AbuseHoldsKept` | `Spec => AbuseHoldKept` |
| `LinkRuntime_proofs` | `LinkTypeCorrect` | `Spec => []TypeOK` |
| | `AdmissionIsAtomic` | `Spec => []AdmittedAtOneInstant` |
| | `CapHolds` | `Spec => []CapHoldsPerLife` |
| | `LocksTakeHold` | `Spec => LockTakesHold` |
| `Accounts_proofs` | `AccountsTypeCorrect` | `Spec => []TypeOK` |
| | `AnOwnerRemains` | `Spec => []OwnerKept` |
| | `OnlyOwnersMakeOwners` | `Spec => []OwnersMadeByOwners` |
| | `OwnersTouchOwners` | `Spec => OwnerTouchedByOwners` |
| | `ResetsEndSessions` | `Spec => []ResetEndsSessions` |
| | `InvitesAreNotWasted` | `Spec => []InviteNotWasted` |
| `TenantResources_proofs` | `ResourcesTypeCorrect` | `Spec => []TypeOK` |
| | `LimitsNearlyHold` | `Spec => []OvershootBounded` |
| | `OldKeysAreDead` | `Spec => []OnlyNewestKeys` |
| | `VerifiedDomainsWereProven` | `Spec => []VerifiedWasProven` |
| | `VerificationIsKept` | `Spec => []VerifiedKept` |
| `AdminMfa_proofs` | `MfaTypeCorrect` | `Spec => []TypeOK` |
| | `CodesAreSingleUse` | `Spec => []OneSessionPerCode`, assuming `MaxLag + 2 < NonceSteps` |
| | `SecretsAreConfirmed` | `Spec => []EnrolledIsConfirmed` |
| | `EnrolmentIsKept` | `Spec => EnrolmentKept` |

Hardly any of these is inductive. What each argument adds:

**File cleanup.** `CleanupTracked` needs that a process about to clean up `f` really has marked it
(`DeleteJustified`, with the sweep's and the purge's own bookkeeping in `SweepShape` and
`PurgeShape`), and that no process or queue refers to a row that was never inserted (`Known`), or a
late INSERT could make a live row out of one that is being deleted. `ReadyHasBytes` needs that a
deletion is pending only for a dead or excused file (`DeleteJustified` again), and that a scan about
to publish still has its bytes or lost the file meanwhile (`ScanHasBytes`, which also carries
`ReadyWasScanned`: a scan that is about to publish has accepted the bytes, or failed to read those of
a text). Together they are `Inv`. Frame lemmas say once which actions touch which
variable; each conjunct then has one lemma with one case per action that can disturb it.

**The quota.** `PendingCharge` counts the bytes that requests have checked and may still charge, as
pairs of a request and a byte, so that the sum needs no induction over requests: `UnitsSplit`
separates one request's bytes from the rest, which are at most `MaxSize` for each other request. A
step charges what was pending, drops it, passes the check (then the others' bytes are the whole
overshoot), or skips the check through an error (then the bound grows by a body). `Sized` says that
nothing that may be charged is larger than the largest body.

**Refinement.** Each writer of a status makes one of the moves of `FileService`, or none. What has to
be known is that no writer arrives before its file does: `Arrived` says that a file with an upload in
hand, or whose scan is due, queued or running, no longer awaits its bytes, and that what a purge is
about to remove has a row. From it and `Shape`, every step moves a status as the service does, or not
at all. The other half, `Hands`, is about who may write at all: whatever step a process takes, a file
newly in its hand has not ended or is a rejected one (the guards of the reads: `CompleteRead`,
`ScanTake`, the INSERTs), and a file becomes rejected only by a process that has it in hand. One lemma
for each group of actions (`StepTakenReq`, `StepTakenScan`, `StepRejected`) gives `StepHands`.

**Metering.** `Conservation` counts a delta that is between the two tables once (`InHand`);
`DailyWithinTotal` needs `DailyRoom`, that the delta about to reach the rollup is in the total.

**Moderation.** `HeldWhileInForce` is split by measure: `HeldWhileSuspended` and `HeldWhileFrozen`,
each owed by the second statement of its operation. `NoHoldUnborn` says that an insertion wipes out
no hold. `AbuseHoldsKept` goes through every statement that writes a hold: a mass hold leaves held
links alone, and a mass release that clears an abuse hold has matched its text.

**The runtime.** `VisitInv` says that a request past its first read is either still admissible by
what it read or already known to be refused: files only leave `ready` and the clock only moves
forward, so an expiry and status that are good later were good at the first read. `CounterInv` says
that the numbers drawn in one life of the counter are distinct and bounded; the views admitted under
caps of at most c then inject into `1..c` (`CounterCap`), whatever the order of edits. `LocksTakeHold`
rests on `GrantInv`, that whoever holds a grant had a right to it under the lock of that time
(`Earned`), and on `WindowSpan`, the arithmetic of two adjacent windows. `Earned` lasts because a
session or membership that ends is recorded (`lost`); it begins true because a request that counts as
signed in belongs to a visitor who is (`SessionInv`).

**Accounts.** `Counted` says that a request which has not been overtaken since its last read leaves
an owner behind, and acts on an owner for an owner; a change of membership marks the others as
overtaken, so the count stays true of whoever relies on it. `Granted` says that whatever may still
make an owner (invites, requests to join, changes of role) was asked for by an owner. A session begun
before a reset belongs to a login that overlapped it, or the handler that will revoke it is still
running (`Owed`). `Registered` says that
handlers and mailed tokens belong to registered accounts.

**Tenant resources.** `KeysRecorded` ties the two hashes of a row to the last two entries of its list
of keys. `FindingsProven` says that whoever may still write `verified` has a lookup behind it;
`NoOlderFinding`, that no check in flight would write something else over a confirmed row. The limit
is a count of rows together with the insertions pending.

**The administrator.** `Coherent` says that until a login replaces the secret under a handler
(`raced`), every copy of the row has the row's secret and a handler about to enrol has seen a code of
it. `Spending` bounds the sessions a code has earned together with the handlers it has let through:
they number one once the code is spent, its key is still there or the clock is past every handler
that may still bring it (`Spent`), plus one for each error of SETNX (`Slack`). `Spent` lasts because
the key outlives those handlers, which is the hypothesis of `CodesAreSingleUse`.

**The agent.** `OneLinkPerCall` holds of a call that is not excused by `Once`: at most one of its
attempts is past the lookup of the cache (`OneBusy`), it makes one link (`OneMade`), no attempt is
about to make another (`NoneLeft`), because the answer is in the cache or about to be stored under
the key that every attempt of the call has (`Remembered`, `SameKey`). `OwnLink` follows from `Owned`:
any two calls that have something to do with one file (an attempt, a tool, bytes, a cached presign,
a link or an answer: `Holds`) are one call or have both drawn a key of another. Every step traces
what a call comes to hold back to what it, or another call with its key, held before (`Traced`), and
a file nobody has presigned is held by nobody (`Unborn`).

### Only model-checked

* Liveness under fairness (`EventuallyDead`, `EventuallyClean`, `EventuallyFlushed`,
  `VanishedReverts`, `ToolReturns`): out of this prover's reach, as is ENABLED.
* The violations are counterexamples and need no proof.

## 6. What is not modelled

* **File lifecycle**: the purge's deletion of links; the number of rows one sweep selects;
  the delays between delete attempts; idempotency of the upload requests.
* **Locks**: passwords are right or not entered; an account is its visitor; one tenant's membership
  stands for all; the lock of a policy without a stored password is never opened, where the model
  lets it be.
* **Runtime**: `view_count`, access audit, response headers, the wrapper page, range requests.
  Files only leave `ready` in `LinkRuntime`; the races that bring one back are the subject of
  `FileLifecycle` (`resurrected`). `FileLifecycle` and `LinkRuntime` are not composed.
* **Moderation**: one tenant; the admin's authentication is `AdminMfa`, composed with nothing.
* **Accounts**: the tenants that registrations create; renaming a tenant; CSRF tokens and rate
  limits, which only refuse requests; the OAuth exchanges before an address is known.
* **Agent**: `list_links` and `revoke_link` (one call each), path checks, the MCP transport.
* **Administrator**: other administrators and addresses, the limiter's window beginning again.
* **Stores**: a call either happens or is lost; partial writes, replication and failover of
  PostgreSQL, Redis and the object store are outside the code.
* Components with status `not_modelled` in `PROJECT.json`, each with its reason: audit log, abuse
  reports, HTTP formatting, configuration, mail, reports, process wiring and the web front end hold
  no state that another part decides on.

## 7. Plan

Done: the models of `FileLifecycle`, `UsageMeter`, `LinkRuntime`, `Moderation`, `Accounts`,
`FileService` with its refinement, `AgentFlow`, `TenantResources` and `AdminMfa`; the proofs of
every invariant and action property that the passing runs check, and of the refinement.

Still worth stating: two abstract specifications, each with its refinement checked and proved. One is
a meter that is a single counter, refined by `UsageMeter` through `buf + InHand + total + lost`; the
other a link whose requests are decided in one step, refined by `LinkRuntime`.
