# Stonehush in TLA+

Stonehush is a local-first workspace for security assessments: a browser talks
to a control plane (`apps/api`, one Node process over one SQLite file), and a
separate runner process (`apps/runner`) fetches work from it and executes
tools. This directory holds TLA+ models of its protocols and of two of its
algorithms, the TLC runs that check them on small instances, and TLAPS proofs of
all their safety properties.

## The system and its parts

| Part | State it keeps | Operations | What is hard about it | Model |
| --- | --- | --- | --- | --- |
| Run and lease control (`packages/db/src/run.ts`, `packages/domain/src/runner-control.ts`) | `runs`, `run_leases`, `run_events` rows | allocate, lease, heartbeat, started, complete, expire, cancel, retry, fence | stale, repeated and reordered requests; loss of a runner at any point | `RunControl` |
| Action planning (`packages/domain/src/action-planning.ts`, `packages/db/src/action.ts`) | `actions` row: state, run state, pending warning, acknowledgment, snapshots | plan, Continue, add scope and run, cancel, late warning | coupled fields with a dozen writers; tabs that act on what they fetched earlier | `RunControl` (against Runs), `Planning` (against tabs) |
| Idempotent commands (`packages/db/src/operator-command.ts`, `apps/web/src/engagements/idempotency.ts`) | stored responses by key; keys in the browser | execute, replay, conflict | a retry of what was already done | `Planning` |
| Runner identity (`packages/db/src/runner.ts`) | `runner_identities`, `runner_sessions`, challenges | enroll, confirm, handshake, revoke | revocation while work is live | `RunControl` |
| Runner process and outbox (`apps/runner/src/`) | lease, self-fence deadline, heartbeats, child process, requests on disk | poll for a lease, execute, observe a cancellation, publish, complete, stop | its own clock; races of cancellation, exit, lease loss and shutdown; crash | `RunnerProcess` |
| Evidence (`packages/db/src/evidence-grant.ts`, `apps/api/src/evidence/`) | grants, staging and published files, `evidence_artifacts` rows | admit, PUT, complete | crash between rename and commit; abandoned uploads | `EvidencePublication` |
| Backup, restore, doctor, bundle import (`apps/api/src/evidence/`, `workspace-bundle-service.ts`) | backup lock, directories with markers and manifests | back up, restore, diagnose, import | partial writes, power failure, writers beside a snapshot | `BackupRestore` |
| Advisor (`packages/db/src/advisor-turns.ts`, `apps/api/src/advisor/`) | turn rows | reserve, call the provider, complete, expire, replay | an answer later than its reservation, its requester or its process | `AdvisorTurn` |
| Notes (`apps/web/src/engagements/notes-query.ts`, `notes.tsx`, `packages/db/src/repository.ts`) | one row; per tab a cached copy, a draft and its base | open, edit, save, conflict, keep mine, load server's | two copies in a tab, and answers in any order | `NotesEditor` |
| Start of an engagement (`apps/web/src/engagements/create-dialog.tsx`) | the retained progress, a key per intent, submits at their awaits | submit, retry, edit, discard, close | three commands, each refused, lost or late, while the dialog changes hands | `StartEngagement` |
| Evidence images (`notes.tsx`, `packages/db/src/excerpts.ts`) | rows; per view a list with write marks | upload, crop, caption, reload, navigate | lists older than a save; late uploads | `Attachments` |
| Leads (`packages/db/src/leads.ts`) | leads, attempts, revisit suggestions | create, park, suggest, reopen, close, record, attach | long sequences of legal calls | `Leads` |
| Output bounding and redaction (`apps/runner/src/redaction.ts`, `process.ts`) | withheld bytes, counters | write a chunk, end | cuts at every boundary | `Redaction` |
| Saved scope (`packages/domain/src/saved-scope.ts`) | none | compare, estimate | masks, port intervals, zones | `SavedScope` |
| Tool adapters and import of tool output; findings, objectives, techniques; settings, secrets, access; the rest of the UI | rows edited by one operator, or none | pure functions and single-transaction edits | no protocol | not modelled |

How they interact: every repository operation runs in one `BEGIN IMMEDIATE`
transaction of one SQLite file, so operations are atomic and totally ordered;
what interleaves is their order. Operator commands arrive from browser tabs
under idempotency keys; runner requests from the runner process over HTTP
(where they can be lost, delayed, repeated, or sent by a process that no longer
owns its lease); the owner revokes runners, and time passes. An operation that
touches an Action with live work calls from action planning into run control
within the same transaction (`allocateRunOnQueue`, `cancelRunOnQueuedCancel`);
revocation calls from runner identity into run control
(`fenceCurrentLeasesForRunner`); a runner event asks the evidence tables whether
an upload holds its sequence; backup takes a lock that grants and publications
share.

## Modules

Run control:

* **`RunControl`** - the control plane's rows and every operation on them. One
  action is one transaction.
* **`RunLifecycle`** - the abstract promise about an Action and its Runs: no
  leases, sessions, clock, event numbers or runner identities. Work is queued,
  handed out under a token nobody had before, taken back only while it has not
  started, started under the token it was last handed out with, and ends once.
* **`RunControlRefinement`** - the mapping from the rows to `RunLifecycle`, and
  the claim that `RunControl` implements it.
* **`RunnerProcess`** - the other side: the runner's loop, await by await, with
  as much of the control plane as answers it.

Operators:

* **`Planning`** - tabs, keys, revisions, scope revisions, snapshots, warnings.
* **`AdvisorTurn`** - questions to a provider outside, once per key.
* **`StartEngagement`** - the start dialog over the three commands it sends.
* **`NotesEditor`**, **`Attachments`**, **`Leads`** - records of an engagement.

Evidence and storage:

* **`EvidencePublication`** - how uploaded bytes become evidence: grants, quotas,
  the streamed PUT, completion, crashes and power loss.
* **`ArtifactStore`** - its abstract promise: an artifact identity is bound to
  its content once and for ever. `EvidencePublication` instantiates it over the
  committed rows.
* **`BackupRestore`** - the commands over a whole data directory, and the import
  of a bundle, beside publications.

Algorithms: **`Redaction`**, **`SavedScope`**, each with its definition to be
checked against.

Claims, statements of the repository's own documents and validators that the
code does not keep: **`RunControlClaims`**, **`EvidenceClaims`**,
`RefusalsAreCurrent` of `Planning`, and `ChangedBodyGetsNewKey` of
`StartEngagement`.

Instances for TLC are the **`MC...`** modules; `MCRecords` and `MCStorage`
combine modules without shared state, of which a behaviour moves one.
Proofs: **`RunControl_proof`** (with the refinement), **`RunLifecycle_proof`**,
**`RunnerProcess_proof`**, **`Planning_proof`**, **`AdvisorTurn_proof`**,
**`Records_proof`**, **`EvidencePublication_proof`**, **`Storage_proof`**
(of `BackupRestore`, `Redaction` and `SavedScope`).

A definition whose name ends in `Slip` is the form a plausible mistake would
give the definition next to it. No action uses it; putting it in that
definition's place must break the property it belongs to, which is how each
property is known to say something about the code. Each action names its code in
`PROJECT.json`'s `map`.

### RunControl and the code

| Variable | Row |
| --- | --- |
| `action[a]` | the `actions` row; `acknowledged` is the presence of an acknowledgment, `pending` of `pendingWarningJson`, `interactions` the warning-interaction count |
| `attempt[a]`, `run[a][n]` | the `runs` rows of the Action by attempt number; `fence` is `currentFence`, `lease` the fence of `currentLeaseId` (0: null), `reason` the terminal reason |
| `lease[a][n][f]` | the `run_leases` row issued with fence `f`; `left` is what remains of `expiresAt` on the server's clock |
| `events[a][n]` | the runner-sequenced `run_events` rows (`started` and completions) |
| `older` | the creation order of the latest Runs, which `selectOldestQueuedRun` sorts by |
| `runner[rn]`, `session[rn]` | `runner_identities.status` and the current `runner_sessions` row |
| `uploading` | leases whose next event sequence an evidence grant in progress holds |

Each action names its code in `PROJECT.json`'s `map`. Points where the model
takes a stand:

* A request that the code refuses changes no row and is not a step. A replay
  that is answered from a stored row changes none either.
* A runner request may be presented under any lease ever issued, by any
  session, in any state. That covers loss, delay, duplication and reordering,
  a paused process that wakes after its lease expired, and a restarted
  process's predecessor.
* `Readable` is the cross-field validator (`ActionPlanningAggregateSchema`)
  every Action row passes through when it is loaded. An operation that loads
  the Action is refused on a row that fails it; the completion and revocation
  paths of run control read the row raw, as the code does.
* Completions reach the server with a lease (`CompleteRun`) and, through the
  repository's interface, without one (`CompleteUnpresented`). The latter, lease
  expiry, retry and late warnings are offered by the repository and exercised by
  its tests, but no route calls them: `RepositoryOnly`. `ApiNext` is the server
  without them, and `RecoveringSpec` adds the expiry to it, so that a Run can come
  back to the queue. What the other three would break is checked of
  `RecoveringSpec`, everything else of `Spec`.
* Two Runs created in the same millisecond are ordered by their random id in
  the code. `older` is an arbitrary total order of creation here, which
  is the order the code has once two timestamps differ.
* Data that no property tells apart is left out: targets, snapshots, payloads,
  digests, timestamps of the log, and the server-sequenced log events.

### EvidencePublication and the code

| Variable | Meaning |
| --- | --- |
| `grant[g]` | the `evidence_grants` row of upload `g`: state, identity (fence, event sequence, slot), reservation, `putFinalized`, `acceptedBytes` |
| `artifact[g]` | the `evidence_artifacts` row of `g`'s artifact id |
| `file[g]` | the one file that is `staging/{uploadId}` or `published/{artifactId}`: `place` is the name the running system sees, `kept` the name left by a power loss before another directory fsync, `bytes` what was written, `unwritten` what the PUT took for written and the disk did not take, `synced` whether its bytes were fsynced |
| `put[g]` | where the PUT request of `g` is between its awaits |
| `inspecting[g]` | complete requests of `g` that await the hash of a destination |
| `lease` | the Run's lease as the authority check sees it: fence, latest event, live, lost or ended |

* The API process is a single thread, so a step is what runs between two
  awaits. From the authority check to the metadata row `complete` has no
  await (`PublishArtifact` is one step) unless the staging name is gone: then
  it awaits the hash of the destination (`BeginInspection`, later
  `CommitInspected`), and nothing is checked again.
* A transaction is durable when it commits (`synchronous = FULL`). A file's
  bytes are durable after its fsync, its name after the fsync of the directory.
  `PowerLoss` undoes any set of names that were not synced and cuts unsynced
  files to any prefix; the rename is undone as a whole, as on a journaling
  file system. `ProcessCrash` loses requests only.
* `fs.write` may write a part of a chunk, and `writeStagedChunk` does not look at
  how much: a byte of `StreamChunk` is accepted and written, or accepted and lost
  (`unwritten`, which nothing in the code reads). `acceptedBytes` counts both, and
  every publication compares it with the file's size first (`SizeAsAccepted`), so
  a file with a lost byte is refused there and never gets a row.
* `PublishWithoutRow` stands for every failure between the rename and the
  commit: the fsync, the checks after it, a busy database.
* The runner in `apps/runner` never repeats a PUT or a complete. The routes
  accept repeats, ADR 0003 relies on them, and the model has them.
* The quiesce gate, which keeps admission and completion out of a backup, is
  `BackupRestore`'s matter; the requests that lead here are `RunnerProcess`'s.
* One Run, one runner. `PerRun` stands for the quota of the Run and for the
  total; bytes are counted, so two contents of the same length are the same
  content, and a digest mismatch is a request, not a comparison.
* Names are unguessable and fresh, so a destination that belongs to another
  upload is not modelled; what the code does about one
  (`artifact_already_published`) appears as `InterruptInspected`, which the code
  also does when the destination cannot be read.

### RunnerProcess and the code

| Variable | Meaning |
| --- | --- |
| `pc`, `why` | the await `runOnce` is at, and which of its several branches led there |
| `me`, `trust` | the lease it holds, and what is left until `authorityDeadlineMonotonic` on its own clock |
| `hb`, `cancelSeen` | the heartbeat in flight, its age and answer; what it learned |
| `proc`, `alive`, `stuck` | the supervised child or probes with its escalation timers; process groups with a live member, and those that no signal reaches |
| `req`, `stray`, `outbox` | the awaited request, requests given up on that may still be delivered, keys on disk |
| `srv`, `held`, `left`, `enabled`, `pub` | the control plane's side: the runs row, the lease and what is left of it, the identity, what is stored as evidence |

* Time is counted down on both sides and the clocks are never compared: the
  runner's countdown starts when it sends, the server's when it answers, and
  both run at one rate. A timer that is due fires before time passes, since
  nothing blocks the runner's event loop.
* A process group may ignore every signal (`stuck`, a process in the kernel).
  `NoWorkPastLease` excludes it, and the runner gives up on it after
  `KillTicks` as the code does. ADR 0002 does not have this exception; see
  "Disagreements without a run".
* A crash leaves the child running, in its process group, and the outbox on
  disk. Nothing reads the outbox at a restart, so nothing does here.
* Bytes of evidence and of output are the matter of `EvidencePublication` and
  `Redaction`; a publication is one step that succeeds, in whole or in part.
  `pub` keeps the labels it stored: of the streams, with whether the child wrote
  more than is retained (`cut`), and of the tool's own output. A cut stream is
  labelled truncated and does not keep a Run from succeeding (ADR 0002:193). A
  discovery reads its JSON a second time to publish it, and succeeds without it when
  that read fails (`noJson`); a scan without a readable XML fails. Labels of work
  that did not end well are told apart no further than `partial`.

### Planning and the code

| Variable | Meaning |
| --- | --- |
| `eng` | the Engagement row with its active scope revision: `rev` is `revision`, `scope` the scope revision, `rules` what it covers, `auto` the policy |
| `actions[a]` | the Action: revision, state, its snapshots with their reasons, the acknowledgment and the snapshot it is bound to, what its operator was shown (`plan`) |
| `stored` | `operator_command_idempotency`: command and answer by key |
| `tab[t]` | a browser tab: the Engagement and Actions it last fetched, the key per pending intent, the command it waits for |
| `stray` | requests the browser gave up on, which may still arrive |

* A command is compared as a whole: a request under a stored key with another
  body conflicts. Keys are random; the model draws them in order.
* A request is served at most once per delivery, but it may be served without
  its answer arriving (`ServeUnheard`), late (`ServeStray`), or refused
  before the transaction (`ServeBusy`, `storage_busy`), which stores nothing.
* Refusals are stored under their key as successes are, and a key holder is
  reset by success only. This is the code, and the claim `claim_refusals`.
* What a queued Action does next is `RunControl`'s; here it only advances and
  takes revisions (`RunMoves`).
* Covered destinations of late warnings, context digests, and the options of
  single tools only change what a snapshot says, and are left out.

### AdvisorTurn and the code

`turns[k]` is the row of a key, `req[r]` a request between two awaits,
`calls[k]` counts calls of the provider, `said` is the answer a step gave.
A request has four stretches of code: arrival with the early replay, assembly of
its context, reservation with the call, and the answer. `Sweep` expires the
oldest stale rows up to `ADVISOR_TURN_EXPIRY_CLEANUP_LIMIT`, before reading the
row it is about. A request whose client hung up goes on. What the context is put together
from, and what the provider says, is abstract: an outcome.

### BackupRestore and the code

`files`, `rows`, `upload`, `import` are the live directory and the writers on it, `backup`, `snap`, `list`, `dst` a backup and its directory,
`restore`, `tgt`, `served` a restore and its. A directory tree is the names
`seen` in it, the names `kept` when the power fails, and the files that are
`whole`; a power failure leaves any set of entries between, each with its
parents (`Survivors`). Digests and sizes are one notion, `whole`. One backup and
one restore per behaviour, by one process each; the lock file is the mutual
exclusion the code gets from `flock`. The import does not take the lock, and the
doctor none, as in the code.

### Records and the code

* `NotesEditor`: `notes` is the row; `cache`, `editor`, `load`, `recovery` and
  `saves` are per tab what React Query and the component keep. The effect that
  follows the cache runs after every step (`Settled`). The query is keyed below
  its Engagement, so an archive, a reopen, a deadline or scope change, and the
  conflict of one, read it again (`mutations.ts:236, 294, 318, 356, 403-406`): `Fetch`
  is such a read at any time while the editor is open, over unsaved text, a save or
  a recovery under way. Its answer lands when it does, an older copy after a newer
  save too. Asking changes nothing, so the step is the serving of the read; a read
  under way is replaced by the next one unless the cache is still empty. A tab
  meets the others only in the row: the run has one tab and saves from elsewhere
  (`SavedElsewhere`), the theorem any number of tabs as well.
* `Attachments`: one tab's section. `opSeq` and `marks` are `opSeqRef` and
  `savedSeqRef`; the marks are cleared when the operator moves to another
  engagement, so `ReadKeepsOwnWrites` speaks of writes of the view that asked for
  the list. (Going away and back, an older list can bury a save of the earlier
  view.) A caption is the number of times it was written.
* `Leads`: one handler is one step; `moves` only bounds the history.
* `StartEngagement`: `dialog` is the component's state with `started` as its
  `StartedProgress`, `runs[s]` a call of `runSubmit` between two awaits, `stored`
  the idempotency table, `resets` the keys the holders dropped, `late` requests
  given up on that still arrive, `scans` the requests under which Actions were
  planned. The form is its target list: everything else of the body only makes intents more distinct. The
  challenge notes are one await whose failure changes nothing. Two submits are
  under way at once only because `Open engagement` stays enabled during one: the
  older one then writes into a closed or reopened dialog, guarded by the
  engagement's id in the refresh and by nothing in the other places.
  `engagement_not_found` is not modelled, as nothing deletes an Engagement. A holder's
  reset drops whichever key the intent has by then, and a stale submit's success
  may drop a key that a later start of the same intent still needs: see the
  disagreements below.

### Algorithms and the code

* `Redaction` takes a stream chunk by chunk, with the turn of the loop (`Turn`)
  as the code has it, and compares with `Redacted`, read off ADR 0002: no chunk
  and no bound. A pipe read is at most as long as the longest credential value,
  64 KiB each, which is an assumption of the model (`MaxChunk <= MaxValue`): `flush`
  emits what `processChunk(true)` leaves in the stash (`redaction.ts:328-333`), and
  that is more than nothing after an unquoted value that went over at the end
  (`:267-273`), which needs a longer read. The mark is two symbols, so the limit can
  fall inside it. Letter case of credential prefixes is left out. No secret of
  the instance is a proper prefix of another (see below).
* `SavedScope` has addresses of `Bits` bits where the code has 32 and 128, and
  ports up to `MaxPort` where it has 65535; shifts and comparisons are the same.
  Text, and what `normalizeTarget` does to it, is left out.

## Runs

All runs set `CHECK_DEADLOCK FALSE`: every quantity that only grows (attempts,
fences, heartbeats, revisions, keys, crashes) is bounded, and a bounded history
ends; a stream that was read and a question that was answered end too.

| Run | Question | Instance | Shows |
| --- | --- | --- | --- |
| `rows` | do the four tables stay consistent? | 1 Action, 1 runner with 2 sessions, 2 attempts, 2 fences, 2 event numbers | the Action/Run and Run/lease agreements, contiguous events, leases never revived, decisions that stand, and that every step is a step of `RunLifecycle` or changes nothing of it |
| `api` | the HTTP server alone | 2 Actions, 2 runners with a session each, lease expiry beside the routes, 1 attempt, 1 fence, 1 heartbeat | the expiry of any lease would have an outcome, a lost fence records nothing, the queue drains, past a Run requeued at the last fence too |
| `evidence` | is every evidence row backed by bytes? | 2 grants, 2 slots, 2 leases, 2 bytes per artifact, staging for 3, 2 completes at once | durable artifacts and finalized bytes under short writes, crash and power loss, uploads never overtaken by an event, staging within quota, and that every step publishes a new identity or changes no evidence (`ArtifactStore`) |
| `runner` | does work end with its authority? | 1 Run with a child or probes, lease of 5, margin 3, check 1, SIGTERM 1, SIGKILL 1 tick, 1 crash | no work past the lease, cancelled means stopped, succeeded means published, every unanswered request on disk, every stop ends |
| `planning` | do stale tabs and repeated requests do harm? | 2 tabs, 2 Actions on 1 risky target, all 8 commands, 3 revisions, 3 keys, 1 stray request | one effect per command, no lost update, nothing queued without its acknowledgment or under a scope not shown, nothing queued in an archived Engagement |
| `advisor` | is the provider called once per key? | 2 requests, 2 keys, 2 questions, expiry after 1 tick, cleanup of 1 | one call per key, no output stored once archived, a pending turn ends |
| `storage` | is what looks complete complete, and do the two algorithms compute their definitions? | 2 uploads, 1 imported artifact, 1 power failure; 5 symbols, 2 secrets, 2 prefixes, values and chunks of 2, limits 3 and none, streams up to 8; addresses of 2 bits, 3 ports, 2 families, 1 zone | restorable backups are whole, snapshots are quiet, restored directories whole or marked, doctor never reports a file missing; what is kept is the prefix of the redacted stream, with exact counters; in scope means covered; every address counted once |
| `records` | are notes, images and leads kept, and is a start done once? | 1 tab beside tabs elsewhere, 2 texts or none, 3 revisions, 2 messages under way (saves, reads, recoveries); 2 engagements with 1 image, 3 versions, 4 operations, 2 reads; 2 leads, 2 attempts, 2 reasons, 4 moves; 3 revisions of Engagements, 1 target list, 3 submits, 2 of them at once, 1 late request | nothing overwritten unseen, drafts kept, own saves not buried, suggestions cite their parking; nothing done again without a success heard for every time before, the retained revision and scope belong together |

Why the bounds are enough.

* Run control: two attempts make the retry and everything that must not leak from
  a Run into the next one reachable; two fences make the requeue, the second
  lease and requests under the first one reachable, and the last fence value is
  `MAX_FENCING_TOKEN`, so exhaustion is reached too. Two event numbers let a Run
  start and complete under one fence. Two sessions of one runner are a restart
  with the old process still alive; two runners are in `api`, where they compete
  for two Actions. Actions do not share rows, they only compete for the queue.
* Evidence: two grants are what every race here is between: two slots of one
  event, or one identity granted again after an interruption. Two leases give
  grants of an earlier fence. Two bytes make a prefix of a stream distinct from it
  and from nothing, and a staging quota of three makes the second reservation
  smaller than the first, so it overflows.
* Runner: the constants keep the code's order (500 ms + 5 s < 7 s < the lease) at
  the smallest scale at which every timer can be due before, at and after every
  other. A lease is longer than the margin by two ticks, so heartbeats of both
  parities fit. Once one Run is over the runner keeps nothing of it but outbox
  entries.
* Planning: two tabs can each be one behind the other. Three revisions are a
  stale read and a write over it; three keys are two commands and a retry. A
  target that is risky and may be outside scope has one reason or two.
* Advisor: two keys make the cleanup limit bite, two questions the conflict, two
  requests every race for a row. Storage: two uploads can be on different sides
  of a snapshot. Records: two of each row are what can be confused; a
  tab on the notes with two messages under way has a save beside a background
  read, and what other tabs do to it are changes of the row. Start: a lost answer
  and a retry, and a stale submit beside a new one, take three presses.
* Algorithms: a stream of eight holds a prefix, a quoted value longer than the
  redactor withholds, and a secret after it; each boundary falls at every offset
  of a chunk. Two bits have prefixes of 0, 1 and full width; three ports have
  ranges that overlap, nest, touch and stay apart.

Fairness. `PollingSpec` (`api`) assumes weak fairness of a lease request of an
idle session that finds work or fails it. The loop awaits `runOnce`
(`apps/runner/src/runner.ts:1177`), so a runner with work does not ask, and nothing
bounds how long an execution takes while heartbeats renew its lease; an idle one asks again after
at most two seconds. `QueueProgress` therefore has an antecedent: every session is
idle again and again, that is, every execution ends, by its report or by losing its
lease. That, and an enabled runner with a session, is part of the property and not
of the fairness. Under the routes alone a queued Run has never had a fence, since
nothing puts a Run back; so the run adds the repository's `expireLease`, which no
route calls, and with it a Run comes back to the queue at `MaxFence`, where
only `ExhaustFencing` can take it out. `RunnerProcess!FairSpec` assumes that
what `runOnce` awaits ends: every fetch has an answer or fails (they carry
abort signals and connections break), timers fire, time passes. It does not
assume that a process reacts to a signal. `AdvisorTurn!FairSpec` assumes that time
passes, that the provider call and the assembly end (the provider call has a
time limit), and strong fairness of the client's retry: turns end for a
client that keeps asking, and by nothing else, as in the code.
`EvidenceClaims!FairSpec` assumes that leases that are not renewed end and that
PUTs and completes that were started go on.

### Claims found violated

* `claim_readable` - revoking a runner that holds a live lease writes an Action
  row that the Action parser refuses (`invalid cleanup state`,
  `packages/contracts/src/action-planning.ts:294`): the flag `cleanupRequired` is
  left behind.
* `claim_uploads` - ADR 0003: grants of expired leases, and uploads that time
  out, become `upload_interrupted`. Nothing interrupts either. After a PUT that
  failed half way no PUT can resume it, and while the lease lives the Run can
  neither report an event nor complete; the reservation stays taken for ever. No
  action that ends such a grant exists, so no stronger fairness would change the
  outcome.
* `claim_refusals` - a refused command resolves its key for the server, not for
  the browser: Continue that was refused while the Engagement was archived is sent
  under the same key after it was reopened, and answered with the old refusal.
* `claim_keys` - the start dialog's scope append is fingerprinted without its rules,
  and only the rules of the latest targets are retained: targets changed and
  changed back give an old key with new rule ids, which the control plane refuses as
  `idempotency_conflict`, on every retry.

### Disagreements without a run

Met while modelling, each at its line; the models do what the code does.

* Run control. The handshake leaves an earlier session's leases current and usable
  (ADR 0002:138; `packages/db/src/runner.ts:474`). A late warning pauses an
  Action whose Run is leased but not running (ADR 0002:73;
  `action-planning.ts:470`). Nothing calls `expireLease`, so an expired lease
  stays current and its Run live (ADR 0002:136; `run.ts:1411`). A Run fenced by a
  revocation stays `cancel_requested`: it has no lease to expire (ADR 0002:65;
  `run.ts:1262`). ADR 0001 allows one warning interaction per Action; a retry
  after a pause that ended otherwise pauses again.
* Evidence. Of a complete artifact "every accepted byte was finalized" (ADR 0003:136),
  and a finalized grant says so too early on a full disk: `writeStagedChunk` (`evidence-store.ts:404`) drops the count that
  `fs.write` returns and the PUT counts the whole chunk, so a grant can be finalized with
  more bytes than its file has. The publication refuses it by its size, and no
  row is ever written for it (`ArtifactsAreDurable`), but the grant stays in
  progress until its lease is gone. A complete that awaits the hash of an already renamed file commits
  the row after its lease is gone (ADR 0003:143;
  `evidence-publication.ts:329`). Two completes of one grant, one of
  them with another declaration, can give the grant's reservation back and
  publish it all the same, past the Run's quota; no runner sends these.
* Storage. A half-restored directory is served: startup does not look for the
  marker (ADR 0003:213; `apps/api/src/runtime.ts:51`). A failed import leaves its
  engagement behind, empty, when another tab planned in it meanwhile: the last of its
  deletes is then refused (`workspace-bundle-service.ts:685`). The import publishes without the lock that
  ADR 0003:198 says blocks publication. The doctor reads rows before it lists the
  tree, so a publication in between is reported as an extra file, against the
  comment in `doctor.ts` that a mutating tree cannot mislead. The restore's
  marker is flushed as a file, its name is not.
* Starting an engagement. "Identical retries keep the same key so a committed
  create still replays" (`mutations.ts:249`) does not hold beside a stale submit: a
  success drops the key its intent has by then (`mutations.ts:257`), whichever
  request was answered, and `Open engagement` (`create-dialog.tsx:889`) stays
  enabled while a start is pending. The success of an older submit, a replay, then
  drops the key of a third start, already committed with its answer lost, and the
  unchanged retry of that start creates a second Engagement: a history of five
  presses, with two submits at once. What does hold, for any number of them, is that every repetition has one success heard before it
  (`RepeatsWereHeard`).
* Runner. A process group that no signal reaches outlives the deadline
  (ADR 0002:134). An outbox entry is removed after any HTTP response, definitive
  or not (ADR 0002:81); nothing reads the entries after a restart (ADR 0002:138).
  A runner that is stopped just after it got a lease abandons it.
* Redaction. Where one secret is a proper prefix of another, or of a credential
  prefix, the output depends on the chunks (ADR 0002:189); latent, since
  the runner passes one secret.
* Saved scope. ADR 0001:74 gives a URL its default port; planning for ffuf
  passes no declared ports, and is told `ports_unspecified`. A rule for an
  address does not cover a block of one address.

## Proofs

Checked by TLAPS for every value of the constants.

Run control, under `ConstantsAssumption` (a total session-owner map, positive
bounds):

* `TypeCorrect`: `Spec => []TypeOK`.
* `RowsAgree`: `Spec => []ActionRunAgreement`.
* `LeasesAgreeWithRuns`: `Spec => []LeaseAgreement`.
* `EventsAreContiguous`: `Spec => []EventsContiguous`.
* `LostLeasesStayLost`: `Spec => LeasesAreNotRevived`.
* `TakenDecisionsStand`: `Spec => DecisionsStand`.
* `ExpiryHasAnOutcome`: `RecoveringSpec => []LostLeaseIsRecoverable`.
* `LostFencesAreSilent`: `RecoveringSpec => LostFenceIsSilent`.
* `LifecycleIsImplemented`: `Spec => ImplementsLifecycle`.
* `StartsOnce`, of `RunLifecycle`, under `BoundsAreNumbers`: no Run is started
  under two tokens.
* `RunsStartOnce`: `Spec => []Lifecycle!StartedOnce`, the promise kept by the rows
  themselves: a Run has started events under one fence at most, and is not handed
  out again once it has one.

Neither agreement is inductive alone: a lease request must know that a queued
Run has no current lease, a completion under a lease must know that the Run is
the Action's latest, which follows from the earlier ones having ended, and
expiry must know that the Action says live exactly while it names a run state.
`AgreementInv` conjoins the two agreements with `Sound` (that last fact, that an
Action has a Run since it was first queued, and that an unallocated Run was never
leased). The proof shows that each operation writes the rows of one Action
(`OneAction`, `Frame`), and treats revocation and the clock, which write many,
by cases on whether a row was written.

A second part adds what a step may do to one Run with its leases and
events. `RowMove` has one disjunct per kind: it keeps them, allocates the Run,
moves its state with no report of a runner, leases it under the next fence, starts
it, or ends it; the last two write one event, at the next number of the fence. Every
operation is one of these for every Run (`StepMoves`), from `AgreementInv`: without
it a completion could be of a Run that has ended. The properties of one Run then
need no operation: the numbering of events is invariant with `Counted` (a
lease's own counter is the number of its events, and a Run that has not started
has none), `DecisionsStand` with `Answered` (a row that is acknowledged has no
pending warning). Two are stated of `RecoveringSpec`, the operations the routes expose and
the expiry,
because operations only the repository offers break them: expiry has an outcome
as long as no route pauses a live Action for a late warning (`Unpaused`), and a
lost fence is silent as long as no Run is completed without its lease.

The refinement shows that each operation writes the Action's state, the latest
Run's state, its fence or a started event as one step of `RunLifecycle` would
(`StatusWritten`, `PhaseWritten`, ...), or nothing of these. `StartsOnce` needs
that a Run that has not started has no start under its token, and a token that
only grows.

Of evidence, from `EvidencePublication_proof`, under `EvidenceAssumption`
(limits are numbers), for any number of grants:

* `EvidenceIsDurable`: `Spec => []ArtifactsAreDurable`.
* `FinalizedIsKept`: `Spec => []FinalizedBytesAreKept`.
* `PublishedHasArtifact`: `Spec => []PublishedGrantHasItsArtifact`.
* `UploadsAreNotOvertaken`: `Spec => []UploadHoldsItsSequence`.
* `TypeCorrect`: `Spec => []TypeOK`.
* `StagingStaysWithinQuota`: `Spec => []StagedBytesWithinQuota`.
* `StoreIsImplemented`: `Spec => ImplementsArtifactStore`, the refinement of
  `ArtifactStore`, step by step: a recorded row adds one identity that had none,
  every other step leaves the rows and the identities behind them alone.

The row of an artifact is written from what the grant says, not from the file,
so durability needs the whole chain (`DurableInv`): a PUT at work owns a
staging file nothing speaks of yet, a flushed one is synced, a finalized grant
has a kept, synced file that accounts for its count (written or not), and a destination under inspection
stays where it is until a power loss, which ends the inspection. `SequenceInv`
adds that fences only grow, so a fresh lease starts without uploads. These
need no arithmetic of the quotas: `Shape` says which fields rows have and no more.

The quota is a sum over the grants in progress, and the types rest on it: a
reservation is a number only because the admission leaves something of the
quota. `QuotaInv` has that a file of an upload in progress is within its
reservation and that the reservations together are within the staging quota. That
a sum over a finite set is determined, is a number, grows by the member added and
is monotone in its terms (`SumSolution`, `SumType`, `SumWith`, `SumLess`) is proved
from the library's recursive function with a least counterexample over the size of
the set, in place of an induction theorem.

Of the advisor, from `AdvisorTurn_proof`, under `AdvisorAssumption` (a finite set
of keys, positive limits):

* `OneCall`: `Spec => []OneCallPerKey`.
* `QuietOnceArchived`: `Spec => NothingStoredOnceArchived`.
* `AnswersMatch`: `Spec => []AnswersTheQuestion`.
* `Final`: `Spec => TurnIsFinal`.

The inductive invariant is `TypeOK`, that a key was called for exactly once if it
has a row and not at all if it has none (`CallsMatchRows`), that whoever is
calling holds the row of its own question (`CallerHasRow`), and
`AnswersTheQuestion`. `RowStep` says what any step may do to a row; both action
properties follow from it.

Of planning, from `Planning_proof`, under `PlanningAssumption`, for any number of
tabs, targets, Actions, keys and requests under way:

* `NoUpdateIsLost`: `Spec => []NoLostUpdate`.
* `EffectsAreCounted`: `Spec => []OneEffectPerCommand`.
* `WarningsAreAcknowledged`: `Spec => []QueuedIsAcknowledged`.
* `ActionsArePlannedAsShown`: `Spec => []PlannedAsShown`.
* `ArchivedStaysQuiet`: `Spec => ArchivedIsQuiet`.

`EffectOf` says what one command may do: nothing when it is refused; otherwise one
revision of the Engagement, of the Action it names, or a new Action, and only from
the revisions it names (`MutationEffect`, one lemma per command). `Advance` is what
follows for the rows of any step. `NoLostUpdate` needs that what a success was
written under has been passed (`StoredPassed`); `PlannedAsShown` needs that a tab's
copy of the Engagement is the Engagement while it has the same revision
(`Current`), for then the policy a plan was sent with is the one it is judged by;
and a request under way was written by some tab in sight of such a copy (`Sent`).
`EffectsAreCounted` counts answers and effects side by side (`Counted`).

Of the runner, from `RunnerProcess_proof`, under `RunnerAssumption` (positive
durations in the code's order: the fence check and SIGTERM together below the
margin, the margin below the lease):

* `Typed`: `Spec => []TypeOK`, and `Invariance`: `Spec => []IInv`.
* `NoWorkPastLeaseHolds`: `Spec => []NoWorkPastLease`.
* `CancelledMeansStoppedHolds`: `Spec => []CancelledMeansStopped`.
* `SucceededMeansPublishedHolds`: `Spec => []SucceededMeansPublished`.
* `UnansweredRequestIsRecordedHolds`: `Spec => []UnansweredRequestIsRecorded`.

None of the four is inductive. `Base` says which request, Run and child go with
each place of `runOnce`; `RunLive` that the Run it works on is live for the server
until it is told otherwise; `Strays` and `Stored` what a report that is still
under way may claim, since the server believes it when it arrives; `Quiet` where
processes can be left. The lease is kept by arithmetic over both clocks. The
runner's countdown is never ahead of the server's (`Time`), because a renewal is
counted from the sending of its heartbeat: while one is unanswered the countdown and
its age together are at most the lease (`Beats`). And work that runs has
more left than the margin, less what its next fence check or signal may still
take, which the assumption makes positive.

Of backup, restore and doctor, from `Storage_proof`, under
`StorageAssumption` (artifacts are named apart from each other and from the other
entries), for any number of artifacts and power failures:

* `TypeCorrect`: `Spec => []TypeOK`.
* `RestorableBackupsAreWhole`: `Spec => []RestorableIsWhole`.
* `RestoredDirectoriesAreWhole`: `Spec => []RestoredIsWhole`.
* `SnapshotsAreQuiet`: `Spec => SnapshotIsQuiet`.
* `DoctorFindsEveryFile`: `Spec => []NothingIsMissing`.

`SurvivorFacts` says what a power failure leaves: every set of durable names that
has its directories in it. `BackupInv` then only has to say that whatever has a
complete manifest is such a set (`Held`), durable before the manifest was
written; and `RestoreInv` the same of a target that has lost its marker. It needs
`BackupStaysComplete`: once a backup was verified no step of the backup
changes what it lists. `LiveInv`, every row has its file before and after each
step, gives the doctor's and the lock's property.

Of the records, from `Records_proof`, under `RecordsAssumption`, for any number of
tabs, engagements, images, leads, requests and submits, with the bounds on
histories arbitrary:

* `NothingIsOverwrittenUnseen`: `Spec => NoSilentOverwrite`.
* `TypedTextStays`: `Spec => DraftIsKept`.
* `OwnWritesStay`: `Spec => ReadKeepsOwnWrites`.
* `SuggestionsCiteTheirParking`: `Spec => []RevisitCitesThisParking`.
* `RetainedPairIsReal`: `Spec => []RetainedPairWasReal`.
* `RepeatsAreHeard`: `Spec => []RepeatsWereHeard`.

The specification is that of `MCRecords`, where a behaviour moves one of four
components that share no variable; each has its own invariant and its own step
lemma, which speaks of that component's `Next` alone. `NotesInv`: a save under way
names a revision its editor had on the screen. `ImagesInv`: a row written
after a list was asked for is marked later than that list. `StartInv`: whatever
the dialog and the submits retain, and every answer under way to them, is a
revision and scope that its Engagement has had (`Real`); a scope append is
answered with the revision after the one it named, which is why a stale
submit cannot pair one revision with another's scope. `KeysInv` counts
keys: every key under way is one its intent has had, numbered by the successes heard
before it (`DrawnInv`), and whatever was done has a stored command under such a key, no
two under the same one (`OnceInv`). So the times an intent was carried out map
one to one into the keys it has had, of which there is one more than successes
heard.

Of the redactor, from `Storage_proof`, under `RedactionAssumption`, for any alphabet,
secrets, credential prefixes, delimiters, quotes, mark and limit, and a stream of
any length cut anywhere:

* `StreamsKeepRedactedPrefix`: `StreamSpec => []KeptIsRedactedPrefix`.

The assumption says what the code and its one caller give: no secret or credential
prefix is empty (`redaction.ts:93-95`), no secret begins another one or a credential
prefix (the runner passes one random token), no credential prefix begins
another, a secret is at most as long as the longest credential value (longer ones are
filtered at the same lines), and no read is longer than that.
`Cont(s, mode)` is what goes out when the bytes `s` come in a mode, of skipping an
over-long value or of none, and nothing after them. `StreamInv` is that something
has gone out which, followed by `Cont` of the stash and whatever comes next, is the
redaction of all that was read and will be; that the stash is no longer than a
decision needs; and that the collector has the beginning of what went out, with its
counters. A turn that emits does so whatever follows, because the byte sequences that
decide it are all in sight (`TurnRedacts`, `GoRedacts`); then the loop keeps it
(`LoopRedacts`), then a chunk with the mode it comes in (`ChunkRedacts`), and the
final chunk leaves nothing (`ChunkFlushes`).

Of saved scope, from `Storage_proof`, under `ScopeAssumption` (the width of an
address, the highest port and the threshold are numbers; a rule without port ranges
is not one with a list of them) and `QuestionAssumption` (the combined module asks
about the two families, more than one port, and some hostname):

* `ComparisonsMeanContainment`: `MCSpec => []ComparisonMeansContainment`.
* `CardinalitiesAreUnions`: `MCSpec => []CardinalityIsUnion`.
* `ComparisonIsContainment` and `EstimateIsUnion`: the same of the two functions
  alone, for every question and for every finite set of targets, not only the
  single rules, pairs and triples that a behaviour asks about.

`MergeFacts`: merged ranges are in order with a gap between them and hold together
what the ranges held, because each range joined comes after those before it
(`JoinMerged`). `CidrInside`: equal shifts mean that one block of addresses is in
the other, from the powers of two being multiples of each other (`TwoToMultiple`)
and a block of that size starting at a multiple of it (`Block`). The comparison
then is containment of hosts (`HostsCovered`) and ports (`PortsCovered`). For the
estimate, the lengths of ranges that are apart add up to the size of their union
(`TotalFacts`, by one range at a time), which is the union of the blocks of a family
(`FamilyFacts`); the addresses outside are counted under names that tell them apart
(`Renamed`).

`StorageComposes`: a behaviour of the combined specification `MCSpec` is one of
`Spec` and of `StreamSpec`, so that the run `storage` checks what is proved of them.

These algorithms are recursive, and the library's induction theorems take an
operator, which the provers do not instantiate. Instead, `Least` gives the least
number that would refute a claim, and `Recursion` that a recursive function whose
calls lower a measure equals its definition; every claim about a recursive function
or a fold then is that its least counterexample has a smaller one.

Checked by TLC only: `QueueProgress`, `StopEnds` and `PendingTurnEnds`. Liveness
under fairness and `ENABLED` are beyond the prover. The four claims that the code
does not keep are refuted by their runs.

## Not modelled

Listed with reasons under `components` in `PROJECT.json`. In short: building the
arguments of tools and parsing their output, canonicalization of target strings,
and content and validation of bundles (pure functions over text and bytes,
one step, covered by fixtures); findings, objectives, techniques, text excerpts,
settings, access (rows edited in one transaction under at most a revision, without
a second step; transitions of findings take no expected revision); presentation,
routing and search of the UI, which is most of its lines; generated migrations.
Of modelled parts: the commit hook that derives observations, downloads,
descriptor walks and ownership refusals of the store, enrollment secrets, several
runners sharing the total quota, and an idempotency key for uploads of images,
which the code does not have either.

## Plan

Done: run control with its abstract lifecycle and the runner's side of it;
planning with tabs and keys; evidence with its abstract store; backup, restore,
doctor and import; the advisor; notes, images and leads; redaction and saved
scope; proofs of every safety property of these, with the refinements. Worth doing
next, in this order:

1. `EvidencePublication` composed with `RunControl`: its grants implement the
   `uploading` set that run control reads.
2. Findings and objectives, with the commit hook that derives observations.
