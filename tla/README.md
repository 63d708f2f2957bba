# Runcell: specifications and proofs

TLA+ modules for [Runcell](../src/README.md), a TypeScript runtime that runs
Pi agents in sandboxes. They model the parts of the code where the order of
callbacks, timers, network answers, failures and crashes decides whether the
program is right: who gets a slot for a provider request and how it comes back
(`docs/concurrency.md`), what a run makes of cancellation, submission and
failure, what a session holds and gives back, how shared credentials, a stream
and a workspace's files stay consistent. TLC checks the modules on small
instances; TLAPS proves the main invariants for every value of the constants.

Source paths below are relative to `src/packages`.

## The system

| Component | Source | State | Operations | Hard behaviour |
| --- | --- | --- | --- | --- |
| Concurrency policy | `agent/src/concurrency-policy.ts` | none (pure) | validate limits, resolve a workload, choose grants | boundary cases of totals, ceilings, reservations |
| In-memory limiter | `agent/src/concurrency-limiter.ts` | slots, queue, one expiry timer, a wait timer per waiter | acquire, renew, release, stats, abort, two timer callbacks | lost wakeups; timeout, abort and grant of one waiter; leases that expire |
| Run concurrency controller | `agent/src/concurrency-controller.ts` | first failure, permits, a renew timer and a local expiry per permit | admit, renew, lose, release, dispose | late grants, cancellation against grant, slow renewals, release that hangs |
| Provider gate | `harness-pi-raw/src/pi-provider-gate.ts` | one forwarding stream per provider request | gatedRequest | release before the terminal event; caller's abort |
| PostgreSQL limiter | `concurrency-postgres/src/index.ts` | rows of entries and limiters, a poll loop per request | acquire, renew, release, stats | several workers, row lock, crashes, database time |
| PostgreSQL credential store | `credential-store-postgres/src/index.ts` | one encrypted blob, a cached copy per process | withLock | outage fallback, ambiguous COMMIT, a function that runs twice |
| Pi session | `harness-pi-raw/src/pi-session.ts` | current turn, calls to the host, parked sessions, host-root leases | start, prompt, continue, submit, stop, detach, suspend, destroy, compact | parking by key, shared trees and mounts, set-ups and teardowns that overlap |
| Pi workspace | `harness-pi-raw/src/pi-workspace-*.ts`, `pi-remote-ops.ts`, `pi-tools.ts` | mounts, the mirror of Pi's configuration on the host | mount, sync, read, write, edit, bash | several writers, stale mirrors, broken-off syncs |
| Run lifecycle | `agent/src/runtime.ts` | attempt chain, repair turns, submission, changed files, usage | run, attempts, submitResult, clean-up | submission against cancellation, partial failure of set-up and clean-up |
| Run context | `agent/src/run-context.ts` | async-local lineage | createRunContext | inherited limiter, workload, deadline |
| Sandbox handle | `agent/src/sandbox-handle.ts`, `sandbox.ts` | lock chain, destroyed flag | run on, lock, snapshot, restore, destroy | destroy while others wait, a snapshot of changing files |
| Threads | `agent/src/thread.ts` | messages, continuation | append, serialise, clone | a continuation that belongs to another conversation |
| Agent API | `agent/src/create-agent.ts` | an async queue per stream | run, stream | readers that stop early |
| UI message stream | `agent/src/ui-message-stream.ts` | open text and reasoning blocks | convert | unbalanced parts, a browser that goes away |
| Pi translation | `harness-pi-raw/src/pi-translate.ts` | the open block of a message | translate events | blocks closed by other events |
| Credentials, errors, files, paths, PDF pages | `agent/src/*` | none | conversions | mostly strings and I/O |

How they interact: `runtime.ts` makes a run context and, for each credential
attempt, a sandbox (or the caller's handle), a harness session and one
controller whose `gate.admit` is handed to the Pi adapter. The adapter wraps
the model runtime so that each provider request first awaits `admit`. The
controller calls `acquire`, `renew` and `release` of the limiter. A limiter is
shared by all runs of a process (in memory) or by several workers
(PostgreSQL); both use the policy's grant loop inside their atomic section.
Signals run from the caller, the parent run and the run's deadline to the
controller and to Pi. A session mirrors Pi's configuration from the sandbox to a
directory tree on the host, which sessions of one id share. Pi's events are
translated into stream parts, which the run reads for changed files, tool calls
and errors and pushes into the queue that `stream()` and the UI message response
read. When a run on a thread succeeds, the session's journal is copied into the
sandbox and captured as the thread's continuation, from which the next run's
session resumes. Pi's stored credentials are read and refreshed through the
credential store's lock.

What makes each component correct:

- *policy, limiters*: never more slots than the total, a ceiling or the free
  reservations allow; first come first served within a workload; nobody waits
  with room and no wakeup; lease ids are granted once; live leases are kept.
- *controller, gate*: no provider request without a held permit, no leaked lease,
  no belief in an expired lease, the slot back before a tool runs, nothing hangs.
- *PostgreSQL limiter*: the same as the limiter, across workers and crashes.
- *credential store*: a rotated token is never overwritten by an older one, a
  token obtained without the lock never gets in.
- *Pi session*: what is held is given back exactly once; a parked session is
  resumed by one owner or destroyed; requests go through the gate of the run
  that makes them.
- *Pi workspace*: Pi reads the configuration of the sandbox and nothing else.
- *run lifecycle*: what came first decides; one source has side effects; every
  acquired resource is undone; a thread is what succeeded on it.
- *stream*: every chunk makes sense to its reader, there is a last one, and nothing
  that came before it is left out.
- *sandbox handle*: a lock that is always passed on, nothing after destroy, a
  snapshot of what was there.

## Modules

| Module | What it is |
| --- | --- |
| `ConcurrencyPolicy` | The limits validation accepts (an ASSUME), workload resolution, one iteration of `selectConcurrencyGrants`. |
| `SlotPool` | Abstract: what every limiter promises. The leases out fit the limits, an id is granted once, an ended lease never comes back. |
| `InMemoryLimiter` | `createConcurrencyLimiter`; extends the policy; implements `SlotPool`. |
| `RunConcurrency` | `createRunConcurrency` with `gatedRequest`, against an external limiter and provider. |
| `PostgresLimiter` | `createPostgresConcurrencyLimiter` with its database; extends the policy; implements `SlotPool`. |
| `CredentialStore` | `createPostgresCredentialStore` and the run's adapter over it, with the database, the provider's single-use tokens and several processes. |
| `RunLifecycle` | `agent.run` to its outcome: attempts, set-up, repair turns, submission, clean-up; composed with threads, continuation, journal files, and the handle's lock and destruction. |
| `PiSession` | `createPiSession`, turns, parking and every way to end a session; composed with the leases on the host tree and the mounts of `PiWorkspaceVfs`. |
| `Workspace` | The files of a sandbox with what follows them: the mirror on the host, the changed files of a run's result, a handle's snapshot and its restoration. |
| `AgentStream` | From Pi's events through translation, async queue and converter to what a client reads. |
| `MC...` | Constants for TLC. |
| `ConcurrencyPolicyProofs`, `InMemoryLimiterProofs`, `RunProofs` (controller and stream), `PostgresLimiterProofs`, `CredentialStoreProofs`, `RunLifecycleProofs`, `PiSessionProofs`, `WorkspaceProofs` | Theorems. |

### From code to model

JavaScript runs one callback at a time: what a function does between two awaits
is one step. Other callbacks run at every await.

**Policy.** A sum over workloads is the cardinality of a set of *seats*
`<<w, i>>`: the unmet reservations are the seats `i` with `active < i <= reserved`.
This says what `Math.max(0, reserved - active)` adds up to without recursion,
which the provers could not handle. `HasRoom` is the loop condition and the two `continue`s,
`IsBest` the choice of `best`.

**In-memory limiter.** JavaScript runs one callback at a time, so a method
is atomic. The one exception in the model is `schedule()`: each iteration of its grant
loop is a step `GrantOne`, and `running` keeps everything else out until
the loop ends in `ScheduleEnds`, `KeepWaiting` or `QueueFull`. No other behaviour
becomes possible by this, and the invariants hold inside the loop too. `left[r]` is
`expiresAt - now`; timers hold the time to go; `Tick` counts all of them
down. A due timer fires at any later moment. `status` records how far the
acquire call and its client are: the client may release, renew, release twice, or go away.

**Controller and gate.** `phase[r]` is the await at which `gatedRequest` and
`admit` are. Between the settling of a promise and its continuation other
microtasks can run (an abort), but no timer and no passing of time:
`Microtask` in the guards of timers and `Tick`. The limiter's side is
`lease`, `left` and `releasing`; it answers late, never, with errors, with
invalid leases, or grants after the wait was abandoned. `localLeft` is
`localExpiry - now`, `sinceSent` the age of a renew call. The renew timer may fire
at any time, which covers every `renewAfterMs` and every retry delay. Not in the
model: events, error texts and outcome labels of a release; a renewal timeout that fires
a millisecond early (it retries once more); requests of virtual models and
sessions without a gate, which pass through untouched.

**PostgreSQL limiter.** Each request is a process that opens short transactions;
`pc[r]` says which one is open or which await the call is at. `entry`, `seqOf`, `left`,
`heart` and `wait` are the columns `state`, `seq`, `lease_expires_at`, `heartbeat_expires_at` and
`wait_deadline` of its row, the times relative to the present. A transaction that
allocates is three kinds of step: it takes the row lock, it purges and counts
(`FirstSection`, `PollSection`, `ReleaseSection`, `CancelSection`), it picks its grants one
by one in memory (`GrantOne`), and it writes them with its last statements and commits. Between counting and
writing another transaction may run if, and only if, the lock lets it: the mutant without the lock shows
that the model would notice. The statements that take no lock, those of `renew` and of a poll that skips, each
concern one row and are placed before or after such a section; PostgreSQL's row locks and
READ COMMITTED make a placement inside equivalent to one of these. `now()` is the time at which the transaction
began, `age[r]` units ago, which a wait for the lock makes old. A transaction stays open at
most `MaxAge`; its answer may take any time. An open transaction may fail and roll back,
a committed one may lose its answer (`DatabaseFails`), a worker may die at any step
(`Crash`). Not in the model: workers with different limits (`fingerprint`,
`onConflict`), creation of the schema, `stats()`, and the sleep's length. The request begins its transaction
when it is sent; the connection pool's wait before `BEGIN` only makes the
subtracted round trip longer.

**Credential store.** `pc[c]` is the await of `withLock` at which a call is. A
blob maps providers to generations of their refresh token, 0 for no entry. The
function given to the store is the adapter's read, refresh or delete: a refresh
presents the token it sees, and the provider takes its newest token only, once.
`ensured` is the memoised CREATE TABLE, `cache` the process's last blob.
`holders` are the open transactions that have the row; the server may end one
under its client (`ConnectionLost`), and an answer to COMMIT may be lost
(`AnswerLost`). `strayed` records tokens that were issued and never committed;
it is only read by the property. Any failure of the database or the provider that looks like
an outage leads to the fallback on the cached blob; the wait's `lock_timeout`
and a row that cannot be decrypted reject.

**Run lifecycle.** `pc[r]` is the stage of the run: waiting for the handle's lock, at
one of the awaits of an attempt's set-up, in the turn loop, or at one of the
steps of the `finally` block. `attempt[r]` holds the local variables of
`runAttemptWithHarness`. The engine (harness and Pi) works beside the loop: it
appends to `parts`, which the loop reads, and may already be dead while the
loop has parts to read, or at work after the loop has stopped. Conversations
are sequences of the runs whose turns they hold, so that a stale or foreign
journal shows as a wrong sequence. `disk` maps a place (a sandbox, or the
mirror of a session id) and a file to a conversation; capture, detach and
persist move it between the two. `detach` copies the journal and ends the session, or, if its turn
is still under way (the loop stopped reading after an accepted submission), parks it: `parked` is
`parkedPiSessions`, from which a later run with the same session id and journal file takes it
over (`SessionTaken`), or which gives it up (`Evicted`). A `detach` or `destroy` that rejects is ignored by
the run; the session's lease stays (`stuck`) or its mirror does (`litter`), and a parked session
whose key another one takes is forgotten with its lease. `unsaved` remembers the runs whose journal was not
copied to where they read it back. `Raises` and `Clones` bound what
happens to which run; every error of a sandbox, session or stream is
"credential" or "other". Simplified: a session whose end rejects is taken to have its engine stopped, since
what was pending is settled first; a parked turn that goes on adds nothing to the conversation; how many sessions may be parked is
left open (any parked one may be evicted at any time).

**Pi session.** A session is named by the run that created it. `phase[s]` is how far its set-up
or teardown has come, `pc[r]` what its driver does. Between the awaits of a
set-up or teardown other sessions of the same id act on the shared state: leases,
tree, mounts, parked sessions. A teardown that gives back the last lease
removes the tree, which is a step of its own (`RootRemoved`). Calls Pi makes to the
host wait in `pending`; `Answers` is the application, which need not answer.

**Workspace.** One sandbox whose tree maps paths to a directory or to a content, a set of
tokens of which an edit replaces one. Every request to the sandbox is a step; a
tool call is the sequence of its requests (`at[c]`), so calls of one turn and of two runs
interleave. The sync lists, makes directories, removes what is gone and copies file by
file, and can break off anywhere. `clean`, `existed`, `landed`, `foreign` and `had` are ghosts
that the properties compare results with: who has disturbed a run since its
sync's listing, what was there, what its own tools wrote, what others changed,
and what a path has held while a snapshot was taken.

**Stream.** `translatePiEvent`'s open blocks, the parts on the wire, `createAsyncQueue`
with its reader, the converter's variables and the response's state. The client
is the protocol's reader: `Fits` says which chunk may follow what it has seen. Text
is left out; block ids are kept, since it is them a client refers to.

## Runs

| Run | Shows | Bounds |
| --- | --- | --- |
| `limiter_slots` | `SlotsFit`, `QueueBounded`, `ArrivalOrder`, `LiveLeaseKept`, `ImplementsSlotPool` | two slots, one reserved, a ceiling of one for interactive, two interactive and three background requests, a queue of one, leases of 1, a wait limit of 1 for interactive, one `stats()` |
| `limiter_waiters` | `ReservedStartAtOnce`, `NoLostWakeup`, `EveryWaiterSettles` | two slots, one reserved, two background requests, an interactive one and one for an unknown workload, leases of 2, a time budget of 2 for one background request, no `stats()` |
| `run_request` | `SlotAccounted`, `LocalExpiryFirst`, `ProviderCallCovered`, `SlotReturnedBeforeTools`, `FailureDeniesLater`, `LostLeaseStops`, `EveryRequestEnds` | one request, others of its run may fail; leases of 2, every abort reason, with and without a deadline |
| `postgres_rows` | `SlotsFit`, `QueueBounded`, `ArrivalOrder` | three background requests, two slots of which one is reserved, a queue of one, leases and heartbeats of 1, one wait limit |
| `postgres_lease` | `NothingLeftBehind`, `LocalExpiryFirst`, `LiveLeaseKept`, `ImplementsSlotPool` | two requests, one slot, leases of 2, renewals, aborts, a wait limit, a crash, a failing connection |
| `postgres_settle` | `EveryAcquireSettles` | two requests, one slot, a worker that dies and a connection that fails |
| `credential_store` | `RotationKept`, `WritesOnlyItsOwn`, `EveryCallSettles` | three callers in two processes of which one has the key, two providers, two generations of tokens, one fault besides crashes |
| `agent_stream` | `ClientUnderstands`, `BodyIsWhole`, `EveryBodyEnds` | a visible and a hidden tool, five events, two turns |
| `run_lifecycle` | `OutcomeJustified`, `EffectsOnce`, `NothingLeaks`, `ThreadExact`, `EveryRunSettles` | two runs of a thread one after the other, a third next to the first in the same handle and lock, two sources, one repair, one unread part; the first may break off after its submission, lose its journal's copy and not end its session, the second meets missing credentials, cancellation and a time-out |
| `pi_session` | `HeldIffLive`, `OwnGate`, `EveryTeardownEnds` | three runs on one id, two with a gate, one with other tools, one parked session, a turn per run with a call to the host |
| `pi_host_root` | `TreeKept` is violated | the same |
| `workspace` | `MirrorExact`, `ReportExact`, `SnapshotExact` | two runs with one mirror, five possible tool calls of which two are made, a turn each that may break off before or after a submission, one change by the application, a file whose name ends in a blank, two initial mirrors, one of which has a file where the sandbox has a directory; a snapshot, with every listing that a cut or failing `find` can give, is taken next to one of the runs |

Why these bounds are enough to be interesting: two slots and two workloads are
the least in which a reservation, a ceiling and the total can each be the
limit that binds; three requests of one workload behind one slot give a queue with an
order; leases of 2 can expire between renewal and answer. The requests of one run share only
the failure, the signals, the deadline and `dispose`; the flag for the failure of
others lets one request explore what the controller's properties relate, and the
theorems hold for any number. With the PostgreSQL limiter transactions stay open for at most 1;
leases of 2 are the least that let a renewal wait past the expiry of its lease, an
answer arrive after the slot was given on, and a purge run on an old `now()`.
Two token generations and one fault suffice to lose a token in each of the
places where it can be lost, and then to use the old one; the second process has no cache to share with the
first. Two turns of a thread are the least in which a continuation is made and
used; the run beside them shares handle, session id and journal directory. With one place for parked
sessions the second one to park evicts the first. A skill that is a file in the
mirror and a directory in the sandbox is what a sync or a restored tree gets wrong when it
assumes that types stay. Deadlock is not checked: once every request, call, run or
stream is finished nothing needs to happen.

Each property has a mutated definition beside the one it replaces
(`Live_Early`, `Lose_NoAbort`, `Unlock_OnSuccess`, ...) that must break it.

### Fairness

`InMemoryLimiter!FairSpec`: a synchronous call returns (weak fairness of the steps
inside `schedule()`), time passes, due timers run, and a client that holds a slot
releases it or goes away. Strong fairness, because a timer is not enabled while another
call runs; the event loop does not pass a due timer over for ever. Requests arrive, abort, renew and
ask for `stats()` without any obligation.

`RunConcurrency!FairSpec`: RunCell's own continuations and timers run, time
passes and the limiter lets expired leases go ("give leases that expire"). The limiter's answers to
acquire, renew and release, and the provider, have no obligation. `ProviderFair`, that the
provider ends each response, is a hypothesis of the two properties about requests
that end.

`PostgresLimiter!FairSpec`: a worker that lives goes on with its calls, PostgreSQL serves those
who wait for the row lock in turn, a client does not use its slot for ever, a renewal that was sent is
executed, and time passes. Strong fairness, since the sections of other transactions come in between.
No abort, failure or new renewal is assumed, and a worker that died does nothing.

`CredentialStore!FairSpec`: a statement is answered or its connection breaks, the
provider answers, and PostgreSQL serves those who wait for the row in turn
(strong fairness of `TakeLock`, as other callers' transactions disable it).
Calls, faults, crashes and expiring tokens have no obligation.

`RunLifecycle!FairSpec`: the sandbox, the session and the database answer, with success or
failure, and a turn that is under way ends. Weak fairness of all these steps of a run together
is enough as one of them stays enabled until another is taken. Aborts, errors, tools and
submissions need not come.

`PiSession!FairSpec`: sandbox, disk and extensions answer, and a prompt of Pi whose calls to the
host are all answered settles. The application has no obligation: it need not answer a call,
nor end a session.

`AgentStream!FairStream`: the event loop resumes a reader whose promise is resolved.
Pi, the run and the browser have no obligation; that the run settles is the hypothesis.

## What disagrees with the code's own words

A run shows the first; where other values of the constants show one of the others, they are named.

- **The last teardown can delete the next session's tree** (`pi_host_root`).
  `releaseHostRoot` gives back the last lease and then removes the tree, which takes
  time. A session of the same id that starts meanwhile takes a lease
  and makes its directories, which are then deleted under it. The comment at
  `pi-session.ts:239` says the opposite: "Lease-count it so the first run to finish cannot delete it out
  from under the others".
- **`stats()` can strand a waiter** (`LimiterLiveness.cfg` with `MaxStats = 1`). `concurrency-limiter.ts:278` purges expired
  slots without scheduling the waiters. The due expiry timer would still do that, but if another call
  arms the timer first (a renewal, an abort, a wait timeout), `armExpiryTimer` sets it for the slots that are left, and with none
  left arms none: the waiter has room and no wakeup due. The comment on line 114
  says "Wake waiters when the earliest held lease expires unrenewed." TLC finds `NoLostWakeup` and
  `EveryWaiterSettles` violated.
- **A parked session comes back stale** (`RunLifecycle.cfg` with `AllOnOne`, `InTurn`, `ThereAndBack`, `FirstBreaks`, no locks
  and both handles). A run that got its submission and whose stream then broke off parks
  its session with the turn under way. If the thread goes on in another sandbox and then returns to the first, the session id
  (the handle's) and the journal file (the thread's) are those of the parked session, and `createPiSession` (`pi-session.ts:562`)
  returns it without looking at the continuation: the model does not know the turns in between, and the continuation captured
  next lacks them. `docs/threads.md:71` says that threads and sandboxes "compose freely", line 84 that "A thread's
  continuation is portable across sandboxes."
- **A snapshot can be short.** `sandbox-handle.ts:422` does not read the exit code of `find` and trims the names:
  a listing that fails or is cut, or a name with a blank at its end, gives a snapshot without files that were there, and no error.
  `docs/sandboxes.md:79` says "`snapshot()` captures the workspace **files**". A snapshot
  that must have each file that was there all the time is violated at once; `SnapshotExact` states what holds nevertheless.
- **An abort in the gap before the listener is not heard.**
  `pi-provider-gate.ts:169` adds the abort listener after `admit` has resolved.
  If the caller aborts in a microtask between, `onCallerAbort` never runs. The provider call gets an
  aborted signal, so a well-behaved provider settles; one that does not keeps the
  slot, renewed, until `dispose`. The comment on line 165 says "Cancellation must free capacity
  even if the provider never settles."
- **A lease that has expired is handed out as valid.**
  `lease()` in `concurrency-postgres/src/index.ts:391` subtracts the round trip and then raises
  the result to at least 1. If the round trip took the whole lifetime, or a poll reads a
  grant at the end of its lifetime, the client begins a provider request on a slot that the database may
  have given to somebody else. The comment on lines 380-381 says "Subtract the round trip so RunCell's local expiry never
  outlives the database's."; `docs/concurrency.md:219` guarantees that the number of valid slots never
  goes above the limit. In `LocalExpiryFirst` such clients (`clamped`) are the one exception.
- **A stale journal can be captured.** `doStop` ignores that the journal could not be copied into the sandbox;
  `readJournal` then finds the one an earlier turn left there, and it becomes the
  continuation, without the last turn. The comment at `runtime.ts:685` says "so a failed
  capture leaves neutral replay rather than a stale journal". It takes a sandbox in which the earlier journal is.
  `ThreadExact` says what is left of the promise: the continuation lacks only turns of runs whose journal was not copied (`unsaved`).
- **Forked threads share a session** (`RunLifecycle.cfg` with `Forked`, `OwnSandboxes`, `BothAfterFirst`, `CloneOfFirst`).
  A clone has the continuation's session id and journal file; two runs on thread and clone at the same time
  share the mirror, and each writes the other's journal. `docs/threads.md:66` presents
  clones as independent branches.

Observations that contradict nothing that is written:

- A workload without a reservation is never served if the others reserve everything
  (`Servable` in `EveryWaiterSettles` excludes it). `dispose` releases the permits of
  requests that are still at the provider without stopping them.
- The credential cache of a process can go backwards, two fallback calls of a process are
  not serialised, and a function that runs again after a COMMIT whose answer was lost presents a
  token that is used up.
- A call Pi makes to the host after its session was stopped waits for ever (`late` in
  `EveryTeardownEnds`). A prompt is accepted on a parked session with a live turn; the end of
  any turn clears the emit channel of a later one. A parked session keeps the sandbox of the run that
  parked it. Parking under a key that is taken drops the former session. A changed tool set starts a new journal. Parts of a compaction
  between turns are buffered and not flushed.
- While a successful run's controller is disposed of, its thread has the new messages
  and the old continuation: `toJSON()` and `clone()` are stale then. An aborted set-up that
  fails with a credential error still falls back. Failures of the set-up emit no `onError`.
- A turn loads Pi's resources (`pi-session.ts:1152`) before it syncs the mirror
  (`:1153`): configuration that one turn has changed is loaded a turn late.
- Of two parallel edits of a file one is lost. Writes and edits are not cancelled with
  their turn. Files that shell commands change are not in `result.files`, and a file
  created by a command and then written by a tool is reported as modified. A stream that breaks off after an accepted
  submission cuts the list short (`cut` in `ReportExact`): a file whose change was not read is missing, or has older bytes. A tool that writes a name which `assertSafeWorkspacePath` refuses
  fails the run, and a snapshot with such a name cannot be restored; neither can one
  taken while a path changed from file to directory. Session ids that differ only in `/`, `\`,
  `:` or a space share a mirror.

## Proofs

All from the named assumptions on constants: `LimitsAssumption` (what validation lets
through), `RequestAssumption`, `LimiterAssumption`, `RunAssumption`, `PostgresAssumption`, `StoreAssumption`,
`SessionAssumption`, `WorkspaceAssumption`, `StreamAssumption`. They say what kind each constant is, that values which the code
tells apart are different (runs and handles, a file's content and a directory, names and `None`), and that an
initial tree is one: what is there has directories above it.

- `ConcurrencyPolicyProofs`: `NoSlotsFit`, `FewerSlotsFit`, `GrantFits`. A grant
  takes one seat; either it is one of its own workload's reserved seats, and then the
  unmet seats lose it, or the test with the others' unmet seats leaves space for it. All
  about cardinalities of finite sets.
- `InMemoryLimiterProofs`: `TypeCorrect`; `SlotsAlwaysFit` from the policy lemmas with
  `TypeOK` (slots are only removed, or added by `GrantOne`); `RefinesSlotPool` (each step maps to a
  pool step or a stutter; the history of ended leases is read off `status`);
  `QueueAlwaysBounded`, with the strengthening that while an acquire runs the queue is at
  most one longer; `GrantedInArrivalOrder`, with the strengthening that numbers of
  requests are distinct and never above `seq`, so the head of a queue precedes every waiter of its workload.
  `WakeInv` says that between calls no waiter has room next to the slots that are out, expired or not,
  and that the expiry timer is due no later than the first of them expires. The first part holds when the grant loop
  ends because a waiter with room implies a best one (`BestExists`), and gives the promise on reserved slots
  with `ReservedHasRoom`; both together give the wakeup. `stats()` breaks `WakeInv` (see above), so
  `WakeupNeverLost` and `ReservedNeverWaits` assume that it is not called. `LiveLeasesStay` needs no such assumption.
- `RunProofs` (`RunConcurrency`): one inductive invariant `RunInv`, stated per request.
  The invariants alone are not inductive: `LocalExpiryFirst` needs that a renewal
  answer on its way (`renewal = "extended"`) sets no later expiry than the limiter's,
  and that a lease not yet looked at is fresh; `SlotReturnedBeforeTools` needs
  that a finished release ends the lease for good; `ProviderCallCovered` needs to know why
  a permit may have been released early. From it:
  `RunTypeCorrect`, `NoSlotLeaks`, `LocalExpiryIsFirst`, `ProviderCallsAreCovered`,
  `SlotIsReturnedBeforeTools`. `LaterRequestsAreDenied`: in a run that has failed, a request that is new or denied
  stays so.
- `PostgresLimiterProofs`: the inductive invariant `PostgresInv` has three parts beside the
  types. `LockInv`: at most one transaction is inside `allocate`, and what it counted is
  still true. `RowInv` and `EndInv`: a row is inserted once, never waits again after a grant, and a call that
  ends has none. `LeaseInv`: ties the lifetime in the database to the answer on its way, to the client's own
  measure and to a renewal on its way; without these the client's measure is not
  inductive. From it: `GrantedRowsFit`, `ClientExpiresFirst`, `CallsLeaveNothing`, `LiveLeasesAreKept`,
  `RowsRefineSlotPool`. `RowsGrantedInOrder` and `QueueStaysBounded` add `OrderInv` (what a section has picked is older than
  what it leaves) and `QueueInv` (only a first transaction inside its section may be over the bound, by its own row).
- `RunLifecycleProofs`: the inductive invariant `LifecycleInv`, stated per run, has three
  parts beside the types. `PlaceInv`: the stage of a run shows in what its attempt has.
  `FirstInv`: in the turn loop the attempt has a submission exactly if that was first, and how an attempt ends
  agrees with what was first. `EffectsInv`: if a tool has run on the source of the attempt, the attempt is marked, or
  the call is still in the stream, or the attempt cannot end with a credential failure;
  `EffectsOnce` alone is not inductive, since a tool's call can be unread when the turn fails. A step of
  one run leaves the others untouched (`Elsewhere`), so each action is considered for its own run. From it: `LifecycleTypeCorrect`, `OutcomeIsJustified`,
  `ToolsRunOnOneSource`.
- `CredentialStoreProofs`: the inductive invariant `StoreInv` says what each call has
  (`CallInv`), that it is about to write only its own entry (`WriteInv`), that the holder of the lock has
  seen the row (`LockInv`), that nobody has a token that was not issued (`BoundInv`), and that a call which is about
  to write a rotation has the newest token alone, one above the row's (`RotationInv`). `RotationKept`
  is not inductive: that the next rotation cannot be issued to somebody else rests on `RotationInv`, and that the
  row's token is not one issued in vain on `NewestInv` and `LockedInv`. Steps in which calls learn nothing and may lose
  what they have are treated at once (`Leaves`), the others one by one. From it: `StoreTypeCorrect`, `RotationsAreKept`,
  `WritesAreOwn`.
- `RunLifecycleProofs` goes on with one more invariant. `HoldingInv` (`NothingIsLeaked`) says at which stage a run has its sandbox and
  its session (`HoldInv`), that every journal on the host is in the mirror of a session that is open, parked, could not be ended or
  whose mirror could not be removed (`HostInv`), and that the runs which lock a handle form a chain of which only the first is
  under way (`LocksInv`).
- `PiSessionProofs`: in `SessionInv` the sessions are in hands. `DriverInv`: a live session is driven by one run or is
  parked, never both. `ParkedInv`: it is parked under its own journal file, and no file twice. `OwnGate` and
  `HeldIffLive` are not inductive by these, as a run may displace, rebuild or resume a session while another
  run is handing the same journal back; `FilesInv` therefore follows each journal file: at most one session works with it (`Claims`),
  one run hands it back (`Returns`), or the application has it, and only a parked session's file may be in two of these.
  `CountInv`: leases and mounts are cardinalities of the sessions that hold them. The parked sessions are a sequence
  whose effect `UnparkedEffect` states without recursion. From it: `OwnGateOnly`, `HeldWhileLive`, `JournalsApart`.
  `OnlyRemovalLosesTheTree`: in a behaviour in which no session takes a lease while the tree is being removed,
  `TreeKept` holds. `TreeInv` adds that nobody holds a lease during the removal; with `CountInv` nobody is set up then.
- `WorkspaceProofs`: lemmas on trees (`WrittenEffect`, `RemovedEffect`, `WithDirsEffect`) say that each request keeps a tree one
  and which paths it changes. The inductive invariant `WorkspaceInv` has a part for each property.
  `SnapInv`: what is read and what was there agree path by path, and a listing that was whole had each
  ordinary name that was there when it was made. `SyncInv`: after a listing that nobody has disturbed
  the mirror has, stage by stage, no file that is not listed, no directory that is not required, each required
  directory, and each copied file; at the turn these make the two configurations equal (`ConfigEqual`), because a listed file's
  directories are directories in a well-formed tree; `MountInv` counts the mounts, so the ends of other
  sessions do not unmount it. `PathInv` is the strengthening of `ReportExact` for one path: if the run's tools have written it, a call is
  about to tell, or the stream holds a report of it, or the result has it with the bytes it has now, and likewise for
  "created"; what a call has read as `prior` is still true, or the path has been written by the run before. It
  goes on to hold for a result that is returned although the loop threw, while calls of the run still write and tell.
  From it: `MirrorMatches`, `ResultIsExact`, `SnapshotIsExact`.
- `RunProofs` (`AgentStream`): the inductive invariant `StreamInv` is about `Rest`, the parts between Pi and the
  converter: the one in the reader's hand, the buffer, and the wire, in this order. Most steps leave `Rest` the same, and no
  more than its ends ever change. `ClientUnderstands` is not inductive: it rests on `MirrorInv` (the client has seen as
  open what the converter keeps as open), on `BlockInv` (with the kinds the converter has open, a block starts in `Rest` only
  after the one before it of its kind has ended, and both are shut when more may come), and on `CallInv` (the calls in `Rest` are of
  tools the client does not know of, results follow their calls, and unless the run was rejected every visible call is known or on its
  way). `PhaseInv` says how far Pi, run, reader and response can be apart. Which chunks follow from a part is shown for the
  converter alone (`Handles`, `TerminalReads`); what the client makes of several chunks is `ReadsBoth`: it reads `q \o r` as it reads `q`
  and then `r`. That is a fact by induction over `r`. The library's induction theorems take an operator as
  a parameter and cannot be used, but the minimum of a set of numbers can (`NatInductionSet`, from `WFMin`), and a set says the
  same. From it: `StreamIsTyped`, `StreamIsUnderstood`, `ClosedBodyIsWhole`. The last one is why a queue that is closed must be
  emptied before its reader is told. What the run has handed on (`handed`) is, while the response is
  open, what the client knows and what is between queue and converter (`HandedInv`). The proof found that `HandlePart` had been written with a CASE whose guards overlap
  (a part that is dropped also has a type), of which TLA+ may take either branch; it is an IF now, as the returns in the
  code are in order.

Only model-checked:

- `LostLeaseStops`, `EveryWaiterSettles`, `EveryAcquireSettles`, `EveryCallSettles`, `EveryRunSettles`,
  `EveryTeardownEnds`, `EveryRequestEnds` and `EveryBodyEnds`: liveness under fairness is beyond the prover.
- `ThreadExact`.

`TreeKept` is false, and its run shows how; `OnlyRemovalLosesTheTree` shows that there is no other way.

## Not modelled

- Workers of the PostgreSQL limiter with different limits (`fingerprint`, `onConflict`), the creation of
  schemas, what `stats()` reports, and a composition of controller and limiter
  beyond the contract `SlotPool`.
- `doCompact`, usage totals, model resolution and the loading of extensions in the Pi session; `onConcurrency`
  events; which calls the gate wraps.
- The inheritance of run contexts (a pure merge), option validation, prompts, settings and
  usage accounting.
- Stateless conversions: tool content, schemas, model names, UI messages to
  prompts, the neutral replay of a thread, normalisation of paths, PDF pages, parsing of
  credential options. They have no protocol; what they decide enters the models as
  a choice or a constant.
- How a provider makes its sandbox, output streams and timeouts of its commands,
  and the interpreter of just-bash: external.
- Scripts, documentation and examples.
