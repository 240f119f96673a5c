# A TLA+ model of the agent-control-lab PEP

The repository is a policy enforcement point (PEP) for tool calls of an agent,
as a library (`src/pep/*.py`) and as a reference host process around it
(`src/pep/host/*.py`). This directory holds TLA+ modules for the parts of it
that keep state and are entered by several threads, processes or crashes at
once, TLC configurations that check small instances, and TLAPS proofs of the
properties that matter most. `PROJECT.json` lists the components, the runs, the
lines each definition stands for, the hazards and the theorems.

## 1. The system

| Component | State | Operations | Meets |
|---|---|---|---|
| In-process gate (`evaluate.py`, `gate.py`) | mode, availability, fence epoch, live and spent admissions, one lock | `kill`, `suspend`, `resume`, `mark_unavailable`, `evaluate`, `begin_invoke`, `complete_invoke`, `claim_entry` | approval store (holding its own lock while it takes the store's), halt store |
| Approval store (`approval.py`) | grants with what they froze, consumed and revoked ids, one lock, not re-entrant | `issue`, `consume` (runs host observers under the lock), `revoke`, `revoke_all` | the gate, by callbacks |
| Halt store (`halt.py`, `host/haltfile.py`) | a JSON file and a lock file shared by processes | `write`, `write_if`, `read`, `write_killed`, `init_active`, `read_fail_closed` | gate processes, CLI, operators' editors |
| Reference host (`host/server.py`) | the latch `_sticky_halt`, the runtime, sessions, slots, the denial window, log-call tickets | a call per request, two looks at the halt file, mirrors, `kill`, shutdown | everything below |
| Decision log (`host/log.py`) | an append-only file, a line counter, a buffer | open (counts lines), `append` (write, flush, fsync), `close`, `read_records` | the host; the claims reader, offline |
| Denial coalescing and shutdown (`host/server.py`) | window, held count, in-flight tickets, closed flag | `_account_denial`, `_flush_expired_window`, `_shutdown_log` | decision log |
| Accept loop, sessions, slots (`host/server.py`) | connections, slots, the stop flag | accept, open, serve, drop, `serve_forever`'s end, `close` | executor, log |
| Admin socket (`host/server.py`) | grants by connection, its own slots | list, grant, revoke | approval store, sessions |
| Executor (`host/executor.py`) | a pool of worker processes, a spare, one deadline per call, one lock | `start`, `call`, `abort_calls`, `release`, `close` | connection threads, the nursery process, its workers |
| Agent client (`host/client.py`) | a held connection: free, in a call, closed; the last request id | call, give up, close | a served connection |
| Claims (`host/claims.py`) | none | verdict on a claim from log records | decision log, read-only |
| Envelope (`envelope.py`), host protocol (`host/protocol.py`), policy (`policy.py`), the checks of a decision (`evaluate.py`, `host/server.py`) | none: functions of the request, the policy document and the grants | parse, refuse, decide | the gate, the host |
| Canonical form, receipts, digests, file guards | none | functions of bytes, calls into the kernel | the gate, the host |

How they interact: an agent's request reaches a connection thread of the host;
the thread reads the halt file, evaluates the envelope in the library (which
spends the grant), appends a PRE_ENTRY record, reads the halt file again,
claims the admission, runs the tool in the executor and appends the outcome.
An operator kills through the host object, the `kill` command (another process
that writes the halt file), or an editor. Threads share the runtime lock, the
store lock, the server lock and the log lock; processes share the halt file's
`flock`; editors share nothing.

What is hard about it, and where the full list is: the `hazards` of
`PROJECT.json` name the line for each. In short: two locks taken in two orders
when an observer calls back into the gate; a halt landing between any two
steps of a call; a digest or a record looked up before a callback and used
after it; a file edited without the lock its writers take; power lost between
rename and directory fsync; a buffer that outlives a failed write; line
numbers recovered from a file that a crash cut short; a drain with a bound; an
answer that comes after its deadline; a stop that meets a spawn, a call or
another stop.

### What makes each component correct

- Gate and approvals: one grant lets at most one call in; that call is the one
  the grant froze; no permit after the cut; a kill leaves no older grant; a
  refusal costs no grant except when a halt caused it, or a digest that drifted
  after the grant was spent; locks never wait on each other for ever.
- Halt store: no writer lifts a kill; a conditional write really compared; an
  acknowledged kill is durable; a dead lock holder stops nobody.
- Host: a call overtaken by a halt does not enter; the gate never makes a file
  less halted; the runtime follows the file and resumes with it.
- Decision log: acknowledged means durable, readable and uniquely numbered.
- Denials: every denial is in the log, in a summary, or counted.
- Sessions: slots are returned, after their worker; the markers in the log
  enclose what a connection did; a reply is its call's own.
- Admin socket: a revocation covers every grant the operator was told of; a
  process refused as an agent is no operator; the slots come back.
- Executor: a call ends by its deadline with its own answer or none; a worker
  is one session's; no tool outlives an abort; the live workers are bounded.
- Claims: a verdict of "consistent" is true, and an honest agent is not
  contradicted.
- Decisions: an allow is earned by every credential the call brings; who is no
  holder learns nothing of a token; the form of an envelope does not matter; the
  two parsers agree.

## 2. Modules

| Module | Models | Extended by |
|---|---|---|
| `Authority` | what the gate promises: grants are used once, entries follow permits, no permit after a cut | refined by `PepGate` |
| `PepGate` | the library's runtime and approval store, one action per critical section, two locks, observers that call back | `MCPepGate`, `PepGate_proofs` |
| `HaltDocument` | the halt file: what it can hold, how it is read, merged, compared | `HaltStore`, `HostHalt` |
| `HaltStore` | the writers of the halt file, steps of lock, read, merge, rename, directory fsync | `MCHaltStore`, `Halt_proofs` |
| `HostHalt` | a gate process over that file: opening, two looks per call, mirrors, latch, kills | `MCHostHalt`, `Halt_proofs` |
| `DecisionLog` | the log file, its buffer, its numbering, crashes | `MCDecisionLog`, `DecisionLog_proofs` |
| `DenialLog` | the denial window, its summaries, the tickets and the shutdown | `MCDenialLog`, `DenialLog_proofs` |
| `Executor` | nursery, worker pool, the steps of a call, release, abort and close | `Serving` |
| `Leases` | what the executor promises: a worker is leased to one session, once, and to none after a stop | refined by `Serving` |
| `Serving` | accept loop, slots, connection threads and both stops, over `Executor` | `MCServing`, `Serving_proofs` |
| `Claims` | the claim parser and the verdicts, as operators over a log | `Sessions` |
| `Sessions` | connections from open to close, their lines in the log, the agent's client, restarts | `MCSessions`, `Sessions_proofs` |
| `AdminSocket` | the peers of both sockets, grants by connection, the operator's requests | `MCAdminSocket`, `AdminSocket_proofs` |
| `Envelope` | the flat and the lab form, texts, every refusal in its order | `HostProtocol`, `Policy` |
| `HostProtocol` | a request to the host, the nesting scan, the envelope the host builds | `Evaluation` |
| `Policy` | tools, schemas, capability tokens | `Evaluation` |
| `Evaluation` | one decision of the library and one of the host, by the three modules above | `MCEvaluation`, `Evaluation_proofs` |

### PepGate and Authority

`mode`, `available`, `fenceEpoch`, `spentAdmissions` are the fields of
`PepRuntime`, `runtimeLock` its lock; `storeLock` is the store's lock. It is not
re-entrant: while an observer runs under it, `revoke` and `revoke_all` of the
observing thread edit the records in place and the store refuses it every other
operation. A call goes
through the steps of `begin_invoke` (fence read, checks, `consume` with its
observers, `_finalize_allow`), a completion through those of
`complete_invoke`. The checks before `consume` are a field of the request: they
read no state another thread writes. `Authority` knows only grants, permits,
entries and the cut; `ImplementsAuthority` is the refinement.

### HaltDocument and HaltStore

A file is a state (mode, availability) or one of four ways not to be one:
missing, corrupt, unreadable, a directory in its place. `file` is what readers
see (`HaltDocument` declares it, for the store and for the host), `durable` what
a power loss leaves. A writer is a `HaltStore` call of any process; its steps are
`flock`, the read and merge, the rename, the directory fsync. `EditUnlocked` is
an operator who takes no lock.

### HostHalt

`boot` is the opening of the runtime between two reads of the file; `pc` a call
of one connection thread; `sticky` the latch; `late` a history variable: the
calls that a halt overtook before their second look. A write of the runtime is
two steps (`OpenWrite`, `CloseWrite`): the read or comparison, and the rename,
which may fail with or without having landed. `writing` is the open write; it
holds the runtime's lock and the `flock`, so that no other write falls in
between, but an operator's `Edit` may, and the rename then puts the merge with
what was read before in its place. `edited` remembers that. The other calls into
the runtime and the store are single steps, because they run under their locks,
which `PepGate` and `HaltStore` look into; the theorem `WritesAreMerges` says of
the steps of `HaltStore` what `HostHalt` takes for granted of them.

### DecisionLog

The file is a sequence of records and newlines, so that what survives a power
loss is a prefix of it; `Fragment` stands for part of a record. A buffered
write may stop anywhere, and the buffer keeps the rest (`FlushFails`): `overlap`
says whether the file already ends in a part of what the buffer starts with. A
new record is dropped when an older rest could not be written to make room for
it. A record larger than the file object's buffer is written past it, and what a
short write leaves of it is nowhere (`LargeWriteFails`). `torn` is a history
variable: a line was cut short and what completes it is lost, by a crash or by
such a write. The model takes it that the file itself, once created, is in its
directory after a power loss; the code does not sync the directory
(`log.py:213`).

### DenialLog

Each action is one critical section of the server's lock, or one append. The
module covers `handle_request` and `_logged`, not the refusals of a connection
that never became a session: `_reject_busy` and `_refuse_unattested` hold one
ticket, and the latter, once the log is closed, answers DENY without a line and
without adding to `refused_after_close` (`server.py:1186-1192`). A call holds a ticket from `handle_request` and a second one from `_logged`.
`overran` is a history variable: the drain ended by its bound with calls open.
The tallies (`denied`, `lines`, `summed`, `dropped`) are history as well.

### Executor and Serving

`lock` is `ExecutorNursery._lock`; the thread that spawns keeps it until its
worker is ready or the spawn is given up, every other holder releases it within
one step. `pc`, `call`, `worker` and `taken` are a connection thread inside
`call()` or `release()`; `stop` and `toClose` are `abort_calls()` and `close()`,
which empty the pool in one step and close its workers one by one.
A worker's socket is two queues, `inbox` (requests it has not run) and `outbox`
(frames nobody has read); `offered` is the nursery's socket, `asked` the spawn
requests it has not read. `CloseWorker` clears both queues: what is left in a
socket that was shut is lost. `late` (spawns the gate gave up before the nursery
had answered) and `probes` (calls that found nothing pending on a worker) are
history variables. `Speak` is a worker that sends a frame nobody asked for,
`Die` one that ends. A request that is denied before the executor is not a step
of `Serving`: it changes nothing in it. The model is of a host whose stop event
is its own `_stop` (`serve_forever(stop=...)` may be given another, which the
connection threads do not look at), and of a nursery that ends only by
`close()`.

`Leases` knows only who holds which worker, which workers nobody has had, and
which requests are waiting at which worker. A session holds the worker that is
registered for it and not closed; a call whose worker a stop took out of the
pool holds it until the call ends or the worker is closed. Nobody has had what
the nursery has not handed over, the worker that boots, and the spare.

### Claims and Sessions

A log is a sequence of records with the fields the verdicts read. `Claims` is
`parse_claim`, `verify_claim` and `verify_connected_claim` as sets and
quantifiers: `Bounds` is the scan for one open, one close and every number
between them exactly once. `Sessions` is what writes such a log: `pc` is a
connection thread (opening, reading, deciding, recorded, closing), `cur` the
request it decides, and each append either is in the file, or fails and leaves
any part of the buffer there, which halts the gate. `BoundRecord` is the
shortening of an over-long line. `client`, `inbox` and `outbox` are
`AgentConnection` and the socket. `Restart` begins connection and request
numbers anew, as the code does, so a name in the log may be two sessions'; `life`
is a history variable that tells them apart, as are `called` and `returned` (the
tools that ran) and `told` (the replies the agent read). The model folds what
other modules look into: why a call is denied (`Evaluation`, `PepGate`), how an
append fails (`DecisionLog`), when a denial is held back (`DenialLog`).

### AdminSocket

`agent` is a connection thread of the agent socket, from the accept to its end;
`admin` one of the admin socket. A grant goes through the steps of
`_admin_grant`: issued (and live), filed under its principal, noted under its
connection, answered. `acked` are the grants an operator was given, `swept` those
an answered revocation covered, `told` the processes that were sent a refusal,
`late` a peer that connected after that; these are history. The user ids that
matter are `root`, the host's own and the others.

### Envelope, HostProtocol, Policy, Evaluation

Pure functions as operators. A JSON value is a record with its type, an object
a function of its keys; a regular expression is the set of texts it matches. A
parser is a sequence of checks in the order of the code, each with the reason it
refuses with, and `FirstFailure` is what the caller sees. Only
`_nesting_exceeds` works on characters, so only `NestingExceeds` does, as a
recursive function of how many characters were read (`Scanned`).
`Evaluation` asks one question of one policy and answers it: an envelope to
`evaluate()`, a request to `_decide`, or a text to the scan.

## 3. Runs

| Run | Shows | Instance |
|---|---|---|
| `gate_threads` | safety of grants, permits and the cut, and the refinement of `Authority` | 2 calls, 2 completions, 1 killer, 1 grant, 2 principals, 2 bindings, clock 0..1 |
| `gate_observers` | digests, grants lost to nothing but a halt or a drift, and revocation with observers that drift and call back, and that no lock waits for ever while observers stay out of `kill()` | 2 calls, 1 completion, 1 killer, 2 digests |
| `gate_observer_kill` | expected violation: `kill()` from an observer meets a `kill()` from a thread | 1 call, 1 killer |
| `halt_writers` | stickiness, durability, comparison, and that a live writer returns | 2 writers, one of them live, 8 kinds of write, 2 edits of 7 kinds, crashes |
| `host_calls` | two connections mirror one file through edits, kills, a failure and a restart: no call outruns a halt and no step lifts one (unless it was written by hand under an open write), the gate resumes | 2 threads, 2 operator acts of 3 kinds, 1 failure, 2 starts |
| `log_restarts` | acknowledged records durable and, unless a line was cut short and its rest lost, readable and numbered upwards | 4 appends, 2 failures, 2 crashes |
| `log_reuse` | expected violation: a seq is reused after a torn line and two restarts | 4 appends, 2 crashes |
| `denials` | every denial accounted, the log complete at its close, the shutdowns return | 2 callers, burst 1, 4 denials, 3 clock readings, 1 failed append |
| `serving` | an answer is its call's own, the live workers are bounded and leased to one session each (the refinement of `Leases`), no tool outlives the abort, slots and stops return | 2 connections, 1 slot, 2 calls, 3 forks, 1 unasked frame |
| `sessions` | a consistent verdict is true, an honest claim stands, a reply is its call's | 2 connections with 1 request each, then a restart and 1 with 2; 5 lines, 1 failed append |
| `admin` | a revocation covers what was promised, a refused process is no operator, slots return | 2 admin threads, 1 session, 2 processes, 2 grants, 12 allow lists |
| `decisions` | who is allowed, what a non-holder is told, forms and parsers agree, the scan counts | 15 policies, 7 grants, envelopes with up to 2 changed members, texts up to 6 characters |

Why the bounds are enough. Every hazard listed needs at most two threads at the
same object, one kill and one operator act between two of their steps; the
instances have these, and a third actor adds only repetitions. One restart is
enough for the halt, which the file carries whole; the log needs two, because
its error shows at the second; a claim needs one, which gives a name and a
request id out twice. `Burst = 1` puts the window at its limit with
the second denial; four denials fill, count, rotate and flush. One slot and two
connections let a slot, the spare and a registration change hands; three forks
allow a spawn that was given up, the worker that comes late and one more; two
calls allow a late answer to meet the next call of its session. Two slots, where
two spawns meet at the nursery's lock, are covered by the proofs only. Five lines
hold an open, an admission, its outcome and a close with a line of another
connection or a reopened name between them. Two admin threads let a grant be in
the making while another thread revokes; one connection is enough, because
ids of another one are in neither set. An envelope with two changed members
shows which of two refusals wins. `MaxDepth = 1` and six characters hold a
string with an escaped quotation mark beside brackets that close and reopen.
All bounds are guards on named constants (`Max...`, `Lives`), never constraints,
so a bounded behaviour is a behaviour of the unbounded module.
`CHECK_DEADLOCK FALSE` stands where the system really stops: a gate whose calls
are all decided, a log that is closed, a question that was answered.

### Fairness

- `PepGate`: a thread inside the gate keeps running and an observer returns
  (`approval.py` asks it to be quick). Nobody has to begin a call, kill, revoke.
- `HaltStore`: the live writers run; a waiter gets the lock or its five seconds
  pass. Other writers may stop anywhere, the lock in hand.
- `HostHalt`: connections keep sending and their threads run. Operators owe
  nothing.
- `Serving`: a connection's thread keeps running, its deadlines pass and it
  ends by itself (idle timeout and connection deadline, `server.py:853-910`);
  the accept loop polls the stop flag; a stop that has begun goes on. Clients,
  the nursery, the workers and the operator owe nothing.
- `DenialLog`: a thread in `_shutdown_log` runs and its bound passes. Callers
  owe nothing: they may be in a tool that never returns.
- `AdminSocket`: a thread of the admin socket runs and its reads time out
  (`_serve_admin`'s deadline). Its peer owes nothing.

## 4. Proofs

All theorems hold for every value of the constants under the named assumptions
(`GateAssumption`, `HaltAssumption`, `DocumentAssumption`, `HostAssumption`,
`LogAssumption`, `PieceAssumption`, `ExecutorAssumption`,
`AdminSocketAssumption`, `DenialAssumption`, `SessionsAssumption`,
`EvaluationAssumption`): any number of threads, calls, writers, grants, edits,
failures, crashes, sessions and workers, any policy, approval store and request.
Most assumptions say of what kind a constant is. Those that say more:
`SessionsAssumption` keeps absent values, the marks of an argument that has no
digest and the states of a client apart from tools, digests and reasons; `EvaluationAssumption` says that clocks are
integers, that an object is its keys and their values, that a session's
principal, the host's own request ids and "unspecified" are well formed (`_admit`
and `_request_id` see to the first two), and that a policy document is what the
model takes of it: whether it is empty, its tools and its tokens. TLC evaluates every assumption on the instance of its run.

- `PepGate_proofs`: `GateInv` is inductive. It adds to the type invariant who
  holds which lock at which step, that a spent admission's ticket is gone, that
  a consumed grant names the one call that may still enter, and that the epoch a
  call read is not ahead of the fence. From it: `OneEntryPerGrant`,
  `EntryMatchesGrant`, `KillLeavesNoGrant`, `NoPermitAfterCut`,
  `RevocationIsFinal`, and that every step is a step of `Authority` or a
  stutter (`Refinement`).
  The module then proves, on top of `GateInv`, what holds of one call over
  time: a call that was admitted has its ticket until it is settled
  (`TicketOutlivesSuspend`); whoever spent a grant is past its lookup and not
  yet refused, so that only a later halt, or a digest that another observation
  at tool entry finds changed, costs it the permit and the entry
  (`GrantLostOnlyToHaltOrDrift`); and the digest a call entered with was read after the
  spending (`EntryDigestWasCurrent`). Each splits the steps into those of one
  call and those of everybody else, which leave its record alone.
- `Halt_proofs`, of the store: `HaltInv` is inductive: the lock excludes; what a
  writer is about to rename is a merge with the file as it still is, unless an
  edit overtook it; a file killed and synced stays so. From it
  `WrittenKillIsDurable`, `KillIsSticky`, `ConditionalWriteCompares`; and
  `WritesAreMerges`, that a writer no edit meddled with leaves the file alone or
  merges its request into it, as the writes of `HostHalt` do.
- `Halt_proofs`, of the host: `HostInv` is inductive: every call in `late` still
  has a halt ahead of it (the latch, the file, or what it has read).
  `NoLateEntry` alone says nothing of calls before their second look. A halt
  written by hand under an open write that will put an active state in its place
  is not counted, since nothing of it is left after the rename. `WriterOpen` and
  `WriteFollowsFile` say whose the open write is and that, unless an edit fell
  between, it is at least as halted as the file. Also `GateNeverUnhalts` and
  `RuntimeFollowsFile`, step by step, with the same exception.
- `DecisionLog_proofs`: `LogInv` is inductive: the durable part does not reach
  into the overlap of file and buffer, and a record in the sync step ends the
  file. From it `AckedIsDurable`. `LinesInv` is inductive as long as no line was
  cut short with its rest lost (`torn`): file and buffer together are whole lines, their records were appended in
  that order, no number is ahead of the lines before it, and the newline of an
  acknowledged record is in the file. A bijection between the records and the
  newlines that end them (`LineCount`) turns the count of lines a restart makes
  into a bound on the numbers. From it `AckedIsReadable` and `AckedSeqsGrow`.
  `TheLogOnlyGrows` is an action property that needs no such condition: no step,
  a crash or a power loss included, rewrites or cuts what is on the disk, and
  what a step acknowledges is there when it does.
- `Sessions_proofs`: `SessionsInv` is inductive. It speaks of the lines the host
  has put out (`Written`): the file and, after it, the buffer of a failed append.
  `LogInv` is what they say: a session's lines stand between its markers in the
  order of its steps, a request id is one request's in a life, every call that
  ran has its line after the open, and a line that allows has a tool that
  returned. `WireOf` is the two ends of a connection: an agent that waits has one
  request under way, or its reply in the socket, and the replies carry rising
  ids. `SentAgrees` and `HeardAgrees` say that a reply, on its way or read,
  agrees with the final line of its request. What each verdict of `Claims` finds
  in a log is a lemma of its own. From it `ConsistentAbsenceIsTrue`,
  `ConsistentActionIsTrue`, `HonestClaimStands` and `ReplyIsOwn`.
- `Evaluation_proofs`: a decision is one step, so its invariant says only that an
  answer was computed from its question (`EvaluationInv`); the work is in lemmas
  about the operators. `Then` says that `FirstFailure` of two rows of checks is
  the first's or else the second's; from it each parser refuses nothing exactly
  when the members it asks for are there (`FlatRefusalIs`, `LabRefusalIs`,
  `HostRefusalIs`). From these `AllowIsEarned`, `NonHolderLearnsNothing`,
  `HostAcceptsWhatParses` and `FormsAgree`, for any policy, approval store and
  request. `NestingIsCounted` is an induction over the characters, done without
  an induction theorem: `UpTo` takes the least number at which a claim fails
  (`WFMin`), `RecursionIs` shows with it that the scan has a value, and
  `ScanMeans` is what the scan knows after each character: the largest surplus of
  opened brackets over all beginnings, and the parity of the backslashes before.

- `Serving_proofs`: `ServingInv` is inductive. Its parts: slots are counted by
  the threads that hold one; a thread is in the executor only in the phase that
  calls it; a registered worker belongs to a session with a slot; the lock is
  the spawner's; a stop that has begun to close leaves the pool empty; the
  nursery's answers are the last workers it forked, in order, so that the gate
  cannot hold one twice; the worker of a call is in the pool, closed or about
  to be; a live worker with a request is one somebody has or will close. A
  step of a call is first reduced to one of three outcomes (it goes on, its
  worker is closed, it returns), and each part is kept by each kind of step.
  From it `NoToolOutlivesAbort` (needs the last part: the property alone says
  nothing of the time before the abort) and `SlotMeansWorker` (a count of the
  registered workers against the slots). `AnswerIsOwn` needs three facts about a
  worker's wire: nobody else holds the worker a session holds, whatever place
  of the pool it has left (`HandsApart`); the frames it has sent bear the number
  of the look for unasked frames they were sent after (`FramesDated`); and
  without such frames the wire holds at most the request or the answer of the
  call that waits (`OnlyOwnOnWire`). `LiveWorkersBounded` is a count by owner:
  what is on its way from the nursery was asked for by the spawn that waits or by
  one that was given up (`RequestsCounted`), each received live worker is
  somebody's (`LiveAreOwned`), and these, with the spawn that waits, are no more
  than the slots (`RoomKept`).
  `LeasesAreKept` is the refinement of `Leases`: every action leases, asks, lets
  go, retires a worker, stops, or changes nothing of the four (`LeaseStep`). It
  rests on `SpawnerAlone` (a thread that boots a worker is the only one, the
  executor still runs, and nobody else has that worker, on whatever way out of
  the pool it may be) and on `ClosingRetires` (closing a worker takes it from
  the session that holds it and from no other). What `Leases` promises is then
  proved of the executor: no worker is two sessions' at a time
  (`WorkersAreNotShared`) or one after the other (`WorkersAreLeasedOnce`), which
  docs/threat-model.md:132 claims.
- `AdminSocket_proofs`: `AdminInv` is inductive. `ToldAreDenied` says that
  whoever was told of a refusal, or is about to be, is known as rejected if it
  is of the host's user; without it nothing is known of a peer whose refusal is
  still to be sent. `GrantsAreNoted` says that an answered grant is noted under
  its holder, and that a thread that revokes still has every promised grant
  before it or has settled it. From it `RevokeAllCovers` and
  `RefusedIsNoOperator`.

- `DenialLog_proofs`: `DenialIInv` (its parts are `Shape` and `Sums`) is inductive. Sums over the threads are sizes
  of sets (`Total`), so that one lemma (`TotalMoves`) says what a step of one
  thread does to them. `ClosedIsComplete` needs more than itself: that a closed
  log without tickets lets nobody take one (`NothingAfterClose`, for which the
  tickets have to be those of the threads, `TicketsCounted`), and that nobody
  drains twice (`OneDrains`), or the second drain would forget that the first
  was overrun. From it `AllAccounted` and `ClosedIsComplete`.

Every invariant and every safety property of a step that a passing run checks is
a theorem. Only model-checked are the liveness properties, which need fairness
and ENABLED: `ThreadsReturn`, `LiveWritersReturn`, `ResumeReachesTheGate`,
`ShutdownReturns`, `EverySlotAndStopReturns`, `AdminSlotsReturn`. The properties
of the two runs that expect a violation are false.

## 5. What the runs found

1. `gate_observer_kill`: the locks deadlock when an observer inside `consume()`
   calls `kill()` while another thread is in `kill()`. `approval.py:276` says
   this kill "still revokes and still persists the halt".
2. `log_reuse`: a torn line is counted once and then, joined with the next
   record, not; a later start hands out a seq a second time, and the first
   record is on a line no reader parses.

Seen while modelling, with no run. The lock of the halt file does not keep an
editor out: a suspend, a kill or a deletion made by hand between the comparison of
`write_if` (`halt.py:128-131`) and its rename (`halt.py:221`) is overwritten. A
mirror of an active file then lifts it, and a call that reads the file after the
rename enters its tool. The docstring (`halt.py:120`) says a missing file is never
recreated, and `server.py:1413-1415` that a suspend or a delete after the read "is
kept, not overwritten"; `NoLateEntry`, `GateNeverUnhalts` and `RuntimeFollowsFile`
name the exception, and without it the run finds each violated. An append of a
record larger than the file object's buffer may end in a short write and an error,
with no crash: the next acknowledged record is joined to the fragment, on a line
`read_records` raises on. The failed append latches the halt: what the process
appends after it are denials and the lines of calls that had passed their looks. `evaluate()` raises `TypeError` for a capability
record whose `tools` is no container, where its docstring promises a response. A
schema's "number" admits a boolean, because Python's `True` is an `int` and the
test against it compares with `float`. A hand-built `InvokeEnvelope` may carry
policy-coax keys among its arguments. Connection and request ids begin anew at
each start, so an action claim may meet the records of an earlier life
(`ConsistentActionIsTrue` and `HonestClaimStands` leave such ids out). A failed
fsync leaves an ALLOW line in the log while the reply is a denial, and the line
of a denial decided before the request was read names no tool: the claim of an
agent that repeats such a reply is contradicted (`RecordDiffers`). `_minted_on`
is never cleaned, and a rejected process id stays rejected when the kernel gives
it to another process; both only cost memory or deny. A kill the gate learns from a declined mirror
(`evaluate.py:373`) sets the mode and revokes nothing, and
`_kill_runtime_memory` then skips `kill()`; ADR-0011 says "a kill now ends every
grant", but a killed gate lets nobody spend it. A spawn that is given up
(`executor.py:298`) leaves its request with the nursery; the worker that comes
late is taken by the next spawn, whose own worker stays unread in its turn, so
that one worker more than the connection cap is live from then on, where
`README.md:148` says "At most as many workers as the connection cap are live";
`LiveWorkersBounded` therefore counts those spawns. `close()` empties the pool
before it closes the workers, so an `abort_calls()` that begins in between
returns while their tools still run, which `abort_calls`' docstring rules out
(`NoToolOutlivesAbort` names the exception). `settimeout` stands before the `try`
of `_Worker.call` (`executor.py:343`): on a socket closed since the check it raises
`OSError`, where `call()` promises `ToolExecutionError`; the connection thread's
`except Exception` turns it into a denial. `write_killed` reports success for a file
that already reads as killed, even when the rename that killed it was never
synced. A denial that outlives the drain bound may be coalesced, or rotate,
after the close, and then is neither in the log nor in `refused_after_close`.
An edit of `available` to false and back during the opening leaves a runtime
that is never available and whose next mirror writes `available: false` over
the operator's file. A failed fsync leaves its line in the file and gives its
seq to the next record, which the claims reader treats as a duplicate.

## 6. Not modelled

- Canonical form, receipts and digests of values: functions of single values
  whose point is the bytes. The bindings of grants are the values themselves.
- Implementation digests and sealed executables: calls into the kernel. What a
  digest that drifts does to a grant is in `PepGate`.
- Guards of files and directories, the binding of the sockets, argument parsing
  and printing of the command lines: calls into the kernel, no state.
- The client's attestation of the host by its user id, `invoke` and
  `admin_call`: a connection each, of which `Sessions` has the general case.
- `init_halt()` of the host (`server.py:321-331`), which would open the halt file
  again and replace the runtime of a live process: nothing in the repository calls
  it. The `init-halt` command is a writer of `HaltStore`.
- The thread lock of a `HaltStore` object (`halt.py:104,125`): only the wait for the
  `flock` has a bound, a thread that waits for another thread of its process has
  none of its own.
- The sandbox of a worker and the bytes of a frame.
- The corpus, demonstration, scripts, audits and tests use the system and are
  not part of it.

## 7. Plan

1. Gate, approvals and `Authority` (written, proved).
2. Halt file, then the host over it (written, proved).
3. Decision log and denial log (written, proved).
4. Executor, accept loop, slots and both stops (written, proved).
5. Claims, sessions and the client, the admin socket, the decision's functions
   (written, proved).
6. `Leases`, an abstract specification of the executor that `Serving` implements
   (written, proved).
7. One decision of the host (`Evaluation`) composed with the mirror of the halt
   file (`HostHalt`).
