------------------------------ MODULE Executor ------------------------------
(***************************************************************************)
(* The host's tool executor (pep/host/executor.py): a nursery process      *)
(* forks sandboxed workers, one for each session, and a session's thread   *)
(* writes one request to its worker and reads one reply under a deadline.  *)
(* abort_calls() and close() stop the workers under calls in flight.       *)
(*                                                                         *)
(* A thread's steps are the critical sections of ExecutorNursery._lock,    *)
(* which a thread keeps while it spawns, and the socket operations of      *)
(* _Worker.call.  A worker is never shared, so its call lock is always     *)
(* free and is left out.  A killed process counts as gone.                 *)
(***************************************************************************)
EXTENDS Integers, FiniteSets, Sequences

CONSTANTS
    Sessions,       \* the connections, each with one thread
    MaxWorkers,     \* max_workers, the host's connection limit
    MaxCalls,       \* bound: calls
    MaxForks,       \* bound: workers the nursery forks
    MaxSpoken,      \* bound: frames no request asked for
    Free, None

Workers == 1..MaxForks
Stoppers == {"abort", "close"}          \* abort_calls(), close()
Calls == Sessions \X Nat

ASSUME ExecutorAssumption ==
    /\ MaxWorkers \in Nat \ {0} /\ MaxForks \in Nat \ {0}
    /\ MaxCalls \in Nat /\ MaxSpoken \in Nat
    /\ IsFiniteSet(Sessions)
    /\ Free \notin Sessions /\ None \notin Nat /\ None \notin Calls

VARIABLES
    lock,               \* the session that spawns with _lock in hand, or Free
    closed, aborting,
    registered, spare,  \* _workers, _spare
    pc, call, worker,   \* a session's thread: its step, its call's number, its worker
    taken,              \* and the frame its call took as the reply
    stop, toClose,      \* a stopper's step and the workers it has yet to close
    shut,               \* the workers whose _closed is set
    nursery,            \* the nursery process lives
    asked, offered,     \* spawn requests it has not read, workers it has sent
    forked,             \* the workers it has forked
    alive, ready,       \* the live ones; those that sent their ready frame
    inbox, outbox,      \* requests a worker has not run, its frames nobody has read
    probes,             \* calls that found nothing pending on a worker (history)
    late,               \* spawns given up before the nursery answered (history)
    spoken

pool == <<closed, aborting, registered, spare>>
thread == <<pc, call, worker, taken>>
stopping == <<stop, toClose>>
spawning == <<nursery, asked, offered, forked>>
process == <<shut, alive, ready>>
wire == <<inbox, outbox, probes>>
executorVars == <<lock, pool, thread, stopping, spawning, process, wire, late, spoken>>

Steps == {"idle", "ask", "spawn", "boot", "check", "probe", "write", "read", "after",
          "discard", "release", "halt", "released"}
Spawning == {"spawn", "boot"}
Calling == {"check", "probe", "write", "read", "after"}
Frames == [call : Calls \cup {None}, at : Nat]

\* start(): the nursery runs and has handed over one worker, the spare.
ExecutorInit ==
    /\ lock = Free /\ closed = FALSE /\ aborting = FALSE
    /\ registered = [s \in Sessions |-> None] /\ spare = 1
    /\ pc = [s \in Sessions |-> "idle"] /\ call = [s \in Sessions |-> 0]
    /\ worker = [s \in Sessions |-> None] /\ taken = [s \in Sessions |-> None]
    /\ stop = [x \in Stoppers |-> "off"] /\ toClose = [x \in Stoppers |-> {}]
    /\ nursery = TRUE /\ asked = 0 /\ offered = <<>> /\ forked = 1
    /\ shut = {} /\ alive = {1} /\ ready = {1}
    /\ inbox = [w \in Workers |-> <<>>] /\ outbox = [w \in Workers |-> <<>>]
    /\ probes = [w \in Workers |-> 0]
    /\ late = 0 /\ spoken = 0

GoTo(s, where) == pc' = [pc EXCEPT ![s] = where]
\* A call returns or raises (the kind of the error is left out).
Return(s) ==
    /\ GoTo(s, "idle")
    /\ worker' = [worker EXCEPT ![s] = None] /\ taken' = [taken EXCEPT ![s] = None]
    /\ UNCHANGED call
Use(s, w, at) ==
    /\ GoTo(s, at)
    /\ worker' = [worker EXCEPT ![s] = w]
    /\ UNCHANGED <<call, taken>>
\* _Worker.close: the flag, the socket, the signal.
CloseWorker(w) ==
    /\ shut' = shut \cup {w} /\ alive' = alive \ {w}
    /\ inbox' = [inbox EXCEPT ![w] = <<>>] /\ outbox' = [outbox EXCEPT ![w] = <<>>]
    /\ UNCHANGED probes

-----------------------------------------------------------------------------
(***************************************************************************)
(* _worker_for: the thread of a call looks for its worker.                 *)
(***************************************************************************)
Usable(w) == w # None /\ w \notin shut
Fresh(s) == ~closed /\ ~aborting /\ ~Usable(registered[s])
\* The pool is full but for the session's own, closed, worker.
Full(s) == Cardinality({t \in Sessions \ {s} : registered[t] # None}) >= MaxWorkers
SetWorker(s, w) == registered' = [registered EXCEPT ![s] = w]

Aborted(s) ==
    /\ closed \/ aborting
    /\ Return(s)
    /\ UNCHANGED <<lock, registered, spare, asked>>

Reuse(s) ==
    /\ ~closed /\ ~aborting /\ Usable(registered[s])
    /\ Use(s, registered[s], "check")
    /\ UNCHANGED <<lock, registered, spare, asked>>

\* Mutant: the spare stays where the next session finds it.
SpareKept(s) ==
    /\ Fresh(s) /\ Usable(spare)
    /\ SetWorker(s, spare)
    /\ Use(s, spare, "check")
    /\ UNCHANGED <<lock, spare, asked>>

TakeSpare(s) ==
    /\ Fresh(s) /\ Usable(spare)
    /\ SetWorker(s, spare) /\ spare' = None
    /\ Use(s, spare, "check")
    /\ UNCHANGED <<lock, asked>>

AtLimit(s) == Fresh(s) /\ ~Usable(spare) /\ Full(s)
Refuse(s) ==
    /\ AtLimit(s)
    /\ SetWorker(s, None)
    /\ Return(s)
    /\ UNCHANGED <<lock, spare, asked>>

AskNursery(s) ==
    /\ Fresh(s) /\ ~Usable(spare) /\ ~Full(s)
    /\ SetWorker(s, None)
    /\ lock' = s /\ asked' = asked + 1
    /\ GoTo(s, "spawn")
    /\ UNCHANGED <<spare, call, worker, taken>>

Ask(s) ==
    /\ pc[s] = "ask" /\ lock = Free
    /\ Aborted(s) \/ Reuse(s) \/ TakeSpare(s) \/ Refuse(s) \/ AskNursery(s)
    /\ UNCHANGED <<closed, aborting, stopping, nursery, offered, forked, process, wire, late,
                   spoken>>

-----------------------------------------------------------------------------
(***************************************************************************)
(* _spawn_worker, with _lock in hand: a request to the nursery, then the   *)
(* worker it sends, then that worker's ready frame.                        *)
(***************************************************************************)
TakeWorker(s) ==
    /\ pc[s] = "spawn" /\ offered # <<>>
    /\ offered' = Tail(offered)
    /\ Use(s, Head(offered), "boot")
    /\ UNCHANGED <<lock, pool, stopping, nursery, asked, forked, process, wire, late, spoken>>

\* Mutant: the gate waits for the nursery for ever.
SpawnWaits(s) == FALSE /\ pc[s] = "spawn" /\ UNCHANGED executorVars

\* The nursery has not answered in time; its answer stays to come.
SpawnTimeout(s) ==
    /\ pc[s] = "spawn" /\ offered = <<>>
    /\ late' = late + 1 /\ lock' = Free
    /\ Return(s)
    /\ UNCHANGED <<pool, stopping, spawning, process, wire, spoken>>

Register(s) ==
    /\ pc[s] = "boot" /\ worker[s] \in ready
    /\ SetWorker(s, worker[s]) /\ lock' = Free
    /\ GoTo(s, "check")
    /\ UNCHANGED <<closed, aborting, spare, call, worker, taken, stopping, spawning, process,
                   wire, late, spoken>>

\* No ready frame: the sandbox was refused, the worker ended, or time is up.
BootFails(s) ==
    /\ pc[s] = "boot"
    /\ alive' = alive \ {worker[s]} /\ lock' = Free
    /\ Return(s)
    /\ UNCHANGED <<pool, stopping, spawning, shut, ready, wire, late, spoken>>

-----------------------------------------------------------------------------
(***************************************************************************)
(* _Worker.call: one request, one reply, one deadline.                     *)
(***************************************************************************)
Shut(s) == worker[s] \in shut
Pending(s) == outbox[worker[s]] # <<>>

Advance(s, to) ==
    /\ GoTo(s, to)
    /\ UNCHANGED <<lock, pool, call, worker, stopping, spawning, process, late, spoken>>

\* A call that returns or raises and leaves its worker as it is.
Leave(s) ==
    /\ Return(s)
    /\ UNCHANGED <<lock, pool, stopping, spawning, process, wire, late, spoken>>

\* A call that closes its worker and raises; the thread then takes _discard.
Fail(s) ==
    /\ CloseWorker(worker[s])
    /\ GoTo(s, "discard")
    /\ UNCHANGED <<lock, pool, call, worker, taken, stopping, spawning, ready, late, spoken>>

\* Another thread may have closed the worker before the call takes it up.
CheckOpen(s) ==
    /\ pc[s] = "check"
    /\ \/ ~Shut(s) /\ Advance(s, "probe") /\ UNCHANGED <<wire, taken>>
       \/ Shut(s) /\ GoTo(s, "discard")
          /\ UNCHANGED <<lock, pool, call, worker, taken, stopping, spawning, process, wire,
                         late, spoken>>

\* settimeout() stands before the try: on a socket closed since the check its
\* error leaves the call as it is, and the worker is not discarded.
SetTimeoutRaises(s) == pc[s] = "probe" /\ Shut(s) /\ Leave(s)

PassProbe(s) ==
    /\ Advance(s, "write")
    /\ probes' = [probes EXCEPT ![worker[s]] = @ + 1]
    /\ UNCHANGED <<inbox, outbox, taken>>

\* _bytes_pending before the request is written.
Probe(s) ==
    /\ pc[s] = "probe"
    /\ \/ ~Shut(s) /\ ~Pending(s) /\ PassProbe(s)
       \/ (Shut(s) \/ Pending(s)) /\ Fail(s)

WriteRequest(s) ==
    /\ pc[s] = "write"
    /\ \/ /\ worker[s] \in alive
          /\ Advance(s, "read")
          /\ inbox' = [inbox EXCEPT ![worker[s]] = Append(@, <<s, call[s]>>)]
          /\ UNCHANGED <<outbox, probes, taken>>
       \/ worker[s] \notin alive /\ Fail(s)

\* One frame is taken; a frame that is no reply, an end of file and a closed
\* socket end the call.
ReadReply(s) ==
    /\ pc[s] = "read"
    /\ \/ /\ ~Shut(s) /\ Pending(s)
          /\ Advance(s, "after")
          /\ taken' = [taken EXCEPT ![s] = Head(outbox[worker[s]])]
          /\ outbox' = [outbox EXCEPT ![worker[s]] = Tail(@)]
          /\ UNCHANGED <<inbox, probes>>
       \/ /\ IF Pending(s) THEN Head(outbox[worker[s]]).call = None ELSE worker[s] \notin alive
          /\ Fail(s)
       \/ Shut(s) /\ Fail(s)

\* Mutant: a worker that was late is kept for the next call.
TimeoutKeeps(s) == pc[s] \in {"write", "read"} /\ Leave(s)

\* Mutant: the call has no deadline.
CallWaits(s) == FALSE /\ pc[s] = "read" /\ UNCHANGED executorVars

\* The deadline is looked at before each recv, whatever there is to read.
CallTimeout(s) == pc[s] \in {"write", "read"} /\ Fail(s)

\* The only frame is the reply: a result, or the worker's refusal.
FinishCall(s) ==
    /\ pc[s] = "after"
    /\ \/ ~Shut(s) /\ ~Pending(s) /\ Leave(s)
       \/ (Shut(s) \/ Pending(s)) /\ Fail(s)

Discard(s) ==
    /\ pc[s] = "discard" /\ lock = Free
    /\ SetWorker(s, IF registered[s] = worker[s] THEN None ELSE registered[s])
    /\ Return(s)
    /\ UNCHANGED <<lock, closed, aborting, spare, stopping, spawning, process, wire, late, spoken>>

-----------------------------------------------------------------------------
(***************************************************************************)
(* release: the session's worker leaves the pool, then it is closed.       *)
(***************************************************************************)
\* Mutant: a session that goes away stays registered.
ReleaseForgets(s) ==
    /\ pc[s] = "release" /\ lock = Free
    /\ Use(s, registered[s], IF registered[s] = None THEN "released" ELSE "halt")
    /\ UNCHANGED <<lock, pool, stopping, spawning, process, wire, late, spoken>>

Release(s) ==
    /\ pc[s] = "release" /\ lock = Free
    /\ SetWorker(s, None)
    /\ Use(s, registered[s], IF registered[s] = None THEN "released" ELSE "halt")
    /\ UNCHANGED <<lock, closed, aborting, spare, stopping, spawning, process, wire, late, spoken>>

ReleaseClose(s) ==
    /\ pc[s] = "halt"
    /\ CloseWorker(worker[s])
    /\ Use(s, None, "released")
    /\ UNCHANGED <<lock, pool, stopping, spawning, ready, late, spoken>>

-----------------------------------------------------------------------------
(***************************************************************************)
(* abort_calls and close: the pool is emptied under the lock, its workers  *)
(* are closed one by one outside it; close() then ends the nursery.        *)
(***************************************************************************)
Others == UNCHANGED <<lock, thread, asked, offered, forked, ready, late, spoken>>
EmptyPool(x) ==
    /\ registered' = [s \in Sessions |-> None] /\ spare' = None
    /\ toClose' = [toClose EXCEPT ![x] =
                      ({registered[s] : s \in Sessions} \cup {spare}) \ {None}]
    /\ stop' = [stop EXCEPT ![x] = "closing"]

\* Mutant: the workers are stopped, new calls are not refused.
AbortOnce ==
    /\ stop["abort"] = "begun" /\ lock = Free
    /\ EmptyPool("abort")
    /\ UNCHANGED <<closed, aborting, nursery, shut, alive, wire>> /\ Others

AbortCalls ==
    /\ stop["abort"] = "begun" /\ lock = Free
    /\ aborting' = TRUE
    /\ EmptyPool("abort")
    /\ UNCHANGED <<closed, nursery, shut, alive, wire>> /\ Others

\* A second close() returns at once; there is one here.
Close ==
    /\ stop["close"] = "begun" /\ lock = Free
    /\ closed' = TRUE
    /\ EmptyPool("close")
    /\ UNCHANGED <<aborting, nursery, shut, alive, wire>> /\ Others

StopWorker(x) ==
    /\ stop[x] = "closing"
    /\ \E w \in toClose[x] :
          CloseWorker(w) /\ toClose' = [toClose EXCEPT ![x] = @ \ {w}]
    /\ UNCHANGED <<pool, stop, nursery>> /\ Others

\* Workers die with their parent, the nursery (PR_SET_PDEATHSIG).
StopEnds(x) ==
    /\ stop[x] = "closing" /\ toClose[x] = {}
    /\ stop' = [stop EXCEPT ![x] = "done"]
    /\ IF x = "close" THEN nursery' = FALSE /\ alive' = {} ELSE UNCHANGED <<nursery, alive>>
    /\ UNCHANGED <<pool, toClose, shut, wire>> /\ Others

-----------------------------------------------------------------------------
(***************************************************************************)
(* The other processes: the nursery and the workers.                       *)
(***************************************************************************)
Gate == UNCHANGED <<lock, pool, thread, stopping, late>>

\* _zygote_main: one request, one worker, one answer.
Fork ==
    /\ nursery /\ asked > 0 /\ forked < MaxForks
    /\ asked' = asked - 1 /\ forked' = forked + 1
    /\ offered' = Append(offered, forked + 1)
    /\ alive' = alive \cup {forked + 1}
    /\ UNCHANGED <<nursery, shut, ready, wire, spoken>> /\ Gate

Boot(w) ==
    /\ w \in alive \ ready
    /\ ready' = ready \cup {w}
    /\ UNCHANGED <<spawning, shut, alive, wire, spoken>> /\ Gate

\* _run_tool: the request is run and answered.
RunTool(w) ==
    /\ w \in alive \cap ready /\ inbox[w] # <<>>
    /\ inbox' = [inbox EXCEPT ![w] = Tail(@)]
    /\ outbox' = [outbox EXCEPT ![w] = Append(@, [call |-> Head(inbox[w]), at |-> probes[w]])]
    /\ UNCHANGED <<spawning, process, probes, spoken>> /\ Gate

\* A worker that speaks unasked: the gate does not trust it.
Speak(w) ==
    /\ w \in alive \cap ready /\ spoken < MaxSpoken
    /\ spoken' = spoken + 1
    /\ outbox' = [outbox EXCEPT ![w] = Append(@, [call |-> None, at |-> probes[w]])]
    /\ UNCHANGED <<spawning, process, inbox, probes>> /\ Gate

\* A worker ends by itself: the tool, a limit, the kernel.
Die(w) ==
    /\ w \in alive \cap ready
    /\ alive' = alive \ {w}
    /\ UNCHANGED <<spawning, shut, ready, wire, spoken>> /\ Gate

SpawnSteps(s) == TakeWorker(s) \/ SpawnTimeout(s) \/ Register(s) \/ BootFails(s)
CallSteps(s) ==
    \/ CheckOpen(s) \/ SetTimeoutRaises(s) \/ Probe(s) \/ WriteRequest(s) \/ ReadReply(s)
    \/ CallTimeout(s) \/ FinishCall(s)
ThreadSteps(s) ==
    Ask(s) \/ SpawnSteps(s) \/ CallSteps(s) \/ Discard(s) \/ Release(s) \/ ReleaseClose(s)
StopperSteps(x) ==
    \/ x = "abort" /\ AbortCalls
    \/ x = "close" /\ Close
    \/ StopWorker(x) \/ StopEnds(x)
ProcessSteps == Fork \/ \E w \in Workers : Boot(w) \/ RunTool(w) \/ Speak(w) \/ Die(w)
ExecutorNext ==
    \/ \E s \in Sessions : ThreadSteps(s)
    \/ \E x \in Stoppers : StopperSteps(x)
    \/ ProcessSteps
=============================================================================
