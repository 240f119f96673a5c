------------------------------ MODULE Serving ------------------------------
(***************************************************************************)
(* The reference host at work (pep/host/server.py): the accept loop, the   *)
(* connection slots, one thread for each connection, the executor it calls *)
(* and releases, and the two ways to stop, serve_forever's and close()'s.  *)
(* A request that reaches the executor is the only kind modelled here; the *)
(* decision before it is HostHalt's, the drain of the log DenialLog's.     *)
(***************************************************************************)
EXTENDS Executor, Functions

VARIABLES
    stopFlag,       \* _stop
    accept,         \* the accept loop's step
    live,           \* _live
    phase           \* a connection's thread

servingVars == <<stopFlag, accept, live, phase>>
vars == <<executorVars, servingVars>>

Phases == {"new", "open", "serving", "closing", "freeing", "gone"}
Holding == {"open", "serving", "closing", "freeing"}       \* threads that hold a slot

Init ==
    /\ ExecutorInit
    /\ stopFlag = FALSE /\ accept = "accepting" /\ live = 0
    /\ phase = [s \in Sessions |-> "new"]

Enter(s, where) == phase' = [phase EXCEPT ![s] = where]

-----------------------------------------------------------------------------
(***************************************************************************)
(* The accept loop.                                                        *)
(***************************************************************************)
\* A slot and a thread, or a reply that there are too many connections.
Accept(s) ==
    /\ accept = "accepting" /\ phase[s] = "new"
    /\ \/ live < MaxWorkers /\ live' = live + 1 /\ Enter(s, "open")
       \/ live >= MaxWorkers /\ Enter(s, "gone") /\ UNCHANGED live
    /\ UNCHANGED <<executorVars, stopFlag, accept>>

\* The thread does not start: the slot goes back and the loop ends.
ThreadFails(s) ==
    /\ accept = "accepting" /\ phase[s] = "new" /\ live < MaxWorkers
    /\ Enter(s, "gone") /\ accept' = "ended"
    /\ UNCHANGED <<executorVars, stopFlag, live>>

RequestStop ==
    /\ ~stopFlag /\ stopFlag' = TRUE
    /\ UNCHANGED <<executorVars, accept, live, phase>>

AcceptEnds ==
    /\ accept = "accepting" /\ stopFlag
    /\ accept' = "ended"
    /\ UNCHANGED <<executorVars, stopFlag, live, phase>>

\* accept() raises, and no stop was asked for.
AcceptFails ==
    /\ accept = "accepting" /\ ~stopFlag
    /\ accept' = "ended"
    /\ UNCHANGED <<executorVars, stopFlag, live, phase>>

BeginStop(x) ==
    /\ stop[x] = "off"
    /\ stop' = [stop EXCEPT ![x] = "begun"]
    /\ UNCHANGED <<lock, pool, thread, toClose, spawning, process, wire, late, spoken>>

\* The end of serve_forever.
BeginAbort == accept = "ended" /\ BeginStop("abort") /\ UNCHANGED servingVars
\* close(), from another thread or once serve_forever has returned.
BeginClose ==
    /\ BeginStop("close") /\ stopFlag' = TRUE
    /\ UNCHANGED <<accept, live, phase>>

-----------------------------------------------------------------------------
(***************************************************************************)
(* A connection's thread: _serve_connection.                               *)
(***************************************************************************)
\* The session is opened and its line appended, or the append fails.
OpenSession(s) ==
    /\ phase[s] = "open"
    /\ Enter(s, "serving") \/ Enter(s, "closing")
    /\ UNCHANGED <<executorVars, stopFlag, accept, live>>

\* Calls not yet made, over all sessions.
MoreCalls == FoldFunction(+, 0, call) < MaxCalls

\* A request that was admitted calls its tool.
BeginCall(s) ==
    /\ phase[s] = "serving" /\ pc[s] = "idle"
    /\ ~stopFlag /\ MoreCalls
    /\ call' = [call EXCEPT ![s] = @ + 1]
    /\ GoTo(s, "ask")
    /\ UNCHANGED <<lock, pool, worker, taken, stopping, spawning, process, wire, late,
                   spoken, servingVars>>

\* The peer is gone or idle, the deadline passed, or the host stops.
HangUp(s) ==
    /\ phase[s] = "serving" /\ pc[s] = "idle"
    /\ Enter(s, "closing")
    /\ UNCHANGED <<executorVars, stopFlag, accept, live>>

\* _drop_session: the session is forgotten, its worker released.
DropSession(s) ==
    /\ phase[s] = "closing" /\ pc[s] = "idle"
    /\ GoTo(s, "release") /\ Enter(s, "freeing")
    /\ UNCHANGED <<lock, pool, call, worker, taken, stopping, spawning, process, wire,
                   late, spoken, stopFlag, accept, live>>

\* Mutant: the slot goes back while the worker is still there.
FreeSlotEarly(s) ==
    /\ phase[s] \in {"open", "freeing"}
    /\ live' = IF live > 0 THEN live - 1 ELSE live
    /\ Enter(s, "gone")
    /\ UNCHANGED <<executorVars, stopFlag, accept>>

\* _release_slot; a peer that was refused has no session to drop.
FreeSlot(s) ==
    /\ phase[s] = "open" \/ (phase[s] = "freeing" /\ pc[s] = "released")
    /\ live' = IF live > 0 THEN live - 1 ELSE live
    /\ Enter(s, "gone")
    /\ UNCHANGED <<executorVars, stopFlag, accept>>

Returning(s) == OpenSession(s) \/ HangUp(s) \/ DropSession(s) \/ FreeSlot(s)
Connection(s) == BeginCall(s) \/ Returning(s)
AcceptLoop ==
    AcceptEnds \/ AcceptFails \/ BeginAbort \/ \E s \in Sessions : Accept(s) \/ ThreadFails(s)
Executing(steps) == steps /\ UNCHANGED servingVars
Next ==
    \/ Executing(ExecutorNext)
    \/ \E s \in Sessions : Connection(s)
    \/ AcceptLoop \/ RequestStop \/ BeginClose

Spec == Init /\ [][Next]_vars

\* The gate's own threads run, deadlines pass, and a connection ends by its own;
\* clients, the nursery, the workers and the operator owe nothing.
LiveSpec ==
    /\ Spec
    /\ \A s \in Sessions : WF_vars(Executing(ThreadSteps(s)) \/ Returning(s))
    /\ WF_vars(AcceptEnds \/ BeginAbort \/ Executing(StopperSteps("abort")))
    /\ WF_vars(Executing(StopperSteps("close")))

-----------------------------------------------------------------------------
(* Every variable has its type. *)
TypeOK ==
    /\ lock \in Sessions \cup {Free} /\ closed \in BOOLEAN /\ aborting \in BOOLEAN
    /\ registered \in [Sessions -> Workers \cup {None}] /\ spare \in Workers \cup {None}
    /\ pc \in [Sessions -> Steps] /\ call \in [Sessions -> Nat]
    /\ worker \in [Sessions -> Workers \cup {None}]
    /\ stop \in [Stoppers -> {"off", "begun", "closing", "done"}]
    /\ toClose \in [Stoppers -> SUBSET Workers]
    /\ nursery \in BOOLEAN /\ asked \in Nat /\ offered \in Seq(Workers) /\ forked \in Workers
    /\ shut \in SUBSET Workers /\ alive \in SUBSET Workers /\ ready \in SUBSET Workers
    /\ inbox \in [Workers -> Seq(Calls)] /\ outbox \in [Workers -> Seq(Frames)]
    /\ probes \in [Workers -> Nat] /\ taken \in [Sessions -> Frames \cup {None}]
    /\ late \in Nat /\ spoken \in 0..MaxSpoken
    /\ stopFlag \in BOOLEAN /\ accept \in {"accepting", "ended"}
    /\ live \in Nat /\ phase \in [Sessions -> Phases]

-----------------------------------------------------------------------------
(***************************************************************************)
(* What the threads rely on.                                               *)
(***************************************************************************)
Holders == {s \in Sessions : phase[s] \in Holding}
SlotsCounted == live = Cardinality(Holders) /\ live <= MaxWorkers

\* A thread is inside the executor only in a call or in the release of its session.
ThreadsInPhase ==
    \A s \in Sessions :
        /\ pc[s] \in Spawning \cup Calling \cup {"ask", "discard"} => phase[s] = "serving"
        /\ pc[s] \in {"release", "halt"} => phase[s] = "freeing"
        /\ pc[s] = "released" => phase[s] \in {"freeing", "gone"}
        /\ phase[s] = "freeing" => pc[s] \in {"release", "halt", "released"}

\* A worker is registered for a session that still has its slot.
PoolFollowsSlots ==
    \A s \in Sessions : registered[s] # None =>
        \/ phase[s] \in {"serving", "closing"}
        \/ phase[s] = "freeing" /\ pc[s] = "release"

\* The lock is kept by the thread that spawns, and by no other.
LockIsSpawners ==
    /\ \A s \in Sessions : pc[s] \in Spawning <=> lock = s
    /\ lock # Free => ~closed /\ ~aborting /\ registered[lock] = None

StopsInStep ==
    /\ aborting <=> stop["abort"] \in {"closing", "done"}
    /\ closed <=> stop["close"] \in {"closing", "done"}
    /\ \A x \in Stoppers : toClose[x] # {} => stop[x] = "closing"
    /\ closed \/ aborting => spare = None /\ \A s \in Sessions : registered[s] = None

\* The workers the nursery has sent are the last it has forked, in their order.
Handed == forked - Len(offered)
QueueInOrder ==
    /\ Len(offered) < forked
    /\ \A i \in 1..Len(offered) : offered[i] = Handed + i

\* The gate works with none but those it has read, the first ones.
Received == 1..Handed
Leaving == toClose["abort"] \cup toClose["close"]
HandedOver ==
    /\ registered \in [Sessions -> Received \cup {None}]
    /\ worker \in [Sessions -> Received \cup {None}]
    /\ spare \in Received \cup {None}
    /\ shut \subseteq Received /\ Leaving \subseteq Received
    /\ alive \subseteq 1..forked
    /\ \A w \in Workers \ Received : inbox[w] = <<>>

\* No worker is two sessions', or a session's and the spare.
OwnWorkers ==
    /\ \A s, t \in Sessions : registered[s] # None /\ registered[s] = registered[t] => s = t
    /\ \A s \in Sessions : registered[s] # None => registered[s] # spare
    /\ \A s, t \in Sessions : pc[s] = "boot" => worker[s] # registered[t] /\ worker[s] # spare

\* The worker of a call is in the pool, closed, or about to be closed.
HandsKnown ==
    \A s \in Sessions :
        /\ pc[s] \in Calling =>
              worker[s] \in shut \cup Leaving \/ registered[s] = worker[s]
        /\ pc[s] \in Calling \cup {"boot", "halt", "discard"} => worker[s] # None
        /\ pc[s] = "discard" => worker[s] \in shut

\* A live worker with a request is in the pool or about to be closed.
Kept(w) ==
    \/ \E s \in Sessions : registered[s] = w
    \/ w \in Leaving
    \/ \E s \in Sessions : pc[s] = "halt" /\ worker[s] = w
ClosedAreGone == shut \cap alive = {}
BusyKnown == \A w \in alive : inbox[w] # <<>> => Kept(w)

(* The invariant of the serving host: a session has a worker of its own as *)
(* long as it has a slot and no longer, a stop leaves none in the pool,    *)
(* and a worker with a request to run is one that somebody will close      *)
(* (server.py:1243-1297, executor.py:201-284).                             *)
ServingInv ==
    /\ TypeOK
    /\ SlotsCounted /\ ThreadsInPhase /\ PoolFollowsSlots
    /\ LockIsSpawners /\ StopsInStep
    /\ QueueInOrder /\ HandedOver /\ OwnWorkers /\ HandsKnown /\ ClosedAreGone /\ BusyKnown

(* The reply a call takes was sent after the call had looked for frames    *)
(* nobody asked for; and while no worker sends such frames it answers that *)
(* call: the late answer to a call that timed out is never taken           *)
(* (executor.py:342-372).                                                  *)
AnswerIsOwn ==
    \A s \in Sessions : pc[s] = "after" =>
        /\ taken[s].at = probes[worker[s]]
        /\ spoken = 0 => taken[s].call = <<s, call[s]>>

(* Once abort_calls has returned, no tool runs or will run (executor.py:   *)
(* 211-220), except on a worker that close() or the end of a session took  *)
(* out of the pool first and has yet to close: nobody waits for that.      *)
NoToolOutlivesAbort ==
    stop["abort"] = "done" =>
        \A w \in alive : inbox[w] # <<>> =>
            w \in toClose["close"] \cup {worker[s] : s \in {t \in Sessions : pc[t] = "halt"}}

(* At most one live worker for each slot, and one more for each spawn that *)
(* the gate gave up before the nursery had answered: the pool's limit      *)
(* alone, which frees a place before the process is closed, does not say.  *)
LiveWorkersBounded == Cardinality(alive) <= MaxWorkers + late

(* A connection that has a slot is never refused a worker for the limit:   *)
(* slots are returned after their worker has left the pool.                *)
SlotMeansWorker == \A s \in Sessions : pc[s] = "ask" /\ lock = Free => ~AtLimit(s)

(***************************************************************************)
(* The executor under the host leases its workers as Leases says.  A       *)
(* session has its registered worker, and a call whose worker a stop took  *)
(* out of the pool keeps it until the worker is closed or the call ends.   *)
(***************************************************************************)
HandOf(s) ==
    IF Usable(registered[s]) THEN registered[s]
    ELSE IF pc[s] \in Calling /\ Usable(worker[s]) THEN worker[s] ELSE None
Booting == {worker[s] : s \in {t \in Sessions : pc[t] = "boot"}}
Unleased == ((Workers \ Received) \cup Booting \cup ({spare} \ {None})) \ shut
Requested ==
    {p \in Workers \X Sessions :
        p[1] \in alive /\ \E i \in DOMAIN inbox[p[1]] : inbox[p[1]][i][1] = p[2]}

Hands == [s \in Sessions |-> HandOf(s)]
TakesCalls == ~closed /\ ~aborting

Leased == INSTANCE Leases WITH
    hand <- Hands, fresh <- Unleased, pending <- Requested, open <- TakesCalls

ImplementsLeases == Leased!Spec

(* Every connection that was given a slot returns it, although its worker  *)
(* and the nursery may never answer; and a stop, by either path, closes    *)
(* every worker and comes to its end, although a spawn may hold the lock   *)
(* as it begins.                                                           *)
EverySlotAndStopReturns ==
    /\ \A s \in Sessions : phase[s] = "open" ~> phase[s] = "gone"
    /\ stopFlag ~> stop["abort"] = "done"
    /\ stop["close"] = "begun" ~> stop["close"] = "done"
=============================================================================
