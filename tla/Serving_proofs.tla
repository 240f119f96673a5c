--------------------------- MODULE Serving_proofs ---------------------------
(***************************************************************************)
(* Proofs about the serving host.  One inductive invariant, ServingInv, is *)
(* kept part by part; the safety theorems follow from it and from two      *)
(* invariants on top of it, one on a worker's wire (OnlyOwnOnWire) and one *)
(* on who accounts for the live workers (LiveInv).                         *)
(***************************************************************************)
EXTENDS Serving, FiniteSetTheorems, TLAPS

USE ExecutorAssumption
USE DEF Executing, executorVars, servingVars, vars, pool, thread, stopping, spawning, process,
        wire, GoTo, Return, Use, SetWorker, CloseWorker, Usable, Fresh, Shut, Pending,
        Advance, Leave, Fail, PassProbe, Others, EmptyPool, Gate, Enter, BeginStop

-----------------------------------------------------------------------------
(***************************************************************************)
(* Types.                                                                  *)
(***************************************************************************)
\* A worker that a thread or a stopper closes leaves the processes and the
\* wire with their types.
LEMMA CloseWorkerTypes ==
    ASSUME TypeOK, NEW w \in Workers, CloseWorker(w)
    PROVE  /\ shut' \in SUBSET Workers /\ alive' \in SUBSET Workers
           /\ inbox' \in [Workers -> Seq(Calls)] /\ outbox' \in [Workers -> Seq(Frames)]
           /\ probes' \in [Workers -> Nat]
<1>1. <<>> \in Seq(Calls) /\ <<>> \in Seq(Frames)
  OBVIOUS
<1> QED
  BY <1>1 DEF TypeOK

\* So does the failure of a call.
LEMMA FailTypes ==
    ASSUME TypeOK, NEW s \in Sessions, worker[s] \in Workers, Fail(s), UNCHANGED servingVars
    PROVE  TypeOK'
<1>1. CloseWorker(worker[s])
  BY DEF Fail
<1> HIDE DEF CloseWorker
<1>2. /\ shut' \in SUBSET Workers /\ alive' \in SUBSET Workers
      /\ inbox' \in [Workers -> Seq(Calls)] /\ outbox' \in [Workers -> Seq(Frames)]
      /\ probes' \in [Workers -> Nat]
  BY <1>1, CloseWorkerTypes
<1> QED
  BY <1>2 DEF TypeOK, Steps

\* A call has a worker.
LEMMA HandIsWorker ==
    ASSUME ServingInv, NEW s \in Sessions,
           pc[s] \in Calling \cup {"boot", "halt", "discard"}
    PROVE  worker[s] \in Workers
  BY DEF ServingInv, HandsKnown, TypeOK

LEMMA AskTypes ==
    ASSUME TypeOK, NEW s \in Sessions, Ask(s), UNCHANGED servingVars
    PROVE  TypeOK'
<1>1. CASE Aborted(s)
  BY <1>1 DEF Ask, Aborted, TypeOK, Steps
<1>2. CASE Reuse(s)
  BY <1>2 DEF Ask, Reuse, TypeOK, Steps
<1>3. CASE TakeSpare(s)
  BY <1>3 DEF Ask, TakeSpare, TypeOK, Steps
<1>4. CASE Refuse(s)
  BY <1>4 DEF Ask, Refuse, AtLimit, TypeOK, Steps
<1>5. CASE AskNursery(s)
  BY <1>5 DEF Ask, AskNursery, TypeOK, Steps
<1> QED
  BY <1>1, <1>2, <1>3, <1>4, <1>5 DEF Ask

LEMMA EmptyPoolTypes ==
    ASSUME TypeOK, NEW x \in Stoppers, EmptyPool(x)
    PROVE  /\ registered' \in [Sessions -> Workers \cup {None}]
           /\ spare' \in Workers \cup {None}
           /\ toClose' \in [Stoppers -> SUBSET Workers]
           /\ stop' \in [Stoppers -> {"off", "begun", "closing", "done"}]
<1>1. ({registered[s] : s \in Sessions} \cup {spare}) \ {None} \in SUBSET Workers
  BY DEF TypeOK
<1> QED
  BY <1>1 DEF TypeOK

\* The nursery's queue holds its workers in the order of their number.
LEMMA OfferedGrows ==
    ASSUME TypeOK, QueueInOrder, forked < MaxForks, offered' = Append(offered, forked + 1)
    PROVE  /\ forked + 1 \in Workers /\ offered' \in Seq(Workers)
           /\ Len(offered') = Len(offered) + 1
           /\ \A i \in 1..Len(offered') : offered'[i] = Handed + i
<1>1. forked + 1 \in Workers
  BY DEF TypeOK, Workers
<1>2. /\ offered' \in Seq(Workers) /\ Len(offered') = Len(offered) + 1
      /\ offered'[Len(offered) + 1] = forked + 1
      /\ \A i \in 1..Len(offered) : offered'[i] = offered[i]
  BY <1>1 DEF TypeOK
<1>3. Handed + Len(offered) + 1 = forked + 1
  BY DEF Handed, TypeOK, Workers
<1>4. \A i \in 1..Len(offered') : offered'[i] = Handed + i
  <2> TAKE i \in 1..Len(offered')
  <2>1. CASE i \in 1..Len(offered)
    BY <2>1, <1>2 DEF QueueInOrder
  <2>2. CASE i = Len(offered) + 1
    BY <2>2, <1>2, <1>3 DEF TypeOK, Handed, Workers
  <2> QED
    BY SMTT(20), <2>1, <2>2, <1>2 DEF TypeOK
<1> QED
  BY <1>1, <1>2, <1>4

LEMMA OfferedShrinks ==
    ASSUME TypeOK, QueueInOrder, offered # <<>>, offered' = Tail(offered)
    PROVE  /\ offered' \in Seq(Workers) /\ Len(offered') = Len(offered) - 1
           /\ Head(offered) \in Workers /\ Head(offered) = Handed + 1
           /\ \A i \in 1..Len(offered') : offered'[i] = Handed + 1 + i
<1>1. /\ offered' \in Seq(Workers) /\ Len(offered') = Len(offered) - 1
      /\ Head(offered) = offered[1] /\ Len(offered) >= 1
      /\ \A i \in 1..Len(offered') : offered'[i] = offered[i + 1]
  BY SMTT(20) DEF TypeOK
<1>2. Head(offered) = Handed + 1 /\ Head(offered) \in Workers
  BY <1>1 DEF QueueInOrder, TypeOK
<1>3. \A i \in 1..Len(offered') : offered'[i] = Handed + 1 + i
  <2> TAKE i \in 1..Len(offered')
  <2>1. i + 1 \in 1..Len(offered)
    BY <1>1 DEF TypeOK
  <2> QED
    BY <2>1, <1>1 DEF QueueInOrder, TypeOK, Handed, Workers
<1> QED
  BY <1>1, <1>2, <1>3

\* Every step keeps the types.
LEMMA TypesKept == ServingInv /\ [Next]_vars => TypeOK'
<1> SUFFICES ASSUME ServingInv, [Next]_vars PROVE TypeOK'
  OBVIOUS
<1>0. TypeOK /\ QueueInOrder
  BY DEF ServingInv
<1>1. ASSUME NEW s \in Sessions, Executing(Ask(s)) PROVE TypeOK'
  BY <1>0, <1>1, AskTypes
<1>2. ASSUME NEW s \in Sessions, Executing(TakeWorker(s)) PROVE TypeOK'
  <2>1. offered' \in Seq(Workers) /\ Head(offered) \in Workers
    BY <1>0, <1>2, OfferedShrinks DEF TakeWorker
  <2> QED
    BY <1>0, <1>2, <2>1 DEF TakeWorker, TypeOK, Steps
<1>3. ASSUME NEW s \in Sessions, Executing(SpawnTimeout(s)) PROVE TypeOK'
  BY <1>0, <1>3 DEF SpawnTimeout, TypeOK, Steps
<1>4. ASSUME NEW s \in Sessions, Executing(Register(s)) PROVE TypeOK'
  BY <1>0, <1>4 DEF Register, TypeOK, Steps
<1>5. ASSUME NEW s \in Sessions, Executing(BootFails(s)) PROVE TypeOK'
  BY <1>0, <1>5 DEF BootFails, TypeOK, Steps
<1>6. ASSUME NEW s \in Sessions, Fail(s), UNCHANGED servingVars,
             pc[s] \in {"probe", "write", "read", "after"}
      PROVE  TypeOK'
  BY <1>0, <1>6, FailTypes, HandIsWorker DEF Calling
<1>7. ASSUME NEW s \in Sessions, Executing(CheckOpen(s)) PROVE TypeOK'
  BY ZenonT(30), <1>0, <1>7 DEF CheckOpen, TypeOK, Steps
<1>8. ASSUME NEW s \in Sessions, Leave(s), UNCHANGED servingVars PROVE TypeOK'
  BY <1>0, <1>8 DEF TypeOK, Steps
<1>9. ASSUME NEW s \in Sessions, Executing(Probe(s)) PROVE TypeOK'
  <2>1. worker[s] \in Workers
    BY <1>9, HandIsWorker DEF Probe, Calling
  <2>2. CASE PassProbe(s)
    <3>1. probes' \in [Workers -> Nat]
      BY <1>0, <2>1, <2>2 DEF TypeOK
    <3> QED
      BY <1>0, <1>9, <2>2, <3>1 DEF TypeOK, Steps
  <2> QED
    BY <1>6, <1>9, <2>2 DEF Probe
<1>10. ASSUME NEW s \in Sessions, Executing(WriteRequest(s)) PROVE TypeOK'
  <2> HIDE DEF Fail
  <2>1. worker[s] \in Workers
    BY <1>10, HandIsWorker DEF WriteRequest, Calling
  <2>2. CASE ~Fail(s)
    <3>1. inbox' = [inbox EXCEPT ![worker[s]] = Append(@, <<s, call[s]>>)]
      BY <1>10, <2>2 DEF WriteRequest
    <3>2. <<s, call[s]>> \in Calls
      BY <1>0 DEF TypeOK, Calls
    <3>3. inbox' \in [Workers -> Seq(Calls)]
      BY <1>0, <2>1, <3>1, <3>2 DEF TypeOK
    <3> QED
      BY <1>0, <1>10, <2>2, <3>3 DEF WriteRequest, TypeOK, Steps
  <2> QED
    BY <1>6, <1>10, <2>2 DEF WriteRequest
<1>11. ASSUME NEW s \in Sessions, Executing(ReadReply(s)) PROVE TypeOK'
  <2> HIDE DEF Fail
  <2>1. worker[s] \in Workers
    BY <1>11, HandIsWorker DEF ReadReply, Calling
  <2>2. CASE ~Fail(s)
    <3>1. /\ outbox[worker[s]] # <<>> /\ outbox[worker[s]] \in Seq(Frames)
          /\ taken' = [taken EXCEPT ![s] = Head(outbox[worker[s]])]
          /\ outbox' = [outbox EXCEPT ![worker[s]] = Tail(@)]
      BY <1>0, <1>11, <2>1, <2>2 DEF ReadReply, TypeOK
    <3>2. Head(outbox[worker[s]]) \in Frames /\ Tail(outbox[worker[s]]) \in Seq(Frames)
      BY <3>1
    <3>3. outbox' \in [Workers -> Seq(Frames)] /\ taken' \in [Sessions -> Frames \cup {None}]
      BY <1>0, <2>1, <3>1, <3>2 DEF TypeOK
    <3> QED
      BY ZenonT(30), <1>0, <1>11, <2>2, <3>3 DEF ReadReply, TypeOK, Steps
  <2> QED
    BY <1>6, <1>11, <2>2 DEF ReadReply
<1>12. ASSUME NEW s \in Sessions, Executing(CallTimeout(s)) PROVE TypeOK'
  BY <1>6, <1>12 DEF CallTimeout
<1>13. ASSUME NEW s \in Sessions, Executing(FinishCall(s)) PROVE TypeOK'
  <2> HIDE DEF Fail, Leave
  <2> QED
    BY <1>6, <1>8, <1>13 DEF FinishCall
<1>14. ASSUME NEW s \in Sessions, Executing(Discard(s)) PROVE TypeOK'
  BY <1>0, <1>14 DEF Discard, TypeOK, Steps
<1>15. ASSUME NEW s \in Sessions, Executing(Release(s)) PROVE TypeOK'
  BY <1>0, <1>15 DEF Release, TypeOK, Steps
<1>16. ASSUME NEW s \in Sessions, Executing(ReleaseClose(s)) PROVE TypeOK'
  <2>1. worker[s] \in Workers /\ CloseWorker(worker[s])
    BY <1>16, HandIsWorker DEF ReleaseClose
  <2> HIDE DEF CloseWorker
  <2>2. /\ shut' \in SUBSET Workers /\ alive' \in SUBSET Workers
        /\ inbox' \in [Workers -> Seq(Calls)] /\ outbox' \in [Workers -> Seq(Frames)]
        /\ probes' \in [Workers -> Nat]
    BY <1>0, <2>1, CloseWorkerTypes
  <2> QED
    BY <1>0, <1>16, <2>2 DEF ReleaseClose, TypeOK, Steps
<1>17. ASSUME Executing(AbortCalls \/ Close) PROVE TypeOK'
  <2>1. PICK x \in Stoppers : EmptyPool(x)
    BY <1>17 DEF AbortCalls, Close, Stoppers
  <2> HIDE DEF EmptyPool
  <2>2. /\ registered' \in [Sessions -> Workers \cup {None}]
        /\ spare' \in Workers \cup {None}
        /\ toClose' \in [Stoppers -> SUBSET Workers]
        /\ stop' \in [Stoppers -> {"off", "begun", "closing", "done"}]
    BY <1>0, <2>1, EmptyPoolTypes
  <2> QED
    BY <1>0, <1>17, <2>2 DEF AbortCalls, Close, TypeOK
<1>18. ASSUME NEW x \in Stoppers, Executing(StopWorker(x)) PROVE TypeOK'
  <2>1. PICK w \in toClose[x] : CloseWorker(w) /\ toClose' = [toClose EXCEPT ![x] = @ \ {w}]
    BY <1>18 DEF StopWorker
  <2> HIDE DEF CloseWorker
  <2>2. /\ shut' \in SUBSET Workers /\ alive' \in SUBSET Workers
        /\ inbox' \in [Workers -> Seq(Calls)] /\ outbox' \in [Workers -> Seq(Frames)]
        /\ probes' \in [Workers -> Nat]
    BY <1>0, <2>1, CloseWorkerTypes DEF TypeOK
  <2> QED
    BY <1>0, <1>18, <2>1, <2>2 DEF StopWorker, TypeOK
<1>19. ASSUME NEW x \in Stoppers, Executing(StopEnds(x)) PROVE TypeOK'
  BY <1>0, <1>19 DEF StopEnds, TypeOK
<1>20. ASSUME Executing(Fork) PROVE TypeOK'
  <2>1. offered' \in Seq(Workers) /\ forked + 1 \in Workers
    BY <1>0, <1>20, OfferedGrows DEF Fork
  <2> QED
    BY SMTT(20), <1>0, <1>20, <2>1 DEF Fork, TypeOK
<1>21. ASSUME NEW w \in Workers, Executing(Boot(w) \/ Die(w)) PROVE TypeOK'
  BY <1>0, <1>21 DEF Boot, Die, TypeOK
<1>22. ASSUME NEW w \in Workers, Executing(RunTool(w)) PROVE TypeOK'
  <2>1. inbox[w] # <<>> /\ inbox[w] \in Seq(Calls) /\ outbox[w] \in Seq(Frames)
    BY <1>0, <1>22 DEF RunTool, TypeOK
  <2>2. Tail(inbox[w]) \in Seq(Calls) /\ [call |-> Head(inbox[w]), at |-> probes[w]] \in Frames
    BY <1>0, <2>1 DEF Frames, TypeOK
  <2>3. Append(outbox[w], [call |-> Head(inbox[w]), at |-> probes[w]]) \in Seq(Frames)
    BY <2>1, <2>2
  <2>4. inbox' \in [Workers -> Seq(Calls)] /\ outbox' \in [Workers -> Seq(Frames)]
    BY <1>0, <1>22, <2>2, <2>3 DEF RunTool, TypeOK
  <2> QED
    BY <1>0, <1>22, <2>4 DEF RunTool, TypeOK
<1>23. ASSUME NEW w \in Workers, Executing(Speak(w)) PROVE TypeOK'
  <2>1. outbox[w] \in Seq(Frames) /\ [call |-> None, at |-> probes[w]] \in Frames
    BY <1>0 DEF Frames, TypeOK
  <2>2. Append(outbox[w], [call |-> None, at |-> probes[w]]) \in Seq(Frames)
    BY <2>1
  <2>3. outbox' \in [Workers -> Seq(Frames)]
    BY <1>0, <1>23, <2>2 DEF Speak, TypeOK
  <2> QED
    BY SMTT(20), <1>0, <1>23, <2>3 DEF Speak, TypeOK
<1>24. ASSUME NEW s \in Sessions, Accept(s) \/ ThreadFails(s) PROVE TypeOK'
  <2>1. live' \in Nat
    BY <1>0, <1>24 DEF Accept, ThreadFails, TypeOK
  <2> QED
    BY <1>0, <1>24, <2>1 DEF Accept, ThreadFails, TypeOK, Phases
<1>25. ASSUME NEW s \in Sessions, OpenSession(s) \/ HangUp(s) \/ DropSession(s) PROVE TypeOK'
  BY ZenonT(30), <1>0, <1>25 DEF OpenSession, HangUp, DropSession, TypeOK, Phases, Steps
<1>26. ASSUME NEW s \in Sessions, BeginCall(s) PROVE TypeOK'
  BY SMTT(20), <1>0, <1>26 DEF BeginCall, TypeOK, Steps
<1>27. ASSUME NEW s \in Sessions, FreeSlot(s) PROVE TypeOK'
  BY <1>0, <1>27 DEF FreeSlot, TypeOK, Phases
<1>28. CASE RequestStop \/ AcceptEnds \/ AcceptFails \/ BeginAbort \/ BeginClose
  BY ZenonT(30), <1>0, <1>28 DEF RequestStop, AcceptEnds, AcceptFails, BeginAbort, BeginClose, TypeOK, Stoppers
<1>29. CASE UNCHANGED vars
  BY <1>0, <1>29 DEF TypeOK
<1> QED
  BY <1>1, <1>2, <1>3, <1>4, <1>5, <1>7, <1>8, <1>9, <1>10, <1>11, <1>12, <1>13, <1>14,
     <1>15, <1>16, <1>17, <1>18, <1>19, <1>20, <1>21, <1>22, <1>23, <1>24, <1>25, <1>26,
     <1>27, <1>28, <1>29
  DEF Next, ExecutorNext, ThreadSteps, SpawnSteps, CallSteps, StopperSteps, ProcessSteps,
      Connection, Returning, AcceptLoop, SetTimeoutRaises

-----------------------------------------------------------------------------
(***************************************************************************)
(* What a step can be.  A step of a call has one of three outcomes: the    *)
(* call goes on, its worker is closed, or it returns.                      *)
(***************************************************************************)
NoNewRequest == \A w \in Workers : inbox[w] = <<>> => inbox'[w] = <<>>

Goes(s) ==
    /\ pc[s] \in Calling
    /\ \E to \in Calling : GoTo(s, to)
    /\ \A w \in Workers : inbox[w] = <<>> => inbox'[w] = <<>> \/ w = worker[s]
    /\ UNCHANGED <<lock, pool, worker, stopping, spawning, process>>

Fails(s) ==
    /\ pc[s] \in Calling /\ GoTo(s, "discard")
    /\ shut' = shut \cup {worker[s]} /\ alive' = alive \ {worker[s]}
    /\ NoNewRequest
    /\ UNCHANGED <<lock, pool, worker, stopping, spawning>>

Returns(s) ==
    /\ pc[s] \in Calling /\ Return(s) /\ inbox' = inbox
    /\ UNCHANGED <<lock, pool, stopping, spawning, process>>

LEMMA FailsOutcome ==
    ASSUME ServingInv, NEW s \in Sessions, pc[s] \in Calling, Fail(s)
    PROVE  Fails(s)
<1>1. NoNewRequest
  BY DEF NoNewRequest, ServingInv, TypeOK
<1> QED
  BY <1>1 DEF Fails

LEMMA CallOutcome ==
    ASSUME ServingInv, NEW s \in Sessions, CallSteps(s)
    PROVE  Goes(s) \/ Fails(s) \/ Returns(s)
<1>1. ASSUME Fail(s), pc[s] \in {"probe", "write", "read", "after"} PROVE Fails(s)
  BY <1>1, FailsOutcome DEF Calling
<1>2. ASSUME Leave(s), pc[s] \in {"probe", "after"} PROVE Returns(s)
  BY <1>2 DEF Returns, Calling
<1>3. ASSUME NEW to \in Calling, Advance(s, to), pc[s] \in Calling, inbox' = inbox
      PROVE  Goes(s)
  BY <1>3 DEF Goes
<1>4. CASE CheckOpen(s)
  <2>1. CASE ~Shut(s)
    BY <1>3, <1>4, <2>1 DEF CheckOpen, Calling
  <2>2. CASE Shut(s)
    BY <1>4, <2>2 DEF CheckOpen, Calling, Fails, NoNewRequest, ServingInv, ClosedAreGone
  <2> QED
    BY <2>1, <2>2
<1>5. CASE WriteRequest(s)
  <2> HIDE DEF Fail
  <2>1. CASE ~Fail(s)
    BY <1>5, <2>1 DEF WriteRequest, Calling, Goes, ServingInv, TypeOK
  <2> QED
    BY <1>1, <1>5, <2>1 DEF WriteRequest
<1>6. CASE Probe(s) \/ ReadReply(s) \/ CallTimeout(s) \/ FinishCall(s) \/ SetTimeoutRaises(s)
  <2>1. "write" \in Calling /\ "after" \in Calling
    BY DEF Calling
  <2>2. pc[s] \in Calling
    BY <1>6 DEF Probe, ReadReply, CallTimeout, FinishCall, SetTimeoutRaises, Calling
  <2> HIDE DEF Fail, Leave, Advance
  <2> QED
    BY <1>1, <1>2, <1>3, <1>6, <2>1, <2>2
    DEF Probe, ReadReply, CallTimeout, FinishCall, SetTimeoutRaises
<1> QED
  BY <1>4, <1>5, <1>6 DEF CallSteps

\* A process other than the gate's changes nothing of the gate, and none but the
\* nursery brings a worker to life.
Works ==
    /\ alive' \subseteq alive /\ NoNewRequest
    /\ UNCHANGED <<lock, pool, thread, stopping, spawning, shut>>

LEMMA ProcessOutcome ==
    ASSUME ServingInv, ProcessSteps
    PROVE  Fork \/ Works
<1>1. ASSUME NEW w \in Workers, Boot(w) \/ Speak(w) \/ Die(w) PROVE Works
  BY <1>1 DEF Boot, Speak, Die, Works, NoNewRequest
<1>2. ASSUME NEW w \in Workers, RunTool(w) PROVE Works
  <2>1. NoNewRequest
    BY <1>2 DEF RunTool, NoNewRequest, ServingInv, TypeOK
  <2> QED
    BY <1>2, <2>1 DEF RunTool, Works
<1> QED
  BY <1>1, <1>2 DEF ProcessSteps

LEMMA NoneIsNoWorker == None \notin Workers
  BY DEF Workers

\* The steps, by what they do to the executor.
LEMMA StepKinds ==
    ASSUME ServingInv, [Next]_vars
    PROVE  \/ /\ UNCHANGED servingVars
              /\ \/ \E s \in Sessions :
                       \/ Ask(s) \/ SpawnSteps(s) \/ Goes(s) \/ Fails(s) \/ Returns(s)
                       \/ Discard(s) \/ Release(s) \/ ReleaseClose(s)
                 \/ AbortCalls \/ Close
                 \/ \E x \in Stoppers : StopWorker(x) \/ StopEnds(x)
                 \/ Fork \/ Works
           \/ \E s \in Sessions : BeginCall(s) \/ DropSession(s)
           \/ UNCHANGED executorVars
              /\ \/ \E s \in Sessions :
                       Accept(s) \/ ThreadFails(s) \/ OpenSession(s) \/ HangUp(s) \/ FreeSlot(s)
                 \/ UNCHANGED <<live, phase>>
           \/ BeginAbort \/ BeginClose
  BY CallOutcome, ProcessOutcome
  DEF Next, ExecutorNext, ThreadSteps, StopperSteps, Connection, Returning, AcceptLoop,
      Accept, ThreadFails, OpenSession, HangUp, FreeSlot, RequestStop, AcceptEnds, AcceptFails

-----------------------------------------------------------------------------
(***************************************************************************)
(* The parts of the invariant, one by one.                                 *)
(***************************************************************************)
\* A slot is counted for each thread that holds one.
LEMMA SlotsCountedKept == ServingInv /\ [Next]_vars => SlotsCounted'
<1> SUFFICES ASSUME ServingInv, [Next]_vars PROVE SlotsCounted'
  OBVIOUS
<1>a. /\ phase \in [Sessions -> Phases] /\ live \in Nat
      /\ live = Cardinality(Holders) /\ live <= MaxWorkers
  BY DEF ServingInv, TypeOK, SlotsCounted
<1>b. IsFiniteSet(Holders)
  BY FS_Subset DEF Holders
<1>1. ASSUME Holders' = Holders, live' = live PROVE SlotsCounted'
  BY <1>a, <1>1 DEF SlotsCounted
<1>2. ASSUME NEW s \in Sessions, Accept(s) PROVE SlotsCounted'
  <2>1. CASE live < MaxWorkers /\ live' = live + 1 /\ Enter(s, "open")
    <3>1. s \notin Holders /\ Holders' = Holders \cup {s}
      BY <1>a, <1>2, <2>1 DEF Accept, Holders, Holding
    <3>2. Cardinality(Holders') = live + 1
      BY <1>a, <1>b, <3>1, FS_AddElement
    <3> QED
      BY <1>a, <2>1, <3>2 DEF SlotsCounted
  <2>2. CASE Enter(s, "gone") /\ UNCHANGED live
    BY <1>a, <1>1, <1>2, <2>2 DEF Accept, Holders, Holding
  <2> QED
    BY <1>2, <2>1, <2>2 DEF Accept
<1>3. ASSUME NEW s \in Sessions, FreeSlot(s) PROVE SlotsCounted'
  <2>1. s \in Holders /\ Holders' = Holders \ {s}
    BY <1>a, <1>3 DEF FreeSlot, Holders, Holding
  <2>2. Cardinality(Holders') = live - 1 /\ live > 0
    <3>1. Cardinality(Holders \ {s}) = Cardinality(Holders) - 1
      BY <1>b, <2>1, FS_RemoveElement
    <3>2. IsFiniteSet(Holders \ {s})
      BY <1>b, FS_Subset
    <3>3. Cardinality(Holders \ {s}) \in Nat
      BY <3>2, FS_CardinalityType
    <3> QED
      BY <1>a, <2>1, <3>1, <3>3
  <2>3. live' = live - 1
    BY <1>3, <2>2 DEF FreeSlot
  <2> QED
    BY <1>a, <2>2, <2>3 DEF SlotsCounted
<1>4. ASSUME NEW s \in Sessions, ThreadFails(s) \/ OpenSession(s) \/ HangUp(s) \/ DropSession(s)
      PROVE  SlotsCounted'
  <2>1. Holders' = Holders
    BY <1>a, <1>4 DEF ThreadFails, OpenSession, HangUp, DropSession, Holders, Holding
  <2> QED
    BY <1>1, <1>4, <2>1 DEF ThreadFails, OpenSession, HangUp, DropSession
<1>5. CASE UNCHANGED <<live, phase>>
  BY <1>1, <1>5 DEF Holders
<1> QED
  BY StepKinds, <1>2, <1>3, <1>4, <1>5 DEF BeginCall, BeginAbort, BeginClose

\* A thread is in the executor only in the phase of its connection that calls it.
LEMMA ThreadsInPhaseKept == ServingInv /\ [Next]_vars => ThreadsInPhase'
<1> SUFFICES ASSUME ServingInv, [Next]_vars PROVE ThreadsInPhase'
  OBVIOUS
<1>a. /\ ThreadsInPhase
      /\ pc \in [Sessions -> Steps]
      /\ phase \in [Sessions -> Phases]
  BY DEF ServingInv, TypeOK
<1>1. ASSUME NEW s \in Sessions, Ask(s), UNCHANGED servingVars PROVE ThreadsInPhase'
  BY <1>a, <1>1 DEF ThreadsInPhase, Ask, Aborted, Reuse, TakeSpare, Refuse, AskNursery
<1>2. ASSUME NEW s \in Sessions, SpawnSteps(s), UNCHANGED servingVars PROVE ThreadsInPhase'
  BY <1>a, <1>2 DEF ThreadsInPhase, Spawning, Calling, SpawnSteps, TakeWorker,
    SpawnTimeout, Register, BootFails
<1>3. ASSUME NEW s \in Sessions, Goes(s), UNCHANGED servingVars PROVE ThreadsInPhase'
  BY <1>a, <1>3 DEF ThreadsInPhase, Goes, Calling
<1>4. ASSUME NEW s \in Sessions, Fails(s), UNCHANGED servingVars PROVE ThreadsInPhase'
  BY <1>a, <1>4 DEF ThreadsInPhase, Fails, Calling, NoNewRequest
<1>5. ASSUME NEW s \in Sessions, Returns(s), UNCHANGED servingVars PROVE ThreadsInPhase'
  BY <1>a, <1>5 DEF ThreadsInPhase, Returns, Calling
<1>6. ASSUME NEW s \in Sessions, Discard(s), UNCHANGED servingVars PROVE ThreadsInPhase'
  BY <1>a, <1>6 DEF ThreadsInPhase, Discard
<1>7. ASSUME NEW s \in Sessions, Release(s), UNCHANGED servingVars PROVE ThreadsInPhase'
  BY <1>a, <1>7 DEF ThreadsInPhase, Spawning, Calling, Release
<1>8. ASSUME NEW s \in Sessions, ReleaseClose(s), UNCHANGED servingVars
      PROVE  ThreadsInPhase'
  BY <1>a, <1>8 DEF ThreadsInPhase, Spawning, Calling, ReleaseClose
<1>9. ASSUME AbortCalls \/ Close, UNCHANGED servingVars PROVE ThreadsInPhase'
  BY <1>a, <1>9 DEF ThreadsInPhase, AbortCalls, Close
<1>10. ASSUME NEW x \in Stoppers, StopWorker(x), UNCHANGED servingVars
       PROVE  ThreadsInPhase'
  BY <1>a, <1>10 DEF ThreadsInPhase, StopWorker
<1>11. ASSUME NEW x \in Stoppers, StopEnds(x), UNCHANGED servingVars PROVE ThreadsInPhase'
  BY <1>a, <1>11 DEF ThreadsInPhase, StopEnds
<1>12. ASSUME Fork, UNCHANGED servingVars PROVE ThreadsInPhase'
  BY <1>a, <1>12 DEF ThreadsInPhase, Fork
<1>13. ASSUME Works, UNCHANGED servingVars PROVE ThreadsInPhase'
  BY <1>a, <1>13 DEF ThreadsInPhase, Works
<1>14. ASSUME NEW s \in Sessions, BeginCall(s) \/ DropSession(s) PROVE ThreadsInPhase'
  BY <1>a, <1>14 DEF ThreadsInPhase, Spawning, Calling, BeginCall, DropSession
<1>15. ASSUME BeginAbort \/ BeginClose PROVE ThreadsInPhase'
  BY <1>a, <1>15 DEF ThreadsInPhase, BeginAbort, BeginClose
<1>16. ASSUME NEW s \in Sessions,
              Accept(s) \/ ThreadFails(s) \/ OpenSession(s) \/ HangUp(s) \/ FreeSlot(s)
       PROVE  ThreadsInPhase'
  BY <1>a, <1>16 DEF ThreadsInPhase, Spawning, Calling, Accept, ThreadFails, OpenSession,
    HangUp, FreeSlot
<1>17. ASSUME UNCHANGED <<executorVars, live, phase>> PROVE ThreadsInPhase'
  BY <1>a, <1>17 DEF ThreadsInPhase
<1> QED
  BY StepKinds, <1>1, <1>2, <1>3, <1>4, <1>5, <1>6, <1>7, <1>8, <1>9, <1>10, <1>11, <1>12,
    <1>13, <1>14, <1>15, <1>16, <1>17

\* A session without a slot has no worker in the pool.
LEMMA PoolFollowsSlotsKept == ServingInv /\ [Next]_vars => PoolFollowsSlots'
<1> SUFFICES ASSUME ServingInv, [Next]_vars PROVE PoolFollowsSlots'
  OBVIOUS
<1>a. /\ PoolFollowsSlots /\ ThreadsInPhase
      /\ pc \in [Sessions -> Steps]
      /\ phase \in [Sessions -> Phases]
      /\ registered \in [Sessions -> Workers \cup {None}]
  BY DEF ServingInv, TypeOK
<1>1. ASSUME NEW s \in Sessions, Ask(s), UNCHANGED servingVars PROVE PoolFollowsSlots'
  BY <1>a, <1>1 DEF PoolFollowsSlots, ThreadsInPhase, Spawning, Calling, Ask, Aborted,
    Reuse, TakeSpare, Refuse, AskNursery
<1>2. ASSUME NEW s \in Sessions, SpawnSteps(s), UNCHANGED servingVars
      PROVE  PoolFollowsSlots'
  BY <1>a, <1>2 DEF PoolFollowsSlots, ThreadsInPhase, Spawning, Calling, SpawnSteps,
    TakeWorker, SpawnTimeout, Register, BootFails
<1>3. ASSUME NEW s \in Sessions, Goes(s), UNCHANGED servingVars PROVE PoolFollowsSlots'
  BY <1>a, <1>3 DEF PoolFollowsSlots, Goes, Calling
<1>4. ASSUME NEW s \in Sessions, Fails(s), UNCHANGED servingVars PROVE PoolFollowsSlots'
  BY <1>a, <1>4 DEF PoolFollowsSlots, Fails, Calling, NoNewRequest
<1>5. ASSUME NEW s \in Sessions, Returns(s), UNCHANGED servingVars PROVE PoolFollowsSlots'
  BY <1>a, <1>5 DEF PoolFollowsSlots, Returns, Calling
<1>6. ASSUME NEW s \in Sessions, Discard(s), UNCHANGED servingVars PROVE PoolFollowsSlots'
  BY <1>a, <1>6 DEF PoolFollowsSlots, Discard
<1>7. ASSUME NEW s \in Sessions, Release(s), UNCHANGED servingVars PROVE PoolFollowsSlots'
  BY <1>a, <1>7 DEF PoolFollowsSlots, Release
<1>8. ASSUME NEW s \in Sessions, ReleaseClose(s), UNCHANGED servingVars
      PROVE  PoolFollowsSlots'
  BY <1>a, <1>8 DEF PoolFollowsSlots, ReleaseClose
<1>9. ASSUME AbortCalls \/ Close, UNCHANGED servingVars PROVE PoolFollowsSlots'
  BY <1>a, <1>9 DEF PoolFollowsSlots, AbortCalls, Close
<1>10. ASSUME NEW x \in Stoppers, StopWorker(x), UNCHANGED servingVars
       PROVE  PoolFollowsSlots'
  BY <1>a, <1>10 DEF PoolFollowsSlots, StopWorker
<1>11. ASSUME NEW x \in Stoppers, StopEnds(x), UNCHANGED servingVars
       PROVE  PoolFollowsSlots'
  BY <1>a, <1>11 DEF PoolFollowsSlots, StopEnds
<1>12. ASSUME Fork, UNCHANGED servingVars PROVE PoolFollowsSlots'
  BY <1>a, <1>12 DEF PoolFollowsSlots, Fork
<1>13. ASSUME Works, UNCHANGED servingVars PROVE PoolFollowsSlots'
  BY <1>a, <1>13 DEF PoolFollowsSlots, Works
<1>14. ASSUME NEW s \in Sessions, BeginCall(s) \/ DropSession(s) PROVE PoolFollowsSlots'
  BY <1>a, <1>14 DEF PoolFollowsSlots, BeginCall, DropSession
<1>15. ASSUME BeginAbort \/ BeginClose PROVE PoolFollowsSlots'
  BY <1>a, <1>15 DEF PoolFollowsSlots, BeginAbort, BeginClose
<1>16. ASSUME NEW s \in Sessions,
              Accept(s) \/ ThreadFails(s) \/ OpenSession(s) \/ HangUp(s) \/ FreeSlot(s)
       PROVE  PoolFollowsSlots'
  BY <1>a, <1>16 DEF PoolFollowsSlots, Accept, ThreadFails, OpenSession, HangUp, FreeSlot
<1>17. ASSUME UNCHANGED <<executorVars, live, phase>> PROVE PoolFollowsSlots'
  BY <1>a, <1>17 DEF PoolFollowsSlots
<1> QED
  BY StepKinds, <1>1, <1>2, <1>3, <1>4, <1>5, <1>6, <1>7, <1>8, <1>9, <1>10, <1>11, <1>12,
    <1>13, <1>14, <1>15, <1>16, <1>17

\* The lock is the spawning thread's, and nobody stops the host meanwhile.
LEMMA LockIsSpawnersKept == ServingInv /\ [Next]_vars => LockIsSpawners'
<1> SUFFICES ASSUME ServingInv, [Next]_vars PROVE LockIsSpawners'
  OBVIOUS
<1>a. /\ LockIsSpawners
      /\ pc \in [Sessions -> Steps]
      /\ registered \in [Sessions -> Workers \cup {None}]
      /\ lock \in Sessions \cup {Free}
  BY DEF ServingInv, TypeOK
<1>1. ASSUME NEW s \in Sessions, Ask(s) PROVE LockIsSpawners'
  BY <1>a, <1>1 DEF LockIsSpawners, Spawning, Ask, Aborted, Reuse, TakeSpare, Refuse,
    AskNursery
<1>2. ASSUME NEW s \in Sessions, SpawnSteps(s) PROVE LockIsSpawners'
  <2>1. CASE TakeWorker(s)
    BY <1>a, <1>2, <2>1 DEF LockIsSpawners, Spawning, SpawnSteps, TakeWorker
  <2>2. CASE SpawnTimeout(s)
    BY <1>a, <1>2, <2>2 DEF LockIsSpawners, Spawning, SpawnSteps, SpawnTimeout
  <2>3. CASE Register(s)
    BY <1>a, <1>2, <2>3 DEF LockIsSpawners, Spawning, SpawnSteps, Register
  <2>4. CASE BootFails(s)
    BY <1>a, <1>2, <2>4 DEF LockIsSpawners, Spawning, SpawnSteps, BootFails
  <2> QED
    BY <1>2, <2>1, <2>2, <2>3, <2>4 DEF SpawnSteps
<1>3. ASSUME NEW s \in Sessions, Goes(s) PROVE LockIsSpawners'
  BY <1>a, <1>3 DEF LockIsSpawners, Spawning, Goes, Calling
<1>4. ASSUME NEW s \in Sessions, Fails(s) PROVE LockIsSpawners'
  BY <1>a, <1>4 DEF LockIsSpawners, Spawning, Fails, Calling, NoNewRequest
<1>5. ASSUME NEW s \in Sessions, Returns(s) PROVE LockIsSpawners'
  BY <1>a, <1>5 DEF LockIsSpawners, Spawning, Returns, Calling
<1>6. ASSUME NEW s \in Sessions, Discard(s) PROVE LockIsSpawners'
  BY <1>a, <1>6 DEF LockIsSpawners, Spawning, Discard
<1>7. ASSUME NEW s \in Sessions, Release(s) PROVE LockIsSpawners'
  BY <1>a, <1>7 DEF LockIsSpawners, Spawning, Release
<1>8. ASSUME NEW s \in Sessions, ReleaseClose(s) PROVE LockIsSpawners'
  BY <1>a, <1>8 DEF LockIsSpawners, Spawning, ReleaseClose
<1>9. ASSUME AbortCalls \/ Close PROVE LockIsSpawners'
  BY <1>a, <1>9 DEF LockIsSpawners, AbortCalls, Close
<1>10. ASSUME NEW x \in Stoppers, StopWorker(x) PROVE LockIsSpawners'
  BY <1>a, <1>10 DEF LockIsSpawners, StopWorker
<1>11. ASSUME NEW x \in Stoppers, StopEnds(x) PROVE LockIsSpawners'
  BY <1>a, <1>11 DEF LockIsSpawners, StopEnds
<1>12. ASSUME Fork PROVE LockIsSpawners'
  BY <1>a, <1>12 DEF LockIsSpawners, Fork
<1>13. ASSUME Works PROVE LockIsSpawners'
  BY <1>a, <1>13 DEF LockIsSpawners, Works
<1>14. ASSUME NEW s \in Sessions, BeginCall(s) \/ DropSession(s) PROVE LockIsSpawners'
  BY <1>a, <1>14 DEF LockIsSpawners, Spawning, BeginCall, DropSession
<1>15. ASSUME BeginAbort \/ BeginClose PROVE LockIsSpawners'
  BY <1>a, <1>15 DEF LockIsSpawners, BeginAbort, BeginClose
<1>16. ASSUME UNCHANGED executorVars PROVE LockIsSpawners'
  BY <1>a, <1>16 DEF LockIsSpawners
<1> QED
  BY StepKinds, <1>1, <1>2, <1>3, <1>4, <1>5, <1>6, <1>7, <1>8, <1>9, <1>10, <1>11, <1>12,
    <1>13, <1>14, <1>15, <1>16

\* A stop that has begun to close workers has emptied the pool, for good.
LEMMA StopsInStepKept == ServingInv /\ [Next]_vars => StopsInStep'
<1> SUFFICES ASSUME ServingInv, [Next]_vars PROVE StopsInStep'
  OBVIOUS
<1>a. /\ StopsInStep /\ LockIsSpawners
      /\ pc \in [Sessions -> Steps]
      /\ registered \in [Sessions -> Workers \cup {None}]
      /\ lock \in Sessions \cup {Free}
      /\ stop \in [Stoppers -> {"off", "begun", "closing", "done"}]
      /\ toClose \in [Stoppers -> SUBSET Workers]
      /\ spare \in Workers \cup {None}
  BY DEF ServingInv, TypeOK
<1>1. ASSUME NEW s \in Sessions, Ask(s) PROVE StopsInStep'
  BY <1>a, <1>1 DEF StopsInStep, Ask, Aborted, Reuse, TakeSpare, Refuse, AskNursery
<1>2. ASSUME NEW s \in Sessions, SpawnSteps(s) PROVE StopsInStep'
  BY <1>a, <1>2 DEF StopsInStep, LockIsSpawners, Spawning, Stoppers, SpawnSteps,
    TakeWorker, SpawnTimeout, Register, BootFails
<1>3. ASSUME NEW s \in Sessions, Goes(s) PROVE StopsInStep'
  BY <1>a, <1>3 DEF StopsInStep, Goes, Calling
<1>4. ASSUME NEW s \in Sessions, Fails(s) PROVE StopsInStep'
  BY <1>a, <1>4 DEF StopsInStep, Fails, Calling, NoNewRequest
<1>5. ASSUME NEW s \in Sessions, Returns(s) PROVE StopsInStep'
  BY <1>a, <1>5 DEF StopsInStep, Returns, Calling
<1>6. ASSUME NEW s \in Sessions, Discard(s) PROVE StopsInStep'
  BY <1>a, <1>6 DEF StopsInStep, Discard
<1>7. ASSUME NEW s \in Sessions, Release(s) PROVE StopsInStep'
  BY <1>a, <1>7 DEF StopsInStep, Release
<1>8. ASSUME NEW s \in Sessions, ReleaseClose(s) PROVE StopsInStep'
  BY <1>a, <1>8 DEF StopsInStep, ReleaseClose
<1>9. ASSUME AbortCalls \/ Close PROVE StopsInStep'
  <2>1. CASE AbortCalls
    BY <1>a, <1>9, <2>1 DEF StopsInStep, Spawning, Stoppers, AbortCalls
  <2>2. CASE Close
    BY <1>a, <1>9, <2>2 DEF StopsInStep, Spawning, Stoppers, Close
  <2> QED
    BY <1>9, <2>1, <2>2
<1>10. ASSUME NEW x \in Stoppers, StopWorker(x) PROVE StopsInStep'
  BY <1>a, <1>10 DEF StopsInStep, StopWorker
<1>11. ASSUME NEW x \in Stoppers, StopEnds(x) PROVE StopsInStep'
  BY <1>a, <1>11 DEF StopsInStep, StopEnds
<1>12. ASSUME Fork PROVE StopsInStep'
  BY <1>a, <1>12 DEF StopsInStep, Fork
<1>13. ASSUME Works PROVE StopsInStep'
  BY <1>a, <1>13 DEF StopsInStep, Works
<1>14. ASSUME NEW s \in Sessions, BeginCall(s) \/ DropSession(s) PROVE StopsInStep'
  BY <1>a, <1>14 DEF StopsInStep, BeginCall, DropSession
<1>15. ASSUME BeginAbort \/ BeginClose PROVE StopsInStep'
  BY <1>a, <1>15 DEF StopsInStep, Spawning, Stoppers, BeginAbort, BeginClose
<1>16. ASSUME UNCHANGED executorVars PROVE StopsInStep'
  BY <1>a, <1>16 DEF StopsInStep
<1> QED
  BY StepKinds, <1>1, <1>2, <1>3, <1>4, <1>5, <1>6, <1>7, <1>8, <1>9, <1>10, <1>11, <1>12,
    <1>13, <1>14, <1>15, <1>16

\* The nursery's answers stay in order.
LEMMA QueueInOrderKept == ServingInv /\ [Next]_vars => QueueInOrder'
<1> SUFFICES ASSUME ServingInv, [Next]_vars PROVE QueueInOrder'
  OBVIOUS
<1>a. QueueInOrder /\ TypeOK
  BY DEF ServingInv, TypeOK
<1>b. forked \in Int /\ Len(offered) \in Nat
  BY <1>a DEF TypeOK, Workers
<1>c. UNCHANGED <<forked, offered>> => QueueInOrder'
  BY <1>a DEF QueueInOrder, Handed
<1>1. ASSUME NEW s \in Sessions, Ask(s) PROVE QueueInOrder'
  BY <1>a, <1>1, <1>c DEF QueueInOrder, Ask, Aborted, Reuse, TakeSpare, Refuse, AskNursery
<1>2. ASSUME NEW s \in Sessions, SpawnSteps(s) PROVE QueueInOrder'
  <2>1. CASE TakeWorker(s)
    <3>1. /\ Len(offered') = Len(offered) - 1 /\ forked' = forked
          /\ \A i \in 1..Len(offered') : offered'[i] = Handed + 1 + i
      BY <1>a, <2>1, OfferedShrinks DEF TakeWorker
    <3>2. Handed' = Handed + 1
      BY <1>b, <3>1 DEF Handed
    <3> QED
      BY <1>a, <1>b, <3>1, <3>2 DEF QueueInOrder
  <2>2. CASE SpawnTimeout(s)
    BY <1>a, <1>2, <2>2 DEF QueueInOrder, SpawnSteps, SpawnTimeout
  <2>3. CASE Register(s)
    BY <1>a, <1>2, <2>3, <1>c DEF QueueInOrder, SpawnSteps, Register
  <2>4. CASE BootFails(s)
    BY <1>a, <1>2, <2>4, <1>c DEF QueueInOrder, SpawnSteps, BootFails
  <2> QED
    BY <1>2, <2>1, <2>2, <2>3, <2>4 DEF SpawnSteps
<1>3. ASSUME NEW s \in Sessions, Goes(s) PROVE QueueInOrder'
  BY <1>a, <1>3, <1>c DEF QueueInOrder, Goes, Calling
<1>4. ASSUME NEW s \in Sessions, Fails(s) PROVE QueueInOrder'
  BY <1>a, <1>4, <1>c DEF QueueInOrder, Fails, Calling, NoNewRequest
<1>5. ASSUME NEW s \in Sessions, Returns(s) PROVE QueueInOrder'
  BY <1>a, <1>5, <1>c DEF QueueInOrder, Returns, Calling
<1>6. ASSUME NEW s \in Sessions, Discard(s) PROVE QueueInOrder'
  BY <1>a, <1>6, <1>c DEF QueueInOrder, Discard
<1>7. ASSUME NEW s \in Sessions, Release(s) PROVE QueueInOrder'
  BY <1>a, <1>7, <1>c DEF QueueInOrder, Release
<1>8. ASSUME NEW s \in Sessions, ReleaseClose(s) PROVE QueueInOrder'
  BY <1>a, <1>8, <1>c DEF QueueInOrder, ReleaseClose
<1>9. ASSUME AbortCalls \/ Close PROVE QueueInOrder'
  BY <1>a, <1>9, <1>c DEF QueueInOrder, AbortCalls, Close
<1>10. ASSUME NEW x \in Stoppers, StopWorker(x) PROVE QueueInOrder'
  BY <1>a, <1>10, <1>c DEF QueueInOrder, StopWorker
<1>11. ASSUME NEW x \in Stoppers, StopEnds(x) PROVE QueueInOrder'
  BY <1>a, <1>11, <1>c DEF QueueInOrder, StopEnds
<1>12. ASSUME Fork PROVE QueueInOrder'
  <2>1. /\ Len(offered') = Len(offered) + 1 /\ forked' = forked + 1
        /\ \A i \in 1..Len(offered') : offered'[i] = Handed + i
    BY <1>a, <1>12, OfferedGrows DEF Fork
  <2>2. Handed' = Handed
    BY <1>b, <2>1 DEF Handed
  <2> QED
    BY <1>a, <1>b, <2>1, <2>2 DEF QueueInOrder
<1>13. ASSUME Works PROVE QueueInOrder'
  BY <1>a, <1>13, <1>c DEF QueueInOrder, Works
<1>14. ASSUME NEW s \in Sessions, BeginCall(s) \/ DropSession(s) PROVE QueueInOrder'
  BY <1>a, <1>14, <1>c DEF QueueInOrder, BeginCall, DropSession
<1>15. ASSUME BeginAbort \/ BeginClose PROVE QueueInOrder'
  BY <1>a, <1>15, <1>c DEF QueueInOrder, BeginAbort, BeginClose
<1>16. ASSUME UNCHANGED executorVars PROVE QueueInOrder'
  BY <1>a, <1>16, <1>c DEF QueueInOrder
<1> QED
  BY StepKinds, <1>1, <1>2, <1>3, <1>4, <1>5, <1>6, <1>7, <1>8, <1>9, <1>10, <1>11, <1>12,
    <1>13, <1>14, <1>15, <1>16

\* The gate works with none but the workers it has read.
LEMMA HandedOverKept == ServingInv /\ [Next]_vars => HandedOver'
<1> SUFFICES ASSUME ServingInv, [Next]_vars PROVE HandedOver'
  OBVIOUS
<1>a. /\ HandedOver /\ QueueInOrder /\ HandsKnown
      /\ registered \in [Sessions -> Workers \cup {None}]
      /\ worker \in [Sessions -> Workers \cup {None}]
      /\ toClose \in [Stoppers -> SUBSET Workers]
      /\ inbox \in [Workers -> Seq(Calls)]
      /\ spare \in Workers \cup {None}
      /\ offered \in Seq(Workers) /\ forked \in Workers
  BY DEF ServingInv, TypeOK
<1>b. UNCHANGED <<forked, offered>> => Received' = Received
  BY DEF Handed, Received
<1>1. ASSUME NEW s \in Sessions, Ask(s) PROVE HandedOver'
  <2>1. CASE Aborted(s)
    BY <1>a, <1>1, <2>1, <1>b DEF HandedOver, Leaving, Stoppers, Calling, Ask, Aborted
  <2>2. CASE Reuse(s)
    BY <1>a, <1>1, <2>2, <1>b DEF HandedOver, Leaving, Stoppers, Calling, Ask, Reuse
  <2>3. CASE TakeSpare(s)
    BY <1>a, <1>1, <2>3, <1>b DEF HandedOver, Leaving, Stoppers, Calling, Ask, TakeSpare
  <2>4. CASE Refuse(s)
    BY <1>a, <1>1, <2>4, <1>b DEF HandedOver, Leaving, Stoppers, Calling, Ask, Refuse
  <2>5. CASE AskNursery(s)
    BY <1>a, <1>1, <2>5, <1>b DEF HandedOver, Leaving, Stoppers, Calling, Ask, AskNursery
  <2> QED
    BY <1>1, <2>1, <2>2, <2>3, <2>4, <2>5 DEF Ask
<1>2. ASSUME NEW s \in Sessions, SpawnSteps(s) PROVE HandedOver'
  <2>1. CASE TakeWorker(s)
    <3>1. /\ Len(offered') = Len(offered) - 1 /\ Head(offered) = Handed + 1 /\ forked' = forked
          /\ Head(offered) \in Workers
      BY <1>a, <2>1, OfferedShrinks DEF TakeWorker, ServingInv
    <3>2. Received' = Received \cup {Head(offered)}
      BY <1>a, <3>1 DEF Handed, Received, Workers
    <3> QED
      BY <1>a, <2>1, <3>1, <3>2 DEF HandedOver, Leaving, TakeWorker
  <2>2. CASE SpawnTimeout(s)
    BY <1>a, <1>2, <2>2, <1>b DEF HandedOver, Leaving, Stoppers, Calling, SpawnSteps,
      SpawnTimeout
  <2>3. CASE Register(s)
    BY <1>a, <1>2, <2>3, <1>b DEF HandedOver, Leaving, Stoppers, Calling, SpawnSteps,
      Register
  <2>4. CASE BootFails(s)
    BY <1>a, <1>2, <2>4, <1>b DEF HandedOver, Leaving, Stoppers, Calling, SpawnSteps,
      BootFails
  <2> QED
    BY <1>2, <2>1, <2>2, <2>3, <2>4 DEF SpawnSteps
<1>3. ASSUME NEW s \in Sessions, Goes(s) PROVE HandedOver'
  BY <1>a, <1>3, <1>b DEF HandedOver, Leaving, Stoppers, HandsKnown, Calling, Goes
<1>4. ASSUME NEW s \in Sessions, Fails(s) PROVE HandedOver'
  BY <1>a, <1>4, <1>b DEF HandedOver, Leaving, Stoppers, HandsKnown, Calling, Fails,
    NoNewRequest
<1>5. ASSUME NEW s \in Sessions, Returns(s) PROVE HandedOver'
  BY <1>a, <1>5, <1>b DEF HandedOver, Leaving, Stoppers, Calling, Returns
<1>6. ASSUME NEW s \in Sessions, Discard(s) PROVE HandedOver'
  BY <1>a, <1>6, <1>b DEF HandedOver, Leaving, Stoppers, Calling, Discard
<1>7. ASSUME NEW s \in Sessions, Release(s) PROVE HandedOver'
  BY <1>a, <1>7, <1>b DEF HandedOver, Leaving, Stoppers, Calling, Release
<1>8. ASSUME NEW s \in Sessions, ReleaseClose(s) PROVE HandedOver'
  BY <1>a, <1>8, <1>b DEF HandedOver, Leaving, Stoppers, HandsKnown, Calling, ReleaseClose
<1>9. ASSUME AbortCalls \/ Close PROVE HandedOver'
  <2>1. CASE AbortCalls
    BY <1>a, <1>9, <2>1, <1>b DEF HandedOver, Leaving, Stoppers, Calling, AbortCalls
  <2>2. CASE Close
    BY <1>a, <1>9, <2>2, <1>b DEF HandedOver, Leaving, Stoppers, Calling, Close
  <2> QED
    BY <1>9, <2>1, <2>2
<1>10. ASSUME NEW x \in Stoppers, StopWorker(x) PROVE HandedOver'
  <2>1. PICK w \in toClose[x] : CloseWorker(w) /\ toClose' = [toClose EXCEPT ![x] = @ \ {w}]
    BY <1>10 DEF StopWorker
  <2>2. w \in Received /\ Leaving' \subseteq Leaving
    BY <1>a, <2>1 DEF HandedOver, Leaving, Stoppers
  <2> QED
    BY <1>a, <1>b, <1>10, <2>1, <2>2 DEF HandedOver, StopWorker
<1>11. ASSUME NEW x \in Stoppers, StopEnds(x) PROVE HandedOver'
  BY <1>a, <1>11, <1>b DEF HandedOver, Leaving, Stoppers, Calling, StopEnds
<1>12. ASSUME Fork PROVE HandedOver'
  <2>1. Len(offered') = Len(offered) + 1 /\ forked' = forked + 1 /\ forked \in Nat
    BY <1>a, <1>12, OfferedGrows DEF Fork, ServingInv, Workers
  <2>2. Received' = Received /\ 1..forked' = 1..forked \cup {forked + 1}
    BY <1>a, <2>1 DEF Handed, Received
  <2> QED
    BY <1>a, <1>12, <2>2 DEF HandedOver, Leaving, Fork
<1>13. ASSUME Works PROVE HandedOver'
  BY <1>a, <1>13, <1>b DEF HandedOver, Leaving, Stoppers, Calling, Works, NoNewRequest
<1>14. ASSUME NEW s \in Sessions, BeginCall(s) \/ DropSession(s) PROVE HandedOver'
  BY <1>a, <1>14, <1>b DEF HandedOver, Leaving, Stoppers, Calling, BeginCall, DropSession
<1>15. ASSUME BeginAbort \/ BeginClose PROVE HandedOver'
  BY <1>a, <1>15, <1>b DEF HandedOver, Leaving, Stoppers, Calling, BeginAbort, BeginClose
<1>16. ASSUME UNCHANGED executorVars PROVE HandedOver'
  BY <1>a, <1>16, <1>b DEF HandedOver, Leaving, Stoppers, Calling
<1> QED
  BY StepKinds, <1>1, <1>2, <1>3, <1>4, <1>5, <1>6, <1>7, <1>8, <1>9, <1>10, <1>11, <1>12,
    <1>13, <1>14, <1>15, <1>16

\* A worker just read from the nursery is nobody's: no two sessions share one.
LEMMA OwnWorkersKept == ServingInv /\ [Next]_vars => OwnWorkers'
<1> SUFFICES ASSUME ServingInv, [Next]_vars PROVE OwnWorkers'
  OBVIOUS
<1>a. /\ OwnWorkers /\ HandsKnown /\ HandedOver /\ LockIsSpawners
      /\ pc \in [Sessions -> Steps]
      /\ registered \in [Sessions -> Workers \cup {None}]
      /\ worker \in [Sessions -> Workers \cup {None}]
      /\ lock \in Sessions \cup {Free}
      /\ spare \in Workers \cup {None}
      /\ offered \in Seq(Workers) /\ forked \in Workers
  BY DEF ServingInv, TypeOK
<1>1. ASSUME NEW s \in Sessions, Ask(s) PROVE OwnWorkers'
  <2>1. CASE Aborted(s)
    BY <1>a, <1>1, <2>1 DEF OwnWorkers, Ask, Aborted
  <2>2. CASE Reuse(s)
    BY <1>a, <1>1, <2>2 DEF OwnWorkers, Ask, Reuse
  <2>3. CASE TakeSpare(s)
    BY <1>a, <1>1, <2>3 DEF OwnWorkers, HandsKnown, HandedOver, LockIsSpawners, Spawning,
      Ask, TakeSpare
  <2>4. CASE Refuse(s)
    BY <1>a, <1>1, <2>4 DEF OwnWorkers, HandsKnown, HandedOver, LockIsSpawners, Spawning,
      Ask, Refuse
  <2>5. CASE AskNursery(s)
    BY <1>a, <1>1, <2>5 DEF OwnWorkers, HandsKnown, HandedOver, LockIsSpawners, Spawning,
      Ask, AskNursery
  <2> QED
    BY <1>1, <2>1, <2>2, <2>3, <2>4, <2>5 DEF Ask
<1>2. ASSUME NEW s \in Sessions, SpawnSteps(s) PROVE OwnWorkers'
  <2>1. CASE TakeWorker(s)
    <3>1. Head(offered) = Handed + 1 /\ Head(offered) \in Workers
      BY <2>1, OfferedShrinks DEF TakeWorker, ServingInv
    <3>2. Head(offered) \notin Received
      BY <1>a, <3>1 DEF Received, Handed, Workers
    <3> QED
      BY <1>a, <2>1, <3>1, <3>2, NoneIsNoWorker
      DEF OwnWorkers, HandsKnown, HandedOver, LockIsSpawners, Spawning, TakeWorker
  <2>2. CASE SpawnTimeout(s)
    BY <1>a, <1>2, <2>2 DEF OwnWorkers, SpawnSteps, SpawnTimeout
  <2>3. CASE Register(s)
    BY <1>a, <1>2, <2>3 DEF OwnWorkers, HandsKnown, HandedOver, LockIsSpawners, Spawning,
      SpawnSteps, Register
  <2>4. CASE BootFails(s)
    BY <1>a, <1>2, <2>4 DEF OwnWorkers, SpawnSteps, BootFails
  <2> QED
    BY <1>2, <2>1, <2>2, <2>3, <2>4 DEF SpawnSteps
<1>3. ASSUME NEW s \in Sessions, Goes(s) PROVE OwnWorkers'
  BY <1>a, <1>3 DEF OwnWorkers, Goes, Calling
<1>4. ASSUME NEW s \in Sessions, Fails(s) PROVE OwnWorkers'
  BY <1>a, <1>4 DEF OwnWorkers, Fails, Calling, NoNewRequest
<1>5. ASSUME NEW s \in Sessions, Returns(s) PROVE OwnWorkers'
  BY <1>a, <1>5 DEF OwnWorkers, Returns, Calling
<1>6. ASSUME NEW s \in Sessions, Discard(s) PROVE OwnWorkers'
  BY <1>a, <1>6 DEF OwnWorkers, HandsKnown, HandedOver, LockIsSpawners, Spawning, Discard
<1>7. ASSUME NEW s \in Sessions, Release(s) PROVE OwnWorkers'
  BY <1>a, <1>7 DEF OwnWorkers, HandsKnown, HandedOver, LockIsSpawners, Spawning, Release
<1>8. ASSUME NEW s \in Sessions, ReleaseClose(s) PROVE OwnWorkers'
  BY <1>a, <1>8 DEF OwnWorkers, ReleaseClose
<1>9. ASSUME AbortCalls \/ Close PROVE OwnWorkers'
  <2>1. CASE AbortCalls
    BY <1>a, <1>9, <2>1 DEF OwnWorkers, HandsKnown, HandedOver, LockIsSpawners, Spawning,
      AbortCalls
  <2>2. CASE Close
    BY <1>a, <1>9, <2>2 DEF OwnWorkers, HandsKnown, HandedOver, LockIsSpawners, Spawning,
      Close
  <2> QED
    BY <1>9, <2>1, <2>2
<1>10. ASSUME NEW x \in Stoppers, StopWorker(x) PROVE OwnWorkers'
  BY <1>a, <1>10 DEF OwnWorkers, StopWorker
<1>11. ASSUME NEW x \in Stoppers, StopEnds(x) PROVE OwnWorkers'
  BY <1>a, <1>11 DEF OwnWorkers, StopEnds
<1>12. ASSUME Fork PROVE OwnWorkers'
  BY <1>a, <1>12 DEF OwnWorkers, Fork
<1>13. ASSUME Works PROVE OwnWorkers'
  BY <1>a, <1>13 DEF OwnWorkers, Works
<1>14. ASSUME NEW s \in Sessions, BeginCall(s) \/ DropSession(s) PROVE OwnWorkers'
  BY <1>a, <1>14 DEF OwnWorkers, BeginCall, DropSession
<1>15. ASSUME BeginAbort \/ BeginClose PROVE OwnWorkers'
  BY <1>a, <1>15 DEF OwnWorkers, BeginAbort, BeginClose
<1>16. ASSUME UNCHANGED executorVars PROVE OwnWorkers'
  BY <1>a, <1>16 DEF OwnWorkers
<1> QED
  BY StepKinds, <1>1, <1>2, <1>3, <1>4, <1>5, <1>6, <1>7, <1>8, <1>9, <1>10, <1>11, <1>12,
    <1>13, <1>14, <1>15, <1>16

\* The worker of a call is in the pool, closed, or about to be closed.
LEMMA HandsKnownKept == ServingInv /\ [Next]_vars => HandsKnown'
<1> SUFFICES ASSUME ServingInv, [Next]_vars PROVE HandsKnown'
  OBVIOUS
<1>a. /\ HandsKnown /\ StopsInStep
      /\ pc \in [Sessions -> Steps]
      /\ registered \in [Sessions -> Workers \cup {None}]
      /\ worker \in [Sessions -> Workers \cup {None}]
      /\ toClose \in [Stoppers -> SUBSET Workers]
      /\ spare \in Workers \cup {None}
  BY DEF ServingInv, TypeOK
<1>1. ASSUME NEW s \in Sessions, Ask(s) PROVE HandsKnown'
  <2>1. CASE Aborted(s)
    BY <1>a, <1>1, <2>1 DEF HandsKnown, Leaving, Stoppers, Calling, Ask, Aborted
  <2>2. CASE Reuse(s)
    BY <1>a, <1>1, <2>2 DEF HandsKnown, Leaving, Stoppers, Calling, Ask, Reuse
  <2>3. CASE TakeSpare(s)
    BY <1>a, <1>1, <2>3 DEF HandsKnown, Leaving, Stoppers, Calling, Ask, TakeSpare
  <2>4. CASE Refuse(s)
    BY <1>a, <1>1, <2>4 DEF HandsKnown, Leaving, Stoppers, Calling, Ask, Refuse
  <2>5. CASE AskNursery(s)
    BY <1>a, <1>1, <2>5 DEF HandsKnown, Leaving, Stoppers, Calling, Ask, AskNursery
  <2> QED
    BY <1>1, <2>1, <2>2, <2>3, <2>4, <2>5 DEF Ask
<1>2. ASSUME NEW s \in Sessions, SpawnSteps(s) PROVE HandsKnown'
  <2>1. CASE TakeWorker(s)
    <3>1. Head(offered) \in Workers
      BY <2>1, OfferedShrinks DEF TakeWorker, ServingInv
    <3> QED
      BY <1>a, <2>1, <3>1, NoneIsNoWorker DEF HandsKnown, Leaving, Calling, TakeWorker
  <2>2. CASE SpawnTimeout(s)
    BY <1>a, <1>2, <2>2 DEF HandsKnown, Leaving, Stoppers, Calling, SpawnSteps,
      SpawnTimeout
  <2>3. CASE Register(s)
    BY <1>a, <1>2, <2>3 DEF HandsKnown, Leaving, Stoppers, Calling, SpawnSteps, Register
  <2>4. CASE BootFails(s)
    BY <1>a, <1>2, <2>4 DEF HandsKnown, Leaving, Stoppers, Calling, SpawnSteps, BootFails
  <2> QED
    BY <1>2, <2>1, <2>2, <2>3, <2>4 DEF SpawnSteps
<1>3. ASSUME NEW s \in Sessions, Goes(s) PROVE HandsKnown'
  BY <1>a, <1>3 DEF HandsKnown, Leaving, Stoppers, Calling, Goes
<1>4. ASSUME NEW s \in Sessions, Fails(s) PROVE HandsKnown'
  BY <1>a, <1>4 DEF HandsKnown, Leaving, Stoppers, Calling, Fails, NoNewRequest
<1>5. ASSUME NEW s \in Sessions, Returns(s) PROVE HandsKnown'
  BY <1>a, <1>5 DEF HandsKnown, Leaving, Stoppers, Calling, Returns
<1>6. ASSUME NEW s \in Sessions, Discard(s) PROVE HandsKnown'
  BY <1>a, <1>6 DEF HandsKnown, Leaving, Stoppers, Calling, Discard
<1>7. ASSUME NEW s \in Sessions, Release(s) PROVE HandsKnown'
  BY <1>a, <1>7 DEF HandsKnown, Leaving, Stoppers, Calling, Release
<1>8. ASSUME NEW s \in Sessions, ReleaseClose(s) PROVE HandsKnown'
  BY <1>a, <1>8 DEF HandsKnown, Leaving, Stoppers, Calling, ReleaseClose
<1>9. ASSUME AbortCalls \/ Close PROVE HandsKnown'
  <2>1. CASE AbortCalls
    BY <1>a, <1>9, <2>1 DEF HandsKnown, StopsInStep, Leaving, Stoppers, Calling, AbortCalls
  <2>2. CASE Close
    BY <1>a, <1>9, <2>2 DEF HandsKnown, StopsInStep, Leaving, Stoppers, Calling, Close
  <2> QED
    BY <1>9, <2>1, <2>2
<1>10. ASSUME NEW x \in Stoppers, StopWorker(x) PROVE HandsKnown'
  BY <1>a, <1>10 DEF HandsKnown, Leaving, Stoppers, Calling, StopWorker
<1>11. ASSUME NEW x \in Stoppers, StopEnds(x) PROVE HandsKnown'
  BY <1>a, <1>11 DEF HandsKnown, Leaving, Stoppers, Calling, StopEnds
<1>12. ASSUME Fork PROVE HandsKnown'
  BY <1>a, <1>12 DEF HandsKnown, Leaving, Stoppers, Calling, Fork
<1>13. ASSUME Works PROVE HandsKnown'
  BY <1>a, <1>13 DEF HandsKnown, Leaving, Stoppers, Calling, Works
<1>14. ASSUME NEW s \in Sessions, BeginCall(s) \/ DropSession(s) PROVE HandsKnown'
  BY <1>a, <1>14 DEF HandsKnown, Leaving, Stoppers, Calling, BeginCall, DropSession
<1>15. ASSUME BeginAbort \/ BeginClose PROVE HandsKnown'
  BY <1>a, <1>15 DEF HandsKnown, Leaving, Stoppers, Calling, BeginAbort, BeginClose
<1>16. ASSUME UNCHANGED executorVars PROVE HandsKnown'
  BY <1>a, <1>16 DEF HandsKnown, Leaving, Stoppers, Calling
<1> QED
  BY StepKinds, <1>1, <1>2, <1>3, <1>4, <1>5, <1>6, <1>7, <1>8, <1>9, <1>10, <1>11, <1>12,
    <1>13, <1>14, <1>15, <1>16

\* A closed worker stays gone: the nursery's new ones were never closed.
LEMMA ClosedAreGoneKept == ServingInv /\ [Next]_vars => ClosedAreGone'
<1> SUFFICES ASSUME ServingInv, [Next]_vars PROVE ClosedAreGone'
  OBVIOUS
<1>a. ClosedAreGone
  BY DEF ServingInv, TypeOK
<1>1. ASSUME NEW s \in Sessions, Ask(s) PROVE ClosedAreGone'
  BY <1>a, <1>1 DEF ClosedAreGone, Ask, Aborted, Reuse, TakeSpare, Refuse, AskNursery
<1>2. ASSUME NEW s \in Sessions, SpawnSteps(s) PROVE ClosedAreGone'
  <2>1. CASE TakeWorker(s)
    BY <1>a, <1>2, <2>1 DEF ClosedAreGone, SpawnSteps, TakeWorker
  <2>2. CASE SpawnTimeout(s)
    BY <1>a, <1>2, <2>2 DEF ClosedAreGone, SpawnSteps, SpawnTimeout
  <2>3. CASE Register(s)
    BY <1>a, <1>2, <2>3 DEF ClosedAreGone, SpawnSteps, Register
  <2>4. CASE BootFails(s)
    BY <1>a, <1>2, <2>4 DEF ClosedAreGone, SpawnSteps, BootFails
  <2> QED
    BY <1>2, <2>1, <2>2, <2>3, <2>4 DEF SpawnSteps
<1>3. ASSUME NEW s \in Sessions, Goes(s) PROVE ClosedAreGone'
  BY <1>a, <1>3 DEF ClosedAreGone, Goes, Calling
<1>4. ASSUME NEW s \in Sessions, Fails(s) PROVE ClosedAreGone'
  BY <1>a, <1>4 DEF ClosedAreGone, Fails, Calling, NoNewRequest
<1>5. ASSUME NEW s \in Sessions, Returns(s) PROVE ClosedAreGone'
  BY <1>a, <1>5 DEF ClosedAreGone, Returns, Calling
<1>6. ASSUME NEW s \in Sessions, Discard(s) PROVE ClosedAreGone'
  BY <1>a, <1>6 DEF ClosedAreGone, Discard
<1>7. ASSUME NEW s \in Sessions, Release(s) PROVE ClosedAreGone'
  BY <1>a, <1>7 DEF ClosedAreGone, Release
<1>8. ASSUME NEW s \in Sessions, ReleaseClose(s) PROVE ClosedAreGone'
  BY <1>a, <1>8 DEF ClosedAreGone, ReleaseClose
<1>9. ASSUME AbortCalls \/ Close PROVE ClosedAreGone'
  BY <1>a, <1>9 DEF ClosedAreGone, AbortCalls, Close
<1>10. ASSUME NEW x \in Stoppers, StopWorker(x) PROVE ClosedAreGone'
  BY <1>a, <1>10 DEF ClosedAreGone, StopWorker
<1>11. ASSUME NEW x \in Stoppers, StopEnds(x) PROVE ClosedAreGone'
  BY <1>a, <1>11 DEF ClosedAreGone, StopEnds
<1>12. ASSUME Fork PROVE ClosedAreGone'
  <2>1. forked + 1 \notin shut
    BY DEF ServingInv, HandedOver, Received, Handed, TypeOK, Workers
  <2> QED
    BY <1>a, <1>12, <2>1 DEF ClosedAreGone, Fork
<1>13. ASSUME Works PROVE ClosedAreGone'
  BY <1>a, <1>13 DEF ClosedAreGone, Works
<1>14. ASSUME NEW s \in Sessions, BeginCall(s) \/ DropSession(s) PROVE ClosedAreGone'
  BY <1>a, <1>14 DEF ClosedAreGone, BeginCall, DropSession
<1>15. ASSUME BeginAbort \/ BeginClose PROVE ClosedAreGone'
  BY <1>a, <1>15 DEF ClosedAreGone, BeginAbort, BeginClose
<1>16. ASSUME UNCHANGED executorVars PROVE ClosedAreGone'
  BY <1>a, <1>16 DEF ClosedAreGone
<1> QED
  BY StepKinds, <1>1, <1>2, <1>3, <1>4, <1>5, <1>6, <1>7, <1>8, <1>9, <1>10, <1>11, <1>12,
    <1>13, <1>14, <1>15, <1>16

\* A live worker with a request to run is one that somebody has or will close.
LEMMA BusyKnownKept == ServingInv /\ [Next]_vars => BusyKnown'
<1> SUFFICES ASSUME ServingInv, [Next]_vars PROVE BusyKnown'
  OBVIOUS
<1>a. /\ BusyKnown /\ ClosedAreGone /\ StopsInStep /\ HandsKnown /\ LockIsSpawners
      /\ pc \in [Sessions -> Steps]
      /\ registered \in [Sessions -> Workers \cup {None}]
      /\ worker \in [Sessions -> Workers \cup {None}]
      /\ toClose \in [Stoppers -> SUBSET Workers]
      /\ spare \in Workers \cup {None}
      /\ shut \subseteq Workers /\ alive \subseteq Workers
  BY DEF ServingInv, TypeOK
<1>1. ASSUME NEW s \in Sessions, Ask(s) PROVE BusyKnown'
  <2>1. CASE Aborted(s)
    BY <1>a, <1>1, <2>1 DEF BusyKnown, Kept, Leaving, Stoppers, Calling, Spawning, Ask,
      Aborted
  <2>2. CASE Reuse(s)
    BY <1>a, <1>1, <2>2 DEF BusyKnown, Kept, Leaving, Stoppers, Calling, Spawning, Ask,
      Reuse
  <2>3. CASE TakeSpare(s)
    <3>1. ASSUME NEW w \in alive, Kept(w) PROVE Kept(w)'
      BY <1>a, <2>3, <1>1, <3>1, NoneIsNoWorker DEF Kept, Leaving, ClosedAreGone, Ask, TakeSpare
    <3> QED
      BY <1>a, <2>3, <1>1, <3>1 DEF BusyKnown, Ask, TakeSpare
  <2>4. CASE Refuse(s)
    <3>1. ASSUME NEW w \in alive, Kept(w) PROVE Kept(w)'
      BY <1>a, <2>4, <1>1, <3>1 DEF Kept, Leaving, ClosedAreGone, Ask, Refuse, AtLimit
    <3> QED
      BY <1>a, <2>4, <1>1, <3>1 DEF BusyKnown, Ask, Refuse
  <2>5. CASE AskNursery(s)
    BY <1>a, <1>1, <2>5 DEF BusyKnown, Kept, ClosedAreGone, StopsInStep, HandsKnown,
      LockIsSpawners, Leaving, Stoppers, Calling, Spawning, Ask, AskNursery
  <2> QED
    BY <1>1, <2>1, <2>2, <2>3, <2>4, <2>5 DEF Ask
<1>2. ASSUME NEW s \in Sessions, SpawnSteps(s) PROVE BusyKnown'
  <2>1. CASE TakeWorker(s)
    BY <1>a, <1>2, <2>1 DEF BusyKnown, Kept, Leaving, Stoppers, Calling, Spawning,
      SpawnSteps, TakeWorker
  <2>2. CASE SpawnTimeout(s)
    BY <1>a, <1>2, <2>2 DEF BusyKnown, Kept, Leaving, Stoppers, Calling, Spawning,
      SpawnSteps, SpawnTimeout
  <2>3. CASE Register(s)
    <3>1. ASSUME NEW w \in alive, Kept(w) PROVE Kept(w)'
      BY <1>a, <2>3, <3>1, NoneIsNoWorker DEF Kept, Leaving, LockIsSpawners, Spawning, Register
    <3> QED
      BY <1>a, <2>3, <3>1 DEF BusyKnown, Register
  <2>4. CASE BootFails(s)
    BY <1>a, <1>2, <2>4 DEF BusyKnown, Kept, Leaving, Stoppers, Calling, Spawning,
      SpawnSteps, BootFails
  <2> QED
    BY <1>2, <2>1, <2>2, <2>3, <2>4 DEF SpawnSteps
<1>3. ASSUME NEW s \in Sessions, Goes(s) PROVE BusyKnown'
  <2>1. \A w \in alive : w = worker[s] => Kept(w)
    BY <1>a, <1>3 DEF Kept, Goes, HandsKnown, ClosedAreGone
  <2>2. \A w \in alive : Kept(w) => Kept(w)'
    BY <1>a, <1>3 DEF Kept, Leaving, Goes, Calling
  <2>3. alive \subseteq Workers
    BY <1>a
  <2> QED
    BY <1>a, <1>3, <2>1, <2>2, <2>3 DEF BusyKnown, Goes
<1>4. ASSUME NEW s \in Sessions, Fails(s) PROVE BusyKnown'
  <2>1. \A w \in alive : Kept(w) => Kept(w)'
    BY <1>a, <1>4 DEF Kept, Leaving, Fails, Calling
  <2> QED
    BY <1>a, <1>4, <2>1 DEF BusyKnown, Fails, NoNewRequest
<1>5. ASSUME NEW s \in Sessions, Returns(s) PROVE BusyKnown'
  BY <1>a, <1>5 DEF BusyKnown, Kept, Leaving, Stoppers, Calling, Spawning, Returns
<1>6. ASSUME NEW s \in Sessions, Discard(s) PROVE BusyKnown'
  BY <1>a, <1>6 DEF BusyKnown, Kept, ClosedAreGone, StopsInStep, HandsKnown,
    LockIsSpawners, Leaving, Stoppers, Calling, Spawning, Discard
<1>7. ASSUME NEW s \in Sessions, Release(s) PROVE BusyKnown'
  BY <1>a, <1>7 DEF BusyKnown, Kept, Leaving, Stoppers, Calling, Spawning, Release
<1>8. ASSUME NEW s \in Sessions, ReleaseClose(s) PROVE BusyKnown'
  BY <1>a, <1>8 DEF BusyKnown, Kept, Leaving, Stoppers, Calling, Spawning, ReleaseClose
<1>9. ASSUME AbortCalls \/ Close PROVE BusyKnown'
  <2>1. CASE AbortCalls
    BY <1>a, <1>9, <2>1 DEF BusyKnown, Kept, ClosedAreGone, StopsInStep, HandsKnown,
      LockIsSpawners, Leaving, Stoppers, Calling, Spawning, AbortCalls
  <2>2. CASE Close
    BY <1>a, <1>9, <2>2 DEF BusyKnown, Kept, ClosedAreGone, StopsInStep, HandsKnown,
      LockIsSpawners, Leaving, Stoppers, Calling, Spawning, Close
  <2> QED
    BY <1>9, <2>1, <2>2
<1>10. ASSUME NEW x \in Stoppers, StopWorker(x) PROVE BusyKnown'
  BY <1>a, <1>10 DEF BusyKnown, Kept, Leaving, Stoppers, Calling, Spawning, StopWorker
<1>11. ASSUME NEW x \in Stoppers, StopEnds(x) PROVE BusyKnown'
  BY <1>a, <1>11 DEF BusyKnown, Kept, Leaving, Stoppers, Calling, Spawning, StopEnds
<1>12. ASSUME Fork PROVE BusyKnown'
  <2>1. inbox[forked + 1] = <<>>
    BY <1>12 DEF Fork, ServingInv, HandedOver, Received, Handed, TypeOK, Workers
  <2> QED
    BY <1>a, <1>12, <2>1 DEF BusyKnown, Kept, Leaving, Fork
<1>13. ASSUME Works PROVE BusyKnown'
  <2>1. \A w \in alive : Kept(w) => Kept(w)'
    BY <1>13 DEF Kept, Leaving, Works
  <2> QED
    BY <1>a, <1>13, <2>1 DEF BusyKnown, Works, NoNewRequest
<1>14. ASSUME NEW s \in Sessions, BeginCall(s) \/ DropSession(s) PROVE BusyKnown'
  BY <1>a, <1>14 DEF BusyKnown, Kept, Leaving, Stoppers, Calling, Spawning, BeginCall,
    DropSession
<1>15. ASSUME BeginAbort \/ BeginClose PROVE BusyKnown'
  BY <1>a, <1>15 DEF BusyKnown, Kept, Leaving, Stoppers, Calling, Spawning, BeginAbort,
    BeginClose
<1>16. ASSUME UNCHANGED executorVars PROVE BusyKnown'
  BY <1>a, <1>16 DEF BusyKnown, Kept, Leaving, Stoppers, Calling, Spawning
<1> QED
  BY StepKinds, <1>1, <1>2, <1>3, <1>4, <1>5, <1>6, <1>7, <1>8, <1>9, <1>10, <1>11, <1>12,
    <1>13, <1>14, <1>15, <1>16

-----------------------------------------------------------------------------
(***************************************************************************)
(* The theorems.                                                           *)
(***************************************************************************)
LEMMA InitServing == Init => ServingInv
<1> SUFFICES ASSUME Init PROVE ServingInv
  OBVIOUS
<1>1. 1 \in Workers /\ MaxWorkers \in Nat
  BY DEF Workers
<1>2. TypeOK
  <2>1. <<>> \in Seq(Calls) /\ <<>> \in Seq(Frames) /\ <<>> \in Seq(Workers)
    OBVIOUS
  <2>2. /\ inbox \in [Workers -> Seq(Calls)] /\ outbox \in [Workers -> Seq(Frames)]
        /\ probes \in [Workers -> Nat] /\ offered \in Seq(Workers)
    BY <2>1 DEF Init, ExecutorInit
  <2>3. spoken \in 0..MaxSpoken /\ 0 \in Nat
    BY DEF Init, ExecutorInit
  <2> QED
    BY <1>1, <2>2, <2>3 DEF Init, ExecutorInit, TypeOK, Steps, Phases
<1>3. SlotsCounted
  <2>1. Holders = {}
    BY DEF Init, Holders, Holding
  <2> QED
    BY <2>1, FS_EmptySet DEF Init, SlotsCounted
<1>4. ThreadsInPhase /\ PoolFollowsSlots /\ LockIsSpawners /\ StopsInStep
  BY DEF Init, ExecutorInit, ThreadsInPhase, PoolFollowsSlots, LockIsSpawners, StopsInStep,
         Spawning, Calling, Stoppers
<1>5. QueueInOrder /\ Received = {1}
  BY DEF Init, ExecutorInit, QueueInOrder, Received, Handed
<1>6. HandedOver
  BY <1>1, <1>5 DEF Init, ExecutorInit, HandedOver, Leaving, Stoppers
<1>7. OwnWorkers /\ HandsKnown /\ ClosedAreGone /\ BusyKnown
  BY DEF Init, ExecutorInit, OwnWorkers, HandsKnown, ClosedAreGone, BusyKnown, Calling, Workers
<1> QED
  BY <1>2, <1>3, <1>4, <1>5, <1>6, <1>7 DEF ServingInv

(***************************************************************************)
(* The invariant of the serving host, for any number of sessions, slots,   *)
(* calls and workers: a session has a worker of its own as long as it has  *)
(* a slot and no longer, a stop leaves none in the pool, and a worker with *)
(* a request to run is one that somebody will close (server.py:1243-1297,  *)
(* executor.py:201-284).                                                   *)
(***************************************************************************)
THEOREM ServingInvariant == Spec => []ServingInv
<1>1. Init => ServingInv
  BY InitServing
<1>2. ServingInv /\ [Next]_vars => ServingInv'
  BY TypesKept, SlotsCountedKept, ThreadsInPhaseKept, PoolFollowsSlotsKept, LockIsSpawnersKept,
     StopsInStepKept, QueueInOrderKept, HandedOverKept, OwnWorkersKept, HandsKnownKept,
     ClosedAreGoneKept, BusyKnownKept
  DEF ServingInv
<1> QED
  BY <1>1, <1>2, PTL DEF Spec

(***************************************************************************)
(* Once abort_calls has returned, no tool runs or will run, except on a    *)
(* worker that close() or the end of a session took out of the pool first  *)
(* (executor.py:211-220).                                                  *)
(***************************************************************************)
THEOREM AbortStopsTools == Spec => []NoToolOutlivesAbort
<1>1. ServingInv => NoToolOutlivesAbort
  <2> SUFFICES ASSUME ServingInv, stop["abort"] = "done", NEW w \in alive, inbox[w] # <<>>
               PROVE  w \in toClose["close"]
                         \cup {worker[s] : s \in {t \in Sessions : pc[t] = "halt"}}
    BY DEF NoToolOutlivesAbort
  <2>1. Kept(w) /\ w \in Workers
    BY DEF ServingInv, BusyKnown, TypeOK
  <2>2. toClose["abort"] = {} /\ \A s \in Sessions : registered[s] = None
    BY DEF ServingInv, StopsInStep, Stoppers
  <2> QED
    BY <2>1, <2>2, NoneIsNoWorker DEF Kept, Leaving
<1> QED
  BY <1>1, ServingInvariant, PTL

(***************************************************************************)
(* A connection that has a slot is never refused a worker for the limit:   *)
(* slots are returned after their worker has left the pool                 *)
(* (executor.py:273-277, server.py:951-955).                               *)
(***************************************************************************)
THEOREM SlotHasWorker == Spec => []SlotMeansWorker
<1>1. ServingInv => SlotMeansWorker
  <2> SUFFICES ASSUME ServingInv, NEW s \in Sessions, pc[s] = "ask" PROVE ~Full(s)
    BY DEF SlotMeansWorker, AtLimit
  <2> DEFINE Rivals == {t \in Sessions \ {s} : registered[t] # None}
  <2>1. s \in Holders /\ Rivals \subseteq Holders \ {s}
    BY DEF ServingInv, TypeOK, ThreadsInPhase, PoolFollowsSlots, Holders, Holding
  <2>2. IsFiniteSet(Holders)
    BY FS_Subset DEF Holders
  <2>3. /\ Cardinality(Holders \ {s}) = Cardinality(Holders) - 1
        /\ IsFiniteSet(Holders \ {s})
    BY <2>1, <2>2, FS_RemoveElement, FS_Subset
  <2>4. /\ Cardinality(Rivals) <= Cardinality(Holders \ {s})
        /\ Cardinality(Rivals) \in Nat
    BY <2>1, <2>3, FS_Subset, FS_CardinalityType
  <2>5. live = Cardinality(Holders) /\ live <= MaxWorkers /\ live \in Nat
    BY DEF ServingInv, SlotsCounted, TypeOK
  <2>6. Cardinality(Rivals) < MaxWorkers
    <3> HIDE DEF Rivals
    <3> QED
      BY <2>3, <2>4, <2>5
  <2> QED
    BY <2>4, <2>6 DEF Full
<1> QED
  BY <1>1, ServingInvariant, PTL

-----------------------------------------------------------------------------
(***************************************************************************)
(* The answers.  A worker in somebody's hands is in nobody else's, in no   *)
(* other session's place and not the spare, whatever place of the pool it  *)
(* has left meanwhile.                                                     *)
(***************************************************************************)
HandsApart ==
    \A s \in Sessions : worker[s] # None =>
        /\ worker[s] # spare
        /\ \A t \in Sessions \ {s} : worker[t] # worker[s] /\ registered[t] # worker[s]

LEMMA HandsApartKept == ServingInv /\ HandsApart /\ [Next]_vars => HandsApart'
<1> SUFFICES ASSUME ServingInv, HandsApart, [Next]_vars PROVE HandsApart'
  OBVIOUS
<1>a. /\ HandsApart /\ HandedOver
      /\ pc \in [Sessions -> Steps]
      /\ registered \in [Sessions -> Workers \cup {None}]
      /\ worker \in [Sessions -> Workers \cup {None}]
      /\ spare \in Workers \cup {None}
      /\ offered \in Seq(Workers) /\ forked \in Workers
      /\ \A s, t \in Sessions : registered[s] # None /\ registered[s] = registered[t] => s = t
      /\ \A s \in Sessions : registered[s] # None => registered[s] # spare
  BY DEF ServingInv, TypeOK, OwnWorkers
<1>1. ASSUME NEW s \in Sessions, Ask(s) PROVE HandsApart'
  <2>1. CASE Aborted(s)
    BY <1>a, <1>1, <2>1 DEF HandsApart, Ask, Aborted
  <2>2. CASE Reuse(s)
    BY <1>a, <1>1, <2>2 DEF HandsApart, Ask, Reuse
  <2>3. CASE TakeSpare(s)
    BY <1>a, <1>1, <2>3 DEF HandsApart, Ask, TakeSpare
  <2>4. CASE Refuse(s)
    BY <1>a, <1>1, <2>4 DEF HandsApart, Ask, Refuse
  <2>5. CASE AskNursery(s)
    BY <1>a, <1>1, <2>5 DEF HandsApart, Ask, AskNursery
  <2> QED
    BY <1>1, <2>1, <2>2, <2>3, <2>4, <2>5 DEF Ask
<1>2. ASSUME NEW s \in Sessions, SpawnSteps(s) PROVE HandsApart'
  <2>1. CASE TakeWorker(s)
    <3>1. Head(offered) = Handed + 1 /\ Head(offered) \in Workers
      BY <2>1, OfferedShrinks DEF TakeWorker, ServingInv
    <3>2. Head(offered) \notin Received
      BY <1>a, <3>1 DEF Received, Handed, Workers
    <3> QED
      BY <1>a, <2>1, <3>1, <3>2, NoneIsNoWorker DEF HandsApart, HandedOver, TakeWorker
  <2>2. CASE SpawnTimeout(s)
    BY <1>a, <1>2, <2>2 DEF HandsApart, SpawnSteps, SpawnTimeout
  <2>3. CASE Register(s)
    BY <1>a, <1>2, <2>3 DEF HandsApart, SpawnSteps, Register
  <2>4. CASE BootFails(s)
    BY <1>a, <1>2, <2>4 DEF HandsApart, SpawnSteps, BootFails
  <2> QED
    BY <1>2, <2>1, <2>2, <2>3, <2>4 DEF SpawnSteps
<1>3. ASSUME NEW s \in Sessions, Goes(s) PROVE HandsApart'
  BY <1>a, <1>3 DEF HandsApart, Goes
<1>4. ASSUME NEW s \in Sessions, Fails(s) PROVE HandsApart'
  BY <1>a, <1>4 DEF HandsApart, Fails
<1>5. ASSUME NEW s \in Sessions, Returns(s) PROVE HandsApart'
  BY <1>a, <1>5 DEF HandsApart, Returns
<1>6. ASSUME NEW s \in Sessions, Discard(s) PROVE HandsApart'
  BY <1>a, <1>6 DEF HandsApart, Discard
<1>7. ASSUME NEW s \in Sessions, Release(s) PROVE HandsApart'
  BY <1>a, <1>7 DEF HandsApart, Release
<1>8. ASSUME NEW s \in Sessions, ReleaseClose(s) PROVE HandsApart'
  BY <1>a, <1>8 DEF HandsApart, ReleaseClose
<1>9. ASSUME AbortCalls \/ Close PROVE HandsApart'
  BY <1>a, <1>9 DEF HandsApart, AbortCalls, Close
<1>10. ASSUME NEW x \in Stoppers, StopWorker(x) \/ StopEnds(x) PROVE HandsApart'
  BY <1>a, <1>10 DEF HandsApart, StopWorker, StopEnds
<1>11. ASSUME Fork \/ Works PROVE HandsApart'
  BY <1>a, <1>11 DEF HandsApart, Fork, Works
<1>12. ASSUME NEW s \in Sessions, BeginCall(s) \/ DropSession(s) PROVE HandsApart'
  BY <1>a, <1>12 DEF HandsApart, BeginCall, DropSession
<1>13. ASSUME BeginAbort \/ BeginClose PROVE HandsApart'
  BY <1>a, <1>13 DEF HandsApart, BeginAbort, BeginClose
<1>14. ASSUME UNCHANGED executorVars PROVE HandsApart'
  BY <1>a, <1>14 DEF HandsApart
<1> QED
  BY StepKinds, <1>1, <1>2, <1>3, <1>4, <1>5, <1>6, <1>7, <1>8, <1>9, <1>10, <1>11, <1>12,
    <1>13, <1>14

-----------------------------------------------------------------------------
(***************************************************************************)
(* What a step does to the wires and to the calls that wait on them.       *)
(***************************************************************************)
Waiting == {"write", "read", "after"}

\* Who waits after the step waited before it, for the same.
NobodyJoins ==
    \A t \in Sessions : pc'[t] \in Waiting =>
        /\ pc'[t] = pc[t] /\ worker'[t] = worker[t] /\ call'[t] = call[t] /\ taken'[t] = taken[t]

\* The wires are as they were, and who reads goes on reading.
Still ==
    /\ UNCHANGED <<wire, spoken>> /\ NobodyJoins
    /\ \A t \in Sessions : pc[t] = "read" => pc'[t] = "read"

\* Worker w is closed: its wire is cut, and only its own call may stop reading.
Cut(w) ==
    /\ inbox' = [inbox EXCEPT ![w] = <<>>] /\ outbox' = [outbox EXCEPT ![w] = <<>>]
    /\ UNCHANGED <<probes, spoken>> /\ NobodyJoins
    /\ \A t \in Sessions : pc[t] = "read" /\ worker[t] # w => pc'[t] = "read"

\* The three steps of a call on its wire.
CallMoves(s, from, to) ==
    /\ pc[s] = from /\ GoTo(s, to)
    /\ worker[s] \in Workers
    /\ UNCHANGED <<worker, call, spoken>>
Probes(s) ==
    /\ CallMoves(s, "probe", "write")
    /\ outbox[worker[s]] = <<>>
    /\ probes' = [probes EXCEPT ![worker[s]] = @ + 1]
    /\ UNCHANGED <<inbox, outbox, taken>>
Sends(s) ==
    /\ CallMoves(s, "write", "read")
    /\ inbox' = [inbox EXCEPT ![worker[s]] = Append(@, <<s, call[s]>>)]
    /\ UNCHANGED <<outbox, probes, taken>>
Takes(s) ==
    /\ CallMoves(s, "read", "after")
    /\ outbox[worker[s]] # <<>>
    /\ taken' = [taken EXCEPT ![s] = Head(outbox[worker[s]])]
    /\ outbox' = [outbox EXCEPT ![worker[s]] = Tail(@)]
    /\ UNCHANGED <<inbox, probes>>

LEMMA FailCuts ==
    ASSUME ServingInv, NEW s \in Sessions, Fail(s)
    PROVE  Cut(worker[s])
  BY DEF ServingInv, TypeOK, Cut, NobodyJoins, Waiting

LEMMA LeaveIsStill ==
    ASSUME ServingInv, NEW s \in Sessions, Leave(s), pc[s] # "read"
    PROVE  Still
  BY DEF ServingInv, TypeOK, Still, NobodyJoins, Waiting

LEMMA CallOnWire ==
    ASSUME ServingInv, NEW s \in Sessions, CallSteps(s)
    PROVE  Still \/ Cut(worker[s]) \/ Probes(s) \/ Sends(s) \/ Takes(s)
<1>0. pc \in [Sessions -> Steps]
  BY DEF ServingInv, TypeOK
<1>1. pc[s] \in Calling => worker[s] \in Workers
  BY DEF ServingInv, HandsKnown, TypeOK
<1>2. CASE CheckOpen(s)
  BY <1>0, <1>2 DEF CheckOpen, Still, NobodyJoins, Waiting
<1>3. CASE SetTimeoutRaises(s)
  <2> HIDE DEF Leave
  <2> QED
    BY <1>3, LeaveIsStill DEF SetTimeoutRaises
<1>4. CASE Probe(s)
  <2>1. CASE Fail(s)
    BY <2>1, FailCuts
  <2>2. CASE PassProbe(s) /\ ~Pending(s)
    BY <1>1, <1>4, <2>2 DEF Probe, Calling, Probes, CallMoves
  <2> HIDE DEF Fail, PassProbe, Pending
  <2> QED
    BY <1>4, <2>1, <2>2 DEF Probe
<1>5. CASE WriteRequest(s)
  <2>1. CASE Fail(s)
    BY <2>1, FailCuts
  <2>2. CASE ~Fail(s)
    <3>1. Advance(s, "read") /\ UNCHANGED <<outbox, probes, taken>> /\ pc[s] = "write"
          /\ inbox' = [inbox EXCEPT ![worker[s]] = Append(@, <<s, call[s]>>)]
      <4> HIDE DEF Fail
      <4> QED
        BY <1>5, <2>2 DEF WriteRequest
    <3> QED
      BY <1>1, <3>1 DEF Calling, Sends, CallMoves
  <2> QED
    BY <2>1, <2>2
<1>6. CASE ReadReply(s)
  <2>1. CASE Fail(s)
    BY <2>1, FailCuts
  <2>2. CASE ~Fail(s)
    <3>1. Advance(s, "after") /\ UNCHANGED <<inbox, probes>> /\ pc[s] = "read" /\ Pending(s)
          /\ taken' = [taken EXCEPT ![s] = Head(outbox[worker[s]])]
          /\ outbox' = [outbox EXCEPT ![worker[s]] = Tail(@)]
      <4> HIDE DEF Fail
      <4> QED
        BY <1>6, <2>2 DEF ReadReply
    <3> QED
      BY <1>1, <3>1 DEF Calling, Takes, CallMoves
  <2> QED
    BY <2>1, <2>2
<1>7. CASE CallTimeout(s)
  <2> HIDE DEF Fail
  <2> QED
    BY <1>7, FailCuts DEF CallTimeout
<1>8. CASE FinishCall(s)
  <2> HIDE DEF Fail, Leave
  <2> QED
    BY <1>8, FailCuts, LeaveIsStill DEF FinishCall
<1> QED
  BY <1>2, <1>3, <1>4, <1>5, <1>6, <1>7, <1>8 DEF CallSteps

\* The steps of the host, by what they do to the wires.
LEMMA OnWire ==
    ASSUME ServingInv, [Next]_vars
    PROVE  \/ Still
           \/ \E w \in Workers : Cut(w) \/ RunTool(w) \/ Speak(w)
           \/ \E s \in Sessions : Probes(s) \/ Sends(s) \/ Takes(s)
<1> DEFINE Known == \/ Still
                    \/ \E w \in Workers : Cut(w) \/ RunTool(w) \/ Speak(w)
                    \/ \E s \in Sessions : Probes(s) \/ Sends(s) \/ Takes(s)
<1> SUFFICES Known
  OBVIOUS
<1>0. pc \in [Sessions -> Steps] /\ worker \in [Sessions -> Workers \cup {None}]
      /\ call \in [Sessions -> Nat]
  BY DEF ServingInv, TypeOK
<1> USE DEF Still, NobodyJoins, Waiting
<1>1. ASSUME NEW s \in Sessions, Ask(s) PROVE Still
  <2>1. CASE Aborted(s)
    BY <1>0, <1>1, <2>1 DEF Ask, Aborted
  <2>2. CASE Reuse(s)
    BY <1>0, <1>1, <2>2 DEF Ask, Reuse
  <2>3. CASE TakeSpare(s)
    BY <1>0, <1>1, <2>3 DEF Ask, TakeSpare
  <2>4. CASE Refuse(s)
    BY <1>0, <1>1, <2>4 DEF Ask, Refuse
  <2>5. CASE AskNursery(s)
    BY <1>0, <1>1, <2>5 DEF Ask, AskNursery
  <2> QED
    BY <1>1, <2>1, <2>2, <2>3, <2>4, <2>5 DEF Ask
<1>2. ASSUME NEW s \in Sessions, SpawnSteps(s) PROVE Still
  <2>1. CASE TakeWorker(s)
    BY <1>0, <2>1 DEF TakeWorker
  <2>2. CASE SpawnTimeout(s)
    BY <1>0, <2>2 DEF SpawnTimeout
  <2>3. CASE Register(s)
    BY <1>0, <2>3 DEF Register
  <2>4. CASE BootFails(s)
    BY <1>0, <2>4 DEF BootFails
  <2> QED
    BY <1>2, <2>1, <2>2, <2>3, <2>4 DEF SpawnSteps
<1>3. ASSUME NEW s \in Sessions, CallSteps(s) PROVE Known
  <2>1. Cut(worker[s]) => worker[s] \in Workers \/ Still
    <3>1. pc[s] \in Calling
      BY <1>3 DEF CallSteps, CheckOpen, SetTimeoutRaises, Probe, WriteRequest, ReadReply,
        CallTimeout, FinishCall, Calling
    <3> QED
      BY <3>1, HandIsWorker
  <2> HIDE DEF Still
  <2> QED
    BY <1>3, <2>1, CallOnWire
<1>4. ASSUME NEW s \in Sessions, Discard(s) \/ Release(s) PROVE Still
  <2>1. CASE Discard(s)
    BY <1>0, <2>1 DEF Discard
  <2>2. CASE Release(s)
    <3>1. PICK to \in {"released", "halt"} : GoTo(s, to)
      BY <2>2 DEF Release
    <3>2. /\ UNCHANGED <<wire, spoken, call, taken>> /\ pc[s] = "release"
          /\ worker' = [worker EXCEPT ![s] = registered[s]]
      BY <2>2 DEF Release
    <3>3. \A t \in Sessions : /\ pc'[t] = IF t = s THEN to ELSE pc[t]
                              /\ t # s => worker'[t] = worker[t]
      BY <1>0, <3>1, <3>2
    <3> QED
      BY <3>2, <3>3
  <2> QED
    BY <1>4, <2>1, <2>2
<1>5. ASSUME NEW s \in Sessions, ReleaseClose(s) PROVE Known
  <2>1. worker[s] \in Workers
    BY <1>5, HandIsWorker DEF ReleaseClose
  <2>2. Cut(worker[s])
    BY <1>0, <1>5 DEF ReleaseClose, Cut
  <2> QED
    BY <2>1, <2>2
<1>6. ASSUME AbortCalls \/ Close PROVE Still
  BY <1>6 DEF AbortCalls, Close
<1>7. ASSUME NEW x \in Stoppers, StopWorker(x) PROVE Known
  <2>1. PICK w \in toClose[x] : CloseWorker(w)
    BY <1>7 DEF StopWorker
  <2>2. w \in Workers
    BY DEF ServingInv, TypeOK
  <2>3. Cut(w)
    BY <1>7, <2>1 DEF StopWorker, Cut
  <2> QED
    BY <2>2, <2>3
<1>8. ASSUME NEW x \in Stoppers, StopEnds(x) PROVE Still
  BY <1>8 DEF StopEnds
<1>9. ASSUME Fork \/ \E w \in Workers : Boot(w) \/ Die(w) PROVE Still
  BY <1>9 DEF Fork, Boot, Die
<1>10. ASSUME NEW s \in Sessions, BeginCall(s) \/ DropSession(s) PROVE Still
  BY <1>0, <1>10 DEF BeginCall, DropSession
<1>11. ASSUME UNCHANGED <<wire, thread, spoken>> PROVE Still
  BY <1>11
<1> HIDE DEF Still
<1>12. CASE Executing(ExecutorNext)
  BY <1>1, <1>2, <1>3, <1>4, <1>5, <1>6, <1>7, <1>8, <1>9, <1>12
  DEF ExecutorNext, ThreadSteps, StopperSteps, ProcessSteps
<1>13. CASE \E s \in Sessions : Connection(s)
  BY <1>10, <1>11, <1>13 DEF Connection, Returning, OpenSession, HangUp, FreeSlot
<1>14. CASE AcceptLoop \/ RequestStop \/ BeginClose \/ UNCHANGED vars
  BY <1>11, <1>14
  DEF AcceptLoop, AcceptEnds, AcceptFails, BeginAbort, Accept, ThreadFails, RequestStop, BeginClose
<1> QED
  BY <1>12, <1>13, <1>14 DEF Next

-----------------------------------------------------------------------------
(***************************************************************************)
(* Frames of the right time: all that has come since the call looked.      *)
(***************************************************************************)
Dated(w) == \A i \in 1..Len(outbox[w]) : outbox[w][i].at = probes[w]
FramesDated ==
    \A s \in Sessions : pc[s] \in Waiting =>
        /\ worker[s] \in Workers /\ Dated(worker[s])
        /\ pc[s] = "after" => taken[s] \in Frames /\ taken[s].at = probes[worker[s]]

LEMMA FramesDatedKept ==
    ServingInv /\ HandsApart /\ FramesDated /\ [Next]_vars => FramesDated'
<1> SUFFICES ASSUME ServingInv, HandsApart, FramesDated, [Next]_vars PROVE FramesDated'
  OBVIOUS
<1>0. /\ pc \in [Sessions -> Steps] /\ probes \in [Workers -> Nat]
      /\ outbox \in [Workers -> Seq(Frames)] /\ inbox \in [Workers -> Seq(Calls)]
      /\ taken \in [Sessions -> Frames \cup {None}]
  BY DEF ServingInv, TypeOK
<1>a. \A s, t \in Sessions : s # t /\ worker[s] \in Workers => worker[s] # worker[t]
  BY NoneIsNoWorker DEF HandsApart
<1>1. ASSUME Still PROVE FramesDated'
  <2>1. UNCHANGED <<outbox, probes>> /\ NobodyJoins
    BY <1>1 DEF Still
  <2>2. \A w \in Workers : Dated(w) => Dated(w)'
    BY <2>1 DEF Dated
  <2> QED
    BY <2>1, <2>2 DEF NobodyJoins, FramesDated, Waiting
<1>2. ASSUME NEW w \in Workers, Cut(w) PROVE FramesDated'
  <2>1. \A v \in Workers : outbox'[v] = outbox[v] \/ outbox'[v] = <<>>
    BY <1>0, <1>2 DEF Cut
  <2>2. ASSUME NEW v \in Workers, Dated(v) PROVE Dated(v)'
    BY <1>2, <2>1, <2>2 DEF Cut, Dated
  <2> QED
    BY <1>2, <2>2 DEF Cut, NobodyJoins, FramesDated, Waiting
<1>3. ASSUME NEW w \in Workers, RunTool(w) \/ Speak(w) PROVE FramesDated'
  <2>1. PICK f \in Frames : outbox' = [outbox EXCEPT ![w] = Append(@, f)] /\ f.at = probes[w]
    <3>1. CASE RunTool(w)
      <4>1. Head(inbox[w]) \in Calls
        BY <1>0, <3>1 DEF RunTool
      <4>2. [call |-> Head(inbox[w]), at |-> probes[w]] \in Frames
        BY <1>0, <4>1 DEF Frames
      <4> QED
        BY <3>1, <4>2 DEF RunTool
    <3>2. CASE Speak(w)
      <4>1. [call |-> None, at |-> probes[w]] \in Frames
        BY <1>0 DEF Frames
      <4> QED
        BY <3>2, <4>1 DEF Speak
    <3> QED
      BY <1>3, <3>1, <3>2
  <2>2. UNCHANGED <<pc, worker, taken, probes>>
    BY <1>3 DEF RunTool, Speak
  <2>3. ASSUME NEW v \in Workers, Dated(v) PROVE Dated(v)'
    <3>1. CASE v = w
      <4>1. outbox'[v] = Append(outbox[v], f) /\ outbox[v] \in Seq(Frames)
        BY <1>0, <2>1, <3>1
      <4>2. /\ Len(outbox'[v]) = Len(outbox[v]) + 1
            /\ \A i \in 1..Len(outbox'[v]) :
                  outbox'[v][i] = IF i = Len(outbox[v]) + 1 THEN f ELSE outbox[v][i]
        BY <4>1
      <4> QED
        BY <2>1, <2>2, <2>3, <3>1, <4>1, <4>2 DEF Dated
    <3>2. CASE v # w
      BY <1>0, <2>1, <2>2, <2>3, <3>2 DEF Dated
    <3> QED
      BY <3>1, <3>2
  <2> QED
    BY <2>2, <2>3 DEF FramesDated, Waiting
<1>4. ASSUME NEW s \in Sessions, Probes(s) PROVE FramesDated'
  <2> SUFFICES ASSUME NEW t \in Sessions, pc'[t] \in Waiting
               PROVE  /\ worker'[t] \in Workers /\ Dated(worker[t])'
                      /\ pc'[t] = "after" => taken'[t] \in Frames /\ taken'[t].at = probes'[worker'[t]]
    BY <1>4 DEF FramesDated, Probes, CallMoves
  <2>1. CASE t = s
    BY <1>0, <1>4, <2>1 DEF Probes, CallMoves, Dated
  <2>2. CASE t # s
    <3>1. pc'[t] = pc[t] /\ worker[s] # worker[t] /\ worker[t] \in Workers
      BY <1>0, <1>4, <1>a, <2>2 DEF Probes, CallMoves, FramesDated
    <3>2. probes'[worker[t]] = probes[worker[t]] /\ UNCHANGED <<outbox, taken, worker>>
      BY <1>0, <1>4, <3>1 DEF Probes, CallMoves
    <3> QED
      BY <3>1, <3>2 DEF FramesDated, Dated
  <2> QED
    BY <2>1, <2>2
<1>5. ASSUME NEW s \in Sessions, Sends(s) PROVE FramesDated'
  BY <1>0, <1>5 DEF Sends, CallMoves, FramesDated, Dated, Waiting
<1>6. ASSUME NEW s \in Sessions, Takes(s) PROVE FramesDated'
  <2> DEFINE w == worker[s]
  <2>1. w \in Workers /\ Dated(w) /\ outbox[w] # <<>> /\ outbox[w] \in Seq(Frames)
    BY <1>0, <1>6 DEF Takes, CallMoves, FramesDated, Waiting
  <2>2. Head(outbox[w]) = outbox[w][1] /\ outbox[w][1] \in Frames /\ Len(outbox[w]) >= 1
    BY <2>1
  <2>3. Head(outbox[w]) \in Frames /\ Head(outbox[w]).at = probes[w]
    BY <2>1, <2>2 DEF Dated
  <2>4. UNCHANGED <<worker, probes>> /\ \A v \in Workers : v # w => outbox'[v] = outbox[v]
    BY <1>0, <1>6 DEF Takes, CallMoves
  <2>5. Dated(w)'
    <3>1. outbox'[w] = Tail(outbox[w])
      BY <1>0, <1>6, <2>1 DEF Takes
    <3>2. /\ Len(outbox'[w]) = Len(outbox[w]) - 1
          /\ \A i \in 1..Len(outbox'[w]) : outbox'[w][i] = outbox[w][i + 1]
      BY <2>1, <2>2, <3>1
    <3> QED
      BY <2>1, <2>2, <2>4, <3>2 DEF Dated
  <2>6. ASSUME NEW t \in Sessions, pc'[t] \in Waiting
        PROVE  /\ worker'[t] \in Workers /\ Dated(worker[t])'
               /\ pc'[t] = "after" => taken'[t] \in Frames /\ taken'[t].at = probes'[worker'[t]]
    <3>1. CASE t = s
      BY <1>0, <1>6, <2>1, <2>3, <2>4, <2>5, <3>1 DEF Takes
    <3>2. CASE t # s
      <4>1. pc'[t] = pc[t] /\ taken'[t] = taken[t]
        BY <1>0, <1>6, <3>2 DEF Takes, CallMoves
      <4>2. worker[t] \in Workers /\ worker[t] # w
        BY <1>a, <2>1, <2>6, <3>2, <4>1 DEF FramesDated
      <4> QED
        BY <2>4, <2>6, <4>1, <4>2 DEF FramesDated, Dated
    <3> QED
      BY <3>1, <3>2
  <2> QED
    BY <2>4, <2>6 DEF FramesDated
<1> QED
  BY OnWire, <1>1, <1>2, <1>3, <1>4, <1>5, <1>6

-----------------------------------------------------------------------------
(***************************************************************************)
(* Frames of the right call: while no worker speaks unasked, the only one  *)
(* with anything on its wire is read by the call that asked it.            *)
(***************************************************************************)
Quiet(w) == inbox[w] = <<>> /\ outbox[w] = <<>>
Own(s) == <<s, call[s]>>
Asked(s, w) == inbox[w] = <<Own(s)>> /\ outbox[w] = <<>>
Answered(s, w) == inbox[w] = <<>> /\ Len(outbox[w]) = 1 /\ Head(outbox[w]).call = Own(s)
Reads(s, w) == pc[s] = "read" /\ worker[s] = w /\ (Asked(s, w) \/ Answered(s, w))
OnlyOwnOnWire ==
    spoken = 0 =>
        /\ \A w \in Workers : Quiet(w) \/ \E s \in Sessions : Reads(s, w)
        /\ \A s \in Sessions : pc[s] = "after" => taken[s].call = Own(s)

LEMMA OnlyOwnOnWireKept ==
    ServingInv /\ HandsApart /\ OnlyOwnOnWire /\ [Next]_vars => OnlyOwnOnWire'
<1> SUFFICES ASSUME ServingInv, HandsApart, OnlyOwnOnWire, [Next]_vars PROVE OnlyOwnOnWire'
  OBVIOUS
<1>0. /\ pc \in [Sessions -> Steps] /\ spoken \in Nat
      /\ outbox \in [Workers -> Seq(Frames)] /\ inbox \in [Workers -> Seq(Calls)]
      /\ taken \in [Sessions -> Frames \cup {None}]
  BY DEF ServingInv, TypeOK
<1>a. \A s, t \in Sessions : s # t /\ worker[s] \in Workers => worker[s] # worker[t]
  BY NoneIsNoWorker DEF HandsApart
<1> DEFINE Wires == \A w \in Workers : Quiet(w) \/ \E s \in Sessions : Reads(s, w)
           Takings == \A s \in Sessions : pc[s] = "after" => taken[s].call = Own(s)
\* Who takes up a worker finds nothing on its wire.
<1>b. ASSUME Wires, NEW s \in Sessions, pc[s] # "read", worker[s] \in Workers
      PROVE  Quiet(worker[s])
  BY <1>b, <1>a DEF Reads
<1>c. NobodyJoins /\ Takings => Takings'
  BY DEF NobodyJoins, Waiting, Own
<1>1. ASSUME Still PROVE OnlyOwnOnWire'
  <2>1. UNCHANGED <<inbox, outbox, spoken>> /\ NobodyJoins
    BY <1>1 DEF Still
  <2>2. ASSUME NEW s \in Sessions, NEW w \in Workers, Reads(s, w) PROVE Reads(s, w)'
    <3>1. pc'[s] = "read" /\ worker'[s] = worker[s] /\ call'[s] = call[s]
      BY <1>1, <2>2 DEF Reads, Still, NobodyJoins, Waiting
    <3> QED
      BY <2>1, <2>2, <3>1 DEF Reads, Asked, Answered, Own
  <2>3. \A w \in Workers : Quiet(w) => Quiet(w)'
    BY <2>1 DEF Quiet
  <2> QED
    BY <1>c, <2>1, <2>2, <2>3 DEF OnlyOwnOnWire
<1>2. ASSUME NEW w \in Workers, Cut(w) PROVE OnlyOwnOnWire'
  <2>1. /\ inbox' = [inbox EXCEPT ![w] = <<>>] /\ outbox' = [outbox EXCEPT ![w] = <<>>]
        /\ spoken' = spoken /\ NobodyJoins
    BY <1>2 DEF Cut
  <2>2. Quiet(w)'
    BY <1>0, <2>1 DEF Quiet
  <2>3. ASSUME NEW v \in Workers, v # w PROVE inbox'[v] = inbox[v] /\ outbox'[v] = outbox[v]
    BY <1>0, <2>1, <2>3
  <2>4. ASSUME NEW s \in Sessions, NEW v \in Workers, v # w, Reads(s, v) PROVE Reads(s, v)'
    <3>1. pc'[s] = "read" /\ worker'[s] = worker[s] /\ call'[s] = call[s]
      BY <1>2, <2>4 DEF Reads, Cut, NobodyJoins, Waiting
    <3> QED
      BY <2>3, <2>4, <3>1 DEF Reads, Asked, Answered, Own
  <2>5. \A v \in Workers : v # w /\ Quiet(v) => Quiet(v)'
    BY <2>3 DEF Quiet
  <2> QED
    BY <1>c, <2>1, <2>2, <2>4, <2>5 DEF OnlyOwnOnWire
<1>3. ASSUME NEW w \in Workers, RunTool(w) PROVE OnlyOwnOnWire'
  <2>1. /\ inbox[w] # <<>> /\ inbox' = [inbox EXCEPT ![w] = Tail(@)]
        /\ outbox' = [outbox EXCEPT ![w] = Append(@, [call |-> Head(inbox[w]), at |-> probes[w]])]
        /\ UNCHANGED <<spoken, pc, worker, call, taken>>
    BY <1>3 DEF RunTool
  <2>2. CASE spoken # 0
    BY <2>1, <2>2 DEF OnlyOwnOnWire
  <2>3. CASE spoken = 0
    <3>1. PICK s \in Sessions : Reads(s, w)
      BY <2>1, <2>3 DEF OnlyOwnOnWire, Quiet
    <3>2. Asked(s, w)
      BY <2>1, <3>1 DEF Reads, Answered
    <3>3. /\ inbox'[w] = Tail(<<Own(s)>>)
          /\ outbox'[w] = Append(<<>>, [call |-> Own(s), at |-> probes[w]])
      BY <1>0, <2>1, <3>2 DEF Asked
    <3>4. inbox'[w] = <<>> /\ Len(outbox'[w]) = 1 /\ Head(outbox'[w]).call = Own(s)
      BY <3>3
    <3>5. Reads(s, w)'
      BY <2>1, <3>1, <3>4 DEF Reads, Answered, Own
    <3>6. ASSUME NEW v \in Workers, v # w
          PROVE  /\ Quiet(v) => Quiet(v)'
                 /\ \A t \in Sessions : Reads(t, v) => Reads(t, v)'
      <4>1. inbox'[v] = inbox[v] /\ outbox'[v] = outbox[v]
        BY <1>0, <2>1, <3>6
      <4> QED
        BY <2>1, <4>1 DEF Quiet, Reads, Asked, Answered, Own
    <3>7. Takings'
      BY <2>1, <2>3 DEF OnlyOwnOnWire, Own
    <3> QED
      BY <2>3, <3>5, <3>6, <3>7 DEF OnlyOwnOnWire
  <2> QED
    BY <2>2, <2>3
<1>4. ASSUME NEW w \in Workers, Speak(w) PROVE OnlyOwnOnWire'
  BY <1>0, <1>4 DEF Speak, OnlyOwnOnWire
<1>5. ASSUME NEW s \in Sessions, Probes(s) PROVE OnlyOwnOnWire'
  <2>1. UNCHANGED <<inbox, outbox, spoken, worker, call, taken>> /\ pc[s] = "probe"
        /\ pc' = [pc EXCEPT ![s] = "write"]
    BY <1>5 DEF Probes, CallMoves
  <2>2. \A t \in Sessions : (pc[t] = "read" => pc'[t] = "read") /\ (pc'[t] = "after" => pc[t] = "after")
    BY <1>0, <2>1
  <2>3. ASSUME NEW t \in Sessions, NEW v \in Workers, Reads(t, v) PROVE Reads(t, v)'
    BY <2>1, <2>2, <2>3 DEF Reads, Asked, Answered, Own
  <2>4. \A v \in Workers : Quiet(v) => Quiet(v)'
    BY <2>1 DEF Quiet
  <2>5. Takings => Takings'
    BY <2>1, <2>2 DEF Own
  <2> QED
    BY <2>1, <2>3, <2>4, <2>5 DEF OnlyOwnOnWire
<1>6. ASSUME NEW s \in Sessions, Sends(s) PROVE OnlyOwnOnWire'
  <2> DEFINE w == worker[s]
  <2>1. /\ inbox' = [inbox EXCEPT ![w] = Append(@, Own(s))] /\ w \in Workers
        /\ UNCHANGED <<outbox, spoken, worker, call, taken>> /\ pc[s] = "write"
        /\ pc' = [pc EXCEPT ![s] = "read"]
    BY <1>6 DEF Sends, CallMoves, Own
  <2>2. CASE spoken # 0
    BY <2>1, <2>2 DEF OnlyOwnOnWire
  <2>3. CASE spoken = 0
    <3>1. Quiet(w)
      BY <1>b, <2>1, <2>3 DEF OnlyOwnOnWire
    <3>2. inbox'[w] = <<Own(s)>> /\ outbox'[w] = <<>>
      BY <1>0, <2>1, <3>1 DEF Quiet
    <3>3. pc'[s] = "read"
      BY <1>0, <2>1
    <3>4. Reads(s, w)'
      BY <2>1, <3>2, <3>3 DEF Reads, Asked, Own
    <3>5. \A t \in Sessions : (pc[t] = "read" => pc'[t] = "read") /\ (pc'[t] = "after" => pc[t] = "after")
      BY <1>0, <2>1
    <3>6. ASSUME NEW v \in Workers, v # w
          PROVE  /\ Quiet(v) => Quiet(v)'
                 /\ \A t \in Sessions : Reads(t, v) => Reads(t, v)'
      <4>1. inbox'[v] = inbox[v] /\ outbox'[v] = outbox[v]
        BY <1>0, <2>1, <3>6
      <4> QED
        BY <2>1, <3>5, <4>1 DEF Quiet, Reads, Asked, Answered, Own
    <3>7. Takings'
      BY <2>1, <2>3, <3>5 DEF OnlyOwnOnWire, Own
    <3>8. Wires'
      <4> SUFFICES ASSUME NEW v \in Workers PROVE Quiet(v)' \/ \E t \in Sessions : Reads(t, v)'
        OBVIOUS
      <4>1. CASE v = w
        BY <2>1, <3>4, <4>1
      <4>2. CASE v # w
        BY <2>3, <3>6, <4>2 DEF OnlyOwnOnWire
      <4> QED
        BY <4>1, <4>2
    <3> QED
      BY <3>7, <3>8 DEF OnlyOwnOnWire
  <2> QED
    BY <2>2, <2>3
<1>7. ASSUME NEW s \in Sessions, Takes(s) PROVE OnlyOwnOnWire'
  <2> DEFINE w == worker[s]
  <2>1. /\ outbox' = [outbox EXCEPT ![w] = Tail(@)] /\ w \in Workers /\ outbox[w] # <<>>
        /\ taken' = [taken EXCEPT ![s] = Head(outbox[w])]
        /\ UNCHANGED <<inbox, spoken, worker, call>> /\ pc[s] = "read"
        /\ pc' = [pc EXCEPT ![s] = "after"]
    BY <1>7 DEF Takes, CallMoves
  <2>2. CASE spoken # 0
    BY <2>1, <2>2 DEF OnlyOwnOnWire
  <2>3. CASE spoken = 0
    <3>1. PICK t \in Sessions : Reads(t, w)
      BY <2>1, <2>3 DEF OnlyOwnOnWire, Quiet
    <3>2. t = s
      BY <1>a, <2>1, <3>1 DEF Reads
    <3>3. Answered(s, w)
      BY <2>1, <3>1, <3>2 DEF Reads, Asked
    <3>4. Quiet(w)'
      <4>1. outbox[w] \in Seq(Frames) /\ outbox'[w] = Tail(outbox[w])
        BY <1>0, <2>1
      <4>2. outbox'[w] = <<>>
        <5>1. Len(outbox[w]) = 1
          BY <3>3 DEF Answered
        <5>2. Tail(outbox[w]) \in Seq(Frames) /\ Len(Tail(outbox[w])) = 0
          BY <2>1, <4>1, <5>1
        <5>3. \A q \in Seq(Frames) : Len(q) = 0 => q = <<>>
          OBVIOUS
        <5> QED
          BY <4>1, <5>2, <5>3
      <4> QED
        BY <2>1, <3>3, <4>2 DEF Quiet, Answered
    <3>5. \A u \in Sessions : u # s => pc'[u] = pc[u] /\ taken'[u] = taken[u]
      BY <1>0, <2>1
    <3>6. taken'[s].call = Own(s)
      BY <1>0, <2>1, <3>3 DEF Answered
    <3>7. Takings'
      BY <2>1, <2>3, <3>5, <3>6 DEF OnlyOwnOnWire, Own
    <3>8. ASSUME NEW v \in Workers, v # w
          PROVE  /\ Quiet(v) => Quiet(v)'
                 /\ \A u \in Sessions : Reads(u, v) => Reads(u, v)'
      <4>1. inbox'[v] = inbox[v] /\ outbox'[v] = outbox[v]
        BY <1>0, <2>1, <3>8
      <4> QED
        BY <2>1, <3>5, <3>8, <4>1 DEF Quiet, Reads, Asked, Answered, Own
    <3>9. Wires'
      <4> SUFFICES ASSUME NEW v \in Workers PROVE Quiet(v)' \/ \E u \in Sessions : Reads(u, v)'
        OBVIOUS
      <4>1. CASE v = w
        BY <2>1, <3>4, <4>1
      <4>2. CASE v # w
        BY <2>3, <3>8, <4>2 DEF OnlyOwnOnWire
      <4> QED
        BY <4>1, <4>2
    <3> QED
      BY <3>7, <3>9 DEF OnlyOwnOnWire
  <2> QED
    BY <2>2, <2>3
<1> QED
  BY OnWire, <1>1, <1>2, <1>3, <1>4, <1>5, <1>6, <1>7

(***************************************************************************)
(* The reply a call takes was sent after it had looked for frames nobody   *)
(* asked for, and while no worker sends such frames it answers that call:  *)
(* the late answer to a call that timed out is never taken                 *)
(* (executor.py:342-372).                                                  *)
(***************************************************************************)
THEOREM AnswerIsCallsOwn == Spec => []AnswerIsOwn
<1> DEFINE WireInv == HandsApart /\ FramesDated /\ OnlyOwnOnWire
<1>1. Init => ServingInv /\ WireInv
  <2> SUFFICES ASSUME Init PROVE WireInv
    BY InitServing
  <2>1. /\ pc = [s \in Sessions |-> "idle"] /\ worker = [s \in Sessions |-> None]
        /\ inbox = [w \in Workers |-> <<>>] /\ outbox = [w \in Workers |-> <<>>]
    BY DEF Init, ExecutorInit
  <2> QED
    BY <2>1 DEF HandsApart, FramesDated, OnlyOwnOnWire, Waiting, Quiet
<1>2. ServingInv /\ WireInv /\ [Next]_vars => WireInv'
  BY HandsApartKept, FramesDatedKept, OnlyOwnOnWireKept
<1>3. ServingInv /\ WireInv => AnswerIsOwn
  BY DEF AnswerIsOwn, FramesDated, OnlyOwnOnWire, Waiting, Own
<1>4. Spec => []WireInv
  BY <1>1, <1>2, ServingInvariant, PTL DEF Spec
<1> QED
  BY <1>3, <1>4, ServingInvariant, PTL

-----------------------------------------------------------------------------
(***************************************************************************)
(* The live workers.  Those the gate has received are counted by the slots *)
(* of their sessions, a spawn under way takes the place of the worker it   *)
(* is for; what is on its way from the nursery is counted by the spawns    *)
(* that asked for it and do not wait for it any more.                      *)
(***************************************************************************)
Waiters == {s \in Sessions : pc[s] = "spawn"}
Spawn == IF Waiters = {} THEN 0 ELSE 1
LiveReceived == alive \cap Received

RequestsCounted == asked + Len(offered) = late + Spawn
Has(s, w) == registered[s] = w \/ (pc[s] \in {"boot", "halt"} /\ worker[s] = w)
LiveAreOwned ==
    ~closed /\ ~aborting =>
        \A w \in LiveReceived : w = spare \/ \E s \in Sessions : Has(s, w)
RoomKept == Cardinality(LiveReceived) + Spawn <= MaxWorkers
LiveInv == RequestsCounted /\ LiveAreOwned /\ RoomKept

\* A step that is none of the gate's spawning.
LEMMA SpawnStays ==
    ASSUME \A s \in Sessions : pc'[s] = "spawn" <=> pc[s] = "spawn"
    PROVE  Spawn' = Spawn
<1>1. Waiters' = Waiters
  BY DEF Waiters
<1> QED
  BY <1>1 DEF Spawn

\* The thread that waits for the nursery waits alone.
LEMMA OneWaits ==
    ASSUME ServingInv
    PROVE  \A s, t \in Sessions : pc[s] = "spawn" /\ pc[t] \in Spawning => s = t
  BY DEF ServingInv, LockIsSpawners, Spawning

LEMMA NoneWaits ==
    ASSUME ServingInv, lock = Free
    PROVE  Spawn = 0
  BY DEF ServingInv, LockIsSpawners, Spawning, Spawn, Waiters

LEMMA RequestsCountedKept == ServingInv /\ RequestsCounted /\ [Next]_vars => RequestsCounted'
<1> SUFFICES ASSUME ServingInv, RequestsCounted, [Next]_vars PROVE RequestsCounted'
  OBVIOUS
<1>0. /\ pc \in [Sessions -> Steps] /\ asked \in Nat /\ late \in Nat
      /\ offered \in Seq(Workers) /\ Len(offered) \in Nat /\ forked \in Workers
  BY DEF ServingInv, TypeOK
<1>a. ASSUME UNCHANGED <<asked, offered, late>>, \A s \in Sessions : pc'[s] = "spawn" <=> pc[s] = "spawn"
      PROVE  RequestsCounted'
  BY <1>a, SpawnStays DEF RequestsCounted
<1>1. ASSUME NEW s \in Sessions, Ask(s) PROVE RequestsCounted'
  <2>1. CASE AskNursery(s)
    <3>1. pc' = [pc EXCEPT ![s] = "spawn"] /\ asked' = asked + 1 /\ UNCHANGED <<offered, late>>
      BY <1>1, <2>1 DEF Ask, AskNursery
    <3>2. s \in Waiters'
      BY <1>0, <3>1 DEF Waiters
    <3>3. Spawn' = 1 /\ Spawn = 0
      BY <1>1, <3>2, NoneWaits DEF Spawn, Ask
    <3> QED
      BY <1>0, <3>1, <3>3 DEF RequestsCounted
  <2>2. CASE Aborted(s) \/ Reuse(s) \/ TakeSpare(s) \/ Refuse(s)
    <3>1. UNCHANGED asked
      BY <2>2 DEF Aborted, Reuse, TakeSpare, Refuse
    <3>2. \E to \in {"idle", "check"} : pc' = [pc EXCEPT ![s] = to]
      BY <2>2 DEF Aborted, Reuse, TakeSpare, Refuse
    <3> QED
      BY <1>0, <1>1, <1>a, <3>1, <3>2 DEF Ask
  <2> QED
    BY <1>1, <2>1, <2>2 DEF Ask
<1>2. ASSUME NEW s \in Sessions, SpawnSteps(s) PROVE RequestsCounted'
  <2>1. ASSUME NEW to, pc[s] = "spawn", to # "spawn", pc' = [pc EXCEPT ![s] = to]
        PROVE  Spawn = 1 /\ Spawn' = 0
    <3>1. s \in Waiters
      BY <2>1 DEF Waiters
    <3>2. Waiters' = {}
      BY <1>0, <2>1, OneWaits DEF Waiters, Spawning
    <3> QED
      BY <3>1, <3>2 DEF Spawn
  <2>2. CASE TakeWorker(s)
    <3>1. Spawn = 1 /\ Spawn' = 0
      BY <2>1, <2>2 DEF TakeWorker
    <3>2. Len(offered') = Len(offered) - 1
      BY <1>0, <2>2 DEF TakeWorker
    <3> QED
      BY <1>0, <2>2, <3>1, <3>2 DEF TakeWorker, RequestsCounted
  <2>3. CASE SpawnTimeout(s)
    <3>1. Spawn = 1 /\ Spawn' = 0
      BY <2>1, <2>3 DEF SpawnTimeout
    <3>2. UNCHANGED <<asked, offered>> /\ late' = late + 1
      BY <2>3 DEF SpawnTimeout
    <3> QED
      BY <1>0, <3>1, <3>2 DEF RequestsCounted
  <2>4. CASE Register(s)
    BY <1>0, <1>a, <2>4 DEF Register
  <2>5. CASE BootFails(s)
    BY <1>0, <1>a, <2>5 DEF BootFails
  <2> QED
    BY <1>2, <2>2, <2>3, <2>4, <2>5 DEF SpawnSteps
<1>3. ASSUME NEW s \in Sessions, CallSteps(s) PROVE RequestsCounted'
  <2>1. UNCHANGED <<asked, offered, late>>
    BY <1>3 DEF CallSteps, CheckOpen, SetTimeoutRaises, Probe, WriteRequest, ReadReply,
        CallTimeout, FinishCall
  <2>2. \/ \E to \in Calling : pc' = [pc EXCEPT ![s] = to]
        \/ pc' = [pc EXCEPT ![s] = "discard"]
        \/ pc' = [pc EXCEPT ![s] = "idle"]
    BY <1>3, CallOutcome DEF Goes, Fails, Returns
  <2>3. pc[s] \in Calling
    BY <1>3, CallOutcome DEF Goes, Fails, Returns
  <2> QED
    BY <1>0, <1>a, <2>1, <2>2, <2>3 DEF Calling
<1>4. ASSUME NEW s \in Sessions, Discard(s) PROVE RequestsCounted'
  BY <1>0, <1>a, <1>4 DEF Discard
<1>5. ASSUME NEW s \in Sessions, Release(s) \/ ReleaseClose(s) PROVE RequestsCounted'
  BY <1>0, <1>a, <1>5 DEF Release, ReleaseClose
<1>6. ASSUME AbortCalls \/ Close \/ \E x \in Stoppers : StopWorker(x) \/ StopEnds(x) PROVE RequestsCounted'
  BY <1>a, <1>6 DEF AbortCalls, Close, StopWorker, StopEnds
<1>7. CASE Fork
  <2>1. Len(offered') = Len(offered) + 1 /\ asked' = asked - 1 /\ UNCHANGED <<pc, late>> /\ asked > 0
    <3>1. forked + 1 \in Workers
      BY <1>0, <1>7 DEF Fork, Workers
    <3> QED
      BY <1>0, <1>7, <3>1 DEF Fork
  <2>2. Spawn' = Spawn
    BY <2>1, SpawnStays
  <2> QED
    BY <1>0, <2>1, <2>2 DEF RequestsCounted, Spawn
<1>8. ASSUME NEW w \in Workers, Boot(w) \/ RunTool(w) \/ Speak(w) \/ Die(w) PROVE RequestsCounted'
  BY <1>a, <1>8 DEF Boot, RunTool, Speak, Die
<1>9. ASSUME NEW s \in Sessions, BeginCall(s) \/ DropSession(s) PROVE RequestsCounted'
  BY <1>0, <1>a, <1>9 DEF BeginCall, DropSession
<1>10. ASSUME UNCHANGED <<thread, spawning, late>> PROVE RequestsCounted'
  BY <1>a, <1>10
<1> QED
  <2>1. CASE Executing(ExecutorNext)
    BY <1>1, <1>2, <1>3, <1>4, <1>5, <1>6, <1>7, <1>8, <2>1
    DEF ExecutorNext, ThreadSteps, StopperSteps, ProcessSteps
  <2>2. CASE \E s \in Sessions : Connection(s)
    BY <1>9, <1>10, <2>2 DEF Connection, Returning, OpenSession, HangUp, FreeSlot
  <2>3. CASE AcceptLoop \/ RequestStop \/ BeginClose \/ UNCHANGED vars
    BY <1>10, <2>3
    DEF AcceptLoop, AcceptEnds, AcceptFails, BeginAbort, Accept, ThreadFails, RequestStop, BeginClose
  <2> QED
    BY <2>1, <2>2, <2>3 DEF Next

\* A live worker that has been received is somebody's, until a stop begins.
LEMMA LiveAreOwnedKept == ServingInv /\ LiveAreOwned /\ [Next]_vars => LiveAreOwned'
<1> SUFFICES ASSUME ServingInv, LiveAreOwned, [Next]_vars, ~closed', ~aborting',
                    NEW w \in LiveReceived'
             PROVE  (w = spare \/ \E s \in Sessions : Has(s, w))'
  BY DEF LiveAreOwned
<1>0. /\ pc \in [Sessions -> Steps] /\ worker \in [Sessions -> Workers \cup {None}]
      /\ registered \in [Sessions -> Workers \cup {None}]
      /\ offered \in Seq(Workers) /\ forked \in Workers /\ alive \in SUBSET Workers
      /\ ClosedAreGone /\ HandsKnown
  BY DEF ServingInv, TypeOK
<1> DEFINE Goal == (w = spare \/ \E s \in Sessions : Has(s, w))'
<1>w. w # None
  BY NoneIsNoWorker DEF LiveReceived, Received, Workers
\* What a step keeps of somebody's worker.
<1>a. ASSUME ~closed, ~aborting, w \in LiveReceived, spare' = spare,
             \A s \in Sessions : Has(s, w) => Has(s, w)'
      PROVE  Goal
  BY <1>a DEF LiveAreOwned
<1>b. ASSUME UNCHANGED <<offered, forked, alive>> \/ (UNCHANGED <<offered, forked>> /\ alive' \subseteq alive)
      PROVE  w \in LiveReceived
  BY <1>b DEF LiveReceived, Received, Handed
<1>1. ASSUME NEW s \in Sessions, Ask(s) PROVE Goal
  <2>0. w \in LiveReceived /\ w \notin shut /\ ~closed /\ ~aborting /\ pc[s] = "ask"
        /\ UNCHANGED <<alive, shut, offered, forked>>
    <3>1. UNCHANGED <<alive, shut, offered, forked, closed, aborting>>
      BY <1>1 DEF Ask
    <3> QED
      BY <1>0, <1>1, <1>b, <3>1 DEF LiveReceived, ClosedAreGone, Ask
  <2>1. CASE Aborted(s)
    BY <2>0, <2>1 DEF Aborted
  <2>2. CASE Reuse(s)
    BY <1>0, <1>a, <2>0, <2>2 DEF Reuse, Has
  <2>3. CASE TakeSpare(s)
    <3>1. /\ registered' = [registered EXCEPT ![s] = spare] /\ pc' = [pc EXCEPT ![s] = "check"]
          /\ worker' = [worker EXCEPT ![s] = spare] /\ ~Usable(registered[s])
      BY <2>3 DEF TakeSpare
    <3>2. \A t \in Sessions : t # s => registered'[t] = registered[t] /\ pc'[t] = pc[t] /\ worker'[t] = worker[t]
      BY <1>0, <3>1
    <3>3. w = spare => Has(s, w)'
      BY <1>0, <3>1 DEF Has
    <3>4. ~Has(s, w)
      BY <1>w, <2>0, <3>1 DEF Has
    <3>5. \A t \in Sessions : Has(t, w) => Has(t, w)'
      BY <3>2, <3>4 DEF Has
    <3> QED
      BY <2>0, <3>3, <3>5 DEF LiveAreOwned
  <2>4. CASE Refuse(s)
    BY <1>0, <1>a, <1>w, <2>0, <2>4 DEF Refuse, AtLimit, Has
  <2>5. CASE AskNursery(s)
    BY <1>0, <1>a, <1>w, <2>0, <2>5 DEF AskNursery, Has
  <2> QED
    BY <1>1, <2>1, <2>2, <2>3, <2>4, <2>5 DEF Ask
<1>2. ASSUME NEW s \in Sessions, SpawnSteps(s) PROVE Goal
  <2>0. ~closed /\ ~aborting /\ UNCHANGED spare
    BY <1>2 DEF SpawnSteps, TakeWorker, SpawnTimeout, Register, BootFails
  <2>1. CASE TakeWorker(s)
    <3>1. pc' = [pc EXCEPT ![s] = "boot"] /\ worker' = [worker EXCEPT ![s] = Head(offered)]
          /\ UNCHANGED <<registered, forked, alive>> /\ offered' = Tail(offered)
          /\ offered # <<>> /\ pc[s] = "spawn"
      BY <2>1 DEF TakeWorker
    <3>2. Head(offered) = Handed + 1
      BY <3>1, OfferedShrinks DEF ServingInv
    <3>3. Handed' = Handed + 1 /\ Handed \in Int
      BY <1>0, <3>1 DEF Handed, Workers
    <3>4. CASE w = Handed + 1
      <4>1. Has(s, w)'
        BY <1>0, <3>1, <3>2, <3>4 DEF Has
      <4> QED
        BY <4>1
    <3>5. CASE w # Handed + 1
      <4>1. w \in LiveReceived
        BY <3>1, <3>3, <3>5 DEF LiveReceived, Received
      <4>2. \A t \in Sessions : Has(t, w) => Has(t, w)'
        BY <1>0, <3>1 DEF Has
      <4> QED
        BY <1>a, <2>0, <4>1, <4>2
    <3> QED
      BY <3>4, <3>5
  <2>2. CASE SpawnTimeout(s)
    BY <1>0, <1>a, <1>b, <2>0, <2>2 DEF SpawnTimeout, Has
  <2>3. CASE Register(s)
    <3>1. w \in LiveReceived
      BY <1>b, <2>3 DEF Register
    <3>2. registered[s] = None
      BY <2>3 DEF Register, ServingInv, LockIsSpawners, Spawning
    <3>3. \A t \in Sessions : Has(t, w) => Has(t, w)'
      BY <1>0, <1>w, <2>3, <3>2 DEF Register, Has
    <3> QED
      BY <1>a, <2>0, <3>1, <3>3
  <2>4. CASE BootFails(s)
    <3>1. w \in LiveReceived /\ w # worker[s]
      BY <1>b, <2>4 DEF BootFails, LiveReceived
    <3>2. \A t \in Sessions : Has(t, w) => Has(t, w)'
      BY <1>0, <2>4, <3>1 DEF BootFails, Has
    <3> QED
      BY <1>a, <2>0, <3>1, <3>2
  <2> QED
    BY <1>2, <2>1, <2>2, <2>3, <2>4 DEF SpawnSteps
<1>3. ASSUME NEW s \in Sessions, Goes(s) \/ Fails(s) \/ Returns(s) PROVE Goal
  <2>1. w \in LiveReceived /\ ~closed /\ ~aborting /\ UNCHANGED <<spare, registered>>
    BY <1>3, <1>b DEF Goes, Fails, Returns
  <2>2. \A t \in Sessions : Has(t, w) => Has(t, w)'
    BY <1>0, <1>3 DEF Goes, Fails, Returns, Has, Calling
  <2> QED
    BY <1>a, <2>1, <2>2
<1>4. ASSUME NEW s \in Sessions, Discard(s) PROVE Goal
  <2>1. w \in LiveReceived /\ ~closed /\ ~aborting /\ UNCHANGED spare
    BY <1>4, <1>b DEF Discard
  <2>2. w # worker[s]
    BY <1>0, <1>4, <2>1 DEF Discard, HandsKnown, ClosedAreGone, LiveReceived
  <2>3. \A t \in Sessions : Has(t, w) => Has(t, w)'
    BY <1>0, <1>4, <2>2 DEF Discard, Has
  <2> QED
    BY <1>a, <2>1, <2>3
<1>5. ASSUME NEW s \in Sessions, Release(s) PROVE Goal
  <2>1. w \in LiveReceived /\ ~closed /\ ~aborting /\ UNCHANGED spare
    BY <1>5, <1>b DEF Release
  <2>2. \A t \in Sessions \ {s} : Has(t, w) => Has(t, w)'
    BY <1>0, <1>5 DEF Release, Has
  <2>3. Has(s, w) => Has(s, w)'
    BY <1>0, <1>5, <1>w DEF Release, Has
  <2> QED
    BY <1>a, <2>1, <2>2, <2>3
<1>6. ASSUME NEW s \in Sessions, ReleaseClose(s) PROVE Goal
  <2>1. w \in LiveReceived /\ ~closed /\ ~aborting /\ UNCHANGED spare /\ w # worker[s]
    BY <1>6, <1>b DEF ReleaseClose, LiveReceived
  <2>2. \A t \in Sessions : Has(t, w) => Has(t, w)'
    BY <1>0, <1>6, <2>1 DEF ReleaseClose, Has
  <2> QED
    BY <1>a, <2>1, <2>2
<1>7. ASSUME AbortCalls \/ Close PROVE Goal
  BY <1>7 DEF AbortCalls, Close
<1>8. ASSUME NEW x \in Stoppers, StopWorker(x) \/ StopEnds(x) PROVE Goal
  <2>1. w \in LiveReceived /\ ~closed /\ ~aborting /\ UNCHANGED <<spare, registered, pc, worker>>
    BY <1>8, <1>b DEF StopWorker, StopEnds
  <2> QED
    BY <1>a, <2>1 DEF Has
<1>9. CASE Fork
  <2>1. w \in LiveReceived /\ UNCHANGED <<closed, aborting, spare, registered, pc, worker>>
    <3>1. Handed' = Handed /\ alive' = alive \cup {forked + 1} /\ Handed <= forked
      <4>1. forked + 1 \in Workers
        BY <1>0, <1>9 DEF Fork, Workers
      <4>2. Len(offered') = Len(offered) + 1 /\ Len(offered) \in Nat
        BY <1>0, <1>9, <4>1 DEF Fork
      <4> QED
        BY <1>0, <1>9, <4>2 DEF Handed, Fork, Workers
    <3> QED
      BY <1>0, <1>9, <3>1 DEF LiveReceived, Received, Fork, Workers, Handed
  <2> QED
    BY <1>a, <2>1 DEF Has
<1>10. CASE Works
  <2>1. w \in LiveReceived /\ UNCHANGED <<closed, aborting, spare, registered, pc, worker>>
    BY <1>10, <1>b DEF Works
  <2> QED
    BY <1>a, <2>1 DEF Has
<1>11. ASSUME NEW s \in Sessions, BeginCall(s) \/ DropSession(s) PROVE Goal
  <2>1. w \in LiveReceived /\ UNCHANGED <<closed, aborting, spare, registered, worker>>
    BY <1>11, <1>b DEF BeginCall, DropSession
  <2>2. \A t \in Sessions : Has(t, w) => Has(t, w)'
    BY <1>0, <1>11, <2>1 DEF Has, BeginCall, DropSession
  <2> QED
    BY <1>a, <2>1, <2>2
<1>12. ASSUME UNCHANGED <<lock, pool, thread, spawning, process>> PROVE Goal
  BY <1>12, <1>a, <1>b DEF Has
<1> QED
  BY StepKinds, <1>1, <1>2, <1>3, <1>4, <1>5, <1>6, <1>7, <1>8, <1>9, <1>10, <1>11, <1>12
  DEF BeginAbort, BeginClose

\* With the lock free, a session that asks has no live worker, and every other
\* slot has one at most.
LEMMA RoomForOne ==
    ASSUME ServingInv, LiveAreOwned, NEW s \in Sessions, pc[s] = "ask", lock = Free, Fresh(s),
           ~Usable(spare)
    PROVE  Cardinality(LiveReceived) < MaxWorkers
<1> DEFINE Place(t) == IF pc[t] = "halt" THEN worker[t] ELSE registered[t]
           Owners == {t \in Holders \ {s} : Place(t) \in LiveReceived}
           place == [t \in Owners |-> Place(t)]
<1>0. ClosedAreGone /\ ThreadsInPhase /\ PoolFollowsSlots /\ SlotsCounted
  BY DEF ServingInv
<1>1. ASSUME NEW w \in LiveReceived PROVE \E t \in Owners : place[t] = w
  <2>1. w \notin shut /\ w # None
    BY <1>0, NoneIsNoWorker DEF ClosedAreGone, LiveReceived, ServingInv, TypeOK
  <2>2. PICK t \in Sessions : Has(t, w)
    BY <2>1 DEF LiveAreOwned
  <2>3. t # s
    BY <2>1, <2>2 DEF Has
  <2>4. pc[t] # "boot"
    BY DEF ServingInv, LockIsSpawners, Spawning
  <2>5. t \in Holders /\ Place(t) = w
    <3>1. CASE pc[t] = "halt"
      <4>1. phase[t] = "freeing"
        BY <1>0, <3>1 DEF ThreadsInPhase
      <4>2. registered[t] = None
        BY <1>0, <3>1, <4>1 DEF PoolFollowsSlots
      <4> QED
        BY <2>1, <2>2, <3>1, <4>1, <4>2 DEF Has, Holders, Holding
    <3>2. CASE pc[t] # "halt"
      <4>1. registered[t] = w
        BY <2>2, <2>4, <3>2 DEF Has
      <4>2. phase[t] \in Holding
        BY <1>0, <2>1, <4>1 DEF PoolFollowsSlots, Holding
      <4> QED
        BY <3>2, <4>1, <4>2 DEF Holders
    <3> QED
      BY <3>1, <3>2
  <2> QED
    BY <2>3, <2>5
<1>2. place \in Surjection(Owners, LiveReceived)
  <2>1. place \in [Owners -> LiveReceived]
    OBVIOUS
  <2> HIDE DEF place, Owners
  <2> QED
    BY <1>1, <2>1 DEF Surjection
<1>3. s \in Holders
  BY <1>0 DEF ThreadsInPhase, Holders, Holding
<1>4. IsFiniteSet(Holders)
  BY FS_Subset DEF Holders
<1>5. IsFiniteSet(Holders \ {s}) /\ Cardinality(Holders \ {s}) = Cardinality(Holders) - 1
  BY <1>3, <1>4, FS_RemoveElement
<1>6. IsFiniteSet(Owners) /\ Cardinality(Owners) <= Cardinality(Holders \ {s})
  BY <1>5, FS_Subset
<1>7. IsFiniteSet(LiveReceived) /\ Cardinality(LiveReceived) <= Cardinality(Owners)
  BY <1>2, <1>6, FS_Surjection
<1>8. Cardinality(Holders) <= MaxWorkers /\ Cardinality(Holders) \in Nat
  BY <1>0, <1>4, FS_CardinalityType DEF SlotsCounted
<1>9. Cardinality(Owners) \in Nat /\ Cardinality(LiveReceived) \in Nat
  BY <1>6, <1>7, FS_CardinalityType
<1> HIDE DEF Owners
<1> QED
  BY <1>5, <1>6, <1>7, <1>8, <1>9

LEMMA LiveReceivedIsFinite ==
    ASSUME alive \in SUBSET Workers
    PROVE  IsFiniteSet(LiveReceived) /\ Cardinality(LiveReceived) \in Nat
<1>1. IsFiniteSet(Workers)
  BY FS_Interval DEF Workers
<1>2. LiveReceived \in SUBSET Workers
  BY DEF LiveReceived
<1> QED
  BY <1>1, <1>2, FS_Subset, FS_CardinalityType

LEMMA RoomKeptKept ==
    ServingInv /\ LiveAreOwned /\ RoomKept /\ [Next]_vars => RoomKept'
<1> SUFFICES ASSUME ServingInv, LiveAreOwned, RoomKept, [Next]_vars PROVE RoomKept'
  OBVIOUS
<1>0. /\ pc \in [Sessions -> Steps] /\ offered \in Seq(Workers) /\ forked \in Workers
      /\ alive \in SUBSET Workers /\ alive' \in SUBSET Workers
      /\ IsFiniteSet(LiveReceived) /\ Cardinality(LiveReceived) \in Nat
      /\ IsFiniteSet(LiveReceived') /\ Cardinality(LiveReceived') \in Nat
  <2>1. alive \in SUBSET Workers /\ alive' \in SUBSET Workers
    BY TypesKept DEF ServingInv, TypeOK
  <2>2. IsFiniteSet(LiveReceived') /\ Cardinality(LiveReceived') \in Nat
    <3>1. IsFiniteSet(Workers)
      BY FS_Interval DEF Workers
    <3>2. LiveReceived' \in SUBSET Workers
      BY <2>1 DEF LiveReceived
    <3> QED
      BY <3>1, <3>2, FS_Subset, FS_CardinalityType
  <2> QED
    BY <2>1, <2>2, LiveReceivedIsFinite DEF ServingInv, TypeOK
<1>s. Spawn \in 0..1 /\ Spawn' \in 0..1
  BY DEF Spawn
<1>a. ASSUME LiveReceived' \subseteq LiveReceived, Spawn' <= Spawn PROVE RoomKept'
  <2>1. Cardinality(LiveReceived') <= Cardinality(LiveReceived)
    BY <1>0, <1>a, FS_Subset
  <2> QED
    BY <1>0, <1>s, <1>a, <2>1 DEF RoomKept
<1>b. ASSUME UNCHANGED <<offered, forked>>, alive' \subseteq alive PROVE LiveReceived' \subseteq LiveReceived
  BY <1>b DEF LiveReceived, Received, Handed
<1>c. ASSUME \A t \in Sessions : pc'[t] = "spawn" => pc[t] = "spawn" PROVE Spawn' <= Spawn
  <2>1. Waiters' \subseteq Waiters
    BY <1>c DEF Waiters
  <2> QED
    BY <2>1 DEF Spawn
<1>1. ASSUME NEW s \in Sessions, Ask(s) PROVE RoomKept'
  <2>0. LiveReceived' = LiveReceived
    BY <1>1 DEF Ask, LiveReceived, Received, Handed
  <2>1. CASE AskNursery(s)
    <3>1. Cardinality(LiveReceived) < MaxWorkers
      BY <1>1, <2>1, RoomForOne DEF Ask, AskNursery
    <3> QED
      BY <1>0, <1>s, <2>0, <3>1 DEF RoomKept
  <2>2. CASE Aborted(s) \/ Reuse(s) \/ TakeSpare(s) \/ Refuse(s)
    <3>1. \E to \in {"idle", "check"} : pc' = [pc EXCEPT ![s] = to]
      BY <2>2 DEF Aborted, Reuse, TakeSpare, Refuse
    <3> QED
      BY <1>0, <1>a, <1>c, <2>0, <3>1
  <2> QED
    BY <1>1, <2>1, <2>2 DEF Ask
<1>2. ASSUME NEW s \in Sessions, SpawnSteps(s) PROVE RoomKept'
  <2>1. CASE TakeWorker(s)
    <3>1. pc[s] = "spawn" /\ pc' = [pc EXCEPT ![s] = "boot"] /\ UNCHANGED <<forked, alive>>
          /\ offered' = Tail(offered) /\ offered # <<>>
      BY <2>1 DEF TakeWorker
    <3>2. Spawn = 1 /\ Spawn' = 0
      <4>1. s \in Waiters
        BY <3>1 DEF Waiters
      <4>2. Waiters' = {}
        BY <1>0, <3>1, OneWaits DEF Waiters, Spawning
      <4> QED
        BY <4>1, <4>2 DEF Spawn
    <3>3. Handed' = Handed + 1 /\ Handed \in Int
      BY <1>0, <3>1 DEF Handed, Workers
    <3>4. LiveReceived' \subseteq LiveReceived \cup {Handed + 1}
      BY <3>1, <3>3 DEF LiveReceived, Received
    <3>5. /\ IsFiniteSet(LiveReceived \cup {Handed + 1})
          /\ Cardinality(LiveReceived \cup {Handed + 1}) <= Cardinality(LiveReceived) + 1
      <4> DEFINE k == Handed + 1
      <4> HIDE DEF k
      <4>1. /\ IsFiniteSet(LiveReceived \cup {k})
            /\ \/ Cardinality(LiveReceived \cup {k}) = Cardinality(LiveReceived)
               \/ Cardinality(LiveReceived \cup {k}) = Cardinality(LiveReceived) + 1
        BY <1>0, FS_AddElement
      <4>2. /\ IsFiniteSet(LiveReceived \cup {k})
            /\ Cardinality(LiveReceived \cup {k}) <= Cardinality(LiveReceived) + 1
        BY <1>0, <4>1
      <4> QED
        BY <4>2 DEF k
    <3>6. Cardinality(LiveReceived') <= Cardinality(LiveReceived) + 1
      <4>1. Cardinality(LiveReceived') <= Cardinality(LiveReceived \cup {Handed + 1})
        BY <3>4, <3>5, FS_Subset
      <4>2. Cardinality(LiveReceived \cup {Handed + 1}) \in Nat
        BY <3>5, FS_CardinalityType
      <4> QED
        BY <1>0, <3>5, <4>1, <4>2
    <3> QED
      BY <1>0, <3>2, <3>6 DEF RoomKept
  <2>2. CASE SpawnTimeout(s)
    BY <1>0, <1>a, <1>b, <1>c, <2>2 DEF SpawnTimeout
  <2>3. CASE Register(s)
    BY <1>0, <1>a, <1>b, <1>c, <2>3 DEF Register
  <2>4. CASE BootFails(s)
    BY <1>0, <1>a, <1>b, <1>c, <2>4 DEF BootFails
  <2> QED
    BY <1>2, <2>1, <2>2, <2>3, <2>4 DEF SpawnSteps
<1>3. ASSUME NEW s \in Sessions, Goes(s) \/ Fails(s) \/ Returns(s) PROVE RoomKept'
  <2>1. LiveReceived' \subseteq LiveReceived
    BY <1>3, <1>b DEF Goes, Fails, Returns
  <2>2. Spawn' <= Spawn
    BY <1>0, <1>3, <1>c DEF Goes, Fails, Returns, Calling
  <2> QED
    BY <1>a, <2>1, <2>2
<1>4. ASSUME NEW s \in Sessions, Discard(s) PROVE RoomKept'
  BY <1>0, <1>a, <1>b, <1>c, <1>4 DEF Discard
<1>5. ASSUME NEW s \in Sessions, Release(s) PROVE RoomKept'
  BY <1>0, <1>a, <1>b, <1>c, <1>5 DEF Release
<1>6. ASSUME NEW s \in Sessions, ReleaseClose(s) PROVE RoomKept'
  BY <1>0, <1>a, <1>b, <1>c, <1>6 DEF ReleaseClose
<1>7. ASSUME AbortCalls \/ Close PROVE RoomKept'
  BY <1>a, <1>b, <1>c, <1>7 DEF AbortCalls, Close
<1>8. ASSUME NEW x \in Stoppers, StopWorker(x) \/ StopEnds(x) PROVE RoomKept'
  BY <1>a, <1>b, <1>c, <1>8 DEF StopWorker, StopEnds
<1>9. CASE Fork
  <2>1. forked + 1 \in Workers
    BY <1>0, <1>9 DEF Fork, Workers
  <2>2. Len(offered') = Len(offered) + 1 /\ Len(offered) \in Nat
    BY <1>0, <1>9, <2>1 DEF Fork
  <2>3. Handed' = Handed /\ Handed <= forked
    BY <1>0, <1>9, <2>2 DEF Handed, Fork, Workers
  <2>4. LiveReceived' = LiveReceived
    BY <1>0, <1>9, <2>3 DEF LiveReceived, Received, Fork, Workers, Handed
  <2> QED
    BY <1>a, <1>c, <1>9, <2>4 DEF Fork
<1>10. CASE Works
  BY <1>a, <1>b, <1>c, <1>10 DEF Works
<1>11. ASSUME NEW s \in Sessions, BeginCall(s) \/ DropSession(s) PROVE RoomKept'
  BY <1>0, <1>a, <1>b, <1>c, <1>11 DEF BeginCall, DropSession
<1>12. ASSUME UNCHANGED <<thread, spawning, process>> PROVE RoomKept'
  BY <1>a, <1>b, <1>c, <1>12
<1> QED
  BY StepKinds, <1>1, <1>2, <1>3, <1>4, <1>5, <1>6, <1>7, <1>8, <1>9, <1>10, <1>11, <1>12
  DEF BeginAbort, BeginClose

(***************************************************************************)
(* No more live workers than slots, but for those of the spawns that were  *)
(* given up (executor.py:201-284, 298).                                    *)
(***************************************************************************)
THEOREM WorkersAreBounded == Spec => []LiveWorkersBounded
<1>1. Init => LiveInv
  <2> SUFFICES ASSUME Init PROVE LiveInv
    OBVIOUS
  <2>1. /\ pc = [s \in Sessions |-> "idle"] /\ alive = {1} /\ spare = 1 /\ forked = 1
        /\ offered = <<>> /\ asked = 0 /\ late = 0
    BY DEF Init, ExecutorInit
  <2>2. Spawn = 0
    BY <2>1 DEF Spawn, Waiters
  <2>3. LiveReceived = {1}
    BY <2>1 DEF LiveReceived, Received, Handed
  <2>4. Cardinality(LiveReceived) = 1
    BY <2>3, FS_Singleton
  <2> QED
    BY <2>1, <2>2, <2>3, <2>4 DEF LiveInv, RequestsCounted, LiveAreOwned, RoomKept
<1>2. ServingInv /\ LiveInv /\ [Next]_vars => LiveInv'
  BY RequestsCountedKept, LiveAreOwnedKept, RoomKeptKept DEF LiveInv
<1>3. ServingInv /\ LiveInv => LiveWorkersBounded
  <2> SUFFICES ASSUME ServingInv, LiveInv PROVE Cardinality(alive) <= MaxWorkers + late
    BY DEF LiveWorkersBounded
  <2> DEFINE Coming == (Handed + 1)..forked
  <2>1. /\ asked \in Nat /\ late \in Nat /\ Len(offered) \in Nat /\ forked \in Nat
        /\ alive \in SUBSET Workers /\ alive \subseteq 1..forked /\ Len(offered) < forked
    BY DEF ServingInv, TypeOK, HandedOver, QueueInOrder, Workers
  <2>2. Handed \in Nat /\ Handed = forked - Len(offered)
    BY <2>1 DEF Handed
  <2>3. IsFiniteSet(Coming) /\ Cardinality(Coming) = Len(offered)
    <3>1. ASSUME NEW a \in Int, NEW b \in Int
          PROVE  /\ IsFiniteSet(a..b)
                 /\ Cardinality(a..b) = (IF a > b THEN 0 ELSE b - a + 1)
      BY FS_Interval
    <3>2. Handed + 1 \in Int /\ forked \in Int
      BY <2>1, <2>2
    <3>3. /\ IsFiniteSet(Coming)
          /\ Cardinality(Coming) = (IF Handed + 1 > forked THEN 0 ELSE forked - (Handed + 1) + 1)
      BY <3>1, <3>2
    <3> QED
      BY <2>1, <2>2, <3>3
  <2>4. alive \subseteq LiveReceived \cup Coming
    BY <2>1, <2>2 DEF LiveReceived, Received
  <2>5. IsFiniteSet(LiveReceived) /\ Cardinality(LiveReceived) \in Nat
    BY <2>1, LiveReceivedIsFinite
  <2>6. /\ IsFiniteSet(LiveReceived \cup Coming)
        /\ Cardinality(LiveReceived \cup Coming) <= Cardinality(LiveReceived) + Len(offered)
    <3>1. Cardinality(LiveReceived \cap Coming) \in Nat
      BY <2>5, FS_Intersection, FS_CardinalityType
    <3> HIDE DEF Coming
    <3> QED
      <4>1. /\ IsFiniteSet(LiveReceived \cup Coming)
            /\ Cardinality(LiveReceived \cup Coming)
                 = Cardinality(LiveReceived) + Cardinality(Coming)
                   - Cardinality(LiveReceived \cap Coming)
        BY <2>3, <2>5, FS_Union
      <4> QED
        BY <2>1, <2>3, <2>5, <3>1, <4>1
  <2>7. Cardinality(alive) <= Cardinality(LiveReceived \cup Coming) /\ Cardinality(alive) \in Nat
        /\ Cardinality(LiveReceived \cup Coming) \in Nat
    BY <2>4, <2>6, FS_Subset, FS_CardinalityType
  <2>8. Spawn \in 0..1
    BY DEF Spawn
  <2> HIDE DEF Coming
  <2> QED
    BY <2>1, <2>5, <2>6, <2>7, <2>8 DEF LiveInv, RequestsCounted, RoomKept
<1>4. Spec => []LiveInv
  BY <1>1, <1>2, ServingInvariant, PTL DEF Spec
<1> QED
  BY <1>3, <1>4, ServingInvariant, PTL

-----------------------------------------------------------------------------
(***************************************************************************)
(* The executor implements Leases.  What a step does to the leases follows *)
(* from what it does to the pool, to the thread of one session, and to the *)
(* processes; the lemmas below say it for each of the four.                *)
(***************************************************************************)
UnleasedKept == Unleased' = Unleased
LeaseKept == UNCHANGED <<Hands, Unleased, Requested, TakesCalls>>

\* What the other threads hold does not move when one thread does.
OnlyThread(s) ==
    /\ registered' \in [Sessions -> Workers \cup {None}]
    /\ worker' \in [Sessions -> Workers \cup {None}] /\ pc' \in [Sessions -> Steps]
    /\ \A t \in Sessions \ {s} :
          registered'[t] = registered[t] /\ worker'[t] = worker[t] /\ pc'[t] = pc[t]

LEMMA HandsMove ==
    ASSUME NEW s \in Sessions, OnlyThread(s), shut' = shut
    PROVE  Hands' = [Hands EXCEPT ![s] = HandOf(s)']
<1>1. \A t \in Sessions \ {s} : HandOf(t)' = HandOf(t)
  BY DEF OnlyThread, HandOf
<1> HIDE DEF HandOf
<1> QED
  BY <1>1 DEF Hands

\* So a session that holds what it held leaves the leases as they are.
LEMMA HandsStay ==
    ASSUME NEW s \in Sessions, OnlyThread(s), shut' = shut, HandOf(s)' = HandOf(s)
    PROVE  Hands' = Hands
<1>1. Hands' = [Hands EXCEPT ![s] = HandOf(s)]
  BY HandsMove
<1> HIDE DEF HandOf
<1> QED
  BY <1>1 DEF Hands

LEMMA HandsSame ==
    ASSUME UNCHANGED <<registered, worker, pc, shut>>
    PROVE  Hands' = Hands
  BY DEF Hands, HandOf

\* The worker of a call that is not closed is the one its session holds.
LEMMA HandOfCall ==
    ASSUME ServingInv, NEW s \in Sessions, pc[s] \in Calling, worker[s] \notin shut
    PROVE  HandOf(s) = worker[s] /\ worker[s] \in Workers
<1>1. worker[s] \in Workers
  BY HandIsWorker
<1>2. worker[s] \in Leaving \/ registered[s] = worker[s]
  BY DEF ServingInv, HandsKnown
<1>3. worker[s] \in Leaving => registered[s] = None
  BY DEF ServingInv, StopsInStep, Leaving, Stoppers
<1> QED
  BY <1>1, <1>2, <1>3, NoneIsNoWorker DEF HandOf

\* Closing a worker takes it from the one who has it and from nobody else.
LEMMA ClosingRetires ==
    ASSUME ServingInv, TypeOK', NEW w \in Workers, CloseWorker(w),
           UNCHANGED <<registered, spare, offered, forked, closed, aborting>>,
           \/ UNCHANGED <<worker, pc>>
           \/ \E s \in Sessions :
                 OnlyThread(s) /\ worker[s] = w /\ pc[s] \in Calling \cup {"halt"}
                 /\ pc'[s] \notin Calling \cup {"boot"}
    PROVE  Leased!Retire(w)
<1>0. TypeOK /\ w # None
  BY NoneIsNoWorker DEF ServingInv
<1>1. \A t \in Sessions : HandOf(t)' = IF HandOf(t) = w THEN None ELSE HandOf(t)
  <2> TAKE t \in Sessions
  <2>1. pc[t] \in Calling /\ worker[t] \notin shut => HandOf(t) = worker[t]
    BY HandOfCall
  <2>2. \/ worker'[t] = worker[t] /\ pc'[t] = pc[t]
        \/ worker[t] = w /\ pc'[t] \notin Calling
    BY DEF OnlyThread
  <2> QED
    BY <1>0, <2>1, <2>2 DEF HandOf
<1>2. Hands' = [s \in Sessions |-> IF Hands[s] = w THEN None ELSE Hands[s]]
  <2> HIDE DEF HandOf
  <2> QED
    BY <1>1 DEF Hands
<1>3. Unleased' = Unleased \ {w}
  <2>1. Booting' = Booting
    BY DEF Booting, OnlyThread, Calling
  <2>2. (Workers \ Received)' = Workers \ Received
    BY DEF Received, Handed, Workers
  <2> QED
    BY <2>1, <2>2 DEF Unleased
<1>4. Requested' = {p \in Requested : p[1] # w}
  BY <1>0 DEF Requested, TypeOK
<1>5. TakesCalls' = TakesCalls
  BY DEF TakesCalls
<1> QED
  BY <1>2, <1>3, <1>4, <1>5 DEF Leased!Retire

LEMMA FailRetires ==
    ASSUME ServingInv, TypeOK', NEW s \in Sessions, pc[s] \in Calling, Fail(s)
    PROVE  Leased!Next
<1>1. worker[s] \in Workers
  BY HandIsWorker
<1>2. OnlyThread(s)
  BY DEF OnlyThread, ServingInv, TypeOK
<1>3. CloseWorker(worker[s]) /\ UNCHANGED <<registered, spare, offered, forked, closed, aborting>>
      /\ pc'[s] \notin Calling \cup {"boot"}
  BY DEF Calling, ServingInv, TypeOK
<1> HIDE DEF CloseWorker
<1> QED
  BY <1>1, <1>2, <1>3, ClosingRetires DEF Leased!Next

\* A call that returns lets go of a worker its session no longer has.
LEMMA LeavingLetsGo ==
    ASSUME ServingInv, TypeOK', NEW s \in Sessions, pc[s] \in Calling, Leave(s)
    PROVE  Leased!Next \/ LeaseKept
<1>1. OnlyThread(s) /\ shut' = shut
  BY DEF OnlyThread, ServingInv, TypeOK
<1>2. HandOf(s)' \in {None, HandOf(s)}
  BY DEF HandOf, Calling, ServingInv, TypeOK
<1>3. Unleased' = Unleased
  <2>1. Booting' = Booting
    BY <1>1 DEF Booting, Calling, ServingInv, TypeOK
  <2> QED
    BY <2>1 DEF Unleased, Received, Handed, Workers
<1>4. Requested' = Requested /\ TakesCalls' = TakesCalls
  BY DEF Requested, TakesCalls
<1>5. CASE HandOf(s)' = HandOf(s)
  BY <1>1, <1>3, <1>4, <1>5, HandsStay DEF LeaseKept
<1>6. CASE HandOf(s)' = None
  <2>1. Hands' = [Hands EXCEPT ![s] = None]
    BY <1>1, <1>6, HandsMove
  <2> QED
    BY <1>3, <1>4, <2>1 DEF Leased!LetGo, Leased!Next
<1> QED
  BY <1>2, <1>5, <1>6

(***************************************************************************)
(* The thread of a session, step by step.                                  *)
(***************************************************************************)
\* The pool and the processes as they were, the thread at a step of the same kind.
LEMMA SameHold ==
    ASSUME ServingInv, TypeOK', NEW s \in Sessions,
           OnlyThread(s), HandOf(s)' = HandOf(s),
           pc[s] # "boot", pc'[s] # "boot",
           UNCHANGED <<spare, shut, offered, forked, closed, aborting, alive, inbox>>
    PROVE  LeaseKept
<1>1. Hands' = Hands
  BY HandsStay
<1>2. Booting' = Booting
  BY DEF Booting, OnlyThread
<1>3. Unleased' = Unleased
  BY <1>2 DEF Unleased, Received, Handed, Workers
<1> QED
  BY <1>1, <1>3 DEF LeaseKept, Requested, TakesCalls

LEMMA AskLeases ==
    ASSUME ServingInv, TypeOK', NEW s \in Sessions, Ask(s)
    PROVE  Leased!Next \/ LeaseKept
<1>0. TypeOK /\ lock = Free /\ pc[s] = "ask" /\ pc[s] \notin Calling
  BY DEF Ask, ServingInv, Calling
<1>1. OnlyThread(s) /\ UNCHANGED <<shut, offered, forked, closed, aborting, alive, inbox>>
  BY <1>0 DEF Ask, Aborted, Reuse, TakeSpare, Refuse, AskNursery, OnlyThread, TypeOK
<1>2. CASE Aborted(s)
  BY <1>0, <1>1, <1>2, SameHold DEF Aborted, HandOf, Calling, TypeOK
<1>3. CASE Reuse(s)
  BY <1>0, <1>1, <1>3, SameHold DEF Reuse, HandOf, Calling, TypeOK
<1>4. CASE Refuse(s)
  BY <1>0, <1>1, <1>4, SameHold DEF Refuse, AtLimit, HandOf, Calling, TypeOK
<1>5. CASE AskNursery(s)
  BY <1>0, <1>1, <1>5, SameHold DEF AskNursery, HandOf, Calling, TypeOK
<1>6. CASE TakeSpare(s)
  <2>1. spare \in Workers /\ spare \notin shut /\ spare # None /\ spare \in Received
    BY <1>0, <1>6 DEF TakeSpare, TypeOK, ServingInv, HandedOver
  <2>2. HandOf(s) = None /\ HandOf(s)' = spare
    BY <1>0, <1>1, <1>6, <2>1 DEF TakeSpare, HandOf, TypeOK
  <2>3. Booting = {} /\ Booting' = {}
    <3>1. \A t \in Sessions : pc[t] # "boot" /\ pc'[t] # "boot"
      BY <1>0, <1>6 DEF TakeSpare, Spawning, ServingInv, LockIsSpawners, TypeOK
    <3> QED
      BY <3>1 DEF Booting
  <2>4. spare \in Unleased /\ Unleased' = Unleased \ {spare}
    <3>1. (Workers \ Received)' = Workers \ Received
      BY <1>1 DEF Received, Handed, Workers
    <3> QED
      BY <1>1, <1>6, <2>1, <2>3, <3>1 DEF Unleased, TakeSpare
  <2>5. Hands' = [Hands EXCEPT ![s] = spare] /\ Hands[s] = None
    BY <1>1, <2>2, HandsMove DEF Hands
  <2>6. TakesCalls /\ TakesCalls' = TakesCalls /\ Requested' = Requested
    BY <1>1, <1>6 DEF TakesCalls, Requested, TakeSpare
  <2> QED
    BY <2>1, <2>4, <2>5, <2>6 DEF Leased!Lease, Leased!Next
<1> QED
  BY <1>2, <1>3, <1>4, <1>5, <1>6 DEF Ask

\* A thread that spawns holds nothing, and nobody else spawns; the executor
\* runs; the worker it boots is nobody's.
LEMMA SpawnerAlone ==
    ASSUME ServingInv, NEW s \in Sessions, pc[s] \in Spawning
    PROVE  /\ lock = s /\ registered[s] = None /\ TakesCalls /\ HandOf(s) = None
           /\ \A t \in Sessions \ {s} : pc[t] \notin Spawning
           /\ pc[s] = "boot" =>
                 /\ worker[s] \in Received /\ worker[s] # spare
                 /\ \A t \in Sessions : HandOf(t) # worker[s]
<1>1. lock = s /\ \A t \in Sessions \ {s} : pc[t] \notin Spawning
  BY DEF ServingInv, LockIsSpawners
<1>2. registered[s] = None /\ TakesCalls
  BY <1>1 DEF ServingInv, LockIsSpawners, TakesCalls
<1>3. HandOf(s) = None
  BY <1>2 DEF HandOf, Spawning, Calling
<1>4. ASSUME pc[s] = "boot"
      PROVE  /\ worker[s] \in Received /\ worker[s] # spare
             /\ \A t \in Sessions : HandOf(t) # worker[s]
  <2>1. worker[s] \in Received /\ worker[s] # spare /\ worker[s] # None
        /\ \A t \in Sessions : worker[s] # registered[t]
    BY <1>4 DEF ServingInv, HandedOver, OwnWorkers, HandsKnown
  <2>2. Leaving = {}
    BY <1>2 DEF ServingInv, StopsInStep, Leaving, TakesCalls, Stoppers
  <2>3. \A t \in Sessions : pc[t] \in Calling /\ Usable(worker[t]) => worker[t] = registered[t]
    BY <2>2 DEF ServingInv, HandsKnown
  <2> QED
    BY <2>1, <2>3 DEF HandOf
<1> QED
  BY <1>1, <1>2, <1>3, <1>4

LEMMA SpawnLeases ==
    ASSUME ServingInv, TypeOK', NEW s \in Sessions, SpawnSteps(s)
    PROVE  Leased!Next \/ LeaseKept
<1>0. TypeOK /\ pc[s] \in Spawning
  BY DEF SpawnSteps, TakeWorker, SpawnTimeout, Register, BootFails, Spawning, ServingInv
<1>1. /\ lock = s /\ registered[s] = None /\ TakesCalls /\ HandOf(s) = None
      /\ \A t \in Sessions \ {s} : pc[t] \notin Spawning
  BY <1>0, SpawnerAlone
<1>2. OnlyThread(s) /\ UNCHANGED <<shut, spare, forked, closed, aborting>>
  BY <1>0 DEF SpawnSteps, TakeWorker, SpawnTimeout, Register, BootFails, OnlyThread, TypeOK
<1>3. CASE TakeWorker(s)
  <2>1. HandOf(s)' = HandOf(s)
    BY <1>0, <1>1, <1>2, <1>3 DEF TakeWorker, HandOf, Calling, TypeOK
  <2>2. Hands' = Hands
    BY <1>2, <2>1, HandsStay
  <2>3. Handed' = Handed + 1 /\ worker'[s] = Handed + 1 /\ Handed + 1 \in Workers
    <3>1. /\ Len(offered') = Len(offered) - 1 /\ Head(offered) \in Workers
          /\ Head(offered) = Handed + 1
      BY <1>0, <1>3, OfferedShrinks DEF TakeWorker, ServingInv
    <3>2. worker'[s] = Head(offered) /\ forked' = forked
      BY <1>0, <1>3 DEF TakeWorker, TypeOK
    <3>3. Handed' = Handed + 1
      BY <1>0, <3>1, <3>2 DEF Handed, TypeOK, Workers
    <3> QED
      BY <3>1, <3>2, <3>3
  <2>4. Booting = {} /\ Booting' = {Handed + 1}
    <3>1. pc[s] # "boot" /\ pc'[s] = "boot" /\ \A t \in Sessions \ {s} : pc[t] # "boot" /\ pc'[t] # "boot"
      BY <1>0, <1>1, <1>2, <1>3 DEF TakeWorker, OnlyThread, Spawning, TypeOK
    <3> QED
      BY <2>3, <3>1 DEF Booting
  <2>5. Workers \ Received = (Workers \ Received)' \cup {Handed + 1}
    <3>1. Handed \in Nat
      BY <1>0 DEF Handed, TypeOK, Workers, ServingInv, QueueInOrder
    <3> QED
      BY <2>3, <3>1 DEF Received, Workers
  <2>6. Unleased' = Unleased
    BY <1>2, <2>4, <2>5 DEF Unleased
  <2> QED
    BY <1>3, <2>2, <2>6 DEF LeaseKept, Requested, TakesCalls, TakeWorker
<1>4. CASE SpawnTimeout(s)
  BY <1>0, <1>1, <1>2, <1>4, SameHold DEF SpawnTimeout, HandOf, Calling, TypeOK
<1>5. ASSUME pc[s] = "boot", pc'[s] # "boot", UNCHANGED <<offered, forked>>
      PROVE  /\ worker[s] \in Workers /\ Unleased' = Unleased \ {worker[s]}
             /\ \A t \in Sessions : HandOf(t) # worker[s]
  <2>1. worker[s] \in Received /\ worker[s] # spare /\ worker[s] \in Workers
        /\ \A t \in Sessions : HandOf(t) # worker[s]
    BY <1>0, <1>5, SpawnerAlone, HandIsWorker
  <2>2. Booting = {worker[s]} /\ Booting' = {}
    <3>1. \A t \in Sessions \ {s} : pc[t] # "boot" /\ pc'[t] # "boot"
      BY <1>1, <1>2 DEF OnlyThread, Spawning
    <3> QED
      BY <1>5, <3>1 DEF Booting
  <2>3. (Workers \ Received)' = Workers \ Received
    BY <1>2, <1>5 DEF Received, Handed, Workers
  <2> QED
    BY <1>2, <2>1, <2>2, <2>3 DEF Unleased
<1>6. CASE Register(s)
  <2>1. /\ worker[s] \in Workers /\ Unleased' = Unleased \ {worker[s]}
        /\ \A t \in Sessions : HandOf(t) # worker[s]
    BY <1>0, <1>5, <1>6 DEF Register, TypeOK
  <2>2. Requested' = Requested /\ TakesCalls' = TakesCalls
    BY <1>2, <1>6 DEF Register, Requested, TakesCalls
  <2>3. registered'[s] = worker[s] /\ worker'[s] = worker[s] /\ pc[s] = "boot"
    BY <1>0, <1>6 DEF Register, TypeOK
  <2>4. CASE worker[s] \in shut
    <3>1. HandOf(s)' = HandOf(s)
      BY <1>1, <1>2, <2>3, <2>4 DEF HandOf
    <3>2. Hands' = Hands
      BY <1>2, <3>1, HandsStay
    <3>3. Unleased' = Unleased
      BY <2>1, <2>4 DEF Unleased
    <3> QED
      BY <2>2, <3>2, <3>3 DEF LeaseKept
  <2>5. CASE worker[s] \notin shut
    <3>1. HandOf(s)' = worker[s]
      BY <1>2, <2>1, <2>3, <2>5, NoneIsNoWorker DEF HandOf
    <3>2. Hands' = [Hands EXCEPT ![s] = worker[s]] /\ Hands[s] = None
      BY <1>1, <1>2, <3>1, HandsMove DEF Hands
    <3>3. worker[s] \in Unleased
      BY <2>3, <2>1, <2>5 DEF Unleased, Booting
    <3> QED
      BY <1>1, <2>1, <2>2, <3>2, <3>3 DEF Leased!Lease, Leased!Next
  <2> QED
    BY <2>4, <2>5
<1>7. CASE BootFails(s)
  <2>1. /\ worker[s] \in Workers /\ Unleased' = Unleased \ {worker[s]}
        /\ \A t \in Sessions : HandOf(t) # worker[s]
    BY <1>0, <1>5, <1>7 DEF BootFails, TypeOK
  <2>2. HandOf(s)' = HandOf(s)
    BY <1>0, <1>1, <1>2, <1>7 DEF BootFails, HandOf, Calling, TypeOK
  <2>3. Hands' = Hands
    BY <1>2, <2>2, HandsStay
  <2>4. Hands' = [t \in Sessions |-> IF Hands[t] = worker[s] THEN None ELSE Hands[t]]
    <3> HIDE DEF HandOf
    <3> QED
      BY <2>1, <2>3 DEF Hands
  <2>5. Requested' = {p \in Requested : p[1] # worker[s]} /\ TakesCalls' = TakesCalls
    BY <1>2, <1>7 DEF BootFails, Requested, TakesCalls
  <2> QED
    BY <2>1, <2>4, <2>5 DEF Leased!Retire, Leased!Next
<1> QED
  BY <1>3, <1>4, <1>6, <1>7 DEF SpawnSteps

\* A request goes to the worker its session holds.
LEMMA WriteLeases ==
    ASSUME ServingInv, TypeOK', NEW s \in Sessions, WriteRequest(s), worker[s] \in alive, ~Fail(s)
    PROVE  Leased!Next
<1>0. TypeOK /\ pc[s] \in Calling /\ worker[s] \notin shut
  BY DEF WriteRequest, Calling, ServingInv, ClosedAreGone
<1>1. HandOf(s) = worker[s] /\ worker[s] \in Workers /\ worker[s] # None
  BY <1>0, HandOfCall, NoneIsNoWorker
<1>2. /\ UNCHANGED <<lock, pool, worker, stopping, spawning, process>>
      /\ inbox' = [inbox EXCEPT ![worker[s]] = Append(@, <<s, call[s]>>)]
      /\ pc' = [pc EXCEPT ![s] = "read"] /\ pc[s] = "write"
  BY DEF WriteRequest
<1>3. OnlyThread(s) /\ HandOf(s)' = HandOf(s)
  BY <1>0, <1>2 DEF OnlyThread, HandOf, Calling, TypeOK
<1>4. Hands' = Hands /\ Hands[s] = worker[s]
  BY <1>1, <1>2, <1>3, HandsStay DEF Hands
<1>5. Unleased' = Unleased
  <2>1. Booting' = Booting
    <3>1. \A t \in Sessions : pc'[t] = "boot" <=> pc[t] = "boot"
      BY <1>0, <1>2 DEF TypeOK
    <3> QED
      BY <1>2, <3>1 DEF Booting
  <2> QED
    BY <1>2, <2>1 DEF Unleased, Received, Handed, Workers
<1>6. Requested' = Requested \cup {<<worker[s], s>>}
  <2> DEFINE box == inbox[worker[s]]
             new == Append(box, <<s, call[s]>>)
             AskedBy(b, t) == \E i \in DOMAIN b : b[i][1] = t
  <2>1. box \in Seq(Calls) /\ <<s, call[s]>> \in Calls
    BY <1>0, <1>1 DEF TypeOK, Calls
  <2>2. /\ Len(new) = Len(box) + 1 /\ new \in Seq(Calls) /\ new[Len(box) + 1] = <<s, call[s]>>
        /\ \A i \in 1..Len(box) : new[i] = box[i]
    BY <2>1
  <2>3. DOMAIN box = 1..Len(box) /\ DOMAIN new = 1..Len(box) + 1 /\ Len(box) \in Nat
    BY <2>1, <2>2
  <2>4. \A t \in Sessions : AskedBy(new, t) <=> AskedBy(box, t) \/ t = s
    <3> HIDE DEF box, new
    <3>1. \A i \in DOMAIN new : i \in DOMAIN box \/ i = Len(box) + 1
      BY <2>3
    <3>2. \A i \in DOMAIN box : i \in DOMAIN new
      BY <2>3
    <3>3. Len(box) + 1 \in DOMAIN new
      BY <2>3
    <3> QED
      BY <2>2, <2>3, <3>1, <3>2, <3>3
  <2>5. \A w \in Workers : inbox'[w] = IF w = worker[s] THEN new ELSE inbox[w]
    BY <1>0, <1>1, <1>2 DEF TypeOK
  <2> HIDE DEF new
  <2>6. \A w \in Workers, t \in Sessions :
           AskedBy(inbox'[w], t) <=> AskedBy(inbox[w], t) \/ (w = worker[s] /\ t = s)
    BY <2>4, <2>5
  <2>7. alive' = alive
    BY <1>2
  <2>8. /\ Requested = {p \in Workers \X Sessions : p[1] \in alive /\ AskedBy(inbox[p[1]], p[2])}
        /\ Requested' = {p \in Workers \X Sessions : p[1] \in alive' /\ AskedBy(inbox'[p[1]], p[2])}
    BY DEF Requested, Workers
  <2> HIDE DEF AskedBy
  <2> QED
    BY <1>1, <2>6, <2>7, <2>8
<1>7. TakesCalls' = TakesCalls
  BY <1>2 DEF TakesCalls
<1> QED
  BY <1>1, <1>4, <1>5, <1>6, <1>7 DEF Leased!Request, Leased!Next

\* A step of a call leaves the lease, lets go of it, or ends the worker.
LEMMA CallLeases ==
    ASSUME ServingInv, TypeOK', NEW s \in Sessions, CallSteps(s)
    PROVE  Leased!Next \/ LeaseKept
<1>0. TypeOK /\ pc[s] \in Calling
  BY DEF CallSteps, CheckOpen, SetTimeoutRaises, Probe, WriteRequest, ReadReply, CallTimeout,
         FinishCall, Calling, ServingInv
<1>1. ASSUME NEW to \in Calling, Advance(s, to), inbox' = inbox PROVE LeaseKept
  <2>1. OnlyThread(s) /\ UNCHANGED <<spare, shut, offered, forked, closed, aborting, alive>>
    BY <1>0, <1>1 DEF OnlyThread, TypeOK
  <2>2. HandOf(s)' = HandOf(s) /\ pc[s] # "boot" /\ pc'[s] # "boot"
    BY <1>0, <1>1 DEF HandOf, Calling, TypeOK
  <2> QED
    BY <1>1, <2>1, <2>2, SameHold
<1>2. CASE CheckOpen(s) /\ Shut(s)
  <2>1. OnlyThread(s) /\ UNCHANGED <<spare, shut, offered, forked, closed, aborting, alive, inbox>>
    BY <1>0, <1>2 DEF CheckOpen, OnlyThread, TypeOK
  <2>2. HandOf(s)' = HandOf(s) /\ pc[s] # "boot" /\ pc'[s] # "boot"
    BY <1>0, <1>2 DEF CheckOpen, HandOf, Calling, TypeOK
  <2> QED
    BY <2>1, <2>2, SameHold
<1>3. CASE CheckOpen(s) /\ ~Shut(s)
  BY <1>1, <1>3 DEF CheckOpen, Calling
<1>4. ASSUME Fail(s) PROVE Leased!Next
  BY <1>0, <1>4, FailRetires
<1>5. ASSUME Leave(s) PROVE Leased!Next \/ LeaseKept
  BY <1>0, <1>5, LeavingLetsGo
<1>6. CASE WriteRequest(s)
  <2> HIDE DEF Fail
  <2> QED
    BY <1>4, <1>6, WriteLeases DEF WriteRequest
<1>7. CASE SetTimeoutRaises(s) \/ Probe(s) \/ ReadReply(s) \/ CallTimeout(s) \/ FinishCall(s)
  <2>1. "write" \in Calling /\ "after" \in Calling
    BY DEF Calling
  <2> HIDE DEF Fail, Leave, Advance
  <2> QED
    BY <1>1, <1>4, <1>5, <1>7, <2>1
    DEF SetTimeoutRaises, Probe, ReadReply, CallTimeout, FinishCall
<1> QED
  BY <1>2, <1>3, <1>6, <1>7 DEF CallSteps

LEMMA ThreadLeases ==
    ASSUME ServingInv, TypeOK', NEW s \in Sessions, ThreadSteps(s)
    PROVE  Leased!Next \/ LeaseKept
<1>0. TypeOK
  BY DEF ServingInv
<1>1. CASE Discard(s)
  <2>1. OnlyThread(s) /\ UNCHANGED <<spare, shut, offered, forked, closed, aborting, alive, inbox>>
    BY <1>0, <1>1 DEF Discard, OnlyThread, TypeOK
  <2>2. worker[s] \in shut
    BY <1>1 DEF Discard, ServingInv, HandsKnown
  <2>3. HandOf(s)' = HandOf(s) /\ pc[s] # "boot" /\ pc'[s] # "boot"
    BY <1>0, <1>1, <2>2 DEF Discard, HandOf, Calling, TypeOK
  <2> QED
    BY <2>1, <2>3, SameHold
<1>2. CASE Release(s)
  <2>1. /\ OnlyThread(s)
        /\ UNCHANGED <<spare, shut, offered, forked, closed, aborting, alive, inbox>>
    BY <1>0, <1>2 DEF Release, OnlyThread, TypeOK
  <2>2. HandOf(s)' = None /\ pc[s] # "boot" /\ pc'[s] # "boot"
    BY <1>0, <1>2 DEF Release, HandOf, Calling, TypeOK
  <2>3. Hands' = [Hands EXCEPT ![s] = None]
    BY <2>1, <2>2, HandsMove
  <2>4. Unleased' = Unleased
    <3>1. Booting' = Booting
      BY <2>1, <2>2 DEF Booting, OnlyThread
    <3> QED
      BY <2>1, <3>1 DEF Unleased, Received, Handed, Workers
  <2>5. Requested' = Requested /\ TakesCalls' = TakesCalls
    BY <2>1 DEF Requested, TakesCalls
  <2> QED
    BY <2>3, <2>4, <2>5 DEF Leased!LetGo, Leased!Next
<1>3. CASE ReleaseClose(s)
  <2>1. worker[s] \in Workers
    BY <1>3, HandIsWorker DEF ReleaseClose
  <2>2. OnlyThread(s)
    BY <1>0, <1>3 DEF ReleaseClose, OnlyThread, TypeOK
  <2>3. /\ CloseWorker(worker[s]) /\ UNCHANGED <<registered, spare, offered, forked, closed, aborting>>
        /\ pc[s] \in Calling \cup {"halt"} /\ pc'[s] \notin Calling \cup {"boot"}
    BY <1>0, <1>3 DEF ReleaseClose, Calling, TypeOK
  <2> HIDE DEF CloseWorker
  <2> QED
    BY <2>1, <2>2, <2>3, ClosingRetires DEF Leased!Next
<1> QED
  BY <1>1, <1>2, <1>3, AskLeases, SpawnLeases, CallLeases DEF ThreadSteps

(***************************************************************************)
(* The stoppers and the processes.                                         *)
(***************************************************************************)
\* Without a thread's step, who spawns and who holds is as it was.
LEMMA ThreadsStay ==
    ASSUME UNCHANGED <<thread, registered, spare, shut>>, (Workers \ Received)' = Workers \ Received
    PROVE  Hands' = Hands /\ Unleased' = Unleased
<1>1. Hands' = Hands
  BY HandsSame
<1>2. Booting' = Booting
  BY DEF Booting
<1> QED
  BY <1>1, <1>2 DEF Unleased

LEMMA EmptyPoolStops ==
    ASSUME ServingInv, TypeOK', lock = Free, NEW x \in Stoppers, EmptyPool(x), Others,
           closed' \/ aborting', UNCHANGED <<shut, alive, wire>>
    PROVE  Leased!Next
<1>0. TypeOK
  BY DEF ServingInv
<1> DEFINE T == {s \in Sessions : HandOf(s)' = None}
           W == {spare} \ {None}
<1>1. \A s \in Sessions : HandOf(s)' \in {None, HandOf(s)}
  <2> TAKE s \in Sessions
  <2>1. pc[s] \in Calling /\ worker[s] \notin shut => HandOf(s) = worker[s]
    BY HandOfCall
  <2>2. UNCHANGED <<worker, pc, shut>> /\ registered'[s] = None
    BY <1>0
  <2> QED
    BY <2>1, <2>2 DEF HandOf
<1>2. Hands' = [s \in Sessions |-> IF s \in T THEN None ELSE Hands[s]]
  <2> HIDE DEF HandOf
  <2> QED
    BY <1>1 DEF Hands
<1>3. Unleased' = Unleased \ W
  <2>1. Booting = {} /\ Booting' = {}
    <3>1. \A t \in Sessions : pc[t] # "boot" /\ pc' = pc
      BY <1>0 DEF Spawning, ServingInv, LockIsSpawners, TypeOK
    <3> QED
      BY <3>1 DEF Booting
  <2>2. (Workers \ Received)' = Workers \ Received
    BY DEF Received, Handed, Workers
  <2>3. W \subseteq Received
    BY DEF ServingInv, HandedOver
  <2> QED
    BY <2>1, <2>2, <2>3 DEF Unleased
<1>4. Requested' = Requested /\ TakesCalls' = FALSE
  BY DEF Requested, TakesCalls
<1>5. T \in SUBSET Sessions /\ W \in SUBSET Workers
  BY <1>0 DEF TypeOK
<1> HIDE DEF T, W
<1> QED
  BY <1>2, <1>3, <1>4, <1>5 DEF Leased!Stop, Leased!Next

\* Requests that are run, or lost with the processes that had them.
LEMMA RequestsFinish ==
    ASSUME ServingInv, UNCHANGED <<thread, registered, spare, shut, offered, forked, closed, aborting>>,
           alive' \subseteq alive,
           \A w \in Workers, t \in Sessions :
              (\E i \in DOMAIN inbox'[w] : inbox'[w][i][1] = t)
                 => \E i \in DOMAIN inbox[w] : inbox[w][i][1] = t
    PROVE  Leased!Next
<1>1. Hands' = Hands /\ Unleased' = Unleased
  BY ThreadsStay DEF Received, Handed, Workers
<1>2. Requested' \in SUBSET Requested
  BY DEF Requested, Workers
<1>3. TakesCalls' = TakesCalls
  BY DEF TakesCalls
<1> QED
  BY <1>1, <1>2, <1>3 DEF Leased!Finish, Leased!Next

LEMMA StopperLeases ==
    ASSUME ServingInv, TypeOK', NEW x \in Stoppers, StopperSteps(x)
    PROVE  Leased!Next \/ LeaseKept
<1>0. TypeOK
  BY DEF ServingInv
<1>1. CASE x = "abort" /\ AbortCalls
  BY <1>1, EmptyPoolStops DEF AbortCalls
<1>2. CASE x = "close" /\ Close
  BY <1>2, EmptyPoolStops DEF Close
<1>3. CASE StopWorker(x)
  <2>1. PICK w \in toClose[x] : CloseWorker(w)
    BY <1>3 DEF StopWorker
  <2>2. w \in Workers
    BY <1>0 DEF TypeOK
  <2>3. UNCHANGED <<registered, spare, offered, forked, closed, aborting, worker, pc>>
    BY <1>3 DEF StopWorker
  <2> HIDE DEF CloseWorker
  <2> QED
    BY <2>1, <2>2, <2>3, ClosingRetires DEF Leased!Next
<1>4. CASE StopEnds(x)
  <2>1. /\ UNCHANGED <<thread, registered, spare, shut, offered, forked, closed, aborting, inbox>>
        /\ alive' \subseteq alive
    BY <1>4 DEF StopEnds
  <2> QED
    BY <2>1, RequestsFinish
<1> QED
  BY <1>1, <1>2, <1>3, <1>4 DEF StopperSteps

LEMMA ProcessLeases ==
    ASSUME ServingInv, TypeOK', ProcessSteps
    PROVE  Leased!Next \/ LeaseKept
<1>0. TypeOK
  BY DEF ServingInv
<1>1. CASE Fork
  <2>1. /\ UNCHANGED <<thread, registered, spare, shut, closed, aborting, inbox>>
        /\ alive' = alive \cup {forked + 1} /\ forked' = forked + 1
    BY <1>1 DEF Fork
  <2>2. Len(offered') = Len(offered) + 1 /\ forked + 1 \in Workers
    BY <1>0, <1>1, OfferedGrows DEF Fork, ServingInv
  <2>3. Handed' = Handed
    BY <1>0, <2>1, <2>2 DEF Handed, TypeOK, Workers
  <2>4. (Workers \ Received)' = Workers \ Received
    BY <2>3 DEF Received, Workers
  <2>5. inbox[forked + 1] = <<>>
    <3>1. forked + 1 \notin Received
      BY <1>0, <2>2 DEF Received, Handed, TypeOK, Workers
    <3> QED
      BY <2>2, <3>1 DEF ServingInv, HandedOver
  <2>6. Requested' = Requested
    <3>1. ~\E i \in DOMAIN inbox[forked + 1] : TRUE
      BY <2>5
    <3> QED
      BY <2>1, <3>1 DEF Requested, Workers
  <2> QED
    BY <2>1, <2>4, <2>6, ThreadsStay DEF LeaseKept, TakesCalls
<1>2. ASSUME NEW w \in Workers, Boot(w) \/ Speak(w) \/ Die(w) PROVE Leased!Next
  BY <1>2, RequestsFinish DEF Boot, Speak, Die
<1>3. ASSUME NEW w \in Workers, RunTool(w) PROVE Leased!Next
  <2>1. inbox[w] \in Seq(Calls) /\ inbox[w] # <<>>
    BY <1>0, <1>3 DEF RunTool, TypeOK
  <2>2. \A v \in Workers : inbox'[v] = IF v = w THEN Tail(inbox[w]) ELSE inbox[v]
    BY <1>0, <1>3 DEF RunTool, TypeOK
  <2>3. \A t \in Sessions :
           (\E i \in DOMAIN Tail(inbox[w]) : Tail(inbox[w])[i][1] = t)
              => \E i \in DOMAIN inbox[w] : inbox[w][i][1] = t
    <3>1. \A i \in DOMAIN Tail(inbox[w]) :
             i + 1 \in DOMAIN inbox[w] /\ Tail(inbox[w])[i] = inbox[w][i + 1]
      BY <2>1
    <3> QED
      BY <3>1
  <2>4. \A v \in Workers, t \in Sessions :
           (\E i \in DOMAIN inbox'[v] : inbox'[v][i][1] = t)
              => \E i \in DOMAIN inbox[v] : inbox[v][i][1] = t
    BY <2>2, <2>3
  <2>5. /\ UNCHANGED <<thread, registered, spare, shut, offered, forked, closed, aborting>>
        /\ alive' \subseteq alive
    BY <1>3 DEF RunTool
  <2> QED
    BY <2>4, <2>5, RequestsFinish
<1> QED
  BY <1>1, <1>2, <1>3 DEF ProcessSteps

LEMMA LeaseStep ==
    ASSUME ServingInv, TypeOK', [Next]_vars
    PROVE  Leased!Next \/ LeaseKept
<1>0. TypeOK
  BY DEF ServingInv
<1>1. ASSUME UNCHANGED executorVars PROVE LeaseKept
  BY <1>1, ThreadsStay DEF LeaseKept, Requested, TakesCalls, Received, Handed, Workers
<1>2. ASSUME NEW s \in Sessions, BeginCall(s) \/ DropSession(s) PROVE LeaseKept
  <2>1. OnlyThread(s) /\ UNCHANGED <<spare, shut, offered, forked, closed, aborting, alive, inbox>>
    BY <1>0, <1>2 DEF BeginCall, DropSession, OnlyThread, TypeOK
  <2>2. HandOf(s)' = HandOf(s) /\ pc[s] # "boot" /\ pc'[s] # "boot"
    BY <1>0, <1>2 DEF BeginCall, DropSession, HandOf, Calling, TypeOK
  <2> QED
    BY <2>1, <2>2, SameHold
<1>3. CASE BeginAbort \/ BeginClose
  <2>1. UNCHANGED <<thread, registered, spare, shut, offered, forked, closed, aborting, alive, inbox>>
    BY <1>3 DEF BeginAbort, BeginClose
  <2> QED
    BY <2>1, ThreadsStay DEF LeaseKept, Requested, TakesCalls, Received, Handed, Workers
<1>4. CASE Executing(ExecutorNext)
  BY <1>4, ThreadLeases, StopperLeases, ProcessLeases DEF ExecutorNext
<1>5. ASSUME NEW s \in Sessions, OpenSession(s) \/ HangUp(s) \/ FreeSlot(s) \/ Accept(s) \/ ThreadFails(s)
      PROVE  LeaseKept
  BY <1>1, <1>5 DEF OpenSession, HangUp, FreeSlot, Accept, ThreadFails
<1>6. CASE RequestStop \/ AcceptEnds \/ AcceptFails \/ UNCHANGED vars
  BY <1>1, <1>6 DEF RequestStop, AcceptEnds, AcceptFails
<1> QED
  BY <1>2, <1>3, <1>4, <1>5, <1>6 DEF Next, Connection, Returning, AcceptLoop

(***************************************************************************)
(* The executor under the host implements Leases (executor.py:201-289).    *)
(***************************************************************************)
THEOREM LeasesAreKept == Spec => ImplementsLeases
<1>1. Init => Leased!Init
  <2> SUFFICES ASSUME Init PROVE Leased!Init
    OBVIOUS
  <2>1. Hands = [s \in Sessions |-> None]
    <3>1. \A s \in Sessions : HandOf(s) = None
      BY DEF Init, ExecutorInit, HandOf, Calling
    <3> HIDE DEF HandOf
    <3> QED
      BY <3>1 DEF Hands
  <2>2. Unleased = Workers
    <3>1. Booting = {}
      BY DEF Init, ExecutorInit, Booting
    <3>2. Received = {1} /\ 1 \in Workers /\ spare = 1 /\ shut = {}
      BY DEF Init, ExecutorInit, Received, Handed, Workers
    <3> QED
      BY <3>1, <3>2, NoneIsNoWorker DEF Unleased
  <2>3. Requested = {}
    <3>1. \A w \in Workers : inbox[w] = <<>>
      BY DEF Init, ExecutorInit
    <3> QED
      BY <3>1 DEF Requested
  <2>4. TakesCalls = TRUE
    BY DEF Init, ExecutorInit, TakesCalls
  <2> QED
    BY <2>1, <2>2, <2>3, <2>4 DEF Leased!Init
<1>2. ServingInv /\ ServingInv' /\ [Next]_vars => [Leased!Next]_(Leased!vars)
  BY LeaseStep DEF LeaseKept, Leased!vars, ServingInv
<1> QED
  BY ServingInvariant, <1>1, <1>2, PTL DEF Spec, ImplementsLeases, Leased!Spec

\* A step of Leases keeps its promise.
LEMMA SharedStep ==
    ASSUME Leased!TypeOK, Leased!NotShared, Leased!Next
    PROVE  Leased!TypeOK' /\ Leased!NotShared'
<1> USE NoneIsNoWorker DEF Leased!TypeOK, Leased!NotShared
<1>1. ASSUME NEW s \in Sessions, NEW w \in Workers, Leased!Lease(s, w)
      PROVE  Leased!TypeOK' /\ Leased!NotShared'
  <2>1. \A t \in Sessions : Hands[t] # w
    BY <1>1 DEF Leased!Lease
  <2>2. \A p \in Requested : p[1] # w
    BY <1>1 DEF Leased!Lease
  <2>3. \A t \in Sessions : Hands'[t] = IF t = s THEN w ELSE Hands[t]
    BY <1>1 DEF Leased!Lease
  <2> QED
    BY <1>1, <2>1, <2>2, <2>3 DEF Leased!Lease
<1>2. ASSUME NEW s \in Sessions, Leased!Request(s)
      PROVE  Leased!TypeOK' /\ Leased!NotShared'
  <2>1. Hands[s] \in Workers /\ <<Hands[s], s>>[1] = Hands[s] /\ <<Hands[s], s>>[2] = s
    BY <1>2 DEF Leased!Request
  <2> QED
    BY <1>2, <2>1 DEF Leased!Request
<1>3. ASSUME NEW s \in Sessions, Leased!LetGo(s)
      PROVE  Leased!TypeOK' /\ Leased!NotShared'
  <2>1. \A t \in Sessions : Hands'[t] = IF t = s THEN None ELSE Hands[t]
    BY <1>3 DEF Leased!LetGo
  <2>2. \A p \in Requested : p[1] \in Workers
    OBVIOUS
  <2> QED
    BY <1>3, <2>1, <2>2 DEF Leased!LetGo
<1>4. CASE Leased!Finish
  BY <1>4 DEF Leased!Finish
<1>5. ASSUME NEW w \in Workers, Leased!Retire(w)
      PROVE  Leased!TypeOK' /\ Leased!NotShared'
  <2>1. \A t \in Sessions : Hands'[t] = IF Hands[t] = w THEN None ELSE Hands[t]
    BY <1>5 DEF Leased!Retire
  <2>2. \A p \in Requested : p[1] \in Workers
    OBVIOUS
  <2> QED
    BY <1>5, <2>1, <2>2 DEF Leased!Retire
<1>6. ASSUME NEW T \in SUBSET Sessions, NEW W \in SUBSET Workers, Leased!Stop(T, W)
      PROVE  Leased!TypeOK' /\ Leased!NotShared'
  <2>1. \A t \in Sessions : Hands'[t] = IF t \in T THEN None ELSE Hands[t]
    BY <1>6 DEF Leased!Stop
  <2>2. \A p \in Requested : p[1] \in Workers
    OBVIOUS
  <2> QED
    BY <1>6, <2>1, <2>2 DEF Leased!Stop
<1> QED
  BY <1>1, <1>2, <1>3, <1>4, <1>5, <1>6 DEF Leased!Next

(***************************************************************************)
(* What Leases promises, of the executor: no worker is shared between two  *)
(* sessions at any time (docs/threat-model.md:132).                        *)
(***************************************************************************)
THEOREM WorkersAreNotShared == Spec => [](Leased!NotShared)
<1>1. Leased!Init => Leased!TypeOK /\ Leased!NotShared
  BY NoneIsNoWorker DEF Leased!Init, Leased!TypeOK, Leased!NotShared
<1>2. Leased!TypeOK /\ Leased!NotShared /\ [Leased!Next]_(Leased!vars)
         => Leased!TypeOK' /\ Leased!NotShared'
  <2>1. ASSUME Leased!TypeOK, Leased!NotShared, UNCHANGED Leased!vars
        PROVE  Leased!TypeOK' /\ Leased!NotShared'
    BY <2>1 DEF Leased!vars, Leased!TypeOK, Leased!NotShared
  <2> QED
    BY <2>1, SharedStep
<1> QED
  BY <1>1, <1>2, LeasesAreKept, PTL DEF ImplementsLeases, Leased!Spec

(***************************************************************************)
(* Nor one after the other: a worker goes from the pool to a session once, *)
(* and none does once a stop has emptied the pool (executor.py:221-284).   *)
(***************************************************************************)
THEOREM WorkersAreLeasedOnce == Spec => [][Leased!NeverAgain]_(Leased!vars)
<1>1. Leased!TypeOK /\ [Leased!Next]_(Leased!vars) => [Leased!NeverAgain]_(Leased!vars)
  <2> SUFFICES ASSUME Leased!TypeOK, Leased!Next
               PROVE  Leased!NeverAgain
    OBVIOUS
  <2> USE DEF Leased!TypeOK, Leased!NeverAgain
  <2>1. ASSUME NEW s \in Sessions, NEW w \in Workers, Leased!Lease(s, w)
        PROVE  Leased!NeverAgain
    BY <2>1 DEF Leased!Lease
  <2>2. ASSUME NEW s \in Sessions, Leased!Request(s) \/ Leased!LetGo(s) PROVE Leased!NeverAgain
    BY <2>2 DEF Leased!Request, Leased!LetGo
  <2>3. CASE Leased!Finish
    BY <2>3 DEF Leased!Finish
  <2>4. ASSUME NEW w \in Workers, Leased!Retire(w) PROVE Leased!NeverAgain
    BY <2>4 DEF Leased!Retire
  <2>5. ASSUME NEW T \in SUBSET Sessions, NEW W \in SUBSET Workers, Leased!Stop(T, W)
        PROVE  Leased!NeverAgain
    BY <2>5 DEF Leased!Stop
  <2> QED
    BY <2>1, <2>2, <2>3, <2>4, <2>5 DEF Leased!Next
<1>2. ServingInv => Leased!TypeOK
  <2> SUFFICES ASSUME ServingInv PROVE Leased!TypeOK
    OBVIOUS
  <2>1. \A s \in Sessions : HandOf(s) \in Workers \cup {None}
    BY DEF HandOf, ServingInv, TypeOK
  <2>2. Hands \in [Sessions -> Workers \cup {None}]
    <3> HIDE DEF HandOf
    <3> QED
      BY <2>1 DEF Hands
  <2>3. Unleased \subseteq Workers
    <3>1. Booting \subseteq Workers
      BY HandIsWorker DEF Booting
    <3> QED
      BY <3>1 DEF Unleased, ServingInv, TypeOK
  <2> QED
    BY <2>2, <2>3 DEF Leased!TypeOK, Requested, TakesCalls
<1> QED
  BY <1>1, <1>2, ServingInvariant, LeasesAreKept, PTL DEF ImplementsLeases, Leased!Spec
=============================================================================
