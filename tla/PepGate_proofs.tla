--------------------------- MODULE PepGate_proofs ---------------------------
(***************************************************************************)
(* Theorems about PepGate for any number of calls, threads, killers and    *)
(* grants, and any clock bound.                                            *)
(***************************************************************************)
EXTENDS PepGate, TLAPS

LEMMA EntryBlockType == \A e : EntryBlock(e) \in {OK} \cup HaltReasons
  BY DEF EntryBlock, HaltReasons

LEMMA RefusalType ==
    \A g, req, t : ConsumeRefusal(g, req, t) \in {OK} \cup ApprovalReasons
  BY DEF ConsumeRefusal, ApprovalReasons

LEMMA RequestType ==
    ASSUME GateInv, NEW a \in Calls, callPc[a] # "idle"
    PROVE  /\ request[a] \in Requests
           /\ request[a].grant \in Grants \cup {None}
           /\ HasGrant(a) => request[a].grant \in Grants
  BY GateAssumption DEF GateInv, CallInv, Request, HasGrant

(***************************************************************************)
(* Types are preserved by every step.                                      *)
(***************************************************************************)
LEMMA TypeStep == GateInv /\ [Next]_vars => TypeOK'
<1> SUFFICES ASSUME GateInv, [Next]_vars PROVE TypeOK'
  OBVIOUS
<1>0. TypeOK
  BY DEF GateInv
<1> USE <1>0 DEF TypeOK
<1>1. ASSUME NEW a \in Calls, Begin(a) PROVE TypeOK'
  BY <1>1 DEF Begin, CallStates, runtimeVars, storeVars, completeVars, worldVars, matchVars
<1>2. ASSUME NEW a \in Calls, Evaluate(a) PROVE TypeOK'
  BY <1>2 DEF Evaluate, Decide, CallStates, Reasons, HaltReasons, runtimeVars, ticketVars,
     storeVars, completeVars, worldVars, matchVars
<1>3. ASSUME NEW a \in Calls, Consume(a) PROVE TypeOK'
  <2>1. request[a].grant \in Grants
    BY <1>3, RequestType DEF Consume, GateInv, CallInv
  <2>2. ConsumeRefusal(request[a].grant, request[a], clock[a]) \in Reasons
    BY RefusalType DEF Reasons
  <2> QED
    BY <1>3, <2>1, <2>2 DEF Consume, Take, Refuse, Decide, CallStates, runtimeVars, ticketVars,
       completeVars, worldVars, matchVars
<1>4. ASSUME NEW a \in Calls, ObserveImplementation(a) PROVE TypeOK'
  <2>1. request[a].grant \in Grants
    BY <1>4, RequestType DEF ObserveImplementation, GateInv, CallInv
  <2> QED
    BY <1>4, <2>1 DEF ObserveImplementation, Take, Refuse, Decide, CallStates,
       Reasons, ApprovalReasons, runtimeVars, ticketVars, completeVars, worldVars, matchVars
<1>5. ASSUME NEW a \in Calls, ObserveState(a) PROVE TypeOK'
  <2>1. request[a].grant \in Grants
    BY <1>5, RequestType DEF ObserveState, GateInv, CallInv
  <2> QED
    BY <1>5, <2>1 DEF ObserveState, Take, Refuse, Decide, CallStates,
       Reasons, ApprovalReasons, runtimeVars, ticketVars, completeVars, worldVars, matchVars
<1>6. ASSUME NEW a \in Calls, FinalizeAllow(a) PROVE TypeOK'
  <2>1. EntryBlock(evaluatedEpoch[a]) \in Reasons
    BY EntryBlockType DEF Reasons
  <2> QED
    BY <1>6, <2>1 DEF FinalizeAllow, Decide, CallStates, runtimeVars, ticketVars,
       storeVars, completeVars, worldVars
<1>7. ASSUME NEW a \in Calls, ObserverCallsKill(a) PROVE TypeOK'
  BY <1>7 DEF ObserverCallsKill, runtimeVars, ticketVars, storeVars, completeVars,
     worldVars, matchVars
<1>8. ASSUME NEW a \in Calls, ObserverKills(a) PROVE TypeOK'
  BY <1>8 DEF ObserverKills, CutNow, RevokeOutstanding, Outstanding, Issued, ticketVars,
     completeVars, worldVars, matchVars
<1>9. ASSUME NEW a \in Calls, NEW p \in Principals, ObserverRevokesAll(a, p) PROVE TypeOK'
  BY <1>9 DEF ObserverRevokesAll, RevokeOutstanding, Outstanding, Issued, StoreUnchanged,
     runtimeVars, ticketVars, callVars, completeVars, worldVars, matchVars
<1>10. ASSUME NEW c \in Completers, CompleteStep(c) PROVE TypeOK'
  <2> USE DEF GoTo, CompleteUnchanged, CompleteStates, runtimeVars, storeVars, callVars,
          worldVars, matchVars
  <2>1. completePc[c] # "idle" => target[c] \in Calls
    BY DEF GateInv, TicketInv
  <2>2. ASSUME NEW a \in Calls, StartComplete(c, a) PROVE TypeOK'
    BY <2>2 DEF StartComplete
  <2>3. CASE ReadSpent(c)
    BY <2>3 DEF ReadSpent
  <2>4. CASE ReobserveImplementation(c)
    BY <2>4 DEF ReobserveImplementation
  <2>5. CASE ReobserveState(c)
    BY <2>5 DEF ReobserveState
  <2>6. CASE ClaimEntry(c)
    <3>1. target[c] \in Calls /\ admissionId[target[c]] \in Nat
      BY <2>1, <2>6 DEF ClaimEntry
    <3>2. spentAdmissions' \subseteq Nat
      BY <2>6, <3>1 DEF ClaimEntry
    <3>3. permits' \in [Calls -> Nat]
      BY <2>6, <3>1 DEF ClaimEntry
    <3>4. completePc' \in [Completers -> CompleteStates]
      BY <2>6 DEF ClaimEntry
    <3> QED
      BY <2>6, <3>2, <3>3, <3>4 DEF ClaimEntry
  <2>7. CASE EnterTool(c)
    BY <2>1, <2>7 DEF EnterTool
  <2> QED
    BY <1>10, <2>2, <2>3, <2>4, <2>5, <2>6, <2>7 DEF CompleteStep
<1>11. ASSUME NEW k \in Killers, KillStep(k) PROVE TypeOK'
  <2>1. CASE KillBegin(k)
    BY <2>1 DEF KillBegin, CutNow, ticketVars, storeVars, callVars, completeVars,
       worldVars, matchVars
  <2>2. CASE KillRevoke(k)
    BY <2>2 DEF KillRevoke, RevokeOutstanding, Outstanding, Issued, runtimeVars,
       ticketVars, callVars, completeVars, worldVars, matchVars
  <2> QED
    BY <1>11, <2>1, <2>2 DEF KillStep
<1>12. CASE Suspend \/ Resume \/ MarkUnavailable
  BY <1>12 DEF Suspend, Resume, MarkUnavailable, HaltUnchanged, ticketVars, storeVars,
     callVars, completeVars, worldVars, matchVars
<1>13. ASSUME NEW g \in Grants, Issue(g) PROVE TypeOK'
  <2>1. PICK spec \in GrantSpecs : records' = [records EXCEPT ![g] =
              [principal |-> spec.principal, binding |-> spec.binding,
               expires |-> now + spec.ttl, state |-> spec.state, impl |-> spec.impl]]
    BY <1>13 DEF Issue
  <2>2. [principal |-> spec.principal, binding |-> spec.binding,
         expires |-> now + spec.ttl, state |-> spec.state, impl |-> spec.impl]
            \in ApprovalRecord
    BY GateAssumption DEF GrantSpec, ApprovalRecord
  <2> QED
    BY <1>13, <2>1, <2>2 DEF Issue, StoreUnchanged, runtimeVars, ticketVars, callVars,
       completeVars, worldVars, matchVars
<1>14. ASSUME NEW g \in Grants, Revoke(g) PROVE TypeOK'
  BY <1>14 DEF Revoke, StoreUnchanged, runtimeVars, ticketVars, callVars,
     completeVars, worldVars, matchVars
<1>15. ASSUME NEW p \in Principals, RevokeAll(p) PROVE TypeOK'
  BY <1>15 DEF RevokeAll, RevokeOutstanding, Outstanding, Issued, StoreUnchanged,
     runtimeVars, ticketVars, callVars, completeVars, worldVars, matchVars
<1>16. CASE WorldStep
  <2> USE DEF WorldUnchanged, runtimeVars, ticketVars, storeVars, callVars, completeVars, matchVars
  <2>1. CASE Tick
    BY <2>1 DEF Tick
  <2>2. CASE ChangeState
    BY <2>2 DEF ChangeState
  <2>3. CASE ChangeImpl
    BY <2>3 DEF ChangeImpl
  <2> QED
    BY <1>16, <2>1, <2>2, <2>3 DEF WorldStep
<1>17. CASE UNCHANGED vars
  BY <1>17 DEF vars, runtimeVars, ticketVars, storeVars, callVars, completeVars, worldVars, matchVars
<1> QED
  BY <1>1, <1>2, <1>3, <1>4, <1>5, <1>6, <1>7, <1>8, <1>9, <1>10, <1>11, <1>12, <1>13,
     <1>14, <1>15, <1>16, <1>17 DEF Next, CallStep, OperatorStep

(***************************************************************************)
(* Locks and the fence.                                                    *)
(***************************************************************************)
LEMMA LockStep == GateInv /\ [Next]_vars => LockInv'
<1> SUFFICES ASSUME GateInv, [Next]_vars PROVE LockInv'
  OBVIOUS
<1>0. TypeOK /\ LockInv
  BY DEF GateInv
<1> USE <1>0, GateAssumption DEF LockInv, InsideConsume
<1>a. callPc \in [Calls -> CallStates] /\ killPc \in [Killers -> {"idle", "revoke", "done"}]
      /\ observerInKill \in [Calls -> BOOLEAN]
  BY DEF TypeOK
<1> USE <1>a
<1>1. ASSUME NEW a \in Calls, Begin(a) \/ Evaluate(a) \/ FinalizeAllow(a) PROVE LockInv'
  BY <1>1 DEF Begin, Evaluate, FinalizeAllow, Decide, CallStates
<1>2. ASSUME NEW a \in Calls, Consume(a) PROVE LockInv'
  BY <1>2 DEF Consume, Take, Refuse, Decide, CallStates
<1>3. ASSUME NEW a \in Calls, ObserveImplementation(a) PROVE LockInv'
  BY <1>3 DEF ObserveImplementation, Take, Refuse, Decide, CallStates
<1>4. ASSUME NEW a \in Calls, ObserveState(a) PROVE LockInv'
  BY <1>4 DEF ObserveState, Take, Refuse, Decide, CallStates
<1>5. ASSUME NEW a \in Calls, ObserverCallsKill(a) \/ ObserverKills(a) PROVE LockInv'
  BY <1>5 DEF ObserverCallsKill, ObserverKills, Observing
<1>6. ASSUME NEW a \in Calls, NEW p \in Principals, ObserverRevokesAll(a, p) PROVE LockInv'
  BY <1>6 DEF ObserverRevokesAll, StoreUnchanged, callVars
<1>7. ASSUME NEW c \in Completers, CompleteStep(c) PROVE LockInv'
  BY <1>7 DEF CompleteStep, StartComplete, ReadSpent, ReobserveImplementation,
     ReobserveState, ClaimEntry, EnterTool, CompleteUnchanged, callVars
<1>8. ASSUME NEW k \in Killers, KillStep(k) PROVE LockInv'
  BY <1>8 DEF KillStep, KillBegin, KillRevoke, callVars
<1>9. CASE OperatorStep
  BY <1>9 DEF OperatorStep, Suspend, Resume, MarkUnavailable, HaltUnchanged, Issue, Revoke,
     RevokeAll, StoreUnchanged, callVars
<1>10. CASE WorldStep
  BY <1>10 DEF WorldStep, Tick, ChangeState, ChangeImpl, WorldUnchanged, callVars
<1>11. CASE UNCHANGED vars
  BY <1>11 DEF vars, callVars
<1> QED
  BY <1>1, <1>2, <1>3, <1>4, <1>5, <1>6, <1>7, <1>8, <1>9, <1>10, <1>11 DEF Next, CallStep

LEMMA FenceStep == GateInv /\ [Next]_vars => FenceInv'
<1> SUFFICES ASSUME GateInv, [Next]_vars PROVE FenceInv'
  OBVIOUS
<1>0. FenceInv
  BY DEF GateInv
<1> USE <1>0 DEF FenceInv
<1>1. ASSUME NEW a \in Calls, CallStep(a) PROVE FenceInv'
  BY SMTT(20), <1>1 DEF CallStep, Begin, Evaluate, Consume, ObserveImplementation, ObserveState,
     FinalizeAllow, ObserverCallsKill, ObserverKills, CutNow, ObserverRevokesAll,
     StoreUnchanged, runtimeVars
<1>2. ASSUME NEW c \in Completers, CompleteStep(c) PROVE FenceInv'
  BY <1>2 DEF CompleteStep, StartComplete, ReadSpent, ReobserveImplementation,
     ReobserveState, ClaimEntry, EnterTool, CompleteUnchanged, runtimeVars
<1>3. ASSUME NEW k \in Killers, KillStep(k) PROVE FenceInv'
  BY <1>3 DEF KillStep, KillBegin, KillRevoke, CutNow, runtimeVars
<1>4. CASE OperatorStep
  BY <1>4 DEF OperatorStep, Suspend, Resume, MarkUnavailable, HaltUnchanged, Issue, Revoke,
     RevokeAll, StoreUnchanged, runtimeVars
<1>5. CASE WorldStep
  BY <1>5 DEF WorldStep, Tick, ChangeState, ChangeImpl, WorldUnchanged, runtimeVars
<1>6. CASE UNCHANGED vars
  BY <1>6 DEF vars, runtimeVars
<1> QED
  BY <1>1, <1>2, <1>3, <1>4, <1>5, <1>6 DEF Next

(***************************************************************************)
(* Steps that leave a call, its ticket and the grants alone.               *)
(***************************************************************************)
CallsKept == UNCHANGED <<callPc, request, clock, admissionId, reason, nextAdmissionId>>
TicketsKept == UNCHANGED <<spentAdmissions, permits, entries, completePc, target>>

LEMMA CallKeepsTickets == ASSUME NEW a \in Calls, CallStep(a) PROVE TicketsKept
  BY DEF CallStep, Begin, Evaluate, Consume, ObserveImplementation, ObserveState,
     FinalizeAllow, ObserverCallsKill, ObserverKills, CutNow, ObserverRevokesAll,
     StoreUnchanged, completeVars, ticketVars, TicketsKept

LEMMA CompleteKeepsCalls == ASSUME NEW c \in Completers, CompleteStep(c) PROVE CallsKept
  BY DEF CompleteStep, StartComplete, ReadSpent, ReobserveImplementation,
     ReobserveState, ClaimEntry, EnterTool, CompleteUnchanged, callVars, CallsKept

LEMMA OthersKeep ==
    ASSUME [Next]_vars, ~ \E a \in Calls : CallStep(a),
           ~ \E c \in Completers : CompleteStep(c)
    PROVE  CallsKept /\ TicketsKept
<1> USE DEF callVars, completeVars, ticketVars, CallsKept, TicketsKept
<1>1. ASSUME NEW k \in Killers, KillStep(k) PROVE CallsKept /\ TicketsKept
  BY <1>1 DEF KillStep, KillBegin, KillRevoke
<1>2. CASE OperatorStep
  BY <1>2 DEF OperatorStep, Suspend, Resume, MarkUnavailable, HaltUnchanged, Issue, Revoke,
     RevokeAll, StoreUnchanged
<1>3. CASE WorldStep
  BY <1>3 DEF WorldStep, Tick, ChangeState, ChangeImpl, WorldUnchanged
<1>4. CASE UNCHANGED vars
  BY <1>4 DEF vars
<1> QED
  BY <1>1, <1>2, <1>3, <1>4 DEF Next

\* What a step of call a does to the calls' records: nothing to another call,
\* and nothing to a call already decided.
LEMMA CallFrame ==
    ASSUME TypeOK, NEW a \in Calls, CallStep(a), NEW b \in Calls,
           b # a \/ callPc[b] = "decided"
    PROVE  /\ callPc'[b] = callPc[b] /\ reason'[b] = reason[b]
           /\ request'[b] = request[b] /\ admissionId'[b] = admissionId[b]
           /\ clock'[b] = clock[b]
<1> USE DEF TypeOK
<1>1. CASE Begin(a)
  BY <1>1 DEF Begin
<1>2. CASE Evaluate(a)
  BY <1>2 DEF Evaluate, Decide
<1>3. CASE Consume(a)
  BY <1>3 DEF Consume, Take, Refuse, Decide
<1>4. CASE ObserveImplementation(a)
  BY <1>4 DEF ObserveImplementation, Take, Refuse, Decide
<1>5. CASE ObserveState(a)
  BY <1>5 DEF ObserveState, Take, Refuse, Decide
<1>6. CASE FinalizeAllow(a)
  BY <1>6 DEF FinalizeAllow, Decide
<1>7. CASE ObserverCallsKill(a)
  BY <1>7 DEF ObserverCallsKill
<1>8. CASE ObserverKills(a)
  BY <1>8 DEF ObserverKills
<1>9. CASE \E p \in Principals : ObserverRevokesAll(a, p)
  BY <1>9 DEF ObserverRevokesAll, StoreUnchanged, callVars
<1> QED
  BY <1>1, <1>2, <1>3, <1>4, <1>5, <1>6, <1>7, <1>8, <1>9 DEF CallStep

\* And what it does to its own record, once begun.
LEMMA CallProgress ==
    ASSUME GateInv, NEW a \in Calls, CallStep(a), callPc[a] # "idle"
    PROVE  /\ callPc'[a] # "idle" /\ request' = request /\ clock' = clock
           /\ admissionId' = admissionId /\ nextAdmissionId' = nextAdmissionId
           /\ callPc'[a] \in {"consume", "observeImpl", "observeState"} => HasGrant(a)
<1>0. callPc \in [Calls -> CallStates] /\ reason \in [Calls -> Reasons]
  BY DEF GateInv, TypeOK
<1>a. callPc[a] \in {"consume", "observeImpl", "observeState"} => HasGrant(a)
  BY DEF GateInv, CallInv
<1> USE <1>0, <1>a
<1>2. CASE Evaluate(a)
  BY <1>2 DEF Evaluate, Decide, HasGrant, ticketVars
<1>3. CASE Consume(a)
  BY <1>3 DEF Consume, Take, Refuse, Decide, ticketVars
<1>4. CASE ObserveImplementation(a)
  BY <1>4 DEF ObserveImplementation, Take, Refuse, Decide, ticketVars
<1>5. CASE ObserveState(a)
  BY <1>5 DEF ObserveState, Take, Refuse, Decide, ticketVars
<1>6. CASE FinalizeAllow(a)
  BY <1>6 DEF FinalizeAllow, Decide, ticketVars
<1>7. CASE ObserverCallsKill(a) \/ ObserverKills(a)
  BY <1>7 DEF ObserverCallsKill, ObserverKills, ticketVars
<1>8. CASE \E p \in Principals : ObserverRevokesAll(a, p)
  BY <1>8 DEF ObserverRevokesAll, StoreUnchanged, callVars, ticketVars
<1> QED
  BY <1>2, <1>3, <1>4, <1>5, <1>6, <1>7, <1>8 DEF CallStep, Begin

(***************************************************************************)
(* Calls and tickets.                                                      *)
(***************************************************************************)
LEMMA CallInvStep == GateInv /\ [Next]_vars => CallInv'
<1> SUFFICES ASSUME GateInv, [Next]_vars PROVE CallInv'
  OBVIOUS
<1>0. TypeOK /\ CallInv /\ TicketInv
  BY DEF GateInv
<1>1. ASSUME NEW a \in Calls, CallStep(a) PROVE CallInv'
  <2>1. permits' = permits
    BY <1>1, CallKeepsTickets DEF TicketsKept
  <2>2. CASE callPc[a] = "idle"
    <3>1. Begin(a)
      BY <1>1, <2>2, <1>0 DEF CallStep, Evaluate, Consume, ObserveImplementation, ObserveState,
         FinalizeAllow, ObserverCallsKill, ObserverKills, ObserverRevokesAll, Observing,
         GateInv, LockInv, InsideConsume
    <3>2. PICK req \in Requests : request' = [request EXCEPT ![a] = req]
      BY <3>1 DEF Begin
    <3> QED
      BY <1>0, <2>1, <2>2, <3>1, <3>2 DEF Begin, CallInv, TypeOK, HasGrant, CallStates
  <2>3. CASE callPc[a] # "idle"
    <3>1. /\ callPc'[a] # "idle" /\ request' = request
          /\ admissionId' = admissionId /\ nextAdmissionId' = nextAdmissionId
          /\ callPc'[a] \in {"consume", "observeImpl", "observeState"} => HasGrant(a)
      BY <1>1, <2>3, CallProgress
    <3>2. \A b \in Calls : b # a \/ callPc[b] = "decided" => callPc'[b] = callPc[b]
      BY <1>0, <1>1, CallFrame
    <3> QED
      BY <1>0, <2>1, <2>3, <3>1, <3>2 DEF CallInv, HasGrant
  <2> QED
    BY <2>2, <2>3
<1>2. ASSUME NEW c \in Completers, CompleteStep(c) PROVE CallInv'
  <2>1. CallsKept
    BY <1>2, CompleteKeepsCalls
  <2>2. \A a \in Calls : callPc[a] # "decided" => permits'[a] = permits[a]
    BY <1>0, <1>2 DEF CompleteStep, StartComplete, ReadSpent, ReobserveImplementation,
       ReobserveState, ClaimEntry, EnterTool, TicketInv, Allowed, TypeOK
  <2> QED
    BY <1>0, <2>1, <2>2 DEF CallsKept, CallInv, HasGrant
<1>3. CASE CallsKept /\ TicketsKept
  BY <1>0, <1>3 DEF CallsKept, TicketsKept, CallInv, HasGrant
<1> QED
  BY <1>1, <1>2, <1>3, OthersKeep

LEMMA TicketInvStep == GateInv /\ [Next]_vars => TicketInv'
<1> SUFFICES ASSUME GateInv, [Next]_vars PROVE TicketInv'
  OBVIOUS
<1>0. TypeOK /\ CallInv /\ TicketInv
  BY DEF GateInv
<1>1. ASSUME NEW a \in Calls, CallStep(a) PROVE TicketInv'
  <2>1. TicketsKept
    BY <1>1, CallKeepsTickets
  <2>2. \A b \in Calls : Allowed(b) => Allowed(b)' /\ admissionId'[b] = admissionId[b]
    BY <1>0, <1>1, CallFrame DEF Allowed
  <2>3. nextAdmissionId \in Nat /\ nextAdmissionId' \in Nat
        /\ nextAdmissionId <= nextAdmissionId'
    <3>1. CASE callPc[a] = "idle"
      BY <1>0, <1>1, <3>1 DEF CallStep, Begin, Evaluate, Consume, ObserveImplementation,
         ObserveState, FinalizeAllow, ObserverCallsKill, ObserverKills, ObserverRevokesAll,
         Observing, GateInv, LockInv, InsideConsume, TypeOK
    <3>2. CASE callPc[a] # "idle"
      BY <1>0, <1>1, <3>2, CallProgress DEF TypeOK
    <3> QED
      BY <3>1, <3>2
  <2> QED
    BY <1>0, <2>1, <2>2, <2>3 DEF TicketsKept, TicketInv
<1>2. ASSUME NEW c \in Completers, CompleteStep(c) PROVE TicketInv'
  <2>1. CallsKept
    BY <1>2, CompleteKeepsCalls
  <2>a. completePc[c] # "idle" => target[c] \in Calls /\ Allowed(target[c])
    BY <1>0 DEF TicketInv
  <2> USE <1>0, <2>1, <2>a DEF CallsKept, TicketInv, Allowed
  <2>b. /\ completePc \in [Completers -> CompleteStates]
        /\ target \in [Completers -> Calls \cup {None}]
        /\ permits \in [Calls -> Nat] /\ entries \in [Calls -> Nat]
    BY DEF TypeOK
  <2>2. ASSUME NEW a \in Calls, StartComplete(c, a) PROVE TicketInv'
    BY <2>2, <2>b DEF StartComplete, GoTo, CompleteStates
  <2>3. CASE ReadSpent(c) \/ ReobserveImplementation(c) \/ ReobserveState(c)
    <3>1. completePc[c] # "idle" /\ UNCHANGED <<target, permits, entries, spentAdmissions>>
      BY <2>3 DEF ReadSpent, ReobserveImplementation, ReobserveState
    <3>2. completePc'[c] # "permitted" /\ \A d \in Completers \ {c} : completePc'[d] = completePc[d]
      BY <2>3, <2>b DEF ReadSpent, ReobserveImplementation, ReobserveState, GoTo
    <3> QED
      BY <3>1, <3>2
  <2>4. CASE ClaimEntry(c)
    <3>1. /\ target' = target /\ entries' = entries /\ completePc[c] = "claim"
          /\ \A d \in Completers \ {c} : completePc'[d] = completePc[d]
      BY <2>4, <2>b DEF ClaimEntry, GoTo
    <3>2. spentAdmissions \subseteq spentAdmissions'
          /\ spentAdmissions' \subseteq spentAdmissions \cup {admissionId[target[c]]}
      BY <2>4 DEF ClaimEntry
    <3>3. spentAdmissions' \subseteq 1..nextAdmissionId
      BY <3>1, <3>2 DEF CallInv
    <3>4. CASE permits' = permits /\ completePc'[c] = "idle"
      BY ZenonT(30), <3>1, <3>2, <3>3, <3>4
    <3>5. CASE /\ permits' = [permits EXCEPT ![target[c]] = @ + 1]
               /\ completePc'[c] = "permitted"
               /\ admissionId[target[c]] \notin spentAdmissions
               /\ admissionId[target[c]] \in spentAdmissions'
      <4>1. permits[target[c]] = 0 /\ entries[target[c]] = 0
        BY <2>b, <3>1, <3>5
      <4>2. \A d \in Completers \ {c} : completePc[d] = "permitted" => target[d] # target[c]
        BY <4>1, <2>b
      <4>3. /\ permits'[target[c]] = 1
            /\ \A a \in Calls \ {target[c]} : permits'[a] = permits[a]
        BY <2>b, <3>1, <3>5, <4>1
      <4>c. target[c] \in Calls /\ callPc[target[c]] = "decided" /\ reason[target[c]] = OK
        BY <3>1
      <4>4. ASSUME NEW a \in Calls
            PROVE  /\ permits'[a] <= 1 /\ entries'[a] <= permits'[a]
                   /\ permits'[a] > 0 => admissionId'[a] \in spentAdmissions' /\ Allowed(a)'
        <5>1. CASE a = target[c]
          BY <2>b, <3>1, <3>5, <4>1, <4>3, <4>c, <5>1
        <5>2. CASE a # target[c]
          BY <2>b, <3>1, <3>2, <4>3, <5>2
        <5> QED
          BY <5>1, <5>2
      <4>5. ASSUME NEW d \in Completers
            PROVE  /\ completePc'[d] # "idle" => target'[d] \in Calls /\ Allowed(target[d])'
                   /\ completePc'[d] = "permitted" =>
                         permits'[target'[d]] = 1 /\ entries'[target'[d]] = 0
        <5>1. CASE d = c
          BY <3>1, <4>1, <4>3, <4>c, <5>1
        <5>2. CASE d # c
          BY <3>1, <4>2, <4>3, <5>2
        <5> QED
          BY <5>1, <5>2
      <4>6. \A d \in Completers : \A e \in Completers \ {d} :
              completePc'[d] = "permitted" /\ completePc'[e] = "permitted"
                  => target'[d] # target'[e]
        BY <3>1, <4>2
      <4> QED
        BY <3>3, <4>4, <4>5, <4>6
    <3> QED
      BY <2>4, <2>b, <3>4, <3>5 DEF ClaimEntry, GoTo
  <2>5. CASE EnterTool(c)
    BY <2>5, <2>b DEF EnterTool, GoTo, CompleteStates
  <2> QED
    BY <1>2, <2>2, <2>3, <2>4, <2>5 DEF CompleteStep
<1>3. CASE CallsKept /\ TicketsKept
  BY <1>0, <1>3 DEF CallsKept, TicketsKept, TicketInv, Allowed
<1> QED
  BY <1>1, <1>2, <1>3, OthersKeep

(***************************************************************************)
(* Grants.                                                                 *)
(***************************************************************************)
\* What consume()'s checks establish when none of them refuses.
LEMMA RefusalOK ==
    ASSUME TypeOK, NEW a \in Calls, NEW g \in Grants, request[a] \in Requests,
           ConsumeRefusal(g, request[a], clock[a]) = OK
    PROVE  g \in Issued \ (consumed \cup revoked) /\ Agrees(a, records[g])
<1>1. records[g] # None /\ g \notin revoked /\ g \notin consumed
      /\ ~PrincipalFailure(records[g], request[a])
      /\ ~(records[g].expires <= clock[a]) /\ records[g].binding = request[a].binding
  BY DEF ConsumeRefusal, OK, IsConsumed, IsExpired
<1>2. records[g].expires \in Nat /\ clock[a] \in Nat
  BY <1>1 DEF TypeOK, ApprovalRecord
<1> QED
  BY <1>1, <1>2 DEF Issued, Agrees, PrincipalFailure

\* One call's part of GrantInv.
GrantFacts(a) ==
    LET g == request[a].grant
    IN /\ InsideConsume(a) => g \in Issued \ consumed /\ Agrees(a, records[g])
       /\ (callPc[a] = "finalize" \/ Allowed(a)) /\ HasGrant(a) =>
             g \in consumed /\ spentBy[g] = a /\ Agrees(a, records[g])

\* Marks may only be added to outstanding grants, and a call's record only change
\* while it is elsewhere.
LEMMA GrantKept ==
    ASSUME GrantInv, UNCHANGED <<records, consumed, spentBy>>,
           revoked \subseteq revoked', revoked' \subseteq revoked \cup Outstanding,
           \A a \in Calls : GrantFacts(a)'
    PROVE  GrantInv'
  BY DEF GrantInv, GrantFacts, Outstanding, Issued

LEMMA FactsKept ==
    ASSUME NEW a \in Calls, GrantFacts(a), UNCHANGED <<records, consumed, spentBy>>,
           callPc'[a] = callPc[a], reason'[a] = reason[a], request'[a] = request[a],
           clock'[a] = clock[a]
    PROVE  GrantFacts(a)'
  BY DEF GrantFacts, InsideConsume, Issued, Agrees, Allowed, HasGrant

\* Spending an unmarked grant from inside consume().
LEMMA GrantTaken ==
    ASSUME TypeOK, GrantInv, LockInv, NEW a \in Calls, NEW g \in Grants,
           g = request[a].grant, HasGrant(a), Take(a, g), storeLock \in {a, Free},
           UNCHANGED <<records, revoked, request, clock>>,
           g \in Issued \ (consumed \cup revoked), Agrees(a, records[g])
    PROVE  GrantInv'
<1> USE DEF Take
<1>1. consumed' \cup revoked' \subseteq Issued' /\ consumed' \cap revoked' = {}
  BY DEF GrantInv, Issued
<1>2. \A h \in Grants : spentBy'[h] # None <=> h \in consumed'
  BY GateAssumption DEF GrantInv, TypeOK
<1>3. ASSUME NEW b \in Calls PROVE GrantFacts(b)'
  <2>1. CASE b = a
    BY <2>1 DEF GrantFacts, InsideConsume, Agrees, TypeOK, CallStates
  <2>2. CASE b # a
    <3>1. callPc'[b] = callPc[b] /\ reason'[b] = reason[b]
      BY <2>2 DEF TypeOK
    <3>2. ~InsideConsume(b)
      BY <2>2, GateAssumption DEF LockInv
    <3>3. request[b].grant \in consumed => request[b].grant # g
      OBVIOUS
    <3> QED
      BY <3>1, <3>2, <3>3 DEF GrantInv, GrantFacts, InsideConsume, Agrees, Allowed, HasGrant, TypeOK
  <2> QED
    BY <2>1, <2>2
<1> QED
  BY <1>1, <1>2, <1>3 DEF GrantInv, GrantFacts

LEMMA GrantInvStep == GateInv /\ [Next]_vars => GrantInv'
<1> SUFFICES ASSUME GateInv, [Next]_vars PROVE GrantInv'
  OBVIOUS
<1>0. TypeOK /\ LockInv /\ CallInv /\ GrantInv
  BY DEF GateInv
<1>a. \A a \in Calls : GrantFacts(a)
  BY <1>0 DEF GrantInv, GrantFacts
<1>1. ASSUME NEW a \in Calls, CallStep(a) PROVE GrantInv'
  <2>1. \A b \in Calls \ {a} :
          /\ callPc'[b] = callPc[b] /\ reason'[b] = reason[b]
          /\ request'[b] = request[b] /\ clock'[b] = clock[b]
    BY <1>0, <1>1, CallFrame
  <2>2. ASSUME UNCHANGED <<records, consumed, spentBy>>, revoked \subseteq revoked',
               revoked' \subseteq revoked \cup Outstanding, GrantFacts(a)'
        PROVE  GrantInv'
    <3>1. \A b \in Calls \ {a} : GrantFacts(b)'
      BY <1>a, <2>1, <2>2, FactsKept
    <3> QED
      BY <1>0, <2>2, <3>1, GrantKept
  <2>3. CASE Begin(a)
    BY <1>0, <2>2, <2>3 DEF Begin, storeVars, GrantFacts, InsideConsume, Allowed, TypeOK
  <2>4. CASE Evaluate(a)
    <3>1. GrantFacts(a)'
      BY <1>0, <2>4 DEF Evaluate, Decide, GrantFacts, InsideConsume, Allowed, HasGrant, TypeOK, OK
    <3> QED
      BY <2>2, <2>4, <3>1 DEF Evaluate, storeVars
  <2>5. CASE Consume(a)
    <3> DEFINE g == request[a].grant
    <3>1. request[a] \in Requests /\ g \in Grants /\ HasGrant(a)
      BY <1>0, <2>5, RequestType DEF Consume, CallInv
    <3>2. UNCHANGED <<records, revoked, request, clock>> /\ storeLock = Free
      BY <2>5 DEF Consume
    <3>3. CASE Refuse(a, ConsumeRefusal(g, request[a], clock[a]))
               /\ ConsumeRefusal(g, request[a], clock[a]) # OK
      <4>1. GrantFacts(a)'
        BY <1>0, <3>3 DEF Refuse, Decide, GrantFacts, InsideConsume, Allowed, TypeOK
      <4> QED
        BY <2>2, <3>2, <3>3, <4>1 DEF Refuse
    <3>4. CASE ConsumeRefusal(g, request[a], clock[a]) = OK
      <4>1. g \in Issued \ (consumed \cup revoked) /\ Agrees(a, records[g])
        BY <1>0, <3>1, <3>4, RefusalOK
      <4>2. CASE Take(a, g)
        BY <1>0, <3>1, <3>2, <4>1, <4>2, GrantTaken
      <4>3. CASE /\ callPc' = [callPc EXCEPT ![a] =
                       IF records[g].impl # None THEN "observeImpl" ELSE "observeState"]
                 /\ UNCHANGED <<consumed, spentBy, reason>>
        <5>1. GrantFacts(a)'
          BY <1>0, <3>2, <4>1, <4>3 DEF GrantFacts, InsideConsume, Allowed, Agrees, Issued, TypeOK
        <5> QED
          BY <2>2, <3>2, <4>3, <5>1
      <4> QED
        BY <2>5, <3>4, <4>2, <4>3 DEF Consume
    <3> QED
      BY <2>5, <3>3, <3>4 DEF Consume
  <2>6. CASE ObserveImplementation(a) \/ ObserveState(a)
    <3> DEFINE g == request[a].grant
    <3>1. InsideConsume(a) /\ storeLock = a /\ UNCHANGED <<records, revoked, request, clock>>
      BY <1>0, <2>6 DEF ObserveImplementation, ObserveState, InsideConsume, LockInv
    <3>2. g \in Issued \ consumed /\ Agrees(a, records[g]) /\ HasGrant(a) /\ g \in Grants
      BY <1>0, <1>a, <3>1 DEF GrantFacts, CallInv, InsideConsume, Issued
    <3>3. ASSUME NEW why \in Reasons \ {OK}, Refuse(a, why) PROVE GrantInv'
      <4>1. GrantFacts(a)'
        BY <1>0, <3>3 DEF Refuse, Decide, GrantFacts, InsideConsume, Allowed, TypeOK
      <4> QED
        BY <2>2, <3>1, <3>3, <4>1 DEF Refuse
    <3>4. CASE g \notin revoked /\ Take(a, g)
      BY <1>0, <3>1, <3>2, <3>4, GrantTaken
    <3>5. CASE /\ callPc' = [callPc EXCEPT ![a] = "observeState"]
               /\ UNCHANGED <<storeLock, consumed, spentBy, reason>>
      <4>1. GrantFacts(a)'
        BY <1>0, <3>1, <3>2, <3>5 DEF GrantFacts, InsideConsume, Allowed, Agrees, Issued, TypeOK
      <4> QED
        BY <2>2, <3>1, <3>5, <4>1
    <3>6. {"APPROVAL_REVOKED", "APPROVAL_STATE_MISMATCH", "APPROVAL_IMPLEMENTATION_MISMATCH"}
              \subseteq Reasons \ {OK}
      BY DEF Reasons, ApprovalReasons, OK
    <3>7. CASE ObserveImplementation(a)
      BY <3>3, <3>4, <3>5, <3>6, <3>7 DEF ObserveImplementation, RevokedNow
    <3>8. CASE ObserveState(a)
      BY <3>3, <3>4, <3>6, <3>8 DEF ObserveState, RevokedNow
    <3> QED
      BY <2>6, <3>7, <3>8
  <2>7. CASE FinalizeAllow(a)
    <3>1. GrantFacts(a)'
      BY <1>0, <1>a, <2>7 DEF FinalizeAllow, Decide, GrantFacts, InsideConsume, Allowed, HasGrant,
         Agrees, storeVars, TypeOK
    <3> QED
      BY <2>2, <2>7, <3>1 DEF FinalizeAllow, storeVars
  <2>8. CASE \/ ObserverCallsKill(a) \/ ObserverKills(a)
             \/ \E p \in Principals : ObserverRevokesAll(a, p)
    <3>1. UNCHANGED <<records, consumed, spentBy, callPc, reason, request, clock>>
      BY <2>8 DEF ObserverCallsKill, ObserverKills, ObserverRevokesAll, StoreUnchanged, callVars,
         storeVars
    <3>2. revoked \subseteq revoked' /\ revoked' \subseteq revoked \cup Outstanding
      BY <2>8 DEF ObserverCallsKill, ObserverKills, ObserverRevokesAll, RevokeOutstanding, storeVars
    <3>3. GrantFacts(a)'
      BY <1>a, <3>1, FactsKept
    <3> QED
      BY <2>2, <3>1, <3>2, <3>3
  <2> QED
    BY <1>1, <2>3, <2>4, <2>5, <2>6, <2>7, <2>8 DEF CallStep
<1>b. ASSUME CallsKept, UNCHANGED <<records, consumed, spentBy>>, revoked \subseteq revoked',
             revoked' \subseteq revoked \cup Outstanding
      PROVE  GrantInv'
  <2>1. \A a \in Calls : GrantFacts(a)'
    BY <1>a, <1>b, FactsKept DEF CallsKept
  <2> QED
    BY <1>0, <1>b, <2>1, GrantKept
<1>2. ASSUME NEW c \in Completers, CompleteStep(c) PROVE GrantInv'
  <2>1. UNCHANGED <<records, consumed, spentBy, revoked>>
    BY <1>2 DEF CompleteStep, StartComplete, ReadSpent, ReobserveImplementation,
       ReobserveState, ClaimEntry, EnterTool, CompleteUnchanged, storeVars
  <2> QED
    BY <1>2, <1>b, <2>1, CompleteKeepsCalls
<1>3. ASSUME CallsKept, NEW k \in Killers, KillStep(k) PROVE GrantInv'
  BY <1>3, <1>b DEF KillStep, KillBegin, KillRevoke, RevokeOutstanding, storeVars
<1>4. CASE CallsKept /\ (Suspend \/ Resume \/ MarkUnavailable \/ WorldStep \/ UNCHANGED vars)
  BY <1>4, <1>b DEF Suspend, Resume, MarkUnavailable, HaltUnchanged, WorldStep, Tick, ChangeState,
     ChangeImpl, WorldUnchanged, vars, storeVars
<1>5. ASSUME CallsKept, NEW p \in Principals, RevokeAll(p) PROVE GrantInv'
  BY <1>5, <1>b DEF RevokeAll, RevokeOutstanding
<1>6. ASSUME CallsKept, NEW g \in Grants, Revoke(g) PROVE GrantInv'
  BY <1>6, <1>b DEF Revoke
<1>7. ASSUME CallsKept, NEW g \in Grants, Issue(g) PROVE GrantInv'
  <2>1. g \notin Issued /\ g \notin consumed \cup revoked
    BY <1>0, <1>7 DEF Issue, Unused, Issued, GrantInv
  <2>2. UNCHANGED <<consumed, revoked, spentBy>> /\ Issued \subseteq Issued'
        /\ \A h \in Grants \ {g} : records'[h] = records[h]
    BY <1>0, <1>7, <2>1 DEF Issue, Issued, TypeOK
  <2>3. \A a \in Calls : GrantFacts(a)'
    BY <1>0, <1>a, <1>7, <2>1, <2>2 DEF GrantFacts, GrantInv, CallsKept, InsideConsume, Allowed, Agrees,
       HasGrant, Issued
  <2> QED
    BY <1>0, <2>2, <2>3 DEF GrantInv, GrantFacts
<1> QED
  BY <1>1, <1>2, <1>3, <1>4, <1>5, <1>6, <1>7, OthersKeep DEF Next, OperatorStep

(***************************************************************************)
(* Outstanding grants after the cut.                                       *)
(***************************************************************************)
LEMMA KillGrantStep == GateInv /\ [Next]_vars => KillLeavesNoGrant'
<1> SUFFICES ASSUME GateInv, [Next]_vars PROVE KillLeavesNoGrant'
  OBVIOUS
<1>0. TypeOK /\ LockInv /\ FenceInv /\ GrantInv /\ KillLeavesNoGrant
  BY DEF GateInv
<1>a. ASSUME UNCHANGED <<fenceEngaged, runtimeLock, records, issuedAfterCut>>,
             consumed \subseteq consumed', revoked \subseteq revoked'
      PROVE  KillLeavesNoGrant'
  BY <1>0, <1>a DEF KillLeavesNoGrant, Outstanding, Issued
<1>1. ASSUME NEW a \in Calls, CallStep(a), ~ObserverKills(a) PROVE KillLeavesNoGrant'
  BY <1>1, <1>a DEF CallStep, Begin, Evaluate, Consume, ObserveImplementation, ObserveState, Take,
     Refuse, FinalizeAllow, ObserverCallsKill, ObserverRevokesAll, RevokeOutstanding,
     StoreUnchanged, storeVars, runtimeVars
<1>2. ASSUME NEW a \in Calls, ObserverKills(a) PROVE KillLeavesNoGrant'
  BY <1>2 DEF ObserverKills, RevokeOutstanding, KillLeavesNoGrant, Outstanding, Issued
<1>3. ASSUME NEW c \in Completers, CompleteStep(c) PROVE KillLeavesNoGrant'
  BY <1>3, <1>a DEF CompleteStep, StartComplete, ReadSpent, ReobserveImplementation,
     ReobserveState, ClaimEntry, EnterTool, CompleteUnchanged, storeVars, runtimeVars
<1>4. ASSUME NEW k \in Killers, KillBegin(k) PROVE KillLeavesNoGrant'
  BY <1>4, GateAssumption DEF KillBegin, KillLeavesNoGrant
<1>5. ASSUME NEW k \in Killers, KillRevoke(k) PROVE KillLeavesNoGrant'
  BY <1>5 DEF KillRevoke, RevokeOutstanding, KillLeavesNoGrant, Outstanding, Issued
<1>6. CASE Suspend \/ Resume \/ MarkUnavailable \/ WorldStep \/ UNCHANGED vars
  BY <1>6, <1>a DEF Suspend, Resume, MarkUnavailable, HaltUnchanged, WorldStep, Tick, ChangeState,
     ChangeImpl, WorldUnchanged, vars, storeVars, runtimeVars
<1>7. ASSUME NEW p \in Principals, RevokeAll(p) PROVE KillLeavesNoGrant'
  BY <1>7, <1>a DEF RevokeAll, RevokeOutstanding, StoreUnchanged, runtimeVars
<1>8. ASSUME NEW g \in Grants, Revoke(g) PROVE KillLeavesNoGrant'
  BY <1>8, <1>a DEF Revoke, StoreUnchanged, runtimeVars
<1>9. ASSUME NEW g \in Grants, Issue(g) PROVE KillLeavesNoGrant'
  <2>1. g \notin consumed \cup revoked
    BY <1>0, <1>9 DEF Issue, Unused, Issued, GrantInv
  <2>2. UNCHANGED <<consumed, revoked, fenceEngaged, runtimeLock>>
        /\ \A h \in Grants \ {g} : records'[h] = records[h]
    BY <1>0, <1>9, <2>1 DEF Issue, StoreUnchanged, runtimeVars, TypeOK
  <2> QED
    BY <1>0, <1>9, <2>2 DEF Issue, KillLeavesNoGrant, Outstanding, Issued
<1> QED
  BY <1>1, <1>2, <1>3, <1>4, <1>5, <1>6, <1>7, <1>8, <1>9 DEF Next, OperatorStep, KillStep

-----------------------------------------------------------------------------
LEMMA InitGate == Init => GateInv
<1> SUFFICES ASSUME Init PROVE GateInv
  OBVIOUS
<1> USE GateAssumption DEF Init
<1>1. TypeOK
  BY DEF TypeOK, CallStates, CompleteStates, Reasons
<1>2. LockInv /\ FenceInv
  BY DEF LockInv, InsideConsume, FenceInv
<1>3. CallInv /\ TicketInv
  BY DEF CallInv, TicketInv, HasGrant, Allowed
<1>4. GrantInv /\ KillLeavesNoGrant
  BY DEF GrantInv, InsideConsume, Allowed, KillLeavesNoGrant, Outstanding, Issued
<1> QED
  BY <1>1, <1>2, <1>3, <1>4 DEF GateInv

(***************************************************************************)
(* GateInv is an invariant of the gate (PepRuntime, ApprovalStore and the  *)
(* two halves of a gated call).                                            *)
(***************************************************************************)
THEOREM GateInvariant == Spec => []GateInv
<1>1. GateInv /\ [Next]_vars => GateInv'
  BY TypeStep, LockStep, FenceStep, CallInvStep, TicketInvStep, GrantInvStep, KillGrantStep DEF GateInv
<1> QED
  BY InitGate, <1>1, PTL DEF Spec

(***************************************************************************)
(* Type correctness of the gate's state.                                   *)
(***************************************************************************)
THEOREM TypeCorrect == Spec => []TypeOK
<1>1. GateInv => TypeOK
  BY DEF GateInv
<1> QED
  BY GateInvariant, <1>1, PTL

(***************************************************************************)
(* One grant puts at most one call into its tool, and that call once:      *)
(* consume()'s single use and claim_entry()'s one-shot ticket together.    *)
(***************************************************************************)
THEOREM OneEntry == Spec => []OneEntryPerGrant
<1>1. GateInv => OneEntryPerGrant
  <2> SUFFICES ASSUME GateInv PROVE OneEntryPerGrant
    OBVIOUS
  <2>1. \A a \in Calls : permits[a] > 0 => Allowed(a)
    BY DEF GateInv, TicketInv
  <2>2. \A a \in Calls : permits[a] > 0 /\ request[a].grant # None => spentBy[request[a].grant] = a
    BY <2>1 DEF GateInv, GrantInv, HasGrant
  <2>3. \A a \in Calls : entries[a] <= permits[a] /\ permits[a] <= 1
    BY DEF GateInv, TicketInv
  <2> QED
    BY <2>2, <2>3 DEF OneEntryPerGrant
<1> QED
  BY GateInvariant, <1>1, PTL

(***************************************************************************)
(* A permitted call is the call the operator approved (consume()'s         *)
(* principal, binding and expiry checks, carried to tool entry).           *)
(***************************************************************************)
THEOREM EntryIsApproved == Spec => []EntryMatchesGrant
<1>1. GateInv => EntryMatchesGrant
  BY DEF GateInv, TicketInv, GrantInv, HasGrant, Agrees, EntryMatchesGrant
<1> QED
  BY GateInvariant, <1>1, PTL

(***************************************************************************)
(* ADR-0011: outside kill()'s critical section no grant minted before the  *)
(* cut is spendable, whichever thread, observer or not, called kill().     *)
(***************************************************************************)
THEOREM KillRevokes == Spec => []KillLeavesNoGrant
<1>1. GateInv => KillLeavesNoGrant
  BY DEF GateInv
<1> QED
  BY GateInvariant, <1>1, PTL

(***************************************************************************)
(* No thread is given a permit after the cut.                              *)
(***************************************************************************)
THEOREM CutIsFinal == Spec => NoPermitAfterCut
<1>1. GateInv /\ [Next]_vars => [fenceEngaged => permits' = permits]_vars
  <2> SUFFICES ASSUME GateInv, Next, fenceEngaged PROVE permits' = permits
    OBVIOUS
  <2>1. ASSUME NEW a \in Calls, CallStep(a) PROVE permits' = permits
    BY <2>1, CallKeepsTickets DEF TicketsKept
  <2>2. ASSUME NEW c \in Completers, CompleteStep(c) PROVE permits' = permits
    <3>1. EntryBlock(admittedEpoch[target[c]]) # OK
      BY DEF GateInv, FenceInv, EntryBlock, OK
    <3> QED
      BY <2>2, <3>1 DEF CompleteStep, StartComplete, ReadSpent, ReobserveImplementation,
         ReobserveState, ClaimEntry, EnterTool
  <2> QED
    BY <2>1, <2>2, OthersKeep DEF TicketsKept
<1> QED
  BY GateInvariant, <1>1, PTL DEF Spec, NoPermitAfterCut

(***************************************************************************)
(* A revoked grant stays revoked and is never spent.                       *)
(***************************************************************************)
THEOREM RevokedForGood == Spec => RevocationIsFinal
<1>1. GateInv /\ GateInv' /\ [Next]_vars =>
        [revoked \subseteq revoked' /\ consumed' \cap revoked' = {}]_vars
  <2> SUFFICES ASSUME GateInv, GateInv', Next
               PROVE  revoked \subseteq revoked' /\ consumed' \cap revoked' = {}
    OBVIOUS
  <2>1. consumed' \cap revoked' = {}
    BY DEF GateInv, GrantInv
  <2>2. ASSUME NEW a \in Calls, CallStep(a) PROVE revoked \subseteq revoked'
    BY <2>2 DEF CallStep, Begin, Evaluate, Consume, ObserveImplementation, ObserveState,
       FinalizeAllow, ObserverCallsKill, ObserverKills, ObserverRevokesAll, RevokeOutstanding, storeVars
  <2>3. ASSUME NEW c \in Completers, CompleteStep(c) PROVE revoked \subseteq revoked'
    BY <2>3 DEF CompleteStep, StartComplete, ReadSpent, ReobserveImplementation,
       ReobserveState, ClaimEntry, EnterTool, CompleteUnchanged, storeVars
  <2>4. ASSUME NEW k \in Killers, KillStep(k) PROVE revoked \subseteq revoked'
    BY <2>4 DEF KillStep, KillBegin, KillRevoke, RevokeOutstanding, storeVars
  <2>5. CASE Suspend \/ Resume \/ MarkUnavailable \/ WorldStep
    BY <2>1, <2>5 DEF Suspend, Resume, MarkUnavailable, HaltUnchanged, WorldStep, Tick, ChangeState,
       ChangeImpl, WorldUnchanged, storeVars
  <2>6. ASSUME NEW g \in Grants, Issue(g) \/ Revoke(g) PROVE revoked \subseteq revoked'
    BY <2>6 DEF Issue, Revoke, Unused, Issued, GateInv, GrantInv
  <2>7. ASSUME NEW p \in Principals, RevokeAll(p) PROVE revoked \subseteq revoked'
    BY <2>7 DEF RevokeAll, RevokeOutstanding
  <2> QED
    BY <2>1, <2>2, <2>3, <2>4, <2>5, <2>6, <2>7 DEF Next, OperatorStep
<1>2. GateInv /\ [Next]_vars => GateInv'
  BY TypeStep, LockStep, FenceStep, CallInvStep, TicketInvStep, GrantInvStep, KillGrantStep DEF GateInv
<1> QED
  BY GateInvariant, <1>1, <1>2, PTL DEF Spec, RevocationIsFinal

-----------------------------------------------------------------------------
(***************************************************************************)
(* The gate implements Authority.                                          *)
(***************************************************************************)
AbstractKept == UNCHANGED <<AGrant, spentBy, fenceEngaged, APermitted, ALeansOn>>

LEMMA MarksKept ==
    UNCHANGED <<records, consumed, revoked>> => AGrant' = AGrant
  BY DEF AGrant, Issued

LEMMA RevokedMap ==
    ASSUME GateInv, UNCHANGED <<records, consumed>>, revoked \subseteq revoked',
           revoked' \subseteq revoked \cup Outstanding
    PROVE  AGrant' = [g \in Grants |-> IF g \in revoked' \ revoked /\ AGrant[g] = "open"
                                      THEN "revoked" ELSE AGrant[g]]
  BY DEF AGrant, Issued, Outstanding

LEMMA OneMarkMoves ==
    ASSUME NEW g \in Grants, NEW v, AGrant'[g] = v,
           \A h \in Grants : h # g => AGrant'[h] = AGrant[h]
    PROVE  AGrant' = [AGrant EXCEPT ![g] = v]
<1>1. AGrant' = [h \in Grants |-> AGrant'[h]] /\ AGrant = [h \in Grants |-> AGrant[h]]
  BY DEF AGrant
<1> DEFINE M == AGrant
           N == AGrant'
<1>2. N = [h \in Grants |-> N[h]] /\ M = [h \in Grants |-> M[h]] /\ N[g] = v
      /\ \A h \in Grants : h # g => N[h] = M[h]
  BY <1>1
<1>3. N = [M EXCEPT ![g] = v]
  <2> HIDE DEF M, N
  <2> QED
    BY <1>2
<1> QED
  BY <1>3

LEMMA OneLeanMoves ==
    ASSUME NEW a \in Calls, NEW v, ALeansOn'[a] = v,
           \A b \in Calls : b # a => ALeansOn'[b] = ALeansOn[b]
    PROVE  ALeansOn' = [ALeansOn EXCEPT ![a] = v]
<1> DEFINE M == ALeansOn
           N == ALeansOn'
<1>1. N = [b \in Calls |-> N[b]] /\ M = [b \in Calls |-> M[b]] /\ N[a] = v
      /\ \A b \in Calls : b # a => N[b] = M[b]
  BY DEF ALeansOn
<1>2. N = [M EXCEPT ![a] = v]
  <2> HIDE DEF M, N
  <2> QED
    BY <1>1
<1> QED
  BY <1>2

LEMMA PermitsKept ==
    ASSUME UNCHANGED permits, \A a \in Calls : permits[a] > 0 => request'[a] = request[a]
    PROVE  UNCHANGED <<APermitted, ALeansOn>>
  BY DEF APermitted, ALeansOn

LEMMA AbstractStep ==
    ASSUME GateInv, GateInv', [Next]_vars
    PROVE  Abstract!Next \/ AbstractKept
<1>0. TypeOK /\ TypeOK' /\ LockInv /\ CallInv /\ TicketInv /\ GrantInv
  BY DEF GateInv
<1>a. /\ Abstract!Next <=>
            \/ \E g \in Grants : Abstract!Mint(g)
            \/ \E g \in Grants, a \in Calls : Abstract!Spend(g, a)
            \/ \E S \in SUBSET Grants : Abstract!Revoke(S) \/ Abstract!Cut(S)
            \/ \E a \in Calls, g \in Grants \cup {None} : Abstract!Permit(a, g)
  BY DEF Abstract!Next
<1>b. ASSUME UNCHANGED <<records, consumed, spentBy, APermitted, ALeansOn>>,
             revoked \subseteq revoked', revoked' \subseteq revoked \cup Outstanding,
             fenceEngaged' = fenceEngaged \/ fenceEngaged' = TRUE
      PROVE  Abstract!Next
  <2>1. PICK S \in SUBSET Grants : S = revoked' \ revoked
    BY <1>0 DEF TypeOK
  <2>2. AGrant' = [g \in Grants |-> IF g \in S /\ AGrant[g] = "open"
                                   THEN "revoked" ELSE AGrant[g]]
    BY <1>b, <2>1, RevokedMap
  <2>3. CASE fenceEngaged' = fenceEngaged
    <3>1. Abstract!Revoke(S)
      BY <1>b, <2>2, <2>3 DEF Abstract!Revoke, Abstract!Revoked
    <3> QED
      BY <1>a, <2>1, <3>1
  <2>4. CASE fenceEngaged' = TRUE
    <3>1. Abstract!Cut(S)
      BY <1>b, <2>2, <2>4 DEF Abstract!Cut, Abstract!Revoked
    <3> QED
      BY <1>a, <2>1, <3>1
  <2> QED
    BY <1>b, <2>3, <2>4
<1>1. ASSUME NEW a \in Calls, CallStep(a) PROVE Abstract!Next \/ AbstractKept
  <2>1. permits' = permits
    BY <1>1, CallKeepsTickets DEF TicketsKept
  <2>2. \A b \in Calls : permits[b] > 0 => request'[b] = request[b]
    BY <1>0, <1>1, CallFrame DEF TicketInv, Allowed
  <2>3. UNCHANGED <<APermitted, ALeansOn>>
    BY <2>1, <2>2, PermitsKept
  <2>4. CASE UNCHANGED <<records, consumed, revoked, spentBy, fenceEngaged>>
    BY <2>3, <2>4, MarksKept DEF AbstractKept
  <2>5. ASSUME NEW g \in Grants, g \in Issued \ (consumed \cup revoked), Take(a, g),
               UNCHANGED <<records, revoked, fenceEngaged>>
        PROVE  Abstract!Next
    <3>1. /\ Issued' = Issued /\ revoked' = revoked /\ consumed' = consumed \cup {g}
          /\ spentBy' = [spentBy EXCEPT ![g] = a] /\ fenceEngaged' = fenceEngaged
      BY <2>5 DEF Issued, Take
    <3>2. AGrant[g] = "open" /\ AGrant'[g] = "spent"
      BY <2>5, <3>1 DEF AGrant
    <3>3. \A h \in Grants : h # g => AGrant'[h] = AGrant[h]
      BY <3>1 DEF AGrant
    <3>4. AGrant' = [AGrant EXCEPT ![g] = "spent"]
      BY <3>2, <3>3, OneMarkMoves
    <3>5. Abstract!Spend(g, a)
      BY <2>3, <3>1, <3>2, <3>4 DEF Abstract!Spend
    <3> QED
      BY <1>a, <3>5
  <2>6. CASE Begin(a) \/ Evaluate(a) \/ FinalizeAllow(a) \/ ObserverCallsKill(a)
    BY <2>4, <2>6 DEF Begin, Evaluate, FinalizeAllow, ObserverCallsKill, storeVars, runtimeVars
  <2>7. CASE Consume(a)
    <3> DEFINE g == request[a].grant
    <3>1. request[a] \in Requests /\ g \in Grants
      BY <1>0, <2>7, RequestType DEF Consume, CallInv
    <3>2. CASE ConsumeRefusal(g, request[a], clock[a]) = OK /\ Take(a, g)
      BY <1>0, <2>5, <2>7, <3>1, <3>2, RefusalOK DEF Consume, runtimeVars
    <3> QED
      BY <2>4, <2>7, <3>2 DEF Consume, Refuse, runtimeVars
  <2>8. CASE ObserveImplementation(a) \/ ObserveState(a)
    <3> DEFINE g == request[a].grant
    <3>1. g \in Grants /\ g \in Issued \ consumed
      BY <1>0, <2>8 DEF ObserveImplementation, ObserveState, InsideConsume, GrantInv, Issued
    <3>2. CASE g \notin revoked /\ Take(a, g)
      BY <2>5, <2>8, <3>1, <3>2 DEF ObserveImplementation, ObserveState, runtimeVars
    <3> QED
      BY <2>4, <2>8, <3>2 DEF ObserveImplementation, ObserveState, Refuse, RevokedNow, runtimeVars
  <2>9. CASE ObserverKills(a) \/ \E p \in Principals : ObserverRevokesAll(a, p)
    BY <1>b, <2>3, <2>9 DEF ObserverKills, ObserverRevokesAll, CutNow, RevokeOutstanding,
       StoreUnchanged, runtimeVars
  <2> QED
    BY <1>1, <2>6, <2>7, <2>8, <2>9 DEF CallStep
<1>2. ASSUME NEW c \in Completers, CompleteStep(c) PROVE Abstract!Next \/ AbstractKept
  <2>1. UNCHANGED <<records, consumed, revoked, spentBy, fenceEngaged, request>>
    BY <1>2 DEF CompleteStep, StartComplete, ReadSpent, ReobserveImplementation,
       ReobserveState, ClaimEntry, EnterTool, CompleteUnchanged, storeVars, runtimeVars, callVars
  <2>2. CASE permits' = permits
    BY <2>1, <2>2, MarksKept, PermitsKept DEF AbstractKept
  <2>3. CASE permits' # permits
    <3>1. PICK a \in Calls :
             /\ ClaimEntry(c) /\ a = target[c] /\ Allowed(a) /\ permits[a] = 0
             /\ permits' = [permits EXCEPT ![a] = @ + 1] /\ EntryBlock(admittedEpoch[a]) = OK
      <4>1. /\ ClaimEntry(c)
            /\ permits' = [permits EXCEPT ![target[c]] = @ + 1]
            /\ admissionId[target[c]] \notin spentAdmissions
            /\ EntryBlock(admittedEpoch[target[c]]) = OK
        BY <1>2, <2>3 DEF CompleteStep, StartComplete, ReadSpent, ReobserveImplementation,
           ReobserveState, ClaimEntry, EnterTool
      <4>2. completePc[c] = "claim"
        BY <4>1 DEF ClaimEntry
      <4>3. target[c] \in Calls /\ Allowed(target[c])
        BY <1>0, <4>2 DEF TicketInv
      <4>4. permits[target[c]] \in Nat /\ ~(permits[target[c]] > 0)
        BY <1>0, <4>1, <4>3 DEF TicketInv, TypeOK
      <4>5. permits[target[c]] = 0
        BY <4>4
      <4> QED
        BY <4>1, <4>3, <4>5
    <3>2. PICK g \in Grants \cup {None} : g = request[a].grant
      BY <3>1, RequestType DEF Allowed
    <3>3. ~fenceEngaged
      BY <3>1 DEF EntryBlock, GateInv, FenceInv, OK
    <3>4. g # None => spentBy[g] = a
      BY <1>0, <3>1, <3>2 DEF GrantInv, HasGrant
    <3>5. APermitted' = APermitted \cup {a} /\ a \notin APermitted
      BY <1>0, <3>1 DEF APermitted, TypeOK
    <3>6. ALeansOn' = [ALeansOn EXCEPT ![a] = g]
      <4>1. permits[a] + 1 > 0 /\ request' = request /\ permits \in [Calls -> Nat]
        BY <1>0, <2>1, <3>1 DEF TypeOK
      <4>2. \A b \in Calls : permits'[b] = IF b = a THEN permits[a] + 1 ELSE permits[b]
        BY <3>1, <4>1
      <4>3. ALeansOn'[a] = g /\ \A b \in Calls : b # a => ALeansOn'[b] = ALeansOn[b]
        BY <3>2, <4>1, <4>2 DEF ALeansOn
      <4> QED
        BY <4>3, OneLeanMoves
    <3>7. Abstract!Permit(a, g)
      BY <2>1, <3>3, <3>4, <3>5, <3>6, MarksKept DEF Abstract!Permit
    <3> QED
      BY <1>a, <3>7
  <2> QED
    BY <2>2, <2>3
<1>c. ASSUME CallsKept, TicketsKept PROVE UNCHANGED <<APermitted, ALeansOn>>
  BY <1>c, PermitsKept DEF CallsKept, TicketsKept
<1>3. ASSUME CallsKept, TicketsKept, NEW k \in Killers, KillStep(k) PROVE Abstract!Next
  BY <1>b, <1>c, <1>3 DEF KillStep, KillBegin, KillRevoke, CutNow, RevokeOutstanding, storeVars,
     runtimeVars
<1>4. CASE CallsKept /\ TicketsKept
           /\ (Suspend \/ Resume \/ MarkUnavailable \/ WorldStep \/ UNCHANGED vars)
  <2>1. UNCHANGED <<records, consumed, revoked, spentBy, fenceEngaged>>
    BY <1>4 DEF Suspend, Resume, MarkUnavailable, HaltUnchanged, WorldStep, Tick, ChangeState,
       ChangeImpl, WorldUnchanged, vars, storeVars, runtimeVars
  <2> QED
    BY <1>4, <1>c, <2>1, MarksKept DEF AbstractKept
<1>5. ASSUME CallsKept, TicketsKept,
             (\E p \in Principals : RevokeAll(p)) \/ \E g \in Grants : Revoke(g)
      PROVE  Abstract!Next
  BY <1>b, <1>c, <1>5 DEF RevokeAll, Revoke, RevokeOutstanding, StoreUnchanged, runtimeVars
<1>6. ASSUME CallsKept, TicketsKept, NEW g \in Grants, Issue(g) PROVE Abstract!Next
  <2>1. g \notin Issued /\ g \notin consumed \cup revoked
    BY <1>0, <1>6 DEF Issue, Unused, Issued, GrantInv
  <2>2. UNCHANGED <<consumed, revoked, spentBy, fenceEngaged>>
    BY <1>6, <2>1 DEF Issue, StoreUnchanged, runtimeVars
  <2>3. Issued' = Issued \cup {g}
    <3>1. PICK spec \in GrantSpecs : records' = [records EXCEPT ![g] =
              [principal |-> spec.principal, binding |-> spec.binding,
               expires |-> now + spec.ttl, state |-> spec.state, impl |-> spec.impl]]
      BY <1>6 DEF Issue
    <3>2. [principal |-> spec.principal, binding |-> spec.binding,
           expires |-> now + spec.ttl, state |-> spec.state, impl |-> spec.impl] # None
      <4>1. now \in Nat
        BY <1>0 DEF TypeOK
      <4> QED
        BY <4>1, GateAssumption DEF GrantSpec, ApprovalRecord
    <3> QED
      BY <1>0, <3>1, <3>2 DEF Issued, TypeOK
  <2>4. AGrant[g] = "none" /\ AGrant' = [AGrant EXCEPT ![g] = "open"]
    <3>1. AGrant[g] = "none" /\ AGrant'[g] = "open"
      BY <2>1, <2>2, <2>3 DEF AGrant
    <3>2. \A h \in Grants : h # g => AGrant'[h] = AGrant[h]
      BY <2>2, <2>3 DEF AGrant
    <3> QED
      BY <3>1, <3>2, OneMarkMoves
  <2>5. Abstract!Mint(g)
    BY <1>c, <1>6, <2>2, <2>4 DEF Abstract!Mint
  <2> QED
    BY <1>a, <2>5
<1> QED
  BY <1>1, <1>2, <1>3, <1>4, <1>5, <1>6, OthersKeep DEF Next, OperatorStep

(***************************************************************************)
(* Every behaviour of the gate is one of Authority: mint, then spend or    *)
(* revoke; no permit after the cut; one call per grant.                    *)
(***************************************************************************)
THEOREM Refinement == Spec => ImplementsAuthority
<1>1. Init => Abstract!Init
  BY DEF Init, Abstract!Init, Issued, AGrant, APermitted, ALeansOn
<1>2. GateInv /\ GateInv' /\ [Next]_vars => [Abstract!Next]_(Abstract!vars)
  BY AbstractStep DEF AbstractKept, Abstract!vars
<1>3. GateInv /\ [Next]_vars => GateInv'
  BY TypeStep, LockStep, FenceStep, CallInvStep, TicketInvStep, GrantInvStep, KillGrantStep DEF GateInv
<1> QED
  BY GateInvariant, <1>1, <1>2, <1>3, PTL DEF Spec, ImplementsAuthority, Abstract!Spec

(***************************************************************************)
(* What becomes of one call: the ticket a suspend leaves it, what can cost *)
(* it the grant it spent, and the digests that were current when it was    *)
(* let in.                                                                 *)
(***************************************************************************)
\* A halt that spends tickets is never taken back.
LEMMA HaltStays ==
    ASSUME [Next]_vars, fenceEngaged \/ ~available
    PROVE  (fenceEngaged \/ ~available)'
<1> USE DEF runtimeVars
<1>1. ASSUME NEW a \in Calls, CallStep(a) PROVE (fenceEngaged \/ ~available)'
  BY <1>1 DEF CallStep, Begin, Evaluate, Consume, ObserveImplementation, ObserveState,
     FinalizeAllow, ObserverCallsKill, ObserverKills, CutNow, ObserverRevokesAll, StoreUnchanged
<1>2. ASSUME NEW c \in Completers, CompleteStep(c) PROVE (fenceEngaged \/ ~available)'
  BY <1>2 DEF CompleteStep, StartComplete, ReadSpent, ReobserveImplementation,
     ReobserveState, ClaimEntry, EnterTool, CompleteUnchanged
<1>3. ASSUME NEW k \in Killers, KillStep(k) PROVE (fenceEngaged \/ ~available)'
  BY <1>3 DEF KillStep, KillBegin, KillRevoke, CutNow
<1>4. CASE OperatorStep
  BY <1>4 DEF OperatorStep, Suspend, Resume, MarkUnavailable, HaltUnchanged, Issue, Revoke,
     RevokeAll, StoreUnchanged
<1>5. CASE WorldStep
  BY <1>5 DEF WorldStep, Tick, ChangeState, ChangeImpl, WorldUnchanged
<1>6. CASE UNCHANGED vars
  BY <1>6 DEF vars
<1> QED
  BY <1>1, <1>2, <1>3, <1>4, <1>5, <1>6 DEF Next

LEMMA TicketStep == GateInv /\ TicketOutlivesSuspend /\ [Next]_vars => TicketOutlivesSuspend'
<1> SUFFICES ASSUME GateInv, TicketOutlivesSuspend, [Next]_vars,
                    ~(fenceEngaged \/ ~available)'
             PROVE  TicketOutlivesSuspend'
  BY DEF TicketOutlivesSuspend
<1>0. TypeOK /\ CallInv /\ TicketInv /\ FenceInv
  BY DEF GateInv
<1>a. ~fenceEngaged /\ available
  BY HaltStays
<1>b. \A a \in Calls : admissionId[a] \in spentAdmissions => permits[a] # 0
  BY <1>a DEF TicketOutlivesSuspend
<1>1. ASSUME NEW a \in Calls, CallStep(a) PROVE TicketOutlivesSuspend'
  <2>1. TicketsKept
    BY <1>1, CallKeepsTickets
  <2>2. \A b \in Calls : b # a => admissionId'[b] = admissionId[b]
    BY <1>0, <1>1, CallFrame
  <2>3. CASE callPc[a] = "idle"
    <3>1. Begin(a)
      BY <1>1, <2>3 DEF CallStep, Evaluate, Consume, ObserveImplementation, ObserveState,
         FinalizeAllow, ObserverCallsKill, ObserverKills, ObserverRevokesAll, Observing,
         GateInv, LockInv, InsideConsume
    <3>2. admissionId'[a] = nextAdmissionId + 1 /\ nextAdmissionId \in Nat
      BY <1>0, <3>1 DEF Begin, TypeOK
    <3>3. admissionId'[a] \notin spentAdmissions
      BY <1>0, <3>2 DEF TicketInv
    <3> QED
      BY <1>b, <2>1, <2>2, <3>3 DEF TicketsKept, TicketOutlivesSuspend
  <2>4. CASE callPc[a] # "idle"
    <3>1. admissionId' = admissionId
      BY <1>1, <2>4, CallProgress
    <3> QED
      BY <1>b, <2>1, <3>1 DEF TicketsKept, TicketOutlivesSuspend
  <2> QED
    BY <2>3, <2>4
<1>2. ASSUME NEW c \in Completers, CompleteStep(c) PROVE TicketOutlivesSuspend'
  <2>1. CallsKept
    BY <1>2, CompleteKeepsCalls
  <2>2. CASE ~ClaimEntry(c)
    BY <1>2, <1>b, <2>1, <2>2 DEF CompleteStep, StartComplete, ReadSpent,
       ReobserveImplementation, ReobserveState, EnterTool, CallsKept, TicketOutlivesSuspend
  <2>3. CASE ClaimEntry(c)
    <3> DEFINE a == target[c]
    <3>1. a \in Calls /\ callPc[a] = "decided"
      BY <1>0, <2>3 DEF ClaimEntry, TicketInv, Allowed
    <3>2. \A b \in Calls : b # a => admissionId[b] # admissionId[a]
      BY <1>0, <3>1 DEF CallInv
    <3>3. EntryBlock(admittedEpoch[a]) \in {"SUSPEND_ACTIVE", OK}
      BY <1>0, <1>a DEF EntryBlock, FenceInv
    <3>4. CASE UNCHANGED <<spentAdmissions, permits>>
      BY <1>b, <2>1, <3>4 DEF CallsKept, TicketOutlivesSuspend
    <3>5. CASE /\ spentAdmissions' = spentAdmissions \cup {admissionId[a]}
               /\ permits' = [permits EXCEPT ![a] = @ + 1]
      <4>1. permits'[a] # 0 /\ \A b \in Calls : b # a => permits'[b] = permits[b]
        BY <1>0, <3>1, <3>5 DEF TypeOK
      <4> QED
        BY <1>b, <2>1, <3>2, <3>5, <4>1 DEF CallsKept, TicketOutlivesSuspend
    <3> QED
      BY <2>3, <3>3, <3>4, <3>5 DEF ClaimEntry, SpendsTicket, OK
  <2> QED
    BY <2>2, <2>3
<1>3. CASE CallsKept /\ TicketsKept
  BY <1>b, <1>3 DEF CallsKept, TicketsKept, TicketOutlivesSuspend
<1> QED
  BY <1>1, <1>2, <1>3, OthersKeep

\* A suspend at tool entry does not cost a call its ticket, for any number of
\* calls and threads (claim_entry spends on every refusal but that one).
THEOREM TicketSurvives == Spec => []TicketOutlivesSuspend
<1>1. Init => TicketOutlivesSuspend
  BY DEF Init, TicketOutlivesSuspend
<1> QED
  BY <1>1, GateInvariant, TicketStep, PTL DEF Spec

-----------------------------------------------------------------------------
\* The call that spent a grant is past consume().
SpenderIsPast ==
    \A g \in consumed : callPc[spentBy[g]] \in {"finalize", "decided"}

\* A step of no call spends nothing.
LEMMA OthersSpendNothing ==
    ASSUME [Next]_vars, ~ \E a \in Calls : CallStep(a)
    PROVE  /\ consumed' \subseteq consumed /\ spentBy' = spentBy
           /\ UNCHANGED <<callPc, reason>>
<1> USE DEF storeVars, callVars, CallsKept
<1>1. ASSUME NEW c \in Completers, CompleteStep(c)
      PROVE  UNCHANGED <<consumed, spentBy, callPc, reason>>
  BY <1>1 DEF CompleteStep, StartComplete, ReadSpent, ReobserveImplementation,
     ReobserveState, ClaimEntry, EnterTool, CompleteUnchanged
<1>2. ASSUME NEW k \in Killers, KillStep(k)
      PROVE  UNCHANGED <<consumed, spentBy, callPc, reason>>
  BY <1>2 DEF KillStep, KillBegin, KillRevoke
<1>3. CASE OperatorStep
  BY <1>3 DEF OperatorStep, Suspend, Resume, MarkUnavailable, HaltUnchanged, Issue, Revoke,
     RevokeAll, StoreUnchanged
<1>4. CASE WorldStep
  BY <1>4 DEF WorldStep, Tick, ChangeState, ChangeImpl, WorldUnchanged
<1>5. CASE UNCHANGED vars
  BY <1>5 DEF vars
<1> QED
  BY <1>1, <1>2, <1>3, <1>4, <1>5 DEF Next

\* An entry is blocked only while a halt is in force.
LEMMA BlockIsHalt ==
    ASSUME GateInv, NEW e
    PROVE  EntryBlock(e) = OK \/ Halted
  BY DEF GateInv, FenceInv, EntryBlock, Halted, TypeOK

\* What a step of call a spends, it spends itself, and goes on to the last check.
LEMMA CallSpends ==
    ASSUME GateInv, NEW a \in Calls, CallStep(a)
    PROVE  \/ /\ UNCHANGED <<consumed, spentBy>>
              /\ \/ callPc[a] \notin {"finalize", "decided"}
                 \/ callPc'[a] = "decided" /\ (reason'[a] = OK \/ Halted)
           \/ /\ callPc[a] \notin {"finalize", "decided"} /\ callPc'[a] = "finalize"
              /\ request[a].grant \in Grants
              /\ consumed' = consumed \cup {request[a].grant}
              /\ spentBy' = [spentBy EXCEPT ![request[a].grant] = a]
<1>0. TypeOK /\ LockInv
  BY DEF GateInv
<1> USE <1>0 DEF TypeOK, storeVars
<1>1. CASE Begin(a) \/ Evaluate(a)
  BY <1>1 DEF Begin, Evaluate
<1>2. CASE Consume(a) \/ ObserveImplementation(a) \/ ObserveState(a)
  <2>1. callPc[a] \in {"consume", "observeImpl", "observeState"}
    BY <1>2 DEF Consume, ObserveImplementation, ObserveState
  <2>2. request[a].grant \in Grants
    BY <2>1, RequestType DEF GateInv, CallInv
  <2>3. UNCHANGED <<consumed, spentBy>> \/ Take(a, request[a].grant)
    BY <1>2 DEF Consume, ObserveImplementation, ObserveState, Refuse
  <2> QED
    BY <2>1, <2>2, <2>3 DEF Take
<1>3. CASE FinalizeAllow(a)
  BY <1>3, BlockIsHalt DEF FinalizeAllow, Decide
<1>4. CASE ObserverCallsKill(a) \/ ObserverKills(a) \/ \E p \in Principals : ObserverRevokesAll(a, p)
  <2>1. UNCHANGED <<consumed, spentBy>>
    BY <1>4 DEF ObserverCallsKill, ObserverKills, ObserverRevokesAll
  <2>2. InsideConsume(a)
    BY <1>4 DEF ObserverCallsKill, ObserverKills, ObserverRevokesAll, Observing, LockInv,
       InsideConsume
  <2> QED
    BY <2>1, <2>2 DEF InsideConsume
<1> QED
  BY <1>1, <1>2, <1>3, <1>4 DEF CallStep

LEMMA SpenderStep == GateInv /\ SpenderIsPast /\ [Next]_vars => SpenderIsPast'
<1> SUFFICES ASSUME GateInv, SpenderIsPast, [Next]_vars PROVE SpenderIsPast'
  OBVIOUS
<1>0. TypeOK /\ \A g \in consumed : g \in Grants /\ spentBy[g] \in Calls
  BY DEF GateInv, GrantInv, TypeOK
<1>1. ASSUME NEW a \in Calls, CallStep(a) PROVE SpenderIsPast'
  <2>1. \A b \in Calls : b # a \/ callPc[b] = "decided" => callPc'[b] = callPc[b]
    BY <1>0, <1>1, CallFrame
  <2>2. CASE UNCHANGED <<consumed, spentBy>>
    BY <1>0, <1>1, <2>1, <2>2, CallSpends DEF SpenderIsPast
  <2>3. CASE /\ callPc[a] \notin {"finalize", "decided"} /\ callPc'[a] = "finalize"
             /\ request[a].grant \in Grants
             /\ consumed' = consumed \cup {request[a].grant}
             /\ spentBy' = [spentBy EXCEPT ![request[a].grant] = a]
    <3>1. \A g \in consumed' \ {request[a].grant} :
              g \in consumed /\ spentBy'[g] = spentBy[g] /\ spentBy[g] \in Calls \ {a}
      BY <1>0, <2>3 DEF TypeOK, SpenderIsPast
    <3>2. spentBy'[request[a].grant] = a
      BY <1>0, <2>3 DEF TypeOK
    <3> QED
      BY <2>1, <2>3, <3>1, <3>2 DEF SpenderIsPast
  <2> QED
    BY <1>1, <2>2, <2>3, CallSpends
<1>2. CASE ~ \E a \in Calls : CallStep(a)
  BY <1>0, <1>2, OthersSpendNothing DEF SpenderIsPast
<1> QED
  BY <1>1, <1>2

\* evaluate() denies a call that spent its grant only while a halt is in force.
LEMMA DenialIsHalt ==
    ASSUME GateInv, SpenderIsPast, [Next]_vars,
           NEW a \in Calls, DeniedNow(a), SpentItsGrant(a)'
    PROVE  Halted
<1>0. TypeOK
  BY DEF GateInv
<1>1. CallStep(a)
  <2>1. ASSUME NEW b \in Calls, b # a, CallStep(b) PROVE FALSE
    BY <1>0, <2>1, CallFrame DEF DeniedNow
  <2> QED
    BY <2>1, OthersSpendNothing DEF DeniedNow
<1>2. CASE UNCHANGED <<consumed, spentBy>>
  <2>1. callPc[a] \in {"finalize", "decided"}
    BY <1>2 DEF SpentItsGrant, SpenderIsPast
  <2> QED
    BY <1>1, <2>1, CallSpends DEF DeniedNow
<1> QED
  BY <1>1, <1>2, CallSpends DEF DeniedNow

\* A completion is refused by a halt, as a replay, or by what it observed again.
LEMMA RefusalAtEntry ==
    ASSUME GateInv, TicketOutlivesSuspend, [Next]_vars,
           NEW c \in Completers, RefusedAtEntry(c)
    PROVE  Halted \/ permits[target[c]] > 0 \/ ReobservesFrozen(c)
<1>0. TypeOK /\ FenceInv /\ target[c] \in Calls
  BY DEF GateInv, TicketInv, RefusedAtEntry
<1> DEFINE called == target[c]
<1>1. CompleteStep(c)
  <2>1. ASSUME NEW a \in Calls, CallStep(a) PROVE FALSE
    BY <2>1 DEF CallStep, Begin, Evaluate, Consume, ObserveImplementation, ObserveState,
       FinalizeAllow, ObserverCallsKill, ObserverKills, ObserverRevokesAll, StoreUnchanged,
       completeVars, RefusedAtEntry
  <2>2. ASSUME NEW d \in Completers, d # c, CompleteStep(d) PROVE FALSE
    <3>1. \E w : completePc' = [completePc EXCEPT ![d] = w]
      BY <2>2 DEF CompleteStep, StartComplete, ReadSpent, ReobserveImplementation,
         ReobserveState, ClaimEntry, EnterTool, GoTo
    <3> QED
      BY <1>0, <2>2, <3>1 DEF TypeOK, RefusedAtEntry
  <2>3. ASSUME NEW k \in Killers, KillStep(k) PROVE FALSE
    BY <2>3 DEF KillStep, KillBegin, KillRevoke, completeVars, RefusedAtEntry
  <2>4. ~OperatorStep /\ ~WorldStep /\ ~UNCHANGED vars
    BY DEF OperatorStep, Suspend, Resume, MarkUnavailable, HaltUnchanged, Issue, Revoke,
       RevokeAll, StoreUnchanged, WorldStep, Tick, ChangeState, ChangeImpl, WorldUnchanged,
       vars, completeVars, RefusedAtEntry
  <2> QED
    BY <2>1, <2>2, <2>3, <2>4 DEF Next
<1>2. admissionId[called] \in spentAdmissions => permits[called] > 0 \/ Halted
  BY <1>0 DEF TicketOutlivesSuspend, FenceInv, Halted, TypeOK
<1>3. CASE ReadSpent(c)
  BY <1>0, <1>2, <1>3 DEF ReadSpent, GoTo, TypeOK, RefusedAtEntry
<1>4. CASE ReobserveImplementation(c)
  BY <1>0, <1>4 DEF ReobserveImplementation, GoTo, TypeOK, RefusedAtEntry, ReobservesFrozen
<1>5. CASE ReobserveState(c)
  BY <1>0, <1>5 DEF ReobserveState, StateStillMatches, GoTo, TypeOK, RefusedAtEntry,
     ReobservesFrozen
<1>6. CASE ClaimEntry(c)
  <2>1. \/ admissionId[called] \in spentAdmissions
        \/ EntryBlock(admittedEpoch[called]) # OK
        \/ completePc'[c] = "permitted"
    BY <1>0, <1>6 DEF ClaimEntry, GoTo, TypeOK
  <2> QED
    BY <1>2, <2>1, BlockIsHalt DEF RefusedAtEntry
<1>7. CASE (\E a \in Calls : StartComplete(c, a)) \/ EnterTool(c)
  BY <1>7 DEF StartComplete, EnterTool, RefusedAtEntry
<1> QED
  BY <1>1, <1>3, <1>4, <1>5, <1>6, <1>7 DEF CompleteStep

\* A call that spent its grant is refused only by a halt, after its permit, or
\* by a digest observed again at entry, whichever of evaluate() and
\* complete_invoke refuses it.
THEOREM GrantIsLostToHaltOrDrift == Spec => GrantLostOnlyToHaltOrDrift
<1>1. Init => SpenderIsPast /\ TicketOutlivesSuspend
  BY DEF Init, SpenderIsPast, TicketOutlivesSuspend
<1>2. GateInv /\ SpenderIsPast /\ TicketOutlivesSuspend /\ [Next]_vars =>
        [/\ \A a \in Calls : DeniedNow(a) /\ SpentItsGrant(a)' => Halted
         /\ \A c \in Completers :
               RefusedAtEntry(c) /\ SpentItsGrant(target[c])
                  => Halted \/ permits[target[c]] > 0 \/ ReobservesFrozen(c)]_vars
  BY DenialIsHalt, RefusalAtEntry
<1> QED
  BY <1>1, <1>2, GateInvariant, SpenderStep, TicketStep, PTL DEF Spec, GrantLostOnlyToHaltOrDrift

-----------------------------------------------------------------------------
\* A digest seen at entry was current then; the digests of an allowed call are
\* marked as soon as they are current.
StateSeen(a) == FrozenState(a) # None /\ request[a].stateObserver => a \in stateMatched
ImplSeen(a) == FrozenImpl(a) # None => a \in implMatched

MarkedNow ==
    \A a \in Calls : Allowed(a) => /\ FrozenState(a) = state => a \in stateMatched
                                   /\ FrozenImpl(a) = impl => a \in implMatched
DigestInv ==
    /\ MarkedNow
    /\ \A c \in Completers :
          /\ completePc[c] \in {"reobserveState", "claim"} => ImplSeen(target[c])
          /\ completePc[c] = "claim" => StateSeen(target[c])
    /\ EntryDigestWasCurrent

\* What a decided call froze stays frozen, and marks are kept.
DecidedKept(a) ==
    /\ FrozenState(a)' = FrozenState(a) /\ FrozenImpl(a)' = FrozenImpl(a)
    /\ request'[a] = request[a] /\ (Allowed(a)' <=> Allowed(a))
MarksStay == stateMatched \subseteq stateMatched' /\ implMatched \subseteq implMatched'

LEMMA RecordsStay ==
    ASSUME GateInv, [Next]_vars
    PROVE  \A g \in Issued : records'[g] = records[g]
<1> USE DEF storeVars
<1>1. ASSUME NEW a \in Calls, CallStep(a) PROVE UNCHANGED records
  BY <1>1 DEF CallStep, Begin, Evaluate, Consume, ObserveImplementation, ObserveState,
     FinalizeAllow, ObserverCallsKill, ObserverKills, ObserverRevokesAll, StoreUnchanged
<1>2. ASSUME NEW c \in Completers, CompleteStep(c) PROVE UNCHANGED records
  BY <1>2 DEF CompleteStep, StartComplete, ReadSpent, ReobserveImplementation,
     ReobserveState, ClaimEntry, EnterTool, CompleteUnchanged
<1>3. ASSUME NEW k \in Killers, KillStep(k) PROVE UNCHANGED records
  BY <1>3 DEF KillStep, KillBegin, KillRevoke
<1>4. ASSUME NEW g \in Grants, Issue(g) PROVE \A h \in Issued : records'[h] = records[h]
  BY <1>4 DEF Issue, Unused, Issued, GateInv, TypeOK
<1>5. CASE OperatorStep /\ ~ \E g \in Grants : Issue(g)
  BY <1>5 DEF OperatorStep, Suspend, Resume, MarkUnavailable, HaltUnchanged, Revoke, RevokeAll
<1>6. CASE WorldStep \/ UNCHANGED vars
  BY <1>6 DEF WorldStep, Tick, ChangeState, ChangeImpl, WorldUnchanged, vars
<1> QED
  BY <1>1, <1>2, <1>3, <1>4, <1>5, <1>6 DEF Next, OperatorStep

LEMMA FrozenStays ==
    ASSUME GateInv, [Next]_vars, NEW a \in Calls, Allowed(a)
    PROVE  DecidedKept(a)
<1>1. /\ callPc'[a] = callPc[a] /\ reason'[a] = reason[a] /\ request'[a] = request[a]
  <2>1. ASSUME NEW b \in Calls, CallStep(b)
        PROVE  callPc'[a] = callPc[a] /\ reason'[a] = reason[a] /\ request'[a] = request[a]
    BY <2>1, CallFrame DEF GateInv, Allowed
  <2> QED
    BY <2>1, CompleteKeepsCalls, OthersKeep DEF CallsKept
<1>2. HasGrant(a) => request[a].grant \in Issued
  BY DEF GateInv, GrantInv
<1> QED
  BY <1>1, <1>2, RecordsStay DEF DecidedKept, FrozenState, FrozenImpl, HasGrant, Allowed

LEMMA MarksKeptOn == ASSUME [Next]_vars PROVE MarksStay
<1> USE DEF MarksStay, matchVars
<1>1. ASSUME NEW a \in Calls, CallStep(a) PROVE MarksStay
  BY <1>1 DEF CallStep, Begin, Evaluate, Consume, ObserveImplementation, ObserveState,
     FinalizeAllow, ObserverCallsKill, ObserverKills, ObserverRevokesAll, StoreUnchanged
<1>2. ASSUME NEW c \in Completers, CompleteStep(c) PROVE MarksStay
  BY <1>2 DEF CompleteStep, StartComplete, ReadSpent, ReobserveImplementation,
     ReobserveState, ClaimEntry, EnterTool, CompleteUnchanged
<1>3. ASSUME NEW k \in Killers, KillStep(k) PROVE MarksStay
  BY <1>3 DEF KillStep, KillBegin, KillRevoke
<1>4. CASE OperatorStep
  BY <1>4 DEF OperatorStep, Suspend, Resume, MarkUnavailable, HaltUnchanged, Issue, Revoke,
     RevokeAll, StoreUnchanged
<1>5. CASE WorldStep
  BY <1>5 DEF WorldStep, Tick, ChangeState, ChangeImpl, WorldUnchanged
<1>6. CASE UNCHANGED vars
  BY <1>6 DEF vars
<1> QED
  BY <1>1, <1>2, <1>3, <1>4, <1>5, <1>6 DEF Next

LEMMA SeenStays ==
    ASSUME GateInv, [Next]_vars, NEW a \in Calls, Allowed(a)
    PROVE  /\ StateSeen(a) => StateSeen(a)'
           /\ ImplSeen(a) => ImplSeen(a)'
  BY FrozenStays, MarksKeptOn DEF DecidedKept, MarksStay, StateSeen, ImplSeen

\* A call is allowed by the last check, which marks it.
LEMMA AllowedMarks ==
    ASSUME GateInv, [Next]_vars, NEW a \in Calls, Allowed(a)', ~Allowed(a)
    PROVE  /\ FrozenState(a)' = state' => a \in stateMatched'
           /\ FrozenImpl(a)' = impl' => a \in implMatched'
<1>0. TypeOK
  BY DEF GateInv
<1>1. PICK b \in Calls : CallStep(b)
  BY CompleteKeepsCalls, OthersKeep DEF CallsKept, Allowed
<1>2. b = a
  BY <1>0, <1>1, CallFrame DEF Allowed
<1>3. FinalizeAllow(a)
  <2> USE <1>0 DEF Allowed, TypeOK
  <2>1. ~Begin(a) /\ ~Evaluate(a)
    BY DEF Begin, Evaluate, Decide, OK
  <2>2. ~Consume(a)
    BY DEF Consume, Take, Refuse, Decide
  <2>3. ~ObserveImplementation(a) /\ ~ObserveState(a)
    BY DEF ObserveImplementation, ObserveState, Take, Refuse, Decide, OK
  <2>4. ~ObserverCallsKill(a) /\ ~ObserverKills(a) /\ ~ \E p \in Principals : ObserverRevokesAll(a, p)
    BY DEF ObserverCallsKill, ObserverKills, ObserverRevokesAll, StoreUnchanged, callVars
  <2> QED
    BY <1>1, <1>2, <2>1, <2>2, <2>3, <2>4 DEF CallStep
<1> QED
  BY <1>3 DEF FinalizeAllow, FrozenState, FrozenImpl, storeVars, worldVars

LEMMA WorldFrame ==
    ASSUME [Next]_vars, ~ChangeState, ~ChangeImpl
    PROVE  UNCHANGED <<state, impl>>
<1> USE DEF worldVars
<1>1. ASSUME NEW a \in Calls, CallStep(a) PROVE UNCHANGED <<state, impl>>
  BY <1>1 DEF CallStep, Begin, Evaluate, Consume, ObserveImplementation, ObserveState,
     FinalizeAllow, ObserverCallsKill, ObserverKills, ObserverRevokesAll, StoreUnchanged
<1>2. ASSUME NEW c \in Completers, CompleteStep(c) PROVE UNCHANGED <<state, impl>>
  BY <1>2 DEF CompleteStep, StartComplete, ReadSpent, ReobserveImplementation,
     ReobserveState, ClaimEntry, EnterTool, CompleteUnchanged
<1>3. ASSUME NEW k \in Killers, KillStep(k) PROVE UNCHANGED <<state, impl>>
  BY <1>3 DEF KillStep, KillBegin, KillRevoke
<1>4. CASE OperatorStep
  BY <1>4 DEF OperatorStep, Suspend, Resume, MarkUnavailable, HaltUnchanged, Issue, Revoke,
     RevokeAll, StoreUnchanged
<1>5. CASE WorldStep
  BY <1>5 DEF WorldStep, Tick
<1>6. CASE UNCHANGED vars
  BY <1>6 DEF vars
<1> QED
  BY <1>1, <1>2, <1>3, <1>4, <1>5, <1>6 DEF Next

LEMMA MarkedStep == GateInv /\ MarkedNow /\ [Next]_vars => MarkedNow'
<1> SUFFICES ASSUME GateInv, MarkedNow, [Next]_vars, NEW a \in Calls, Allowed(a)'
             PROVE  /\ FrozenState(a)' = state' => a \in stateMatched'
                    /\ FrozenImpl(a)' = impl' => a \in implMatched'
  BY DEF MarkedNow
<1>1. CASE ~Allowed(a)
  BY <1>1, AllowedMarks
<1>2. CASE Allowed(a)
  <2>1. DecidedKept(a) /\ MarksStay
    BY <1>2, FrozenStays, MarksKeptOn
  <2>2. /\ FrozenState(a) = state => a \in stateMatched
        /\ FrozenImpl(a) = impl => a \in implMatched
    BY <1>2 DEF MarkedNow
  <2>3. CASE ChangeState
    BY <1>2, <2>1, <2>2, <2>3 DEF ChangeState, DecidedKept, MarksStay
  <2>4. CASE ChangeImpl
    BY <1>2, <2>1, <2>2, <2>4 DEF ChangeImpl, DecidedKept, MarksStay
  <2>5. CASE UNCHANGED <<state, impl>>
    BY <2>1, <2>2, <2>5 DEF DecidedKept, MarksStay
  <2> QED
    BY <2>3, <2>4, <2>5, WorldFrame
<1> QED
  BY <1>1, <1>2

LEMMA DigestStep == GateInv /\ DigestInv /\ [Next]_vars => DigestInv'
<1> SUFFICES ASSUME GateInv, DigestInv, [Next]_vars PROVE DigestInv'
  OBVIOUS
<1>0. TypeOK /\ TicketInv /\ MarkedNow
  BY DEF GateInv, DigestInv
<1>a. MarkedNow'
  BY <1>0, MarkedStep
<1>b. /\ \A a \in Calls : permits[a] > 0 => Allowed(a) /\ StateSeen(a) /\ ImplSeen(a)
      /\ \A d \in Completers : completePc[d] # "idle" => target[d] \in Calls /\ Allowed(target[d])
      /\ \A d \in Completers :
            /\ completePc[d] \in {"reobserveState", "claim"} => ImplSeen(target[d])
            /\ completePc[d] = "claim" => StateSeen(target[d])
  BY <1>0 DEF TicketInv, DigestInv, EntryDigestWasCurrent, StateSeen, ImplSeen
<1>c. \A a \in Calls : Allowed(a) => /\ StateSeen(a) => StateSeen(a)'
                                     /\ ImplSeen(a) => ImplSeen(a)'
  BY SeenStays
\* What is left to show of a step, and why it is enough.
<1>d. ASSUME \A a \in Calls : permits'[a] > 0 =>
                  Allowed(a) /\ StateSeen(a) /\ ImplSeen(a),
             \A d \in Completers :
                  /\ completePc'[d] \in {"reobserveState", "claim"} =>
                         target'[d] \in Calls /\ Allowed(target'[d]) /\ ImplSeen(target'[d])
                  /\ completePc'[d] = "claim" => StateSeen(target'[d])
      PROVE  DigestInv'
  <2>1. \A a \in Calls : permits'[a] > 0 => StateSeen(a)' /\ ImplSeen(a)'
    BY <1>c, <1>d
  <2>2. EntryDigestWasCurrent'
    BY <2>1 DEF EntryDigestWasCurrent, StateSeen, ImplSeen
  <2>3. ASSUME NEW d \in Completers, completePc'[d] \in {"reobserveState", "claim"}
        PROVE  ImplSeen(target[d])' /\ (completePc'[d] = "claim" => StateSeen(target[d])')
    <3>1. PICK a \in Calls : a = target'[d]
      BY <1>d, <2>3
    <3>2. Allowed(a) /\ ImplSeen(a) /\ (completePc'[d] = "claim" => StateSeen(a))
      BY <1>d, <2>3, <3>1
    <3>3. ImplSeen(a)' /\ (completePc'[d] = "claim" => StateSeen(a)')
      BY <1>c, <3>2
    <3> QED
      BY <3>1, <3>3 DEF ImplSeen, StateSeen, FrozenImpl, FrozenState
  <2> QED
    BY <1>a, <2>2, <2>3 DEF DigestInv
<1>1. ASSUME TicketsKept PROVE DigestInv'
  BY <1>1, <1>b, <1>d DEF TicketsKept
<1>2. ASSUME NEW c \in Completers, CompleteStep(c) PROVE DigestInv'
  <2>0. /\ completePc \in [Completers -> CompleteStates]
        /\ target \in [Completers -> Calls \cup {None}] /\ permits \in [Calls -> Nat]
    BY <1>0 DEF TypeOK
  <2>1. ASSUME NEW a \in Calls, StartComplete(c, a) PROVE DigestInv'
    BY <1>b, <1>d, <2>0, <2>1 DEF StartComplete, GoTo
  <2>2. CASE ReadSpent(c) \/ EnterTool(c)
    BY <1>b, <1>d, <2>0, <2>2 DEF ReadSpent, EnterTool, GoTo
  <2>3. CASE ReobserveImplementation(c)
    <3>1. PICK seen \in {impl, None} :
              completePc' = [completePc EXCEPT ![c] =
                  IF FrozenImpl(target[c]) = None \/ seen = FrozenImpl(target[c])
                  THEN "reobserveState" ELSE "idle"]
      BY <2>3 DEF ReobserveImplementation, Sight, GoTo
    <3>2. UNCHANGED <<target, permits>> /\ completePc[c] = "reobserveImpl"
      BY <2>3 DEF ReobserveImplementation
    <3>3. target[c] \in Calls /\ Allowed(target[c])
      BY <1>b, <3>2
    <3>4. completePc'[c] = "reobserveState" => ImplSeen(target[c])
      BY <1>0, <2>0, <3>1, <3>3 DEF MarkedNow, ImplSeen
    <3> QED
      BY <1>b, <1>d, <2>0, <3>1, <3>2, <3>3, <3>4
  <2>4. CASE ReobserveState(c)
    <3>1. PICK seen \in {state, None} :
              completePc' = [completePc EXCEPT ![c] =
                  IF StateStillMatches(target[c], seen) THEN "claim" ELSE "idle"]
      BY <2>4 DEF ReobserveState, Sight, GoTo
    <3>2. UNCHANGED <<target, permits>> /\ completePc[c] = "reobserveState"
      BY <2>4 DEF ReobserveState
    <3>3. target[c] \in Calls /\ Allowed(target[c]) /\ ImplSeen(target[c])
      BY <1>b, <3>2
    <3>4. completePc'[c] = "claim" => StateSeen(target[c])
      BY <1>0, <2>0, <3>1, <3>3 DEF MarkedNow, StateSeen, StateStillMatches
    <3> QED
      BY <1>b, <1>d, <2>0, <3>1, <3>2, <3>3, <3>4
  <2>5. CASE ClaimEntry(c)
    <3>1. /\ UNCHANGED target /\ completePc[c] = "claim"
          /\ permits' = permits \/ permits' = [permits EXCEPT ![target[c]] = @ + 1]
          /\ completePc'[c] \in {"idle", "permitted"}
          /\ \A d \in Completers : d # c => completePc'[d] = completePc[d]
      BY <2>0, <2>5 DEF ClaimEntry, GoTo
    <3>2. target[c] \in Calls /\ Allowed(target[c]) /\ ImplSeen(target[c]) /\ StateSeen(target[c])
      BY <1>b, <3>1
    <3>3. \A a \in Calls : permits'[a] > 0 => Allowed(a) /\ StateSeen(a) /\ ImplSeen(a)
      BY <1>b, <2>0, <3>1, <3>2
    <3> QED
      BY <1>b, <1>d, <3>1, <3>3
  <2> QED
    BY <1>2, <2>1, <2>2, <2>3, <2>4, <2>5 DEF CompleteStep
<1> QED
  BY <1>1, <1>2, CallKeepsTickets, OthersKeep

\* Whatever the host's observers see in the meantime, a call whose grant froze
\* an observed digest enters only if it was the current one after the ALLOW
\* (_implementation_still_matches, _state_still_matches).
THEOREM DigestWasCurrent == Spec => []EntryDigestWasCurrent
<1>1. Init => DigestInv
  BY DEF Init, DigestInv, MarkedNow, Allowed, EntryDigestWasCurrent
<1>2. DigestInv => EntryDigestWasCurrent
  BY DEF DigestInv
<1> QED
  BY <1>1, <1>2, GateInvariant, DigestStep, PTL DEF Spec
================================================================================
