------------------------------ MODULE PepGate ------------------------------
(***************************************************************************)
(* The in-process gate: PepRuntime (pep/evaluate.py), its ApprovalStore    *)
(* (pep/approval.py) and the two halves of a gated call, begin_invoke and  *)
(* complete_invoke (pep/gate.py), at the granularity of their critical     *)
(* sections.  The runtime has one lock and the store another.  kill()      *)
(* takes the store lock while it holds the runtime lock; consume() holds   *)
(* the store lock while it runs host observers.  The runtime here has no   *)
(* halt_store: the file is HaltStore's and HostHalt's subject.             *)
(***************************************************************************)
EXTENDS Naturals

CONSTANTS
    Calls,            \* one begin_invoke each
    Completers,       \* host threads running complete_invoke, over and over
    Killers,          \* host threads that call PepRuntime.kill() once
    Grants,           \* approval ids
    Principals, Bindings, Digests,
    Requests,         \* envelopes, with what the host attests and observes
    GrantSpecs,       \* what an operator asks issue() to freeze
    MaxTime,          \* bound on the clock
    ObserverMayKill,  \* may an observer running inside consume() call kill()?
    Free, None

Request == [ok: BOOLEAN,              \* passes every check before consume()
            grant: Grants \cup {None},   \* approval_id
            principal: Principals \cup {None},   \* attested by the host
            identity: Principals,     \* caller_identity of the envelope
            binding: Bindings,        \* digest of (tool_name, args)
            digest: Digests \cup {None},   \* state_digest of the envelope
            stateObserver: BOOLEAN, implObserver: BOOLEAN]

GrantSpec == [principal: Principals, binding: Bindings, ttl: Nat \ {0},
              state: Digests \cup {None}, impl: Digests \cup {None}]

ApprovalRecord == [principal: Principals, binding: Bindings, expires: Nat,
                   state: Digests \cup {None}, impl: Digests \cup {None}]

ASSUME GateAssumption ==
    /\ Requests \subseteq Request
    /\ GrantSpecs \subseteq GrantSpec
    /\ MaxTime \in Nat
    /\ ObserverMayKill \in BOOLEAN
    /\ Calls \cap Killers = {}
    /\ Free \notin Calls \cup Killers
    /\ None \notin Principals \cup Digests \cup Grants \cup Calls
    /\ None \notin Requests
    /\ None \notin ApprovalRecord

VARIABLES
    \* PepRuntime
    mode, available, fenceEngaged, fenceEpoch, nextAdmissionId, spentAdmissions,
    runtimeLock,
    \* ApprovalStore: the records, and the ids marked consumed_at, revoked_at
    records, consumed, revoked, storeLock,
    \* begin_invoke / evaluate, per call
    callPc, request, clock, admissionId, admittedEpoch, evaluatedEpoch, reason,
    observerInKill,
    \* complete_invoke, per completing thread, and kill(), per killing thread
    completePc, target, killPc,
    \* the host's world: time, the state a call acts on, the tool's code
    now, state, impl,
    \* history: who spent a grant, permits and tool entries per call, grants
    \* issued after the cut, digests current at some time since the ALLOW
    spentBy, permits, entries, issuedAfterCut, stateMatched, implMatched

runtimeVars == <<mode, available, fenceEngaged, fenceEpoch>>
ticketVars == <<nextAdmissionId, spentAdmissions>>
storeVars == <<records, consumed, revoked, spentBy, issuedAfterCut>>
callVars == <<callPc, request, clock, admissionId, admittedEpoch,
              evaluatedEpoch, reason, observerInKill>>
completeVars == <<completePc, target, permits, entries>>
worldVars == <<now, state, impl>>
matchVars == <<stateMatched, implMatched>>

vars == <<runtimeVars, ticketVars, runtimeLock, storeVars, storeLock, callVars,
          completeVars, killPc, worldVars, matchVars>>

OK == "OK"
HaltReasons == {"KILL_ACTIVE", "SUSPEND_ACTIVE", "LATE_EFFECT_FENCE"}
ApprovalReasons == {"APPROVAL_INVALID", "APPROVAL_PRINCIPAL_MISMATCH",
                    "APPROVAL_REVOKED", "APPROVAL_CONSUMED", "APPROVAL_EXPIRED",
                    "APPROVAL_BINDING_MISMATCH", "APPROVAL_STATE_MISMATCH",
                    "APPROVAL_IMPLEMENTATION_MISMATCH"}
Reasons == {OK, "ENVELOPE_DENIED"} \cup HaltReasons \cup ApprovalReasons

CallStates == {"idle", "begun", "consume", "observeImpl", "observeState",
               "finalize", "decided"}
CompleteStates == {"idle", "spentRead", "reobserveImpl", "reobserveState",
                   "claim", "permitted"}

Issued == {g \in Grants : records[g] # None}
Outstanding == Issued \ (consumed \cup revoked)
Allowed(a) == callPc[a] = "decided" /\ reason[a] = OK

(***************************************************************************)
(* What the two locked sections refuse.                                    *)
(***************************************************************************)

\* _entry_block_unlocked: the fence outranks a kill, a kill a suspend.
EntryBlock(epoch) ==
    IF fenceEngaged /\ epoch # fenceEpoch THEN "LATE_EFFECT_FENCE"
    ELSE IF ~available \/ mode = "killed" THEN "KILL_ACTIVE"
    ELSE IF mode = "suspended" THEN "SUSPEND_ACTIVE"
    ELSE OK

\* Mutant: the envelope's caller_identity is not compared.
PrincipalFailureNoIdentity(rec, req) ==
    \/ req.principal = None
    \/ req.principal # rec.principal

PrincipalFailure(rec, req) ==
    \/ req.principal = None
    \/ req.principal # rec.principal
    \/ req.identity # req.principal

\* The record's own predicates, read under the store lock.
IsConsumedNever(g) == FALSE   \* mutant: single use forgotten
IsConsumed(g) == g \in consumed

IsExpired(g, t) == records[g].expires <= t

\* _revoked_result: the record re-read after an observer, not the one looked
\* up before it.
RevokedStale(g) == FALSE      \* mutant: the record looked up first is trusted
RevokedNow(g) == g \in revoked

\* consume() up to its observers: the first check that fails names the reason.
ConsumeRefusal(g, req, t) ==
    IF records[g] = None THEN "APPROVAL_INVALID"
    ELSE IF PrincipalFailure(records[g], req) THEN "APPROVAL_PRINCIPAL_MISMATCH"
    ELSE IF g \in revoked THEN "APPROVAL_REVOKED"
    ELSE IF IsConsumed(g) THEN "APPROVAL_CONSUMED"
    ELSE IF IsExpired(g, t) THEN "APPROVAL_EXPIRED"
    ELSE IF records[g].binding # req.binding THEN "APPROVAL_BINDING_MISMATCH"
    ELSE OK

\* The digest this call's decision froze; None when it spent no such grant.
FrozenState(a) == IF request[a].grant = None THEN None
                  ELSE records[request[a].grant].state
FrozenImpl(a) == IF request[a].grant = None THEN None
                 ELSE records[request[a].grant].impl

-----------------------------------------------------------------------------
(***************************************************************************)
(* The runtime's constructor: kill_active and available are parameters.    *)
(***************************************************************************)
Init ==
    /\ available \in BOOLEAN
    /\ fenceEngaged \in BOOLEAN
    /\ mode = IF fenceEngaged THEN "killed" ELSE "active"
    /\ fenceEpoch = IF fenceEngaged THEN 1 ELSE 0
    /\ nextAdmissionId = 0
    /\ spentAdmissions = {}
    /\ runtimeLock = Free
    /\ records = [g \in Grants |-> None]
    /\ consumed = {}
    /\ revoked = {}
    /\ storeLock = Free
    /\ callPc = [a \in Calls |-> "idle"]
    /\ request = [a \in Calls |-> None]
    /\ clock = [a \in Calls |-> 0]
    /\ admissionId = [a \in Calls |-> 0]
    /\ admittedEpoch = [a \in Calls |-> 0]
    /\ evaluatedEpoch = [a \in Calls |-> 0]
    /\ reason = [a \in Calls |-> OK]
    /\ observerInKill = [a \in Calls |-> FALSE]
    /\ completePc = [c \in Completers |-> "idle"]
    /\ target = [c \in Completers |-> None]
    /\ killPc = [k \in Killers |-> "idle"]
    /\ now = 0
    /\ state \in Digests
    /\ impl \in Digests
    /\ spentBy = [g \in Grants |-> None]
    /\ permits = [a \in Calls |-> 0]
    /\ entries = [a \in Calls |-> 0]
    /\ issuedAfterCut = {}
    /\ stateMatched = {}
    /\ implMatched = {}

-----------------------------------------------------------------------------
(***************************************************************************)
(* begin_invoke and evaluate.                                              *)
(***************************************************************************)

\* Mint the ticket, then read the epoch the pending invoke will carry.  The
\* counter has no other reader, so the two locked reads are one step.
Begin(a) ==
    /\ callPc[a] = "idle"
    /\ runtimeLock = Free
    /\ \E req \in Requests : request' = [request EXCEPT ![a] = req]
    /\ nextAdmissionId' = nextAdmissionId + 1
    /\ admissionId' = [admissionId EXCEPT ![a] = nextAdmissionId']
    /\ admittedEpoch' = [admittedEpoch EXCEPT ![a] = fenceEpoch]
    /\ clock' = [clock EXCEPT ![a] = now]
    /\ callPc' = [callPc EXCEPT ![a] = "begun"]
    /\ UNCHANGED <<runtimeVars, spentAdmissions, runtimeLock, storeVars,
                   storeLock, evaluatedEpoch, reason, observerInKill,
                   completeVars, killPc, worldVars, matchVars>>

Decide(a, why) ==
    /\ callPc' = [callPc EXCEPT ![a] = "decided"]
    /\ reason' = [reason EXCEPT ![a] = why]

\* evaluate(): read mode, availability and epoch together, then run the checks
\* that depend only on the envelope and the policy.
Evaluate(a) ==
    /\ callPc[a] = "begun"
    /\ runtimeLock = Free
    /\ evaluatedEpoch' = [evaluatedEpoch EXCEPT ![a] = fenceEpoch]
    /\ \/ /\ ~available \/ mode = "killed"
          /\ Decide(a, "KILL_ACTIVE")
       \/ /\ available /\ mode = "suspended"
          /\ Decide(a, "SUSPEND_ACTIVE")
       \/ /\ available /\ mode = "active" /\ ~request[a].ok
          /\ Decide(a, "ENVELOPE_DENIED")
       \/ /\ available /\ mode = "active" /\ request[a].ok
          /\ callPc' = [callPc EXCEPT ![a] = IF request[a].grant = None
                                             THEN "finalize" ELSE "consume"]
          /\ UNCHANGED reason
    /\ UNCHANGED <<runtimeVars, ticketVars, runtimeLock, storeVars, storeLock,
                   request, clock, admissionId, admittedEpoch, observerInKill,
                   completeVars, killPc, worldVars, matchVars>>

\* The end of consume(): re-read the record, spend it, release the lock.
Take(a, g) ==
    /\ consumed' = consumed \cup {g}
    /\ spentBy' = [spentBy EXCEPT ![g] = a]
    /\ storeLock' = Free
    /\ callPc' = [callPc EXCEPT ![a] = "finalize"]
    /\ UNCHANGED reason

\* Mutant: a refusal spends the grant all the same.
RefuseSpends(a, why) ==
    /\ Decide(a, why)
    /\ storeLock' = Free
    /\ consumed' = consumed \cup {request[a].grant}
    /\ spentBy' = [spentBy EXCEPT ![request[a].grant] = a]

Refuse(a, why) ==
    /\ Decide(a, why)
    /\ storeLock' = Free
    /\ UNCHANGED <<consumed, spentBy>>

\* consume() up to its first observer.  A grant that froze nothing is spent in
\* this one critical section; any other keeps the lock for its observers.
Consume(a) ==
    LET g == request[a].grant
        why == ConsumeRefusal(g, request[a], clock[a])
    IN /\ callPc[a] = "consume"
       /\ storeLock = Free
       /\ \/ /\ why # OK
             /\ Refuse(a, why)
          \/ /\ why = OK
             /\ records[g].impl = None /\ records[g].state = None
             /\ Take(a, g)
          \/ /\ why = OK
             /\ records[g].impl # None \/ records[g].state # None
             /\ storeLock' = a
             /\ callPc' = [callPc EXCEPT ![a] =
                    IF records[g].impl # None THEN "observeImpl" ELSE "observeState"]
             /\ UNCHANGED <<consumed, spentBy, reason>>
       /\ UNCHANGED <<runtimeVars, ticketVars, runtimeLock, records, revoked,
                      issuedAfterCut, request, clock, admissionId,
                      admittedEpoch, evaluatedEpoch, observerInKill,
                      completeVars, killPc, worldVars, matchVars>>

\* What an observer yields: the digest now current, or None when it raises,
\* returns no digest, or was refused for re-entering the store.
Sight(present, current) == IF present THEN {current, None} ELSE {None}

\* The implementation observer returns.  A grant revoked meanwhile outranks
\* whatever was observed; without an observer the check fails closed.
ObserveImplementation(a) ==
    LET g == request[a].grant
    IN /\ callPc[a] = "observeImpl"
       /\ ~observerInKill[a]
       /\ \E seen \in Sight(request[a].implObserver, impl) :
            \/ /\ RevokedNow(g)
               /\ Refuse(a, "APPROVAL_REVOKED")
            \/ /\ ~RevokedNow(g) /\ seen # records[g].impl
               /\ Refuse(a, "APPROVAL_IMPLEMENTATION_MISMATCH")
            \/ /\ ~RevokedNow(g) /\ seen = records[g].impl
               /\ records[g].state = None
               /\ Take(a, g)
            \/ /\ ~RevokedNow(g) /\ seen = records[g].impl
               /\ records[g].state # None
               /\ callPc' = [callPc EXCEPT ![a] = "observeState"]
               /\ UNCHANGED <<storeLock, consumed, spentBy, reason>>
       /\ UNCHANGED <<runtimeVars, ticketVars, runtimeLock, records, revoked,
                      issuedAfterCut, request, clock, admissionId,
                      admittedEpoch, evaluatedEpoch, observerInKill,
                      completeVars, killPc, worldVars, matchVars>>

\* The state observer returns, or the envelope's digest stands in for it.
ObserveState(a) ==
    LET g == request[a].grant
    IN /\ callPc[a] = "observeState"
       /\ ~observerInKill[a]
       /\ \E seen \in IF request[a].stateObserver THEN {state, None}
                      ELSE {request[a].digest} :
            \/ /\ RevokedNow(g)
               /\ Refuse(a, "APPROVAL_REVOKED")
            \/ /\ ~RevokedNow(g) /\ seen # records[g].state
               /\ Refuse(a, "APPROVAL_STATE_MISMATCH")
            \/ /\ ~RevokedNow(g) /\ seen = records[g].state
               /\ Take(a, g)
       /\ UNCHANGED <<runtimeVars, ticketVars, runtimeLock, records, revoked,
                      issuedAfterCut, request, clock, admissionId,
                      admittedEpoch, evaluatedEpoch, observerInKill,
                      completeVars, killPc, worldVars, matchVars>>

\* A host observer is running on this thread, inside consume().
Observing(a) ==
    \/ callPc[a] = "observeImpl" /\ request[a].implObserver
    \/ callPc[a] = "observeState" /\ request[a].stateObserver

\* _finalize_allow: the fence check and the ALLOW are one critical section.
FinalizeAllow(a) ==
    /\ callPc[a] = "finalize"
    /\ runtimeLock = Free
    /\ Decide(a, EntryBlock(evaluatedEpoch[a]))
    /\ stateMatched' = IF FrozenState(a) = state THEN stateMatched \cup {a}
                       ELSE stateMatched
    /\ implMatched' = IF FrozenImpl(a) = impl THEN implMatched \cup {a}
                      ELSE implMatched
    /\ UNCHANGED <<runtimeVars, ticketVars, runtimeLock, storeVars, storeLock,
                   request, clock, admissionId, admittedEpoch, evaluatedEpoch,
                   observerInKill, completeVars, killPc, worldVars>>

-----------------------------------------------------------------------------
(***************************************************************************)
(* complete_invoke.  Between its steps the thread holds no lock.  A call   *)
(* already denied is handed back unchanged, which changes nothing here.    *)
(* After a refusal the thread is idle and may present any call again.      *)
(***************************************************************************)

CompleteUnchanged == UNCHANGED <<runtimeVars, nextAdmissionId, runtimeLock,
                                 storeVars, storeLock, callVars, killPc,
                                 worldVars, matchVars>>

GoTo(c, where) == completePc' = [completePc EXCEPT ![c] = where]

\* entry_blocked: a non-binding read of the fence.
StartComplete(c, a) ==
    /\ completePc[c] = "idle"
    /\ Allowed(a)
    /\ runtimeLock = Free
    /\ EntryBlock(admittedEpoch[a]) = OK
    /\ target' = [target EXCEPT ![c] = a]
    /\ GoTo(c, "spentRead")
    /\ UNCHANGED <<permits, entries, spentAdmissions>>
    /\ CompleteUnchanged

\* admission_spent: a replayed completion stops before the host's observers.
ReadSpent(c) ==
    /\ completePc[c] = "spentRead"
    /\ runtimeLock = Free
    /\ GoTo(c, IF admissionId[target[c]] \in spentAdmissions THEN "idle"
               ELSE "reobserveImpl")
    /\ UNCHANGED <<target, permits, entries, spentAdmissions>>
    /\ CompleteUnchanged

\* _implementation_still_matches: no observer fails closed.
ReobserveImplementation(c) ==
    LET a == target[c]
    IN /\ completePc[c] = "reobserveImpl"
       /\ \E seen \in Sight(request[a].implObserver, impl) :
            GoTo(c, IF FrozenImpl(a) = None \/ seen = FrozenImpl(a)
                    THEN "reobserveState" ELSE "idle")
       /\ UNCHANGED <<target, permits, entries, spentAdmissions>>
       /\ CompleteUnchanged

\* Mutant: the admission's check always stands.
StateStillMatchesUnread(a, seen) == TRUE

\* _state_still_matches: without an observer the admission's check stands.
StateStillMatches(a, seen) ==
    \/ FrozenState(a) = None
    \/ ~request[a].stateObserver
    \/ seen = FrozenState(a)

ReobserveState(c) ==
    LET a == target[c]
    IN /\ completePc[c] = "reobserveState"
       /\ \E seen \in Sight(request[a].stateObserver, state) :
            GoTo(c, IF StateStillMatches(a, seen) THEN "claim" ELSE "idle")
       /\ UNCHANGED <<target, permits, entries, spentAdmissions>>
       /\ CompleteUnchanged

\* Which refusals at entry spend the ticket: all but a suspend.
SpendsAlways(block) == TRUE   \* mutant: a suspend spends it too
SpendsTicket(block) == block # "SUSPEND_ACTIVE"

\* claim_entry: spend the ticket and permit, or refuse.  A suspend leaves the
\* ticket open across a resume; every other refusal spends it.
ClaimEntry(c) ==
    LET a == target[c]
        id == admissionId[a]
        block == EntryBlock(admittedEpoch[a])
    IN /\ completePc[c] = "claim"
       /\ runtimeLock = Free
       /\ \/ /\ id \in spentAdmissions
             /\ GoTo(c, "idle")
             /\ UNCHANGED <<spentAdmissions, permits>>
          \/ /\ id \notin spentAdmissions /\ block # OK
             /\ spentAdmissions' = IF SpendsTicket(block)
                                   THEN spentAdmissions \cup {id}
                                   ELSE spentAdmissions
             /\ GoTo(c, "idle")
             /\ UNCHANGED permits
          \/ /\ id \notin spentAdmissions /\ block = OK
             /\ spentAdmissions' = spentAdmissions \cup {id}
             /\ GoTo(c, "permitted")
             /\ permits' = [permits EXCEPT ![a] = @ + 1]
       /\ UNCHANGED <<target, entries>>
       /\ CompleteUnchanged

\* tool(): a kill between the permit and this call does not stop it.
EnterTool(c) ==
    /\ completePc[c] = "permitted"
    /\ entries' = [entries EXCEPT ![target[c]] = @ + 1]
    /\ GoTo(c, "idle")
    /\ UNCHANGED <<target, permits, spentAdmissions>>
    /\ CompleteUnchanged

-----------------------------------------------------------------------------
(***************************************************************************)
(* Halts.                                                                  *)
(***************************************************************************)

\* _revoke_outstanding_unlocked over a scope.
RevokeSpent(scope) == revoked' = revoked \cup (scope \cap consumed)   \* mutant: test inverted
RevokeOutstanding(scope) == revoked' = revoked \cup (scope \cap Outstanding)

\* Mutant: the cut counts its generations down.
CutCountsDown ==
    /\ mode' = "killed"
    /\ fenceEngaged' = TRUE
    /\ fenceEpoch' = IF fenceEngaged THEN fenceEpoch ELSE fenceEpoch - 1
    /\ UNCHANGED available

\* Mode killed and the fence, which is engaged once.
CutNow ==
    /\ mode' = "killed"
    /\ fenceEngaged' = TRUE
    /\ fenceEpoch' = IF fenceEngaged THEN fenceEpoch ELSE fenceEpoch + 1
    /\ UNCHANGED available

\* kill() up to revoke_all: fenced and killed, runtime lock still held.
KillBegin(k) ==
    /\ killPc[k] = "idle"
    /\ runtimeLock = Free
    /\ CutNow
    /\ runtimeLock' = k
    /\ killPc' = [killPc EXCEPT ![k] = "revoke"]
    /\ UNCHANGED <<ticketVars, storeVars, storeLock, callVars, completeVars,
                   worldVars, matchVars>>

\* Mutant: kill() never releases the runtime lock.
KillRevokeLocked(k) ==
    /\ killPc[k] = "revoke"
    /\ storeLock = Free
    /\ RevokeOutstanding(Grants)
    /\ UNCHANGED runtimeLock
    /\ killPc' = [killPc EXCEPT ![k] = "done"]
    /\ UNCHANGED <<runtimeVars, ticketVars, records, consumed, spentBy,
                   issuedAfterCut, storeLock, callVars, completeVars,
                   worldVars, matchVars>>

\* revoke_all(all=True) takes the store lock; _persist_halt has no store.
KillRevoke(k) ==
    /\ killPc[k] = "revoke"
    /\ storeLock = Free
    /\ RevokeOutstanding(Grants)
    /\ runtimeLock' = Free
    /\ killPc' = [killPc EXCEPT ![k] = "done"]
    /\ UNCHANGED <<runtimeVars, ticketVars, records, consumed, spentBy,
                   issuedAfterCut, storeLock, callVars, completeVars,
                   worldVars, matchVars>>

\* An observer calls kill(): from here its thread waits for the runtime lock.
ObserverCallsKill(a) ==
    /\ ObserverMayKill
    /\ Observing(a)
    /\ ~observerInKill[a]
    /\ observerInKill' = [observerInKill EXCEPT ![a] = TRUE]
    /\ UNCHANGED <<runtimeVars, ticketVars, runtimeLock, storeVars, storeLock,
                   callPc, request, clock, admissionId, admittedEpoch,
                   evaluatedEpoch, reason, completeVars, killPc, worldVars,
                   matchVars>>

\* Its thread owns the store lock, so revoke_all edits in place.
ObserverKills(a) ==
    /\ observerInKill[a]
    /\ runtimeLock = Free
    /\ CutNow
    /\ RevokeOutstanding(Grants)
    /\ observerInKill' = [observerInKill EXCEPT ![a] = FALSE]
    /\ UNCHANGED <<ticketVars, runtimeLock, records, consumed, spentBy,
                   issuedAfterCut, storeLock, callPc, request, clock,
                   admissionId, admittedEpoch, evaluatedEpoch, reason,
                   completeVars, killPc, worldVars, matchVars>>

HaltUnchanged == UNCHANGED <<fenceEngaged, fenceEpoch, ticketVars, runtimeLock,
                             storeVars, storeLock, callVars, completeVars,
                             killPc, worldVars, matchVars>>

Suspend ==
    /\ runtimeLock = Free
    /\ mode # "killed"
    /\ mode' = "suspended"
    /\ UNCHANGED available
    /\ HaltUnchanged

\* Mutant: resume clears any halt.
ResumeAnyHalt ==
    /\ runtimeLock = Free
    /\ mode # "active"
    /\ mode' = "active"
    /\ UNCHANGED available
    /\ HaltUnchanged

Resume ==
    /\ runtimeLock = Free
    /\ mode = "suspended"
    /\ mode' = "active"
    /\ UNCHANGED available
    /\ HaltUnchanged

MarkUnavailable ==
    /\ runtimeLock = Free
    /\ available' = FALSE
    /\ UNCHANGED mode
    /\ HaltUnchanged

-----------------------------------------------------------------------------
(***************************************************************************)
(* The operator's side of the store, and the world the observers read.     *)
(***************************************************************************)

StoreUnchanged == UNCHANGED <<runtimeVars, ticketVars, runtimeLock, storeLock,
                              callVars, completeVars, killPc, worldVars,
                              matchVars>>

\* "approval_id already issued" is the one refusal that needs the lock.
UnusedAny(g) == TRUE          \* mutant: the id is minted again
Unused(g) == records[g] = None

\* issue() does not look at the mode: an id is minted after a kill as before.
Issue(g) ==
    /\ storeLock = Free
    /\ Unused(g)
    /\ \E spec \in GrantSpecs :
          records' = [records EXCEPT ![g] =
              [principal |-> spec.principal, binding |-> spec.binding,
               expires |-> now + spec.ttl,
               state |-> spec.state, impl |-> spec.impl]]
    /\ issuedAfterCut' = IF fenceEngaged THEN issuedAfterCut \cup {g}
                         ELSE issuedAfterCut
    /\ consumed' = consumed \ {g}
    /\ revoked' = revoked \ {g}
    /\ UNCHANGED spentBy
    /\ StoreUnchanged

Revoke(g) ==
    /\ storeLock = Free
    /\ g \in Outstanding
    /\ revoked' = revoked \cup {g}
    /\ UNCHANGED <<records, consumed, spentBy, issuedAfterCut>>
    /\ StoreUnchanged

OfPrincipal(p) == {g \in Issued : records[g].principal = p}

\* revoke_all(principal=p), from an operator's thread.
RevokeAll(p) ==
    /\ storeLock = Free
    /\ RevokeOutstanding(OfPrincipal(p))
    /\ UNCHANGED <<records, consumed, spentBy, issuedAfterCut>>
    /\ StoreUnchanged

\* revoke_all(principal=p), from an observer: in place, without the lock.
ObserverRevokesAll(a, p) ==
    /\ Observing(a)
    /\ ~observerInKill[a]
    /\ RevokeOutstanding(OfPrincipal(p))
    /\ UNCHANGED <<records, consumed, spentBy, issuedAfterCut>>
    /\ StoreUnchanged

WorldUnchanged == UNCHANGED <<runtimeVars, ticketVars, runtimeLock, storeVars,
                              storeLock, callVars, completeVars, killPc>>

Tick ==
    /\ now < MaxTime
    /\ now' = now + 1
    /\ UNCHANGED <<state, impl, matchVars>>
    /\ WorldUnchanged

ChangeState ==
    /\ \E d \in Digests \ {state} : state' = d
    /\ stateMatched' = stateMatched \cup {a \in Calls : Allowed(a) /\ FrozenState(a) = state'}
    /\ UNCHANGED <<now, impl, implMatched>>
    /\ WorldUnchanged

ChangeImpl ==
    /\ \E d \in Digests \ {impl} : impl' = d
    /\ implMatched' = implMatched \cup {a \in Calls : Allowed(a) /\ FrozenImpl(a) = impl'}
    /\ UNCHANGED <<now, state, stateMatched>>
    /\ WorldUnchanged

-----------------------------------------------------------------------------
CallStep(a) ==
    \/ Begin(a) \/ Evaluate(a) \/ Consume(a) \/ ObserveImplementation(a)
    \/ ObserveState(a) \/ FinalizeAllow(a)
    \/ ObserverCallsKill(a) \/ ObserverKills(a)
    \/ \E p \in Principals : ObserverRevokesAll(a, p)

CompleteStep(c) ==
    \/ \E a \in Calls : StartComplete(c, a)
    \/ ReadSpent(c) \/ ReobserveImplementation(c) \/ ReobserveState(c)
    \/ ClaimEntry(c) \/ EnterTool(c)

KillStep(k) == KillBegin(k) \/ KillRevoke(k)

OperatorStep ==
    \/ Suspend \/ Resume \/ MarkUnavailable
    \/ \E g \in Grants : Issue(g) \/ Revoke(g)
    \/ \E p \in Principals : RevokeAll(p)

WorldStep == Tick \/ ChangeState \/ ChangeImpl

Next ==
    \/ \E a \in Calls : CallStep(a)
    \/ \E c \in Completers : CompleteStep(c)
    \/ \E k \in Killers : KillStep(k)
    \/ OperatorStep
    \/ WorldStep

Spec == Init /\ [][Next]_vars

(***************************************************************************)
(* Fairness: a thread inside the gate keeps running, and an observer       *)
(* returns ("it must be quick", approval.py).  Nobody has to begin, kill,  *)
(* revoke, or change the world.                                            *)
(***************************************************************************)
Fairness ==
    /\ \A a \in Calls :
          WF_vars(\/ Evaluate(a) \/ Consume(a) \/ FinalizeAllow(a)
                  \/ ObserveImplementation(a) \/ ObserveState(a)
                  \/ ObserverKills(a))
    /\ \A c \in Completers :
          WF_vars(\/ ReadSpent(c) \/ ReobserveImplementation(c)
                  \/ ReobserveState(c) \/ ClaimEntry(c) \/ EnterTool(c))
    /\ \A k \in Killers : WF_vars(KillRevoke(k))

LiveSpec == Spec /\ Fairness

-----------------------------------------------------------------------------
TypeOK ==
    /\ mode \in {"active", "suspended", "killed"}
    /\ available \in BOOLEAN /\ fenceEngaged \in BOOLEAN
    /\ fenceEpoch \in Nat
    /\ nextAdmissionId \in Nat
    /\ spentAdmissions \subseteq Nat
    /\ runtimeLock \in Calls \cup Killers \cup {Free}
    /\ storeLock \in Calls \cup Killers \cup {Free}
    /\ records \in [Grants -> ApprovalRecord \cup {None}]
    /\ consumed \subseteq Grants /\ revoked \subseteq Grants
    /\ callPc \in [Calls -> CallStates]
    /\ request \in [Calls -> Requests \cup {None}]
    /\ clock \in [Calls -> Nat]
    /\ admissionId \in [Calls -> Nat]
    /\ admittedEpoch \in [Calls -> Nat] /\ evaluatedEpoch \in [Calls -> Nat]
    /\ reason \in [Calls -> Reasons]
    /\ observerInKill \in [Calls -> BOOLEAN]
    /\ completePc \in [Completers -> CompleteStates]
    /\ target \in [Completers -> Calls \cup {None}]
    /\ killPc \in [Killers -> {"idle", "revoke", "done"}]
    /\ now \in Nat /\ state \in Digests /\ impl \in Digests
    /\ spentBy \in [Grants -> Calls \cup {None}]
    /\ permits \in [Calls -> Nat] /\ entries \in [Calls -> Nat]
    /\ issuedAfterCut \subseteq Grants
    /\ stateMatched \subseteq Calls /\ implMatched \subseteq Calls

(***************************************************************************)
(* One grant puts at most one call into its tool, and that call once,      *)
(* however many threads complete or replay it ("two concurrent allows      *)
(* cannot share one grant", consume; "a second complete returns DENY",     *)
(* complete_invoke).                                                       *)
(***************************************************************************)
OneEntryPerGrant ==
    /\ \A a \in Calls : entries[a] <= permits[a] /\ permits[a] <= 1
    /\ \A a, b \in Calls :
          permits[a] > 0 /\ permits[b] > 0 /\ request[a].grant # None
             /\ request[a].grant = request[b].grant => a = b

(***************************************************************************)
(* After the cut no thread obtains a permit, whatever it had read before   *)
(* the cut and whatever suspends and resumes follow it.                    *)
(***************************************************************************)
NoPermitAfterCut == [][fenceEngaged => permits' = permits]_vars

(***************************************************************************)
(* A revoked grant stays revoked and is never spent, even when it is       *)
(* revoked by an observer in the middle of the consume() that is about to  *)
(* spend it.                                                               *)
(***************************************************************************)
RevocationIsFinal ==
    [][revoked \subseteq revoked' /\ consumed' \cap revoked' = {}]_vars

(***************************************************************************)
(* ADR-0011, "a kill leaves no spendable grant behind it": once kill() is  *)
(* out of its critical section the only grants outstanding are those an    *)
(* operator minted after the cut, which issue() does not refuse.           *)
(***************************************************************************)
KillLeavesNoGrant ==
    fenceEngaged /\ runtimeLock = Free => Outstanding \subseteq issuedAfterCut

(***************************************************************************)
(* A suspend met at tool entry does not cost the call its ticket: a ticket *)
(* is spent without a permit only by a kill or an unavailable PEP.         *)
(***************************************************************************)
TicketOutlivesSuspend ==
    \A a \in Calls :
        admissionId[a] \in spentAdmissions /\ permits[a] = 0
            => fenceEngaged \/ ~available

(***************************************************************************)
(* A call that spent its grant is refused, by evaluate() or by a           *)
(* completion, only while a halt is in force, once it has had its permit,  *)
(* or because a digest that its grant froze was observed again at tool     *)
(* entry and did not match ("no tool entry (grant already spent)",         *)
(* evaluate.py).  A refusal of consume() leaves the grant unspent, and     *)
(* nothing else after it costs one.                                        *)
(***************************************************************************)
Halted == mode # "active" \/ ~available
SpentItsGrant(a) == \E g \in consumed : spentBy[g] = a
DeniedNow(a) == callPc[a] # "decided" /\ callPc'[a] = "decided" /\ reason'[a] # OK
RefusedAtEntry(c) ==
    completePc[c] \notin {"idle", "permitted"} /\ completePc'[c] = "idle"
ReobservesFrozen(c) ==
    \/ completePc[c] = "reobserveImpl" /\ FrozenImpl(target[c]) # None
    \/ /\ completePc[c] = "reobserveState" /\ FrozenState(target[c]) # None
       /\ request[target[c]].stateObserver

GrantLostOnlyToHaltOrDrift ==
    [][/\ \A a \in Calls : DeniedNow(a) /\ SpentItsGrant(a)' => Halted
       /\ \A c \in Completers :
             RefusedAtEntry(c) /\ SpentItsGrant(target[c])
                => Halted \/ permits[target[c]] > 0 \/ ReobservesFrozen(c)]_vars

(***************************************************************************)
(* A permitted call is the call the operator approved: the attested caller *)
(* and the envelope's are the grant's principal, the invoke is the frozen  *)
(* one, and the grant had not expired by the call's clock.                 *)
(***************************************************************************)
EntryMatchesGrant ==
    \A a \in Calls :
        permits[a] > 0 /\ request[a].grant # None =>
            LET rec == records[request[a].grant]
            IN /\ request[a].principal = rec.principal
               /\ request[a].identity = rec.principal
               /\ request[a].binding = rec.binding
               /\ clock[a] < rec.expires

(***************************************************************************)
(* A call whose grant froze a digest, and whose host observes it, is       *)
(* permitted only if the frozen digest was the current one at some moment  *)
(* after its ALLOW: the check at admission alone does not carry it.        *)
(***************************************************************************)
EntryDigestWasCurrent ==
    \A a \in Calls :
        permits[a] > 0 =>
            /\ FrozenState(a) # None /\ request[a].stateObserver => a \in stateMatched
            /\ FrozenImpl(a) # None => a \in implMatched

(***************************************************************************)
(* Every evaluation, completion and kill() that has begun returns, as long *)
(* as no observer calls kill(): two locks, taken in two orders otherwise.  *)
(***************************************************************************)
ThreadsReturn ==
    \/ <>(\E a \in Calls : observerInKill[a])
    \/ /\ \A a \in Calls : callPc[a] = "begun" ~> callPc[a] = "decided"
       /\ \A c \in Completers : []<>(completePc[c] = "idle")
       /\ \A k \in Killers : killPc[k] = "revoke" ~> killPc[k] = "done"

(***************************************************************************)
(* A kill() called by an observer inside consume() returns and revokes     *)
(* ("a kill from the observer still revokes and still persists the halt",  *)
(* consume).                                                               *)
(***************************************************************************)
ObserverKillReturns == \A a \in Calls : observerInKill[a] ~> ~observerInKill[a]

(***************************************************************************)
(* The gate implements the abstract authority.                             *)
(***************************************************************************)
AGrant == [g \in Grants |-> IF g \in revoked THEN "revoked"
                           ELSE IF g \in consumed THEN "spent"
                           ELSE IF g \in Issued THEN "open" ELSE "none"]
APermitted == {a \in Calls : permits[a] > 0}
ALeansOn == [a \in Calls |-> IF permits[a] > 0 THEN request[a].grant ELSE None]

Abstract == INSTANCE Authority WITH
    grant <- AGrant, holder <- spentBy, cut <- fenceEngaged,
    permitted <- APermitted, leansOn <- ALeansOn

ImplementsAuthority == Abstract!Spec
-----------------------------------------------------------------------------
(***************************************************************************)
(* The inductive invariant behind the safety properties.                   *)
(***************************************************************************)
InsideConsume(a) == callPc[a] \in {"observeImpl", "observeState"}
HasGrant(a) == request[a].grant # None

\* A killing thread holds the runtime lock exactly while it waits to revoke,
\* a call the store lock exactly while its observers run.
LockInv ==
    /\ runtimeLock \in Killers \cup {Free}
    /\ \A k \in Killers : runtimeLock = k <=> killPc[k] = "revoke"
    /\ storeLock \in Calls \cup {Free}
    /\ \A a \in Calls : storeLock = a <=> InsideConsume(a)
    /\ \A a \in Calls : observerInKill[a] => InsideConsume(a)

\* The epoch counts one cut, and a cut is a killed mode.
FenceInv ==
    /\ fenceEngaged <=> mode = "killed"
    /\ fenceEpoch = IF fenceEngaged THEN 1 ELSE 0

\* A call has its request and its own ticket from Begin on.
CallInv ==
    \A a \in Calls :
        /\ callPc[a] = "idle" => admissionId[a] = 0 /\ permits[a] = 0
        /\ callPc[a] # "idle" => /\ request[a] \in Requests
                                 /\ admissionId[a] \in 1..nextAdmissionId
        /\ callPc[a] \in {"consume", "observeImpl", "observeState"} => HasGrant(a)
        /\ callPc[a] = "decided" \/ permits[a] = 0
        /\ \A b \in Calls \ {a} :
              callPc[a] # "idle" => admissionId[a] # admissionId[b]

\* A permit spends the ticket; a thread about to enter holds its only permit.
TicketInv ==
    /\ spentAdmissions \subseteq 1..nextAdmissionId
    /\ \A a \in Calls :
          /\ permits[a] <= 1 /\ entries[a] <= permits[a]
          /\ permits[a] > 0 => admissionId[a] \in spentAdmissions /\ Allowed(a)
    /\ \A c \in Completers :
          /\ completePc[c] # "idle" => target[c] \in Calls /\ Allowed(target[c])
          /\ completePc[c] = "permitted" =>
                permits[target[c]] = 1 /\ entries[target[c]] = 0
          /\ \A d \in Completers \ {c} :
                completePc[c] = "permitted" /\ completePc[d] = "permitted"
                    => target[c] # target[d]

Agrees(a, rec) ==
    /\ request[a].principal = rec.principal
    /\ request[a].identity = rec.principal
    /\ request[a].binding = rec.binding
    /\ clock[a] < rec.expires

\* A grant is minted before it is marked, carries one mark, and once spent
\* belongs to the one call that is past consume() with it.
GrantInv ==
    /\ consumed \cup revoked \subseteq Issued
    /\ consumed \cap revoked = {}
    /\ \A g \in Grants : spentBy[g] # None <=> g \in consumed
    /\ \A a \in Calls :
          LET g == request[a].grant
          IN /\ InsideConsume(a) =>
                   g \in Issued \ consumed /\ Agrees(a, records[g])
             /\ (callPc[a] = "finalize" \/ Allowed(a)) /\ HasGrant(a) =>
                   g \in consumed /\ spentBy[g] = a /\ Agrees(a, records[g])

GateInv ==
    /\ TypeOK /\ LockInv /\ FenceInv /\ CallInv /\ TicketInv /\ GrantInv
    /\ KillLeavesNoGrant
=============================================================================
