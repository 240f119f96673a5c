------------------------------- MODULE Leases -------------------------------
(***************************************************************************)
(* What the executor promises about its workers, without locks, nursery,   *)
(* pool limit, deadlines or stoppers: a worker that nobody has used is     *)
(* leased to one session, works for that session, and is never leased      *)
(* again; a session has one worker at a time; once the executor stops, no  *)
(* session gets another.                                                   *)
(***************************************************************************)
CONSTANTS Sessions, Workers, None

VARIABLES
    hand,       \* hand[s]: the worker leased to s, or None
    fresh,      \* workers no session has had
    pending,    \* pairs of a worker and a session whose request it is to run
    open        \* leases are given

vars == <<hand, fresh, pending, open>>

TypeOK ==
    /\ hand \in [Sessions -> Workers \cup {None}]
    /\ fresh \subseteq Workers
    /\ pending \subseteq Workers \X Sessions
    /\ open \in BOOLEAN

Init ==
    /\ hand = [s \in Sessions |-> None]
    /\ fresh = Workers
    /\ pending = {}
    /\ open = TRUE

Lease(s, w) ==
    /\ open /\ hand[s] = None /\ w \in fresh
    /\ hand' = [hand EXCEPT ![s] = w] /\ fresh' = fresh \ {w}
    /\ UNCHANGED <<pending, open>>

Request(s) ==
    /\ hand[s] # None
    /\ pending' = pending \cup {<<hand[s], s>>}
    /\ UNCHANGED <<hand, fresh, open>>

\* Requests are answered, or lost with their worker.
Finish ==
    /\ pending' \in SUBSET pending
    /\ UNCHANGED <<hand, fresh, open>>

LetGo(s) ==
    /\ hand' = [hand EXCEPT ![s] = None]
    /\ UNCHANGED <<fresh, pending, open>>

\* A worker is closed, whoever has it.
Retire(w) ==
    /\ hand' = [s \in Sessions |-> IF hand[s] = w THEN None ELSE hand[s]]
    /\ fresh' = fresh \ {w}
    /\ pending' = {p \in pending : p[1] # w}
    /\ UNCHANGED open

\* Sessions T lose their leases, workers W are taken before any session had them.
Stop(T, W) ==
    /\ open' = FALSE
    /\ hand' = [s \in Sessions |-> IF s \in T THEN None ELSE hand[s]]
    /\ fresh' = fresh \ W
    /\ UNCHANGED pending

Next ==
    \/ \E s \in Sessions, w \in Workers : Lease(s, w)
    \/ \E s \in Sessions : Request(s) \/ LetGo(s)
    \/ Finish
    \/ \E w \in Workers : Retire(w)
    \/ \E T \in SUBSET Sessions, W \in SUBSET Workers : Stop(T, W)

Spec == Init /\ [][Next]_vars

(* A worker works for the session that has it and for no other, and one    *)
(* that nobody has had works for nobody: no two sessions share a worker at *)
(* any time (docs/threat-model.md:132).                                    *)
NotShared ==
    /\ \A s, t \in Sessions : hand[s] # None /\ hand[s] = hand[t] => s = t
    /\ \A p \in pending, s \in Sessions : hand[s] = p[1] => s = p[2]
    /\ \A s \in Sessions : hand[s] \notin fresh
    /\ \A p \in pending : p[1] \notin fresh

(* A worker that some session has had goes to no other session later, and  *)
(* a stopped executor gives no worker to anybody.                          *)
NeverAgain ==
    \A s \in Sessions : hand'[s] \notin {None, hand[s]} =>
        open /\ hand'[s] \in fresh /\ hand'[s] \notin fresh'
=============================================================================
