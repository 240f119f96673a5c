------------------------------ MODULE MCPepGate ------------------------------
(* Small instances of PepGate: the requests and grants of its runs. *)
EXTENDS PepGate, TLC

CONSTANTS a1, a2, c1, c2, k1, g1, g2, p1, p2, b1, b2, d1, d2

Threads == Permutations({a1, a2}) \cup Permutations({c1, c2})

Call(g, p, id, b) ==
    [ok |-> TRUE, grant |-> g, principal |-> p, identity |-> id, binding |-> b,
     digest |-> None, stateObserver |-> FALSE, implObserver |-> FALSE]

Spec0(p, b) == [principal |-> p, binding |-> b, ttl |-> 1,
                state |-> None, impl |-> None]

\* Callers that agree with the grant, and every way to disagree with it.
CallerRequests ==
    {Call(g1, p1, p1, b1), Call(g1, p2, p2, b1), Call(g1, p1, p2, b1),
     Call(g1, None, p1, b1), Call(g1, p1, p1, b2), Call(None, p1, p1, b1),
     [Call(None, p1, p1, b1) EXCEPT !.ok = FALSE]}
PlainGrants == {Spec0(p1, b1)}

\* A grant that froze both digests, observed by the host or not.
Seen(s, i) == [Call(g1, p1, p1, b1) EXCEPT !.stateObserver = s,
                                           !.implObserver = i, !.digest = d1]
ObservedRequests == {Seen(TRUE, TRUE), Seen(FALSE, FALSE)}
FrozenGrants == {[Spec0(p1, b1) EXCEPT !.state = d1, !.impl = d2],
                 [Spec0(p1, b1) EXCEPT !.state = d1]}
==============================================================================
