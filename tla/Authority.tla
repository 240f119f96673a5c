----------------------------- MODULE Authority -----------------------------
(***************************************************************************)
(* What the gate promises, without locks, epochs, tickets or observers: a  *)
(* grant is minted once, is then either spent by one call or revoked, and  *)
(* a call is permitted to enter its tool at most once, never after the     *)
(* cut, and, when it leans on a grant, only as the call that spent it.     *)
(***************************************************************************)
CONSTANTS Calls, Grants, None

VARIABLES
    grant,      \* grant[g]: "none", "open", "spent" or "revoked"
    holder,     \* holder[g]: the call that spent g
    cut,        \* a kill has happened
    permitted,  \* calls that were given their permit
    leansOn     \* leansOn[a]: the grant a permitted call spent, or None

vars == <<grant, holder, cut, permitted, leansOn>>

TypeOK ==
    /\ grant \in [Grants -> {"none", "open", "spent", "revoked"}]
    /\ holder \in [Grants -> Calls \cup {None}]
    /\ cut \in BOOLEAN
    /\ permitted \subseteq Calls
    /\ leansOn \in [Calls -> Grants \cup {None}]

Init ==
    /\ grant = [g \in Grants |-> "none"]
    /\ holder = [g \in Grants |-> None]
    /\ cut \in BOOLEAN
    /\ permitted = {}
    /\ leansOn = [a \in Calls |-> None]

Mint(g) ==
    /\ grant[g] = "none"
    /\ grant' = [grant EXCEPT ![g] = "open"]
    /\ UNCHANGED <<holder, cut, permitted, leansOn>>

Spend(g, a) ==
    /\ grant[g] = "open"
    /\ grant' = [grant EXCEPT ![g] = "spent"]
    /\ holder' = [holder EXCEPT ![g] = a]
    /\ UNCHANGED <<cut, permitted, leansOn>>

Revoked(S) == [g \in Grants |-> IF g \in S /\ grant[g] = "open" THEN "revoked"
                                ELSE grant[g]]

Revoke(S) ==
    /\ grant' = Revoked(S)
    /\ UNCHANGED <<holder, cut, permitted, leansOn>>

\* A kill seen from outside: the cut, and with it or after it the revocation.
Cut(S) ==
    /\ cut' = TRUE
    /\ grant' = Revoked(S)
    /\ UNCHANGED <<holder, permitted, leansOn>>

Permit(a, g) ==
    /\ ~cut
    /\ a \notin permitted
    /\ g # None => holder[g] = a
    /\ permitted' = permitted \cup {a}
    /\ leansOn' = [leansOn EXCEPT ![a] = g]
    /\ UNCHANGED <<grant, holder, cut>>

Next ==
    \/ \E g \in Grants : Mint(g)
    \/ \E g \in Grants, a \in Calls : Spend(g, a)
    \/ \E S \in SUBSET Grants : Revoke(S) \/ Cut(S)
    \/ \E a \in Calls, g \in Grants \cup {None} : Permit(a, g)

Spec == Init /\ [][Next]_vars

\* No two permitted calls lean on one grant.
OneCallPerGrant ==
    \A a, b \in permitted : leansOn[a] # None /\ leansOn[a] = leansOn[b] => a = b
=============================================================================
