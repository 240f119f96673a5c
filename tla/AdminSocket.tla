----------------------------- MODULE AdminSocket ------------------------------
(***************************************************************************)
(* Who may speak to the reference host, and what an operator does over the *)
(* admin socket: mint a grant for one live connection, revoke one, or      *)
(* revoke those of a connection, while that connection calls, closes and   *)
(* has its grants selected and spent (pep/host/server.py).                 *)
(*                                                                         *)
(* An action is one critical section of the host's lock or of the approval *)
(* store, or one message.  A tool stands for a tool name with its          *)
(* arguments; what consume() checks beyond the status is in PepGate.       *)
(***************************************************************************)
EXTENDS Naturals, FiniteSets

CONSTANTS Processes,    \* peers, by process id
          Credentials,  \* the credentials a peer may have
          AllowLists,   \* the operator's allow lists
          Conns,        \* agent connections, in the order they are accepted
          Admins,       \* the slots of the admin socket
          Tools, Grants, None

ASSUME AdminSocketAssumption ==
    /\ Credentials \subseteq [uid : STRING, gid : STRING]
    /\ None \notin Conns \cup Grants \cup Processes

VARIABLES
    credentials,  \* of a process, as the kernel reports them
    allowed,      \* _allowed_uids and _allowed_gids
    agent,        \* an agent connection thread: where it is, its peer, whether the
                  \* peer's credentials were read, and the grant its call selected
    sessions,     \* _sessions and _known, which change together
    rejected,     \* _rejected_peers
    grantsOf,     \* _grants: the approval ids of a principal
    mintedOn,     \* _minted_on
    approvals,    \* the store: status, holder and tool of a grant
    admin,        \* an admin connection thread
    told,         \* history: processes told that they may not open a session
    acked, swept  \* histories: grants the operator was given, and revoked

hostVars == <<sessions, rejected, grantsOf, mintedOn, approvals>>
history == <<told, acked, swept>>
vars == <<credentials, allowed, agent, hostVars, admin, history>>

NoConn == [at |-> "none", peer |-> None, read |-> FALSE, grant |-> None]
NoAdmin == [at |-> "idle", peer |-> None, late |-> FALSE, conn |-> None,
            grant |-> None, todo |-> {}, promised |-> {}]

\* _refuse_unsafe_allow_list, and serve_forever without an allow list.
Serves(lists) ==
    /\ lists.uids # None => lists.uids \cap {"root", "host"} = {}
    /\ lists.uids \notin {None, {}} \/ lists.gids \notin {None, {}}

Init ==
    /\ credentials \in [Processes -> Credentials]
    /\ allowed \in {lists \in AllowLists : Serves(lists)}
    /\ agent = [c \in Conns |-> NoConn]
    /\ sessions = {} /\ rejected = {}
    /\ grantsOf = [c \in Conns |-> {}]
    /\ mintedOn = [g \in Grants |-> None]
    /\ approvals = [g \in Grants |-> [status |-> "unminted", holder |-> None, tool |-> None]]
    /\ admin = [a \in Admins |-> NoAdmin]
    /\ told = {} /\ acked = {} /\ swept = {}

-----------------------------------------------------------------------------
(* Peers.                                                                  *)

\* _agent_peer_denial: no session for this process.
AgentPeerDenied(p) ==
    \/ credentials[p].uid \in {"root", "host"}
    \/ allowed.uids # None /\ credentials[p].uid \notin allowed.uids
    \/ allowed.gids # None /\ credentials[p].gid \notin allowed.gids

\* Mutant: the refusals of the agent socket are forgotten.
AdminUserDenied(p) ==
    \/ credentials[p].uid # "host"
    \/ allowed.uids # None /\ credentials[p].uid \in allowed.uids

\* _admin_peer_denial: no operator.
AdminPeerDenied(p) ==
    \/ credentials[p].uid # "host"
    \/ allowed.uids # None /\ credentials[p].uid \in allowed.uids
    \/ p \in rejected

\* The accept loop hands a connection of process p to a thread.
AgentAccept(c, p) ==
    /\ agent[c].at = "none"
    /\ agent' = [agent EXCEPT ![c] = [NoConn EXCEPT !.at = "accepted", !.peer = p]]
    /\ UNCHANGED <<credentials, allowed, hostVars, admin, history>>

\* _serve_connection: a denied peer is noted before it is told; credentials
\* that cannot be read deny as well, and note nobody.
AgentPeer(c) ==
    /\ agent[c].at = "accepted"
    /\ LET p == agent[c].peer
       IN \/ /\ agent' = [agent EXCEPT ![c].at = "refusing"]
             /\ UNCHANGED <<sessions, rejected>>
          \/ /\ AgentPeerDenied(p)
             /\ rejected' = IF credentials[p].uid \in {"root", "host"}
                            THEN rejected \cup {p} ELSE rejected
             /\ agent' = [agent EXCEPT ![c].at = "refusing", ![c].read = TRUE]
             /\ UNCHANGED sessions
          \/ /\ ~AgentPeerDenied(p)
             /\ sessions' = sessions \cup {c}
             /\ agent' = [agent EXCEPT ![c].at = "open", ![c].read = TRUE]
             /\ UNCHANGED rejected
    /\ UNCHANGED <<credentials, allowed, grantsOf, mintedOn, approvals, admin, history>>

\* _refuse_unattested: the denial is sent.
RefuseUnattested(c) ==
    /\ agent[c].at = "refusing"
    /\ agent' = [agent EXCEPT ![c].at = "closed"]
    /\ told' = IF agent[c].read THEN told \cup {agent[c].peer} ELSE told
    /\ UNCHANGED <<credentials, allowed, hostVars, admin, acked, swept>>

-----------------------------------------------------------------------------
(* A session, from the gate's side.                                        *)

Matching(c, tool) == {g \in grantsOf[c] : /\ approvals[g].holder = c
                                          /\ approvals[g].tool = tool}
WithStatus(gs, status) == {g \in gs : approvals[g].status = status}

\* _select_approval: exactly one live grant of the session for this call.  Its
\* lookups are separate; what a revocation between two of them can change is
\* which denial the call gets.
SelectApproval(c, tool) ==
    /\ agent[c].at = "open" /\ agent[c].grant = None
    /\ \E g \in Grants :
           /\ WithStatus(Matching(c, tool), "live") = {g}
           /\ agent' = [agent EXCEPT ![c].grant = g]
    /\ UNCHANGED <<credentials, allowed, hostVars, admin, history>>

\* begin_invoke: the selected grant is spent, if it still can be.
Spend(c) ==
    /\ agent[c].grant # None
    /\ LET g == agent[c].grant
       IN approvals' = IF approvals[g].status = "live"
                       THEN [approvals EXCEPT ![g].status = "consumed"] ELSE approvals
    /\ agent' = [agent EXCEPT ![c].grant = None]
    /\ UNCHANGED <<credentials, allowed, sessions, rejected, grantsOf, mintedOn, admin,
                   history>>

\* _drop_session.  _minted_on is kept.
DropSession(c) ==
    /\ agent[c].at = "open" /\ agent[c].grant = None
    /\ sessions' = sessions \ {c}
    /\ grantsOf' = [grantsOf EXCEPT ![c] = {}]
    /\ agent' = [agent EXCEPT ![c].at = "closed"]
    /\ UNCHANGED <<credentials, allowed, rejected, mintedOn, approvals, admin, history>>

Expire(g) ==
    /\ approvals[g].status = "live"
    /\ approvals' = [approvals EXCEPT ![g].status = "expired"]
    /\ UNCHANGED <<credentials, allowed, agent, sessions, rejected, grantsOf, mintedOn,
                   admin, history>>

-----------------------------------------------------------------------------
(* The admin socket: one request on a connection.                          *)

\* _admin_loop; without a free slot the connection is closed.
AdminAccept(a, p) ==
    /\ admin[a].at = "idle"
    /\ admin' = [admin EXCEPT ![a] = [NoAdmin EXCEPT !.at = "accepted", !.peer = p,
                                                     !.late = p \in told]]
    /\ UNCHANGED <<credentials, allowed, agent, hostVars, history>>

Release(a) == admin' = [admin EXCEPT ![a] = NoAdmin]

\* _serve_admin, up to its first read.
AdminPeer(a) ==
    /\ admin[a].at = "accepted"
    /\ \/ Release(a)     \* credentials unreadable
       \/ AdminPeerDenied(admin[a].peer) /\ Release(a)
       \/ ~AdminPeerDenied(admin[a].peer) /\ admin' = [admin EXCEPT ![a].at = "reading"]
    /\ UNCHANGED <<credentials, allowed, agent, hostVars, history>>

\* Mutant: the deadline is looked at before the first read only.
AdminEndAtOnce(a) ==
    /\ admin[a].at = "accepted"
    /\ Release(a)
    /\ UNCHANGED <<credentials, allowed, agent, hostVars, history>>

\* The deadline passes, the peer is gone, or the request is refused as it
\* stands; `sessions` is answered.
AdminEnd(a) ==
    /\ admin[a].at = "reading"
    /\ Release(a)
    /\ UNCHANGED <<credentials, allowed, agent, hostVars, history>>

\* _admin_grant finds the session and issues a grant for it ...
AdminGrant(a, c, tool, g) ==
    /\ admin[a].at = "reading" /\ c \in sessions
    /\ approvals[g].status = "unminted"
    /\ approvals' = [approvals EXCEPT ![g] =
                       [status |-> "live", holder |-> c, tool |-> tool]]
    /\ admin' = [admin EXCEPT ![a].at = "issued", ![a].conn = c, ![a].grant = g]
    /\ UNCHANGED <<credentials, allowed, agent, sessions, rejected, grantsOf, mintedOn,
                   history>>

\* Mutant: the grant is answered before it is noted under its connection.
AdminFileAndAnswer(a) ==
    /\ admin[a].at = "issued"
    /\ grantsOf' = [grantsOf EXCEPT ![admin[a].conn] = @ \cup {admin[a].grant}]
    /\ admin' = [admin EXCEPT ![a].at = "filed"]
    /\ acked' = acked \cup {admin[a].grant}
    /\ UNCHANGED <<credentials, allowed, agent, sessions, rejected, mintedOn, approvals,
                   told, swept>>

\* ... files it under the principal ...
AdminFile(a) ==
    /\ admin[a].at = "issued"
    /\ grantsOf' = [grantsOf EXCEPT ![admin[a].conn] = @ \cup {admin[a].grant}]
    /\ admin' = [admin EXCEPT ![a].at = "filed"]
    /\ UNCHANGED <<credentials, allowed, agent, sessions, rejected, mintedOn, approvals,
                   history>>

\* ... and under the connection, and answers.  The answer may be lost.
AdminNote(a) ==
    /\ admin[a].at = "filed"
    /\ mintedOn' = [mintedOn EXCEPT ![admin[a].grant] = admin[a].conn]
    /\ acked' \in {acked, acked \cup {admin[a].grant}}
    /\ Release(a)
    /\ UNCHANGED <<credentials, allowed, agent, sessions, rejected, grantsOf, approvals,
                   told, swept>>

Outstanding(g) == approvals[g].status \in {"live", "expired"}
Revoked(gs) == [g \in Grants |-> IF g \in gs /\ Outstanding(g)
                                 THEN [approvals[g] EXCEPT !.status = "revoked"]
                                 ELSE approvals[g]]

\* _admin_revoke, of an id the operator was given.
AdminRevoke(a, g) ==
    /\ admin[a].at = "reading" /\ g \in acked
    /\ approvals' = Revoked({g})
    /\ swept' = swept \cup {g}
    /\ Release(a)
    /\ UNCHANGED <<credentials, allowed, agent, sessions, rejected, grantsOf, mintedOn,
                   told, acked>>

\* _admin_revoke_all with no connection.  The host's kill() revokes the same.
AdminRevokeAll(a) ==
    /\ admin[a].at = "reading"
    /\ approvals' = Revoked(Grants)
    /\ swept' = swept \cup acked
    /\ Release(a)
    /\ UNCHANGED <<credentials, allowed, agent, sessions, rejected, grantsOf, mintedOn,
                   told, acked>>

\* _admin_revoke_all of one connection: its ids are copied ...
AdminRevokeSession(a, c) ==
    /\ admin[a].at = "reading" /\ c \in sessions
    /\ admin' = [admin EXCEPT ![a].at = "revoking", ![a].conn = c,
                              ![a].todo = {g \in Grants : mintedOn[g] = c},
                              ![a].promised = {g \in acked : approvals[g].holder = c}]
    /\ UNCHANGED <<credentials, allowed, agent, hostVars, history>>

\* ... and looked up and revoked one at a time.
AdminRevokeNext(a) ==
    /\ admin[a].at = "revoking"
    /\ \E g \in admin[a].todo :
           /\ approvals' = Revoked({g})
           /\ admin' = [admin EXCEPT ![a].todo = @ \ {g}]
    /\ UNCHANGED <<credentials, allowed, agent, sessions, rejected, grantsOf, mintedOn,
                   history>>

AdminRevoked(a) ==
    /\ admin[a].at = "revoking" /\ admin[a].todo = {}
    /\ swept' = swept \cup admin[a].promised
    /\ Release(a)
    /\ UNCHANGED <<credentials, allowed, agent, hostVars, told, acked>>

-----------------------------------------------------------------------------
\* What an admin thread does without the peer.
AdminStep(a) ==
    \/ AdminPeer(a) \/ AdminEnd(a) \/ AdminFile(a) \/ AdminNote(a)
    \/ AdminRevokeNext(a) \/ AdminRevoked(a)

Next ==
    \/ \E c \in Conns :
           \/ \E p \in Processes : AgentAccept(c, p)
           \/ AgentPeer(c) \/ RefuseUnattested(c)
           \/ \E tool \in Tools : SelectApproval(c, tool)
           \/ Spend(c) \/ DropSession(c)
    \/ \E g \in Grants : Expire(g)
    \/ \E a \in Admins :
           \/ \E p \in Processes : AdminAccept(a, p)
           \/ AdminStep(a)
           \/ \E c \in Conns, tool \in Tools, g \in Grants : AdminGrant(a, c, tool, g)
           \/ \E g \in Grants : AdminRevoke(a, g)
           \/ AdminRevokeAll(a)
           \/ \E c \in Conns : AdminRevokeSession(a, c)

Spec == Init /\ [][Next]_vars

\* A thread of the admin socket is scheduled, and its reads time out.
LiveSpec == Spec /\ \A a \in Admins : WF_vars(AdminStep(a))

-----------------------------------------------------------------------------
Statuses == {"unminted", "live", "expired", "consumed", "revoked"}
AgentStates == [at : {"none", "accepted", "refusing", "open", "closed"},
                peer : Processes \cup {None}, read : BOOLEAN, grant : Grants \cup {None}]
Records == [status : Statuses, holder : Conns \cup {None}, tool : Tools \cup {None}]
AdminStates == [at : {"idle", "accepted", "reading", "issued", "filed", "revoking"},
                peer : Processes \cup {None}, late : BOOLEAN, conn : Conns \cup {None},
                grant : Grants \cup {None}, todo : SUBSET Grants, promised : SUBSET Grants]

TypeOK ==
    /\ credentials \in [Processes -> [uid : STRING, gid : STRING]]
    /\ agent \in [Conns -> AgentStates]
    /\ sessions \subseteq Conns /\ rejected \subseteq Processes
    /\ grantsOf \in [Conns -> SUBSET Grants]
    /\ mintedOn \in [Grants -> Conns \cup {None}]
    /\ approvals \in [Grants -> Records]
    /\ admin \in [Admins -> AdminStates]
    /\ told \subseteq Processes /\ acked \subseteq Grants /\ swept \subseteq Grants

\* A process that was told it may not open a session is known as rejected, or
\* is no host user and so no operator.
ToldAreDenied ==
    /\ \A c \in Conns : agent[c].at = "accepted" => agent[c].peer \in Processes /\ ~agent[c].read
    /\ \A c \in Conns : (agent[c].at = "refusing" /\ agent[c].read) =>
           agent[c].peer \in Processes /\
           (credentials[agent[c].peer].uid = "host" => agent[c].peer \in rejected)
    /\ \A p \in told : credentials[p].uid = "host" => p \in rejected
    /\ \A a \in Admins : admin[a].late => admin[a].peer \in told

\* A grant the operator was given is minted and noted under its holder; one in
\* the making is minted for its thread's connection; and what a thread promised
\* to revoke it has still to look at, or cannot be spent.
GrantsAreNoted ==
    /\ \A g \in acked : /\ approvals[g].status # "unminted"
                        /\ mintedOn[g] = approvals[g].holder
    /\ \A a \in Admins : admin[a].at \in {"issued", "filed"} =>
           /\ admin[a].grant \in Grants /\ admin[a].conn \in Conns
           /\ approvals[admin[a].grant].status # "unminted"
           /\ approvals[admin[a].grant].holder = admin[a].conn
    /\ \A a \in Admins : \A g \in admin[a].promised :
           g \in acked /\ (g \in admin[a].todo \/ ~Outstanding(g))
    /\ swept \subseteq acked

\* What revoking a connection's grants promises: when it is answered, no grant
\* the operator had been given for that connection before it asked is left to
\* spend, although a grant is live before it is filed, noted and answered, and
\* the ids are revoked one at a time (_admin_grant, _admin_revoke_all).
RevokeAllCovers == \A g \in swept : ~Outstanding(g)

\* "A process id already refused on the agent socket is not an operator
\* either" (_serve_admin): no request is read from a process that had been
\* told before, however the two sockets' threads interleave
\* (_note_rejected_agent before _refuse_unattested).
RefusedIsNoOperator ==
    \A a \in Admins : admin[a].late => admin[a].at \in {"idle", "accepted"}

\* The inductive invariant.
AdminInv == TypeOK /\ ToldAreDenied /\ GrantsAreNoted /\ RevokeAllCovers /\ RefusedIsNoOperator

\* An admin connection ends whatever its peer does (the deadline of
\* _serve_admin), so the slots come back.
AdminSlotsReturn == \A a \in Admins : admin[a].at # "idle" ~> admin[a].at = "idle"
===============================================================================
