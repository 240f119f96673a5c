-------------------------- MODULE AdminSocket_proofs --------------------------
(***************************************************************************)
(* Proofs about the admin socket.  First what each step does to the thread *)
(* that takes it; then AdminInv in three parts: the types, what is known   *)
(* of the peers, and what is known of the grants.                          *)
(***************************************************************************)
EXTENDS AdminSocket, TLAPS

USE AdminSocketAssumption
USE DEF hostVars, history, vars

-----------------------------------------------------------------------------
(***************************************************************************)
(* Steps.                                                                  *)
(***************************************************************************)
AgentPoints == {"none", "accepted", "refusing", "open", "closed"}
AdminPoints == {"idle", "accepted", "reading", "issued", "filed", "revoking"}

\* Only thread c moves, to r.
AgentMoves(c, r) ==
    /\ agent' \in [Conns -> AgentStates] /\ agent'[c] = r
    /\ \A d \in Conns : d # c => agent'[d] = agent[d]
AdminMoves(a, r) ==
    /\ admin' \in [Admins -> AdminStates] /\ admin'[a] = r
    /\ \A b \in Admins : b # a => admin'[b] = admin[b]

LEMMA AgentMovesTo ==
    ASSUME TypeOK, NEW c \in Conns, NEW r \in AgentStates, agent' = [agent EXCEPT ![c] = r]
    PROVE  AgentMoves(c, r)
  BY DEF TypeOK, AgentMoves

LEMMA AdminMovesTo ==
    ASSUME TypeOK, NEW a \in Admins, NEW r \in AdminStates, admin' = [admin EXCEPT ![a] = r]
    PROVE  AdminMoves(a, r)
  BY DEF TypeOK, AdminMoves

\* What the updates of a thread's record change, and what they keep.
LEMMA AgentOn ==
    ASSUME NEW r \in AgentStates, NEW at \in AgentPoints
    PROVE  LET s == [r EXCEPT !.at = at]
           IN s \in AgentStates /\ s.at = at /\ s.read = r.read /\ s.peer = r.peer
  BY DEF AgentStates, AgentPoints

LEMMA AgentRead ==
    ASSUME NEW r \in AgentStates, NEW at \in AgentPoints
    PROVE  LET s == [r EXCEPT !.at = at, !.read = TRUE]
           IN s \in AgentStates /\ s.at = at /\ s.read = TRUE /\ s.peer = r.peer
  BY DEF AgentStates, AgentPoints

LEMMA AgentChooses ==
    ASSUME NEW r \in AgentStates, NEW g \in Grants \cup {None}
    PROVE  LET s == [r EXCEPT !.grant = g]
           IN s \in AgentStates /\ s.at = r.at /\ s.read = r.read /\ s.peer = r.peer
  BY DEF AgentStates

LEMMA AdminRecords ==
    ASSUME NEW r \in AdminStates, NEW at \in AdminPoints
    PROVE  LET s == [r EXCEPT !.at = at]
           IN s \in AdminStates /\ s.at = at /\ s.late = r.late /\ s.peer = r.peer
              /\ s.grant = r.grant /\ s.conn = r.conn
              /\ s.todo = r.todo /\ s.promised = r.promised
  BY DEF AdminStates, AdminPoints

LEMMA AgentAcceptMoves ==
    ASSUME TypeOK, NEW c \in Conns, NEW p \in Processes, AgentAccept(c, p)
    PROVE  \E r \in AgentStates : /\ AgentMoves(c, r)
                                  /\ r.at = "accepted" /\ r.peer = p /\ r.read = FALSE
<1> DEFINE r == [NoConn EXCEPT !.at = "accepted", !.peer = p]
<1>1. r \in AgentStates /\ r.at = "accepted" /\ r.peer = p /\ r.read = FALSE
  BY DEF AgentStates, NoConn
<1>2. agent' = [agent EXCEPT ![c] = r]
  BY DEF AgentAccept
<1> QED
  BY <1>1, <1>2, AgentMovesTo

LEMMA AgentPeerMoves ==
    ASSUME TypeOK, NEW c \in Conns, AgentPeer(c)
    PROVE  \E r \in AgentStates :
               /\ AgentMoves(c, r) /\ r.peer = agent[c].peer
               /\ \/ /\ r.at = "refusing" /\ r.read = agent[c].read
                     /\ UNCHANGED <<sessions, rejected>>
                  \/ /\ r.at = "refusing" /\ AgentPeerDenied(agent[c].peer)
                     /\ rejected' = IF credentials[agent[c].peer].uid \in {"root", "host"}
                                    THEN rejected \cup {agent[c].peer} ELSE rejected
                     /\ UNCHANGED sessions
                  \/ /\ r.at = "open"
                     /\ sessions' = sessions \cup {c} /\ UNCHANGED rejected
<1> DEFINE r1 == [agent[c] EXCEPT !.at = "refusing"]
           r2 == [agent[c] EXCEPT !.at = "refusing", !.read = TRUE]
           r3 == [agent[c] EXCEPT !.at = "open", !.read = TRUE]
<1>1. agent[c] \in AgentStates
  BY DEF TypeOK
<1>2. /\ r1 \in AgentStates /\ r1.at = "refusing" /\ r1.read = agent[c].read
      /\ r2 \in AgentStates /\ r2.at = "refusing" /\ r3 \in AgentStates /\ r3.at = "open"
      /\ r1.peer = agent[c].peer /\ r2.peer = agent[c].peer /\ r3.peer = agent[c].peer
  BY <1>1, AgentOn, AgentRead DEF AgentPoints
<1>3. \/ agent' = [agent EXCEPT ![c] = r1] /\ UNCHANGED <<sessions, rejected>>
      \/ /\ agent' = [agent EXCEPT ![c] = r2] /\ AgentPeerDenied(agent[c].peer)
         /\ rejected' = IF credentials[agent[c].peer].uid \in {"root", "host"}
                        THEN rejected \cup {agent[c].peer} ELSE rejected
         /\ UNCHANGED sessions
      \/ /\ agent' = [agent EXCEPT ![c] = r3]
         /\ sessions' = sessions \cup {c} /\ UNCHANGED rejected
  BY DEF AgentPeer, TypeOK, AgentStates
<1> HIDE DEF r1, r2, r3
<1>4. (agent' = [agent EXCEPT ![c] = r1]) => AgentMoves(c, r1)
  BY <1>2, AgentMovesTo
<1>5. (agent' = [agent EXCEPT ![c] = r2]) => AgentMoves(c, r2)
  BY <1>2, AgentMovesTo
<1>6. (agent' = [agent EXCEPT ![c] = r3]) => AgentMoves(c, r3)
  BY <1>2, AgentMovesTo
<1> QED
  BY <1>2, <1>3, <1>4, <1>5, <1>6

\* The other steps of a connection change no more than where it is, or its grant.
LEMMA AgentElseMoves ==
    ASSUME TypeOK, NEW c \in Conns,
           \/ RefuseUnattested(c) \/ Spend(c) \/ DropSession(c)
           \/ \E tool \in Tools : SelectApproval(c, tool)
    PROVE  \E r \in AgentStates :
               /\ AgentMoves(c, r) /\ r.peer = agent[c].peer /\ r.read = agent[c].read
               /\ r.at \in {agent[c].at, "closed"}
<1> DEFINE closed == [agent[c] EXCEPT !.at = "closed"]
           chosen(g) == [agent[c] EXCEPT !.grant = g]
<1>1. agent[c] \in AgentStates
  BY DEF TypeOK
<1>2. /\ closed \in AgentStates /\ closed.at = "closed"
      /\ closed.peer = agent[c].peer /\ closed.read = agent[c].read
  BY <1>1, AgentOn DEF AgentPoints
<1>3. \A g \in Grants \cup {None} :
          /\ chosen(g) \in AgentStates /\ chosen(g).at = agent[c].at
          /\ chosen(g).peer = agent[c].peer /\ chosen(g).read = agent[c].read
  BY <1>1, AgentChooses
<1>4. \/ agent' = [agent EXCEPT ![c] = closed]
      \/ \E g \in Grants \cup {None} : agent' = [agent EXCEPT ![c] = chosen(g)]
  BY DEF RefuseUnattested, Spend, DropSession, SelectApproval
<1> HIDE DEF closed, chosen
<1>5. (agent' = [agent EXCEPT ![c] = closed]) => AgentMoves(c, closed)
  BY <1>2, AgentMovesTo
<1>6. \A g \in Grants \cup {None} :
          (agent' = [agent EXCEPT ![c] = chosen(g)]) => AgentMoves(c, chosen(g))
  BY <1>3, AgentMovesTo
<1> QED
  BY <1>2, <1>3, <1>4, <1>5, <1>6

-----------------------------------------------------------------------------
\* An admin thread starts with a peer, or ends.
LEMMA AdminAcceptMoves ==
    ASSUME TypeOK, NEW a \in Admins, NEW p \in Processes, AdminAccept(a, p)
    PROVE  \E r \in AdminStates : /\ AdminMoves(a, r)
                                  /\ r.at = "accepted" /\ r.peer = p
                                  /\ (r.late => p \in told) /\ r.promised = {}
<1> DEFINE late == p \in told
           r == [NoAdmin EXCEPT !.at = "accepted", !.peer = p, !.late = late]
<1>1. admin' = [admin EXCEPT ![a] = r]
  BY DEF AdminAccept
<1>2. late \in BOOLEAN
  OBVIOUS
<1> HIDE DEF late
<1>3. /\ r \in AdminStates /\ r.at = "accepted" /\ r.peer = p /\ r.late = late
      /\ r.promised = {}
  BY <1>2 DEF AdminStates, NoAdmin
<1> HIDE DEF r
<1>4. AdminMoves(a, r)
  BY <1>1, <1>3, AdminMovesTo
<1> QED
  BY <1>3, <1>4 DEF late

LEMMA ReleaseMoves ==
    ASSUME TypeOK, NEW a \in Admins, Release(a)
    PROVE  /\ AdminMoves(a, NoAdmin)
           /\ NoAdmin.at = "idle" /\ NoAdmin.late = FALSE /\ NoAdmin.promised = {}
<1>1. NoAdmin \in AdminStates /\ NoAdmin.at = "idle" /\ NoAdmin.late = FALSE /\ NoAdmin.promised = {}
  BY DEF NoAdmin, AdminStates
<1> QED
  BY <1>1, AdminMovesTo DEF Release

\* A step that only moves an admin thread on.
LEMMA AdminOnMoves ==
    ASSUME TypeOK, NEW a \in Admins, NEW at \in AdminPoints,
           admin' = [admin EXCEPT ![a].at = at]
    PROVE  \E r \in AdminStates :
               /\ AdminMoves(a, r) /\ r.at = at /\ r.peer = admin[a].peer
               /\ r.late = admin[a].late /\ r.conn = admin[a].conn /\ r.grant = admin[a].grant
               /\ r.todo = admin[a].todo /\ r.promised = admin[a].promised
<1> DEFINE r == [admin[a] EXCEPT !.at = at]
<1>1. admin[a] \in AdminStates
  BY DEF TypeOK
<1>2. /\ r \in AdminStates /\ r.at = at /\ r.peer = admin[a].peer
      /\ r.late = admin[a].late /\ r.conn = admin[a].conn /\ r.grant = admin[a].grant
      /\ r.todo = admin[a].todo /\ r.promised = admin[a].promised
  BY <1>1, AdminRecords
<1>3. admin' = [admin EXCEPT ![a] = r]
  OBVIOUS
<1> QED
  BY <1>2, <1>3, AdminMovesTo

LEMMA AdminGrantMoves ==
    ASSUME TypeOK, NEW a \in Admins, NEW c \in Conns, NEW tool \in Tools, NEW g \in Grants,
           AdminGrant(a, c, tool, g)
    PROVE  \E r \in AdminStates :
               /\ AdminMoves(a, r) /\ r.at = "issued" /\ r.conn = c /\ r.grant = g
               /\ r.peer = admin[a].peer /\ r.late = admin[a].late
               /\ r.todo = admin[a].todo /\ r.promised = admin[a].promised
<1> DEFINE r == [admin[a] EXCEPT !.at = "issued", !.conn = c, !.grant = g]
<1>1. admin[a] \in AdminStates
  BY DEF TypeOK
<1>2. /\ r \in AdminStates /\ r.at = "issued" /\ r.conn = c /\ r.grant = g
      /\ r.peer = admin[a].peer /\ r.late = admin[a].late
      /\ r.todo = admin[a].todo /\ r.promised = admin[a].promised
  BY <1>1 DEF AdminStates
<1>3. admin' = [admin EXCEPT ![a] = r]
  BY DEF AdminGrant, TypeOK, AdminStates
<1> HIDE DEF r
<1> QED
  BY <1>2, <1>3, AdminMovesTo

LEMMA AdminRevokeSessionMoves ==
    ASSUME TypeOK, NEW a \in Admins, NEW c \in Conns, AdminRevokeSession(a, c)
    PROVE  \E r \in AdminStates :
               /\ AdminMoves(a, r) /\ r.at = "revoking"
               /\ r.peer = admin[a].peer /\ r.late = admin[a].late
               /\ r.todo = {g \in Grants : mintedOn[g] = c}
               /\ r.promised = {g \in acked : approvals[g].holder = c}
<1> DEFINE todo == {g \in Grants : mintedOn[g] = c}
           promised == {g \in acked : approvals[g].holder = c}
           r == [admin[a] EXCEPT !.at = "revoking", !.conn = c, !.todo = todo,
                                 !.promised = promised]
<1>1. admin[a] \in AdminStates /\ todo \in SUBSET Grants /\ promised \in SUBSET Grants
  BY DEF TypeOK
<1>2. admin' = [admin EXCEPT ![a].at = "revoking", ![a].conn = c, ![a].todo = todo,
                             ![a].promised = promised]
  BY DEF AdminRevokeSession
<1> HIDE DEF todo, promised
<1>3. /\ r \in AdminStates /\ r.at = "revoking" /\ r.peer = admin[a].peer
      /\ r.late = admin[a].late /\ r.todo = todo /\ r.promised = promised
  BY <1>1 DEF AdminStates
<1>4. admin' = [admin EXCEPT ![a] = r]
  BY <1>2 DEF TypeOK, AdminStates
<1> HIDE DEF r
<1>5. AdminMoves(a, r)
  BY <1>3, <1>4, AdminMovesTo
<1> QED
  BY <1>3, <1>5 DEF todo, promised

LEMMA AdminRevokeNextMoves ==
    ASSUME TypeOK, NEW a \in Admins, AdminRevokeNext(a)
    PROVE  \E g \in admin[a].todo, r \in AdminStates :
               /\ g \in Grants /\ approvals' = Revoked({g})
               /\ AdminMoves(a, r) /\ r.at = admin[a].at /\ r.peer = admin[a].peer
               /\ r.late = admin[a].late /\ r.promised = admin[a].promised
               /\ r.todo = admin[a].todo \ {g}
<1>1. PICK g \in admin[a].todo : /\ approvals' = Revoked({g})
                                 /\ admin' = [admin EXCEPT ![a].todo = @ \ {g}]
  BY DEF AdminRevokeNext
<1> DEFINE r == [admin[a] EXCEPT !.todo = @ \ {g}]
<1>2. admin[a] \in AdminStates
  BY DEF TypeOK
<1>3. /\ r \in AdminStates /\ r.at = admin[a].at /\ r.peer = admin[a].peer
      /\ r.late = admin[a].late /\ r.promised = admin[a].promised
      /\ r.todo = admin[a].todo \ {g} /\ g \in Grants
  BY <1>2 DEF AdminStates
<1>4. admin' = [admin EXCEPT ![a] = r]
  BY <1>1
<1> HIDE DEF r
<1> QED
  BY <1>1, <1>3, <1>4, AdminMovesTo

-----------------------------------------------------------------------------
(***************************************************************************)
(* Types.                                                                  *)
(***************************************************************************)
\* The initial state.
LEMMA InitInv == Init => AdminInv
<1> SUFFICES ASSUME Init PROVE AdminInv
  OBVIOUS
<1>1. NoConn \in AgentStates /\ NoConn.at = "none" /\ NoAdmin \in AdminStates /\ NoAdmin.at = "idle"
      /\ NoAdmin.late = FALSE /\ NoAdmin.promised = {}
  BY DEF AgentStates, AdminStates, NoConn, NoAdmin
<1>2. TypeOK
  BY <1>1 DEF Init, TypeOK, Statuses, Records
<1>3. ToldAreDenied /\ RefusedIsNoOperator
  BY <1>1 DEF Init, ToldAreDenied, RefusedIsNoOperator
<1>4. GrantsAreNoted /\ RevokeAllCovers
  BY <1>1 DEF Init, GrantsAreNoted, RevokeAllCovers
<1> QED
  BY <1>2, <1>3, <1>4 DEF AdminInv

\* Revoking keeps the types and the holders, mints nothing, and leaves nothing
\* of what it was given to be spent.
LEMMA RevokedKeeps ==
    ASSUME TypeOK, NEW gs
    PROVE  /\ Revoked(gs) \in [Grants -> Records]
           /\ \A g \in Grants : /\ Revoked(gs)[g].holder = approvals[g].holder
                                /\ approvals[g].status # "unminted" =>
                                       Revoked(gs)[g].status # "unminted"
                                /\ g \in gs => Revoked(gs)[g].status \notin {"live", "expired"}
                                /\ approvals[g].status \notin {"live", "expired"} =>
                                       Revoked(gs)[g].status \notin {"live", "expired"}
<1>1. \A g \in Grants :
          Revoked(gs)[g] = IF g \in gs /\ approvals[g].status \in {"live", "expired"}
                           THEN [approvals[g] EXCEPT !.status = "revoked"] ELSE approvals[g]
  BY DEF Revoked, Outstanding
<1>2. \A g \in Grants : approvals[g] \in Records
  BY DEF TypeOK
<1>3. \A r \in Records : /\ [r EXCEPT !.status = "revoked"] \in Records
                         /\ [r EXCEPT !.status = "revoked"].status = "revoked"
                         /\ [r EXCEPT !.status = "revoked"].holder = r.holder
  BY DEF Records, Statuses
<1>4. Revoked(gs) \in [Grants -> Records]
  <2>1. \A g \in Grants : Revoked(gs)[g] \in Records
    BY <1>1, <1>2, <1>3
  <2> QED
    BY <2>1 DEF Revoked
<1> QED
  BY <1>1, <1>2, <1>3, <1>4

\* A status that changes changes nothing else.
LEMMA StatusMoves ==
    ASSUME TypeOK, NEW g \in Grants, NEW status \in Statuses,
           approvals' = [approvals EXCEPT ![g].status = status]
    PROVE  /\ approvals' \in [Grants -> Records]
           /\ approvals'[g].status = status
           /\ \A h \in Grants : /\ approvals'[h].holder = approvals[h].holder
                                /\ h # g => approvals'[h].status = approvals[h].status
<1>1. approvals[g] \in Records
  BY DEF TypeOK
<1>2. LET r == [approvals[g] EXCEPT !.status = status]
      IN r \in Records /\ r.status = status /\ r.holder = approvals[g].holder
  BY <1>1 DEF Records
<1> QED
  BY <1>2 DEF TypeOK

AgentActs(c) ==
    \/ \E p \in Processes : AgentAccept(c, p)
    \/ AgentPeer(c) \/ RefuseUnattested(c)
    \/ \E tool \in Tools : SelectApproval(c, tool)
    \/ Spend(c) \/ DropSession(c)

AdminActs(a) ==
    \/ \E p \in Processes : AdminAccept(a, p)
    \/ AdminStep(a)
    \/ \E c \in Conns, tool \in Tools, g \in Grants : AdminGrant(a, c, tool, g)
    \/ \E g \in Grants : AdminRevoke(a, g)
    \/ AdminRevokeAll(a)
    \/ \E c \in Conns : AdminRevokeSession(a, c)

LEMMA AgentTypes ==
    ASSUME TypeOK, ToldAreDenied, NEW c \in Conns, AgentActs(c)
    PROVE  TypeOK'
<1>1. CASE \E p \in Processes : AgentAccept(c, p)
  BY ZenonT(30), <1>1, AgentAcceptMoves DEF AgentAccept, AgentMoves, TypeOK
<1>2. CASE AgentPeer(c)
  <2>1. agent' \in [Conns -> AgentStates] /\ sessions' \subseteq Conns
    BY <1>2, AgentPeerMoves DEF AgentMoves, TypeOK
  <2>2. rejected' \subseteq Processes
    BY <1>2 DEF AgentPeer, TypeOK, ToldAreDenied
  <2> QED
    BY <1>2, <2>1, <2>2 DEF AgentPeer, TypeOK
<1>3. CASE RefuseUnattested(c)
  BY ZenonT(30), <1>3, AgentElseMoves DEF RefuseUnattested, AgentMoves, TypeOK, ToldAreDenied
<1>4. CASE \E tool \in Tools : SelectApproval(c, tool)
  BY ZenonT(30), <1>4, AgentElseMoves DEF SelectApproval, AgentMoves, TypeOK
<1>5. CASE Spend(c)
  <2>1. agent' \in [Conns -> AgentStates] /\ agent[c] \in AgentStates
    BY <1>5, AgentElseMoves DEF AgentMoves, TypeOK
  <2>2. agent[c].grant \in Grants
    BY <1>5, <2>1 DEF Spend, AgentStates
  <2>3. approvals' \in [Grants -> Records]
    BY <1>5, <2>2, StatusMoves DEF Spend, Statuses, TypeOK
  <2> QED
    BY <1>5, <2>1, <2>3 DEF Spend, TypeOK
<1>6. CASE DropSession(c)
  BY <1>6, AgentElseMoves DEF DropSession, AgentMoves, TypeOK
<1> QED
  BY <1>1, <1>2, <1>3, <1>4, <1>5, <1>6 DEF AgentActs

LEMMA AdminTypes ==
    ASSUME TypeOK, GrantsAreNoted, NEW a \in Admins, AdminActs(a)
    PROVE  TypeOK'
<1> USE DEF AdminMoves, AdminPoints
<1>1. CASE \E p \in Processes : AdminAccept(a, p)
  <2>1. admin' \in [Admins -> AdminStates]
    BY <1>1, AdminAcceptMoves
  <2> QED
    BY <1>1, <2>1 DEF AdminAccept, TypeOK
<1>2. CASE AdminPeer(a)
  BY <1>2, ReleaseMoves, AdminOnMoves DEF AdminPeer, TypeOK
<1>3. CASE AdminEnd(a)
  BY <1>3, ReleaseMoves DEF AdminEnd, TypeOK
<1>4. CASE AdminFile(a)
  <2>1. admin' \in [Admins -> AdminStates]
    BY <1>4, AdminOnMoves DEF AdminFile
  <2> QED
    BY <1>4, <2>1 DEF AdminFile, TypeOK, GrantsAreNoted
<1>5. CASE AdminNote(a)
  BY <1>5, ReleaseMoves DEF AdminNote, TypeOK, GrantsAreNoted
<1>6. CASE AdminRevokeNext(a)
  <2>1. admin' \in [Admins -> AdminStates] /\ approvals' \in [Grants -> Records]
    BY ZenonT(30), <1>6, AdminRevokeNextMoves, RevokedKeeps
  <2> QED
    BY <1>6, <2>1 DEF AdminRevokeNext, TypeOK
<1>7. CASE AdminRevoked(a)
  <2>1. admin[a].promised \subseteq Grants
    BY DEF TypeOK, AdminStates
  <2> QED
    BY <1>7, <2>1, ReleaseMoves DEF AdminRevoked, TypeOK
<1>8. ASSUME NEW c \in Conns, NEW tool \in Tools, NEW g \in Grants, AdminGrant(a, c, tool, g)
      PROVE  TypeOK'
  <2>1. admin' \in [Admins -> AdminStates]
    BY <1>8, AdminGrantMoves
  <2>2. [status |-> "live", holder |-> c, tool |-> tool] \in Records
    BY DEF Records, Statuses
  <2> QED
    BY <1>8, <2>1, <2>2 DEF AdminGrant, TypeOK
<1>9. CASE \E g \in Grants : AdminRevoke(a, g)
  <2>1. PICK g \in Grants : AdminRevoke(a, g)
    BY <1>9
  <2>2. admin' \in [Admins -> AdminStates] /\ approvals' \in [Grants -> Records]
    BY <2>1, ReleaseMoves, RevokedKeeps DEF AdminRevoke
  <2> QED
    BY <2>1, <2>2 DEF AdminRevoke, TypeOK
<1>10. CASE AdminRevokeAll(a)
  BY <1>10, ReleaseMoves, RevokedKeeps DEF AdminRevokeAll, TypeOK
<1>11. CASE \E c \in Conns : AdminRevokeSession(a, c)
  <2>1. admin' \in [Admins -> AdminStates]
    BY <1>11, AdminRevokeSessionMoves
  <2> QED
    BY <1>11, <2>1 DEF AdminRevokeSession, TypeOK
<1> QED
  BY <1>1, <1>2, <1>3, <1>4, <1>5, <1>6, <1>7, <1>8, <1>9, <1>10, <1>11 DEF AdminActs, AdminStep

-----------------------------------------------------------------------------
(***************************************************************************)
(* What is known of the peers.                                             *)
(***************************************************************************)
Peers == ToldAreDenied /\ RefusedIsNoOperator

LEMMA AgentPeers ==
    ASSUME TypeOK, Peers, NEW c \in Conns, AgentActs(c)
    PROVE  Peers'
<1> USE DEF AgentMoves
<1>1. CASE \E p \in Processes : AgentAccept(c, p)
  <2>1. PICK p \in Processes : AgentAccept(c, p)
    BY <1>1
  <2>2. UNCHANGED <<credentials, rejected, told, admin>>
    BY <2>1 DEF AgentAccept
  <2>3. /\ agent'[c].at = "accepted" /\ agent'[c].peer = p /\ agent'[c].read = FALSE
        /\ \A d \in Conns : d # c => agent'[d] = agent[d]
    BY ZenonT(30), <2>1, AgentAcceptMoves
  <2> QED
    BY <2>2, <2>3 DEF Peers, ToldAreDenied, RefusedIsNoOperator
<1>2. CASE AgentPeer(c)
  <2>1. UNCHANGED <<credentials, told, admin>> /\ agent[c].at = "accepted"
    BY <1>2 DEF AgentPeer
  <2>2. agent[c].peer \in Processes /\ ~agent[c].read
    BY <2>1 DEF Peers, ToldAreDenied
  <2>3. rejected \subseteq rejected'
    BY <1>2, AgentPeerMoves
  <2>4. \A d \in Conns : agent'[d].at = "accepted" =>
            agent'[d].peer \in Processes /\ ~agent'[d].read
    BY <1>2, AgentPeerMoves DEF Peers, ToldAreDenied
  <2>5. \A d \in Conns : (agent'[d].at = "refusing" /\ agent'[d].read) =>
            agent'[d].peer \in Processes /\
            (credentials[agent'[d].peer].uid = "host" => agent'[d].peer \in rejected')
    BY <1>2, <2>2, <2>3, AgentPeerMoves DEF Peers, ToldAreDenied
  <2> QED
    BY <2>1, <2>3, <2>4, <2>5 DEF Peers, ToldAreDenied, RefusedIsNoOperator
<1>3. CASE RefuseUnattested(c)
  <2>1. /\ agent[c].at = "refusing" /\ UNCHANGED <<credentials, admin, rejected>>
        /\ told' = IF agent[c].read THEN told \cup {agent[c].peer} ELSE told
        /\ agent'[c].at = "closed"
    BY <1>3, AgentElseMoves DEF RefuseUnattested, TypeOK, AgentStates
  <2>2. \A d \in Conns : d # c => agent'[d] = agent[d]
    BY <1>3, AgentElseMoves
  <2> QED
    BY <2>1, <2>2 DEF Peers, ToldAreDenied, RefusedIsNoOperator
<1>4. CASE Spend(c) \/ DropSession(c) \/ \E tool \in Tools : SelectApproval(c, tool)
  <2>1. UNCHANGED <<credentials, rejected, told, admin>>
    BY <1>4 DEF Spend, DropSession, SelectApproval
  <2>2. \A d \in Conns : /\ agent'[d].peer = agent[d].peer /\ agent'[d].read = agent[d].read
                         /\ agent'[d].at \in {agent[d].at, "closed"}
    BY <1>4, AgentElseMoves
  <2> QED
    BY <2>1, <2>2 DEF Peers, ToldAreDenied, RefusedIsNoOperator
<1> QED
  BY <1>1, <1>2, <1>3, <1>4 DEF AgentActs

\* A thread whose peer had been told is not past its accept.
LEMMA LateIsDenied ==
    ASSUME TypeOK, Peers, NEW a \in Admins, AdminActs(a), admin'[a].at \notin {"idle", "accepted"}
    PROVE  ~admin[a].late
<1>1. CASE admin[a].at \in {"idle", "accepted"}
  <2>1. AdminPeer(a) /\ ~AdminPeerDenied(admin[a].peer)
    <3>1. ~ \E p \in Processes : AdminAccept(a, p)
      BY AdminAcceptMoves DEF AdminMoves
    <3>2. AdminPeer(a)
      BY <1>1, <3>1 DEF AdminActs, AdminStep, AdminEnd, AdminFile, AdminNote, AdminRevokeNext,
         AdminRevoked, AdminGrant, AdminRevoke, AdminRevokeAll, AdminRevokeSession
    <3> QED
      BY <3>2, ReleaseMoves DEF AdminPeer, AdminMoves
  <2> QED
    BY <2>1 DEF AdminPeerDenied, Peers, ToldAreDenied
<1>2. CASE admin[a].at \notin {"idle", "accepted"}
  BY <1>2 DEF Peers, RefusedIsNoOperator
<1> QED
  BY <1>1, <1>2

\* A step of an admin thread keeps its peer, but for the first and the last one.
LEMMA AdminKeepsPeer ==
    ASSUME TypeOK, NEW a \in Admins, AdminActs(a)
    PROVE  /\ UNCHANGED <<credentials, agent, rejected, told>>
           /\ \A b \in Admins : b # a => admin'[b] = admin[b]
           /\ \/ admin'[a].peer = admin[a].peer /\ admin'[a].late = admin[a].late
              \/ admin'[a].at = "idle" /\ admin'[a].late = FALSE
              \/ /\ admin'[a].at = "accepted"
                 /\ (admin'[a].late => admin'[a].peer \in told)
<1> USE DEF AdminMoves, AdminPoints
<1>1. CASE \E p \in Processes : AdminAccept(a, p)
  <2>1. PICK p \in Processes : AdminAccept(a, p)
    BY <1>1
  <2>2. UNCHANGED <<credentials, agent, rejected, told>>
    BY <2>1 DEF AdminAccept
  <2> QED
    BY <2>1, <2>2, AdminAcceptMoves
<1>2. CASE AdminPeer(a)
  <2>1. UNCHANGED <<credentials, agent, rejected, told>>
    BY <1>2 DEF AdminPeer
  <2>2. CASE Release(a)
    BY <2>1, <2>2, ReleaseMoves
  <2>3. CASE admin' = [admin EXCEPT ![a].at = "reading"]
    BY <2>1, <2>3, AdminOnMoves
  <2> QED
    BY <1>2, <2>2, <2>3 DEF AdminPeer
<1>3. CASE AdminEnd(a) \/ AdminNote(a) \/ AdminRevoked(a)
  BY <1>3, ReleaseMoves DEF AdminEnd, AdminNote, AdminRevoked
<1>4. CASE AdminFile(a)
  BY <1>4, AdminOnMoves DEF AdminFile
<1>5. CASE AdminRevokeNext(a)
  BY <1>5, AdminRevokeNextMoves DEF AdminRevokeNext
<1>6. ASSUME NEW c \in Conns, NEW tool \in Tools, NEW g \in Grants, AdminGrant(a, c, tool, g)
      PROVE  /\ UNCHANGED <<credentials, agent, rejected, told>>
             /\ \A b \in Admins : b # a => admin'[b] = admin[b]
             /\ admin'[a].peer = admin[a].peer /\ admin'[a].late = admin[a].late
  BY ZenonT(30), <1>6, AdminGrantMoves DEF AdminGrant
<1>7. CASE AdminRevokeAll(a) \/ \E g \in Grants : AdminRevoke(a, g)
  BY <1>7, ReleaseMoves DEF AdminRevoke, AdminRevokeAll
<1>8. CASE \E c \in Conns : AdminRevokeSession(a, c)
  <2>1. PICK c \in Conns : AdminRevokeSession(a, c)
    BY <1>8
  <2>2. UNCHANGED <<credentials, agent, rejected, told>>
    BY <2>1 DEF AdminRevokeSession
  <2> QED
    BY <2>1, <2>2, AdminRevokeSessionMoves
<1> QED
  BY <1>1, <1>2, <1>3, <1>4, <1>5, <1>6, <1>7, <1>8 DEF AdminActs, AdminStep

LEMMA AdminPeers ==
    ASSUME TypeOK, Peers, NEW a \in Admins, AdminActs(a)
    PROVE  Peers'
<1>1. /\ UNCHANGED <<credentials, agent, rejected, told>>
      /\ \A b \in Admins : b # a => admin'[b] = admin[b]
      /\ \/ admin'[a].peer = admin[a].peer /\ admin'[a].late = admin[a].late
         \/ admin'[a].at = "idle" /\ admin'[a].late = FALSE
         \/ admin'[a].at = "accepted" /\ (admin'[a].late => admin'[a].peer \in told)
  BY AdminKeepsPeer
<1>2. admin'[a].at \notin {"idle", "accepted"} => ~admin[a].late
  BY LateIsDenied
<1>3. ToldAreDenied'
  BY <1>1 DEF Peers, ToldAreDenied
<1>4. RefusedIsNoOperator'
  BY <1>1, <1>2 DEF Peers, RefusedIsNoOperator
<1> QED
  BY <1>3, <1>4 DEF Peers

-----------------------------------------------------------------------------
(***************************************************************************)
(* What is known of the grants.                                            *)
(***************************************************************************)
GrantFacts == GrantsAreNoted /\ RevokeAllCovers

\* Where grants stay minted and held, what is revoked stays revoked, and no
\* admin thread takes a step, the facts stay.
LEMMA HoldersKeep ==
    ASSUME GrantFacts, TypeOK,
           \A g \in Grants : /\ approvals'[g].holder = approvals[g].holder
                             /\ approvals[g].status # "unminted" =>
                                    approvals'[g].status # "unminted"
                             /\ approvals[g].status \notin {"live", "expired"} =>
                                    approvals'[g].status \notin {"live", "expired"}
                                    \/ approvals[g].status = "unminted",
           UNCHANGED <<mintedOn, admin, acked, swept>>
    PROVE  GrantFacts'
<1>1. \A a \in Admins : admin[a].promised \subseteq acked
  BY DEF GrantFacts, GrantsAreNoted
<1>2. acked \subseteq Grants /\ swept \subseteq acked
  BY DEF GrantFacts, GrantsAreNoted, TypeOK
<1>3. \A g \in acked : /\ approvals'[g].status # "unminted"
                        /\ mintedOn[g] = approvals'[g].holder
  BY <1>2 DEF GrantFacts, GrantsAreNoted
<1>4. \A g \in acked : approvals[g].status \notin {"live", "expired"} =>
                            approvals'[g].status \notin {"live", "expired"}
  BY <1>2 DEF GrantFacts, GrantsAreNoted
<1>5. GrantsAreNoted'
  BY <1>1, <1>2, <1>3, <1>4 DEF GrantFacts, GrantsAreNoted, Outstanding
<1>6. RevokeAllCovers'
  BY <1>2, <1>4 DEF GrantFacts, RevokeAllCovers, Outstanding
<1> QED
  BY <1>5, <1>6 DEF GrantFacts

LEMMA AgentGrants ==
    ASSUME GrantFacts, TypeOK, NEW c \in Conns, AgentActs(c)
    PROVE  GrantFacts'
<1>1. CASE Spend(c)
  <2>1. agent[c].grant \in Grants
    BY <1>1 DEF Spend, TypeOK, AgentStates
  <2>2. UNCHANGED <<mintedOn, admin, acked, swept>>
    BY <1>1 DEF Spend
  <2>3. CASE approvals[agent[c].grant].status # "live"
    BY <1>1, <2>2, <2>3, HoldersKeep DEF Spend
  <2>4. CASE approvals[agent[c].grant].status = "live"
    <3>1. approvals' = [approvals EXCEPT ![agent[c].grant].status = "consumed"]
      BY <1>1, <2>4 DEF Spend
    <3> QED
      BY <2>1, <2>2, <2>4, <3>1, StatusMoves, HoldersKeep DEF Statuses
  <2> QED
    BY <2>3, <2>4
<1>2. CASE ~Spend(c)
  <2>1. UNCHANGED <<mintedOn, admin, acked, swept, approvals>>
    BY <1>2 DEF AgentActs, AgentAccept, AgentPeer, RefuseUnattested, SelectApproval, DropSession
  <2> QED
    BY <2>1, HoldersKeep
<1> QED
  BY <1>1, <1>2

LEMMA ExpireKeeps ==
    ASSUME AdminInv, NEW g \in Grants, Expire(g)
    PROVE  AdminInv'
<1>1. /\ approvals' = [approvals EXCEPT ![g].status = "expired"] /\ approvals[g].status = "live"
      /\ UNCHANGED <<credentials, agent, sessions, rejected, grantsOf, mintedOn, admin, told,
                     acked, swept>>
  BY DEF Expire
<1>2. GrantFacts /\ TypeOK
  BY DEF AdminInv, GrantFacts
<1>3. approvals' \in [Grants -> Records]
  BY <1>1, <1>2, StatusMoves DEF Statuses
<1>4. TypeOK'
  BY <1>1, <1>2, <1>3 DEF TypeOK
<1>5. ToldAreDenied' /\ RefusedIsNoOperator'
  BY <1>1 DEF AdminInv, ToldAreDenied, RefusedIsNoOperator
<1>6. GrantFacts'
  BY <1>1, <1>2, StatusMoves, HoldersKeep DEF Statuses
<1> QED
  BY <1>4, <1>5, <1>6 DEF AdminInv, GrantFacts

\* Revoking gs settles gs and leaves the rest as settled, minted and held as it was.
KeptBy(gs) ==
    \A g \in Grants : /\ approvals'[g].holder = approvals[g].holder
                      /\ approvals[g].status # "unminted" => approvals'[g].status # "unminted"
                      /\ g \in gs => ~Outstanding(g)'
                      /\ ~Outstanding(g) => ~Outstanding(g)'

LEMMA RevokedStays ==
    ASSUME TypeOK, NEW gs, approvals' = Revoked(gs)
    PROVE  KeptBy(gs)
  BY RevokedKeeps DEF KeptBy, Outstanding

LEMMA AdminGrants ==
    ASSUME GrantFacts, TypeOK, NEW a \in Admins, AdminActs(a)
    PROVE  GrantFacts'
<1> USE DEF AdminMoves, AdminPoints, GrantFacts
<1>1. CASE (\E p \in Processes : AdminAccept(a, p)) \/ AdminPeer(a) \/ AdminEnd(a)
  <2>1. UNCHANGED <<approvals, mintedOn, acked, swept>>
    BY <1>1 DEF AdminAccept, AdminPeer, AdminEnd
  <2>2. /\ \A b \in Admins : b # a => admin'[b] = admin[b]
        /\ admin'[a].at \notin {"issued", "filed"}
        /\ \/ admin'[a].promised = {}
           \/ admin'[a].promised = admin[a].promised /\ admin'[a].todo = admin[a].todo
    <3>1. CASE \E p \in Processes : AdminAccept(a, p)
      BY <3>1, AdminAcceptMoves
    <3>2. CASE Release(a)
      BY <3>2, ReleaseMoves
    <3>3. CASE admin' = [admin EXCEPT ![a].at = "reading"]
      BY ZenonT(30), <3>3, AdminOnMoves
    <3> QED
      BY <1>1, <3>1, <3>2, <3>3 DEF AdminPeer, AdminEnd
  <2> QED
    BY <2>1, <2>2 DEF GrantsAreNoted, RevokeAllCovers, Outstanding
<1>2. CASE AdminFile(a)
  <2>1. UNCHANGED <<approvals, mintedOn, acked, swept>> /\ admin[a].at = "issued"
    BY <1>2 DEF AdminFile
  <2>2. /\ \A b \in Admins : b # a => admin'[b] = admin[b]
        /\ admin'[a].grant = admin[a].grant /\ admin'[a].conn = admin[a].conn
        /\ admin'[a].promised = admin[a].promised /\ admin'[a].todo = admin[a].todo
    BY <1>2, AdminOnMoves DEF AdminFile
  <2> QED
    BY <2>1, <2>2 DEF GrantsAreNoted, RevokeAllCovers, Outstanding
<1>3. CASE AdminNote(a)
  <2> DEFINE h == admin[a].grant
  <2>1. /\ UNCHANGED <<approvals, swept>> /\ admin[a].at = "filed"
        /\ mintedOn' = [mintedOn EXCEPT ![h] = admin[a].conn]
        /\ acked' \in {acked, acked \cup {h}}
    BY <1>3 DEF AdminNote
  <2>2. /\ h \in Grants /\ approvals[h].status # "unminted"
        /\ approvals[h].holder = admin[a].conn
    BY <2>1 DEF GrantsAreNoted
  <2>3. /\ \A b \in Admins : b # a => admin'[b] = admin[b]
        /\ admin'[a].at = "idle" /\ admin'[a].promised = {}
    BY <1>3, ReleaseMoves DEF AdminNote
  <2>4. /\ mintedOn'[h] = approvals[h].holder
        /\ \A g \in Grants : g # h => mintedOn'[g] = mintedOn[g]
    BY <2>1, <2>2 DEF TypeOK
  <2>5. \A g \in acked' : g \in Grants /\ approvals[g].status # "unminted"
                                      /\ mintedOn'[g] = approvals[g].holder
    BY <2>1, <2>2, <2>4 DEF GrantsAreNoted, TypeOK
  <2> QED
    BY <2>1, <2>3, <2>5 DEF GrantsAreNoted, RevokeAllCovers, Outstanding
<1>4. CASE AdminRevokeNext(a)
  <2>1. UNCHANGED <<mintedOn, acked, swept>> /\ admin[a].at = "revoking"
    BY <1>4 DEF AdminRevokeNext
  <2>2. PICK g \in admin[a].todo :
            /\ approvals' = Revoked({g})
            /\ \A b \in Admins : b # a => admin'[b] = admin[b]
            /\ admin'[a].at = admin[a].at /\ admin'[a].promised = admin[a].promised
            /\ admin'[a].todo = admin[a].todo \ {g}
    BY ZenonT(30), <1>4, AdminRevokeNextMoves
  <2>3. KeptBy({g})
    BY <2>2, RevokedStays
  <2>4. acked \subseteq Grants
    BY DEF TypeOK
  <2>5. \A b \in Admins : \A h \in admin'[b].promised :
            h \in acked /\ (h \in admin'[b].todo \/ ~Outstanding(h)')
    BY <2>2, <2>3, <2>4 DEF KeptBy, GrantsAreNoted
  <2>6. \A b \in Admins : admin'[b].at \in {"issued", "filed"} =>
            admin'[b] = admin[b] /\ b # a
    BY <2>1, <2>2
  <2>7. GrantsAreNoted'
    BY <2>1, <2>3, <2>4, <2>5, <2>6 DEF KeptBy, GrantsAreNoted
  <2>8. RevokeAllCovers'
    BY <2>1, <2>3, <2>4 DEF KeptBy, GrantsAreNoted, RevokeAllCovers
  <2> QED
    BY <2>7, <2>8
<1>5. CASE AdminRevoked(a)
  <2>1. /\ UNCHANGED <<approvals, mintedOn, acked>> /\ admin[a].todo = {}
        /\ swept' = swept \cup admin[a].promised
    BY <1>5 DEF AdminRevoked
  <2>2. /\ \A b \in Admins : b # a => admin'[b] = admin[b]
        /\ admin'[a].at = "idle" /\ admin'[a].promised = {}
    BY <1>5, ReleaseMoves DEF AdminRevoked
  <2>3. \A g \in admin[a].promised : g \in acked /\ ~Outstanding(g)
    BY <2>1 DEF GrantsAreNoted
  <2> QED
    BY <2>1, <2>2, <2>3 DEF GrantsAreNoted, RevokeAllCovers, Outstanding
<1>6. ASSUME NEW c \in Conns, NEW tool \in Tools, NEW g \in Grants, AdminGrant(a, c, tool, g)
      PROVE  GrantFacts'
  <2>1. /\ UNCHANGED <<mintedOn, acked, swept>> /\ approvals[g].status = "unminted"
        /\ approvals' = [approvals EXCEPT ![g] =
                            [status |-> "live", holder |-> c, tool |-> tool]]
    BY <1>6 DEF AdminGrant
  <2>2. /\ \A b \in Admins : b # a => admin'[b] = admin[b]
        /\ admin'[a].conn = c /\ admin'[a].grant = g
        /\ admin'[a].promised = admin[a].promised /\ admin'[a].todo = admin[a].todo
    BY <1>6, AdminGrantMoves
  <2>3. /\ approvals'[g].status = "live" /\ approvals'[g].holder = c
        /\ \A h \in Grants : h # g => approvals'[h] = approvals[h]
    BY <2>1 DEF TypeOK
  <2>4. g \notin acked /\ acked \subseteq Grants
    BY <2>1 DEF GrantsAreNoted, TypeOK
  <2>5. \A b \in Admins : admin[b].at \in {"issued", "filed"} => admin[b].grant # g
    BY <2>1 DEF GrantsAreNoted
  <2>6. \A h \in acked : approvals'[h] = approvals[h] /\ (Outstanding(h)' <=> Outstanding(h))
    BY <2>3, <2>4 DEF Outstanding
  <2>7. GrantsAreNoted'
    BY <2>1, <2>2, <2>3, <2>5, <2>6 DEF GrantsAreNoted
  <2> QED
    BY <2>1, <2>6, <2>7 DEF GrantsAreNoted, RevokeAllCovers
<1>7. CASE (\E g \in Grants : AdminRevoke(a, g)) \/ AdminRevokeAll(a)
  <2>1. PICK gs \in SUBSET Grants :
            /\ approvals' = Revoked(gs) /\ swept' \subseteq swept \cup gs /\ swept' \subseteq acked
    <3>1. CASE AdminRevokeAll(a)
      BY <3>1 DEF AdminRevokeAll, GrantsAreNoted, TypeOK
    <3>2. CASE \E g \in Grants : AdminRevoke(a, g)
      <4>1. PICK g \in Grants : AdminRevoke(a, g)
        BY <3>2
      <4>2. /\ approvals' = Revoked({g}) /\ swept' = swept \cup {g} /\ g \in acked
            /\ swept \subseteq acked
        BY <4>1 DEF AdminRevoke, GrantsAreNoted
      <4> QED
        BY <4>2
    <3> QED
      BY <1>7, <3>1, <3>2
  <2>2. UNCHANGED <<mintedOn, acked>>
    BY <1>7 DEF AdminRevoke, AdminRevokeAll
  <2>3. /\ \A b \in Admins : b # a => admin'[b] = admin[b]
        /\ admin'[a].at = "idle" /\ admin'[a].promised = {}
    BY <1>7, ReleaseMoves DEF AdminRevoke, AdminRevokeAll
  <2>4. KeptBy(gs)
    BY <2>1, RevokedStays
  <2>5. acked \subseteq Grants
    BY DEF TypeOK
  <2> QED
    BY <2>1, <2>2, <2>3, <2>4, <2>5 DEF KeptBy, GrantsAreNoted, RevokeAllCovers
<1>8. CASE \E c \in Conns : AdminRevokeSession(a, c)
  <2>1. UNCHANGED <<approvals, mintedOn, acked, swept>>
    BY <1>8 DEF AdminRevokeSession
  <2>2. PICK c \in Conns :
            /\ \A b \in Admins : b # a => admin'[b] = admin[b]
            /\ admin'[a].at = "revoking"
            /\ admin'[a].todo = {g \in Grants : mintedOn[g] = c}
            /\ admin'[a].promised = {g \in acked : approvals[g].holder = c}
    BY <1>8, AdminRevokeSessionMoves
  <2>3. \A g \in admin'[a].promised : g \in acked /\ g \in admin'[a].todo
    BY <2>2 DEF GrantsAreNoted, TypeOK
  <2> QED
    BY <2>1, <2>2, <2>3 DEF GrantsAreNoted, RevokeAllCovers, Outstanding
<1> QED
  BY <1>1, <1>2, <1>3, <1>4, <1>5, <1>6, <1>7, <1>8 DEF AdminActs, AdminStep

-----------------------------------------------------------------------------
(***************************************************************************)
(* The theorems.                                                           *)
(***************************************************************************)
LEMMA NextInv == AdminInv /\ [Next]_vars => AdminInv'
<1> SUFFICES ASSUME AdminInv, [Next]_vars PROVE AdminInv'
  OBVIOUS
<1>1. TypeOK /\ ToldAreDenied /\ GrantsAreNoted /\ Peers /\ GrantFacts
  BY DEF AdminInv, Peers, GrantFacts
<1>2. ASSUME NEW c \in Conns, AgentActs(c) PROVE AdminInv'
  BY <1>1, <1>2, AgentTypes, AgentPeers, AgentGrants DEF AdminInv, Peers, GrantFacts
<1>3. ASSUME NEW a \in Admins, AdminActs(a) PROVE AdminInv'
  BY <1>1, <1>3, AdminTypes, AdminPeers, AdminGrants DEF AdminInv, Peers, GrantFacts
<1>4. ASSUME NEW g \in Grants, Expire(g) PROVE AdminInv'
  BY <1>4, ExpireKeeps
<1>5. CASE UNCHANGED vars
  <2>1. TypeOK'
    BY <1>1, <1>5 DEF TypeOK
  <2>2. ToldAreDenied' /\ RefusedIsNoOperator'
    BY <1>5 DEF AdminInv, ToldAreDenied, RefusedIsNoOperator
  <2>3. GrantsAreNoted' /\ RevokeAllCovers'
    BY <1>5 DEF AdminInv, GrantsAreNoted, RevokeAllCovers, Outstanding
  <2> QED
    BY <2>1, <2>2, <2>3 DEF AdminInv
<1> QED
  BY <1>2, <1>3, <1>4, <1>5 DEF Next, AgentActs, AdminActs

\* Every state of the admin socket and of the agent sockets beside it keeps the
\* invariant: the types, what is known of refused peers, and what is known of
\* grants that were answered, are in the making, or are being revoked
\* (_serve_connection, _admin_grant, _admin_revoke_all).
THEOREM AdminInvariant == Spec => []AdminInv
<1>1. Init => AdminInv
  BY InitInv
<1>2. AdminInv /\ [Next]_vars => AdminInv'
  BY NextInv
<1> QED
  BY <1>1, <1>2, PTL DEF Spec

\* Whatever operators, sessions and the clock do while it is under way, a
\* revocation that was answered has left none of the grants the operator held
\* for that connection to be spent (_admin_revoke_all).
THEOREM RevokingCovers == Spec => []RevokeAllCovers
<1>1. AdminInv => RevokeAllCovers
  BY DEF AdminInv
<1> QED
  BY <1>1, AdminInvariant, PTL

\* No request is read from a process that had been told it may not open a
\* session, for any number of connections to either socket
\* (_note_rejected_agent before _refuse_unattested, _admin_peer_denial).
THEOREM NoRefusedOperator == Spec => []RefusedIsNoOperator
<1>1. AdminInv => RefusedIsNoOperator
  BY DEF AdminInv
<1> QED
  BY <1>1, AdminInvariant, PTL
===============================================================================
