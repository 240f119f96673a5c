---------------------------- MODULE MCAdminSocket -----------------------------
(* Small instances of AdminSocket. *)
EXTENDS AdminSocket, TLC

CONSTANTS p1, p2, c1, m1, m2, t1, g1, g2

\* An agent of the allow lists, and a process of the host's own user.
TwoPeers == {[uid |-> "agent", gid |-> "agents"], [uid |-> "host", gid |-> "agents"]}

AgentLists == [uids : {None, {}, {"agent"}, {"host"}}, gids : {None, {}, {"agents"}}]
===============================================================================
