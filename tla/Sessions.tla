------------------------------- MODULE Sessions -------------------------------
(***************************************************************************)
(* The served connections of the reference host and the lines they leave   *)
(* in its decision log (pep/host/server.py), the agent's held connection   *)
(* at the other end (AgentConnection in pep/host/client.py), and the       *)
(* verdicts of Claims on what that agent may say.                          *)
(*                                                                         *)
(* An action is one critical section, one append or one message.  What     *)
(* decides a call is a choice here (Evaluation, PepGate, AdminSocket), an  *)
(* append what DecisionLog promises, a tool what Serving promises, and     *)
(* whether the denial window writes a denial a choice (DenialLog).         *)
(***************************************************************************)
EXTENDS Claims

CONSTANTS Tools, Digests,
          Lives,            \* the starts of the host; of each, how many connections
                            \* it accepts and requests and timeouts it numbers
          MaxFailures,      \* appends that fail
          MaxLines          \* lines appended

Conns == UNION {1 .. Lives[i].connections : i \in DOMAIN Lives}

\* Why a call is denied, as far as the properties tell reasons apart.
Reasons == {"unread", "denied", "timeout", "append_failed", "unrecorded",
            "halted_late", "tool_failed"}

ASSUME SessionsAssumption ==
    /\ Lives \in Seq([connections : Nat, requests : Nat])
    /\ MaxFailures \in Nat /\ MaxLines \in Nat
    /\ None \notin Tools \cup Digests \cup Reasons /\ None \notin Conns \X Nat
    /\ {Unencodable, Cut} \cap (Digests \cup {None}) = {}
    /\ Tools \cap {"none", "free", "closed"} = {}

VARIABLES
    life,            \* the number of this start (history: no code reads it)
    nextConnection, nextRequest,
    halted,          \* _sticky_halt, or a halt file that is not active
    seq, log, buffer,    \* DecisionLog: its counter, its lines, its unwritten rest
    pc, cur,         \* a connection thread, and the request it decides
    inbox, outbox,   \* the socket of a connection
    client, calls, last, \* AgentConnection: its state, calls made, last id seen
    failures,
    called, returned, told   \* histories

hostVars == <<nextConnection, nextRequest, halted>>
logVars == <<seq, log, buffer, failures>>
clientVars == <<client, calls, last>>
history == <<called, returned, told>>
vars == <<life, hostVars, logVars, pc, cur, inbox, outbox, clientVars, history>>

NoRequest == [request |-> <<0, 0>>, tag |-> 0, tool |-> None, asked |-> None,
              result |-> None, reason |-> None]

Init ==
    /\ life = 1 /\ nextConnection = 0 /\ nextRequest = 0
    /\ halted = FALSE
    /\ seq = 0 /\ log = <<>> /\ buffer = <<>> /\ failures = 0
    /\ pc = [c \in Conns |-> "none"]
    /\ cur = [c \in Conns |-> NoRequest]
    /\ inbox = [c \in Conns |-> NoRequest]
    /\ outbox = [c \in Conns |-> <<>>]
    /\ client = [c \in Conns |-> "none"]
    /\ calls = [c \in Conns |-> 0]
    /\ last = [c \in Conns |-> 0]
    /\ called = {} /\ returned = {} /\ told = {}

-----------------------------------------------------------------------------
(* Appends.  A line that fails is in the file or in the buffer, and its    *)
(* number is taken back; the next append writes the buffer first.          *)

Line(decision, session, request, tool) ==
    [seq |-> seq + 1, decision |-> decision, session |-> session,
     request |-> request, tool |-> tool, reason |-> None, check |-> None,
     result |-> None, life |-> life]

Wrote(line) ==
    /\ seq < MaxLines
    /\ log' = log \o Append(buffer, line)
    /\ buffer' = <<>>
    /\ seq' = seq + 1
    /\ UNCHANGED <<failures, halted>>

NotWritten(line) ==
    /\ failures < MaxFailures /\ seq < MaxLines
    /\ failures' = failures + 1
    /\ \E n \in 0 .. Len(buffer) + 1 :
           /\ log' = log \o SubSeq(Append(buffer, line), 1, n)
           /\ buffer' = SubSeq(Append(buffer, line), n + 1, Len(buffer) + 1)
    /\ halted' = TRUE
    /\ UNCHANGED seq

Marker(c, decision) == Line(decision, c, <<c, 0>>, None)

\* Mutant: an over-long line loses the tool as well.
BoundNothingKept(line) ==
    {line, [line EXCEPT !.tool = None, !.check = None, !.result = None]}

\* An over-long line loses its digest, or every check.
BoundRecord(line) ==
    {line, [line EXCEPT !.check = None, !.result = None],
     [line EXCEPT !.result = IF @ \in Digests THEN Cut ELSE @]}

-----------------------------------------------------------------------------
(* Replies.  A reply the peer does not take closes the connection.         *)

Deny(c, reason) ==
    [answers |-> cur[c].tag, request |-> cur[c].request, decision |-> "DENY",
     reason |-> reason, digest |-> None]

\* The thread sends m and goes on to `next`.
SendLine(c, m, next) ==
    /\ cur' = [cur EXCEPT ![c] = NoRequest]
    /\ IF client[c] = "closed"
       THEN pc' = [pc EXCEPT ![c] = "closing"] /\ UNCHANGED outbox
       ELSE /\ pc' = [pc EXCEPT ![c] = next]
            /\ outbox' = [outbox EXCEPT ![c] = Append(@, m)]

\* After a reply the thread reads on, or ends if the reply said it closes.
AfterReply(c) == IF cur[c].reason = "timeout" THEN "closing" ELSE "reading"

\* Append the line and send m, or send that the append failed.
Answer(c, line, m) ==
    \/ Wrote(line) /\ SendLine(c, m, AfterReply(c))
    \/ NotWritten(line) /\ SendLine(c, Deny(c, "append_failed"), AfterReply(c))

-----------------------------------------------------------------------------
(* A served connection.                                                    *)

\* _serve_connection and open_session: the peer is attested, the next
\* connection id names the principal.
Open(c) ==
    /\ pc[c] = "none"
    /\ c = nextConnection + 1 /\ c <= Lives[life].connections
    /\ nextConnection' = c
    /\ pc' = [pc EXCEPT ![c] = "opening"]
    /\ client' = [client EXCEPT ![c] = "free"]
    /\ UNCHANGED <<life, nextRequest, halted, logVars, cur, inbox,
                   outbox, calls, last, history>>

\* _mark_session: no line, no service; that reply carries no request id.
MarkOpen(c) ==
    /\ pc[c] = "opening"
    /\ LET line == Marker(c, "SESSION_OPEN")
       IN \/ /\ Wrote(line)
             /\ pc' = [pc EXCEPT ![c] = "reading"]
             /\ UNCHANGED outbox
          \/ /\ NotWritten(line)
             /\ pc' = [pc EXCEPT ![c] = "gone"]
             /\ outbox' = [outbox EXCEPT ![c] =
                    Append(@, [Deny(c, "unrecorded") EXCEPT !.request = None])]
    /\ UNCHANGED <<life, nextConnection, nextRequest, cur,
                   inbox, clientVars, history>>

\* handle_request up to begin_invoke.  A denial for a halt, or of a request
\* that does not parse, is decided with the request unread: its line names no
\* tool.  Every other denial does.
Decide(c) ==
    /\ pc[c] = "reading" /\ inbox[c] # NoRequest
    /\ nextRequest < Lives[life].requests
    /\ nextRequest' = nextRequest + 1
    /\ inbox' = [inbox EXCEPT ![c] = NoRequest]
    /\ \E denial \in {"unread", "denied", None} :
           /\ halted => denial = "unread"
           /\ cur' = [cur EXCEPT ![c] =
                 [inbox[c] EXCEPT
                     !.request = <<c, nextRequest + 1>>,
                     !.tool = IF denial = "unread" THEN None ELSE inbox[c].asked,
                     !.reason = denial]]
           /\ pc' = [pc EXCEPT ![c] = IF denial = None THEN "admitted" ELSE "denying"]
    /\ UNCHANGED <<life, nextConnection, halted, logVars, outbox,
                   clientVars, history>>

\* _logged: a denial may be held for its window instead of written.
Logged(c) ==
    /\ pc[c] = "denying"
    /\ LET m == Deny(c, cur[c].reason)
       IN \/ Answer(c, Line("DENY", c, cur[c].request, cur[c].tool), m)
          \/ SendLine(c, m, AfterReply(c)) /\ UNCHANGED <<logVars, halted>>
    /\ UNCHANGED <<life, nextConnection, nextRequest, inbox,
                   clientVars, history>>

\* The PRE_ENTRY line, without which no tool is entered.
PreEntry(c) ==
    /\ pc[c] = "admitted"
    /\ LET line == Line("PRE_ENTRY", c, cur[c].request, cur[c].tool)
       IN \/ /\ Wrote(line)
             /\ pc' = [pc EXCEPT ![c] = "recorded"]
             /\ UNCHANGED <<cur, outbox>>
          \/ NotWritten(line) /\ SendLine(c, Deny(c, "append_failed"), "reading")
    /\ UNCHANGED <<life, nextConnection, nextRequest, inbox,
                   clientVars, history>>

\* The second look at the halt, then complete_invoke.  The entry may be
\* refused, and a call that ends without a result may have run the tool.
Complete(c) ==
    /\ pc[c] = "recorded"
    /\ LET fails(reason) == /\ cur' = [cur EXCEPT ![c].reason = reason]
                            /\ pc' = [pc EXCEPT ![c] = "failing"]
           runs == called' = called \cup {<<c, cur[c].tool>>}
       IN \/ halted /\ fails("halted_late") /\ UNCHANGED <<called, returned>>
          \/ ~halted /\ fails("tool_failed") /\ UNCHANGED returned
             /\ (runs \/ UNCHANGED called)
          \/ /\ ~halted
             /\ runs
             /\ \E result \in Digests \cup {Unencodable} :
                    /\ cur' = [cur EXCEPT ![c].result = result]
                    /\ returned' = returned \cup
                           {[life |-> life, request |-> cur[c].request,
                             tool |-> cur[c].tool, result |-> result]}
             /\ pc' = [pc EXCEPT ![c] = "returned"]
    /\ UNCHANGED <<life, hostVars, logVars, inbox, outbox,
                   clientVars, told>>

\* _record: the outcome of an admitted call is never coalesced.
Record(c) ==
    /\ pc[c] = "failing"
    /\ \E line \in BoundRecord(
              [Line("DENY", c, cur[c].request, cur[c].tool) EXCEPT
                  !.reason = cur[c].reason,
                  !.check = IF cur[c].reason = "tool_failed" THEN "raised" ELSE None]) :
           Answer(c, line, Deny(c, cur[c].reason))
    /\ UNCHANGED <<life, nextConnection, nextRequest, inbox,
                   clientVars, history>>

\* The ALLOW line with the digest the host observed, then the reply with it.
Allow(c) ==
    /\ pc[c] = "returned"
    /\ \E line \in BoundRecord(
              [Line("ALLOW", c, cur[c].request, cur[c].tool) EXCEPT
                  !.check = "entered", !.result = cur[c].result]) :
           Answer(c, line,
                  [Deny(c, None) EXCEPT
                      !.decision = "ALLOW",
                      !.digest = IF cur[c].result \in Digests THEN cur[c].result ELSE None])
    /\ UNCHANGED <<life, nextConnection, nextRequest, inbox,
                   clientVars, history>>

\* The idle timeout or the connection deadline passes: a denial nobody asked
\* for, and the connection ends.
TimeOut(c) ==
    /\ pc[c] = "reading"
    /\ nextRequest < Lives[life].requests
    /\ nextRequest' = nextRequest + 1
    /\ cur' = [cur EXCEPT ![c] = [NoRequest EXCEPT
                   !.request = <<c, nextRequest + 1>>, !.reason = "timeout"]]
    /\ pc' = [pc EXCEPT ![c] = "denying"]
    /\ UNCHANGED <<life, nextConnection, halted, logVars, inbox,
                   outbox, clientVars, history>>

\* The agent closed its end and left nothing to read.
EndOfInput(c) ==
    /\ pc[c] = "reading" /\ client[c] = "closed" /\ inbox[c] = NoRequest
    /\ pc' = [pc EXCEPT ![c] = "closing"]
    /\ UNCHANGED <<life, hostVars, logVars, cur, inbox, outbox,
                   clientVars, history>>

\* The session is dropped and the socket closed, with or without the line.
MarkClose(c) ==
    /\ pc[c] = "closing"
    /\ LET line == Marker(c, "SESSION_CLOSE") IN Wrote(line) \/ NotWritten(line)
    /\ pc' = [pc EXCEPT ![c] = "gone"]
    /\ UNCHANGED <<life, nextConnection, nextRequest, cur, inbox,
                   outbox, clientVars, history>>

-----------------------------------------------------------------------------
(* The agent's end of the connection: one call at a time under a lock.     *)

HostClosed(c) == pc[c] \in {"gone", "none"}

\* call(): the request is sent whole, unless the host closed its end.
Call(c, tool) ==
    /\ client[c] = "free" /\ ~HostClosed(c)
    /\ calls[c] < Lives[life].requests
    /\ inbox[c] = NoRequest
    /\ calls' = [calls EXCEPT ![c] = @ + 1]
    /\ inbox' = [inbox EXCEPT ![c] =
                    [NoRequest EXCEPT !.tag = calls[c] + 1, !.asked = tool]]
    /\ client' = [client EXCEPT ![c] = tool]
    /\ UNCHANGED <<life, hostVars, logVars, pc, cur, outbox, last,
                   history>>

\* _check_request_id: the id names this connection and rises.
IdFits(c, m) == m.request # None /\ m.request[1] = c /\ m.request[2] > last[c]

\* _read_line and what call() makes of it: a reply that cannot be this call's
\* closes the connection.
ReadReply(c) ==
    /\ client[c] \in Tools /\ outbox[c] # <<>>
    /\ LET m == Head(outbox[c])
       IN /\ outbox' = [outbox EXCEPT ![c] = Tail(@)]
          /\ IF IdFits(c, m)
             THEN /\ client' = [client EXCEPT ![c] = "free"]
                  /\ last' = [last EXCEPT ![c] = m.request[2]]
                  /\ told' = told \cup
                        {[life |-> life, conn |-> c, tool |-> client[c],
                          tag |-> calls[c], answers |-> m.answers,
                          request |-> m.request, decision |-> m.decision,
                          reason |-> m.reason, digest |-> m.digest]}
             ELSE /\ client' = [client EXCEPT ![c] = "closed"]
                  /\ UNCHANGED <<last, told>>
    /\ UNCHANGED <<life, hostVars, logVars, pc, cur, inbox, calls,
                   called, returned>>

\* Mutant: a call that gave up waiting leaves the connection in use.
GiveUpOnly(c) ==
    /\ client[c] \in Tools \cup {"free"}
    /\ client' = [client EXCEPT ![c] = "free"]
    /\ UNCHANGED <<life, hostVars, logVars, pc, cur, inbox, outbox, calls, last, history>>

\* The reply does not come in time, the host closed the connection, or the
\* agent is done with it: the connection is not used again.
CloseLocked(c) ==
    /\ client[c] \in Tools \cup {"free"}
    /\ client' = [client EXCEPT ![c] = "closed"]
    /\ outbox' = [outbox EXCEPT ![c] = <<>>]
    /\ UNCHANGED <<life, hostVars, logVars, pc, cur, inbox, calls, last,
                   history>>

-----------------------------------------------------------------------------
(* The operator and power.                                                 *)

\* The gate halts, or the halt file is edited or lost.
Halt ==
    /\ ~halted
    /\ halted' = TRUE
    /\ UNCHANGED <<life, nextConnection, nextRequest, logVars, pc, cur, inbox,
                   outbox, clientVars, history>>

\* The host ends, at any point, and starts again: connection and request
\* numbers begin anew, seq continues from the lines it counts.  What the
\* buffer held is lost from some point on; a halt may be in the file.
Restart ==
    /\ life < Len(Lives)
    /\ life' = life + 1
    /\ nextConnection' = 0 /\ nextRequest' = 0 /\ halted' \in {FALSE, halted}
    /\ \E n \in 0 .. Len(buffer) : log' = log \o SubSeq(buffer, 1, n)
    /\ seq' = Len(log') /\ buffer' = <<>>
    /\ pc' = [c \in Conns |-> "none"] /\ cur' = [c \in Conns |-> NoRequest]
    /\ inbox' = [c \in Conns |-> NoRequest] /\ outbox' = [c \in Conns |-> <<>>]
    /\ client' = [c \in Conns |-> "none"] /\ calls' = [c \in Conns |-> 0]
    /\ last' = [c \in Conns |-> 0]
    /\ UNCHANGED <<failures, history>>

Next ==
    \/ \E c \in Conns :
           \/ Open(c) \/ MarkOpen(c) \/ Decide(c) \/ Logged(c) \/ PreEntry(c)
           \/ Complete(c) \/ Record(c) \/ Allow(c) \/ TimeOut(c) \/ EndOfInput(c)
           \/ MarkClose(c)
           \/ \E tool \in Tools : Call(c, tool)
           \/ ReadReply(c) \/ CloseLocked(c)
    \/ Halt \/ Restart

Spec == Init /\ [][Next]_vars

-----------------------------------------------------------------------------
(* Claims a connected agent may make, and what is true of them.            *)

Body(kind, tool, outcome) ==
    [extra |-> FALSE, schema |-> TRUE, kind |-> kind, tool |-> tool,
     outcome |-> outcome, request |-> None, digest |-> None, session |-> Absent]

\* verify_agent_claim
AgentVerdict(c, raw) == VerifyConnectedClaim(raw, c, log).verdict

\* A "consistent" verdict on not_called means that no session of that name
\* ever ran the tool, whatever session the body names, through failed appends,
\* other connections' lines and a restart that gives names out again
\* (verify_agent_claim, _mark_session, the PRE_ENTRY line before the tool).
ConsistentAbsenceIsTrue ==
    \A c \in Conns, tool \in Tools, s \in Conns :
        AgentVerdict(c, [Body("absence", tool, "not_called") EXCEPT !.session = s])
            = "consistent"
        => <<c, tool>> \notin called

\* The lives whose lines carry a request id: a restart numbers anew.
LivesOf(r) == {log[i].life : i \in {k \in DOMAIN log : log[k].request = r}}

\* A "consistent" verdict on an action means what it says: the tool returned
\* under that id, with that digest, or returned nothing under it (_decide
\* writes the ALLOW after the tool and answers after the line).
ConsistentActionIsTrue ==
    \A r \in {log[i].request : i \in DOMAIN log}, tool \in Tools, digest \in Digests \cup {None},
       outcome \in {"allowed", "denied"} :
        (/\ Cardinality(LivesOf(r)) = 1
         /\ AgentVerdict(r[1], [Body("action", tool, outcome) EXCEPT
                                   !.request = r, !.digest = digest]) = "consistent")
        => LET done == {x \in returned : x.life \in LivesOf(r) /\ x.request = r}
           IN IF outcome = "denied" THEN done = {}
              ELSE \E x \in done : x.tool = tool /\ (digest = None \/ x.result = digest)

\* The claim of an agent that reports the reply it was given.
HonestClaim(h) ==
    [Body("action", h.tool, IF h.decision = "ALLOW" THEN "allowed" ELSE "denied")
        EXCEPT !.request = h.request, !.digest = h.digest]

\* The denials whose line names no tool, and those whose line may be there
\* although the append failed.
RecordDiffers == {"unread", "timeout", "append_failed"}

\* An agent that repeats what it was told is not contradicted, except where
\* the host's line differs from its reply: RecordDiffers, or a request id of
\* two lives (the order of append and reply in _decide, _record, _logged).
HonestClaimStands ==
    \A h \in told :
        (h.reason \notin RecordDiffers /\ LivesOf(h.request) \subseteq {h.life})
        => AgentVerdict(h.conn, HonestClaim(h)) # "contradicted"

\* "A lock holds each request and its reply line together, so one caller
\* cannot read another caller's reply" (client.py): a reply is its call's, or
\* the denial that ends the connection; and this host never sends a held
\* connection an id that makes the client give it up.
ReplyIsOwn ==
    /\ \A h \in told : \/ h.answers = h.tag
                       \/ h.answers = 0 /\ h.decision = "DENY"
    /\ \A c \in Conns : (client[c] \in Tools /\ outbox[c] # <<>>)
           => LET m == Head(outbox[c]) IN IdFits(c, m) \/ m.reason = "unrecorded"
===============================================================================
