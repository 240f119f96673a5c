---------------------------- MODULE HostProtocol -----------------------------
(***************************************************************************)
(* What the reference host takes for a request (pep/host/protocol.py): one *)
(* JSON object with a tool name and arguments, in at most MaxBytes bytes   *)
(* nested at most MaxDepth deep; and the envelope the host builds from it  *)
(* (_internal_envelope of pep/host/server.py).                             *)
(*                                                                         *)
(* The scan for the nesting works on characters, so a text is a sequence   *)
(* of characters there.  For what follows, a request is what its text      *)
(* decodes to, with the length and the nesting the text has.               *)
(***************************************************************************)
EXTENDS Envelope

CONSTANTS MaxBytes, MaxDepth,
          Oversized     \* objects whose JSON text, escapes and all, is longer than MaxBytes

-----------------------------------------------------------------------------
(* _nesting_exceeds: the parser's recursion is bounded before it runs.     *)

Opening == {"[", "{"}
Closing == {"]", "}"}
Start == [depth |-> 0, inString |-> FALSE, escape |-> FALSE, exceeds |-> FALSE]

\* Mutant: every quotation mark ends a string, an escaped one as well.
ReadNoEscape(scan, char, limit) ==
    LET depth == scan.depth + (IF char \in Opening THEN 1 ELSE 0)
                            - (IF char \in Closing /\ scan.depth > 0 THEN 1 ELSE 0)
    IN IF char = "\"" THEN [scan EXCEPT !.inString = ~scan.inString]
       ELSE IF scan.inString THEN scan
       ELSE [scan EXCEPT !.depth = depth, !.exceeds = scan.exceeds \/ depth > limit]

\* One character.  The code returns at the first depth over the limit.
Read(scan, char, limit) ==
    LET depth == scan.depth + (IF char \in Opening THEN 1 ELSE 0)
                            - (IF char \in Closing /\ scan.depth > 0 THEN 1 ELSE 0)
    IN IF scan.inString
       THEN [scan EXCEPT !.escape = ~scan.escape /\ char = "\\",
                         !.inString = scan.escape \/ char # "\""]
       ELSE [scan EXCEPT !.inString = char = "\"", !.depth = depth,
                         !.exceeds = scan.exceeds \/ depth > limit]

\* The scan after each character.
Scanned(text, limit) ==
    LET scan[i \in 0..Len(text)] ==
            IF i = 0 THEN Start ELSE Read(scan[i - 1], text[i], limit)
    IN scan

NestingExceeds(text, limit) == Scanned(text, limit)[Len(text)].exceeds

-----------------------------------------------------------------------------
(* A request.                                                              *)

HostKeys == {"args", "tool_name"}

\* The text of a request: its length, its deepest nesting, whether an object
\* in it has a key twice, and the value it decodes to; or a mapping of a caller
\* in the same process, which is copied and not decoded.
Sent(bytes, depth, twice, body) ==
    [type |-> "text", bytes |-> bytes, depth |-> depth, twice |-> twice, body |-> body]

\* parse_host_request, _decode_json and _reject_duplicate_keys
DecodeChecks(request) ==
    Invalid(request.type \notin {"text", "object"})
    \o Invalid(request.type = "text" /\ \/ request.bytes > MaxBytes
                                        \/ request.body.type \in {"broken", "empty"}
                                        \/ request.depth > MaxDepth
                                        \/ request.twice)

HostBody(request) == IF request.type = "text" THEN request.body ELSE request

\* Mutant: the arguments are not encoded before they are used.
HostRefusalUnencoded(request) ==
    LET body == HostBody(request) IN
    IF FirstFailure(DecodeChecks(request)) # None THEN FirstFailure(DecodeChecks(request))
    ELSE FirstFailure(
        Invalid(body.type # "object") \o KeyChecks(body, HostKeys)
        \o Invalid(~IsTextIn(Get(body, "tool_name"), ToolNames))
        \o Invalid(Get(body, "args").type # "object"))

\* _interpret: no key but the two, a name, and arguments that encode, within
\* the limit once more: a text may be shorter than what encodes its value.
HostRefusal(request) ==
    LET body == HostBody(request) IN
    IF FirstFailure(DecodeChecks(request)) # None THEN FirstFailure(DecodeChecks(request))
    ELSE FirstFailure(
        Invalid(body.type # "object") \o KeyChecks(body, HostKeys)
        \o Invalid(~IsTextIn(Get(body, "tool_name"), ToolNames))
        \o Invalid(Get(body, "args").type # "object") \o ArgsChecks(Get(body, "args"))
        \o Invalid(Get(body, "args") \in Oversized))

\* _internal_envelope: the agent's two values, no token, the grant the host
\* selected and the session's own principal.
InternalEnvelope(request, principal, approval) ==
    LET body == HostBody(request)
    IN Object([key \in FlatKeys \ {"metadata", "untrusted_agent_text", "state_digest"} |->
                  CASE key \in HostKeys -> Get(body, key)
                    [] key = "capability_token" -> Null
                    [] key = "approval_id" -> IF approval = None THEN Null ELSE Text(approval)
                    [] key = "caller_identity" -> Text(principal)
                    [] key = "request_id" -> Text("host.1.1")])
=============================================================================
