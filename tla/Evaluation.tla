----------------------------- MODULE Evaluation ------------------------------
(***************************************************************************)
(* One decision: PepRuntime.evaluate (pep/evaluate.py) on the envelope of  *)
(* a caller in the same process, and the reference host's _decide          *)
(* (pep/host/server.py) on the request of a session, up to the admission.  *)
(* The document of the policy in force is a parameter of the operators.    *)
(* What falls between the steps of a decision is the subject of PepGate    *)
(* and HostHalt; here a decision is one step, and its inputs are many.     *)
(***************************************************************************)
EXTENDS HostProtocol, Policy

CONSTANTS Policies,   \* policy documents
          Grants,     \* the approval store: a function from ids to records
          Registry,   \* tool names the host has a function for
          Questions,  \* calls and requests that may be asked
          Records,    \* token records
          Texts,      \* request texts, as sequences of characters
          Now         \* the host's clock

\* ReasonCode, the codes a decision denies with here; "raised" where the code
\* raises instead, "" for a text that is let through.
Reasons == {"envelope_invalid", "agent_prose_rejected", "suspend_active", "kill_active",
            "policy_miss", "unknown_tool", "tool_not_allowlisted_and_no_capability",
            "capability_missing", "approval_invalid", "approval_principal_mismatch",
            "approval_revoked", "approval_consumed", "approval_expired",
            "approval_binding_mismatch", "approval_state_mismatch", "raised", ""}
Details == {"", "no attested principal", "not valid for this caller", "no usable expiry",
            "expired", "TypeError", "does not cover tool", "does not match tool"}

\* An object is its keys and their values.
IsValue(v) == v.type = "object" => v = Object([key \in Keys(v) |-> v.at[key]])

\* Clocks are integers (pep/approval.py, pep/evaluate.py), a session's principal
\* and the host's own request ids are well formed (_admit, _request_id), and a
\* text is its characters.
ASSUME EvaluationAssumption ==
    /\ None \notin Reasons \cup (Reasons \X Details)
    /\ Now \in Nat /\ {"host.1.1", "unspecified"} \subseteq RequestIds
    /\ IsFiniteSet(DOMAIN Grants)
    /\ \A g \in DOMAIN Grants : /\ Grants[g].expires \in Nat
                                /\ {Grants[g].revoked, Grants[g].consumed} \subseteq BOOLEAN
    /\ \A doc \in Policies :
          /\ doc = [loaded |-> doc.loaded, tools |-> doc.tools, tokens |-> doc.tokens]
          /\ doc.tokens # Malformed =>
                \A t \in DOMAIN doc.tokens : doc.tokens[t] # None =>
                    doc.tokens[t].expires \in Nat \cup {None, Malformed}
    /\ Texts \subseteq Seq(STRING) /\ MaxDepth \in Nat
    /\ \A q \in Questions :
          /\ q.kind \in {"library", "host"}
          /\ q.kind = "library" =>
                /\ IsValue(Get(q.raw, "args"))
                /\ Coerced(q.raw).type = "envelope" => Coerced(q.raw).envelope.prose \in BOOLEAN
          /\ q.kind = "host" => q.principal \in Identities /\ q.unchanged \in BOOLEAN

VARIABLES policy,     \* the policy in force
          question,   \* what is asked, or None before
          response    \* the reason it is denied with and a detail, or Allowed

vars == <<policy, question, response>>

Allowed == <<"allowed", "">>
Denied(reason) == <<reason, "">>

\* What a caller in the process asks: the envelope it brings, the principal it
\* attests (None, a text) and the mode the runtime is in.
Call(raw, principal, mode) ==
    [kind |-> "library", raw |-> raw, principal |-> principal, mode |-> mode]
\* What a session asks, and whether the policy file is still the one loaded.
Request(raw, principal, unchanged) ==
    [kind |-> "host", raw |-> raw, principal |-> principal, unchanged |-> unchanged]
\* What the scan of a text is asked.
Scan(text) == [kind |-> "text", text |-> text]

-----------------------------------------------------------------------------
(* The approval a decision spends.                                         *)

\* consume, but for the observers of PepGate: no implementation observer is given
\* here, and the state is the envelope's own.
ConsumeReason(env, principal) ==
    IF env.approval \notin DOMAIN Grants THEN "approval_invalid"
    ELSE LET grant == Grants[env.approval]
         IN FirstFailure(
              << [fails |-> principal # grant.principal \/ env.caller # principal,
                  reason |-> "approval_principal_mismatch"],
                 [fails |-> grant.revoked, reason |-> "approval_revoked"],
                 [fails |-> grant.consumed, reason |-> "approval_consumed"],
                 [fails |-> grant.expires <= Now, reason |-> "approval_expired"],
                 [fails |-> <<env.tool, env.args>> # grant.binding,
                  reason |-> "approval_binding_mismatch"],
                 [fails |-> grant.state \notin {None, env.state},
                  reason |-> "approval_state_mismatch"] >>)

-----------------------------------------------------------------------------
(* evaluate                                                                *)

\* Mutant: a caller with an approval is not asked for its token.
CredentialChecksEither(doc, env, principal) ==
    IF env.approval # None THEN None
    ELSE IF env.token \in {None, ""} THEN Denied("capability_missing")
    ELSE CapabilityDeny(doc, env, Now, principal)

\* The token, if there is one; without one there must be an approval.
CredentialChecks(doc, env, principal) ==
    IF env.token \notin {None, ""} THEN CapabilityDeny(doc, env, Now, principal)
    ELSE IF env.approval = None THEN Denied("capability_missing") ELSE None

\* The tool's entry in the catalogue.
CatalogReason(doc, env) ==
    IF env.tool \notin AllowedTools(doc)
    THEN IF env.token = None /\ env.approval = None
         THEN "tool_not_allowlisted_and_no_capability" ELSE "unknown_tool"
    ELSE IF doc.tools[env.tool] = Malformed THEN "policy_miss" ELSE None

ParsedResponse(doc, env, principal) ==
    LET denial == CredentialChecks(doc, env, principal)
    IN IF principal \notin Identities \cup {None} THEN Denied("envelope_invalid")
       ELSE IF ~doc.loaded THEN Denied("policy_miss")
       ELSE IF CatalogReason(doc, env) # None THEN Denied(CatalogReason(doc, env))
       ELSE IF denial # None THEN denial
       ELSE IF ~ArgsMatchSchema(env.args, doc.tools[env.tool].schema)
            THEN Denied("policy_miss")
       ELSE IF env.approval # None /\ ConsumeReason(env, principal) # None
            THEN Denied(ConsumeReason(env, principal))
       ELSE Allowed

\* The mode is asked before the envelope is looked at.
Evaluate(doc, raw, principal, mode) ==
    IF mode # "active" THEN Denied(IF mode = "suspended" THEN "suspend_active" ELSE "kill_active")
    ELSE IF ParseRefusal(raw) # None THEN Denied(ParseRefusal(raw))
    ELSE ParsedResponse(doc, Parse(raw), principal)

-----------------------------------------------------------------------------
(* _decide                                                                 *)

\* _select_approval: the session's grants for exactly this call.
Matching(principal, tool, args) ==
    {g \in DOMAIN Grants : /\ Grants[g].principal = principal /\ ~Grants[g].consumed
                           /\ Grants[g].binding = <<tool, args>>}
Usable(gs) == {g \in gs : ~Grants[g].revoked /\ Grants[g].expires > Now}
Unrevoked(gs) == {g \in gs : ~Grants[g].revoked}

\* The grant the internal envelope names: the usable one, or an expired one for
\* the library to refuse.
Selected(gs) == IF Usable(gs) # {} THEN CHOOSE g \in Usable(gs) : TRUE
                ELSE IF Unrevoked(gs) # {} THEN CHOOSE g \in Unrevoked(gs) : TRUE ELSE None

Decide(doc, raw, principal, unchanged) ==
    LET body == HostBody(raw)
        tool == Get(body, "tool_name").text
        args == Get(body, "args")
        gs == Matching(principal, tool, args)
    IN IF HostRefusal(raw) # None THEN Denied(HostRefusal(raw))
       ELSE IF ~unchanged THEN Denied("policy_miss")
       ELSE IF tool \notin Registry THEN Denied("unknown_tool")
       ELSE IF UnknownArgKeys(doc, tool, args) # {} THEN Denied("envelope_invalid")
       ELSE IF Cardinality(Usable(gs)) > 1 THEN Denied("approval_invalid")
       ELSE IF Unrevoked(gs) = {} /\ gs # {} THEN Denied("approval_revoked")
       ELSE Evaluate(doc, InternalEnvelope(raw, principal, Selected(gs)), principal, "active")

-----------------------------------------------------------------------------
Init == /\ policy \in Policies
        /\ question = None /\ response = None

\* Somebody asks something, once.
Ask == /\ question = None
       /\ question' \in Questions \cup {Scan(text) : text \in Texts}
       /\ UNCHANGED <<policy, response>>

Asked(kind) == question # None /\ question.kind = kind
Respond(answer) == /\ response = None
                   /\ response' = answer
                   /\ UNCHANGED <<policy, question>>

AnswerCall == /\ Asked("library")
              /\ Respond(Evaluate(policy, question.raw, question.principal, question.mode))
AnswerRequest == /\ Asked("host")
                 /\ Respond(Decide(policy, question.raw, question.principal, question.unchanged))
ScanText == /\ Asked("text")
            /\ Respond(Denied(IF NestingExceeds(question.text, MaxDepth)
                              THEN "envelope_invalid" ELSE ""))

Next == Ask \/ AnswerCall \/ AnswerRequest \/ ScanText
Spec == Init /\ [][Next]_vars

-----------------------------------------------------------------------------
(* Properties.                                                             *)

Answered(kind) == Asked(kind) /\ response # None

\* The policy with another record for a token, or without one.
WithRecord(doc, token, record) ==
    [doc EXCEPT !.tokens = [t \in (DOMAIN doc.tokens \cup {token})
                                  \ (IF record = None THEN {token} ELSE {}) |->
                               IF t = token THEN record ELSE doc.tokens[t]]]

(***************************************************************************)
(* ADR-0003: a caller that is not a holder learns nothing from the         *)
(* response.  Whatever the token's record says, or if there is none, as    *)
(* long as the caller does not hold the token it is told the same.         *)
(***************************************************************************)
NonHolderLearnsNothing ==
    Answered("library") /\ policy.tokens # Malformed /\ ParseRefusal(question.raw) = None =>
        LET env == Parse(question.raw)
            Outsider(record) == \/ question.principal \notin Holders(record)
                                \/ env.caller # question.principal
        IN Outsider(Capability(policy, env.token)) =>
               \A record \in Records \cup {None} :
                   Outsider(record) =>
                       response = Evaluate(WithRecord(policy, env.token, record), question.raw,
                                           question.principal, question.mode)

\* What a token and a grant have to be for this call, whoever checks it.
TokenHolds(doc, env, principal) ==
    LET record == Capability(doc, env.token)
    IN /\ record # None /\ principal \in Holders(record) /\ env.caller = principal
       /\ record.expires \in Nat /\ record.expires > Now
       /\ env.tool \in record.tools
       /\ doc.tools[env.tool].required \in {None, env.token}
GrantHolds(grant, env, principal) ==
    /\ grant.principal = principal /\ env.caller = principal
    /\ ~grant.revoked /\ ~grant.consumed /\ grant.expires > Now
    /\ grant.binding = <<env.tool, env.args>>
    /\ grant.state \in {None, env.state}

(***************************************************************************)
(* ADR-0001: a presented grant must hold.  A call is allowed only if it    *)
(* brings a credential and every one it brings holds, and then its tool is *)
(* in the catalogue; a session's request only through the one usable grant *)
(* for its tool and arguments.                                             *)
(***************************************************************************)
AllowIsEarned ==
    /\ Answered("library") /\ response = Allowed =>
           LET env == Parse(question.raw)
           IN /\ question.mode = "active" /\ env.tool \in AllowedTools(policy)
              /\ {env.token, env.approval} \cap (DOMAIN policy.tokens \cup DOMAIN Grants) # {}
              /\ env.token \notin {None, ""} => TokenHolds(policy, env, question.principal)
              /\ env.approval # None => /\ env.approval \in DOMAIN Grants
                                        /\ GrantHolds(Grants[env.approval], env, question.principal)
    /\ Answered("host") /\ response = Allowed =>
           LET body == HostBody(question.raw)
               env == [tool |-> body.at["tool_name"].text, args |-> body.at["args"],
                       caller |-> question.principal, state |-> None]
           IN /\ question.unchanged /\ env.tool \in Registry
              /\ \E g \in DOMAIN Grants :
                     {h \in DOMAIN Grants : GrantHolds(Grants[h], env, question.principal)} = {g}

\* The lab form of a flat envelope.
LabForm(raw) ==
    LET args == Get(raw, "args")
        carried == (Keys(raw) \cap Credentials) \cup (Keys(args) \cap ArgFields)
        fields == Object([key \in carried |->
                             IF key \in Credentials THEN raw.at[key] ELSE args.at[key]])
        invoke == [key \in InvokeKeys \ ({"argv"} \ Keys(args)) |->
                      CASE key = "tool_name" -> Get(raw, "tool_name")
                        [] key = "argv" -> args.at["argv"]
                        [] key = "schema_fields" -> fields]
    IN Object([key \in {"caller", "invoke"} |->
                  IF key = "invoke" THEN Object(invoke)
                  ELSE Object([k \in {"identity"} |-> Get(raw, "caller_identity")])])

(***************************************************************************)
(* The form does not matter.  A flat envelope that is allowed is allowed   *)
(* as the text of it, as an envelope parsed before, and in the lab form if *)
(* that has a place for its arguments; and a lab form that is allowed is   *)
(* allowed as a flat envelope.                                             *)
(***************************************************************************)
FormsAgree ==
    Answered("library") /\ question.raw.type = "object" /\ "invoke" \notin Keys(question.raw) =>
        LET raw == question.raw
            args == Get(raw, "args")
            Told(form) == Evaluate(policy, form, question.principal, question.mode)
            fits == /\ Keys(args) \subseteq ArgFields \cup {"argv"}
                    /\ "argv" \in Keys(args) => args.at["argv"].type = "array"
        IN /\ response = Told(Encoded("text", raw)) /\ response = Told(Encoded("bytes", raw))
           /\ response = Allowed => /\ Told(Ready(Parse(raw), RequestId(raw, "request_id"))) = Allowed
                                    /\ fits => Told(LabForm(raw)) = Allowed
           /\ /\ Told(LabForm(raw)) = Allowed /\ FlatRefusal(raw) = None
              /\ Keys(args) \subseteq ArgFields \cup {"argv"}
              => response = Allowed

(***************************************************************************)
(* The two parsers agree: of the envelope the host builds from a request   *)
(* it accepted, the library's parser refuses nothing but a policy-coax key *)
(* among the arguments.                                                    *)
(***************************************************************************)
HostAcceptsWhatParses ==
    Answered("host") /\ HostRefusal(question.raw) = None =>
        \A approval \in DOMAIN Grants \cup {None} :
            LET envelope == InternalEnvelope(question.raw, question.principal, approval)
            IN ParseRefusal(envelope) =
                   IF Keys(Get(envelope, "args")) \cap CoaxKeys # {}
                   THEN "agent_prose_rejected" ELSE None

\* After how many characters the text is inside a string: a quotation mark
\* counts unless an odd number of backslashes in a string precedes it.
Slashes(text, i) == {j \in 1..i : \A k \in j..i : text[k] = "\\"}
Inside(text) ==
    LET inside[i \in 0..Len(text)] ==
            IF i = 0 THEN FALSE
            ELSE IF text[i] # "\"" THEN inside[i - 1]
            ELSE (inside[i - 1] /\ Cardinality(Slashes(text, i - 1)) % 2 = 1) \/ ~inside[i - 1]
    IN inside

\* How many of these characters the text has from i to j, strings left out.
Among(text, chars, i, j) ==
    Cardinality({k \in i..j : ~Inside(text)[k - 1] /\ text[k] \in chars})

(***************************************************************************)
(* The scan refuses a text exactly when somewhere in it, strings left out, *)
(* more brackets open than close, by more than the limit: the nesting the  *)
(* recursion of json.loads would reach (_nesting_exceeds).                 *)
(***************************************************************************)
NestingIsCounted ==
    Answered("text") =>
        LET text == question.text
        IN (response = Denied("envelope_invalid")) =
           \E i, j \in 1..Len(text) :
               Among(text, Opening, i, j) - Among(text, Closing, i, j) > MaxDepth

-----------------------------------------------------------------------------
\* The inductive invariant: an answer is the answer to what was asked.
EvaluationInv ==
    /\ policy \in Policies
    /\ question = None => response = None
    /\ Asked("library") \/ Asked("host") => question \in Questions
    /\ Asked("text") => question.text \in Texts
    /\ Answered("library") =>
           response = Evaluate(policy, question.raw, question.principal, question.mode)
    /\ Answered("host") =>
           response = Decide(policy, question.raw, question.principal, question.unchanged)
    /\ Answered("text") =>
           response = Denied(IF NestingExceeds(question.text, MaxDepth)
                             THEN "envelope_invalid" ELSE "")
=============================================================================
