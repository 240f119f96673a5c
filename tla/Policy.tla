------------------------------- MODULE Policy --------------------------------
(***************************************************************************)
(* The static policy (pep/policy.py): its catalogue of tools with their    *)
(* schemas, and its capability tokens; and who may present a token         *)
(* (_capability_deny of pep/evaluate.py).                                  *)
(*                                                                         *)
(* A policy is a record; a member the document lacks is None and one of    *)
(* the wrong JSON type is Malformed; loaded says that the document is not  *)
(* empty.                                                                  *)
(***************************************************************************)
EXTENDS Envelope

CONSTANT Malformed

\* A tool: required_capability and args_schema.
ToolSpec(required, schema) == [required |-> required, schema |-> schema]

\* An object schema: additionalProperties is not False, the required keys, and
\* its properties with the type each states, None where it states none.
ObjectSchema(open, required, properties) ==
    [open |-> open, required |-> required, properties |-> properties]

\* A capability token's record.  Of tools it keeps the names the `in` operator
\* finds there, and Malformed where that operator raises.
TokenRecord(holders, expires, tools) == [holders |-> holders, expires |-> expires, tools |-> tools]

\* PolicyStore.allowed_tools, and capability(): None for an unknown token and
\* for a record that is no object.
AllowedTools(policy) == IF policy.tools \in {None, Malformed} THEN {} ELSE DOMAIN policy.tools
Capability(policy, token) ==
    IF policy.tokens # Malformed /\ token \in DOMAIN policy.tokens
    THEN policy.tokens[token] ELSE None

-----------------------------------------------------------------------------
(* args_match_schema                                                       *)

\* isinstance over type_map, with the exception for integers: True is an int to
\* Python, so it passes as a number, and an integer passes as one.
InstanceOf(type, v) ==
    \/ type \in {"string", "object", "array", "boolean", "integer"} /\ v.type = type
    \/ type = "number" /\ v.type \in {"number", "integer", "boolean"}

\* The keys a schema names.
Properties(schema) ==
    IF schema.properties \in {None, Malformed} THEN {} ELSE DOMAIN schema.properties

ArgsMatchSchema(args, schema) ==
    /\ schema \notin {None, Malformed} /\ schema.properties # Malformed
    /\ schema.open \/ Keys(args) \subseteq Properties(schema)
    /\ schema.required \subseteq Keys(args)
    /\ \A key \in Keys(args) \cap Properties(schema) :
           schema.properties[key] # None => InstanceOf(schema.properties[key], args.at[key])

\* _unknown_arg_keys of the host: stricter than an open schema, but for one
\* without properties.
UnknownArgKeys(policy, tool, args) ==
    IF tool \notin AllowedTools(policy) THEN {}
    ELSE LET spec == policy.tools[tool]
         IN IF spec = Malformed \/ spec.schema \in {None, Malformed} THEN {}
            ELSE IF spec.schema.properties \in {None, Malformed} THEN {}
            ELSE Keys(args) \ Properties(spec.schema)

-----------------------------------------------------------------------------
(* Capability tokens.                                                      *)

Refuses(fails, reason, detail) == <<[fails |-> fails, reason |-> <<reason, detail>>]>>

\* _capability_holders: a malformed list authorises nobody.
Holders(record) == IF record = None \/ record.holders = Malformed THEN {} ELSE record.holders

\* The checks a token's record has to pass once its holder presents it.
RecordChecks(record, token, tool, required, clock) ==
    Refuses(record.expires \in {None, Malformed}, "capability_missing", "no usable expiry")
    \o Refuses(record.expires \in Nat /\ record.expires <= clock, "capability_missing", "expired")
    \o Refuses(record.tools = Malformed, "raised", "TypeError")
    \o Refuses(record.tools # Malformed /\ tool \notin record.tools,
               "capability_missing", "does not cover tool")
    \o Refuses(required # None /\ token # required, "policy_miss", "does not match tool")

\* Mutant: the record is read first, so its state shows before its holder is asked.
CapabilityDenyRecordFirst(policy, env, clock, principal) ==
    LET record == Capability(policy, env.token)
    IN FirstFailure(
           Refuses(principal = None, "capability_missing", "no attested principal")
           \o (IF record = None THEN <<>>
               ELSE RecordChecks(record, env.token, env.tool, policy.tools[env.tool].required, clock))
           \o Refuses(principal \notin Holders(record) \/ env.caller # principal,
                      "capability_missing", "not valid for this caller"))

\* _capability_deny: attestation, then the holder, then the record (ADR-0003).
CapabilityDeny(policy, env, clock, principal) ==
    LET record == Capability(policy, env.token)
        outsider == principal \notin Holders(record) \/ env.caller # principal
    IN FirstFailure(
           Refuses(principal = None, "capability_missing", "no attested principal")
           \o Refuses(outsider, "capability_missing", "not valid for this caller")
           \o (IF outsider THEN <<>>
               ELSE RecordChecks(record, env.token, env.tool, policy.tools[env.tool].required, clock)))
=============================================================================
