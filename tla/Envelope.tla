------------------------------ MODULE Envelope -------------------------------
(***************************************************************************)
(* What the library takes for an invoke (pep/envelope.py): the flat form,  *)
(* the lab form, JSON text of either, and an envelope parsed before.       *)
(*                                                                         *)
(* A JSON value is a record with its type; an object holds its keys as a   *)
(* function.  A regular expression is the set of texts it matches, given   *)
(* by the constants.  The refusals of a parser are a sequence of checks in *)
(* the order of the code, each with the reason it refuses with.            *)
(***************************************************************************)
EXTENDS Naturals, Sequences, FiniteSetsExt

CONSTANTS ToolNames,    \* texts TOOL_NAME_RE matches
          Identities,   \* texts IDENTITY_RE matches
          RequestIds,   \* texts REQUEST_ID_RE matches
          Prose,        \* texts with white space in them
          CoaxKeys,     \* PROSE_COAX_KEYS
          None

Null == [type |-> "null"]
Scalar(type) == [type |-> type]
Text(t) == [type |-> "string", text |-> t]
Object(fields) == [type |-> "object", at |-> fields]

Keys(v) == IF v.type = "object" THEN DOMAIN v.at ELSE {}
Get(v, key) == IF key \in Keys(v) THEN v.at[key] ELSE Null
IsTextIn(v, texts) == v.type = "string" /\ v.text \in texts
Nullable(v, type) == v.type \in {"null", type}

\* The reason of the first check that fails, or None.
FirstFailure(checks) ==
    LET failing == {i \in DOMAIN checks : checks[i].fails}
    IN IF failing = {} THEN None ELSE checks[Min(failing)].reason

Invalid(fails) == <<[fails |-> fails, reason |-> "envelope_invalid"]>>
Prosaic(fails) == <<[fails |-> fails, reason |-> "agent_prose_rejected"]>>

FlatKeys == {"tool_name", "args", "capability_token", "approval_id", "caller_identity",
             "request_id", "metadata", "untrusted_agent_text", "state_digest"}
LabKeys == {"caller", "envelope_version", "invoke", "pep_eval_id", "policy_context",
            "untrusted_attachments"}
InvokeKeys == {"argv", "schema_fields", "tool_name"}
ArgFields == {"cwd", "network", "env_allowlist"}
SchemaFieldKeys == ArgFields \cup {"approval_id", "capability_token", "state_digest"}

-----------------------------------------------------------------------------
(* The checks both forms share.                                            *)

\* _reject_unknown_keys, and the same two checks on the envelope's own keys.
KeyChecks(v, allowed) ==
    Prosaic((Keys(v) \ allowed) \cap CoaxKeys # {}) \o Invalid(Keys(v) \ allowed # {})

\* _require_tool_name
NameChecks(v) ==
    Prosaic(IsTextIn(v, Prose) /\ ~IsTextIn(v, ToolNames)) \o Invalid(~IsTextIn(v, ToolNames))

\* _optional_string
OptionalChecks(v, keys) == Invalid(\E key \in keys : ~Nullable(Get(v, key), "string"))
Optional(v) == IF v = Null \/ v.text = "" THEN None ELSE v.text

\* An absent request id is "unspecified"; a null one is refused.
RequestId(v, key) == IF key \in Keys(v) THEN Get(v, key).text ELSE "unspecified"
RequestIdChecks(v, key) == Invalid(key \in Keys(v) /\ ~IsTextIn(Get(v, key), RequestIds))

\* _require_json_args: json.dumps knows every value but an opaque one.
ArgsChecks(args) == Invalid(\E key \in Keys(args) : args.at[key].type = "opaque")

Credentials == {"capability_token", "approval_id", "state_digest"}

\* InvokeEnvelope, of the fields a decision depends on: its request id is not one.
Parsed(name, args, fields, caller) ==
    [tool |-> name.text, args |-> args, caller |-> caller.text, prose |-> FALSE,
     token |-> Optional(Get(fields, "capability_token")),
     approval |-> Optional(Get(fields, "approval_id")),
     state |-> Optional(Get(fields, "state_digest"))]

-----------------------------------------------------------------------------
(* The two forms.                                                          *)

FlatRefusal(raw) ==
    LET args == Get(raw, "args") IN
    FirstFailure(
        KeyChecks(raw, FlatKeys) \o NameChecks(Get(raw, "tool_name"))
        \o Invalid(args.type # "object") \o Prosaic(Keys(args) \cap CoaxKeys # {})
        \o ArgsChecks(args) \o OptionalChecks(raw, Credentials)
        \o Invalid(~IsTextIn(Get(raw, "caller_identity"), Identities))
        \o RequestIdChecks(raw, "request_id")
        \o Invalid(~Nullable(Get(raw, "metadata"), "object"))
        \o Prosaic(Keys(Get(raw, "metadata")) # {})
        \o Invalid(~Nullable(Get(raw, "untrusted_agent_text"), "string"))
        \o Prosaic(Get(raw, "untrusted_agent_text") \notin {Null, Text("")}))

Flat(raw) == Parsed(Get(raw, "tool_name"), Get(raw, "args"), raw, Get(raw, "caller_identity"))

\* Mutant: the command line is no argument, so no schema and no grant binds it.
LabArgsUnbound(invoke) ==
    LET fields == Get(invoke, "schema_fields")
    IN Object([key \in Keys(fields) \cap ArgFields |-> fields.at[key]])

\* The arguments of a lab invoke: argv, and three of the schema fields.
LabArgs(invoke) ==
    LET fields == Get(invoke, "schema_fields")
        present == (Keys(invoke) \cap {"argv"}) \cup (Keys(fields) \cap ArgFields)
    IN Object([key \in present |-> IF key = "argv" THEN invoke.at[key] ELSE fields.at[key]])

LabRefusal(raw) ==
    LET invoke == Get(raw, "invoke")
        fields == Get(invoke, "schema_fields") IN
    FirstFailure(
        KeyChecks(raw, LabKeys) \o Invalid(invoke.type # "object")
        \o KeyChecks(invoke, InvokeKeys) \o NameChecks(Get(invoke, "tool_name"))
        \o Invalid(~Nullable(fields, "object")) \o KeyChecks(fields, SchemaFieldKeys)
        \o OptionalChecks(fields, Credentials)
        \o Invalid("argv" \in Keys(invoke) /\ Get(invoke, "argv").type # "array")
        \o ArgsChecks(LabArgs(invoke)) \o Invalid(Get(raw, "caller").type # "object")
        \o Invalid(~IsTextIn(Get(Get(raw, "caller"), "identity"), Identities))
        \o RequestIdChecks(raw, "pep_eval_id")
        \o Invalid(~Nullable(Get(raw, "untrusted_attachments"), "object"))
        \o Invalid(~Nullable(Get(raw, "policy_context"), "object")))

\* policy_context and untrusted_attachments are read by nobody.
Lab(raw) ==
    LET invoke == Get(raw, "invoke")
    IN Parsed(Get(invoke, "tool_name"), LabArgs(invoke), Get(invoke, "schema_fields"),
              Get(Get(raw, "caller"), "identity"))

-----------------------------------------------------------------------------
(* Text, and an envelope that was parsed before.                           *)

\* A raw value is a JSON value of a caller in the same process, a text (or
\* bytes) with the value it decodes to, or an InvokeEnvelope with its request id.
Encoded(kind, body) == [type |-> kind, body |-> body]
Ready(envelope, id) == [type |-> "envelope", envelope |-> envelope, id |-> id]

\* _coerce_mapping.  Only a text is looked at before it is decoded: one that
\* opens neither an object nor an array is prose.
CoerceRefusal(raw) ==
    FirstFailure(
        Invalid(raw = Null)
        \o Prosaic(raw.type = "text" /\ raw.body.type \notin {"object", "array", "broken", "empty"})
        \o Invalid(raw.type \in {"text", "bytes"} /\ raw.body.type \in {"broken", "empty"}))

Coerced(raw) == IF raw.type \in {"text", "bytes"} THEN raw.body ELSE raw

\* _validate_parsed: an envelope built by hand is checked again, its credentials
\* and the keys of its arguments are not.
ReadyRefusal(envelope, id) ==
    FirstFailure(Prosaic(envelope.prose) \o Invalid(envelope.tool \notin ToolNames)
                 \o Invalid(envelope.caller \notin Identities)
                 \o Invalid(id \notin RequestIds)
                 \o Invalid(envelope.args.type # "object"))

\* parse_envelope
ParseRefusal(raw) ==
    LET body == Coerced(raw)
    IN IF CoerceRefusal(raw) # None THEN CoerceRefusal(raw)
       ELSE IF body.type = "envelope" THEN ReadyRefusal(body.envelope, body.id)
       ELSE IF body.type # "object" THEN "envelope_invalid"
       ELSE IF "invoke" \in Keys(body) THEN LabRefusal(body) ELSE FlatRefusal(body)

Parse(raw) ==
    LET body == Coerced(raw)
    IN IF body.type = "envelope" THEN body.envelope
       ELSE IF "invoke" \in Keys(body) THEN Lab(body) ELSE Flat(body)
=============================================================================
