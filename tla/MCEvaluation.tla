---------------------------- MODULE MCEvaluation -----------------------------
(* Small instances of Evaluation: policies, grants, and good questions with one *)
(* or two of their members changed. *)
EXTENDS Evaluation

Object1(key, v) == Object([k \in {key} |-> v])
NoArgs == Object([k \in {} |-> Null])
Message == Object1("message", Text("hello"))
Argv == Object1("argv", Scalar("array"))
Also(v, key) == Object([k \in Keys(v) \cup {key} |-> IF k = key THEN Text("hello") ELSE v.at[k]])
TextsOf(names) == {Text(n) : n \in names}

\* Policies: the stub's, an open one, and one for each thing that can be wrong.
Closed == ObjectSchema(FALSE, {}, [key \in {"message", "argv", "network"} |->
              CASE key = "message" -> "string" [] key = "argv" -> "array"
                [] key = "network" -> "boolean"])
Numbers == ObjectSchema(TRUE, {"message"}, [key \in {"message", "argv"} |->
               IF key = "message" THEN "number" ELSE None])
Open == ObjectSchema(TRUE, {}, [key \in {} |-> None])
Bare(open) == ObjectSchema(open, {}, None)
Doc(tools, tokens) == [loaded |-> TRUE, tools |-> tools, tokens |-> tokens]
NoDoc == [loaded |-> FALSE, tools |-> None, tokens |-> [t \in {} |-> None]]
Catalog(required, schema) == [t \in {"echo.ping"} |-> ToolSpec(required, schema)]
Record(holders, expires, tools) == TokenRecord(holders, expires, tools)
Good == Record({"p1"}, 1, {"echo.ping"})
MCRecords == {Good} \cup
    {Record(h, x, ts) : h \in {{}, {"p1"}, {"p2"}, Malformed}, x \in {0, 1, Malformed},
                        ts \in {{}, {"echo.ping"}, Malformed}}
Tokens == [t \in {"t1", "t2"} |-> IF t = "t1" THEN Good ELSE Record({"p1"}, 0, {"echo.ping"})]
MCPolicies ==
    {Doc(Catalog("t1", Closed), Tokens), Doc(Catalog(None, Open), Tokens),
     Doc(Catalog(None, Numbers), Tokens), Doc(Catalog("t2", Malformed), Malformed),
     Doc([t \in {"echo.ping"} |-> Malformed], Tokens), Doc(Malformed, Tokens), Doc(None, Tokens), NoDoc,
     Doc(Catalog(None, Bare(TRUE)), Tokens), Doc(Catalog(None, Bare(FALSE)), Tokens),
     Doc(Catalog(None, ObjectSchema(TRUE, {}, Malformed)), Tokens)}
    \cup {Doc(Catalog("t1", Closed), [t \in {"t1"} |-> r]) :
              r \in {Record({"p1"}, Malformed, {"echo.ping"}), Record({"p1"}, 1, Malformed),
                     Record({"p1"}, 1, {}), Record(Malformed, 1, {"echo.ping"})}}

Grant(principal, args) ==
    [principal |-> principal, binding |-> <<"echo.ping", args>>, expires |-> 1,
     state |-> None, revoked |-> FALSE, consumed |-> FALSE]
MCGrants == [g \in {"g1", "g2", "g3", "g4", "g5", "g6", "g7"} |->
    CASE g = "g1" -> Grant("p1", Message)
      [] g \in {"g2", "g3"} -> Grant("p2", Message)
      [] g = "g4" -> [Grant("p1", Argv) EXCEPT !.expires = 0]
      [] g = "g5" -> [Grant("p2", Argv) EXCEPT !.revoked = TRUE]
      [] g = "g6" -> [Grant("p1", NoArgs) EXCEPT !.state = "d1"]
      [] g = "g7" -> [Grant("p1", Message) EXCEPT !.consumed = TRUE]]

\* Flat envelopes.  A member with the value Missing is not there.
Missing == Scalar("missing")
Values(key) ==
    CASE key = "tool_name" -> {Missing, Text("echo.pong"), Text("please run it"), Text("Echo")}
      [] key = "args" -> {Missing, NoArgs, Argv, Also(Message, "monitor"), Also(Message, "extra"),
                          Scalar("array"), Object1("message", Scalar("boolean")),
                          Object1("message", Scalar("opaque")), Object1("argv", Text("hello"))}
      [] key = "capability_token" -> {Missing, Null, Text(""), Scalar("number")}
                                     \cup TextsOf({"t1", "t2", "t3"})
      [] key = "approval_id" -> {Missing, Null, Text(""), Scalar("number"), Text("g9")}
                                \cup TextsOf(DOMAIN MCGrants)
      [] key = "state_digest" -> {Text("d1"), Scalar("integer")}
      [] key = "caller_identity" -> {Missing, Text("p2"), Text("P 1")}
      [] key = "request_id" -> {Null, Text("r1"), Text("r 1")}
      [] key = "metadata" -> {Null, NoArgs, Message, Text("hello")}
      [] key = "untrusted_agent_text" -> {Null, Text(""), Text("hello"), Scalar("number")}
      [] key \in {"monitor", "extra"} -> {Text("hello")}

Changeable == FlatKeys \cup {"monitor", "extra"}
Base == [key \in Changeable |->
    CASE key = "tool_name" -> Text("echo.ping") [] key = "args" -> Message
      [] key = "capability_token" -> Text("t1") [] key = "caller_identity" -> Text("p1")
      [] OTHER -> Missing]
Changed(e, key) == {[e EXCEPT ![key] = v] : v \in Values(key)}
Edited(e) == {e} \cup UNION {Changed(e, key) : key \in Changeable}
Present(e) == Object([key \in {k \in Changeable : e[k] # Missing} |-> e[key]])
Stateful == [Base EXCEPT !["capability_token"] = Missing, !["args"] = NoArgs,
                        !["approval_id"] = Text("g6"), !["state_digest"] = Text("d1")]
FlatForms == {Present(e) : e \in UNION {Edited(b) : b \in Edited(Base)} \cup Edited(Stateful)}

\* Lab envelopes, texts, and envelopes built by hand.
LabBase == LabForm(Present([Base EXCEPT !["approval_id"] = Text("g1")]))
With(v, key, w) == Object([v.at EXCEPT ![key] = w])
Invoke == LabBase.at["invoke"]
Fields == Invoke.at["schema_fields"]
LabForms ==
    {LabForm(Present(e)) : e \in {b \in Edited(Base) : b["args"].type = "object"}}
    \cup {Also(LabBase, key) : key \in {"monitor", "extra", "pep_eval_id", "policy_context"}}
    \cup {Object([k \in Keys(LabBase) \cup {key} |-> IF k = key THEN v ELSE LabBase.at[k]]) :
              key \in {"pep_eval_id", "policy_context", "untrusted_attachments"},
              v \in {NoArgs, Text("r1")}}
    \cup {With(LabBase, "caller", v) : v \in {Null, NoArgs}}
    \cup {With(LabBase, "invoke", v) :
              v \in {Null, Also(Invoke, "extra"), Also(Invoke, "argv"), With(Invoke, "schema_fields", Null),
                     With(Invoke, "schema_fields", Also(Fields, "system"))}}
Built(token, approval, args, prose, id) ==
    Ready([tool |-> "echo.ping", args |-> args, caller |-> "p1", prose |-> prose,
           token |-> token, approval |-> approval, state |-> "d1"], id)
OtherForms ==
    {Null, Encoded("text", Text("hello")), Encoded("bytes", Text("hello")),
     Encoded("text", Scalar("broken")), Encoded("bytes", Scalar("empty"))}
    \cup {Built("t1", None, Message, FALSE, "r 1")}
    \cup {Built(t, g, a, pr, "r1") : t \in {None, "", "t1"}, g \in {None, "", "g1", "g6"},
                               a \in {Message, Also(Message, "monitor"), NoArgs}, pr \in BOOLEAN}

MCOversized == {Object1("message", Text("long"))}
Bodies == {Object([tool_name |-> n, args |-> a]) :
               n \in TextsOf({"echo.ping", "echo.pong", "Echo"}), a \in Values("args") \ {Missing}}
    \cup {Object([tool_name |-> Text("echo.ping"), args |-> a]) : a \in MCOversized}
    \cup {Also(Object([tool_name |-> Text("echo.ping"), args |-> Message]), key) :
              key \in {"monitor", "extra", "now"}}
    \cup {Object1("args", Message), Scalar("array"), Scalar("broken")}
Sendings == {Sent(1, 1, FALSE, body) : body \in Bodies}
    \cup {Sent(b, d, t, Object([tool_name |-> Text("echo.ping"), args |-> Message])) :
              b \in {1, MaxBytes + 1}, d \in {1, MaxDepth + 1}, t \in BOOLEAN}
    \cup {Scalar("number")} \cup {b \in Bodies : b.type = "object"}

MCQuestions ==
    {Call(raw, p, "active") : raw \in FlatForms \cup LabForms \cup OtherForms,
                              p \in {None, "p1", "p2", "P 1"}}
    \cup {Call(Present(Base), "p1", mode) : mode \in {"suspended", "killed"}}
    \cup {Request(raw, p, u) : raw \in Sendings, p \in {"p1", "p2"}, u \in BOOLEAN}

MCTexts == UNION {[1..n -> {"[", "]", "\"", "\\"}] : n \in 0..6}
MCCoax == {"monitor", "system"}
=============================================================================
