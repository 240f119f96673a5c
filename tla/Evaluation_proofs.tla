-------------------------- MODULE Evaluation_proofs --------------------------
(***************************************************************************)
(* Proofs about Evaluation.  An answer is what the operators compute from  *)
(* the question, so that an invariant of the state follows from a lemma    *)
(* about the operators.  A parser is a row of checks: it refuses nothing   *)
(* exactly when every check of the row passes, which is what a parsed      *)
(* envelope consists of (FlatMembers, LabMembers, HostMembers).  What an   *)
(* allowed call has passed, what a caller who holds no token is told, and  *)
(* that two parsers or two forms agree, is read off those members.         *)
(*                                                                         *)
(* The scan of a text is a recursion over its characters.  It is proved    *)
(* from the least number at which a claim about it would fail (UpTo).      *)
(***************************************************************************)
EXTENDS Evaluation, FiniteSetTheorems, SequenceTheorems, NaturalsInduction, WellFoundedInduction, TLAPS

-----------------------------------------------------------------------------
(* Checks in a row.                                                        *)

Answers == Reasons \cup (Reasons \X Details)
Check == [fails : BOOLEAN, reason : Answers]
Checks == Seq(Check)

\* A set of numbers has a least one.
LEMMA MinIs ==
    ASSUME NEW S \in SUBSET Nat, S # {}
    PROVE  Min(S) \in S /\ \A y \in S : Min(S) <= y
<1>1. PICK x \in S : \A y \in S : ~(<<y, x>> \in OpToRel(<, Nat))
  BY NatLessThanWellFounded, WFMin
<1>2. ASSUME NEW y \in S PROVE x <= y
  <2>1. x \in Nat /\ y \in Nat
    OBVIOUS
  <2>2. ~(y < x)
    BY <1>1, <2>1, Zenon DEF OpToRel
  <2> QED
    BY <2>1, <2>2
<1> QED
  BY <1>2 DEF Min

LEMMA FirstFailureIs ==
    ASSUME NEW s \in Checks
    PROVE  \/ (\A i \in 1..Len(s) : ~s[i].fails) /\ FirstFailure(s) = None
           \/ \E i \in 1..Len(s) : /\ s[i].fails /\ FirstFailure(s) = s[i].reason
                                   /\ \A j \in 1..(i - 1) : ~s[j].fails
<1> DEFINE failing == {i \in DOMAIN s : s[i].fails}
<1>1. DOMAIN s = 1..Len(s) /\ Len(s) \in Nat
  BY DEF Checks
<1>2. CASE failing = {}
  BY <1>1, <1>2 DEF FirstFailure
<1>3. CASE failing # {}
  <2>1. Min(failing) \in failing /\ \A y \in failing : Min(failing) <= y
    <3>1. failing \in SUBSET Nat
      BY <1>1
    <3> HIDE DEF failing
    <3> QED
      BY <1>3, <3>1, MinIs
  <2>2. FirstFailure(s) = s[Min(failing)].reason
    BY <1>3 DEF FirstFailure
  <2>3. \A j \in 1..(Min(failing) - 1) : ~s[j].fails
    <3> SUFFICES ASSUME NEW j \in 1..(Min(failing) - 1), s[j].fails PROVE FALSE
      OBVIOUS
    <3>1. Min(failing) \in 1..Len(s)
      BY <2>1, <1>1
    <3>2. j \in failing
      BY <3>1, <1>1
    <3>3. Min(failing) <= j
      BY <2>1, <3>2
    <3> HIDE DEF failing
    <3> QED
      BY <3>1, <3>3
  <2> QED
    BY <1>1, <2>1, <2>2, <2>3
<1> QED
  BY <1>2, <1>3

\* A check that fails gives a reason, and None is no reason.
LEMMA CheckIs ==
    ASSUME NEW s \in Checks, NEW i \in 1..Len(s)
    PROVE  s[i].reason \in Answers /\ s[i].reason # None
<1>1. s[i] \in Check
  BY DEF Checks
<1> QED
  BY <1>1, EvaluationAssumption DEF Check, Answers

\* Checks after checks: the first ones are asked first.
LEMMA Then ==
    ASSUME NEW s \in Checks, NEW t \in Checks
    PROVE  /\ s \o t \in Checks
           /\ FirstFailure(s \o t) = IF FirstFailure(s) # None THEN FirstFailure(s)
                                     ELSE FirstFailure(t)
<1>1. /\ s \o t \in Checks /\ Len(s \o t) = Len(s) + Len(t)
      /\ \A i \in 1..Len(s) : (s \o t)[i] = s[i]
      /\ \A i \in 1..Len(t) : (s \o t)[Len(s) + i] = t[i]
      /\ Len(s) \in Nat /\ Len(t) \in Nat
  BY DEF Checks
<1> DEFINE st == s \o t
<1> HIDE DEF st
<1>2. /\ st \in Checks /\ Len(st) = Len(s) + Len(t)
      /\ \A i \in 1..Len(s) : st[i] = s[i]
      /\ \A i \in 1..Len(t) : st[Len(s) + i] = t[i]
  BY <1>1 DEF st
<1>3. FirstFailure(st) = IF FirstFailure(s) # None THEN FirstFailure(s) ELSE FirstFailure(t)
  <2>1. CASE FirstFailure(s) # None
    <3>1. PICK i \in 1..Len(s) : /\ s[i].fails /\ FirstFailure(s) = s[i].reason
                                 /\ \A j \in 1..(i - 1) : ~s[j].fails
      BY <2>1, FirstFailureIs
    <3>2. PICK k \in 1..Len(st) : /\ st[k].fails /\ FirstFailure(st) = st[k].reason
                                  /\ \A j \in 1..(k - 1) : ~st[j].fails
      <4>1. i \in 1..Len(st) /\ st[i].fails
        BY <1>1, <1>2, <3>1
      <4> QED
        BY <1>2, <4>1, FirstFailureIs
    <3>3. ~(i < k)
      BY <1>1, <1>2, <3>1, <3>2
    <3>4. ~(k < i)
      BY <1>1, <1>2, <3>1, <3>2
    <3>5. k = i
      BY <1>1, <1>2, <3>3, <3>4
    <3> QED
      BY <2>1, <3>1, <3>2, <3>5, <1>2
  <2>2. CASE FirstFailure(s) = None
    <3>1. \A i \in 1..Len(s) : ~s[i].fails
      BY <2>2, FirstFailureIs, CheckIs
    <3>2. CASE FirstFailure(t) = None
      <4>1. \A i \in 1..Len(t) : ~t[i].fails
        BY <3>2, FirstFailureIs, CheckIs
      <4>2. ASSUME NEW i \in 1..Len(st) PROVE ~st[i].fails
        <5>1. CASE i <= Len(s)
          BY <5>1, <1>1, <1>2, <3>1
        <5>2. CASE ~(i <= Len(s))
          <6>1. i - Len(s) \in 1..Len(t) /\ Len(s) + (i - Len(s)) = i
            BY <5>2, <1>1, <1>2
          <6> QED
            BY <6>1, <1>2, <4>1
        <5> QED
          BY <5>1, <5>2
      <4> QED
        BY <2>2, <3>2, <4>2, <1>2, FirstFailureIs
    <3>3. CASE FirstFailure(t) # None
      <4>1. PICK i \in 1..Len(t) : /\ t[i].fails /\ FirstFailure(t) = t[i].reason
                                   /\ \A j \in 1..(i - 1) : ~t[j].fails
        BY <3>3, FirstFailureIs
      <4>2. Len(s) + i \in 1..Len(st) /\ st[Len(s) + i] = t[i]
        BY <1>1, <1>2, <4>1
      <4>3. PICK k \in 1..Len(st) : /\ st[k].fails /\ FirstFailure(st) = st[k].reason
                                    /\ \A j \in 1..(k - 1) : ~st[j].fails
        BY <1>2, <4>1, <4>2, FirstFailureIs
      <4>4. ~(Len(s) + i < k)
        BY <1>1, <1>2, <4>1, <4>2, <4>3
      <4>5. ~(k <= Len(s))
        BY <1>1, <1>2, <3>1, <4>3
      <4>6. k - Len(s) \in 1..Len(t) /\ Len(s) + (k - Len(s)) = k
        BY <1>1, <1>2, <4>3, <4>5
      <4>7. st[k] = t[k - Len(s)]
        BY <4>6, <1>2
      <4>8. ~(k - Len(s) \in 1..(i - 1))
        BY <4>1, <4>3, <4>7
      <4>9. k = Len(s) + i
        BY <1>1, <4>1, <4>3, <4>4, <4>6, <4>8
      <4> QED
        BY <2>2, <4>1, <4>2, <4>3, <4>9
    <3> QED
      BY <3>2, <3>3
  <2> QED
    BY <2>1, <2>2
<1> QED
  BY <1>2, <1>3 DEF st

\* One check, and none.
LEMMA One ==
    ASSUME NEW f \in BOOLEAN, NEW r \in Answers
    PROVE  /\ <<[fails |-> f, reason |-> r]>> \in Checks
           /\ FirstFailure(<<[fails |-> f, reason |-> r]>>) = IF f THEN r ELSE None
<1> DEFINE c == <<[fails |-> f, reason |-> r]>>
<1>1. c \in Checks /\ Len(c) = 1 /\ c[1].fails = f /\ c[1].reason = r
  BY DEF Checks, Check
<1> HIDE DEF c
<1>2. FirstFailure(c) = IF f THEN r ELSE None
  BY <1>1, FirstFailureIs, SMTT(20)
<1> QED
  BY <1>1, <1>2 DEF c

LEMMA NoChecks == << >> \in Checks /\ FirstFailure(<< >>) = None
<1>1. << >> \in Checks
  BY DEF Checks
<1> QED
  BY <1>1, FirstFailureIs

LEMMA Refusal ==
    ASSUME NEW f \in BOOLEAN
    PROVE  /\ Invalid(f) \in Checks /\ Prosaic(f) \in Checks
           /\ FirstFailure(Invalid(f)) = IF f THEN "envelope_invalid" ELSE None
           /\ FirstFailure(Prosaic(f)) = IF f THEN "agent_prose_rejected" ELSE None
<1>1. {"envelope_invalid", "agent_prose_rejected"} \subseteq Answers
  BY DEF Answers, Reasons
<1> QED
  BY <1>1, One DEF Invalid, Prosaic

Says == {"envelope_invalid", "agent_prose_rejected", None}

LEMMA NoneIsNoReason == None \notin Reasons /\ None \notin {"envelope_invalid", "agent_prose_rejected"}
BY EvaluationAssumption DEF Reasons

\* Rows of a parser's checks: it refuses nothing when none of them does, and
\* when one alone does, with its reason.
Clear(s) == s \in Checks /\ FirstFailure(s) \in Says

Passes(s) == FirstFailure(s) = None

LEMMA Two ==
    ASSUME NEW s, Clear(s), NEW t, Clear(t)
    PROVE  /\ Clear(s \o t)
           /\ Passes(s \o t) <=> Passes(s) /\ Passes(t)
           /\ Passes(t) => FirstFailure(s \o t) = FirstFailure(s)
           /\ Passes(s) => FirstFailure(s \o t) = FirstFailure(t)
BY Then DEF Clear, Passes

LEMMA Four ==
    ASSUME NEW s, Clear(s), NEW t, Clear(t), NEW u, Clear(u), NEW v, Clear(v)
    PROVE  LET row == s \o t \o u \o v IN
           /\ Clear(row)
           /\ Passes(row)
                <=> /\ Passes(s) /\ Passes(t)
                    /\ Passes(u) /\ Passes(v)
           /\ Passes(t) /\ Passes(u) /\ Passes(v)
                => FirstFailure(row) = FirstFailure(s)
           /\ Passes(s) /\ Passes(t) /\ Passes(u)
                => FirstFailure(row) = FirstFailure(v)
<1> DEFINE st == s \o t
           stu == st \o u
<1>1. /\ Clear(st)
      /\ Passes(st) <=> Passes(s) /\ Passes(t)
      /\ Passes(t) => FirstFailure(st) = FirstFailure(s)
  BY Two
<1> HIDE DEF st
<1>2. /\ Clear(stu)
      /\ Passes(stu) <=> Passes(st) /\ Passes(u)
      /\ Passes(u) => FirstFailure(stu) = FirstFailure(st)
  BY <1>1, Two
<1> HIDE DEF stu
<1>3. /\ Clear(stu \o v)
      /\ Passes(stu \o v) <=> Passes(stu) /\ Passes(v)
      /\ Passes(v) => FirstFailure(stu \o v) = FirstFailure(stu)
      /\ Passes(stu) => FirstFailure(stu \o v) = FirstFailure(v)
  BY <1>2, Two
<1>4. stu \o v = s \o t \o u \o v
  BY DEF st, stu
<1> QED
  BY <1>1, <1>2, <1>3, <1>4

-----------------------------------------------------------------------------
(* The parsers' refusals, as what they refuse.                             *)

LEMMA ValueTypes ==
    /\ Null.type = "null"
    /\ \A t : Text(t).type = "string" /\ Text(t).text = t
    /\ \A f : Object(f).type = "object" /\ Object(f).at = f
BY DEF Null, Text, Object

LEMMA OneCheckIs ==
    ASSUME NEW f \in BOOLEAN
    PROVE  /\ Clear(Invalid(f)) /\ (Passes(Invalid(f)) <=> ~f)
           /\ Clear(Prosaic(f)) /\ (Passes(Prosaic(f)) <=> ~f)
BY Refusal, NoneIsNoReason DEF Clear, Passes, Says

LEMMA SmallChecksAre ==
    /\ \A args : /\ Clear(ArgsChecks(args))
                 /\ Passes(ArgsChecks(args)) <=> \A key \in Keys(args) : args.at[key].type # "opaque"
    /\ \A v, keys : /\ Clear(OptionalChecks(v, keys))
                    /\ Passes(OptionalChecks(v, keys))
                          <=> \A key \in keys : Nullable(Get(v, key), "string")
    /\ \A v, key : /\ Clear(RequestIdChecks(v, key))
                   /\ Passes(RequestIdChecks(v, key))
                         <=> (key \in Keys(v) => IsTextIn(Get(v, key), RequestIds))
BY OneCheckIs DEF ArgsChecks, OptionalChecks, RequestIdChecks

LEMMA KeyChecksAre ==
    ASSUME NEW v, NEW allowed
    PROVE  /\ Clear(KeyChecks(v, allowed))
           /\ Passes(KeyChecks(v, allowed)) <=> Keys(v) \subseteq allowed
<1> DEFINE coax == (Keys(v) \ allowed) \cap CoaxKeys # {}
           unknown == Keys(v) \ allowed # {}
<1>1. KeyChecks(v, allowed) = Prosaic(coax) \o Invalid(unknown)
  BY DEF KeyChecks
<1>2. coax \in BOOLEAN /\ unknown \in BOOLEAN /\ (coax => unknown)
      /\ (unknown <=> ~(Keys(v) \subseteq allowed))
  OBVIOUS
<1> HIDE DEF coax, unknown
<1>3. FirstFailure(Prosaic(coax) \o Invalid(unknown))
        = IF coax THEN "agent_prose_rejected" ELSE IF unknown THEN "envelope_invalid" ELSE None
  BY <1>2, Refusal, Then, NoneIsNoReason
<1>4. Prosaic(coax) \o Invalid(unknown) \in Checks
  BY <1>2, Refusal, Then
<1> QED
  BY <1>1, <1>2, <1>3, <1>4, NoneIsNoReason DEF Clear, Passes, Says

LEMMA NameChecksAre ==
    ASSUME NEW v
    PROVE  /\ Clear(NameChecks(v))
           /\ Passes(NameChecks(v)) <=> IsTextIn(v, ToolNames)
<1> DEFINE coax == IsTextIn(v, Prose) /\ ~IsTextIn(v, ToolNames)
           unknown == ~IsTextIn(v, ToolNames)
<1>1. NameChecks(v) = Prosaic(coax) \o Invalid(unknown)
  BY DEF NameChecks
<1>2. coax \in BOOLEAN /\ unknown \in BOOLEAN /\ (coax => unknown)
      /\ (unknown <=> ~IsTextIn(v, ToolNames))
  BY DEF IsTextIn
<1> HIDE DEF coax, unknown
<1>3. FirstFailure(Prosaic(coax) \o Invalid(unknown))
        = IF coax THEN "agent_prose_rejected" ELSE IF unknown THEN "envelope_invalid" ELSE None
  BY <1>2, Refusal, Then, NoneIsNoReason
<1>4. Prosaic(coax) \o Invalid(unknown) \in Checks
  BY <1>2, Refusal, Then
<1> QED
  BY <1>1, <1>2, <1>3, <1>4, NoneIsNoReason DEF Clear, Passes, Says

\* The members of a flat envelope, but for the keys of its arguments.
FlatMembers(raw) ==
    LET args == Get(raw, "args")
    IN /\ Keys(raw) \subseteq FlatKeys /\ IsTextIn(Get(raw, "tool_name"), ToolNames)
       /\ args.type = "object" /\ \A key \in Keys(args) : args.at[key].type # "opaque"
       /\ \A key \in Credentials : Nullable(Get(raw, key), "string")
       /\ IsTextIn(Get(raw, "caller_identity"), Identities)
       /\ "request_id" \in Keys(raw) => IsTextIn(Get(raw, "request_id"), RequestIds)
       /\ Nullable(Get(raw, "metadata"), "object") /\ Keys(Get(raw, "metadata")) = {}
       /\ Get(raw, "untrusted_agent_text") \in {Null, Text("")}
Coaxes(raw) == Keys(Get(raw, "args")) \cap CoaxKeys # {}

LEMMA FlatRefusalIs ==
    ASSUME NEW raw
    PROVE  /\ FlatRefusal(raw) \in Says
           /\ FlatRefusal(raw) = None <=> FlatMembers(raw) /\ ~Coaxes(raw)
           /\ FlatMembers(raw) /\ Coaxes(raw) => FlatRefusal(raw) = "agent_prose_rejected"
<1> DEFINE args == Get(raw, "args")
           c1 == KeyChecks(raw, FlatKeys)
           c2 == NameChecks(Get(raw, "tool_name"))
           c3 == Invalid(args.type # "object")
           c4 == Prosaic(Keys(args) \cap CoaxKeys # {})
           c5 == ArgsChecks(args)
           c6 == OptionalChecks(raw, Credentials)
           c7 == Invalid(~IsTextIn(Get(raw, "caller_identity"), Identities))
           c8 == RequestIdChecks(raw, "request_id")
           c9 == Invalid(~Nullable(Get(raw, "metadata"), "object"))
           c10 == Prosaic(Keys(Get(raw, "metadata")) # {})
           c11 == Invalid(~Nullable(Get(raw, "untrusted_agent_text"), "string"))
           c12 == Prosaic(Get(raw, "untrusted_agent_text") \notin {Null, Text("")})
<1>0. FlatRefusal(raw) = FirstFailure(c1 \o c2 \o c3 \o c4 \o c5 \o c6 \o c7 \o c8 \o c9
                                      \o c10 \o c11 \o c12)
  BY DEF FlatRefusal
<1>1. /\ Clear(c1)
      /\ Passes(c1) <=> Keys(raw) \subseteq FlatKeys
  BY KeyChecksAre
<1>2. /\ Clear(c2)
      /\ Passes(c2) <=> IsTextIn(Get(raw, "tool_name"), ToolNames)
  BY NameChecksAre
<1>3. /\ Clear(c3)
      /\ Passes(c3) <=> args.type = "object"
  BY Refusal, NoneIsNoReason DEF Clear, Passes, Says
<1>4. /\ c4 \in Checks
      /\ FirstFailure(c4) = IF Coaxes(raw) THEN "agent_prose_rejected" ELSE None
  BY Refusal, NoneIsNoReason DEF Clear, Passes, Says, Coaxes
<1>5. /\ Clear(c5)
      /\ Passes(c5) <=> \A key \in Keys(args) : args.at[key].type # "opaque"
  BY Refusal, NoneIsNoReason DEF Clear, Passes, Says, ArgsChecks
<1>6. /\ Clear(c6)
      /\ Passes(c6) <=> \A key \in Credentials : Nullable(Get(raw, key), "string")
  BY Refusal, NoneIsNoReason DEF Clear, Passes, Says, OptionalChecks
<1>7. /\ Clear(c7)
      /\ Passes(c7) <=> IsTextIn(Get(raw, "caller_identity"), Identities)
  BY Refusal, NoneIsNoReason DEF Clear, Passes, Says
<1>8. /\ Clear(c8)
      /\ Passes(c8)
            <=> ("request_id" \in Keys(raw) => IsTextIn(Get(raw, "request_id"), RequestIds))
  BY Refusal, NoneIsNoReason DEF Clear, Passes, Says, RequestIdChecks
<1>9. /\ Clear(c9)
      /\ Passes(c9) <=> Nullable(Get(raw, "metadata"), "object")
  BY Refusal, NoneIsNoReason DEF Clear, Passes, Says
<1>10. /\ Clear(c10)
       /\ Passes(c10) <=> Keys(Get(raw, "metadata")) = {}
  BY Refusal, NoneIsNoReason DEF Clear, Passes, Says
<1>11. /\ Clear(c11)
       /\ Passes(c11) <=> Nullable(Get(raw, "untrusted_agent_text"), "string")
  BY Refusal, NoneIsNoReason DEF Clear, Passes, Says
<1>12. /\ Clear(c12)
       /\ Passes(c12) <=> Get(raw, "untrusted_agent_text") \in {Null, Text("")}
  BY Refusal, NoneIsNoReason DEF Clear, Passes, Says
<1>13. Get(raw, "untrusted_agent_text") \in {Null, Text("")}
         => Nullable(Get(raw, "untrusted_agent_text"), "string")
  <2>1. \A v \in {Null, Text("")} : v.type \in {"null", "string"}
    BY ValueTypes
  <2> QED
    BY <2>1 DEF Nullable
<1> HIDE DEF c1, c2, c3, c4, c5, c6, c7, c8, c9, c10, c11, c12
<1> DEFINE r4 == c1 \o c2 \o c3 \o c4
           r7 == r4 \o c5 \o c6 \o c7
           r10 == r7 \o c8 \o c9 \o c10
           whole == r10 \o c11 \o c12
<1>14. Clear(c4)
  BY <1>4 DEF Clear, Passes, Says
<1>15. /\ Clear(r4)
       /\ Passes(r4) <=> /\ Passes(c1) /\ Passes(c2)
                                  /\ Passes(c3) /\ Passes(c4)
       /\ Passes(c2) /\ Passes(c3) /\ Passes(c4) => FirstFailure(r4) = FirstFailure(c1)
       /\ Passes(c1) /\ Passes(c2) /\ Passes(c3) => FirstFailure(r4) = FirstFailure(c4)
  BY <1>1, <1>2, <1>3, <1>14, Four
<1> HIDE DEF r4
<1>16. /\ Clear(r7)
       /\ Passes(r7) <=> /\ Passes(r4) /\ Passes(c5)
                                  /\ Passes(c6) /\ Passes(c7)
       /\ Passes(c5) /\ Passes(c6) /\ Passes(c7) => FirstFailure(r7) = FirstFailure(r4)
       /\ Passes(r4) /\ Passes(c5) /\ Passes(c6) => FirstFailure(r7) = FirstFailure(c7)
  BY <1>5, <1>6, <1>7, <1>15, Four
<1> HIDE DEF r7
<1>17. /\ Clear(r10)
       /\ Passes(r10) <=> /\ Passes(r7) /\ Passes(c8)
                                  /\ Passes(c9) /\ Passes(c10)
       /\ Passes(c8) /\ Passes(c9) /\ Passes(c10) => FirstFailure(r10) = FirstFailure(r7)
       /\ Passes(r7) /\ Passes(c8) /\ Passes(c9) => FirstFailure(r10) = FirstFailure(c10)
  BY <1>8, <1>9, <1>10, <1>16, Four
<1> HIDE DEF r10
<1>18. /\ Clear(r10 \o c11)
       /\ Passes(r10 \o c11) <=> Passes(r10) /\ Passes(c11)
       /\ Passes(c11) => FirstFailure(r10 \o c11) = FirstFailure(r10)
  BY <1>11, <1>17, Two
<1>19. /\ Clear(whole)
       /\ Passes(whole) <=> Passes(r10 \o c11) /\ Passes(c12)
       /\ Passes(c12) => FirstFailure(whole) = FirstFailure(r10 \o c11)
  BY <1>12, <1>18, Two
<1> HIDE DEF whole
<1>20. FlatRefusal(raw) = FirstFailure(whole)
  BY <1>0 DEF r4, r7, r10, whole
<1>21. CASE FlatMembers(raw)
  <2>1. /\ Passes(c1) /\ Passes(c2) /\ Passes(c3) /\ Passes(c5) /\ Passes(c6)
        /\ Passes(c7) /\ Passes(c8) /\ Passes(c9) /\ Passes(c10) /\ Passes(c11)
        /\ Passes(c12)
    BY <1>21, <1>1, <1>2, <1>3, <1>5, <1>6, <1>7, <1>8, <1>9, <1>10, <1>11, <1>12, <1>13 DEF FlatMembers
  <2>2. FlatRefusal(raw) = FirstFailure(c4)
    BY <2>1, <1>15, <1>16, <1>17, <1>18, <1>19, <1>20
  <2> QED
    BY <1>21, <2>2, <1>4, <1>19, <1>20, NoneIsNoReason DEF Clear, Passes
<1>22. CASE FlatRefusal(raw) = None
  <2>1. /\ Passes(c1) /\ Passes(c2) /\ Passes(c3) /\ Passes(c4) /\ Passes(c5)
        /\ Passes(c6) /\ Passes(c7) /\ Passes(c8) /\ Passes(c9) /\ Passes(c10)
        /\ Passes(c11) /\ Passes(c12)
    <3>1. Passes(whole)
      BY <1>22, <1>20 DEF Passes
    <3> QED
      BY <3>1, <1>15, <1>16, <1>17, <1>18, <1>19
  <2>2. FlatMembers(raw)
    BY <2>1, <1>1, <1>2, <1>3, <1>5, <1>6, <1>7, <1>8, <1>9, <1>10, <1>11, <1>12 DEF FlatMembers
  <2> QED
    BY <1>22, <2>1, <2>2, <1>4, <1>19, <1>20, NoneIsNoReason DEF Clear, Passes
<1> QED
  BY <1>19, <1>20, <1>21, <1>22 DEF Clear, Passes

\* What a lab envelope passes.
LabMembers(raw) ==
    LET invoke == Get(raw, "invoke")
        fields == Get(invoke, "schema_fields")
    IN /\ Keys(raw) \subseteq LabKeys /\ invoke.type = "object" /\ Keys(invoke) \subseteq InvokeKeys
       /\ IsTextIn(Get(invoke, "tool_name"), ToolNames)
       /\ Nullable(fields, "object") /\ Keys(fields) \subseteq SchemaFieldKeys
       /\ \A key \in Credentials : Nullable(Get(fields, key), "string")
       /\ "argv" \in Keys(invoke) => Get(invoke, "argv").type = "array"
       /\ \A key \in Keys(LabArgs(invoke)) : LabArgs(invoke).at[key].type # "opaque"
       /\ Get(raw, "caller").type = "object"
       /\ IsTextIn(Get(Get(raw, "caller"), "identity"), Identities)
       /\ "pep_eval_id" \in Keys(raw) => IsTextIn(Get(raw, "pep_eval_id"), RequestIds)
       /\ Nullable(Get(raw, "untrusted_attachments"), "object")
       /\ Nullable(Get(raw, "policy_context"), "object")

LEMMA LabRefusalIs ==
    ASSUME NEW raw
    PROVE  LabRefusal(raw) \in Says /\ (LabRefusal(raw) = None <=> LabMembers(raw))
<1> DEFINE invoke == Get(raw, "invoke")
           fields == Get(invoke, "schema_fields")
           c1 == KeyChecks(raw, LabKeys)
           c2 == Invalid(invoke.type # "object")
           c3 == KeyChecks(invoke, InvokeKeys)
           c4 == NameChecks(Get(invoke, "tool_name"))
           c5 == Invalid(~Nullable(fields, "object"))
           c6 == KeyChecks(fields, SchemaFieldKeys)
           c7 == OptionalChecks(fields, Credentials)
           c8 == Invalid("argv" \in Keys(invoke) /\ Get(invoke, "argv").type # "array")
           c9 == ArgsChecks(LabArgs(invoke))
           c10 == Invalid(Get(raw, "caller").type # "object")
           c11 == Invalid(~IsTextIn(Get(Get(raw, "caller"), "identity"), Identities))
           c12 == RequestIdChecks(raw, "pep_eval_id")
           c13 == Invalid(~Nullable(Get(raw, "untrusted_attachments"), "object"))
           c14 == Invalid(~Nullable(Get(raw, "policy_context"), "object"))
<1>0. LabRefusal(raw) = FirstFailure(c1 \o c2 \o c3 \o c4 \o c5 \o c6 \o c7 \o c8 \o c9
                                     \o c10 \o c11 \o c12 \o c13 \o c14)
  BY DEF LabRefusal
<1>1. Clear(c1) /\ (Passes(c1) <=> Keys(raw) \subseteq LabKeys)
  BY KeyChecksAre
<1>2. Clear(c2) /\ (Passes(c2) <=> invoke.type = "object")
  BY OneCheckIs
<1>3. Clear(c3) /\ (Passes(c3) <=> Keys(invoke) \subseteq InvokeKeys)
  BY KeyChecksAre
<1>4. Clear(c4) /\ (Passes(c4) <=> IsTextIn(Get(invoke, "tool_name"), ToolNames))
  BY NameChecksAre
<1>5. Clear(c5) /\ (Passes(c5) <=> Nullable(fields, "object"))
  BY OneCheckIs
<1>6. Clear(c6) /\ (Passes(c6) <=> Keys(fields) \subseteq SchemaFieldKeys)
  BY KeyChecksAre
<1>7. Clear(c7) /\ (Passes(c7) <=> \A key \in Credentials : Nullable(Get(fields, key), "string"))
  BY SmallChecksAre
<1>8. Clear(c8) /\ (Passes(c8) <=> ("argv" \in Keys(invoke) => Get(invoke, "argv").type = "array"))
  BY OneCheckIs
<1>9. /\ Clear(c9)
      /\ Passes(c9) <=> \A key \in Keys(LabArgs(invoke)) : LabArgs(invoke).at[key].type # "opaque"
  BY SmallChecksAre
<1>10. Clear(c10) /\ (Passes(c10) <=> Get(raw, "caller").type = "object")
  BY OneCheckIs
<1>11. /\ Clear(c11)
       /\ Passes(c11) <=> IsTextIn(Get(Get(raw, "caller"), "identity"), Identities)
  BY OneCheckIs
<1>12. /\ Clear(c12)
       /\ Passes(c12)
             <=> ("pep_eval_id" \in Keys(raw) => IsTextIn(Get(raw, "pep_eval_id"), RequestIds))
  BY SmallChecksAre
<1>13. Clear(c13) /\ (Passes(c13) <=> Nullable(Get(raw, "untrusted_attachments"), "object"))
  BY OneCheckIs
<1>14. Clear(c14) /\ (Passes(c14) <=> Nullable(Get(raw, "policy_context"), "object"))
  BY OneCheckIs
<1> HIDE DEF c1, c2, c3, c4, c5, c6, c7, c8, c9, c10, c11, c12, c13, c14
<1> DEFINE r4 == c1 \o c2 \o c3 \o c4
           r7 == r4 \o c5 \o c6 \o c7
           r10 == r7 \o c8 \o c9 \o c10
           r13 == r10 \o c11 \o c12 \o c13
           whole == r13 \o c14
<1>15. Clear(r4) /\ (Passes(r4) <=> Passes(c1) /\ Passes(c2) /\ Passes(c3) /\ Passes(c4))
  BY <1>1, <1>2, <1>3, <1>4, Four
<1> HIDE DEF r4
<1>16. Clear(r7) /\ (Passes(r7) <=> Passes(r4) /\ Passes(c5) /\ Passes(c6) /\ Passes(c7))
  BY <1>5, <1>6, <1>7, <1>15, Four
<1> HIDE DEF r7
<1>17. Clear(r10) /\ (Passes(r10) <=> Passes(r7) /\ Passes(c8) /\ Passes(c9) /\ Passes(c10))
  BY <1>8, <1>9, <1>10, <1>16, Four
<1> HIDE DEF r10
<1>18. Clear(r13) /\ (Passes(r13) <=> Passes(r10) /\ Passes(c11) /\ Passes(c12) /\ Passes(c13))
  BY <1>11, <1>12, <1>13, <1>17, Four
<1> HIDE DEF r13
<1>19. Clear(whole) /\ (Passes(whole) <=> Passes(r13) /\ Passes(c14))
  BY <1>14, <1>18, Two
<1>20. LabRefusal(raw) = FirstFailure(whole)
  BY <1>0 DEF r4, r7, r10, r13
<1> HIDE DEF whole
<1>21. LabMembers(raw) <=> /\ Passes(c1) /\ Passes(c2) /\ Passes(c3) /\ Passes(c4) /\ Passes(c5)
                           /\ Passes(c6) /\ Passes(c7) /\ Passes(c8) /\ Passes(c9) /\ Passes(c10)
                           /\ Passes(c11) /\ Passes(c12) /\ Passes(c13) /\ Passes(c14)
  BY <1>1, <1>2, <1>3, <1>4, <1>5, <1>6, <1>7, <1>8, <1>9, <1>10, <1>11, <1>12, <1>13, <1>14
     DEF LabMembers
<1>22. Passes(whole) <=> LabMembers(raw)
  BY <1>15, <1>16, <1>17, <1>18, <1>19, <1>21
<1> QED
  BY <1>19, <1>20, <1>22 DEF Clear, Passes

\* What the host's parser asks of a request it accepts.
HostMembers(request) ==
    LET body == HostBody(request)
        args == Get(body, "args")
    IN /\ request.type \in {"text", "object"}
       /\ body.type = "object" /\ Keys(body) \subseteq HostKeys
       /\ IsTextIn(Get(body, "tool_name"), ToolNames)
       /\ args.type = "object" /\ \A key \in Keys(args) : args.at[key].type # "opaque"

LEMMA HostRefusalIs ==
    ASSUME NEW request
    PROVE  HostRefusal(request) \in Says /\ (HostRefusal(request) = None => HostMembers(request))
<1> DEFINE body == HostBody(request)
           args == Get(body, "args")
           d1 == Invalid(request.type \notin {"text", "object"})
           d2 == Invalid(request.type = "text" /\ \/ request.bytes > MaxBytes
                                                  \/ request.body.type \in {"broken", "empty"}
                                                  \/ request.depth > MaxDepth
                                                  \/ request.twice)
           c1 == Invalid(body.type # "object")
           c2 == KeyChecks(body, HostKeys)
           c3 == Invalid(~IsTextIn(Get(body, "tool_name"), ToolNames))
           c4 == Invalid(args.type # "object")
           c5 == ArgsChecks(args)
           c6 == Invalid(args \in Oversized)
<1>1. Clear(d1) /\ (Passes(d1) <=> request.type \in {"text", "object"})
  BY OneCheckIs
<1>2. Clear(d2)
  BY OneCheckIs
<1>3. Clear(c1) /\ (Passes(c1) <=> body.type = "object")
  BY OneCheckIs
<1>4. Clear(c2) /\ (Passes(c2) <=> Keys(body) \subseteq HostKeys)
  BY KeyChecksAre
<1>5. Clear(c3) /\ (Passes(c3) <=> IsTextIn(Get(body, "tool_name"), ToolNames))
  BY OneCheckIs
<1>6. Clear(c4) /\ (Passes(c4) <=> args.type = "object")
  BY OneCheckIs
<1>7. Clear(c5) /\ (Passes(c5) <=> \A key \in Keys(args) : args.at[key].type # "opaque")
  BY SmallChecksAre
<1>14. Clear(c6)
  <2> DEFINE longer == args \in Oversized
  <2>1. longer \in BOOLEAN
    OBVIOUS
  <2> HIDE DEF longer
  <2> QED
    BY <2>1, OneCheckIs DEF longer
<1> DEFINE d == d1 \o d2
           r4 == c1 \o c2 \o c3 \o c4
           r5 == r4 \o c5
           whole == r5 \o c6
<1>8. HostRefusal(request) = IF FirstFailure(d) # None THEN FirstFailure(d) ELSE FirstFailure(whole)
  BY DEF HostRefusal, DecodeChecks
<1> HIDE DEF d1, d2, c1, c2, c3, c4, c5, c6
<1>9. Clear(d) /\ (Passes(d) <=> Passes(d1) /\ Passes(d2))
  BY <1>1, <1>2, Two
<1>10. Clear(r4) /\ (Passes(r4) <=> Passes(c1) /\ Passes(c2) /\ Passes(c3) /\ Passes(c4))
  BY <1>3, <1>4, <1>5, <1>6, Four
<1> HIDE DEF d, r4
<1>15. Clear(r5) /\ (Passes(r5) <=> Passes(r4) /\ Passes(c5))
  BY <1>7, <1>10, Two
<1> HIDE DEF r5
<1>11. Clear(whole) /\ (Passes(whole) <=> Passes(r5) /\ Passes(c6))
  BY <1>14, <1>15, Two
<1> HIDE DEF whole
<1>12. HostRefusal(request) \in Says
  BY <1>8, <1>9, <1>11 DEF Clear
<1>13. HostRefusal(request) = None => Passes(d) /\ Passes(whole)
  BY <1>8 DEF Passes
<1> QED
  BY <1>1, <1>3, <1>4, <1>5, <1>6, <1>7, <1>9, <1>10, <1>11, <1>12, <1>13, <1>15 DEF HostMembers

\* A JSON object is decoded as it is, and so is the text of one.
LEMMA CoerceRefusalIs ==
    ASSUME NEW raw
    PROVE  /\ CoerceRefusal(raw) \in Says
           /\ CoerceRefusal(raw) = None
                <=> /\ raw # Null
                    /\ raw.type = "text" => raw.body.type \in {"object", "array"}
                    /\ raw.type = "bytes" => raw.body.type \notin {"broken", "empty"}
<1> DEFINE c1 == Invalid(raw = Null)
           c2 == Prosaic(raw.type = "text"
                         /\ raw.body.type \notin {"object", "array", "broken", "empty"})
           c3 == Invalid(raw.type \in {"text", "bytes"} /\ raw.body.type \in {"broken", "empty"})
<1>1. Clear(c1) /\ (Passes(c1) <=> raw # Null)
  BY OneCheckIs
<1>2. /\ Clear(c2)
      /\ Passes(c2) <=> (raw.type = "text" => raw.body.type \in {"object", "array", "broken", "empty"})
  BY OneCheckIs
<1>3. /\ Clear(c3)
      /\ Passes(c3) <=> (raw.type \in {"text", "bytes"} => raw.body.type \notin {"broken", "empty"})
  BY OneCheckIs
<1>4. CoerceRefusal(raw) = FirstFailure(c1 \o c2 \o c3)
  BY DEF CoerceRefusal
<1> HIDE DEF c1, c2, c3
<1>5. Clear(c1 \o c2) /\ (Passes(c1 \o c2) <=> Passes(c1) /\ Passes(c2))
  BY <1>1, <1>2, Two
<1>6. Clear(c1 \o c2 \o c3) /\ (Passes(c1 \o c2 \o c3) <=> Passes(c1 \o c2) /\ Passes(c3))
  BY <1>3, <1>5, Two
<1>7. CoerceRefusal(raw) \in Says /\ (CoerceRefusal(raw) = None <=> Passes(c1 \o c2 \o c3))
  BY <1>4, <1>6 DEF Clear, Passes
<1> QED
  BY <1>1, <1>2, <1>3, <1>5, <1>6, <1>7

LEMMA ReadyRefusalIs ==
    ASSUME NEW envelope, envelope.prose \in BOOLEAN, NEW id
    PROVE  /\ ReadyRefusal(envelope, id) \in Says
           /\ ReadyRefusal(envelope, id) = None
                <=> /\ ~envelope.prose /\ envelope.tool \in ToolNames
                    /\ envelope.caller \in Identities /\ id \in RequestIds
                    /\ envelope.args.type = "object"
<1> DEFINE c1 == Prosaic(envelope.prose)
           c2 == Invalid(envelope.tool \notin ToolNames)
           c3 == Invalid(envelope.caller \notin Identities)
           c4 == Invalid(id \notin RequestIds)
           c5 == Invalid(envelope.args.type # "object")
<1>1. Clear(c1) /\ (Passes(c1) <=> ~envelope.prose)
  BY OneCheckIs
<1>2. Clear(c2) /\ (Passes(c2) <=> envelope.tool \in ToolNames)
  BY OneCheckIs
<1>3. Clear(c3) /\ (Passes(c3) <=> envelope.caller \in Identities)
  BY OneCheckIs
<1>4. Clear(c4) /\ (Passes(c4) <=> id \in RequestIds)
  BY OneCheckIs
<1>7. Clear(c5) /\ (Passes(c5) <=> envelope.args.type = "object")
  BY OneCheckIs
<1> DEFINE r4 == c1 \o c2 \o c3 \o c4
           whole == r4 \o c5
<1>5. ReadyRefusal(envelope, id) = FirstFailure(whole)
  BY DEF ReadyRefusal
<1> HIDE DEF c1, c2, c3, c4, c5
<1>6. Clear(r4) /\ (Passes(r4) <=> Passes(c1) /\ Passes(c2) /\ Passes(c3) /\ Passes(c4))
  BY <1>1, <1>2, <1>3, <1>4, Four
<1> HIDE DEF r4
<1>8. Clear(whole) /\ (Passes(whole) <=> Passes(r4) /\ Passes(c5))
  BY <1>6, <1>7, Two
<1> HIDE DEF whole
<1> QED
  BY <1>1, <1>2, <1>3, <1>4, <1>5, <1>6, <1>7, <1>8 DEF Clear, Passes

-----------------------------------------------------------------------------
(* Capability tokens and grants.                                           *)

LEMMA RefusesIs ==
    ASSUME NEW f \in BOOLEAN, NEW r \in Reasons, NEW d \in Details
    PROVE  /\ Refuses(f, r, d) \in Checks
           /\ FirstFailure(Refuses(f, r, d)) = IF f THEN <<r, d>> ELSE None
<1>1. <<r, d>> \in Answers
  BY DEF Answers
<1> QED
  BY <1>1, One DEF Refuses

Outsider(doc, env, principal) ==
    \/ principal \notin Holders(Capability(doc, env.token))
    \/ env.caller # principal

Denials == (Reasons \X Details) \cup {None}
Denies(s) == s \in Checks /\ FirstFailure(s) \in Denials

LEMMA TwoDenials ==
    ASSUME NEW s, Denies(s), NEW t, Denies(t)
    PROVE  Denies(s \o t) /\ (Passes(s \o t) <=> Passes(s) /\ Passes(t))
BY Then DEF Denies, Passes

LEMMA OneDenialIs ==
    ASSUME NEW f \in BOOLEAN, NEW r \in Reasons, NEW d \in Details
    PROVE  Denies(Refuses(f, r, d)) /\ (Passes(Refuses(f, r, d)) <=> ~f)
<1>1. <<r, d>> \in Reasons \X Details /\ None \notin Reasons \X Details
  BY EvaluationAssumption
<1> QED
  BY <1>1, RefusesIs DEF Denies, Denials, Passes

LEMMA RecordChecksAre ==
    ASSUME NEW record, NEW token, NEW tool, NEW required, NEW clock
    PROVE  /\ Denies(RecordChecks(record, token, tool, required, clock))
           /\ Passes(RecordChecks(record, token, tool, required, clock)) =>
                  /\ record.expires \notin {None, Malformed}
                  /\ ~(record.expires \in Nat /\ record.expires <= clock)
                  /\ record.tools # Malformed /\ tool \in record.tools
                  /\ required \in {None, token}
<1> DEFINE c1 == Refuses(record.expires \in {None, Malformed}, "capability_missing", "no usable expiry")
           c2 == Refuses(record.expires \in Nat /\ record.expires <= clock, "capability_missing", "expired")
           c3 == Refuses(record.tools = Malformed, "raised", "TypeError")
           c4 == Refuses(record.tools # Malformed /\ tool \notin record.tools,
                         "capability_missing", "does not cover tool")
           c5 == Refuses(required # None /\ token # required, "policy_miss", "does not match tool")
<1>0. /\ "capability_missing" \in Reasons /\ "raised" \in Reasons /\ "policy_miss" \in Reasons
      /\ "no usable expiry" \in Details /\ "expired" \in Details /\ "TypeError" \in Details
      /\ "does not cover tool" \in Details /\ "does not match tool" \in Details
  BY DEF Reasons, Details
<1>1. Denies(c1) /\ (Passes(c1) <=> record.expires \notin {None, Malformed})
  <2> DEFINE f == record.expires \in {None, Malformed}
  <2>1. f \in BOOLEAN
    OBVIOUS
  <2> HIDE DEF f
  <2>2. /\ Denies(Refuses(f, "capability_missing", "no usable expiry"))
        /\ Passes(Refuses(f, "capability_missing", "no usable expiry")) <=> ~f
    BY <1>0, <2>1, OneDenialIs
  <2> QED
    BY <2>2 DEF f
<1>2. Denies(c2) /\ (Passes(c2) <=> ~(record.expires \in Nat /\ record.expires <= clock))
  BY <1>0, OneDenialIs
<1>3. Denies(c3) /\ (Passes(c3) <=> record.tools # Malformed)
  BY <1>0, OneDenialIs
<1>4. Denies(c4) /\ (Passes(c4) <=> ~(record.tools # Malformed /\ tool \notin record.tools))
  BY <1>0, OneDenialIs
<1>5. Denies(c5) /\ (Passes(c5) <=> required \in {None, token})
  BY <1>0, OneDenialIs
<1>6. RecordChecks(record, token, tool, required, clock) = c1 \o c2 \o c3 \o c4 \o c5
  BY DEF RecordChecks
<1> HIDE DEF c1, c2, c3, c4, c5
<1>7. Denies(c1 \o c2) /\ (Passes(c1 \o c2) <=> Passes(c1) /\ Passes(c2))
  BY <1>1, <1>2, TwoDenials
<1>8. Denies(c1 \o c2 \o c3) /\ (Passes(c1 \o c2 \o c3) <=> Passes(c1 \o c2) /\ Passes(c3))
  BY <1>3, <1>7, TwoDenials
<1>9. /\ Denies(c1 \o c2 \o c3 \o c4)
      /\ Passes(c1 \o c2 \o c3 \o c4) <=> Passes(c1 \o c2 \o c3) /\ Passes(c4)
  BY <1>4, <1>8, TwoDenials
<1>10. /\ Denies(c1 \o c2 \o c3 \o c4 \o c5)
       /\ Passes(c1 \o c2 \o c3 \o c4 \o c5) <=> Passes(c1 \o c2 \o c3 \o c4) /\ Passes(c5)
  BY <1>5, <1>9, TwoDenials
<1> QED
  BY <1>1, <1>2, <1>3, <1>4, <1>5, <1>6, <1>7, <1>8, <1>9, <1>10

LEMMA CapabilityDenyIs ==
    ASSUME NEW doc, NEW env, NEW principal
    PROVE  LET denial == CapabilityDeny(doc, env, Now, principal)
               record == Capability(doc, env.token)
           IN /\ denial \in (Reasons \X Details) \cup {None}
              /\ Outsider(doc, env, principal) =>
                     denial = <<"capability_missing",
                                IF principal = None THEN "no attested principal"
                                ELSE "not valid for this caller">>
              /\ denial = None =>
                     /\ principal # None /\ ~Outsider(doc, env, principal)
                     /\ record.expires \notin {None, Malformed}
                     /\ ~(record.expires \in Nat /\ record.expires <= Now)
                     /\ env.tool \in record.tools
                     /\ doc.tools[env.tool].required \in {None, env.token}
<1> DEFINE record == Capability(doc, env.token)
           f1 == principal = None
           f2 == principal \notin Holders(record) \/ env.caller # principal
           checks == RecordChecks(record, env.token, env.tool, doc.tools[env.tool].required, Now)
           c1 == Refuses(f1, "capability_missing", "no attested principal")
           c2 == Refuses(f2, "capability_missing", "not valid for this caller")
           c3 == IF f2 THEN << >> ELSE checks
<1>1. CapabilityDeny(doc, env, Now, principal) = FirstFailure(c1 \o c2 \o c3)
  BY DEF CapabilityDeny
<1>2. /\ "capability_missing" \in Reasons
      /\ {"no attested principal", "not valid for this caller"} \subseteq Details
  BY DEF Reasons, Details
<1>3. /\ <<"capability_missing", "no attested principal">> \in Reasons \X Details
      /\ <<"capability_missing", "not valid for this caller">> \in Reasons \X Details
      /\ None \notin Reasons \X Details
  BY <1>2, EvaluationAssumption
<1>4. /\ c1 \in Checks /\ c2 \in Checks
      /\ FirstFailure(c1) = IF f1 THEN <<"capability_missing", "no attested principal">> ELSE None
      /\ FirstFailure(c2) = IF f2 THEN <<"capability_missing", "not valid for this caller">> ELSE None
  BY <1>2, RefusesIs
<1>5. /\ checks \in Checks
      /\ FirstFailure(checks) \in (Reasons \X Details) \cup {None}
      /\ FirstFailure(checks) = None =>
             /\ record.expires \notin {None, Malformed}
             /\ ~(record.expires \in Nat /\ record.expires <= Now)
             /\ env.tool \in record.tools
             /\ doc.tools[env.tool].required \in {None, env.token}
  BY RecordChecksAre DEF Denies, Denials, Passes
<1> HIDE DEF c1, c2, checks
<1>6. /\ c3 \in Checks
      /\ FirstFailure(c3) = IF f2 THEN None ELSE FirstFailure(checks)
  BY <1>5, NoChecks
<1> HIDE DEF c3
<1>7. /\ c1 \o c2 \in Checks
      /\ FirstFailure(c1 \o c2) = IF FirstFailure(c1) # None THEN FirstFailure(c1) ELSE FirstFailure(c2)
  BY <1>4, Then
<1>8. FirstFailure(c1 \o c2 \o c3)
        = IF FirstFailure(c1 \o c2) # None THEN FirstFailure(c1 \o c2) ELSE FirstFailure(c3)
  BY <1>6, <1>7, Then
<1>9. f2 <=> Outsider(doc, env, principal)
  BY DEF Outsider
<1> HIDE DEF f2, record
<1> QED
  BY <1>1, <1>3, <1>4, <1>5, <1>6, <1>7, <1>8, <1>9 DEF record

LEMMA ConsumeReasonIs ==
    ASSUME NEW env, NEW principal
    PROVE  /\ ConsumeReason(env, principal) \in Reasons \cup {None}
           /\ ConsumeReason(env, principal) = None =>
                  /\ env.approval \in DOMAIN Grants
                  /\ GrantHolds(Grants[env.approval], env, principal)
<1>1. CASE env.approval \notin DOMAIN Grants
  BY <1>1, NoneIsNoReason DEF ConsumeReason, Reasons
<1>2. CASE env.approval \in DOMAIN Grants
  <2> DEFINE grant == Grants[env.approval]
             c1 == [fails |-> principal # grant.principal \/ env.caller # principal,
                    reason |-> "approval_principal_mismatch"]
             c2 == [fails |-> grant.revoked, reason |-> "approval_revoked"]
             c3 == [fails |-> grant.consumed, reason |-> "approval_consumed"]
             c4 == [fails |-> grant.expires <= Now, reason |-> "approval_expired"]
             c5 == [fails |-> <<env.tool, env.args>> # grant.binding,
                    reason |-> "approval_binding_mismatch"]
             c6 == [fails |-> grant.state \notin {None, env.state},
                    reason |-> "approval_state_mismatch"]
             checks == <<c1, c2, c3, c4, c5, c6>>
  <2>1. grant.revoked \in BOOLEAN /\ grant.consumed \in BOOLEAN /\ grant.expires \in Nat /\ Now \in Nat
    BY <1>2, EvaluationAssumption
  <2>2. ConsumeReason(env, principal) = FirstFailure(checks)
    BY <1>2 DEF ConsumeReason
  <2>3. /\ c1.fails <=> principal # grant.principal \/ env.caller # principal
        /\ c2.fails <=> grant.revoked
        /\ c3.fails <=> grant.consumed
        /\ c4.fails <=> grant.expires <= Now
        /\ c5.fails <=> <<env.tool, env.args>> # grant.binding
        /\ c6.fails <=> grant.state \notin {None, env.state}
    OBVIOUS
  <2> DEFINE Plain == [fails : BOOLEAN, reason : Reasons]
  <2>4. c1 \in Plain /\ c2 \in Plain /\ c3 \in Plain /\ c4 \in Plain /\ c5 \in Plain /\ c6 \in Plain
    <3>1. {"approval_principal_mismatch", "approval_revoked", "approval_consumed", "approval_expired",
           "approval_binding_mismatch", "approval_state_mismatch"} \subseteq Reasons
      BY DEF Reasons
    <3>2. c1 \in Plain
      BY <3>1
    <3>3. c2 \in Plain
      BY <3>1, <2>1
    <3>4. c3 \in Plain
      BY <3>1, <2>1
    <3>5. c4 \in Plain
      BY <3>1
    <3>6. c5 \in Plain
      BY <3>1
    <3>7. c6 \in Plain
      BY <3>1
    <3> QED
      BY <3>2, <3>3, <3>4, <3>5, <3>6, <3>7
  <2> HIDE DEF c1, c2, c3, c4, c5, c6
  <2>5. /\ checks \in Checks /\ Len(checks) = 6
        /\ checks[1] = c1 /\ checks[2] = c2 /\ checks[3] = c3
        /\ checks[4] = c4 /\ checks[5] = c5 /\ checks[6] = c6
    <3>1. \A c \in {c1, c2, c3, c4, c5, c6} : c \in Check
      BY <2>4 DEF Check, Answers
    <3> QED
      BY <3>1 DEF Checks
  <2> HIDE DEF checks
  <2>6. \A i \in 1..6 : checks[i].reason \in Reasons
    BY <2>4, <2>5
  <2>7. FirstFailure(checks) \in Reasons \cup {None}
    BY <2>5, <2>6, FirstFailureIs
  <2>8. ASSUME FirstFailure(checks) = None PROVE GrantHolds(grant, env, principal)
    <3>0. \A i \in 1..6 : checks[i].reason # None
      BY <2>6, NoneIsNoReason
    <3>1. \A i \in 1..6 : ~checks[i].fails
      BY <2>5, <2>8, <3>0, FirstFailureIs
    <3>2. ~c1.fails /\ ~c2.fails /\ ~c3.fails /\ ~c4.fails /\ ~c5.fails /\ ~c6.fails
      BY <3>1, <2>5
    <3> QED
      BY <3>2, <2>1, <2>3 DEF GrantHolds
  <2> QED
    BY <1>2, <2>2, <2>7, <2>8
<1> QED
  BY <1>1, <1>2

-----------------------------------------------------------------------------
(* What an allowed call has passed.                                        *)

IsRaw(raw) == Coerced(raw).type = "envelope" => Coerced(raw).envelope.prose \in BOOLEAN

LEMMA ParseRefusalIs == ASSUME NEW raw, IsRaw(raw) PROVE ParseRefusal(raw) \in Says
<1>1. "envelope_invalid" \in Says
  BY DEF Says
<1>2. CASE CoerceRefusal(raw) # None
  BY <1>2, CoerceRefusalIs DEF ParseRefusal
<1>3. CASE CoerceRefusal(raw) = None
  BY <1>1, <1>3, ReadyRefusalIs, LabRefusalIs, FlatRefusalIs DEF ParseRefusal, IsRaw
<1> QED
  BY <1>2, <1>3

LEMMA DeniedIsDenied ==
    /\ \A r \in Reasons : Denied(r) # Allowed
    /\ \A d \in Reasons \X Details : d # Allowed
    /\ \A r \in Says \ {None} : r \in Reasons
<1>1. "allowed" \notin Reasons
  BY DEF Reasons
<1>2. \A r \in Reasons : Denied(r) # Allowed
  BY <1>1 DEF Denied, Allowed
<1>3. ASSUME NEW d \in Reasons \X Details PROVE d # Allowed
  <2>1. d[1] \in Reasons
    OBVIOUS
  <2>2. Allowed[1] = "allowed"
    BY DEF Allowed
  <2> QED
    BY <1>1, <2>1, <2>2
<1>4. \A r \in Says \ {None} : r \in Reasons
  BY DEF Says, Reasons
<1> QED
  BY <1>2, <1>3, <1>4

LEMMA EvaluateIs ==
    ASSUME NEW doc, NEW raw, IsRaw(raw), NEW principal, NEW mode,
           Evaluate(doc, raw, principal, mode) = Allowed
    PROVE  /\ mode = "active" /\ ParseRefusal(raw) = None
           /\ ParsedResponse(doc, Parse(raw), principal) = Allowed
<1>1. mode = "active"
  <2>1. "suspend_active" \in Reasons /\ "kill_active" \in Reasons
    BY DEF Reasons
  <2> QED
    BY <2>1, DeniedIsDenied DEF Evaluate
<1>2. ParseRefusal(raw) = None
  BY <1>1, ParseRefusalIs, DeniedIsDenied DEF Evaluate
<1> QED
  BY <1>1, <1>2 DEF Evaluate

LEMMA CredentialChecksAre ==
    ASSUME NEW doc, NEW env, NEW principal
    PROVE  /\ CredentialChecks(doc, env, principal) \in Denials
           /\ CredentialChecks(doc, env, principal) = None =>
                  \/ /\ env.token \notin {None, ""}
                     /\ CapabilityDeny(doc, env, Now, principal) = None
                  \/ env.token \in {None, ""} /\ env.approval # None
<1>1. CapabilityDeny(doc, env, Now, principal) \in Denials
  BY CapabilityDenyIs DEF Denials
<1>2. Denied("capability_missing") \in Reasons \X Details /\ None \notin Reasons \X Details
  BY EvaluationAssumption DEF Denied, Reasons, Details
<1> QED
  BY <1>1, <1>2 DEF CredentialChecks, Denials

LEMMA ParsedResponseIs ==
    ASSUME NEW doc, NEW env, NEW principal, ParsedResponse(doc, env, principal) = Allowed
    PROVE  /\ env.tool \in AllowedTools(doc)
           /\ CredentialChecks(doc, env, principal) = None
           /\ env.approval # None => ConsumeReason(env, principal) = None
<1>1. principal \in Identities \cup {None}
  BY DeniedIsDenied DEF ParsedResponse, Reasons
<1>2. doc.loaded
  BY <1>1, DeniedIsDenied DEF ParsedResponse, Reasons
<1>3. CatalogReason(doc, env) = None
  <2>1. CatalogReason(doc, env) \in Reasons \cup {None}
    BY DEF CatalogReason, Reasons
  <2> QED
    BY <1>1, <1>2, <2>1, DeniedIsDenied DEF ParsedResponse
<1>4. env.tool \in AllowedTools(doc)
  BY <1>3, NoneIsNoReason DEF CatalogReason, Reasons
<1>5. CredentialChecks(doc, env, principal) = None
  BY <1>1, <1>2, <1>3, CredentialChecksAre, DeniedIsDenied DEF ParsedResponse, Denials
<1>6. env.approval # None => ConsumeReason(env, principal) = None
  <2>1. ArgsMatchSchema(env.args, doc.tools[env.tool].schema)
    BY <1>1, <1>2, <1>3, <1>5, DeniedIsDenied DEF ParsedResponse, Reasons
  <2> QED
    BY <1>1, <1>2, <1>3, <1>5, <2>1, ConsumeReasonIs, DeniedIsDenied DEF ParsedResponse
<1> QED
  BY <1>4, <1>5, <1>6

LEMMA TokenEarned ==
    ASSUME NEW doc \in Policies, NEW env, NEW principal,
           CapabilityDeny(doc, env, Now, principal) = None
    PROVE  TokenHolds(doc, env, principal) /\ env.token \in DOMAIN doc.tokens
<1> DEFINE record == Capability(doc, env.token)
<1>1. /\ principal # None /\ ~Outsider(doc, env, principal)
      /\ record.expires \notin {None, Malformed}
      /\ ~(record.expires \in Nat /\ record.expires <= Now)
      /\ env.tool \in record.tools
      /\ doc.tools[env.tool].required \in {None, env.token}
  BY CapabilityDenyIs
<1>2. principal \in Holders(record) /\ env.caller = principal
  BY <1>1 DEF Outsider
<1>3. record # None
  BY <1>2 DEF Holders
<1>4. doc.tokens # Malformed /\ env.token \in DOMAIN doc.tokens /\ record = doc.tokens[env.token]
  BY <1>3 DEF Capability
<1>5. record.expires \in Nat
  <2>1. doc.tokens[env.token].expires \in Nat \cup {None, Malformed}
    BY <1>3, <1>4, EvaluationAssumption
  <2> QED
    BY <1>1, <1>4, <2>1
<1>6. record.expires > Now
  BY <1>1, <1>5, EvaluationAssumption
<1> HIDE DEF record
<1> QED
  BY <1>1, <1>2, <1>3, <1>4, <1>5, <1>6 DEF TokenHolds, record

-----------------------------------------------------------------------------
(* The inductive invariant.                                                *)

(* Whatever has been answered was answered by the parsers and the checks   *)
(* under the policy in force, to a question that may be asked.             *)
THEOREM AnswersAreGiven == Spec => []EvaluationInv
<1>1. Init => EvaluationInv
  BY DEF Init, EvaluationInv, Asked, Answered
<1>2. EvaluationInv /\ [Next]_vars => EvaluationInv'
  <2> SUFFICES ASSUME EvaluationInv, [Next]_vars PROVE EvaluationInv'
    OBVIOUS
  <2> USE DEF EvaluationInv, Asked, Answered, Respond
  <2>1. CASE Ask
    <3>1. \A text : Scan(text).kind = "text" /\ Scan(text).text = text
      BY DEF Scan
    <3>2. \A q \in Questions : q.kind \in {"library", "host"}
      BY EvaluationAssumption
    <3> QED
      BY <2>1, <3>1, <3>2 DEF Ask
  <2>2. CASE AnswerCall
    BY <2>2 DEF AnswerCall
  <2>3. CASE AnswerRequest
    BY <2>3 DEF AnswerRequest
  <2>4. CASE ScanText
    BY <2>4 DEF ScanText
  <2>5. CASE UNCHANGED vars
    BY <2>5 DEF vars
  <2> QED
    BY <2>1, <2>2, <2>3, <2>4, <2>5 DEF Next
<1> QED
  BY <1>1, <1>2, PTL DEF Spec

-----------------------------------------------------------------------------
(* The scan of a text.                                                     *)

\* What holds of 0, and of k + 1 if it holds of k, holds up to n.
LEMMA UpTo ==
    ASSUME NEW n \in Nat, NEW S, 0 \in S, \A k \in 0..n : k \in S /\ k + 1 <= n => k + 1 \in S
    PROVE  0..n \subseteq S
<1> DEFINE T == {k \in 0..n : k \notin S}
<1> SUFFICES ASSUME T # {} PROVE FALSE
  OBVIOUS
<1>1. Min(T) \in T /\ \A y \in T : Min(T) <= y
  BY MinIs
<1>2. Min(T) \in 0..n /\ Min(T) # 0
  BY <1>1
<1> DEFINE k == Min(T) - 1
<1>3. k \in 0..n /\ k + 1 = Min(T)
  BY <1>2
<1>4. k \in S
  BY <1>1, <1>3
<1> QED
  BY <1>1, <1>3, <1>4

\* A recursion over numbers has a value.
IsRecursion(f, n, S, a, step) ==
    f \in [0..n -> S] /\ f[0] = a /\ \A i \in 1..n : f[i] = step[i][f[i - 1]]

LEMMA RecursionIs ==
    ASSUME NEW n \in Nat, NEW S, NEW a \in S, NEW step \in [1..n -> [S -> S]]
    PROVE  \E f : IsRecursion(f, n, S, a, step)
<1> DEFINE Good(k, f) == f[0] = a /\ \A i \in 1..k : f[i] = step[i][f[i - 1]]
           K == {k \in 0..n : \E f \in [0..k -> S] : Good(k, f)}
<1>1. 0 \in K
  <2> DEFINE f == [i \in 0..0 |-> a]
  <2>1. f \in [0..0 -> S] /\ Good(0, f)
    OBVIOUS
  <2>2. 0 \in 0..n
    OBVIOUS
  <2> HIDE DEF f, Good
  <2> QED
    BY <2>1, <2>2
<1>2. ASSUME NEW k \in 0..n, k \in K, k + 1 <= n PROVE k + 1 \in K
  <2>1. PICK g \in [0..k -> S] : Good(k, g)
    BY <1>2
  <2> DEFINE f == [i \in 0..(k + 1) |-> IF i <= k THEN g[i] ELSE step[k + 1][g[k]]]
  <2>2. step[k + 1][g[k]] \in S
    BY <1>2
  <2>3. f \in [0..(k + 1) -> S]
    BY <2>2
  <2>4. ASSUME NEW i \in 1..(k + 1) PROVE f[i] = step[i][f[i - 1]]
    <3>1. CASE i <= k
      <4>1. f[i] = g[i] /\ f[i - 1] = g[i - 1] /\ i \in 1..k
        BY <3>1
      <4> QED
        BY <2>1, <4>1
    <3>2. CASE ~(i <= k)
      <4>1. i = k + 1 /\ i - 1 = k
        BY <3>2
      <4>2. f[k + 1] = step[k + 1][g[k]] /\ f[k] = g[k]
        OBVIOUS
      <4> QED
        BY <4>1, <4>2
    <3> QED
      BY <3>1, <3>2
  <2>5. f[0] = a
    BY <2>1
  <2>6. Good(k + 1, f)
    BY <2>4, <2>5
  <2> HIDE DEF f, Good
  <2> QED
    BY <1>2, <2>3, <2>6
<1> HIDE DEF K
<1>3. 0..n \subseteq K
  BY <1>1, <1>2, UpTo
<1>4. n \in K
  BY <1>3
<1> QED
  BY <1>4 DEF K, IsRecursion

LEMMA InsideIs ==
    ASSUME NEW text \in Seq(STRING)
    PROVE  LET inside == Inside(text)
           IN /\ inside \in [0..Len(text) -> BOOLEAN] /\ inside[0] = FALSE
              /\ \A i \in 1..Len(text) :
                     inside[i] = IF text[i] # "\"" THEN inside[i - 1]
                                 ELSE \/ inside[i - 1] /\ Cardinality(Slashes(text, i - 1)) % 2 = 1
                                      \/ ~inside[i - 1]
<1> DEFINE n == Len(text)
           truths == BOOLEAN
           no == FALSE
           Step(b, i) == IF text[i] # "\"" THEN b
                         ELSE (b /\ Cardinality(Slashes(text, i - 1)) % 2 = 1) \/ ~b
           Body(f) == [i \in 0..n |-> IF i = 0 THEN no ELSE Step(f[i - 1], i)]
           next == [i \in 1..n |-> [b \in truths |-> Step(b, i)]]
           inside == Inside(text)
<1>1. n \in Nat
  OBVIOUS
<1>2. no \in truths /\ \A b \in truths, i \in 1..n : Step(b, i) \in truths
  OBVIOUS
<1>3. inside = CHOOSE g : g = Body(g)
  BY DEF Inside
<1> HIDE DEF n, truths, no, Step, inside
<1>4. next \in [1..n -> [truths -> truths]] /\ \A b \in truths, i \in 1..n : next[i][b] = Step(b, i)
  BY <1>2
<1> HIDE DEF next
<1>5. PICK f : IsRecursion(f, n, truths, no, next)
  <2>1. no \in truths
    BY <1>2
  <2>2. next \in [1..n -> [truths -> truths]]
    BY <1>4
  <2> QED
    BY <1>1, <2>1, <2>2, RecursionIs
<1>6. f \in [0..n -> truths] /\ f[0] = no /\ \A i \in 1..n : f[i] = next[i][f[i - 1]]
  BY <1>5 DEF IsRecursion
<1>7. ASSUME NEW i \in 1..n PROVE i - 1 \in 0..n /\ f[i] = Step(f[i - 1], i)
  <2>1. i - 1 \in 0..n
    BY <1>1
  <2>2. f[i - 1] \in truths /\ f[i] = next[i][f[i - 1]]
    BY <1>6, <2>1
  <2> QED
    BY <1>4, <2>1, <2>2
<1>8. f = Body(f)
  <2>1. \A i \in 0..n : i = 0 \/ i \in 1..n
    BY <1>1
  <2>2. \A i \in 0..n : f[i] = Body(f)[i]
    BY <1>6, <1>7, <2>1
  <2> QED
    BY <1>6, <2>2
<1>9. inside = Body(inside)
  <2> HIDE DEF Body
  <2> QED
    BY <1>3, <1>8
<1>10. DOMAIN inside = 0..n /\ inside[0] = no /\ \A i \in 1..n : inside[i] = Step(inside[i - 1], i)
  BY <1>1, <1>9
<1>11. \A i \in 0..n : inside[i] = f[i]
  <2> DEFINE S == {i \in 0..n : inside[i] = f[i]}
  <2>1. 0 \in S
    BY <1>1, <1>6, <1>10
  <2>2. ASSUME NEW k \in 0..n, k \in S, k + 1 <= n PROVE k + 1 \in S
    <3>1. k + 1 \in 1..n /\ k + 1 \in 0..n /\ (k + 1) - 1 = k
      BY <1>1, <2>2
    <3> QED
      BY <1>7, <1>10, <2>2, <3>1
  <2> HIDE DEF S
  <2>3. 0..n \subseteq S
    BY <1>1, <2>1, <2>2, UpTo
  <2> QED
    BY <2>3 DEF S
<1>12. inside = f
  BY <1>6, <1>9, <1>10, <1>11
<1>13. inside \in [0..n -> truths]
  BY <1>6, <1>12
<1> QED
  BY <1>10, <1>13 DEF inside, Step, n, truths, no

ScanState == [depth : Nat, inString : BOOLEAN, escape : BOOLEAN, exceeds : BOOLEAN]

\* What a character adds to the depth.
Step(char) == (IF char \in Opening THEN 1 ELSE 0) - (IF char \in Closing THEN 1 ELSE 0)

LEMMA ReadIs ==
    ASSUME NEW scan \in ScanState, NEW char, NEW limit \in Nat
    PROVE  LET read == Read(scan, char, limit)
           IN /\ read \in ScanState
              /\ scan.inString =>
                     /\ read.depth = scan.depth /\ read.exceeds = scan.exceeds
                     /\ read.escape <=> ~scan.escape /\ char = "\\"
                     /\ read.inString <=> scan.escape \/ char # "\""
              /\ ~scan.inString =>
                     /\ read.depth = IF scan.depth + Step(char) < 0 THEN 0 ELSE scan.depth + Step(char)
                     /\ read.exceeds <=> scan.exceeds \/ read.depth > limit
                     /\ read.escape = scan.escape
                     /\ read.inString <=> char = "\""
<1> DEFINE depth == scan.depth + (IF char \in Opening THEN 1 ELSE 0)
                               - (IF char \in Closing /\ scan.depth > 0 THEN 1 ELSE 0)
           read == Read(scan, char, limit)
<1>1. /\ scan = [depth |-> scan.depth, inString |-> scan.inString,
                 escape |-> scan.escape, exceeds |-> scan.exceeds]
      /\ scan.depth \in Nat /\ scan.inString \in BOOLEAN
      /\ scan.escape \in BOOLEAN /\ scan.exceeds \in BOOLEAN
  BY DEF ScanState
<1>2. char \in Opening => char \notin Closing
  BY DEF Opening, Closing
<1>3. depth \in Nat /\ depth = IF scan.depth + Step(char) < 0 THEN 0 ELSE scan.depth + Step(char)
  BY <1>1, <1>2 DEF Step
<1> HIDE DEF depth
<1>4. CASE scan.inString
  <2>1. read = [scan EXCEPT !.escape = ~scan.escape /\ char = "\\",
                            !.inString = scan.escape \/ char # "\""]
    BY <1>4 DEF Read
  <2> QED
    BY <1>1, <1>4, <2>1 DEF ScanState
<1>5. CASE ~scan.inString
  <2>1. read = [scan EXCEPT !.inString = char = "\"", !.depth = depth,
                            !.exceeds = scan.exceeds \/ depth > limit]
    BY <1>5 DEF Read, depth
  <2> QED
    BY <1>1, <1>3, <1>5, <2>1 DEF ScanState
<1> QED
  BY <1>4, <1>5

LEMMA ScannedIs ==
    ASSUME NEW text \in Seq(STRING), NEW limit \in Nat
    PROVE  LET scan == Scanned(text, limit)
           IN /\ scan \in [0..Len(text) -> ScanState] /\ scan[0] = Start
              /\ \A i \in 1..Len(text) : scan[i] = Read(scan[i - 1], text[i], limit)
<1> DEFINE n == Len(text)
           Body(f) == [i \in 0..n |-> IF i = 0 THEN Start ELSE Read(f[i - 1], text[i], limit)]
           next == [i \in 1..n |-> [s \in ScanState |-> Read(s, text[i], limit)]]
           scan == Scanned(text, limit)
<1>1. n \in Nat
  OBVIOUS
<1>2. Start \in ScanState /\ \A s \in ScanState, i \in 1..n : Read(s, text[i], limit) \in ScanState
  BY ReadIs DEF Start, ScanState
<1>3. scan = CHOOSE g : g = Body(g)
  BY DEF Scanned
<1> HIDE DEF n, scan
<1>4. /\ next \in [1..n -> [ScanState -> ScanState]]
      /\ \A s \in ScanState, i \in 1..n : next[i][s] = Read(s, text[i], limit)
  BY <1>2
<1> HIDE DEF next
<1>5. PICK f : IsRecursion(f, n, ScanState, Start, next)
  BY <1>1, <1>2, <1>4, RecursionIs
<1>6. /\ f \in [0..n -> ScanState] /\ f[0] = Start
      /\ \A i \in 1..n : f[i] = next[i][f[i - 1]]
  BY <1>5 DEF IsRecursion
<1>7. ASSUME NEW i \in 1..n PROVE i - 1 \in 0..n /\ f[i] = Read(f[i - 1], text[i], limit)
  <2>1. i - 1 \in 0..n
    BY <1>1
  <2>2. f[i - 1] \in ScanState /\ f[i] = next[i][f[i - 1]]
    BY <1>6, <2>1
  <2> QED
    BY <1>4, <2>1, <2>2
<1>8. f = Body(f)
  <2>1. \A i \in 0..n : i = 0 \/ i \in 1..n
    BY <1>1
  <2>2. \A i \in 0..n : f[i] = Body(f)[i]
    BY <1>6, <1>7, <2>1
  <2> QED
    BY <1>6, <2>2
<1>9. scan = Body(scan)
  <2> HIDE DEF Body
  <2> QED
    BY <1>3, <1>8
<1>10. /\ DOMAIN scan = 0..n /\ scan[0] = Start
       /\ \A i \in 1..n : scan[i] = Read(scan[i - 1], text[i], limit)
  BY <1>1, <1>9
<1>11. \A i \in 0..n : scan[i] = f[i]
  <2> DEFINE S == {i \in 0..n : scan[i] = f[i]}
  <2>1. 0 \in S
    BY <1>1, <1>6, <1>10
  <2>2. ASSUME NEW k \in 0..n, k \in S, k + 1 <= n PROVE k + 1 \in S
    <3>1. k + 1 \in 1..n /\ k + 1 \in 0..n /\ (k + 1) - 1 = k
      BY <1>1, <2>2
    <3> QED
      BY <1>7, <1>10, <2>2, <3>1
  <2> HIDE DEF S
  <2>3. 0..n \subseteq S
    BY <1>1, <2>1, <2>2, UpTo
  <2> QED
    BY <2>3 DEF S
<1>12. scan \in [0..n -> ScanState]
  <2>1. scan = f
    BY <1>6, <1>9, <1>10, <1>11
  <2> QED
    BY <1>6, <2>1
<1> QED
  BY <1>10, <1>12 DEF scan, n

\* Characters are counted one by one.
LEMMA AmongIs ==
    ASSUME NEW text \in Seq(STRING), NEW chars, NEW i \in Nat \ {0}, NEW k \in Nat
    PROVE  /\ Among(text, chars, i, k) \in Nat
           /\ k < i => Among(text, chars, i, k) = 0
           /\ i <= k + 1 =>
                  Among(text, chars, i, k + 1)
                    = Among(text, chars, i, k)
                      + IF ~Inside(text)[k] /\ text[k + 1] \in chars THEN 1 ELSE 0
<1> DEFINE Counts(m) == ~Inside(text)[m - 1] /\ text[m] \in chars
           Set(j) == {m \in i..j : Counts(m)}
<1>1. \A j \in Nat : Set(j) \subseteq i..j /\ IsFiniteSet(i..j)
  BY FS_Interval
<1>2. \A j \in Nat : IsFiniteSet(Set(j))
  BY <1>1, FS_Subset
<1>3. \A j : Among(text, chars, i, j) = Cardinality(Set(j))
  BY DEF Among
<1>4. Counts(k + 1) <=> ~Inside(text)[k] /\ text[k + 1] \in chars
  OBVIOUS
<1> HIDE DEF Counts
<1>5. k < i => Set(k) = {}
  OBVIOUS
<1>6. i <= k + 1 => Set(k + 1) = IF Counts(k + 1) THEN Set(k) \cup {k + 1} ELSE Set(k)
  <2> SUFFICES ASSUME i <= k + 1
               PROVE  Set(k + 1) = IF Counts(k + 1) THEN Set(k) \cup {k + 1} ELSE Set(k)
    OBVIOUS
  <2>1. i..(k + 1) = (i..k) \cup {k + 1}
    OBVIOUS
  <2> QED
    BY <2>1
<1>7. k + 1 \notin Set(k)
  OBVIOUS
<1> HIDE DEF Set
<1>8. Cardinality({}) = 0 /\ Cardinality(Set(k)) \in Nat
  BY <1>2, FS_EmptySet, FS_CardinalityType
<1>9. Cardinality(Set(k) \cup {k + 1}) = Cardinality(Set(k)) + 1
  BY <1>2, <1>7, FS_AddElement
<1>10. Among(text, chars, i, k) \in Nat /\ (k < i => Among(text, chars, i, k) = 0)
  BY <1>3, <1>5, <1>8
<1>11. ASSUME i <= k + 1
       PROVE  Among(text, chars, i, k + 1)
                = Among(text, chars, i, k) + IF Counts(k + 1) THEN 1 ELSE 0
  BY <1>3, <1>6, <1>8, <1>9, <1>11
<1> QED
  BY <1>4, <1>10, <1>11

\* A row of backslashes grows by one, and any other character ends it.
LEMMA SlashesAre ==
    ASSUME NEW text, NEW k \in Nat
    PROVE  /\ text[k + 1] # "\\" => Cardinality(Slashes(text, k + 1)) % 2 # 1
           /\ text[k + 1] = "\\" =>
                  (Cardinality(Slashes(text, k + 1)) % 2 = 1) <=> (Cardinality(Slashes(text, k)) % 2 # 1)
<1>1. IsFiniteSet(Slashes(text, k)) /\ Slashes(text, k) \subseteq 1..k
  <2>1. Slashes(text, k) \subseteq 1..k
    BY DEF Slashes
  <2> QED
    BY <2>1, FS_Interval, FS_Subset
<1>2. CASE text[k + 1] # "\\"
  <2>1. Slashes(text, k + 1) = {}
    BY <1>2 DEF Slashes
  <2> QED
    BY <1>2, <2>1, FS_EmptySet
<1>3. CASE text[k + 1] = "\\"
  <2>1. Slashes(text, k + 1) = Slashes(text, k) \cup {k + 1}
    BY <1>3 DEF Slashes
  <2>2. k + 1 \notin Slashes(text, k)
    BY <1>1
  <2>3. /\ Cardinality(Slashes(text, k + 1)) = Cardinality(Slashes(text, k)) + 1
        /\ Cardinality(Slashes(text, k)) \in Nat
    BY <1>1, <2>1, <2>2, FS_AddElement, FS_CardinalityType
  <2>4. \A c \in Nat : (c + 1) % 2 = 1 <=> c % 2 # 1
    OBVIOUS
  <2> QED
    BY <1>3, <2>3, <2>4
<1> QED
  BY <1>2, <1>3

Balance(text, i, j) == Among(text, Opening, i, j) - Among(text, Closing, i, j)

LEMMA BalanceIs ==
    ASSUME NEW text \in Seq(STRING), NEW i \in Nat \ {0}, NEW k \in Nat
    PROVE  /\ Balance(text, i, k) \in Int
           /\ k < i => Balance(text, i, k) = 0
           /\ i <= k + 1 =>
                  Balance(text, i, k + 1)
                    = Balance(text, i, k) + IF Inside(text)[k] THEN 0 ELSE Step(text[k + 1])
<1> DEFINE o == Among(text, Opening, i, k)
           c == Among(text, Closing, i, k)
           o1 == Among(text, Opening, i, k + 1)
           c1 == Among(text, Closing, i, k + 1)
           opens == text[k + 1] \in Opening
           closes == text[k + 1] \in Closing
           within == Inside(text)[k]
<1>1. /\ o \in Nat /\ c \in Nat /\ (k < i => o = 0 /\ c = 0)
      /\ i <= k + 1 => /\ o1 = o + IF ~within /\ opens THEN 1 ELSE 0
                       /\ c1 = c + IF ~within /\ closes THEN 1 ELSE 0
  BY AmongIs
<1>2. Balance(text, i, k) = o - c /\ Balance(text, i, k + 1) = o1 - c1
  BY DEF Balance
<1>3. Step(text[k + 1]) = (IF opens THEN 1 ELSE 0) - (IF closes THEN 1 ELSE 0)
  BY DEF Step
<1> HIDE DEF o, c, o1, c1, opens, closes
<1>4. CASE within
  BY <1>1, <1>2, <1>4
<1>5. CASE ~within
  BY <1>1, <1>2, <1>3, <1>5
<1> QED
  BY <1>4, <1>5

\* What the scan knows after k characters.
ScanMeans(text, limit, k) ==
    LET scan == Scanned(text, limit)[k]
        within == Inside(text)[k]
    IN /\ scan.inString <=> within
       /\ within => (scan.escape <=> Cardinality(Slashes(text, k)) % 2 = 1)
       /\ ~within => ~scan.escape
       /\ \A i \in 1..(k + 1) : Balance(text, i, k) <= scan.depth
       /\ \E i \in 1..(k + 1) : Balance(text, i, k) = scan.depth
       /\ scan.exceeds <=> \E j \in 1..k : \E i \in 1..j : Balance(text, i, j) > limit

LEMMA ScanStarts ==
    ASSUME NEW text \in Seq(STRING), NEW limit \in Nat
    PROVE  ScanMeans(text, limit, 0)
<1>1. Scanned(text, limit)[0] = Start /\ Inside(text)[0] = FALSE
  BY ScannedIs, InsideIs
<1>2. Balance(text, 1, 0) = 0
  BY BalanceIs
<1>3. 1..(0 + 1) = {1} /\ 1..0 = {}
  OBVIOUS
<1> QED
  BY <1>1, <1>2, <1>3 DEF ScanMeans, Start

\* A character inside a string, and one outside.
LEMMA ScanWithin ==
    ASSUME NEW text \in Seq(STRING), NEW limit \in Nat, NEW k \in Nat, k < Len(text),
           ScanMeans(text, limit, k), Inside(text)[k]
    PROVE  ScanMeans(text, limit, k + 1)
<1> DEFINE scan == Scanned(text, limit)[k]
           read == Scanned(text, limit)[k + 1]
           char == text[k + 1]
           odd == Cardinality(Slashes(text, k)) % 2 = 1
           odd1 == Cardinality(Slashes(text, k + 1)) % 2 = 1
           within == Inside(text)[k + 1]
<1>1. k \in 0..Len(text) /\ k + 1 \in 1..Len(text) /\ (k + 1) - 1 = k /\ k + 1 \in 0..Len(text)
  OBVIOUS
<1>2. scan \in ScanState /\ read = Read(scan, char, limit)
  BY <1>1, ScannedIs
<1>3. /\ scan.inString /\ (scan.escape <=> odd)
      /\ \A i \in 1..(k + 1) : Balance(text, i, k) <= scan.depth
      /\ \E i \in 1..(k + 1) : Balance(text, i, k) = scan.depth
      /\ scan.exceeds <=> \E j \in 1..k : \E i \in 1..j : Balance(text, i, j) > limit
  BY DEF ScanMeans
<1>4. /\ read \in ScanState /\ read.depth = scan.depth /\ read.exceeds = scan.exceeds
      /\ read.escape <=> ~scan.escape /\ char = "\\"
      /\ read.inString <=> scan.escape \/ char # "\""
  <2> HIDE DEF scan, read, char, odd
  <2>1. scan.inString
    BY <1>3
  <2> QED
    BY <1>2, <2>1, ReadIs
<1>5. within <=> char # "\"" \/ odd
  <2> DEFINE inside == Inside(text)
  <2>1. \A i \in 1..Len(text) :
            inside[i] = IF text[i] # "\"" THEN inside[i - 1]
                        ELSE \/ inside[i - 1] /\ Cardinality(Slashes(text, i - 1)) % 2 = 1
                             \/ ~inside[i - 1]
    BY InsideIs
  <2> HIDE DEF inside
  <2>2. within = IF char # "\"" THEN inside[k]
                 ELSE (inside[k] /\ Cardinality(Slashes(text, k)) % 2 = 1) \/ ~inside[k]
    BY <1>1, <2>1 DEF inside
  <2>3. inside[k]
    BY DEF inside
  <2> QED
    BY <2>2, <2>3
<1>6. (char # "\\" => ~odd1) /\ (char = "\\" => (odd1 <=> ~odd))
  BY SlashesAre
<1>7. /\ \A i \in 1..(k + 1) : Balance(text, i, k + 1) = Balance(text, i, k)
      /\ Balance(text, k + 2, k + 1) = 0 /\ Balance(text, k + 1, k) = 0
      /\ \A i \in 1..(k + 2) : Balance(text, i, k + 1) \in Int
  <2>1. ASSUME NEW i \in 1..(k + 1) PROVE Balance(text, i, k + 1) = Balance(text, i, k)
    <3>1. i \in Nat \ {0} /\ i <= k + 1
      OBVIOUS
    <3>2. Balance(text, i, k) \in Int
      BY <3>1, BalanceIs
    <3>3. Balance(text, i, k + 1) = Balance(text, i, k) + 0
      BY <3>1, BalanceIs
    <3> QED
      BY <3>2, <3>3
  <2>2. k + 1 \in Nat \ {0} /\ k + 2 \in Nat \ {0} /\ k < k + 1 /\ k + 1 < k + 2
    OBVIOUS
  <2>3. Balance(text, k + 2, k + 1) = 0 /\ Balance(text, k + 1, k) = 0
    BY <2>2, BalanceIs
  <2>4. ASSUME NEW i \in 1..(k + 2) PROVE Balance(text, i, k + 1) \in Int
    <3>1. i \in Nat \ {0}
      OBVIOUS
    <3> QED
      BY <2>2, <3>1, BalanceIs
  <2> QED
    BY <2>1, <2>3, <2>4
<1> HIDE DEF scan, read, char, odd, odd1, within
<1>8. /\ read.inString <=> within
      /\ within => (read.escape <=> odd1)
      /\ ~within => ~read.escape
  BY <1>3, <1>4, <1>5, <1>6
<1>9. scan.depth \in Nat /\ read.depth = scan.depth
  BY <1>2, <1>4 DEF ScanState
<1>10. 0 <= scan.depth
  BY <1>9
<1>11. \A i \in 1..((k + 1) + 1) : i \in 1..(k + 1) \/ i = k + 2
  OBVIOUS
<1>12. \A i \in 1..((k + 1) + 1) : Balance(text, i, k + 1) <= read.depth
  BY <1>3, <1>7, <1>9, <1>10, <1>11
<1>13. \E i \in 1..((k + 1) + 1) : Balance(text, i, k + 1) = read.depth
  BY <1>3, <1>7, <1>9
<1>14. read.exceeds <=> \E j \in 1..(k + 1) : \E i \in 1..j : Balance(text, i, j) > limit
  <2>1. \A j \in 1..(k + 1) : j \in 1..k \/ j = k + 1
    OBVIOUS
  <2>2. ASSUME NEW i \in 1..(k + 1), Balance(text, i, k + 1) > limit
        PROVE  \E j \in 1..k : \E h \in 1..j : Balance(text, h, j) > limit
    <3>1. Balance(text, i, k) > limit
      BY <1>7, <2>2
    <3>2. i # k + 1
      BY <1>7, <3>1
    <3>3. k \in 1..k /\ i \in 1..k
      BY <3>2
    <3> QED
      BY <3>1, <3>3
  <2>3. 1..k \subseteq 1..(k + 1)
    OBVIOUS
  <2> QED
    BY <1>3, <1>4, <2>1, <2>2, <2>3
<1> QED
  BY <1>8, <1>12, <1>13, <1>14 DEF ScanMeans, read, within, odd1

LEMMA ScanOutside ==
    ASSUME NEW text \in Seq(STRING), NEW limit \in Nat, NEW k \in Nat, k < Len(text),
           ScanMeans(text, limit, k), ~Inside(text)[k]
    PROVE  ScanMeans(text, limit, k + 1)
<1> DEFINE scan == Scanned(text, limit)[k]
           read == Scanned(text, limit)[k + 1]
           char == text[k + 1]
           odd1 == Cardinality(Slashes(text, k + 1)) % 2 = 1
           within == Inside(text)[k + 1]
           add == Step(char)
<1>1. k \in 0..Len(text) /\ k + 1 \in 1..Len(text) /\ (k + 1) - 1 = k /\ k + 1 \in 0..Len(text)
  OBVIOUS
<1>2. scan \in ScanState /\ read = Read(scan, char, limit)
  BY <1>1, ScannedIs
<1>3. /\ ~scan.inString /\ ~scan.escape
      /\ \A i \in 1..(k + 1) : Balance(text, i, k) <= scan.depth
      /\ \E i \in 1..(k + 1) : Balance(text, i, k) = scan.depth
      /\ scan.exceeds <=> \E j \in 1..k : \E i \in 1..j : Balance(text, i, j) > limit
  BY DEF ScanMeans
<1>4. /\ read \in ScanState
      /\ read.depth = IF scan.depth + add < 0 THEN 0 ELSE scan.depth + add
      /\ read.exceeds <=> scan.exceeds \/ read.depth > limit
      /\ read.escape = scan.escape
      /\ read.inString <=> char = "\""
  <2> HIDE DEF scan, read, char
  <2>1. ~scan.inString
    BY <1>3
  <2> QED
    BY <1>2, <2>1, ReadIs
<1>5. within <=> char = "\""
  <2> DEFINE inside == Inside(text)
  <2>1. \A i \in 1..Len(text) :
            inside[i] = IF text[i] # "\"" THEN inside[i - 1]
                        ELSE \/ inside[i - 1] /\ Cardinality(Slashes(text, i - 1)) % 2 = 1
                             \/ ~inside[i - 1]
    BY InsideIs
  <2> HIDE DEF inside
  <2>2. within = IF char # "\"" THEN inside[k]
                 ELSE (inside[k] /\ Cardinality(Slashes(text, k)) % 2 = 1) \/ ~inside[k]
    BY <1>1, <2>1 DEF inside
  <2>3. ~inside[k]
    BY DEF inside
  <2> QED
    BY <2>2, <2>3
<1>6. char # "\\" => ~odd1
  <2>1. /\ text[k + 1] # "\\" => Cardinality(Slashes(text, k + 1)) % 2 # 1
        /\ text[k + 1] = "\\" =>
               (Cardinality(Slashes(text, k + 1)) % 2 = 1) <=> (Cardinality(Slashes(text, k)) % 2 # 1)
    BY SlashesAre, Zenon
  <2> QED
    BY <2>1
<1>7. /\ \A i \in 1..(k + 1) : /\ Balance(text, i, k) \in Int
                               /\ Balance(text, i, k + 1) = Balance(text, i, k) + add
      /\ Balance(text, k + 2, k + 1) = 0
  <2>1. ASSUME NEW i \in 1..(k + 1)
        PROVE  Balance(text, i, k) \in Int /\ Balance(text, i, k + 1) = Balance(text, i, k) + add
    <3>1. i \in Nat \ {0} /\ i <= k + 1
      OBVIOUS
    <3> QED
      BY <3>1, BalanceIs
  <2>2. k + 1 \in Nat /\ k + 2 \in Nat \ {0} /\ k + 1 < k + 2
    OBVIOUS
  <2>3. Balance(text, k + 2, k + 1) = 0
    BY <2>2, BalanceIs
  <2> QED
    BY <2>1, <2>3
<1>8. add \in Int
  BY DEF Step
<1>9. scan.depth \in Nat /\ read.depth \in Nat
  BY <1>2, <1>4 DEF ScanState
<1> HIDE DEF scan, read, char, odd1, within, add
<1>10. /\ read.inString <=> within
       /\ within => (read.escape <=> odd1)
       /\ ~within => ~read.escape
  BY <1>3, <1>4, <1>5, <1>6
<1>11. \A i \in 1..((k + 1) + 1) : i \in 1..(k + 1) \/ i = k + 2
  OBVIOUS
<1> DEFINE d == scan.depth
           e == read.depth
<1>15. d \in Nat /\ e \in Nat /\ e >= 0 /\ e >= d + add /\ (d + add < 0 => e = 0)
       /\ (~(d + add < 0) => e = d + add)
  <2>1. e = IF d + add < 0 THEN 0 ELSE d + add
    BY <1>4
  <2>2. d \in Nat /\ e \in Nat
    BY <1>9
  <2> HIDE DEF d, e
  <2> QED
    BY <1>8, <2>1, <2>2
<1>16. /\ \A i \in 1..(k + 1) : Balance(text, i, k) <= d
       /\ \E i \in 1..(k + 1) : Balance(text, i, k) = d
  BY <1>3
<1> HIDE DEF d, e
<1>12. \A i \in 1..((k + 1) + 1) : Balance(text, i, k + 1) <= e
  <2>1. ASSUME NEW i \in 1..(k + 1) PROVE Balance(text, i, k + 1) <= e
    BY <1>7, <1>8, <1>15, <1>16, SMTT(20)
  <2>2. Balance(text, k + 2, k + 1) <= e
    BY <1>7, <1>15
  <2> QED
    BY <1>11, <2>1, <2>2
<1>13. PICK top \in 1..((k + 1) + 1) : Balance(text, top, k + 1) = e
  <2>1. CASE d + add < 0
    <3>1. k + 2 \in 1..((k + 1) + 1)
      OBVIOUS
    <3> QED
      BY <1>7, <1>15, <2>1, <3>1
  <2>2. CASE ~(d + add < 0)
    <3>1. PICK i \in 1..(k + 1) : Balance(text, i, k) = d
      BY <1>16
    <3>2. Balance(text, i, k + 1) = e /\ i \in 1..((k + 1) + 1)
      BY <1>7, <1>15, <2>2, <3>1
    <3> QED
      BY <3>2
  <2> QED
    BY <2>1, <2>2
<1>14. read.exceeds <=> \E j \in 1..(k + 1) : \E i \in 1..j : Balance(text, i, j) > limit
  <2>1. ASSUME scan.exceeds
        PROVE  \E j \in 1..(k + 1) : \E i \in 1..j : Balance(text, i, j) > limit
    <3>1. 1..k \subseteq 1..(k + 1)
      OBVIOUS
    <3> QED
      BY <1>3, <2>1, <3>1
  <2>2. ASSUME read.depth > limit
        PROVE  \E j \in 1..(k + 1) : \E i \in 1..j : Balance(text, i, j) > limit
    <3>1. top # k + 2
      BY <1>7, <1>13, <2>2 DEF e
    <3>2. k + 1 \in 1..(k + 1) /\ top \in 1..(k + 1)
      BY <3>1
    <3>3. Balance(text, top, k + 1) > limit
      BY <1>13, <2>2 DEF e
    <3> QED
      BY <3>2, <3>3
  <2>3. ASSUME NEW j \in 1..(k + 1), NEW i \in 1..j, Balance(text, i, j) > limit
        PROVE  scan.exceeds \/ read.depth > limit
    <3>1. CASE j \in 1..k
      BY <1>3, <2>3, <3>1
    <3>2. CASE j \notin 1..k
      <4>1. j = k + 1 /\ i \in 1..((k + 1) + 1) /\ i \in 1..(k + 1)
        BY <3>2
      <4>2. Balance(text, i, k + 1) <= read.depth /\ Balance(text, i, k + 1) > limit
        BY <1>12, <2>3, <4>1 DEF e
      <4>3. Balance(text, i, k + 1) \in Int
        BY <1>7, <1>8, <4>1
      <4> QED
        BY <1>9, <4>2, <4>3
    <3> QED
      BY <3>1, <3>2
  <2> QED
    BY <1>4, <2>1, <2>2, <2>3
<1> QED
  BY <1>10, <1>12, <1>13, <1>14 DEF ScanMeans, read, within, odd1, e

\* The scan exceeds the limit when more brackets open than close, by more.
LEMMA NestingIs ==
    ASSUME NEW text \in Seq(STRING), NEW limit \in Nat
    PROVE  NestingExceeds(text, limit)
             <=> \E i, j \in 1..Len(text) : Balance(text, i, j) > limit
<1> DEFINE n == Len(text)
           S == {k \in 0..n : ScanMeans(text, limit, k)}
<1>1. n \in Nat
  OBVIOUS
<1>2. 0 \in S
  BY <1>1, ScanStarts
<1>3. ASSUME NEW k \in 0..n, k \in S, k + 1 <= n PROVE k + 1 \in S
  <2>1. k \in Nat /\ k < Len(text) /\ k + 1 \in 0..n /\ ScanMeans(text, limit, k)
    BY <1>3
  <2>2. ScanMeans(text, limit, k + 1)
    BY <2>1, ScanWithin, ScanOutside
  <2> QED
    BY <2>1, <2>2
<1> HIDE DEF S
<1>4. 0..n \subseteq S
  BY <1>1, <1>2, <1>3, UpTo
<1>5. ScanMeans(text, limit, n)
  BY <1>1, <1>4 DEF S
<1>6. NestingExceeds(text, limit) <=> \E j \in 1..n : \E i \in 1..j : Balance(text, i, j) > limit
  BY <1>5 DEF ScanMeans, NestingExceeds
<1>7. ASSUME NEW i \in 1..n, NEW j \in 1..n, Balance(text, i, j) > limit PROVE i \in 1..j
  <2>1. i \in Nat \ {0} /\ j \in Nat
    OBVIOUS
  <2>2. ~(j < i)
    BY <1>7, <2>1, BalanceIs
  <2> QED
    BY <2>2
<1>8. \A j \in 1..n : 1..j \subseteq 1..n
  BY <1>1
<1> QED
  BY <1>6, <1>7, <1>8

-----------------------------------------------------------------------------
(* The envelope the host builds.                                           *)

LEMMA InternalEnvelopeIs ==
    ASSUME NEW request, NEW principal, NEW approval
    PROVE  LET e == InternalEnvelope(request, principal, approval)
               body == HostBody(request)
           IN /\ e.type = "object"
              /\ Keys(e) = FlatKeys \ {"metadata", "untrusted_agent_text", "state_digest"}
              /\ Get(e, "tool_name") = Get(body, "tool_name")
              /\ Get(e, "args") = Get(body, "args")
              /\ Get(e, "capability_token") = Null
              /\ Get(e, "approval_id") = IF approval = None THEN Null ELSE Text(approval)
              /\ Get(e, "caller_identity") = Text(principal)
              /\ Get(e, "request_id") = Text("host.1.1")
              /\ Get(e, "metadata") = Null /\ Get(e, "untrusted_agent_text") = Null
              /\ Get(e, "state_digest") = Null
<1> DEFINE e == InternalEnvelope(request, principal, approval)
           body == HostBody(request)
           members == FlatKeys \ {"metadata", "untrusted_agent_text", "state_digest"}
           named == IF approval = None THEN Null ELSE Text(approval)
           f == [key \in members |->
                    CASE key \in HostKeys -> Get(body, key)
                      [] key = "capability_token" -> Null
                      [] key = "approval_id" -> named
                      [] key = "caller_identity" -> Text(principal)
                      [] key = "request_id" -> Text("host.1.1")]
<1>1. e = Object(f)
  BY DEF InternalEnvelope
<1>2. members = {"tool_name", "args", "capability_token", "approval_id", "caller_identity", "request_id"}
  BY DEF FlatKeys
<1> HIDE DEF members, named, body
<1>3. /\ f["tool_name"] = Get(body, "tool_name") /\ f["args"] = Get(body, "args")
      /\ f["capability_token"] = Null /\ f["approval_id"] = named
      /\ f["caller_identity"] = Text(principal) /\ f["request_id"] = Text("host.1.1")
  BY <1>2 DEF HostKeys
<1>4. DOMAIN f = members
  OBVIOUS
<1> HIDE DEF e, f
<1>5. e.type = "object" /\ e.at = f
  BY <1>1, ValueTypes
<1>6. Keys(e) = members /\ \A key : Get(e, key) = IF key \in members THEN f[key] ELSE Null
  BY <1>4, <1>5 DEF Keys, Get
<1>7. /\ Get(e, "tool_name") = Get(body, "tool_name") /\ Get(e, "args") = Get(body, "args")
      /\ Get(e, "capability_token") = Null /\ Get(e, "approval_id") = named
      /\ Get(e, "caller_identity") = Text(principal) /\ Get(e, "request_id") = Text("host.1.1")
      /\ Get(e, "metadata") = Null /\ Get(e, "untrusted_agent_text") = Null
      /\ Get(e, "state_digest") = Null
  BY <1>2, <1>3, <1>6
<1> QED
  BY <1>5, <1>6, <1>7 DEF members, named, body, e

\* An object that is no lab form is parsed as a flat envelope.
LEMMA FlatParse ==
    ASSUME NEW raw, raw.type = "object", "invoke" \notin Keys(raw)
    PROVE  ParseRefusal(raw) = FlatRefusal(raw) /\ Parse(raw) = Flat(raw) /\ IsRaw(raw)
<1>1. Coerced(raw) = raw
  BY DEF Coerced
<1>2. CoerceRefusal(raw) = None
  BY CoerceRefusalIs, ValueTypes
<1> QED
  BY <1>1, <1>2 DEF ParseRefusal, Parse, IsRaw

LEMMA InternalIsFlat ==
    ASSUME NEW request, NEW principal, NEW approval
    PROVE  LET e == InternalEnvelope(request, principal, approval)
           IN e.type = "object" /\ "invoke" \notin Keys(e)
BY InternalEnvelopeIs DEF FlatKeys

LEMMA HostEnvelopeParses ==
    ASSUME NEW request, HostMembers(request), NEW principal \in Identities, NEW approval
    PROVE  LET e == InternalEnvelope(request, principal, approval)
           IN ParseRefusal(e) = IF Coaxes(e) THEN "agent_prose_rejected" ELSE None
<1> DEFINE e == InternalEnvelope(request, principal, approval)
           body == HostBody(request)
<1>1. /\ e.type = "object" /\ "invoke" \notin Keys(e)
      /\ Keys(e) = FlatKeys \ {"metadata", "untrusted_agent_text", "state_digest"}
      /\ Get(e, "tool_name") = Get(body, "tool_name") /\ Get(e, "args") = Get(body, "args")
      /\ Get(e, "capability_token") = Null
      /\ Get(e, "approval_id") = IF approval = None THEN Null ELSE Text(approval)
      /\ Get(e, "caller_identity") = Text(principal) /\ Get(e, "request_id") = Text("host.1.1")
      /\ Get(e, "metadata") = Null /\ Get(e, "untrusted_agent_text") = Null
      /\ Get(e, "state_digest") = Null
  BY InternalEnvelopeIs, InternalIsFlat
<1> HIDE DEF e
<1>2. /\ IsTextIn(Text(principal), Identities) /\ IsTextIn(Text("host.1.1"), RequestIds)
      /\ Nullable(Null, "object") /\ Nullable(Null, "string") /\ Keys(Null) = {}
      /\ Nullable(Text(approval), "string")
  BY ValueTypes, EvaluationAssumption DEF IsTextIn, Nullable, Keys
<1>3. /\ IsTextIn(Get(e, "tool_name"), ToolNames) /\ Get(e, "args").type = "object"
      /\ \A key \in Keys(Get(e, "args")) : Get(e, "args").at[key].type # "opaque"
  BY <1>1 DEF HostMembers
<1>4. \A key \in Credentials : Nullable(Get(e, key), "string")
  BY <1>1, <1>2 DEF Credentials
<1>5. FlatMembers(e)
  BY <1>1, <1>2, <1>3, <1>4 DEF FlatMembers
<1>6. FlatRefusal(e) = IF Coaxes(e) THEN "agent_prose_rejected" ELSE None
  BY <1>5, FlatRefusalIs
<1>7. ParseRefusal(e) = FlatRefusal(e)
  BY <1>1, FlatParse
<1> QED
  BY <1>6, <1>7 DEF e

-----------------------------------------------------------------------------
(* The properties.                                                         *)

(* Of the envelope the host builds from a request it accepted the library  *)
(* refuses nothing but a policy-coax key, whatever the request.            *)
THEOREM HostIsUnderstood == Spec => []HostAcceptsWhatParses
<1>1. EvaluationInv => HostAcceptsWhatParses
  <2> SUFFICES ASSUME EvaluationInv, Answered("host"), HostRefusal(question.raw) = None,
                      NEW approval \in DOMAIN Grants \cup {None}
               PROVE  LET e == InternalEnvelope(question.raw, question.principal, approval)
                      IN ParseRefusal(e) = IF Keys(Get(e, "args")) \cap CoaxKeys # {}
                                           THEN "agent_prose_rejected" ELSE None
    BY DEF HostAcceptsWhatParses
  <2>1. question \in Questions /\ question.kind = "host"
    BY DEF EvaluationInv, Answered, Asked
  <2>2. question.principal \in Identities
    BY <2>1, EvaluationAssumption
  <2>3. HostMembers(question.raw)
    BY HostRefusalIs
  <2> QED
    BY <2>2, <2>3, HostEnvelopeParses DEF Coaxes
<1> QED
  BY <1>1, AnswersAreGiven, PTL

(* An allowed call has earned it: every credential it brings holds.        *)
LEMMA CallIsEarned ==
    ASSUME NEW doc \in Policies, NEW raw, IsRaw(raw), NEW principal, NEW mode,
           Evaluate(doc, raw, principal, mode) = Allowed
    PROVE  LET env == Parse(raw)
           IN /\ mode = "active" /\ env.tool \in AllowedTools(doc)
              /\ {env.token, env.approval} \cap (DOMAIN doc.tokens \cup DOMAIN Grants) # {}
              /\ env.token \notin {None, ""} => TokenHolds(doc, env, principal)
              /\ env.approval # None => /\ env.approval \in DOMAIN Grants
                                        /\ GrantHolds(Grants[env.approval], env, principal)
<1> DEFINE env == Parse(raw)
<1>1. mode = "active" /\ ParsedResponse(doc, env, principal) = Allowed
  BY EvaluateIs
<1> HIDE DEF env
<1>2. /\ env.tool \in AllowedTools(doc) /\ CredentialChecks(doc, env, principal) = None
      /\ env.approval # None => ConsumeReason(env, principal) = None
  BY <1>1, ParsedResponseIs
<1>3. env.approval # None => /\ env.approval \in DOMAIN Grants
                             /\ GrantHolds(Grants[env.approval], env, principal)
  BY <1>2, ConsumeReasonIs
<1>4. \/ env.token \notin {None, ""} /\ CapabilityDeny(doc, env, Now, principal) = None
      \/ env.token \in {None, ""} /\ env.approval # None
  BY <1>2, CredentialChecksAre
<1>5. env.token \notin {None, ""} =>
          TokenHolds(doc, env, principal) /\ env.token \in DOMAIN doc.tokens
  BY <1>4, TokenEarned
<1>6. {env.token, env.approval} \cap (DOMAIN doc.tokens \cup DOMAIN Grants) # {}
  BY <1>3, <1>4, <1>5
<1> QED
  BY <1>1, <1>2, <1>3, <1>5, <1>6 DEF env

(* A request is allowed through the one grant that holds for it.           *)
LEMMA RequestIsEarned ==
    ASSUME NEW doc \in Policies, NEW raw, NEW principal, NEW unchanged \in BOOLEAN,
           Decide(doc, raw, principal, unchanged) = Allowed
    PROVE  LET body == HostBody(raw)
               env == [tool |-> body.at["tool_name"].text, args |-> body.at["args"],
                       caller |-> principal, state |-> None]
           IN /\ unchanged /\ env.tool \in Registry
              /\ \E g \in DOMAIN Grants :
                     {h \in DOMAIN Grants : GrantHolds(Grants[h], env, principal)} = {g}
<1> DEFINE body == HostBody(raw)
           tool == Get(body, "tool_name").text
           args == Get(body, "args")
           gs == Matching(principal, tool, args)
           asked == [tool |-> body.at["tool_name"].text, args |-> body.at["args"],
                     caller |-> principal, state |-> None]
           e == InternalEnvelope(raw, principal, Selected(gs))
           env == Parse(e)
<1>1. HostRefusal(raw) = None
  BY HostRefusalIs, DeniedIsDenied DEF Decide
<1>2. HostMembers(raw)
  BY <1>1, HostRefusalIs
<1>3. /\ unchanged /\ tool \in Registry /\ ~(Cardinality(Usable(gs)) > 1)
      /\ Evaluate(doc, e, principal, "active") = Allowed
  <2>1. {"policy_miss", "unknown_tool", "envelope_invalid", "approval_invalid", "approval_revoked"}
          \subseteq Reasons
    BY DEF Reasons
  <2>2. unchanged /\ tool \in Registry
    BY <1>1, <2>1, DeniedIsDenied DEF Decide
  <2>3. UnknownArgKeys(doc, tool, args) = {}
    BY <1>1, <2>1, <2>2, DeniedIsDenied DEF Decide
  <2>4. ~(Cardinality(Usable(gs)) > 1)
    BY <1>1, <2>1, <2>2, <2>3, DeniedIsDenied DEF Decide
  <2>5. ~(Unrevoked(gs) = {} /\ gs # {})
    BY <1>1, <2>1, <2>2, <2>3, <2>4, DeniedIsDenied DEF Decide
  <2> QED
    BY <1>1, <2>2, <2>3, <2>4, <2>5 DEF Decide
<1>4. tool = asked.tool /\ args = asked.args
  <2>1. body.type = "object" /\ IsTextIn(Get(body, "tool_name"), ToolNames) /\ args.type = "object"
    BY <1>2 DEF HostMembers
  <2>2. "tool_name" \in Keys(body) /\ "args" \in Keys(body)
    BY <2>1, ValueTypes DEF Get, IsTextIn
  <2> QED
    BY <2>2 DEF Get
<1>5. /\ e.type = "object" /\ "invoke" \notin Keys(e)
      /\ Get(e, "tool_name") = Get(body, "tool_name") /\ Get(e, "args") = args
      /\ Get(e, "capability_token") = Null
      /\ Get(e, "approval_id") = IF Selected(gs) = None THEN Null ELSE Text(Selected(gs))
      /\ Get(e, "caller_identity") = Text(principal)
      /\ Get(e, "state_digest") = Null
  BY InternalEnvelopeIs, InternalIsFlat
<1> HIDE DEF e, gs
<1>6. Parse(e) = Flat(e) /\ IsRaw(e)
  BY <1>5, FlatParse
<1>7. /\ env.tool = tool /\ env.args = args /\ env.caller = principal
      /\ env.token = None /\ env.state = None
      /\ env.approval # None => env.approval = Selected(gs)
  <2>1. Optional(Null) = None
    BY DEF Optional
  <2>2. Optional(Get(e, "approval_id")) # None => Optional(Get(e, "approval_id")) = Selected(gs)
    BY <1>5, ValueTypes DEF Optional
  <2>3. Text(principal).text = principal
    BY ValueTypes
  <2> QED
    BY <1>5, <1>6, <2>1, <2>2, <2>3 DEF Flat, Parsed
<1>8. /\ env.token \notin {None, ""} => TokenHolds(doc, env, principal)
      /\ env.approval # None => /\ env.approval \in DOMAIN Grants
                                /\ GrantHolds(Grants[env.approval], env, principal)
  BY <1>3, <1>6, CallIsEarned
<1>9. env.approval # None
  <2>1. CredentialChecks(doc, env, principal) = None
    BY <1>3, <1>6, EvaluateIs, ParsedResponseIs
  <2> QED
    BY <1>7, <2>1, CredentialChecksAre
<1> DEFINE g == Selected(gs)
<1>10. g \in DOMAIN Grants /\ GrantHolds(Grants[g], env, principal)
  BY <1>7, <1>8, <1>9
<1> HIDE DEF env, g
<1>11. \A h \in DOMAIN Grants :
           GrantHolds(Grants[h], asked, principal) <=> GrantHolds(Grants[h], env, principal)
  BY <1>4, <1>7 DEF GrantHolds
<1>12. \A h \in DOMAIN Grants : GrantHolds(Grants[h], env, principal) => h \in Usable(gs)
  BY <1>7 DEF GrantHolds, Usable, Matching, gs
<1>13. Usable(gs) = {g}
  <2>1. IsFiniteSet(Usable(gs)) /\ g \in Usable(gs)
    <3>1. Usable(gs) \subseteq DOMAIN Grants
      BY DEF Usable, gs, Matching
    <3>2. IsFiniteSet(DOMAIN Grants)
      BY EvaluationAssumption
    <3> QED
      BY <1>10, <1>12, <3>1, <3>2, FS_Subset
  <2>2. IsFiniteSet(Usable(gs) \ {g}) /\ Cardinality(Usable(gs) \ {g}) = Cardinality(Usable(gs)) - 1
    BY <2>1, FS_RemoveElement
  <2>3. Cardinality(Usable(gs)) \in Nat /\ Cardinality(Usable(gs) \ {g}) \in Nat
    BY <2>1, <2>2, FS_CardinalityType
  <2>4. Cardinality(Usable(gs) \ {g}) = 0
    BY <1>3, <2>2, <2>3
  <2>5. Usable(gs) \ {g} = {}
    BY <2>2, <2>4, FS_EmptySet
  <2> QED
    BY <2>1, <2>5
<1>14. {h \in DOMAIN Grants : GrantHolds(Grants[h], asked, principal)} = {g}
  BY <1>10, <1>11, <1>12, <1>13
<1> QED
  BY <1>3, <1>4, <1>10, <1>14

(* Nothing is allowed that has not earned it: not a call of the process,    *)
(* not a request of a session, whatever the policy and the grants.         *)
THEOREM AllowsAreEarned == Spec => []AllowIsEarned
<1>1. EvaluationInv => AllowIsEarned
  <2> SUFFICES ASSUME EvaluationInv PROVE AllowIsEarned
    OBVIOUS
  <2>1. ASSUME Answered("library"), response = Allowed
        PROVE  LET env == Parse(question.raw)
               IN /\ question.mode = "active" /\ env.tool \in AllowedTools(policy)
                  /\ {env.token, env.approval} \cap (DOMAIN policy.tokens \cup DOMAIN Grants) # {}
                  /\ env.token \notin {None, ""} => TokenHolds(policy, env, question.principal)
                  /\ env.approval # None =>
                         /\ env.approval \in DOMAIN Grants
                         /\ GrantHolds(Grants[env.approval], env, question.principal)
    <3>1. /\ question \in Questions /\ question.kind = "library" /\ policy \in Policies
          /\ Evaluate(policy, question.raw, question.principal, question.mode) = Allowed
      BY <2>1 DEF EvaluationInv, Answered, Asked
    <3>2. IsRaw(question.raw)
      BY <3>1, EvaluationAssumption DEF IsRaw
    <3> QED
      BY <3>1, <3>2, CallIsEarned
  <2>2. ASSUME Answered("host"), response = Allowed
        PROVE  LET body == HostBody(question.raw)
                   env == [tool |-> body.at["tool_name"].text, args |-> body.at["args"],
                           caller |-> question.principal, state |-> None]
               IN /\ question.unchanged /\ env.tool \in Registry
                  /\ \E g \in DOMAIN Grants :
                        {h \in DOMAIN Grants : GrantHolds(Grants[h], env, question.principal)} = {g}
    <3>1. /\ question \in Questions /\ question.kind = "host" /\ policy \in Policies
          /\ Decide(policy, question.raw, question.principal, question.unchanged) = Allowed
      BY <2>2 DEF EvaluationInv, Answered, Asked
    <3>2. question.unchanged \in BOOLEAN
      BY <3>1, EvaluationAssumption
    <3> QED
      BY <3>1, <3>2, RequestIsEarned
  <2> QED
    BY <2>1, <2>2 DEF AllowIsEarned
<1> QED
  BY <1>1, AnswersAreGiven, PTL

(* What an outsider is told does not depend on the record of the token.    *)
LEMMA OutsidersAreToldTheSame ==
    ASSUME NEW doc \in Policies, NEW raw, NEW principal, NEW mode, NEW record,
           LET env == Parse(raw)
           IN /\ Outsider(doc, env, principal)
              /\ principal \notin Holders(record) \/ env.caller # principal
    PROVE  Evaluate(doc, raw, principal, mode)
             = Evaluate(WithRecord(doc, Parse(raw).token, record), raw, principal, mode)
<1> DEFINE env == Parse(raw)
           other == WithRecord(doc, env.token, record)
<1>1. other.tools = doc.tools /\ other.loaded = doc.loaded
  <2>1. doc = [loaded |-> doc.loaded, tools |-> doc.tools, tokens |-> doc.tokens]
    BY EvaluationAssumption
  <2> QED
    BY <2>1 DEF WithRecord
<1>2. Outsider(other, env, principal)
  <2>1. Capability(other, env.token) \in {None, record}
    <3> DEFINE tokens == [t \in (DOMAIN doc.tokens \cup {env.token})
                               \ (IF record = None THEN {env.token} ELSE {}) |->
                            IF t = env.token THEN record ELSE doc.tokens[t]]
    <3>1. other.tokens = tokens
      <4>1. doc = [loaded |-> doc.loaded, tools |-> doc.tools, tokens |-> doc.tokens]
        BY EvaluationAssumption
      <4> QED
        BY <4>1 DEF WithRecord
    <3>2. env.token \in DOMAIN tokens => tokens[env.token] = record
      OBVIOUS
    <3> HIDE DEF tokens, other, env
    <3> QED
      BY <3>1, <3>2 DEF Capability
  <2>2. Holders(None) = {}
    BY DEF Holders
  <2> QED
    BY <2>1, <2>2 DEF Outsider
<1>3. Outsider(doc, env, principal)
  OBVIOUS
<1> HIDE DEF env, other
<1>4. CredentialChecks(doc, env, principal) = CredentialChecks(other, env, principal)
  <2> DEFINE told == <<"capability_missing", IF principal = None THEN "no attested principal"
                                             ELSE "not valid for this caller">>
  <2>1. CapabilityDeny(doc, env, Now, principal) = told
    BY <1>3, CapabilityDenyIs
  <2>2. CapabilityDeny(other, env, Now, principal) = told
    BY <1>2, CapabilityDenyIs
  <2> QED
    BY <2>1, <2>2 DEF CredentialChecks
<1>5. CatalogReason(doc, env) = CatalogReason(other, env)
  BY <1>1 DEF CatalogReason, AllowedTools
<1>6. ParsedResponse(doc, env, principal) = ParsedResponse(other, env, principal)
  BY <1>1, <1>4, <1>5 DEF ParsedResponse
<1> QED
  BY <1>6 DEF Evaluate, env, other

(* ADR-0003: a caller that does not hold a token is told the same whatever *)
(* the record of the token says, for every record and every policy.        *)
THEOREM NonHoldersLearnNothing == Spec => []NonHolderLearnsNothing
<1>1. EvaluationInv => NonHolderLearnsNothing
  <2> DEFINE env == Parse(question.raw)
  <2> SUFFICES ASSUME EvaluationInv, Answered("library"),
                      \/ question.principal \notin Holders(Capability(policy, env.token))
                      \/ env.caller # question.principal,
                      NEW record \in Records \cup {None},
                      \/ question.principal \notin Holders(record)
                      \/ env.caller # question.principal
               PROVE  response = Evaluate(WithRecord(policy, env.token, record), question.raw,
                                          question.principal, question.mode)
    BY DEF NonHolderLearnsNothing
  <2>1. response = Evaluate(policy, question.raw, question.principal, question.mode)
        /\ policy \in Policies
    BY DEF EvaluationInv
  <2>2. Outsider(policy, env, question.principal)
    BY DEF Outsider
  <2> QED
    BY <2>1, <2>2, OutsidersAreToldTheSame
<1> QED
  BY <1>1, AnswersAreGiven, PTL
-----------------------------------------------------------------------------
(* The forms of an envelope.                                               *)

\* The members of the lab form of an envelope.
LEMMA LabFormIs ==
    ASSUME NEW raw
    PROVE  LET form == LabForm(raw)
               args == Get(raw, "args")
               invoke == Get(form, "invoke")
               fields == Get(invoke, "schema_fields")
           IN /\ form.type = "object" /\ Keys(form) = {"caller", "invoke"}
              /\ Get(form, "caller").type = "object"
              /\ Get(Get(form, "caller"), "identity") = Get(raw, "caller_identity")
              /\ invoke.type = "object"
              /\ Keys(invoke) = {"tool_name", "schema_fields"} \cup ({"argv"} \cap Keys(args))
              /\ Get(invoke, "tool_name") = Get(raw, "tool_name")
              /\ "argv" \in Keys(args) => Get(invoke, "argv") = args.at["argv"]
              /\ fields.type = "object"
              /\ Keys(fields) = (Keys(raw) \cap Credentials) \cup (Keys(args) \cap ArgFields)
              /\ \A key \in Credentials : Get(fields, key) = Get(raw, key)
              /\ \A key \in Keys(args) \cap ArgFields : fields.at[key] = args.at[key]
<1> DEFINE args == Get(raw, "args")
           carried == (Keys(raw) \cap Credentials) \cup (Keys(args) \cap ArgFields)
           held == [key \in carried |-> IF key \in Credentials THEN raw.at[key] ELSE args.at[key]]
           fields == Object(held)
           members == InvokeKeys \ ({"argv"} \ Keys(args))
           line == args.at["argv"]
           name == Get(raw, "tool_name")
           invoke == [key \in members |-> CASE key = "tool_name" -> name
                                            [] key = "argv" -> line
                                            [] key = "schema_fields" -> fields]
           identity == Get(raw, "caller_identity")
           caller == [k \in {"identity"} |-> identity]
           top == [key \in {"caller", "invoke"} |->
                      IF key = "invoke" THEN Object(invoke) ELSE Object(caller)]
           form == LabForm(raw)
<1>1. form = Object(top)
  BY DEF LabForm
<1>2. \A key \in Keys(raw) : Get(raw, key) = raw.at[key]
  BY DEF Get
<1>3. Credentials \cap ArgFields = {}
  BY DEF Credentials, ArgFields
<1>4. /\ DOMAIN held = carried
      /\ \A key \in carried \cap Credentials : held[key] = raw.at[key]
      /\ \A key \in Keys(args) \cap ArgFields : held[key] = args.at[key]
  BY <1>3
<1>5. carried \cap Credentials = Keys(raw) \cap Credentials
  BY <1>3
<1> HIDE DEF held
<1>6. fields.type = "object" /\ fields.at = held
  BY ValueTypes
<1> HIDE DEF fields
<1>7. Keys(fields) = carried /\ \A key : Get(fields, key) = IF key \in carried THEN held[key] ELSE Null
  BY <1>4, <1>6 DEF Keys, Get
<1>8. \A key \in Credentials : Get(fields, key) = Get(raw, key)
  BY <1>2, <1>4, <1>5, <1>7 DEF Get
<1>9. members = {"tool_name", "schema_fields"} \cup ({"argv"} \cap Keys(args))
  BY DEF InvokeKeys
<1> HIDE DEF members, line, name, carried
<1>10. /\ DOMAIN invoke = members
       /\ invoke["tool_name"] = name /\ invoke["schema_fields"] = fields
       /\ "argv" \in members => invoke["argv"] = line
  BY <1>9
<1> HIDE DEF invoke
<1>11. DOMAIN caller = {"identity"} /\ caller["identity"] = identity
  OBVIOUS
<1> HIDE DEF caller, identity
<1>12. DOMAIN top = {"caller", "invoke"} /\ top["invoke"] = Object(invoke) /\ top["caller"] = Object(caller)
  OBVIOUS
<1> HIDE DEF top, form
<1>13. form.type = "object" /\ form.at = top
  BY <1>1, ValueTypes
<1>14. /\ Keys(form) = {"caller", "invoke"}
       /\ Get(form, "invoke") = Object(invoke) /\ Get(form, "caller") = Object(caller)
  BY <1>12, <1>13 DEF Keys, Get
<1>15. /\ Get(form, "caller").type = "object" /\ Get(form, "caller").at = caller
       /\ Get(form, "invoke").type = "object" /\ Get(form, "invoke").at = invoke
  BY <1>14, ValueTypes
<1>16. Get(Get(form, "caller"), "identity") = identity
  BY <1>11, <1>15 DEF Keys, Get
<1>17. /\ Keys(Get(form, "invoke")) = members
       /\ Get(Get(form, "invoke"), "tool_name") = name
       /\ Get(Get(form, "invoke"), "schema_fields") = fields
       /\ "argv" \in members => Get(Get(form, "invoke"), "argv") = line
  BY <1>9, <1>10, <1>15 DEF Keys, Get
<1>18. "argv" \in Keys(args) => "argv" \in members
  BY <1>9
<1> QED
  BY <1>4, <1>6, <1>7, <1>8, <1>9, <1>13, <1>14, <1>15, <1>16, <1>17, <1>18
     DEF identity, name, line, carried, form

\* An object is its keys and their values, so the lab form holds the arguments.
LEMMA LabArgsAre ==
    ASSUME NEW raw, Get(raw, "args").type = "object", IsValue(Get(raw, "args")),
           Keys(Get(raw, "args")) \subseteq ArgFields \cup {"argv"}
    PROVE  LabArgs(Get(LabForm(raw), "invoke")) = Get(raw, "args")
<1> DEFINE args == Get(raw, "args")
           invoke == Get(LabForm(raw), "invoke")
           fields == Get(invoke, "schema_fields")
           present == (Keys(invoke) \cap {"argv"}) \cup (Keys(fields) \cap ArgFields)
           held == [key \in present |-> IF key = "argv" THEN invoke.at[key] ELSE fields.at[key]]
           own == [key \in Keys(args) |-> args.at[key]]
<1>1. /\ Keys(invoke) = {"tool_name", "schema_fields"} \cup ({"argv"} \cap Keys(args))
      /\ "argv" \in Keys(args) => Get(invoke, "argv") = args.at["argv"]
      /\ Keys(fields) = (Keys(raw) \cap Credentials) \cup (Keys(args) \cap ArgFields)
      /\ \A key \in Keys(args) \cap ArgFields : fields.at[key] = args.at[key]
  BY LabFormIs
<1>2. LabArgs(invoke) = Object(held)
  BY DEF LabArgs
<1>3. args = Object(own)
  BY DEF IsValue
<1> HIDE DEF args, invoke, fields
<1>4. Keys(args) \subseteq ArgFields \cup {"argv"}
  BY DEF args
<1>5. "argv" \notin ArgFields /\ ArgFields \cap Credentials = {}
  BY DEF ArgFields, Credentials
<1>6. present = Keys(args)
  BY <1>1, <1>4, <1>5
<1>7. "argv" \in Keys(args) => invoke.at["argv"] = args.at["argv"]
  BY <1>1 DEF Get
<1>8. \A key \in Keys(args) : held[key] = args.at[key]
  BY <1>1, <1>4, <1>6, <1>7
<1>9. held = own
  BY <1>6, <1>8
<1> QED
  BY <1>2, <1>3, <1>9 DEF args, invoke

\* A flat envelope and its lab form are parsed alike.
LEMMA LabParse ==
    ASSUME NEW raw, Get(raw, "args").type = "object", IsValue(Get(raw, "args")),
           Keys(Get(raw, "args")) \subseteq ArgFields \cup {"argv"}
    PROVE  /\ ParseRefusal(LabForm(raw)) = LabRefusal(LabForm(raw))
           /\ Parse(LabForm(raw)) = Flat(raw)
           /\ IsRaw(LabForm(raw))
<1> DEFINE form == LabForm(raw)
           invoke == Get(form, "invoke")
           fields == Get(invoke, "schema_fields")
<1>1. form.type = "object" /\ "invoke" \in Keys(form)
  BY LabFormIs
<1>2. LabArgs(invoke) = Get(raw, "args")
  BY LabArgsAre
<1>3. /\ Get(invoke, "tool_name") = Get(raw, "tool_name")
      /\ Get(Get(form, "caller"), "identity") = Get(raw, "caller_identity")
      /\ \A key \in Credentials : Get(fields, key) = Get(raw, key)
  BY LabFormIs
<1> HIDE DEF form
<1>4. Coerced(form) = form
  BY <1>1 DEF Coerced
<1>5. CoerceRefusal(form) = None
  BY <1>1, CoerceRefusalIs, ValueTypes
<1>6. ParseRefusal(form) = LabRefusal(form) /\ Parse(form) = Lab(form) /\ IsRaw(form)
  BY <1>1, <1>4, <1>5 DEF ParseRefusal, Parse, IsRaw
<1>7. Lab(form) = Flat(raw)
  BY <1>2, <1>3 DEF Lab, Flat, Parsed, Credentials
<1> QED
  BY <1>6, <1>7 DEF form

\* The lab form of an envelope that is parsed is parsed, if its arguments fit.
LEMMA LabFormParses ==
    ASSUME NEW raw, FlatMembers(raw), IsValue(Get(raw, "args")),
           Keys(Get(raw, "args")) \subseteq ArgFields \cup {"argv"},
           "argv" \in Keys(Get(raw, "args")) => Get(raw, "args").at["argv"].type = "array"
    PROVE  ParseRefusal(LabForm(raw)) = None
<1> DEFINE form == LabForm(raw)
           args == Get(raw, "args")
           invoke == Get(form, "invoke")
           fields == Get(invoke, "schema_fields")
<1>1. /\ IsTextIn(Get(raw, "tool_name"), ToolNames)
      /\ args.type = "object" /\ \A key \in Keys(args) : args.at[key].type # "opaque"
      /\ \A key \in Credentials : Nullable(Get(raw, key), "string")
      /\ IsTextIn(Get(raw, "caller_identity"), Identities)
  BY DEF FlatMembers
<1>2. LabArgs(invoke) = args
  BY <1>1, LabArgsAre
<1>3. /\ form.type = "object" /\ Keys(form) = {"caller", "invoke"}
      /\ Get(form, "caller").type = "object"
      /\ Get(Get(form, "caller"), "identity") = Get(raw, "caller_identity")
      /\ invoke.type = "object"
      /\ Keys(invoke) = {"tool_name", "schema_fields"} \cup ({"argv"} \cap Keys(args))
      /\ Get(invoke, "tool_name") = Get(raw, "tool_name")
      /\ "argv" \in Keys(args) => Get(invoke, "argv") = args.at["argv"]
      /\ fields.type = "object"
      /\ Keys(fields) = (Keys(raw) \cap Credentials) \cup (Keys(args) \cap ArgFields)
      /\ \A key \in Credentials : Get(fields, key) = Get(raw, key)
  BY LabFormIs
<1>4. ParseRefusal(form) = LabRefusal(form)
  BY <1>1, LabParse
<1> HIDE DEF form
<1>5. /\ Get(form, "untrusted_attachments") = Null /\ Get(form, "policy_context") = Null
      /\ "pep_eval_id" \notin Keys(form)
  BY <1>3 DEF Get
<1>6. Nullable(Null, "object") /\ Nullable(fields, "object")
  BY <1>3, ValueTypes DEF Nullable
<1>7. Keys(form) \subseteq LabKeys /\ Keys(invoke) \subseteq InvokeKeys
  BY <1>3 DEF LabKeys, InvokeKeys
<1>8. Keys(fields) \subseteq SchemaFieldKeys
  BY <1>3 DEF SchemaFieldKeys, Credentials
<1>9. "argv" \in Keys(invoke) => Get(invoke, "argv").type = "array"
  BY <1>3
<1>10. LabMembers(form)
  BY <1>1, <1>2, <1>3, <1>5, <1>6, <1>7, <1>8, <1>9 DEF LabMembers
<1> QED
  BY <1>4, <1>10, LabRefusalIs DEF form

\* A text, its bytes and the envelope parsed before are one envelope.
LEMMA EncodedParse ==
    ASSUME NEW raw, raw.type = "object", NEW kind \in {"text", "bytes"}
    PROVE  /\ ParseRefusal(Encoded(kind, raw)) = ParseRefusal(raw)
           /\ Parse(Encoded(kind, raw)) = Parse(raw)
<1> DEFINE form == Encoded(kind, raw)
<1>1. form.type = kind /\ form.body = raw
  BY DEF Encoded
<1> HIDE DEF form
<1>2. Coerced(form) = raw /\ Coerced(raw) = raw
  BY <1>1 DEF Coerced
<1>3. CoerceRefusal(form) = None /\ CoerceRefusal(raw) = None
  BY <1>1, CoerceRefusalIs, ValueTypes
<1> QED
  BY <1>2, <1>3 DEF ParseRefusal, Parse, form

LEMMA ReadyParse ==
    ASSUME NEW raw, FlatMembers(raw)
    PROVE  LET form == Ready(Flat(raw), RequestId(raw, "request_id"))
           IN ParseRefusal(form) = None /\ Parse(form) = Flat(raw)
<1> DEFINE env == Flat(raw)
           id == RequestId(raw, "request_id")
           form == Ready(env, id)
<1>1. /\ env.prose = FALSE /\ env.tool \in ToolNames /\ env.caller \in Identities
      /\ env.args.type = "object"
  BY DEF FlatMembers, Flat, Parsed, IsTextIn
<1>7. id \in RequestIds
  BY EvaluationAssumption DEF FlatMembers, RequestId, IsTextIn
<1> HIDE DEF env, id
<1>2. form.type = "envelope" /\ form.envelope = env /\ form.id = id
  BY DEF Ready
<1> HIDE DEF form
<1>3. Coerced(form) = form
  BY <1>2 DEF Coerced
<1>4. CoerceRefusal(form) = None
  BY <1>2, CoerceRefusalIs, ValueTypes
<1>5. env.prose \in BOOLEAN /\ ~env.prose
  BY <1>1
<1>6. ReadyRefusal(env, id) = None
  BY <1>1, <1>5, <1>7, ReadyRefusalIs
<1> QED
  BY <1>2, <1>3, <1>4, <1>6 DEF ParseRefusal, Parse, form, env, id

(* Whatever is asked, and under every policy: the form of an envelope does   *)
(* not matter to the decision.                                               *)
THEOREM FormsAreOne == Spec => []FormsAgree
<1>1. EvaluationInv => FormsAgree
  <2> DEFINE raw == question.raw
             args == Get(raw, "args")
             principal == question.principal
             mode == question.mode
             Told(form) == Evaluate(policy, form, principal, mode)
             fits == /\ Keys(args) \subseteq ArgFields \cup {"argv"}
                     /\ "argv" \in Keys(args) => args.at["argv"].type = "array"
  <2> SUFFICES ASSUME EvaluationInv, Answered("library"), raw.type = "object", "invoke" \notin Keys(raw)
               PROVE  /\ response = Told(Encoded("text", raw)) /\ response = Told(Encoded("bytes", raw))
                      /\ response = Allowed => /\ Told(Ready(Parse(raw), RequestId(raw, "request_id"))) = Allowed
                                               /\ fits => Told(LabForm(raw)) = Allowed
                      /\ /\ Told(LabForm(raw)) = Allowed /\ FlatRefusal(raw) = None
                         /\ Keys(args) \subseteq ArgFields \cup {"argv"}
                         => response = Allowed
    BY DEF FormsAgree
  <2>1. response = Told(raw) /\ question \in Questions /\ question.kind = "library"
    BY DEF EvaluationInv, Answered, Asked
  <2>2. IsValue(args)
    BY <2>1, EvaluationAssumption
  <2>3. ParseRefusal(raw) = FlatRefusal(raw) /\ Parse(raw) = Flat(raw) /\ IsRaw(raw)
    BY FlatParse
  <2>4. FlatRefusal(raw) = None => FlatMembers(raw) /\ args.type = "object"
    BY FlatRefusalIs DEF FlatMembers
  <2> HIDE DEF raw, args, principal, mode
  <2>5. Told(Encoded("text", raw)) = Told(raw) /\ Told(Encoded("bytes", raw)) = Told(raw)
    BY EncodedParse DEF Evaluate
  <2>6. ASSUME Told(raw) = Allowed
        PROVE  Told(Ready(Parse(raw), RequestId(raw, "request_id"))) = Allowed /\ (fits => Told(LabForm(raw)) = Allowed)
    <3>1. mode = "active" /\ FlatRefusal(raw) = None /\ ParsedResponse(policy, Flat(raw), principal) = Allowed
      BY <2>3, <2>6, EvaluateIs
    <3>2. Told(Ready(Parse(raw), RequestId(raw, "request_id"))) = Allowed
      BY <2>3, <2>4, <3>1, ReadyParse DEF Evaluate
    <3>3. ASSUME fits PROVE Told(LabForm(raw)) = Allowed
      <4>1. ParseRefusal(LabForm(raw)) = None
        BY <2>2, <2>4, <3>1, <3>3, LabFormParses DEF args
      <4>2. Parse(LabForm(raw)) = Flat(raw)
        BY <2>2, <2>4, <3>1, <3>3, LabParse DEF args
      <4> QED
        BY <3>1, <4>1, <4>2 DEF Evaluate
    <3> QED
      BY <3>2, <3>3
  <2>7. ASSUME Told(LabForm(raw)) = Allowed, FlatRefusal(raw) = None,
               Keys(args) \subseteq ArgFields \cup {"argv"}
        PROVE  Told(raw) = Allowed
    <3>1. Parse(LabForm(raw)) = Flat(raw) /\ IsRaw(LabForm(raw))
      BY <2>2, <2>4, <2>7, LabParse DEF args
    <3>2. mode = "active" /\ ParsedResponse(policy, Flat(raw), principal) = Allowed
      BY <2>7, <3>1, EvaluateIs
    <3> QED
      BY <2>3, <2>7, <3>2 DEF Evaluate
  <2> QED
    BY <2>1, <2>5, <2>6, <2>7
<1> QED
  BY <1>1, AnswersAreGiven, PTL

(* The scan counts the nesting of every text, however long, under every      *)
(* limit.                                                                    *)
THEOREM NestingIsMeasured == Spec => []NestingIsCounted
<1>1. EvaluationInv => NestingIsCounted
  <2> DEFINE text == question.text
             deep == \E i, j \in 1..Len(text) :
                         Among(text, Opening, i, j) - Among(text, Closing, i, j) > MaxDepth
             exceeds == NestingExceeds(text, MaxDepth)
  <2> SUFFICES ASSUME EvaluationInv, Answered("text")
               PROVE  (response = Denied("envelope_invalid")) = deep
    BY DEF NestingIsCounted
  <2>1. text \in Texts /\ response = Denied(IF exceeds THEN "envelope_invalid" ELSE "")
    BY DEF EvaluationInv, Answered
  <2>2. text \in Seq(STRING) /\ MaxDepth \in Nat
    BY <2>1, EvaluationAssumption
  <2>3. exceeds <=> deep
    <3> HIDE DEF text
    <3> QED
      BY <2>2, NestingIs DEF Balance
  <2> HIDE DEF text, deep, exceeds
  <2>4. Denied("") # Denied("envelope_invalid")
    BY DEF Denied
  <2>5. (response = Denied("envelope_invalid")) <=> deep
    BY <2>1, <2>3, <2>4
  <2> QED
    BY <2>5 DEF deep
<1> QED
  BY <1>1, AnswersAreGiven, PTL
=============================================================================
