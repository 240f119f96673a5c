-------------------------------- MODULE Claims --------------------------------
(***************************************************************************)
(* What an agent may claim about a mediated call, and the verdict the      *)
(* decision log gives (pep/host/claims.py).                                *)
(*                                                                         *)
(* A log is a sequence of records; a field a record does not carry is      *)
(* None.  A seq that is no positive integer is 0.  The result check of a   *)
(* record is None (no check), Unencodable, Cut (a shortened line, its      *)
(* digest gone) or the digest.  Wording of verdicts is left out.           *)
(***************************************************************************)
EXTENDS Naturals, Sequences, FiniteSets

CONSTANTS None, Absent, Malformed, Unencodable, Cut

Consistent == [verdict |-> "consistent", field |-> None]
Contradicted(field) == [verdict |-> "contradicted", field |-> field]
Unverifiable(field) == [verdict |-> "unverifiable", field |-> field]

-----------------------------------------------------------------------------
\* The body of a claim that parse_claim accepts.  `extra` says whether it has
\* unknown keys, `schema` whether it names the schema.
WellFormed(raw) ==
    /\ ~raw.extra
    /\ raw.schema
    /\ raw.tool \notin {None, Malformed}
    /\ raw.request # Malformed
    /\ raw.digest # Malformed
    /\ \/ /\ raw.kind = "action"
          /\ raw.outcome \in {"allowed", "denied"}
          /\ raw.request # None
          /\ raw.outcome = "denied" => raw.digest = None
          /\ raw.session = Absent
       \/ /\ raw.kind = "absence"
          /\ raw.outcome = "not_called"
          /\ raw.request = None
          /\ raw.digest = None
          /\ raw.session \notin {Absent, None, Malformed}

\* The connection's own principal replaces the session a body names.
BindClaimSession(raw, principal) ==
    [raw EXCEPT !.session = IF raw.kind = "absence" THEN principal ELSE Absent]

-----------------------------------------------------------------------------
\* The lines of one session that open or close it.
Markers(records, session, decision) ==
    {i \in DOMAIN records : /\ records[i].decision = decision
                            /\ records[i].session = session}

\* The indices of the lines with a seq.
Numbered(records, n) == {i \in DOMAIN records : records[i].seq = n}

\* Mutant: the last open counts, whatever came before.
BoundsSinceLastOpen(records, session, i, j) ==
    /\ \A k \in Markers(records, session, "SESSION_OPEN") : k <= i
    /\ Markers(records, session, "SESSION_CLOSE") = {j}
    /\ records[i].seq >= 1
    /\ records[i].seq < records[j].seq
    /\ \A n \in records[i].seq .. records[j].seq :
           \E k \in DOMAIN records : Numbered(records, n) = {k}

\* Lines i and j bound the session: they are its only open and its only close,
\* and every seq from one to the other is the seq of exactly one line.
Bounds(records, session, i, j) ==
    /\ Markers(records, session, "SESSION_OPEN") = {i}
    /\ Markers(records, session, "SESSION_CLOSE") = {j}
    /\ records[i].seq >= 1
    /\ records[i].seq < records[j].seq
    /\ \A n \in records[i].seq .. records[j].seq :
           \E k \in DOMAIN records : Numbered(records, n) = {k}

\* A record that shows the tool was admitted or entered.
ShowsCall(record, tool) ==
    /\ record.tool = tool
    /\ \/ record.decision \in {"PRE_ENTRY", "ALLOW"}
       \/ record.decision = "DENY" /\ record.reason = "tool_failed"
       \/ record.check \in {"entered", "raised"}

VerifyAbsence(claim, records) ==
    LET spans == {ij \in Markers(records, claim.session, "SESSION_OPEN")
                         \X Markers(records, claim.session, "SESSION_CLOSE") :
                      Bounds(records, claim.session, ij[1], ij[2])}
    IN IF spans = {} THEN Unverifiable("session_id")
       ELSE IF \E ij \in spans, k \in DOMAIN records :
                  /\ records[k].seq \in records[ij[1]].seq .. records[ij[2]].seq
                  /\ records[k].session = claim.session
                  /\ ShowsCall(records[k], claim.tool)
            THEN Contradicted("tool_name")
            ELSE Consistent

-----------------------------------------------------------------------------
Fields == <<"tool_name", "outcome", "result_digest">>

Recorded(record) == IF record.decision = "ALLOW" THEN "allowed" ELSE "denied"

\* A final record contradicts the claim on a field.
Contradicts(claim, record, field) ==
    \/ field = "tool_name" /\ record.tool # claim.tool
    \/ field = "outcome" /\ Recorded(record) # claim.outcome
    \/ /\ field = "result_digest"
       /\ claim.digest # None
       /\ record.decision = "ALLOW"
       /\ record.result \notin {None, Cut, claim.digest}

\* Mutant: a record without a result check settles the digest.
DigestCutOnly(claim, record) == claim.digest # None /\ record.result = Cut

\* The final record cannot say whether the digest is the one the host saw.
DigestUnsettled(claim, record) ==
    claim.digest # None /\ record.result \in {None, Cut}

\* Finals that disagree on the decision settle no outcome; they may still
\* contradict the tool or the digest, and the first such field is named.
VerifyAction(claim, records) ==
    LET finals == {records[i] : i \in {k \in DOMAIN records :
                       /\ records[k].request = claim.request
                       /\ records[k].decision \in {"ALLOW", "DENY"}}}
        split == Cardinality({r.decision : r \in finals}) > 1
        against == {f \in DOMAIN Fields :
                       /\ split => Fields[f] # "outcome"
                       /\ \E r \in finals : Contradicts(claim, r, Fields[f])}
    IN IF finals = {} THEN Unverifiable("request_id")
       ELSE IF against # {}
       THEN Contradicted(Fields[CHOOSE f \in against : \A g \in against : f <= g])
       ELSE IF split THEN Unverifiable("request_id")
       ELSE IF \E r \in finals : DigestUnsettled(claim, r)
       THEN Unverifiable("result_digest")
       ELSE Consistent

VerifyClaim(claim, records) ==
    IF claim.kind = "absence" THEN VerifyAbsence(claim, records)
                              ELSE VerifyAction(claim, records)

\* The verdict on what an agent says on a connection; a body that does not
\* parse gets none.
VerifyConnectedClaim(raw, principal, records) ==
    LET claim == BindClaimSession(raw, principal)
    IN IF WellFormed(claim) THEN VerifyClaim(claim, records)
                            ELSE [verdict |-> "refused", field |-> None]
===============================================================================
