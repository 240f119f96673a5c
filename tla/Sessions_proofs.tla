-------------------------- MODULE Sessions_proofs --------------------------
(***************************************************************************)
(* Proofs about Sessions: what a verdict of Claims is worth, and that a    *)
(* reply is its call's.  The invariants speak of the lines the host has    *)
(* put out, Written: those of the file and, after them, those of the       *)
(* buffer, in the order of their appends.                                  *)
(***************************************************************************)
EXTENDS Sessions, SequenceTheorems, FiniteSetTheorems, TLAPS

-----------------------------------------------------------------------------
(***************************************************************************)
(* Sequences cut in two and put together again.                            *)
(***************************************************************************)
LEMMA ConcatIs ==
    ASSUME NEW S, NEW f \in Seq(S), NEW g \in Seq(S)
    PROVE  /\ f \o g \in Seq(S)
           /\ Len(f) \in Nat /\ Len(g) \in Nat /\ Len(f \o g) = Len(f) + Len(g)
           /\ \A i \in 1 .. Len(f) : (f \o g)[i] = f[i]
           /\ \A i \in 1 .. Len(g) : (f \o g)[Len(f) + i] = g[i]
  OBVIOUS

\* A sequence cut in two is still itself.
LEMMA CutIs ==
    ASSUME NEW S, NEW g \in Seq(S), NEW n \in 0 .. Len(g)
    PROVE  /\ SubSeq(g, 1, n) \in Seq(S) /\ SubSeq(g, n + 1, Len(g)) \in Seq(S)
           /\ SubSeq(g, 1, n) \o SubSeq(g, n + 1, Len(g)) = g
<1>1. Len(g) \in Nat /\ \A k \in 1 .. Len(g) : g[k] \in S
  BY LenProperties, ElementOfSeq
<1>2. /\ SubSeq(g, 1, n) \in Seq(S) /\ Len(SubSeq(g, 1, n)) = n
      /\ \A k \in 1 .. n : SubSeq(g, 1, n)[k] = g[k]
  BY <1>1, SubSeqProperties
<1>3. /\ SubSeq(g, n + 1, Len(g)) \in Seq(S) /\ Len(SubSeq(g, n + 1, Len(g))) = Len(g) - n
      /\ \A k \in 1 .. Len(g) - n : SubSeq(g, n + 1, Len(g))[k] = g[n + k]
  BY <1>1, SubSeqProperties
<1> DEFINE a == SubSeq(g, 1, n)
           b == SubSeq(g, n + 1, Len(g))
<1>4. /\ a \in Seq(S) /\ b \in Seq(S) /\ Len(a) = n /\ Len(b) = Len(g) - n
      /\ \A k \in 1 .. n : a[k] = g[k]
      /\ \A k \in 1 .. Len(g) - n : b[k] = g[n + k]
  BY <1>2, <1>3
<1> HIDE DEF a, b
<1>5. /\ a \o b \in Seq(S) /\ Len(a \o b) = Len(g)
      /\ \A k \in 1 .. n : (a \o b)[k] = a[k]
      /\ \A k \in 1 .. Len(g) - n : (a \o b)[n + k] = b[k]
  BY <1>1, <1>4, ConcatIs
<1>6. ASSUME NEW k \in 1 .. Len(g) PROVE (a \o b)[k] = g[k]
  <2>1. CASE k <= n
    BY <1>4, <1>5, <2>1
  <2>2. CASE ~(k <= n)
    <3>1. k - n \in 1 .. Len(g) - n /\ n + (k - n) = k
      BY <1>1, <2>2
    <3>2. b[k - n] = g[n + (k - n)] /\ (a \o b)[n + (k - n)] = b[k - n]
      BY <1>4, <1>5, <3>1
    <3> QED
      BY <3>1, <3>2
  <2> QED
    BY <2>1, <2>2
<1>7. a \o b = g
  BY <1>5, <1>6, SeqEqual
<1> QED
  BY <1>4, <1>7 DEF a, b

\* Appending to the second part of a sequence appends to the sequence.
LEMMA SplitAppends ==
    ASSUME NEW S, NEW f \in Seq(S), NEW g \in Seq(S), NEW x \in S
    PROVE  f \o Append(g, x) = Append(f \o g, x)
<1>1. Append(g, x) = g \o <<x>> /\ <<x>> \in Seq(S) /\ f \o g \in Seq(S)
  OBVIOUS
<1>2. Append(f \o g, x) = (f \o g) \o <<x>>
  BY <1>1
<1> QED
  BY <1>1, <1>2, ConcatAssociative

LEMMA AppendIs ==
    ASSUME NEW S, NEW f \in Seq(S), NEW x \in S
    PROVE  /\ Append(f, x) \in Seq(S) /\ Len(Append(f, x)) = Len(f) + 1 /\ Len(f) \in Nat
           /\ Append(f, x)[Len(f) + 1] = x
           /\ \A k \in 1 .. Len(f) : Append(f, x)[k] = f[k]
  OBVIOUS

USE SessionsAssumption
USE DEF vars, hostVars, logVars, clientVars, history

-----------------------------------------------------------------------------
(***************************************************************************)
(* Types.                                                                  *)
(***************************************************************************)
Decisions == {"SESSION_OPEN", "SESSION_CLOSE", "PRE_ENTRY", "ALLOW", "DENY"}
Lines == [seq : Nat, decision : Decisions, session : Conns, request : Nat \X Nat,
          tool : Tools \cup {None}, reason : Reasons \cup {None},
          check : {None, "entered", "raised"},
          result : Digests \cup {None, Unencodable, Cut}, life : Nat]
Requests == [request : Nat \X Nat, tag : Nat, tool : Tools \cup {None},
             asked : Tools \cup {None}, result : Digests \cup {None, Unencodable},
             reason : Reasons \cup {None}]
Messages == [answers : Nat, request : (Nat \X Nat) \cup {None}, decision : {"DENY", "ALLOW"},
             reason : Reasons \cup {None}, digest : Digests \cup {None}]
Results == [life : Nat, request : Nat \X Nat, tool : Tools \cup {None},
            result : Digests \cup {Unencodable}]
Reports == [life : Nat, conn : Conns, tool : Tools, tag : Nat, answers : Nat,
            request : Nat \X Nat, decision : {"DENY", "ALLOW"}, reason : Reasons \cup {None},
            digest : Digests \cup {None}]
Phases == {"none", "opening", "reading", "denying", "admitted", "recorded", "failing",
           "returned", "closing", "gone"}

TypeOK ==
    /\ life \in Nat /\ nextConnection \in Nat /\ nextRequest \in Nat /\ seq \in Nat
    /\ log \in Seq(Lines) /\ buffer \in Seq(Lines)
    /\ pc \in [Conns -> Phases]
    /\ cur \in [Conns -> Requests] /\ inbox \in [Conns -> Requests]
    /\ outbox \in [Conns -> Seq(Messages)]
    /\ client \in [Conns -> Tools \cup {"none", "free", "closed"}]
    /\ calls \in [Conns -> Nat] /\ last \in [Conns -> Nat]
    /\ called \subseteq Conns \X (Tools \cup {None})
    /\ returned \subseteq Results
    /\ told \subseteq Reports

\* Connection ids are numbers (server.py:349-350).
LEMMA ConnsAreNumbers == Conns \subseteq Nat
<1> SUFFICES ASSUME NEW c \in Conns PROVE c \in Nat
  OBVIOUS
<1>1. PICK i \in DOMAIN Lives : c \in 1 .. Lives[i].connections
  BY DEF Conns
<1>2. Lives[i] \in [connections : Nat, requests : Nat]
  <2> DEFINE S == [connections : Nat, requests : Nat]
  <2> HIDE DEF S
  <2>1. Lives \in Seq(S)
    BY DEF S
  <2>2. DOMAIN Lives = 1 .. Len(Lives)
    BY <2>1, LenProperties
  <2>3. Lives[i] \in S
    BY <1>1, <2>1, <2>2, ElementOfSeq
  <2> QED
    BY <2>3 DEF S
<1> QED
  BY <1>1, <1>2

\* What a request and a message are made of.
LEMMA RequestFields ==
    ASSUME NEW r \in Requests
    PROVE  /\ r.request \in Nat \X Nat /\ r.request[1] \in Nat /\ r.request[2] \in Nat
           /\ r.tag \in Nat /\ r.tool \in Tools \cup {None} /\ r.asked \in Tools \cup {None}
           /\ r.result \in Digests \cup {None, Unencodable} /\ r.reason \in Reasons \cup {None}
  BY DEF Requests

LEMMA NoRequestIs ==
    /\ NoRequest \in Requests /\ NoRequest.tag = 0 /\ NoRequest.reason = None
    /\ NoRequest.request = <<0, 0>> /\ NoRequest.tool = None
  BY DEF NoRequest, Requests

\* A line of the log as _append makes it (server.py:1745-1758).
LEMMA LineIs ==
    ASSUME TypeOK, NEW d \in Decisions, NEW c \in Conns, NEW r \in Nat \X Nat,
           NEW t \in Tools \cup {None}
    PROVE  /\ Line(d, c, r, t) \in Lines
           /\ Line(d, c, r, t).seq = seq + 1 /\ Line(d, c, r, t).life = life
           /\ Line(d, c, r, t).decision = d /\ Line(d, c, r, t).session = c
           /\ Line(d, c, r, t).request = r /\ Line(d, c, r, t).tool = t
           /\ Line(d, c, r, t).result = None
  BY DEF Line, Lines, TypeOK

LEMMA MarkerIs ==
    ASSUME TypeOK, NEW d \in Decisions, NEW c \in Conns
    PROVE  /\ Marker(c, d) \in Lines
           /\ Marker(c, d).seq = seq + 1 /\ Marker(c, d).life = life
           /\ Marker(c, d).decision = d /\ Marker(c, d).session = c
           /\ Marker(c, d).request = <<c, 0>>
<1>1. <<c, 0>> \in Nat \X Nat
  BY ConnsAreNumbers
<1> QED
  BY <1>1, LineIs DEF Marker

\* What bound_record leaves of a line (log.py:154-184).
LEMMA BoundRecordIs ==
    ASSUME NEW l \in Lines, NEW b \in BoundRecord(l)
    PROVE  /\ b \in Lines
           /\ b.seq = l.seq /\ b.life = l.life /\ b.decision = l.decision
           /\ b.session = l.session /\ b.request = l.request /\ b.tool = l.tool
           /\ b.result \in {None, Cut, l.result}
<1>1. CASE b = l
  BY <1>1
<1>2. CASE b = [l EXCEPT !.check = None, !.result = None]
  BY <1>2 DEF Lines
<1>3. CASE b = [l EXCEPT !.result = IF @ \in Digests THEN Cut ELSE @]
  <2>1. CASE l.result \in Digests
    BY <1>3, <2>1 DEF Lines
  <2>2. CASE l.result \notin Digests
    <3>1. b = [l EXCEPT !.result = l.result]
      BY <1>3, <2>2
    <3> QED
      BY <3>1 DEF Lines
  <2> QED
    BY <2>1, <2>2
<1> QED
  BY <1>1, <1>2, <1>3 DEF BoundRecord

\* The fields of a line, and of a message.
LEMMA LineFields ==
    ASSUME NEW l \in Lines
    PROVE  /\ l.seq \in Nat /\ l.life \in Nat /\ l.session \in Conns /\ l.decision \in Decisions
           /\ l.request \in Nat \X Nat /\ l.request[1] \in Nat /\ l.request[2] \in Nat
  BY DEF Lines

LEMMA DenyIs ==
    ASSUME TypeOK, NEW c \in Conns, NEW reason \in Reasons \cup {None}
    PROVE  /\ Deny(c, reason) \in Messages
           /\ Deny(c, reason).answers = cur[c].tag /\ Deny(c, reason).request = cur[c].request
           /\ Deny(c, reason).decision = "DENY" /\ Deny(c, reason).reason = reason
           /\ Deny(c, reason).digest = None
<1>1. cur[c] \in Requests
  BY DEF TypeOK
<1> QED
  BY <1>1, RequestFields DEF Deny, Messages

-----------------------------------------------------------------------------
(***************************************************************************)
(* The lines put out.  An append adds one, whether it fails or not; a      *)
(* restart loses some that were not in the file.  The file only grows.     *)
(***************************************************************************)
Written == log \o buffer
Out == 1 .. Len(Written)
InFile == 1 .. Len(log)

FileKept == /\ Len(log') >= Len(log) /\ \A k \in InFile : log'[k] = log[k]
Appended(line) ==
    /\ Len(Written') = Len(Written) + 1 /\ Written'[Len(Written) + 1] = line
    /\ \A k \in Out : Written'[k] = Written[k]
    /\ FileKept
Truncated ==
    /\ Len(Written') <= Len(Written) /\ \A k \in Out' : Written'[k] = Written[k]
    /\ FileKept

LEMMA WrittenIs ==
    ASSUME TypeOK
    PROVE  /\ Written \in Seq(Lines) /\ Len(Written) \in Nat /\ Len(log) \in Nat
           /\ Len(log) <= Len(Written)
           /\ \A k \in InFile : k \in Out /\ Written[k] = log[k] /\ log[k] \in Lines
           /\ \A k \in Out : Written[k] \in Lines
<1>1. /\ log \in Seq(Lines) /\ buffer \in Seq(Lines)
  BY DEF TypeOK
<1>2. /\ Written \in Seq(Lines) /\ Len(Written) = Len(log) + Len(buffer)
      /\ \A k \in 1 .. Len(log) + Len(buffer) :
             Written[k] = IF k <= Len(log) THEN log[k] ELSE buffer[k - Len(log)]
  BY <1>1, ConcatProperties DEF Written
<1>3. Len(log) \in Nat /\ Len(buffer) \in Nat
  BY <1>1, LenProperties
<1>4. \A k \in Out : Written[k] \in Lines
  BY <1>2, ElementOfSeq DEF Out
<1> QED
  BY <1>2, <1>3, <1>4 DEF Out, InFile

\* An append that fails takes the same line as one that does not.
LEMMA WroteIs ==
    ASSUME TypeOK, NEW line \in Lines, Wrote(line)
    PROVE  /\ log' \in Seq(Lines) /\ buffer' \in Seq(Lines) /\ Appended(line)
           /\ seq' = seq + 1 /\ halted' = halted
           /\ Len(log') = Len(Written) + 1 /\ log'[Len(Written) + 1] = line
<1>1. log \in Seq(Lines) /\ buffer \in Seq(Lines) /\ Len(log) \in Nat /\ Len(buffer) \in Nat
  BY LenProperties DEF TypeOK
<1>2. log' = log \o Append(buffer, line) /\ buffer' = <<>> /\ seq' = seq + 1 /\ halted' = halted
  BY DEF Wrote
<1>3. Append(buffer, line) \in Seq(Lines) /\ <<>> \in Seq(Lines)
  BY <1>1
<1>4. /\ log' \in Seq(Lines) /\ Len(log') = Len(log) + Len(buffer) + 1
      /\ \A k \in InFile : log'[k] = log[k]
  BY <1>1, <1>2, <1>3, ConcatIs, AppendIs DEF InFile
<1>5. log \o Append(buffer, line) = Append(Written, line)
  BY <1>1, SplitAppends DEF Written
<1>6. Written' = log'
  BY <1>2, <1>4, ConcatEmptySeq DEF Written
<1>7. Written \in Seq(Lines)
  BY WrittenIs
<1>8. Written' = Append(Written, line)
  BY <1>2, <1>5, <1>6
<1>9. /\ Len(Written') = Len(Written) + 1 /\ Written'[Len(Written) + 1] = line
      /\ \A k \in Out : Written'[k] = Written[k]
  BY <1>7, <1>8, AppendIs DEF Out
<1>10. FileKept
  BY <1>1, <1>4 DEF FileKept
<1>11. buffer' \in Seq(Lines)
  BY <1>2, <1>3
<1>12. Len(log') = Len(Written) + 1 /\ log'[Len(Written) + 1] = line
  BY <1>6, <1>9
<1> QED
  BY <1>2, <1>4, <1>9, <1>10, <1>11, <1>12 DEF Appended

LEMMA NotWrittenIs ==
    ASSUME TypeOK, NEW line \in Lines, NotWritten(line)
    PROVE  /\ log' \in Seq(Lines) /\ buffer' \in Seq(Lines) /\ Appended(line)
           /\ seq' = seq /\ halted' = TRUE
<1>1. log \in Seq(Lines) /\ buffer \in Seq(Lines) /\ Len(log) \in Nat /\ Len(buffer) \in Nat
  BY LenProperties DEF TypeOK
<1>2. PICK n \in 0 .. Len(buffer) + 1 :
         /\ log' = log \o SubSeq(Append(buffer, line), 1, n)
         /\ buffer' = SubSeq(Append(buffer, line), n + 1, Len(buffer) + 1)
  BY DEF NotWritten
<1>3. seq' = seq /\ halted' = TRUE
  BY DEF NotWritten
<1>4. log' \in Seq(Lines) /\ buffer' \in Seq(Lines) /\ Written' = Append(Written, line)
  <2> DEFINE all == Append(buffer, line)
             a == SubSeq(all, 1, n)
             b == SubSeq(all, n + 1, Len(all))
  <2>1. all \in Seq(Lines) /\ Len(all) = Len(buffer) + 1 /\ log \o all = Append(Written, line)
    BY <1>1, SplitAppends, AppendIs DEF Written
  <2>2. log' = log \o a /\ buffer' = b /\ n \in 0 .. Len(all)
    BY <1>2, <2>1
  <2> HIDE DEF all
  <2>3. a \in Seq(Lines) /\ b \in Seq(Lines) /\ a \o b = all
    BY <2>1, <2>2, CutIs
  <2> HIDE DEF a, b
  <2>4. (log \o a) \o b = log \o (a \o b)
    <3>1. \A u, v, w \in Seq(Lines) : (u \o v) \o w = u \o (v \o w)
      BY SMTT(20), ConcatAssociative
    <3>2. log \in Seq(Lines)
      BY <1>1
    <3>3. a \in Seq(Lines)
      BY <2>3
    <3>4. b \in Seq(Lines)
      BY <2>3
    <3> QED
      BY <3>1, <3>2, <3>3, <3>4
  <2>5. log \o a \in Seq(Lines)
    BY <1>1, <2>3
  <2> QED
    BY <2>1, <2>2, <2>3, <2>4, <2>5 DEF Written
<1>5. Written \in Seq(Lines)
  BY WrittenIs
<1>6. /\ Len(Written') = Len(Written) + 1 /\ Written'[Len(Written) + 1] = line
      /\ \A k \in Out : Written'[k] = Written[k]
  BY <1>4, <1>5, AppendIs DEF Out
<1>7. FileKept
  <2>1. SubSeq(Append(buffer, line), 1, n) \in Seq(Lines)
    BY <1>1, <1>2, AppendIs, CutIs
  <2> QED
    BY <1>1, <1>2, <2>1, ConcatIs DEF FileKept, InFile
<1> QED
  BY <1>3, <1>4, <1>6, <1>7 DEF Appended

\* A restart keeps the file and what the power left of the buffer.
LEMMA RestartIs ==
    ASSUME TypeOK, Restart
    PROVE  /\ log' \in Seq(Lines) /\ buffer' \in Seq(Lines) /\ seq' \in Nat /\ Truncated
<1>1. log \in Seq(Lines) /\ buffer \in Seq(Lines) /\ Len(log) \in Nat /\ Len(buffer) \in Nat
  BY LenProperties DEF TypeOK
<1>2. PICK n \in 0 .. Len(buffer) : log' = log \o SubSeq(buffer, 1, n)
  BY DEF Restart
<1>3. buffer' = <<>> /\ seq' = Len(log') /\ <<>> \in Seq(Lines)
  BY DEF Restart
<1>4. /\ SubSeq(buffer, 1, n) \in Seq(Lines) /\ Len(SubSeq(buffer, 1, n)) = n
      /\ \A k \in 1 .. n : SubSeq(buffer, 1, n)[k] = buffer[k]
  BY <1>1, <1>2
<1>5. /\ log' \in Seq(Lines) /\ Len(log') = Len(log) + n
      /\ \A k \in 1 .. Len(log) : log'[k] = log[k]
      /\ \A k \in 1 .. n : log'[Len(log) + k] = buffer[k]
  BY <1>1, <1>2, <1>4, ConcatIs
<1>6. Written' = log'
  BY <1>3, <1>5, ConcatEmptySeq DEF Written
<1>7. /\ Len(Written) = Len(log) + Len(buffer)
      /\ \A k \in 1 .. Len(log) : Written[k] = log[k]
      /\ \A k \in 1 .. Len(buffer) : Written[Len(log) + k] = buffer[k]
  BY <1>1, ConcatIs DEF Written
<1>8. ASSUME NEW k \in 1 .. Len(log') PROVE log'[k] = Written[k]
  <2>1. CASE k <= Len(log)
    BY <1>1, <1>5, <1>7, <2>1
  <2>2. CASE ~(k <= Len(log))
    <3>1. k - Len(log) \in 1 .. n /\ Len(log) + (k - Len(log)) = k /\ k - Len(log) \in 1 .. Len(buffer)
      BY <1>1, <1>2, <1>5, <2>2
    <3> QED
      BY ZenonT(30), <1>5, <1>7, <3>1
  <2> QED
    BY <2>1, <2>2
<1> QED
  BY <1>1, <1>2, <1>3, <1>5, <1>6, <1>7, <1>8 DEF Truncated, FileKept, InFile, Out

-----------------------------------------------------------------------------
(***************************************************************************)
(* The steps of the host, as far as the lines and the histories are        *)
(* concerned: what an action of Next does to them, told without its        *)
(* replies.                                                                *)
(***************************************************************************)
Active == {"denying", "admitted", "recorded", "failing", "returned"}
Served == Active \cup {"reading", "closing"}
Final(line) == line.decision \in {"ALLOW", "DENY"}

Quiet == Written' = Written /\ log' = log /\ seq' = seq
Same == UNCHANGED <<nextRequest, called, returned>>
Others(c) == \A d \in Conns : d # c => pc'[d] = pc[d] /\ cur'[d] = cur[d]

Puts(c, line) ==
    /\ line \in Lines /\ line.seq = seq + 1 /\ line.life = life /\ line.session = c
    /\ Appended(line) /\ seq' \in {seq, seq + 1}
PutsInFile(c, line) ==
    /\ Puts(c, line) /\ Len(log') = Len(Written) + 1 /\ log'[Len(Written) + 1] = line

Opens(c) == /\ pc[c] = "none" /\ pc'[c] = "opening" /\ cur'[c] = cur[c] /\ Quiet /\ Same
Ends(c) == /\ pc[c] = "reading" /\ pc'[c] = "closing" /\ cur'[c] = cur[c] /\ Quiet /\ Same
Takes(c) ==
    /\ pc[c] = "reading" /\ pc'[c] \in {"denying", "admitted"}
    /\ nextRequest' = nextRequest + 1 /\ cur'[c].request = <<c, nextRequest + 1>>
    /\ Quiet /\ UNCHANGED <<called, returned>>
Runs(c) ==
    /\ pc[c] = "recorded" /\ cur'[c].request = cur[c].request /\ cur'[c].tool = cur[c].tool
    /\ called' \subseteq called \cup {<<c, cur[c].tool>>}
    /\ \/ pc'[c] = "failing" /\ returned' = returned
       \/ /\ pc'[c] = "returned" /\ cur'[c].result \in Digests \cup {Unencodable}
          /\ returned' = returned \cup
                {[life |-> life, request |-> cur[c].request, tool |-> cur[c].tool,
                  result |-> cur'[c].result]}
    /\ Quiet /\ UNCHANGED nextRequest
Marks(c) ==
    /\ pc[c] = "opening" /\ cur'[c] = cur[c] /\ Same
    /\ \E line \in Lines :
          /\ line.decision = "SESSION_OPEN" /\ line.request = <<c, 0>>
          /\ \/ pc'[c] = "gone" /\ Puts(c, line)
             \/ pc'[c] = "reading" /\ PutsInFile(c, line)
Unmarks(c) ==
    /\ pc[c] = "closing" /\ pc'[c] = "gone" /\ cur'[c] = cur[c] /\ Same
    /\ \E line \in Lines :
          line.decision = "SESSION_CLOSE" /\ line.request = <<c, 0>> /\ Puts(c, line)
Enters(c) ==
    /\ pc[c] = "admitted" /\ pc'[c] = "recorded" /\ cur'[c] = cur[c] /\ Same
    /\ \E line \in Lines :
          /\ line.decision = "PRE_ENTRY" /\ line.request = cur[c].request
          /\ line.tool = cur[c].tool /\ PutsInFile(c, line)
OfCall(c, line) ==
    /\ line.request = cur[c].request /\ line.tool = cur[c].tool
    /\ \/ line.decision = "PRE_ENTRY" /\ pc[c] = "admitted"
       \/ line.decision = "DENY" /\ pc[c] \in {"denying", "failing"}
       \/ /\ line.decision = "ALLOW" /\ pc[c] = "returned"
          /\ line.result \in {None, Cut, cur[c].result}
Replies(c) ==
    /\ pc[c] \in Active /\ pc'[c] \in {"reading", "closing"} /\ cur'[c] = NoRequest /\ Same
    /\ Quiet \/ \E line \in Lines : OfCall(c, line) /\ Puts(c, line)

Works(c) ==
    /\ life' = life /\ Others(c)
    /\ \/ Opens(c) \/ Ends(c) \/ Takes(c) \/ Runs(c)
       \/ Marks(c) \/ Unmarks(c) \/ Enters(c) \/ Replies(c)
Rests == life' = life /\ Quiet /\ Same /\ UNCHANGED <<pc, cur>>

LEMMA UnchangedLog == UNCHANGED logVars => Quiet
  BY DEF Quiet, Written

\* A thread that sends a line ends its request.
LEMMA SendLineIs ==
    ASSUME TypeOK, NEW c \in Conns, NEW m \in Messages, NEW next \in Phases,
           SendLine(c, m, next)
    PROVE  /\ pc' \in [Conns -> Phases] /\ cur' \in [Conns -> Requests]
           /\ outbox' \in [Conns -> Seq(Messages)]
           /\ pc'[c] \in {next, "closing"} /\ cur'[c] = NoRequest /\ Others(c)
<1>1. NoRequest \in Requests
  BY NoRequestIs
<1>2. Append(outbox[c], m) \in Seq(Messages)
  BY AppendIs DEF TypeOK
<1>3. /\ pc \in [Conns -> Phases] /\ cur \in [Conns -> Requests]
      /\ outbox \in [Conns -> Seq(Messages)] /\ "closing" \in Phases
  BY DEF TypeOK, Phases
<1>4. cur' = [cur EXCEPT ![c] = NoRequest]
  BY DEF SendLine
<1>5. CASE client[c] = "closed"
  <2>1. pc' = [pc EXCEPT ![c] = "closing"] /\ outbox' = outbox
    BY <1>5 DEF SendLine
  <2> QED
    BY <1>1, <1>3, <1>4, <2>1 DEF Others
<1>6. CASE client[c] # "closed"
  <2>1. pc' = [pc EXCEPT ![c] = next] /\ outbox' = [outbox EXCEPT ![c] = Append(outbox[c], m)]
    BY <1>6 DEF SendLine
  <2> QED
    BY <1>1, <1>2, <1>3, <1>4, <2>1 DEF Others
<1> QED
  BY <1>5, <1>6

LEMMA AfterReplyIs == \A c \in Conns : AfterReply(c) \in {"reading", "closing"}
  BY DEF AfterReply

\* An answer: the line is put out, a message is sent, and the request ends.
LEMMA AnswerIs ==
    ASSUME TypeOK, NEW c \in Conns, NEW line \in Lines, NEW m \in Messages,
           line.seq = seq + 1, line.life = life, line.session = c, Answer(c, line, m)
    PROVE  /\ log' \in Seq(Lines) /\ buffer' \in Seq(Lines) /\ seq' \in Nat
           /\ pc' \in [Conns -> Phases] /\ cur' \in [Conns -> Requests]
           /\ outbox' \in [Conns -> Seq(Messages)]
           /\ pc'[c] \in {"reading", "closing"} /\ cur'[c] = NoRequest /\ Others(c)
           /\ Puts(c, line)
           /\ \E n \in {m, Deny(c, "append_failed")} :
                 n \in Messages /\ SendLine(c, n, AfterReply(c))
<1>1. Deny(c, "append_failed") \in Messages
  BY DenyIs DEF Reasons
<1>2. PICK n \in {m, Deny(c, "append_failed")} :
         n \in Messages /\ SendLine(c, n, AfterReply(c)) /\ (Wrote(line) \/ NotWritten(line))
  BY <1>1 DEF Answer
<1>3. AfterReply(c) \in Phases /\ AfterReply(c) \in {"reading", "closing"}
  BY AfterReplyIs DEF Phases
<1>4. /\ pc' \in [Conns -> Phases] /\ cur' \in [Conns -> Requests]
      /\ outbox' \in [Conns -> Seq(Messages)]
      /\ pc'[c] \in {"reading", "closing"} /\ cur'[c] = NoRequest /\ Others(c)
  BY <1>2, <1>3, SendLineIs
<1>5. /\ log' \in Seq(Lines) /\ buffer' \in Seq(Lines) /\ Appended(line)
      /\ seq' \in {seq, seq + 1}
  BY <1>2, WroteIs, NotWrittenIs
<1>6. seq' \in Nat
  BY <1>5 DEF TypeOK
<1> QED
  BY <1>2, <1>4, <1>5, <1>6 DEF Puts

-----------------------------------------------------------------------------
(***************************************************************************)
(* Every action keeps the types and is one of these steps.                 *)
(***************************************************************************)
LEMMA OpenIs ==
    ASSUME TypeOK, NEW c \in Conns, Open(c)
    PROVE  TypeOK' /\ Works(c)
<1>1. Quiet
  BY UnchangedLog DEF Open
<1>2. c \in Nat
  BY ConnsAreNumbers
<1> QED
  BY <1>1, <1>2 DEF Open, TypeOK, Works, Opens, Others, Same, Phases

LEMMA EndOfInputIs ==
    ASSUME TypeOK, NEW c \in Conns, EndOfInput(c)
    PROVE  TypeOK' /\ Works(c)
<1>1. Quiet
  BY UnchangedLog DEF EndOfInput
<1> QED
  BY <1>1 DEF EndOfInput, TypeOK, Works, Ends, Others, Same, Phases

LEMMA DecideIs ==
    ASSUME TypeOK, NEW c \in Conns, Decide(c)
    PROVE  TypeOK' /\ Works(c)
<1>1. Quiet
  BY UnchangedLog DEF Decide
<1>2. <<c, nextRequest + 1>> \in Nat \X Nat /\ nextRequest + 1 \in Nat
  BY ConnsAreNumbers DEF TypeOK
<1>3. inbox[c] \in Requests /\ inbox[c].asked \in Tools \cup {None}
  BY RequestFields DEF TypeOK
<1>4. PICK denial \in {"unread", "denied", None} :
         /\ cur' = [cur EXCEPT ![c] =
                [inbox[c] EXCEPT
                     !.request = <<c, nextRequest + 1>>,
                     !.tool = IF denial = "unread" THEN None ELSE inbox[c].asked,
                     !.reason = denial]]
         /\ pc' = [pc EXCEPT ![c] = IF denial = None THEN "admitted" ELSE "denying"]
  BY DEF Decide
<1> DEFINE q == [inbox[c] EXCEPT
                     !.request = <<c, nextRequest + 1>>,
                     !.tool = IF denial = "unread" THEN None ELSE inbox[c].asked,
                     !.reason = denial]
<1>5. q \in Requests /\ q.request = <<c, nextRequest + 1>>
  <2> DEFINE t == IF denial = "unread" THEN None ELSE inbox[c].asked
  <2>1. t \in Tools \cup {None} /\ denial \in Reasons \cup {None}
    BY <1>3, <1>4 DEF Reasons
  <2> HIDE DEF t
  <2>2. [inbox[c] EXCEPT !.request = <<c, nextRequest + 1>>, !.tool = t, !.reason = denial]
          \in Requests
    BY <1>2, <1>3, <2>1 DEF Requests
  <2>3. [inbox[c] EXCEPT !.request = <<c, nextRequest + 1>>, !.tool = t, !.reason = denial].request
          = <<c, nextRequest + 1>>
    BY <1>3 DEF Requests
  <2> QED
    BY <2>2, <2>3 DEF t
<1>6. cur' = [cur EXCEPT ![c] = q]
  BY <1>4
<1> HIDE DEF q
<1>7. cur' \in [Conns -> Requests] /\ cur'[c].request = <<c, nextRequest + 1>>
  BY <1>5, <1>6 DEF TypeOK
<1>8. pc' \in [Conns -> Phases] /\ pc'[c] \in {"denying", "admitted"}
  BY <1>4 DEF TypeOK, Phases
<1>9. Others(c)
  BY <1>4, <1>6 DEF TypeOK, Others
<1>10. inbox' \in [Conns -> Requests]
  BY NoRequestIs DEF Decide, TypeOK
<1>11. TypeOK'
  BY <1>2, <1>7, <1>8, <1>10 DEF Decide, TypeOK
<1>12. Takes(c)
  BY <1>1, <1>7, <1>8 DEF Decide, Takes
<1> QED
  BY <1>9, <1>11, <1>12 DEF Decide, Works

LEMMA TimeOutIs ==
    ASSUME TypeOK, NEW c \in Conns, TimeOut(c)
    PROVE  TypeOK' /\ Works(c)
<1>1. Quiet
  BY UnchangedLog DEF TimeOut
<1>2. <<c, nextRequest + 1>> \in Nat \X Nat /\ nextRequest + 1 \in Nat
  BY ConnsAreNumbers DEF TypeOK
<1> DEFINE q == [NoRequest EXCEPT !.request = <<c, nextRequest + 1>>, !.reason = "timeout"]
<1>3. q \in Requests /\ q.request = <<c, nextRequest + 1>>
  BY <1>2 DEF NoRequest, Requests, Reasons
<1>4. cur' = [cur EXCEPT ![c] = q] /\ pc' = [pc EXCEPT ![c] = "denying"]
  BY DEF TimeOut
<1> HIDE DEF q
<1>5. /\ cur' \in [Conns -> Requests] /\ cur'[c].request = <<c, nextRequest + 1>>
      /\ pc' \in [Conns -> Phases] /\ pc'[c] = "denying" /\ Others(c)
  BY <1>3, <1>4 DEF TypeOK, Phases, Others
<1>6. TypeOK'
  BY <1>2, <1>5 DEF TimeOut, TypeOK
<1>7. Takes(c)
  BY <1>1, <1>5 DEF TimeOut, Takes
<1> QED
  BY <1>5, <1>6, <1>7 DEF TimeOut, Works

LEMMA CompleteIs ==
    ASSUME TypeOK, NEW c \in Conns, Complete(c)
    PROVE  TypeOK' /\ Works(c)
<1>1. Quiet /\ nextRequest' = nextRequest /\ life' = life
  BY UnchangedLog DEF Complete
<1>2. cur[c] \in Requests /\ cur[c].tool \in Tools \cup {None} /\ cur[c].request \in Nat \X Nat
  BY RequestFields DEF TypeOK
<1>3. called' \subseteq called \cup {<<c, cur[c].tool>>}
  BY DEF Complete
<1>4. called' \subseteq Conns \X (Tools \cup {None})
  BY <1>2, <1>3 DEF TypeOK
<1>5. UNCHANGED <<life, hostVars, logVars, inbox, outbox, clientVars, told>>
  BY DEF Complete
<1>6. CASE pc'[c] = "failing"
  <2>1. PICK reason \in {"halted_late", "tool_failed"} :
           /\ cur' = [cur EXCEPT ![c].reason = reason] /\ pc' = [pc EXCEPT ![c] = "failing"]
           /\ returned' = returned
    BY <1>6 DEF Complete, TypeOK
  <2>2. reason \in Reasons \cup {None}
    BY <2>1 DEF Reasons
  <2>3. /\ cur' \in [Conns -> Requests] /\ cur'[c].request = cur[c].request
        /\ cur'[c].tool = cur[c].tool
    BY <1>2, <2>1, <2>2 DEF TypeOK, Requests
  <2>4. pc' \in [Conns -> Phases] /\ Others(c)
    BY <2>1 DEF TypeOK, Phases, Others
  <2>5. TypeOK'
    BY <1>4, <1>5, <2>1, <2>3, <2>4 DEF TypeOK
  <2>6. Runs(c)
    BY <1>1, <1>3, <1>6, <2>1, <2>3 DEF Complete, Runs
  <2> QED
    BY <1>1, <2>4, <2>5, <2>6 DEF Works
<1>7. CASE pc'[c] # "failing"
  <2>1. PICK result \in Digests \cup {Unencodable} :
           /\ cur' = [cur EXCEPT ![c].result = result] /\ pc' = [pc EXCEPT ![c] = "returned"]
           /\ returned' = returned \cup
                  {[life |-> life, request |-> cur[c].request, tool |-> cur[c].tool,
                    result |-> result]}
    BY <1>7 DEF Complete, TypeOK
  <2>2. /\ cur' \in [Conns -> Requests] /\ cur'[c].request = cur[c].request
        /\ cur'[c].tool = cur[c].tool /\ cur'[c].result = result
    BY <1>2, <2>1 DEF TypeOK, Requests
  <2>3. pc' \in [Conns -> Phases] /\ Others(c) /\ pc'[c] = "returned"
    BY <2>1 DEF TypeOK, Phases, Others
  <2>4. returned' \subseteq Results
    BY SMTT(20), <1>2, <2>1 DEF TypeOK, Results
  <2>5. TypeOK'
    BY <1>4, <1>5, <2>2, <2>3, <2>4 DEF TypeOK
  <2>6. Runs(c)
    BY <1>1, <1>3, <2>1, <2>2, <2>3 DEF Complete, Runs
  <2> QED
    BY <1>1, <2>3, <2>5, <2>6 DEF Works
<1> QED
  BY <1>6, <1>7

LEMMA MarkOpenIs ==
    ASSUME TypeOK, NEW c \in Conns, MarkOpen(c)
    PROVE  TypeOK' /\ Works(c)
<1> DEFINE line == Marker(c, "SESSION_OPEN")
<1>1. /\ line \in Lines /\ line.seq = seq + 1 /\ line.life = life /\ line.session = c
      /\ line.decision = "SESSION_OPEN" /\ line.request = <<c, 0>>
  BY MarkerIs DEF Decisions
<1>2. /\ UNCHANGED <<life, nextConnection, nextRequest, cur, inbox, clientVars, history>>
      /\ pc[c] = "opening"
      /\ \/ /\ Wrote(line) /\ pc' = [pc EXCEPT ![c] = "reading"] /\ outbox' = outbox
         \/ /\ NotWritten(line) /\ pc' = [pc EXCEPT ![c] = "gone"]
            /\ outbox' = [outbox EXCEPT ![c] =
                   Append(@, [Deny(c, "unrecorded") EXCEPT !.request = None])]
  BY DEF MarkOpen
<1> HIDE DEF line
<1>3. seq \in Nat
  BY DEF TypeOK
<1>4. CASE Wrote(line) /\ pc' = [pc EXCEPT ![c] = "reading"] /\ outbox' = outbox
  <2>1. /\ log' \in Seq(Lines) /\ buffer' \in Seq(Lines) /\ Appended(line) /\ seq' = seq + 1
        /\ Len(log') = Len(Written) + 1 /\ log'[Len(Written) + 1] = line
    BY <1>1, <1>4, WroteIs
  <2>2. PutsInFile(c, line)
    BY <1>1, <2>1 DEF PutsInFile, Puts
  <2>3. pc' \in [Conns -> Phases] /\ Others(c) /\ pc'[c] = "reading"
    BY <1>2, <1>4 DEF TypeOK, Phases, Others
  <2>4. TypeOK'
    BY SMTT(20), <1>2, <1>3, <1>4, <2>1, <2>3 DEF TypeOK
  <2>5. Marks(c)
    BY <1>1, <1>2, <2>2, <2>3 DEF Marks, Same
  <2> QED
    BY <1>2, <2>3, <2>4, <2>5 DEF Works
<1>5. CASE /\ NotWritten(line) /\ pc' = [pc EXCEPT ![c] = "gone"]
           /\ outbox' = [outbox EXCEPT ![c] =
                  Append(@, [Deny(c, "unrecorded") EXCEPT !.request = None])]
  <2>1. /\ log' \in Seq(Lines) /\ buffer' \in Seq(Lines) /\ Appended(line) /\ seq' = seq
    BY <1>1, <1>5, NotWrittenIs
  <2>2. Puts(c, line)
    BY <1>1, <2>1 DEF Puts
  <2>3. pc' \in [Conns -> Phases] /\ Others(c) /\ pc'[c] = "gone"
    BY <1>2, <1>5 DEF TypeOK, Phases, Others
  <2>4. outbox' \in [Conns -> Seq(Messages)]
    <3> DEFINE m == [Deny(c, "unrecorded") EXCEPT !.request = None]
    <3>1. Deny(c, "unrecorded") \in Messages
      BY DenyIs DEF Reasons
    <3>2. m \in Messages
      BY <3>1 DEF Messages
    <3>3. outbox' = [outbox EXCEPT ![c] = Append(outbox[c], m)]
      BY <1>5
    <3> HIDE DEF m
    <3>4. Append(outbox[c], m) \in Seq(Messages)
      BY <3>2, AppendIs DEF TypeOK
    <3> QED
      BY <3>3, <3>4 DEF TypeOK
  <2>5. TypeOK'
    BY <1>2, <1>3, <1>5, <2>1, <2>3, <2>4 DEF TypeOK
  <2>6. Marks(c)
    BY <1>1, <1>2, <2>2, <2>3 DEF Marks, Same
  <2> QED
    BY <1>2, <2>3, <2>5, <2>6 DEF Works
<1> QED
  BY <1>2, <1>4, <1>5

LEMMA MarkCloseIs ==
    ASSUME TypeOK, NEW c \in Conns, MarkClose(c)
    PROVE  TypeOK' /\ Works(c)
<1> DEFINE line == Marker(c, "SESSION_CLOSE")
<1>1. /\ line \in Lines /\ line.seq = seq + 1 /\ line.life = life /\ line.session = c
      /\ line.decision = "SESSION_CLOSE" /\ line.request = <<c, 0>>
  BY MarkerIs DEF Decisions
<1>2. /\ UNCHANGED <<life, nextConnection, nextRequest, cur, inbox, outbox, clientVars, history>>
      /\ pc[c] = "closing" /\ pc' = [pc EXCEPT ![c] = "gone"]
      /\ Wrote(line) \/ NotWritten(line)
  BY DEF MarkClose
<1> HIDE DEF line
<1>3. /\ log' \in Seq(Lines) /\ buffer' \in Seq(Lines) /\ Puts(c, line) /\ seq' \in Nat
  <2>1. /\ log' \in Seq(Lines) /\ buffer' \in Seq(Lines) /\ Appended(line)
        /\ seq' \in {seq, seq + 1}
    BY <1>1, <1>2, WroteIs, NotWrittenIs
  <2>2. seq' \in Nat
    BY <2>1 DEF TypeOK
  <2> QED
    BY <1>1, <2>1, <2>2 DEF Puts
<1>4. pc' \in [Conns -> Phases] /\ Others(c) /\ pc'[c] = "gone"
  BY <1>2 DEF TypeOK, Phases, Others
<1>5. TypeOK'
  BY <1>2, <1>3, <1>4 DEF TypeOK
<1>6. Unmarks(c)
  BY <1>1, <1>2, <1>3, <1>4 DEF Unmarks, Same
<1> QED
  BY <1>2, <1>4, <1>5, <1>6 DEF Works

\* The line of a call, whole or cut, and the end of its request.
LEMMA RepliesIs ==
    ASSUME TypeOK, NEW c \in Conns, pc[c] \in Active, NEW line \in Lines, NEW m \in Messages,
           line.seq = seq + 1, line.life = life, line.session = c, OfCall(c, line),
           Answer(c, line, m),
           UNCHANGED <<life, nextConnection, nextRequest, inbox, clientVars, history>>
    PROVE  TypeOK' /\ Works(c)
<1>1. /\ log' \in Seq(Lines) /\ buffer' \in Seq(Lines) /\ seq' \in Nat
      /\ pc' \in [Conns -> Phases] /\ cur' \in [Conns -> Requests]
      /\ outbox' \in [Conns -> Seq(Messages)]
      /\ pc'[c] \in {"reading", "closing"} /\ cur'[c] = NoRequest /\ Others(c)
      /\ Puts(c, line)
  BY AnswerIs
<1>2. TypeOK'
  BY <1>1 DEF TypeOK
<1>3. Replies(c)
  BY <1>1 DEF Replies, Same
<1> QED
  BY <1>1, <1>2, <1>3 DEF Works

LEMMA LoggedIs ==
    ASSUME TypeOK, NEW c \in Conns, Logged(c)
    PROVE  TypeOK' /\ Works(c)
<1> DEFINE line == Line("DENY", c, cur[c].request, cur[c].tool)
           m == Deny(c, cur[c].reason)
<1>1. cur[c] \in Requests
  BY DEF TypeOK
<1>2. /\ line \in Lines /\ line.seq = seq + 1 /\ line.life = life /\ line.session = c
      /\ line.decision = "DENY" /\ line.request = cur[c].request /\ line.tool = cur[c].tool
  BY <1>1, RequestFields, LineIs DEF Decisions
<1>3. m \in Messages
  BY <1>1, RequestFields, DenyIs
<1>4. /\ UNCHANGED <<life, nextConnection, nextRequest, inbox, clientVars, history>>
      /\ pc[c] = "denying"
      /\ Answer(c, line, m) \/ (SendLine(c, m, AfterReply(c)) /\ UNCHANGED <<logVars, halted>>)
  BY DEF Logged
<1> HIDE DEF line, m
<1>5. CASE Answer(c, line, m)
  BY <1>2, <1>3, <1>4, <1>5, RepliesIs DEF Active, OfCall
<1>6. CASE SendLine(c, m, AfterReply(c)) /\ UNCHANGED <<logVars, halted>>
  <2>1. AfterReply(c) \in Phases /\ AfterReply(c) \in {"reading", "closing"}
    BY AfterReplyIs DEF Phases
  <2>2. /\ pc' \in [Conns -> Phases] /\ cur' \in [Conns -> Requests]
        /\ outbox' \in [Conns -> Seq(Messages)]
        /\ pc'[c] \in {"reading", "closing"} /\ cur'[c] = NoRequest /\ Others(c)
    BY <1>3, <1>6, <2>1, SendLineIs
  <2>3. Quiet
    BY <1>6, UnchangedLog
  <2>4. TypeOK'
    BY <1>4, <1>6, <2>2 DEF TypeOK
  <2>5. Replies(c)
    BY <1>4, <2>2, <2>3 DEF Replies, Same, Active
  <2> QED
    BY <1>4, <2>2, <2>4, <2>5 DEF Works
<1> QED
  BY <1>4, <1>5, <1>6

\* The whole lines of a call that failed and of one that returned.
LEMMA RecordLineIs ==
    ASSUME TypeOK, NEW c \in Conns, NEW check \in {None, "raised"}, NEW whole,
           whole = [Line("DENY", c, cur[c].request, cur[c].tool) EXCEPT
                       !.reason = cur[c].reason, !.check = check]
    PROVE  /\ whole \in Lines /\ whole.seq = seq + 1 /\ whole.life = life /\ whole.session = c
           /\ whole.decision = "DENY" /\ whole.request = cur[c].request
           /\ whole.tool = cur[c].tool
<1> DEFINE l == Line("DENY", c, cur[c].request, cur[c].tool)
           b == [l EXCEPT !.reason = cur[c].reason, !.check = check]
<1>1. cur[c] \in Requests
  BY DEF TypeOK
<1>2. /\ l \in Lines /\ l.seq = seq + 1 /\ l.life = life /\ l.session = c
      /\ l.decision = "DENY" /\ l.request = cur[c].request /\ l.tool = cur[c].tool
  BY <1>1, RequestFields, LineIs DEF Decisions
<1>3. cur[c].reason \in Reasons \cup {None} /\ check \in {None, "entered", "raised"}
  BY <1>1, RequestFields
<1>4. b = whole
  OBVIOUS
<1> HIDE DEF l
<1>5. /\ b \in Lines /\ b.seq = l.seq /\ b.life = l.life /\ b.session = l.session
      /\ b.decision = l.decision /\ b.request = l.request /\ b.tool = l.tool
  BY <1>2, <1>3 DEF Lines
<1> HIDE DEF b
<1> QED
  BY <1>2, <1>4, <1>5

LEMMA AllowLineIs ==
    ASSUME TypeOK, NEW c \in Conns, NEW whole,
           whole = [Line("ALLOW", c, cur[c].request, cur[c].tool) EXCEPT
                       !.check = "entered", !.result = cur[c].result]
    PROVE  /\ whole \in Lines /\ whole.seq = seq + 1 /\ whole.life = life /\ whole.session = c
           /\ whole.decision = "ALLOW" /\ whole.request = cur[c].request
           /\ whole.tool = cur[c].tool /\ whole.result = cur[c].result
<1> DEFINE l == Line("ALLOW", c, cur[c].request, cur[c].tool)
           b == [l EXCEPT !.check = "entered", !.result = cur[c].result]
<1>1. cur[c] \in Requests /\ cur[c].result \in Digests \cup {None, Unencodable}
  BY RequestFields DEF TypeOK
<1>2. /\ l \in Lines /\ l.seq = seq + 1 /\ l.life = life /\ l.session = c
      /\ l.decision = "ALLOW" /\ l.request = cur[c].request /\ l.tool = cur[c].tool
  BY <1>1, RequestFields, LineIs DEF Decisions
<1>3. b = whole
  OBVIOUS
<1> HIDE DEF l
<1>4. /\ b \in Lines /\ b.seq = l.seq /\ b.life = l.life /\ b.session = l.session
      /\ b.decision = l.decision /\ b.request = l.request /\ b.tool = l.tool
      /\ b.result = cur[c].result
  BY <1>1, <1>2 DEF Lines
<1> HIDE DEF b
<1> QED
  BY <1>2, <1>3, <1>4

LEMMA RecordIs ==
    ASSUME TypeOK, NEW c \in Conns, Record(c)
    PROVE  TypeOK' /\ Works(c)
<1> DEFINE whole == [Line("DENY", c, cur[c].request, cur[c].tool) EXCEPT
                        !.reason = cur[c].reason,
                        !.check = IF cur[c].reason = "tool_failed" THEN "raised" ELSE None]
           m == Deny(c, cur[c].reason)
<1>1. cur[c] \in Requests
  BY DEF TypeOK
<1>2. /\ whole \in Lines /\ whole.seq = seq + 1 /\ whole.life = life /\ whole.session = c
      /\ whole.decision = "DENY" /\ whole.request = cur[c].request /\ whole.tool = cur[c].tool
  <2> DEFINE check == IF cur[c].reason = "tool_failed" THEN "raised" ELSE None
             w == [Line("DENY", c, cur[c].request, cur[c].tool) EXCEPT
                      !.reason = cur[c].reason, !.check = check]
  <2>1. check \in {None, "raised"}
    OBVIOUS
  <2> HIDE DEF check
  <2>2. /\ w \in Lines /\ w.seq = seq + 1 /\ w.life = life /\ w.session = c
        /\ w.decision = "DENY" /\ w.request = cur[c].request /\ w.tool = cur[c].tool
    BY <2>1, RecordLineIs
  <2>3. w = whole
    BY DEF check
  <2> HIDE DEF w, whole
  <2> QED
    BY <2>2, <2>3
<1>3. m \in Messages
  BY <1>1, RequestFields, DenyIs
<1>4. /\ UNCHANGED <<life, nextConnection, nextRequest, inbox, clientVars, history>>
      /\ pc[c] = "failing" /\ \E line \in BoundRecord(whole) : Answer(c, line, m)
  BY DEF Record
<1> HIDE DEF whole, m
<1>5. PICK line \in BoundRecord(whole) : Answer(c, line, m)
  BY <1>4
<1>6. /\ line \in Lines /\ line.seq = seq + 1 /\ line.life = life /\ line.session = c
      /\ line.decision = "DENY" /\ line.request = cur[c].request /\ line.tool = cur[c].tool
  BY <1>2, BoundRecordIs
<1> QED
  BY <1>3, <1>4, <1>5, <1>6, RepliesIs DEF Active, OfCall

LEMMA AllowIs ==
    ASSUME TypeOK, NEW c \in Conns, Allow(c)
    PROVE  TypeOK' /\ Works(c)
<1> DEFINE whole == [Line("ALLOW", c, cur[c].request, cur[c].tool) EXCEPT
                        !.check = "entered", !.result = cur[c].result]
           m == [Deny(c, None) EXCEPT
                    !.decision = "ALLOW",
                    !.digest = IF cur[c].result \in Digests THEN cur[c].result ELSE None]
<1>1. cur[c] \in Requests /\ cur[c].result \in Digests \cup {None, Unencodable}
  BY RequestFields DEF TypeOK
<1>2. /\ whole \in Lines /\ whole.seq = seq + 1 /\ whole.life = life /\ whole.session = c
      /\ whole.decision = "ALLOW" /\ whole.request = cur[c].request /\ whole.tool = cur[c].tool
      /\ whole.result = cur[c].result
  BY ZenonT(30), AllowLineIs
<1>3. m \in Messages
  <2>1. Deny(c, None) \in Messages
    BY DenyIs
  <2> QED
    BY <2>1 DEF Messages
<1>4. /\ UNCHANGED <<life, nextConnection, nextRequest, inbox, clientVars, history>>
      /\ pc[c] = "returned" /\ \E line \in BoundRecord(whole) : Answer(c, line, m)
  BY DEF Allow
<1> HIDE DEF whole, m
<1>5. PICK line \in BoundRecord(whole) : Answer(c, line, m)
  BY <1>4
<1>6. /\ line \in Lines /\ line.seq = seq + 1 /\ line.life = life /\ line.session = c
      /\ line.decision = "ALLOW" /\ line.request = cur[c].request /\ line.tool = cur[c].tool
      /\ line.result \in {None, Cut, cur[c].result}
  BY <1>2, BoundRecordIs
<1> QED
  BY <1>3, <1>4, <1>5, <1>6, RepliesIs DEF Active, OfCall

LEMMA PreEntryIs ==
    ASSUME TypeOK, NEW c \in Conns, PreEntry(c)
    PROVE  TypeOK' /\ Works(c)
<1> DEFINE line == Line("PRE_ENTRY", c, cur[c].request, cur[c].tool)
           m == Deny(c, "append_failed")
<1>1. cur[c] \in Requests
  BY DEF TypeOK
<1>2. /\ line \in Lines /\ line.seq = seq + 1 /\ line.life = life /\ line.session = c
      /\ line.decision = "PRE_ENTRY" /\ line.request = cur[c].request /\ line.tool = cur[c].tool
  BY <1>1, RequestFields, LineIs DEF Decisions
<1>3. m \in Messages
  BY DenyIs DEF Reasons
<1>4. /\ UNCHANGED <<life, nextConnection, nextRequest, inbox, clientVars, history>>
      /\ pc[c] = "admitted"
      /\ \/ /\ Wrote(line) /\ pc' = [pc EXCEPT ![c] = "recorded"] /\ UNCHANGED <<cur, outbox>>
         \/ NotWritten(line) /\ SendLine(c, m, "reading")
  BY DEF PreEntry
<1> HIDE DEF line, m
<1>5. seq \in Nat
  BY DEF TypeOK
<1>6. CASE Wrote(line) /\ pc' = [pc EXCEPT ![c] = "recorded"] /\ UNCHANGED <<cur, outbox>>
  <2>1. /\ log' \in Seq(Lines) /\ buffer' \in Seq(Lines) /\ Appended(line) /\ seq' = seq + 1
        /\ Len(log') = Len(Written) + 1 /\ log'[Len(Written) + 1] = line
    BY <1>2, <1>6, WroteIs
  <2>2. PutsInFile(c, line)
    BY <1>2, <2>1 DEF PutsInFile, Puts
  <2>3. pc' \in [Conns -> Phases] /\ Others(c) /\ pc'[c] = "recorded"
    BY <1>6 DEF TypeOK, Phases, Others
  <2>4. TypeOK'
    BY SMTT(20), <1>4, <1>5, <1>6, <2>1, <2>3 DEF TypeOK
  <2>5. Enters(c)
    BY <1>2, <1>4, <1>6, <2>2, <2>3 DEF Enters, Same
  <2> QED
    BY <1>4, <2>3, <2>4, <2>5 DEF Works
<1>7. CASE NotWritten(line) /\ SendLine(c, m, "reading")
  <2>1. /\ log' \in Seq(Lines) /\ buffer' \in Seq(Lines) /\ Appended(line) /\ seq' = seq
    BY <1>2, <1>7, NotWrittenIs
  <2>2. Puts(c, line)
    BY <1>2, <2>1 DEF Puts
  <2>3. /\ pc' \in [Conns -> Phases] /\ cur' \in [Conns -> Requests]
        /\ outbox' \in [Conns -> Seq(Messages)]
        /\ pc'[c] \in {"reading", "closing"} /\ cur'[c] = NoRequest /\ Others(c)
    <3>1. "reading" \in Phases
      BY DEF Phases
    <3> QED
      BY <1>3, <1>7, <3>1, SendLineIs
  <2>4. TypeOK'
    BY <1>4, <1>5, <2>1, <2>3 DEF TypeOK
  <2>5. Replies(c)
    BY <1>2, <1>4, <2>2, <2>3 DEF Replies, Same, Active, OfCall
  <2> QED
    BY <1>4, <2>3, <2>4, <2>5 DEF Works
<1> QED
  BY <1>4, <1>6, <1>7

\* What the agent and the operator do moves no thread and writes no line.
LEMMA CallIs ==
    ASSUME TypeOK, NEW c \in Conns, NEW tool \in Tools, Call(c, tool)
    PROVE  TypeOK' /\ Rests
<1>1. Quiet
  BY UnchangedLog DEF Call
<1>2. calls[c] + 1 \in Nat
  BY DEF TypeOK
<1>3. [NoRequest EXCEPT !.tag = calls[c] + 1, !.asked = tool] \in Requests
  BY <1>2 DEF NoRequest, Requests
<1>4. inbox' \in [Conns -> Requests]
  BY <1>3 DEF Call, TypeOK
<1>5. calls' \in [Conns -> Nat] /\ client' \in [Conns -> Tools \cup {"none", "free", "closed"}]
  BY <1>2 DEF Call, TypeOK
<1>6. TypeOK'
  BY <1>4, <1>5 DEF Call, TypeOK
<1>7. Rests
  BY <1>1 DEF Call, Rests, Same
<1> QED
  BY <1>6, <1>7

LEMMA CloseLockedIs ==
    ASSUME TypeOK, NEW c \in Conns, CloseLocked(c)
    PROVE  TypeOK' /\ Rests
<1>1. Quiet
  BY UnchangedLog DEF CloseLocked
<1>2. <<>> \in Seq(Messages)
  OBVIOUS
<1> QED
  BY <1>1, <1>2 DEF CloseLocked, TypeOK, Rests, Same

LEMMA HaltIs ==
    ASSUME TypeOK, Halt
    PROVE  TypeOK' /\ Rests
<1>1. Quiet
  BY UnchangedLog DEF Halt
<1> QED
  BY <1>1 DEF Halt, TypeOK, Rests, Same

LEMMA ReadReplyIs ==
    ASSUME TypeOK, NEW c \in Conns, ReadReply(c)
    PROVE  TypeOK' /\ Rests
<1> DEFINE m == Head(outbox[c])
           h == [life |-> life, conn |-> c, tool |-> client[c],
                 tag |-> calls[c], answers |-> m.answers,
                 request |-> m.request, decision |-> m.decision,
                 reason |-> m.reason, digest |-> m.digest]
<1>1. /\ UNCHANGED <<life, hostVars, logVars, pc, cur, inbox, calls, called, returned>>
      /\ client[c] \in Tools /\ outbox[c] # <<>> /\ outbox' = [outbox EXCEPT ![c] = Tail(@)]
      /\ \/ /\ IdFits(c, m)
            /\ client' = [client EXCEPT ![c] = "free"]
            /\ last' = [last EXCEPT ![c] = m.request[2]]
            /\ told' = told \cup {h}
         \/ client' = [client EXCEPT ![c] = "closed"] /\ UNCHANGED <<last, told>>
  BY DEF ReadReply
<1>2. m \in Messages /\ Tail(outbox[c]) \in Seq(Messages)
  BY <1>1, HeadTailProperties DEF TypeOK
<1>3. Quiet
  BY <1>1, UnchangedLog
<1>4. outbox' \in [Conns -> Seq(Messages)]
  BY <1>1, <1>2 DEF TypeOK
<1> HIDE DEF m
<1>5. CASE /\ IdFits(c, m)
           /\ client' = [client EXCEPT ![c] = "free"]
           /\ last' = [last EXCEPT ![c] = m.request[2]]
           /\ told' = told \cup {h}
  <2>1. m.request \in Nat \X Nat
    BY <1>2, <1>5 DEF IdFits, Messages
  <2>2. h \in Reports
    BY <1>1, <1>2, <2>1 DEF TypeOK, Messages, Reports
  <2>3. told' \subseteq Reports
    BY <1>5, <2>2 DEF TypeOK
  <2>4. /\ client' \in [Conns -> Tools \cup {"none", "free", "closed"}]
        /\ last' \in [Conns -> Nat]
    BY <1>5, <2>1 DEF TypeOK
  <2> QED
    BY <1>1, <1>3, <1>4, <2>3, <2>4 DEF TypeOK, Rests, Same
<1>6. CASE client' = [client EXCEPT ![c] = "closed"] /\ UNCHANGED <<last, told>>
  BY <1>1, <1>3, <1>4, <1>6 DEF TypeOK, Rests, Same
<1> QED
  BY <1>1, <1>5, <1>6

LEMMA RestartTypes ==
    ASSUME TypeOK, Restart
    PROVE  TypeOK'
<1>1. log' \in Seq(Lines) /\ buffer' \in Seq(Lines) /\ seq' \in Nat
  BY RestartIs
<1>2. <<>> \in Seq(Messages) /\ NoRequest \in Requests
  BY NoRequestIs
<1> QED
  BY <1>1, <1>2 DEF Restart, TypeOK, Phases

LEMMA Steps ==
    ASSUME TypeOK, [Next]_vars
    PROVE  TypeOK' /\ (Restart \/ Rests \/ \E c \in Conns : Works(c))
<1>1. CASE UNCHANGED vars
  BY <1>1 DEF TypeOK, Rests, Same, Quiet, Written
<1>2. CASE Next
  <2>1. ASSUME NEW c \in Conns,
               \/ Open(c) \/ MarkOpen(c) \/ Decide(c) \/ Logged(c) \/ PreEntry(c) \/ Complete(c)
               \/ Record(c) \/ Allow(c) \/ TimeOut(c) \/ EndOfInput(c) \/ MarkClose(c)
        PROVE  TypeOK' /\ Works(c)
    BY <2>1, OpenIs, MarkOpenIs, DecideIs, LoggedIs, PreEntryIs, CompleteIs, RecordIs, AllowIs,
       TimeOutIs, EndOfInputIs, MarkCloseIs
  <2>2. ASSUME NEW c \in Conns,
               (\E tool \in Tools : Call(c, tool)) \/ ReadReply(c) \/ CloseLocked(c)
        PROVE  TypeOK' /\ Rests
    BY <2>2, CallIs, ReadReplyIs, CloseLockedIs
  <2>3. CASE Halt
    BY <2>3, HaltIs
  <2>4. CASE Restart
    BY <2>4, RestartTypes
  <2> QED
    BY <1>2, <2>1, <2>2, <2>3, <2>4 DEF Next
<1> QED
  BY <1>1, <1>2

-----------------------------------------------------------------------------
(***************************************************************************)
(* What holds of the lines put out and of the requests being decided.      *)
(***************************************************************************)
OpenOf(line, c, l) == line.decision = "SESSION_OPEN" /\ line.session = c /\ line.life = l
Admitted(c, tool) ==
    \E k \in InFile : /\ log[k].decision = "PRE_ENTRY" /\ log[k].session = c
                      /\ log[k].tool = tool

\* A request is its connection's, and numbered in this life.
RequestsOwn ==
    \A c \in Conns :
        IF pc[c] \in Active
        THEN /\ cur[c].request[1] = c /\ cur[c].request[2] <= nextRequest
             /\ cur[c].request[2] > 0
        ELSE cur[c] = NoRequest

\* Lives follow each other, and in one life the numbers do not fall.
LinesInOrder ==
    /\ \A k \in Out : /\ Written[k].life <= life
                      /\ Written[k].life = life => /\ Written[k].seq <= seq + 1
                                                   /\ Written[k].request[2] <= nextRequest
    /\ \A k, m \in Out : k <= m =>
           /\ Written[k].life <= Written[m].life
           /\ Written[k].life = Written[m].life => Written[k].seq <= Written[m].seq

\* A served session has its open in the file, and so has a call or a close.
Marked == \A c \in Conns : pc[c] \in Served => \E i \in InFile : OpenOf(log[i], c, life)
CallsAfterOpen ==
    \A k \in Out : Written[k].decision \in {"PRE_ENTRY", "SESSION_CLOSE"} =>
        \E i \in InFile : i <= k /\ OpenOf(log[i], Written[k].session, Written[k].life)

NothingAfterClose ==
    \A m \in Out : Written[m].decision = "SESSION_CLOSE" =>
        /\ Written[m].life = life => pc[Written[m].session] = "gone"
        /\ \A k \in Out : (/\ Written[k].session = Written[m].session
                           /\ Written[k].life = Written[m].life) => k <= m

\* A tool that was called has its line in the file.
CallsRecorded ==
    /\ \A x \in called : Admitted(x[1], x[2])
    /\ \A c \in Conns : pc[c] = "recorded" => Admitted(c, cur[c].tool)

\* A request being decided has no outcome among the lines.
OpenRequests ==
    \A c \in Conns : pc[c] \in Active =>
        \A k \in Out : (Written[k].life = life /\ Written[k].request = cur[c].request)
                           => ~Final(Written[k])

ResultsKnown ==
    /\ \A x \in returned : x.life <= life /\ (x.life = life => x.request[2] <= nextRequest)
    /\ \A c \in Conns :
          /\ pc[c] \in Active \ {"returned"} =>
                \A x \in returned : ~(x.life = life /\ x.request = cur[c].request)
          /\ pc[c] = "returned" =>
                \E x \in returned : /\ x.life = life /\ x.request = cur[c].request
                                    /\ x.tool = cur[c].tool /\ x.result = cur[c].result

\* An ALLOW has its result, and a DENY has none.
AllowsReturned ==
    \A k \in Out : Written[k].decision = "ALLOW" =>
        \E x \in returned : /\ x.life = Written[k].life /\ x.request = Written[k].request
                            /\ x.tool = Written[k].tool
                            /\ Written[k].result \in {None, Cut, x.result}
DenialsDidNot ==
    \A k \in Out : Written[k].decision = "DENY" =>
        \A x \in returned : ~(x.life = Written[k].life /\ x.request = Written[k].request)

-----------------------------------------------------------------------------
(***************************************************************************)
(* The lines and histories after a step.                                   *)
(***************************************************************************)
LEMMA QuietIs == Quiet => Out' = Out /\ InFile' = InFile /\ UNCHANGED <<Written, log, seq>>
  BY DEF Quiet, Out, InFile

LEMMA AppendedIs ==
    ASSUME TypeOK, NEW line \in Lines, Appended(line)
    PROVE  /\ Len(Written) + 1 \in Out' /\ Len(Written) + 1 \notin Out
           /\ Written'[Len(Written) + 1] = line
           /\ \A k \in Out : k \in Out' /\ Written'[k] = Written[k] /\ k < Len(Written) + 1
           /\ \A k \in Out' : k \in Out \/ k = Len(Written) + 1
<1>1. Len(Written) \in Nat
  BY WrittenIs
<1> QED
  BY <1>1 DEF Appended, Out

LEMMA FileKeptIs ==
    ASSUME TypeOK, TypeOK', FileKept
    PROVE  \A k \in InFile : k \in InFile' /\ log'[k] = log[k]
<1>1. Len(log) \in Nat /\ Len(log') \in Nat
  BY LenProperties DEF TypeOK
<1> QED
  BY <1>1 DEF FileKept, InFile

\* What a working thread writes, if it writes.
Entry(c, line) ==
    /\ line \in Lines /\ line.life = life /\ line.session = c /\ line.seq = seq + 1
    /\ \/ line.decision = "SESSION_OPEN" /\ pc[c] = "opening" /\ line.request = <<c, 0>>
       \/ /\ line.decision = "SESSION_CLOSE" /\ pc[c] = "closing" /\ line.request = <<c, 0>>
          /\ pc'[c] = "gone"
       \/ OfCall(c, line) /\ pc[c] \in Active

LEMMA WorksWrites ==
    ASSUME NEW c \in Conns, Works(c)
    PROVE  \/ Quiet
           \/ /\ Same /\ seq' \in {seq, seq + 1}
              /\ \E line \in Lines : Appended(line) /\ Entry(c, line)
<1>1. CASE Opens(c) \/ Ends(c) \/ Takes(c) \/ Runs(c)
  BY <1>1 DEF Opens, Ends, Takes, Runs
<1>2. CASE Marks(c)
  BY <1>2 DEF Marks, PutsInFile, Puts, Entry
<1>3. CASE Unmarks(c)
  BY <1>3 DEF Unmarks, Puts, Entry
<1>4. CASE Enters(c)
  BY <1>4 DEF Enters, PutsInFile, Puts, Entry, OfCall, Active
<1>5. CASE Replies(c)
  BY <1>5 DEF Replies, Puts, Entry
<1> QED
  BY <1>1, <1>2, <1>3, <1>4, <1>5 DEF Works

LEMMA EntryFields ==
    ASSUME TypeOK, RequestsOwn, NEW c \in Conns, NEW line, Entry(c, line)
    PROVE  /\ line.request[1] = c /\ line.request[2] <= nextRequest
           /\ pc[c] \notin {"none", "gone", "reading"}
<1>1. nextRequest \in Nat /\ c \in Nat
  BY ConnsAreNumbers DEF TypeOK
<1>2. CASE line.request = <<c, 0>> /\ pc[c] \in {"opening", "closing"}
  BY <1>1, <1>2
<1>3. CASE OfCall(c, line) /\ pc[c] \in Active
  BY <1>3 DEF OfCall, RequestsOwn, Active
<1> QED
  BY <1>2, <1>3 DEF Entry

\* A step keeps the file, the results and the calls, and a restart what is left
\* of the lines; a thread that ended stays.
LEMMA WorksKeeps ==
    ASSUME TypeOK, NEW c \in Conns, Works(c)
    PROVE  /\ FileKept /\ returned \subseteq returned' /\ pc[c] \notin {"gone"}
           /\ nextRequest' \in {nextRequest, nextRequest + 1}
<1>1. FileKept
  <2>1. Quiet => FileKept
    <3>1. Len(log) \in Nat
      BY LenProperties DEF TypeOK
    <3> QED
      BY <3>1 DEF Quiet, FileKept
  <2> QED
    BY <2>1, WorksWrites DEF Appended
<1>2. returned \subseteq returned' /\ nextRequest' \in {nextRequest, nextRequest + 1}
  BY DEF Works, Opens, Ends, Takes, Runs, Marks, Unmarks, Enters, Replies, Same
<1>3. pc[c] # "gone"
  BY DEF Works, Opens, Ends, Takes, Runs, Marks, Unmarks, Enters, Replies, Active
<1> QED
  BY <1>1, <1>2, <1>3

LEMMA RestartKeeps ==
    ASSUME TypeOK, Restart
    PROVE  /\ \A k \in Out' : k \in Out /\ Written'[k] = Written[k]
           /\ FileKept /\ life' = life + 1
           /\ \A c \in Conns : pc'[c] = "none" /\ cur'[c] = NoRequest
           /\ UNCHANGED <<called, returned>>
<1>1. Truncated
  BY RestartIs
<1>2. Len(Written) \in Nat
  BY WrittenIs
<1>3. Len(Written') \in Nat
  <2>1. TypeOK'
    BY RestartTypes
  <2>2. log' \in Seq(Lines) /\ buffer' \in Seq(Lines)
    BY <2>1 DEF TypeOK
  <2>3. log' \o buffer' \in Seq(Lines)
    BY <2>2, ConcatIs
  <2> QED
    BY <2>3, LenProperties DEF Written
<1> QED
  BY <1>1, <1>2, <1>3 DEF Truncated, Out, Restart

-----------------------------------------------------------------------------
(***************************************************************************)
(* Each of these is kept by every step.                                    *)
(***************************************************************************)
LEMMA RequestsOwnStep ==
    ASSUME TypeOK, [Next]_vars, RequestsOwn
    PROVE  RequestsOwn'
<1>1. CASE Restart
  BY <1>1, RestartKeeps DEF RequestsOwn, Active
<1>2. CASE Rests
  BY <1>2 DEF RequestsOwn, Rests, Same
<1>3. ASSUME NEW c \in Conns, Works(c) PROVE RequestsOwn'
  <2>1. nextRequest \in Nat /\ nextRequest' \in {nextRequest, nextRequest + 1} /\ c \in Nat
    BY <1>3, WorksKeeps, ConnsAreNumbers DEF TypeOK
  <2>2. ASSUME NEW d \in Conns, d # c
        PROVE  IF pc'[d] \in Active
               THEN /\ cur'[d].request[1] = d /\ cur'[d].request[2] <= nextRequest'
                    /\ cur'[d].request[2] > 0
               ELSE cur'[d] = NoRequest
    <3>1. pc'[d] = pc[d] /\ cur'[d] = cur[d]
      BY <1>3, <2>2 DEF Works, Others
    <3>2. cur[d].request[2] \in Nat
      BY RequestFields DEF TypeOK
    <3> QED
      BY <2>1, <3>1, <3>2 DEF RequestsOwn
  <2>3. CASE Takes(c)
    <3>1. pc'[c] \in Active /\ cur'[c].request = <<c, nextRequest + 1>> /\ nextRequest' = nextRequest + 1
      BY <2>3 DEF Takes, Active
    <3> QED
      BY <2>1, <2>2, <3>1 DEF RequestsOwn
  <2>4. CASE Runs(c) \/ Enters(c)
    <3>1. /\ pc[c] \in Active /\ pc'[c] \in Active /\ cur'[c].request = cur[c].request
          /\ nextRequest' = nextRequest
      BY <2>4 DEF Runs, Enters, Active, Same
    <3> QED
      BY <2>2, <3>1 DEF RequestsOwn
  <2>5. CASE Opens(c) \/ Ends(c) \/ Marks(c) \/ Unmarks(c) \/ Replies(c)
    <3>1. pc'[c] \notin Active /\ (cur'[c] = NoRequest \/ (pc[c] \notin Active /\ cur'[c] = cur[c]))
      BY <2>5 DEF Opens, Ends, Marks, Unmarks, Replies, Active
    <3>2. cur'[c] = NoRequest
      BY <3>1 DEF RequestsOwn
    <3> QED
      BY <2>2, <3>1, <3>2 DEF RequestsOwn
  <2> QED
    BY <1>3, <2>3, <2>4, <2>5 DEF Works
<1> QED
  BY <1>1, <1>2, <1>3, Steps

LEMMA LinesInOrderStep ==
    ASSUME TypeOK, [Next]_vars, RequestsOwn, LinesInOrder
    PROVE  LinesInOrder'
<1> USE WrittenIs, LineFields
<1>1. life \in Nat /\ seq \in Nat /\ nextRequest \in Nat
  BY DEF TypeOK
<1>2. CASE Restart
  <2>1. /\ life' = life + 1 /\ \A k \in Out' : k \in Out /\ Written'[k] = Written[k]
    BY <1>2, RestartKeeps
  <2>2. \A k \in Out : Written[k].life \in Nat /\ Written[k].life <= life
    BY DEF LinesInOrder
  <2>3. \A k \in Out' : Written'[k].life <= life' /\ Written'[k].life # life'
    BY <1>1, <2>1, <2>2
  <2>4. \A k, m \in Out' : k <= m =>
           /\ Written'[k].life <= Written'[m].life
           /\ Written'[k].life = Written'[m].life => Written'[k].seq <= Written'[m].seq
    BY <2>1 DEF LinesInOrder
  <2> QED
    BY <2>3, <2>4 DEF LinesInOrder
<1>3. CASE Rests
  BY <1>3, QuietIs DEF LinesInOrder, Rests, Same
<1>4. ASSUME NEW c \in Conns, Works(c) PROVE LinesInOrder'
  <2>1. life' = life /\ nextRequest' \in {nextRequest, nextRequest + 1}
    BY <1>4, WorksKeeps DEF Works
  <2>2. CASE Quiet
    BY SMTT(20), <1>1, <2>1, <2>2, QuietIs DEF LinesInOrder
  <2>3. ASSUME NEW line \in Lines, Appended(line), Entry(c, line), seq' \in {seq, seq + 1},
               nextRequest' = nextRequest
        PROVE  LinesInOrder'
    <3> DEFINE n == Len(Written) + 1
    <3>1. /\ n \in Out' /\ n \notin Out /\ Written'[n] = line
          /\ \A k \in Out : k \in Out' /\ Written'[k] = Written[k] /\ k < n
          /\ \A k \in Out' : k \in Out \/ k = n
      BY <2>3, AppendedIs
    <3>2. line.life = life /\ line.seq = seq + 1 /\ line.request[2] <= nextRequest
      BY <2>3, EntryFields DEF Entry
    <3> HIDE DEF n
    <3>3. ASSUME NEW k \in Out'
          PROVE  /\ Written'[k].life <= life'
                 /\ Written'[k].life = life' => /\ Written'[k].seq <= seq' + 1
                                                /\ Written'[k].request[2] <= nextRequest'
      <4>1. CASE k \in Out
        <5>1. Written'[k] = Written[k] /\ Written[k].seq \in Nat /\ Written[k].life <= life
          BY <3>1, <4>1 DEF LinesInOrder
        <5>2. Written[k].life = life => /\ Written[k].seq <= seq + 1
                                        /\ Written[k].request[2] <= nextRequest
          BY <4>1 DEF LinesInOrder
        <5> QED
          BY <1>1, <2>1, <2>3, <5>1, <5>2
      <4>2. CASE k = n
        BY SMTT(20), <1>1, <2>1, <2>3, <3>1, <3>2, <4>2
      <4> QED
        BY <3>1, <4>1, <4>2
    <3>4. ASSUME NEW k \in Out', NEW m \in Out', k <= m
          PROVE  /\ Written'[k].life <= Written'[m].life
                 /\ Written'[k].life = Written'[m].life => Written'[k].seq <= Written'[m].seq
      <4>1. CASE k \in Out /\ m \in Out
        BY <3>1, <3>4, <4>1 DEF LinesInOrder
      <4>2. CASE k \in Out /\ m = n
        BY <1>1, <3>1, <3>2, <4>2 DEF LinesInOrder
      <4>3. CASE k = n /\ m = n
        BY <1>1, <3>1, <3>2, <4>3
      <4>4. CASE k = n /\ m \in Out
        BY <1>1, <3>1, <3>4, <4>4 DEF Out
      <4> QED
        BY <3>1, <4>1, <4>2, <4>3, <4>4
    <3> QED
      BY <3>3, <3>4 DEF LinesInOrder
  <2> QED
    BY <1>4, <2>2, <2>3, WorksWrites DEF Same
<1> QED
  BY <1>2, <1>3, <1>4, Steps

LEMMA MarkedStep ==
    ASSUME TypeOK, [Next]_vars, Marked
    PROVE  Marked'
<1>1. CASE Restart
  BY <1>1, RestartKeeps DEF Marked, Served, Active
<1>2. CASE Rests
  BY <1>2, QuietIs DEF Marked, Rests
<1>3. ASSUME NEW c \in Conns, Works(c) PROVE Marked'
  <2>1. \A k \in InFile : k \in InFile' /\ log'[k] = log[k]
    BY <1>3, Steps, FileKeptIs, WorksKeeps
  <2>2. life' = life
    BY <1>3 DEF Works
  <2> SUFFICES ASSUME NEW d \in Conns, pc'[d] \in Served
               PROVE  \E i \in InFile' : OpenOf(log'[i], d, life')
    BY DEF Marked, OpenOf
  <2>3. CASE pc[d] \in Served
    BY <2>1, <2>2, <2>3 DEF Marked, OpenOf
  <2>4. CASE pc[d] \notin Served
    <3>1. d = c /\ Marks(c)
      BY <1>3, <2>4 DEF Works, Others, Opens, Ends, Takes, Runs, Unmarks, Enters, Replies, Served,
         Active
    <3>2. PICK line \in Lines : line.decision = "SESSION_OPEN" /\ PutsInFile(c, line)
      BY <3>1 DEF Marks, Served, Active
    <3>3. Len(Written) + 1 \in InFile' /\ log'[Len(Written) + 1] = line
      BY <3>2, WrittenIs DEF PutsInFile, InFile
    <3> QED
      BY <2>2, <3>1, <3>2, <3>3 DEF PutsInFile, Puts, OpenOf
  <2> QED
    BY <2>3, <2>4
<1> QED
  BY <1>1, <1>2, <1>3, Steps

LEMMA CallsAfterOpenStep ==
    ASSUME TypeOK, [Next]_vars, Marked, CallsAfterOpen
    PROVE  CallsAfterOpen'
<1>1. TypeOK'
  BY Steps
<1>2. ASSUME FileKept, NEW k \in Out, Written[k].decision \in {"PRE_ENTRY", "SESSION_CLOSE"}
      PROVE  \E i \in InFile' : i <= k /\ OpenOf(log'[i], Written[k].session, Written[k].life)
  BY <1>1, <1>2, FileKeptIs DEF CallsAfterOpen, OpenOf
<1>3. CASE Restart
  BY <1>2, <1>3, RestartKeeps DEF CallsAfterOpen
<1>4. CASE Rests
  BY <1>4, QuietIs DEF CallsAfterOpen, Rests
<1>5. ASSUME NEW c \in Conns, Works(c) PROVE CallsAfterOpen'
  <2>1. FileKept
    BY <1>5, WorksKeeps
  <2>2. CASE Quiet
    BY <2>2, QuietIs DEF CallsAfterOpen
  <2>3. ASSUME NEW line \in Lines, Appended(line), Entry(c, line)
        PROVE  CallsAfterOpen'
    <3> SUFFICES ASSUME NEW k \in Out', Written'[k].decision \in {"PRE_ENTRY", "SESSION_CLOSE"}
                 PROVE  \E i \in InFile' :
                            i <= k /\ OpenOf(log'[i], Written'[k].session, Written'[k].life)
      BY DEF CallsAfterOpen
    <3>1. CASE k \in Out
      BY <1>2, <2>1, <2>3, <3>1, AppendedIs
    <3>2. CASE k = Len(Written) + 1
      <4>1. Written'[k] = line
        BY <2>3, <3>2, AppendedIs
      <4>2. pc[c] \in Served /\ line.session = c /\ line.life = life
        BY <2>3, <4>1 DEF Entry, OfCall, Served, Active
      <4>3. PICK i \in InFile : OpenOf(log[i], c, life)
        BY <4>2 DEF Marked
      <4>4. i \in InFile' /\ log'[i] = log[i]
        BY <1>1, <2>1, FileKeptIs
      <4>5. i <= k
        BY <3>2, WrittenIs DEF InFile
      <4> QED
        BY <4>1, <4>2, <4>3, <4>4, <4>5
    <3> QED
      BY <2>3, <3>1, <3>2, AppendedIs
  <2> QED
    BY <1>5, <2>2, <2>3, WorksWrites
<1> QED
  BY <1>3, <1>4, <1>5, Steps

LEMMA NothingAfterCloseStep ==
    ASSUME TypeOK, [Next]_vars, RequestsOwn, LinesInOrder, NothingAfterClose
    PROVE  NothingAfterClose'
<1> USE WrittenIs, LineFields
<1>1. life \in Nat
  BY DEF TypeOK
<1>2. CASE Restart
  <2>1. /\ life' = life + 1 /\ \A k \in Out' : k \in Out /\ Written'[k] = Written[k]
    BY <1>2, RestartKeeps
  <2>2. \A k \in Out : Written[k].life \in Nat /\ Written[k].life <= life
    BY DEF LinesInOrder
  <2>3. \A k \in Out' : Written'[k].life # life'
    BY <1>1, <2>1, <2>2
  <2> QED
    BY <2>1, <2>3 DEF NothingAfterClose
<1>3. CASE Rests
  BY <1>3, QuietIs DEF NothingAfterClose, Rests
<1>4. ASSUME NEW c \in Conns, Works(c) PROVE NothingAfterClose'
  <2>1. life' = life /\ pc[c] # "gone" /\ \A d \in Conns : d # c => pc'[d] = pc[d]
    BY <1>4, WorksKeeps DEF Works, Others
  <2>2. \A m \in Out : (Written[m].decision = "SESSION_CLOSE" /\ Written[m].life = life)
                           => Written[m].session # c /\ pc'[Written[m].session] = "gone"
    BY <2>1 DEF NothingAfterClose
  <2>3. CASE Quiet
    BY <2>1, <2>2, <2>3, QuietIs DEF NothingAfterClose
  <2>4. ASSUME NEW line \in Lines, Appended(line), Entry(c, line)
        PROVE  NothingAfterClose'
    <3> DEFINE n == Len(Written) + 1
    <3>1. /\ n \in Out' /\ n \notin Out /\ Written'[n] = line
          /\ \A k \in Out : k \in Out' /\ Written'[k] = Written[k] /\ k < n
          /\ \A k \in Out' : k \in Out \/ k = n
      BY <2>4, AppendedIs
    <3>2. line.life = life /\ line.session = c
      BY <2>4 DEF Entry
    <3> HIDE DEF n
    <3> SUFFICES ASSUME NEW m \in Out', Written'[m].decision = "SESSION_CLOSE"
                 PROVE  /\ Written'[m].life = life' => pc'[Written'[m].session] = "gone"
                        /\ \A k \in Out' : (/\ Written'[k].session = Written'[m].session
                                            /\ Written'[k].life = Written'[m].life) => k <= m
      BY DEF NothingAfterClose
    <3>3. CASE m \in Out
      <4>1. Written'[m] = Written[m]
        BY <3>1, <3>3
      <4>2. ASSUME NEW k \in Out', Written'[k].session = Written'[m].session,
                   Written'[k].life = Written'[m].life
            PROVE  k <= m
        <5>1. CASE k \in Out
          BY <3>1, <3>3, <4>1, <4>2, <5>1 DEF NothingAfterClose
        <5>2. CASE k = n
          BY <2>2, <3>1, <3>2, <3>3, <4>1, <4>2, <5>2
        <5> QED
          BY <3>1, <5>1, <5>2
      <4> QED
        BY <2>1, <2>2, <3>3, <4>1, <4>2
    <3>4. CASE m = n
      <4>1. pc'[c] = "gone"
        BY <2>4, <3>1, <3>4 DEF Entry, OfCall
      <4>2. \A k \in Out' : k <= m
        <5>1. n \in Nat
          BY DEF n
        <5>2. \A k \in Out : k \in Nat
          BY DEF Out
        <5> QED
          BY <3>1, <3>4, <5>1, <5>2
      <4> QED
        BY <3>1, <3>2, <3>4, <4>1, <4>2
    <3> QED
      BY <3>1, <3>3, <3>4
  <2> QED
    BY <1>4, <2>3, <2>4, WorksWrites
<1> QED
  BY <1>2, <1>3, <1>4, Steps

LEMMA CallsRecordedStep ==
    ASSUME TypeOK, [Next]_vars, CallsRecorded
    PROVE  CallsRecorded'
<1>1. TypeOK'
  BY Steps
<1>2. ASSUME FileKept
      PROVE  \A c, tool : Admitted(c, tool) =>
                 \E k \in InFile' : /\ log'[k].decision = "PRE_ENTRY" /\ log'[k].session = c
                                    /\ log'[k].tool = tool
  BY <1>1, <1>2, FileKeptIs DEF Admitted
<1>3. CASE Restart
  <2>1. /\ FileKept /\ UNCHANGED called /\ \A c \in Conns : pc'[c] # "recorded"
    BY <1>3, RestartKeeps
  <2>2. ASSUME NEW x \in called
        PROVE  \E k \in InFile' : /\ log'[k].decision = "PRE_ENTRY" /\ log'[k].session = x[1]
                                  /\ log'[k].tool = x[2]
    <3>1. Admitted(x[1], x[2])
      BY DEF CallsRecorded
    <3> QED
      BY <1>2, <2>1, <3>1
  <2> QED
    BY <2>1, <2>2 DEF CallsRecorded, Admitted
<1>4. CASE Rests
  BY <1>4, QuietIs DEF CallsRecorded, Rests, Same, Admitted
<1>5. ASSUME NEW c \in Conns, Works(c) PROVE CallsRecorded'
  <2>1. FileKept
    BY <1>5, WorksKeeps
  <2>2. ASSUME NEW x \in called'
        PROVE  \E k \in InFile' : /\ log'[k].decision = "PRE_ENTRY" /\ log'[k].session = x[1]
                                  /\ log'[k].tool = x[2]
    <3>1. CASE x \in called
      BY <1>2, <2>1, <3>1 DEF CallsRecorded
    <3>2. CASE x \notin called
      <4>1. x = <<c, cur[c].tool>> /\ pc[c] = "recorded"
        BY <1>5, <3>2 DEF Works, Opens, Ends, Takes, Runs, Marks, Unmarks, Enters, Replies, Same
      <4>2. Admitted(c, cur[c].tool)
        BY <4>1 DEF CallsRecorded
      <4>3. \E k \in InFile' : /\ log'[k].decision = "PRE_ENTRY" /\ log'[k].session = c
                               /\ log'[k].tool = cur[c].tool
        BY <1>2, <2>1, <4>2
      <4>4. x[1] = c /\ x[2] = cur[c].tool
        BY <4>1
      <4> QED
        BY <4>3, <4>4
    <3> QED
      BY <3>1, <3>2
  <2>3. ASSUME NEW d \in Conns, pc'[d] = "recorded"
        PROVE  \E k \in InFile' : /\ log'[k].decision = "PRE_ENTRY" /\ log'[k].session = d
                                  /\ log'[k].tool = cur'[d].tool
    <3>1. CASE pc[d] = "recorded" /\ cur'[d] = cur[d]
      BY <1>2, <2>1, <3>1 DEF CallsRecorded
    <3>2. CASE ~(pc[d] = "recorded" /\ cur'[d] = cur[d])
      <4>1. d = c /\ Enters(c)
        BY <1>5, <2>3, <3>2 DEF Works, Others, Opens, Ends, Takes, Runs, Marks, Unmarks, Replies
      <4>2. PICK line \in Lines : /\ line.decision = "PRE_ENTRY" /\ line.tool = cur[c].tool
                                  /\ PutsInFile(c, line)
        BY <4>1 DEF Enters
      <4>3. Len(Written) + 1 \in InFile' /\ log'[Len(Written) + 1] = line
        BY <4>2, WrittenIs DEF PutsInFile, InFile
      <4> QED
        BY <4>1, <4>2, <4>3 DEF Enters, PutsInFile, Puts
    <3> QED
      BY <3>1, <3>2
  <2> QED
    BY <2>2, <2>3 DEF CallsRecorded, Admitted
<1> QED
  BY <1>3, <1>4, <1>5, Steps

LEMMA OpenRequestsStep ==
    ASSUME TypeOK, [Next]_vars, RequestsOwn, LinesInOrder, OpenRequests
    PROVE  OpenRequests'
<1> USE WrittenIs, LineFields
<1>1. CASE Restart
  BY <1>1, RestartKeeps DEF OpenRequests, Active
<1>2. CASE Rests
  BY <1>2, QuietIs DEF OpenRequests, Rests
<1>3. ASSUME NEW c \in Conns, Works(c) PROVE OpenRequests'
  <2>1. life' = life /\ nextRequest \in Nat
    BY <1>3 DEF Works, TypeOK
  <2> SUFFICES ASSUME NEW d \in Conns, pc'[d] \in Active,
                      NEW k \in Out', Written'[k].life = life', Written'[k].request = cur'[d].request
               PROVE  ~Final(Written'[k])
    BY DEF OpenRequests, Final
  <2>2. ASSUME k \in Out, Written'[k] = Written[k]
        PROVE  ~Final(Written'[k])
    <3>1. CASE pc[d] \in Active /\ cur'[d].request = cur[d].request
      BY <2>1, <2>2, <3>1 DEF OpenRequests
    <3>2. CASE ~(pc[d] \in Active /\ cur'[d].request = cur[d].request)
      <4>1. cur'[d].request = <<c, nextRequest + 1>>
        BY <1>3, <3>2 DEF Works, Others, Opens, Ends, Takes, Runs, Marks, Unmarks, Enters,
           Replies, Active
      <4>2. Written[k].request[2] <= nextRequest
        BY <2>1, <2>2 DEF LinesInOrder
      <4> QED
        BY <2>1, <2>2, <4>1, <4>2
    <3> QED
      BY <3>1, <3>2
  <2>3. CASE Quiet
    BY <2>2, <2>3, QuietIs
  <2>4. ASSUME NEW line \in Lines, Appended(line), Entry(c, line)
        PROVE  ~Final(Written'[k])
    <3>1. CASE k \in Out
      BY <2>2, <2>4, <3>1, AppendedIs
    <3>2. CASE k = Len(Written) + 1
      <4>1. Written'[k] = line /\ line.request[1] = c
        BY <2>4, <3>2, AppendedIs, EntryFields
      <4>2. CASE d = c
        BY <1>3, <2>4, <4>1, <4>2 DEF Works, Entry, OfCall, Final, Quiet, Opens, Ends, Takes,
           Runs, Marks, Unmarks, Enters, Replies, Active, PutsInFile, Puts, Appended
      <4>3. CASE d # c
        BY <1>3, <4>1, <4>3 DEF Works, Others, RequestsOwn
      <4> QED
        BY <4>2, <4>3
    <3> QED
      BY <2>4, <3>1, <3>2, AppendedIs
  <2> QED
    BY <1>3, <2>3, <2>4, WorksWrites
<1> QED
  BY <1>1, <1>2, <1>3, Steps

LEMMA ResultsKnownStep ==
    ASSUME TypeOK, [Next]_vars, RequestsOwn, ResultsKnown
    PROVE  ResultsKnown'
<1>1. life \in Nat /\ nextRequest \in Nat /\ \A x \in returned : x \in Results
  BY DEF TypeOK
<1>2. \A x \in returned : x.life \in Nat /\ x.request \in Nat \X Nat /\ x.request[2] \in Nat
  BY <1>1 DEF Results
<1>3. CASE Restart
  <2>1. /\ life' = life + 1 /\ returned' = returned /\ \A c \in Conns : pc'[c] = "none"
    BY <1>3, RestartKeeps
  <2>2. \A x \in returned : x.life <= life' /\ x.life # life'
    BY <1>1, <1>2, <2>1 DEF ResultsKnown
  <2> QED
    BY <2>1, <2>2 DEF ResultsKnown, Active
<1>4. CASE Rests
  BY <1>4 DEF ResultsKnown, Rests, Same
<1>5. ASSUME NEW c \in Conns, Works(c) PROVE ResultsKnown'
  <2>1. life' = life /\ nextRequest' \in {nextRequest, nextRequest + 1}
    BY <1>5, WorksKeeps DEF Works
  <2>2. \A d \in Conns : d # c => /\ pc'[d] = pc[d] /\ cur'[d] = cur[d]
                                  /\ pc[d] \in Active => cur[d].request[1] # cur[c].request[1]
                                                         \/ pc[c] \notin Active
    BY <1>5 DEF Works, Others, RequestsOwn
  <2>3. CASE /\ pc[c] = "recorded" /\ pc'[c] = "returned" /\ cur'[c].request = cur[c].request
             /\ cur'[c].tool = cur[c].tool
             /\ returned' = returned \cup
                   {[life |-> life, request |-> cur[c].request, tool |-> cur[c].tool,
                     result |-> cur'[c].result]}
    <3> DEFINE new == [life |-> life, request |-> cur[c].request, tool |-> cur[c].tool,
                       result |-> cur'[c].result]
    <3>1. /\ new.life = life /\ new.request = cur[c].request /\ new.tool = cur[c].tool
          /\ new.result = cur'[c].result /\ returned' = returned \cup {new}
      BY <2>3
    <3> HIDE DEF new
    <3>2. new.request[2] <= nextRequest /\ new.request[2] \in Nat /\ pc[c] \in Active
      BY <2>3, <3>1, RequestFields DEF RequestsOwn, Active, TypeOK
    <3>3. \A x \in returned' : x.life <= life' /\ (x.life = life' => x.request[2] <= nextRequest')
      BY <1>1, <1>2, <2>1, <3>1, <3>2 DEF ResultsKnown
    <3>4. ASSUME NEW d \in Conns, pc'[d] \in Active \ {"returned"}, NEW x \in returned'
          PROVE  ~(x.life = life' /\ x.request = cur'[d].request)
      <4>1. d # c /\ pc[d] = pc'[d] /\ cur'[d] = cur[d] /\ cur[d].request # cur[c].request
        BY <2>2, <2>3, <3>2, <3>4 DEF Active
      <4> QED
        BY <2>1, <3>1, <3>4, <4>1 DEF ResultsKnown
    <3>5. ASSUME NEW d \in Conns, pc'[d] = "returned"
          PROVE  \E x \in returned' : /\ x.life = life' /\ x.request = cur'[d].request
                                      /\ x.tool = cur'[d].tool /\ x.result = cur'[d].result
      <4>1. CASE d = c
        BY <2>1, <2>3, <3>1, <4>1
      <4>2. CASE d # c
        BY <2>1, <2>2, <3>1, <3>5, <4>2 DEF ResultsKnown
      <4> QED
        BY <4>1, <4>2
    <3> QED
      BY <3>3, <3>4, <3>5 DEF ResultsKnown
  <2>4. CASE /\ returned' = returned /\ pc'[c] # "returned"
    <3>1. \A x \in returned' : x.life <= life' /\ (x.life = life' => x.request[2] <= nextRequest')
      BY <1>1, <1>2, <2>1, <2>4 DEF ResultsKnown
    <3>2. ASSUME pc'[c] \in Active, NEW x \in returned
          PROVE  ~(x.life = life' /\ x.request = cur'[c].request)
      <4>1. CASE cur'[c].request = <<c, nextRequest + 1>>
        BY <1>1, <1>2, <2>1, <4>1 DEF ResultsKnown
      <4>2. CASE cur'[c].request # <<c, nextRequest + 1>>
        <5>1. pc[c] \in Active \ {"returned"} /\ cur'[c].request = cur[c].request
          BY <1>5, <3>2, <4>2 DEF Works, Opens, Ends, Takes, Runs, Marks, Unmarks, Enters, Replies,
             Active
        <5> QED
          BY <2>1, <5>1 DEF ResultsKnown
      <4> QED
        BY <4>1, <4>2
    <3> QED
      BY <2>1, <2>2, <2>4, <3>1, <3>2 DEF ResultsKnown
  <2>5. CASE Runs(c)
    BY <2>3, <2>4, <2>5 DEF Runs
  <2>6. CASE ~Runs(c)
    <3>1. returned' = returned /\ pc'[c] # "returned"
      BY <1>5, <2>6 DEF Works, Opens, Ends, Takes, Marks, Unmarks, Enters, Replies, Same
    <3> QED
      BY <2>4, <3>1
  <2> QED
    BY <2>5, <2>6
<1> QED
  BY <1>3, <1>4, <1>5, Steps

LEMMA AllowsReturnedStep ==
    ASSUME TypeOK, [Next]_vars, ResultsKnown, AllowsReturned
    PROVE  AllowsReturned'
<1>1. CASE Restart
  BY <1>1, RestartKeeps DEF AllowsReturned
<1>2. CASE Rests
  BY <1>2, QuietIs DEF AllowsReturned, Rests, Same
<1>3. ASSUME NEW c \in Conns, Works(c) PROVE AllowsReturned'
  <2>1. returned \subseteq returned'
    BY <1>3, WorksKeeps
  <2>2. CASE Quiet
    BY <2>1, <2>2, QuietIs DEF AllowsReturned
  <2>3. ASSUME NEW line \in Lines, Appended(line), Entry(c, line)
        PROVE  AllowsReturned'
    <3> SUFFICES ASSUME NEW k \in Out', Written'[k].decision = "ALLOW"
                 PROVE  \E x \in returned' :
                            /\ x.life = Written'[k].life /\ x.request = Written'[k].request
                            /\ x.tool = Written'[k].tool
                            /\ Written'[k].result \in {None, Cut, x.result}
      BY DEF AllowsReturned
    <3>1. CASE k \in Out
      BY SMTT(20), <2>1, <2>3, <3>1, AppendedIs DEF AllowsReturned
    <3>2. CASE k = Len(Written) + 1
      <4>1. Written'[k] = line
        BY <2>3, <3>2, AppendedIs
      <4>2. /\ pc[c] = "returned" /\ line.life = life /\ line.request = cur[c].request
            /\ line.tool = cur[c].tool /\ line.result \in {None, Cut, cur[c].result}
        BY <2>3, <4>1 DEF Entry, OfCall
      <4> QED
        BY <2>1, <4>1, <4>2 DEF ResultsKnown
    <3> QED
      BY <2>3, <3>1, <3>2, AppendedIs
  <2> QED
    BY <1>3, <2>2, <2>3, WorksWrites
<1> QED
  BY <1>1, <1>2, <1>3, Steps

LEMMA DenialsDidNotStep ==
    ASSUME TypeOK, [Next]_vars, OpenRequests, ResultsKnown, DenialsDidNot
    PROVE  DenialsDidNot'
<1>1. CASE Restart
  BY <1>1, RestartKeeps DEF DenialsDidNot
<1>2. CASE Rests
  BY <1>2, QuietIs DEF DenialsDidNot, Rests, Same
<1>3. ASSUME NEW c \in Conns, Works(c) PROVE DenialsDidNot'
  <2>1. CASE Quiet
    <3>1. CASE returned' = returned
      BY <2>1, <3>1, QuietIs DEF DenialsDidNot
    <3>2. CASE returned' # returned
      <4>1. PICK new : /\ pc[c] = "recorded" /\ new.life = life /\ new.request = cur[c].request
                       /\ returned' = returned \cup {new}
        BY <1>3, <3>2 DEF Works, Opens, Ends, Takes, Runs, Marks, Unmarks, Enters, Replies, Same
      <4>2. \A k \in Out : ~(/\ Written[k].decision = "DENY" /\ Written[k].life = life
                             /\ Written[k].request = cur[c].request)
        BY <4>1 DEF OpenRequests, Active, Final
      <4> QED
        BY <2>1, <4>1, <4>2, QuietIs DEF DenialsDidNot
    <3> QED
      BY <3>1, <3>2
  <2>2. ASSUME NEW line \in Lines, Appended(line), Entry(c, line), Same
        PROVE  DenialsDidNot'
    <3> SUFFICES ASSUME NEW k \in Out', Written'[k].decision = "DENY", NEW x \in returned
                 PROVE  ~(x.life = Written'[k].life /\ x.request = Written'[k].request)
      BY <2>2 DEF DenialsDidNot, Same
    <3>1. CASE k \in Out
      BY <2>2, <3>1, AppendedIs DEF DenialsDidNot
    <3>2. CASE k = Len(Written) + 1
      <4>1. Written'[k] = line
        BY <2>2, <3>2, AppendedIs
      <4>2. /\ pc[c] \in Active \ {"returned"} /\ line.life = life /\ line.request = cur[c].request
        BY <2>2, <4>1 DEF Entry, OfCall, Active
      <4> QED
        BY <4>1, <4>2 DEF ResultsKnown
    <3> QED
      BY <2>2, <3>1, <3>2, AppendedIs
  <2> QED
    BY <1>3, <2>1, <2>2, WorksWrites
<1> QED
  BY <1>1, <1>2, <1>3, Steps

-----------------------------------------------------------------------------
(***************************************************************************)
(* What a verdict of Claims says of the records it was given.              *)
(***************************************************************************)
\* A "consistent" verdict on an absence: the session's bounds are in the
\* records, and no record between them shows the call.
LEMMA ConsistentAbsenceIs ==
    ASSUME NEW claim, NEW records, VerifyAbsence(claim, records).verdict = "consistent"
    PROVE  \E i, j \in DOMAIN records :
               /\ Markers(records, claim.session, "SESSION_OPEN") = {i}
               /\ Markers(records, claim.session, "SESSION_CLOSE") = {j}
               /\ \A k \in DOMAIN records :
                      (/\ records[k].seq \in records[i].seq .. records[j].seq
                       /\ records[k].session = claim.session)
                      => ~ShowsCall(records[k], claim.tool)
<1> DEFINE spans == {ij \in Markers(records, claim.session, "SESSION_OPEN")
                            \X Markers(records, claim.session, "SESSION_CLOSE") :
                         Bounds(records, claim.session, ij[1], ij[2])}
           shown == \E ij \in spans, k \in DOMAIN records :
                        /\ records[k].seq \in records[ij[1]].seq .. records[ij[2]].seq
                        /\ records[k].session = claim.session
                        /\ ShowsCall(records[k], claim.tool)
<1>1. VerifyAbsence(claim, records) = IF spans = {} THEN Unverifiable("session_id")
                                      ELSE IF shown THEN Contradicted("tool_name")
                                      ELSE Consistent
  BY DEF VerifyAbsence
<1>2. /\ Unverifiable("session_id").verdict = "unverifiable"
      /\ Contradicted("tool_name").verdict = "contradicted"
  BY DEF Unverifiable, Contradicted
<1>3. spans # {} /\ ~shown
  <2> HIDE DEF spans, shown
  <2> QED
    BY <1>1, <1>2
<1>4. PICK ij \in spans : TRUE
  BY <1>3
<1>5. /\ ij[1] \in DOMAIN records /\ ij[2] \in DOMAIN records
      /\ Markers(records, claim.session, "SESSION_OPEN") = {ij[1]}
      /\ Markers(records, claim.session, "SESSION_CLOSE") = {ij[2]}
  BY <1>4 DEF Bounds, Markers
<1> QED
  BY <1>3, <1>4, <1>5

\* The final records of a request.
Finals(claim, records) ==
    {k \in DOMAIN records : /\ records[k].request = claim.request
                            /\ records[k].decision \in {"ALLOW", "DENY"}}

\* A "consistent" verdict on an action: there is a final record, and every one
\* of them is what the claim says.
LEMMA ConsistentActionIs ==
    ASSUME NEW claim, NEW records, VerifyAction(claim, records).verdict = "consistent"
    PROVE  /\ Finals(claim, records) # {}
           /\ \A k \in Finals(claim, records) :
                  /\ records[k].tool = claim.tool
                  /\ Recorded(records[k]) = claim.outcome
                  /\ claim.digest # None => /\ records[k].result \notin {None, Cut}
                                            /\ records[k].decision = "ALLOW" =>
                                                   records[k].result = claim.digest
<1> DEFINE finals == {records[i] : i \in Finals(claim, records)}
           split == Cardinality({r.decision : r \in finals}) > 1
           against == {f \in DOMAIN Fields :
                          /\ split => Fields[f] # "outcome"
                          /\ \E r \in finals : Contradicts(claim, r, Fields[f])}
           first == CHOOSE f \in against : \A g \in against : f <= g
           unsettled == \E r \in finals : DigestUnsettled(claim, r)
<1>1. VerifyAction(claim, records) =
          IF finals = {} THEN Unverifiable("request_id")
          ELSE IF against # {} THEN Contradicted(Fields[first])
          ELSE IF split THEN Unverifiable("request_id")
          ELSE IF unsettled THEN Unverifiable("result_digest")
          ELSE Consistent
  BY DEF VerifyAction, Finals
<1>2. /\ \A field : Unverifiable(field).verdict = "unverifiable"
      /\ \A field : Contradicted(field).verdict = "contradicted"
  BY DEF Unverifiable, Contradicted
<1>3. finals # {} /\ against = {} /\ ~split /\ ~unsettled
  <2> HIDE DEF finals, against, split, unsettled, first
  <2> QED
    BY <1>1, <1>2
<1>4. /\ 1 \in DOMAIN Fields /\ 2 \in DOMAIN Fields /\ 3 \in DOMAIN Fields
      /\ Fields[1] = "tool_name" /\ Fields[2] = "outcome" /\ Fields[3] = "result_digest"
  BY DEF Fields
<1> HIDE DEF split
<1>5. ASSUME NEW r \in finals
      PROVE  /\ ~Contradicts(claim, r, "tool_name") /\ ~Contradicts(claim, r, "outcome")
             /\ ~Contradicts(claim, r, "result_digest") /\ ~DigestUnsettled(claim, r)
  <2> HIDE DEF finals
  <2> QED
    BY <1>3, <1>4
<1>6. ASSUME NEW k \in Finals(claim, records)
      PROVE  /\ records[k].tool = claim.tool
             /\ Recorded(records[k]) = claim.outcome
             /\ claim.digest # None => /\ records[k].result \notin {None, Cut}
                                       /\ records[k].decision = "ALLOW" =>
                                              records[k].result = claim.digest
  <2>1. records[k] \in finals
    OBVIOUS
  <2> HIDE DEF finals
  <2>2. /\ ~Contradicts(claim, records[k], "tool_name")
        /\ ~Contradicts(claim, records[k], "outcome")
        /\ ~Contradicts(claim, records[k], "result_digest")
        /\ ~DigestUnsettled(claim, records[k])
    BY <1>5, <2>1
  <2> QED
    BY <2>2 DEF Contradicts, DigestUnsettled
<1> QED
  BY <1>3, <1>6

\* A "contradicted" verdict on an action: some final record is against it.
LEMMA ContradictedActionIs ==
    ASSUME NEW claim, NEW records, VerifyAction(claim, records).verdict = "contradicted"
    PROVE  \E k \in Finals(claim, records) :
               \/ records[k].tool # claim.tool
               \/ Recorded(records[k]) # claim.outcome
               \/ /\ claim.digest # None /\ records[k].decision = "ALLOW"
                  /\ records[k].result \notin {None, Cut, claim.digest}
<1> DEFINE finals == {records[i] : i \in Finals(claim, records)}
           split == Cardinality({r.decision : r \in finals}) > 1
           against == {f \in DOMAIN Fields :
                          /\ split => Fields[f] # "outcome"
                          /\ \E r \in finals : Contradicts(claim, r, Fields[f])}
           first == CHOOSE f \in against : \A g \in against : f <= g
           unsettled == \E r \in finals : DigestUnsettled(claim, r)
<1>1. VerifyAction(claim, records) =
          IF finals = {} THEN Unverifiable("request_id")
          ELSE IF against # {} THEN Contradicted(Fields[first])
          ELSE IF split THEN Unverifiable("request_id")
          ELSE IF unsettled THEN Unverifiable("result_digest")
          ELSE Consistent
  BY DEF VerifyAction, Finals
<1>2. /\ \A field : Unverifiable(field).verdict = "unverifiable"
      /\ Consistent.verdict = "consistent"
  BY DEF Unverifiable, Consistent
<1>3. against # {}
  <2> HIDE DEF finals, against, split, unsettled, first
  <2> QED
    BY <1>1, <1>2
<1>4. PICK f \in DOMAIN Fields, r \in finals : Contradicts(claim, r, Fields[f])
  BY <1>3
<1>5. PICK k \in Finals(claim, records) : r = records[k]
  BY <1>4
<1> QED
  BY <1>4, <1>5 DEF Contradicts

\* The verdict on what the connection says is that on the claim bound to it.
LEMMA VerdictIs ==
    ASSUME NEW c, NEW raw, NEW verdict \in {"consistent", "contradicted"},
           AgentVerdict(c, raw) = verdict
    PROVE  VerifyClaim(BindClaimSession(raw, c), log).verdict = verdict
<1> DEFINE claim == BindClaimSession(raw, c)
<1>1. VerifyConnectedClaim(raw, c, log) = IF WellFormed(claim) THEN VerifyClaim(claim, log)
                                          ELSE [verdict |-> "refused", field |-> None]
  BY DEF VerifyConnectedClaim
<1>2. VerifyConnectedClaim(raw, c, log).verdict = verdict
  BY DEF AgentVerdict
<1> HIDE DEF claim
<1>3. VerifyClaim(claim, log).verdict = verdict
  BY <1>1, <1>2
<1> QED
  BY <1>3 DEF claim

-----------------------------------------------------------------------------
(***************************************************************************)
(* What the lines say is so.                                               *)
(***************************************************************************)
LogInv ==
    /\ RequestsOwn /\ LinesInOrder /\ Marked /\ CallsAfterOpen /\ NothingAfterClose
    /\ CallsRecorded /\ OpenRequests /\ ResultsKnown /\ AllowsReturned /\ DenialsDidNot

LEMMA LogInit == Init => TypeOK /\ LogInv
<1> SUFFICES ASSUME Init PROVE TypeOK /\ LogInv
  OBVIOUS
<1>1. <<>> \in Seq(Lines) /\ <<>> \in Seq(Messages) /\ NoRequest \in Requests
  BY NoRequestIs
<1>2. TypeOK
  BY <1>1 DEF Init, TypeOK, Phases
<1>3. Written = <<>> /\ Out = {}
  BY DEF Init, Written, Out
<1>4. RequestsOwn /\ Marked /\ CallsRecorded /\ ResultsKnown
  BY DEF Init, RequestsOwn, Marked, CallsRecorded, ResultsKnown, Active, Served
<1>5. LinesInOrder /\ CallsAfterOpen /\ NothingAfterClose /\ OpenRequests /\ AllowsReturned
      /\ DenialsDidNot
  BY <1>3 DEF LinesInOrder, CallsAfterOpen, NothingAfterClose, OpenRequests, AllowsReturned,
     DenialsDidNot
<1> QED
  BY <1>2, <1>4, <1>5 DEF LogInv

LEMMA LogStep ==
    ASSUME TypeOK, LogInv, [Next]_vars
    PROVE  TypeOK' /\ LogInv'
  BY Steps, RequestsOwnStep, LinesInOrderStep, MarkedStep, CallsAfterOpenStep,
     NothingAfterCloseStep, CallsRecordedStep, OpenRequestsStep, ResultsKnownStep,
     AllowsReturnedStep, DenialsDidNotStep DEF LogInv

LEMMA LinesOfFile ==
    ASSUME TypeOK
    PROVE  /\ DOMAIN log = InFile
           /\ \A k \in InFile : /\ k \in Out /\ k \in Nat /\ Written[k] = log[k]
                                /\ log[k] \in Lines /\ log[k].seq \in Nat /\ log[k].life \in Nat
<1>1. DOMAIN log = InFile /\ InFile \subseteq Nat
  BY LenProperties DEF TypeOK, InFile
<1> QED
  BY <1>1, WrittenIs, LineFields

LEMMA LogGivesAbsence ==
    ASSUME TypeOK, LogInv
    PROVE  ConsistentAbsenceIsTrue
<1> SUFFICES ASSUME NEW c \in Conns, NEW tool \in Tools, NEW s \in Conns,
                    AgentVerdict(c, [Body("absence", tool, "not_called") EXCEPT !.session = s])
                        = "consistent",
                    <<c, tool>> \in called
             PROVE  FALSE
  BY DEF ConsistentAbsenceIsTrue
<1> USE LinesOfFile
<1> DEFINE raw == [Body("absence", tool, "not_called") EXCEPT !.session = s]
           claim == BindClaimSession(raw, c)
<1>1. claim.session = c /\ claim.tool = tool /\ VerifyAbsence(claim, log).verdict = "consistent"
  <2>1. claim.kind = "absence" /\ claim.session = c /\ claim.tool = tool
    BY DEF Body, BindClaimSession
  <2>2. AgentVerdict(c, raw) = "consistent"
    OBVIOUS
  <2> HIDE DEF raw
  <2>3. VerifyClaim(claim, log).verdict = "consistent"
    BY <2>2, VerdictIs
  <2> HIDE DEF claim
  <2> QED
    BY <2>1, <2>3 DEF VerifyClaim
<1> HIDE DEF raw, claim
<1>2. PICK i, j \in InFile :
         /\ Markers(log, c, "SESSION_OPEN") = {i} /\ Markers(log, c, "SESSION_CLOSE") = {j}
         /\ \A k \in InFile : (log[k].seq \in log[i].seq .. log[j].seq /\ log[k].session = c)
                                  => ~ShowsCall(log[k], tool)
  BY <1>1, ConsistentAbsenceIs
<1>3. PICK k \in InFile : /\ log[k].decision = "PRE_ENTRY" /\ log[k].session = c
                          /\ log[k].tool = tool
  <2>1. Admitted(c, tool)
    BY DEF LogInv, CallsRecorded
  <2> QED
    BY <2>1 DEF Admitted
<1>4. \A m \in InFile : OpenOf(log[m], c, log[m].life) => m = i
  BY <1>2 DEF OpenOf, Markers
<1>5. log[j].decision = "SESSION_CLOSE" /\ log[j].session = c
  BY <1>2 DEF Markers
<1>6. i <= k /\ log[i].life = log[k].life
  <2>1. PICK m \in InFile : m <= k /\ OpenOf(log[m], c, log[k].life)
    BY <1>3 DEF LogInv, CallsAfterOpen
  <2> QED
    BY <1>4, <2>1 DEF OpenOf
<1>7. log[i].life = log[j].life
  <2>1. PICK m \in InFile : m <= j /\ OpenOf(log[m], c, log[j].life)
    BY <1>5 DEF LogInv, CallsAfterOpen
  <2> QED
    BY <1>4, <2>1 DEF OpenOf
<1>8. k <= j
  <2>1. /\ Written[j].decision = "SESSION_CLOSE" /\ j \in Out /\ k \in Out
        /\ Written[k].session = Written[j].session /\ Written[k].life = Written[j].life
    BY <1>3, <1>5, <1>6, <1>7
  <2> QED
    BY <2>1 DEF LogInv, NothingAfterClose
<1>9. log[i].seq <= log[k].seq /\ log[k].seq <= log[j].seq
  BY <1>6, <1>7, <1>8 DEF LogInv, LinesInOrder
<1>10. log[k].seq \in log[i].seq .. log[j].seq
  BY <1>9
<1> QED
  BY <1>2, <1>3, <1>10 DEF ShowsCall

\* The finals of a request that has one life are of that life.
LEMMA LivesIs ==
    ASSUME TypeOK, LinesInOrder, NEW r, Cardinality(LivesOf(r)) = 1,
           NEW k \in InFile, log[k].request = r
    PROVE  LivesOf(r) = {log[k].life}
<1>1. log[k].life \in LivesOf(r)
  BY LinesOfFile DEF LivesOf
<1>2. IsFiniteSet(LivesOf(r))
  <2>1. life \in Nat /\ \A i \in InFile : log[i].life \in Nat /\ log[i].life <= life
    BY LinesOfFile DEF TypeOK, LinesInOrder
  <2>2. LivesOf(r) \subseteq 0 .. life
    BY <2>1, LinesOfFile DEF LivesOf
  <2>3. IsFiniteSet(0 .. life)
    BY <2>1, FS_Interval
  <2> QED
    BY <2>2, <2>3, FS_Subset
<1>3. \E x : LivesOf(r) = {x}
  BY <1>2, FS_Singleton
<1> QED
  BY <1>1, <1>3

\* The results of a request in the lives that have lines of it.
Done(r) == {x \in returned : x.life \in LivesOf(r) /\ x.request = r}

LEMMA LogGivesAction ==
    ASSUME TypeOK, LogInv
    PROVE  ConsistentActionIsTrue
<1> USE LinesOfFile
<1> SUFFICES
        \A r \in {log[i].request : i \in DOMAIN log}, tool \in Tools, digest \in Digests \cup {None},
           outcome \in {"allowed", "denied"} :
            (/\ Cardinality(LivesOf(r)) = 1
             /\ AgentVerdict(r[1], [Body("action", tool, outcome) EXCEPT
                                       !.request = r, !.digest = digest]) = "consistent")
            => IF outcome = "denied" THEN Done(r) = {}
               ELSE \E x \in Done(r) : x.tool = tool /\ (digest = None \/ x.result = digest)
  BY DEF ConsistentActionIsTrue, Done
<1> TAKE r \in {log[i].request : i \in DOMAIN log}, tool \in Tools, digest \in Digests \cup {None},
         outcome \in {"allowed", "denied"}
<1> HAVE /\ Cardinality(LivesOf(r)) = 1
         /\ AgentVerdict(r[1], [Body("action", tool, outcome) EXCEPT
                                   !.request = r, !.digest = digest]) = "consistent"
<1> DEFINE raw == [Body("action", tool, outcome) EXCEPT !.request = r, !.digest = digest]
           claim == BindClaimSession(raw, r[1])
<1>1. /\ claim.request = r /\ claim.tool = tool /\ claim.outcome = outcome
      /\ claim.digest = digest /\ VerifyAction(claim, log).verdict = "consistent"
  <2>1. /\ claim.kind = "action" /\ claim.request = r /\ claim.tool = tool
        /\ claim.outcome = outcome /\ claim.digest = digest
    BY DEF Body, BindClaimSession
  <2>2. AgentVerdict(r[1], raw) = "consistent"
    OBVIOUS
  <2> HIDE DEF raw
  <2>3. VerifyClaim(claim, log).verdict = "consistent"
    BY <2>2, VerdictIs
  <2> HIDE DEF claim
  <2> QED
    BY <2>1, <2>3 DEF VerifyClaim
<1> HIDE DEF raw, claim
<1>2. /\ Finals(claim, log) # {}
      /\ \A k \in Finals(claim, log) :
             /\ log[k].tool = tool /\ Recorded(log[k]) = outcome
             /\ digest # None => /\ log[k].result \notin {None, Cut}
                                 /\ log[k].decision = "ALLOW" => log[k].result = digest
  BY <1>1, ConsistentActionIs
<1>3. PICK k \in Finals(claim, log) : TRUE
  BY <1>2
<1>4. k \in InFile /\ k \in Out /\ Written[k] = log[k] /\ log[k].request = r
      /\ log[k].decision \in {"ALLOW", "DENY"}
  BY <1>1, <1>3 DEF Finals
<1>5. LivesOf(r) = {log[k].life}
  BY <1>4, LivesIs DEF LogInv
<1>6. CASE outcome = "denied"
  <2>1. log[k].decision = "DENY"
    BY <1>2, <1>3, <1>4, <1>6 DEF Recorded
  <2>2. \A x \in returned : ~(x.life = log[k].life /\ x.request = r)
    BY SMTT(20), <1>4, <2>1 DEF LogInv, DenialsDidNot
  <2>3. Done(r) = {}
    BY <1>5, <2>2 DEF Done
  <2> QED
    BY <1>6, <2>3
<1>7. CASE outcome = "allowed"
  <2>1. log[k].decision = "ALLOW"
    BY <1>2, <1>3, <1>4, <1>7 DEF Recorded
  <2>2. PICK x \in returned : /\ x.life = log[k].life /\ x.request = r /\ x.tool = log[k].tool
                              /\ log[k].result \in {None, Cut, x.result}
    BY <1>4, <2>1 DEF LogInv, AllowsReturned
  <2>3. x.tool = tool /\ (digest = None \/ x.result = digest)
    BY <1>2, <1>3, <2>1, <2>2
  <2>4. x \in Done(r)
    BY <1>5, <2>2 DEF Done
  <2> QED
    BY <1>7, <2>3, <2>4
<1> QED
  BY <1>6, <1>7

-----------------------------------------------------------------------------
(***************************************************************************)
(* The two ends of a connection.                                           *)
(***************************************************************************)
\* A denial nobody asked for, after which the host closes the connection.
Unasked(m) ==
    /\ m.answers = 0 /\ m.decision = "DENY"
    /\ m.reason \in {"timeout", "append_failed", "unrecorded"}
\* The thread decides a request that was sent.
Deciding(c) == pc[c] \in Active /\ cur[c].reason # "timeout"
Sent(c) == DOMAIN outbox[c]

\* The request being decided.
RequestFits(c) ==
    pc[c] \in Active =>
        /\ last[c] < cur[c].request[2]
        /\ cur[c].reason \notin {"unread", "timeout"} => cur[c].tool = cur[c].asked
        /\ cur[c].reason \in {"unread", "timeout"} => pc[c] = "denying"
        /\ cur[c].reason = "timeout" => cur[c].tag = 0
        /\ cur[c].reason \notin {"append_failed", "unrecorded"}

\* An agent that waits for a reply has one request under way.
AgentFits(c) ==
    /\ last[c] <= nextRequest
    /\ client[c] = "none" <=> pc[c] = "none"
    /\ pc[c] \in {"none", "opening"} => outbox[c] = <<>>
    /\ pc[c] = "none" => inbox[c] = NoRequest
    /\ client[c] = "free" =>
           /\ inbox[c] # NoRequest => pc[c] \in {"closing", "gone"}
           /\ ~Deciding(c)
           /\ \A i \in Sent(c) : Unasked(outbox[c][i])
    /\ client[c] \in Tools =>
           /\ calls[c] > 0
           /\ inbox[c] # NoRequest =>
                  /\ inbox[c].tag = calls[c] /\ inbox[c].asked = client[c] /\ ~Deciding(c)
                  /\ \A i \in Sent(c) : Unasked(outbox[c][i])
           /\ Deciding(c) =>
                  cur[c].tag = calls[c] /\ cur[c].asked = client[c] /\ outbox[c] = <<>>
           /\ \A i \in Sent(c) :
                  Unasked(outbox[c][i]) \/ (i = 1 /\ outbox[c][i].answers = calls[c])

\* Replies carry rising ids of the connection, and an unasked one is the last.
MessageFits(c, m) ==
    /\ m.reason = "unrecorded" <=> m.request = None
    /\ m.request = None => pc[c] = "gone"
    /\ Unasked(m) => pc[c] \in {"closing", "gone"}
    /\ m.request # None =>
           /\ m.request[1] = c /\ last[c] < m.request[2] /\ m.request[2] <= nextRequest
           /\ pc[c] \in Active => m.request[2] < cur[c].request[2]
MessagesFit(c) ==
    /\ \A i \in Sent(c) : /\ MessageFits(c, outbox[c][i])
                          /\ Unasked(outbox[c][i]) => i = Len(outbox[c])
    /\ \A i, j \in Sent(c) : i < j =>
           /\ outbox[c][i].request # None /\ outbox[c][j].request # None
           /\ outbox[c][i].request[2] < outbox[c][j].request[2]

WireOf(c) == RequestFits(c) /\ AgentFits(c) /\ MessagesFit(c)

\* A final line says what a reply said of the call of `tool`.
Agrees(line, tool, m) ==
    /\ line.tool = tool /\ line.decision = m.decision
    /\ (line.decision = "ALLOW" /\ m.digest # None) => line.result \in {None, Cut, m.digest}
FinalOf(line, l, r) == Final(line) /\ line.life = l /\ line.request = r

\* The lines of a request agree with the reply on its way.
SentAgrees ==
    \A c \in Conns : client[c] \in Tools =>
        \A i \in Sent(c) : outbox[c][i].reason \notin RecordDiffers \cup {"unrecorded"} =>
            \A k \in Out : FinalOf(Written[k], life, outbox[c][i].request)
                               => Agrees(Written[k], client[c], outbox[c][i])

\* And with the reply that was read.
HeardFits(h) ==
    /\ h.life <= life
    /\ h.answers = h.tag \/ (h.answers = 0 /\ h.decision = "DENY")
    /\ h.life = life => h.request[1] = h.conn /\ h.request[2] <= last[h.conn]
HeardAgrees ==
    \A h \in told : h.reason \notin RecordDiffers =>
        \A k \in Out : FinalOf(Written[k], h.life, h.request) => Agrees(Written[k], h.tool, h)

\* What a thread does that answers the request it decided.
Answers(c) ==
    /\ pc[c] \in Active
    /\ \E m \in Messages :
          /\ m.request = cur[c].request /\ m.answers = cur[c].tag
          /\ \/ m.reason \in {cur[c].reason, "append_failed"}
             \/ m.reason = None /\ pc[c] = "returned"
          /\ cur[c].reason = "timeout" =>
                 m.decision = "DENY" /\ m.reason \in {"timeout", "append_failed"}
          /\ SendLine(c, m, AfterReply(c))
          /\ \/ Quiet
             \/ \E line \in Lines :
                   /\ Appended(line) /\ Entry(c, line)
                   /\ (Final(line) /\ m.reason # "append_failed")
                          => Agrees(line, cur[c].tool, m)
    /\ UNCHANGED <<life, nextRequest, inbox, clientVars, history>>

\* The record before a call is written, and the call goes on.
Admits(c) ==
    /\ pc[c] = "admitted" /\ pc' = [pc EXCEPT ![c] = "recorded"]
    /\ UNCHANGED <<life, cur, inbox, outbox, nextRequest, clientVars, history>>

LEMMA AnswersIs ==
    ASSUME TypeOK, NEW c \in Conns, pc[c] \in Active, NEW line \in Lines, NEW m \in Messages,
           line.seq = seq + 1, line.life = life, line.session = c, OfCall(c, line),
           Agrees(line, cur[c].tool, m), Answer(c, line, m),
           m.request = cur[c].request, m.answers = cur[c].tag,
           m.reason \in {cur[c].reason, "append_failed"} \/ (m.reason = None /\ pc[c] = "returned"),
           cur[c].reason = "timeout" => m.decision = "DENY" /\ m.reason \in {"timeout", "append_failed"},
           UNCHANGED <<life, nextRequest, inbox, clientVars, history>>
    PROVE  Answers(c)
<1>1. PICK n \in {m, Deny(c, "append_failed")} :
         n \in Messages /\ SendLine(c, n, AfterReply(c))
  BY AnswerIs
<1>2. Appended(line) /\ Entry(c, line)
  BY AnswerIs DEF Puts, Entry
<1>3. /\ Deny(c, "append_failed").request = cur[c].request
      /\ Deny(c, "append_failed").answers = cur[c].tag
      /\ Deny(c, "append_failed").decision = "DENY"
      /\ Deny(c, "append_failed").reason = "append_failed"
  BY DenyIs DEF Reasons
<1>4. /\ n.request = cur[c].request /\ n.answers = cur[c].tag
      /\ n.reason \in {cur[c].reason, "append_failed"} \/ (n.reason = None /\ pc[c] = "returned")
      /\ cur[c].reason = "timeout" => n.decision = "DENY" /\ n.reason \in {"timeout", "append_failed"}
      /\ n.reason # "append_failed" => Agrees(line, cur[c].tool, n)
  BY <1>1, <1>3
<1> QED
  BY <1>1, <1>2, <1>4 DEF Answers

LEMMA LoggedAnswers ==
    ASSUME TypeOK, NEW c \in Conns, Logged(c)
    PROVE  Answers(c)
<1> DEFINE line == Line("DENY", c, cur[c].request, cur[c].tool)
           m == Deny(c, cur[c].reason)
<1>1. cur[c] \in Requests
  BY DEF TypeOK
<1>2. /\ line \in Lines /\ line.seq = seq + 1 /\ line.life = life /\ line.session = c
      /\ line.decision = "DENY" /\ line.request = cur[c].request /\ line.tool = cur[c].tool
  BY <1>1, RequestFields, LineIs DEF Decisions
<1>3. /\ m \in Messages /\ m.request = cur[c].request /\ m.answers = cur[c].tag
      /\ m.reason = cur[c].reason /\ m.decision = "DENY" /\ m.digest = None
  BY <1>1, RequestFields, DenyIs
<1>4. /\ UNCHANGED <<life, nextConnection, nextRequest, inbox, clientVars, history>>
      /\ pc[c] = "denying"
      /\ Answer(c, line, m) \/ (SendLine(c, m, AfterReply(c)) /\ UNCHANGED <<logVars, halted>>)
  BY DEF Logged
<1> HIDE DEF line, m
<1>5. CASE Answer(c, line, m)
  BY <1>2, <1>3, <1>4, <1>5, AnswersIs DEF Active, OfCall, Agrees
<1>6. CASE SendLine(c, m, AfterReply(c)) /\ UNCHANGED <<logVars, halted>>
  <2>1. Quiet
    BY <1>6, UnchangedLog
  <2> QED
    BY <1>3, <1>4, <1>6, <2>1 DEF Answers, Active
<1> QED
  BY <1>4, <1>5, <1>6

LEMMA RecordAnswers ==
    ASSUME TypeOK, NEW c \in Conns, RequestFits(c), Record(c)
    PROVE  Answers(c)
<1> DEFINE whole == [Line("DENY", c, cur[c].request, cur[c].tool) EXCEPT
                        !.reason = cur[c].reason,
                        !.check = IF cur[c].reason = "tool_failed" THEN "raised" ELSE None]
           m == Deny(c, cur[c].reason)
<1>1. cur[c] \in Requests
  BY DEF TypeOK
<1>2. /\ whole \in Lines /\ whole.seq = seq + 1 /\ whole.life = life /\ whole.session = c
      /\ whole.decision = "DENY" /\ whole.request = cur[c].request /\ whole.tool = cur[c].tool
  <2> DEFINE check == IF cur[c].reason = "tool_failed" THEN "raised" ELSE None
             w == [Line("DENY", c, cur[c].request, cur[c].tool) EXCEPT
                      !.reason = cur[c].reason, !.check = check]
  <2>1. check \in {None, "raised"}
    OBVIOUS
  <2> HIDE DEF check
  <2>2. /\ w \in Lines /\ w.seq = seq + 1 /\ w.life = life /\ w.session = c
        /\ w.decision = "DENY" /\ w.request = cur[c].request /\ w.tool = cur[c].tool
    BY <2>1, RecordLineIs
  <2>3. w = whole
    BY DEF check
  <2> HIDE DEF w, whole
  <2> QED
    BY <2>2, <2>3
<1>3. /\ m \in Messages /\ m.request = cur[c].request /\ m.answers = cur[c].tag
      /\ m.reason = cur[c].reason /\ m.decision = "DENY" /\ m.digest = None
  BY <1>1, RequestFields, DenyIs
<1>4. /\ UNCHANGED <<life, nextConnection, nextRequest, inbox, clientVars, history>>
      /\ pc[c] = "failing" /\ \E line \in BoundRecord(whole) : Answer(c, line, m)
  BY DEF Record
<1> HIDE DEF whole, m
<1>5. PICK line \in BoundRecord(whole) : Answer(c, line, m)
  BY <1>4
<1>6. /\ line \in Lines /\ line.seq = seq + 1 /\ line.life = life /\ line.session = c
      /\ line.decision = "DENY" /\ line.request = cur[c].request /\ line.tool = cur[c].tool
  BY <1>2, BoundRecordIs
<1> QED
  BY <1>3, <1>4, <1>5, <1>6, AnswersIs DEF Active, OfCall, Agrees

LEMMA AllowAnswers ==
    ASSUME TypeOK, NEW c \in Conns, RequestFits(c), Allow(c)
    PROVE  Answers(c)
<1> DEFINE whole == [Line("ALLOW", c, cur[c].request, cur[c].tool) EXCEPT
                        !.check = "entered", !.result = cur[c].result]
           m == [Deny(c, None) EXCEPT
                    !.decision = "ALLOW",
                    !.digest = IF cur[c].result \in Digests THEN cur[c].result ELSE None]
<1>1. cur[c] \in Requests /\ cur[c].result \in Digests \cup {None, Unencodable}
  BY RequestFields DEF TypeOK
<1>2. /\ whole \in Lines /\ whole.seq = seq + 1 /\ whole.life = life /\ whole.session = c
      /\ whole.decision = "ALLOW" /\ whole.request = cur[c].request /\ whole.tool = cur[c].tool
      /\ whole.result = cur[c].result
  BY ZenonT(30), AllowLineIs
<1>3. /\ m \in Messages /\ m.request = cur[c].request /\ m.answers = cur[c].tag
      /\ m.reason = None /\ m.decision = "ALLOW" /\ m.digest \in {None, cur[c].result}
  <2>1. /\ Deny(c, None) \in Messages /\ Deny(c, None).request = cur[c].request
        /\ Deny(c, None).answers = cur[c].tag /\ Deny(c, None).reason = None
    BY DenyIs
  <2> DEFINE digest == IF cur[c].result \in Digests THEN cur[c].result ELSE None
  <2>2. digest \in Digests \cup {None} /\ digest \in {None, cur[c].result}
    BY <1>1
  <2> HIDE DEF digest
  <2>3. /\ [Deny(c, None) EXCEPT !.decision = "ALLOW", !.digest = digest] \in Messages
        /\ [Deny(c, None) EXCEPT !.decision = "ALLOW", !.digest = digest].request = cur[c].request
        /\ [Deny(c, None) EXCEPT !.decision = "ALLOW", !.digest = digest].answers = cur[c].tag
        /\ [Deny(c, None) EXCEPT !.decision = "ALLOW", !.digest = digest].reason = None
        /\ [Deny(c, None) EXCEPT !.decision = "ALLOW", !.digest = digest].decision = "ALLOW"
        /\ [Deny(c, None) EXCEPT !.decision = "ALLOW", !.digest = digest].digest = digest
    BY <2>1, <2>2 DEF Messages
  <2>4. m = [Deny(c, None) EXCEPT !.decision = "ALLOW", !.digest = digest]
    BY DEF digest
  <2> HIDE DEF m
  <2> QED
    BY <2>2, <2>3, <2>4
<1>4. /\ UNCHANGED <<life, nextConnection, nextRequest, inbox, clientVars, history>>
      /\ pc[c] = "returned" /\ \E line \in BoundRecord(whole) : Answer(c, line, m)
  BY DEF Allow
<1> HIDE DEF whole, m
<1>5. PICK line \in BoundRecord(whole) : Answer(c, line, m)
  BY <1>4
<1>6. /\ line \in Lines /\ line.seq = seq + 1 /\ line.life = life /\ line.session = c
      /\ line.decision = "ALLOW" /\ line.request = cur[c].request /\ line.tool = cur[c].tool
      /\ line.result \in {None, Cut, cur[c].result}
  BY <1>2, BoundRecordIs
<1>7. cur[c].reason # "timeout" /\ pc[c] \in Active
  BY <1>4 DEF RequestFits, Active
<1> QED
  BY <1>3, <1>4, <1>5, <1>6, <1>7, AnswersIs DEF OfCall, Agrees

\* PreEntry either answers or goes on.
LEMMA PreEntryAnswers ==
    ASSUME TypeOK, NEW c \in Conns, RequestFits(c), PreEntry(c)
    PROVE  Answers(c) \/ Admits(c)
<1> DEFINE line == Line("PRE_ENTRY", c, cur[c].request, cur[c].tool)
           m == Deny(c, "append_failed")
<1>1. cur[c] \in Requests
  BY DEF TypeOK
<1>2. /\ line \in Lines /\ line.seq = seq + 1 /\ line.life = life /\ line.session = c
      /\ line.decision = "PRE_ENTRY" /\ line.request = cur[c].request /\ line.tool = cur[c].tool
  BY <1>1, RequestFields, LineIs DEF Decisions
<1>3. /\ m \in Messages /\ m.request = cur[c].request /\ m.answers = cur[c].tag
      /\ m.reason = "append_failed" /\ m.decision = "DENY"
  BY DenyIs DEF Reasons
<1>4. /\ UNCHANGED <<life, nextConnection, nextRequest, inbox, clientVars, history>>
      /\ pc[c] = "admitted"
      /\ \/ /\ Wrote(line) /\ pc' = [pc EXCEPT ![c] = "recorded"] /\ UNCHANGED <<cur, outbox>>
         \/ NotWritten(line) /\ SendLine(c, m, "reading")
  BY DEF PreEntry
<1> HIDE DEF line, m
<1>5. CASE NotWritten(line) /\ SendLine(c, m, "reading")
  <2>1. Appended(line)
    BY <1>2, <1>5, NotWrittenIs
  <2>2. pc[c] \in Active /\ AfterReply(c) = "reading" /\ cur[c].reason # "timeout"
    BY <1>4 DEF RequestFits, Active, AfterReply
  <2>3. Entry(c, line) /\ ~Final(line)
    BY <1>2, <1>4, <2>2 DEF Entry, OfCall, Final
  <2>4. SendLine(c, m, AfterReply(c))
    BY <1>5, <2>2
  <2> QED
    BY <1>2, <1>3, <1>4, <2>1, <2>2, <2>3, <2>4 DEF Answers
<1> QED
  BY <1>4, <1>5 DEF Admits

-----------------------------------------------------------------------------
(***************************************************************************)
(* Messages on their way.                                                  *)
(***************************************************************************)
LEMMA SentIs ==
    ASSUME TypeOK, NEW c \in Conns
    PROVE  /\ Sent(c) = 1 .. Len(outbox[c]) /\ Len(outbox[c]) \in Nat
           /\ \A i \in Sent(c) : outbox[c][i] \in Messages /\ i \in Nat
           /\ outbox[c] = <<>> <=> Sent(c) = {}
<1>1. outbox[c] \in Seq(Messages)
  BY DEF TypeOK
<1>2. Sent(c) = 1 .. Len(outbox[c]) /\ Len(outbox[c]) \in Nat
  BY <1>1, LenProperties DEF Sent
<1>3. \A i \in Sent(c) : outbox[c][i] \in Messages /\ i \in Nat
  BY <1>1, <1>2, ElementOfSeq
<1>4. outbox[c] = <<>> <=> Len(outbox[c]) = 0
  BY <1>1, EmptySeq
<1> QED
  BY <1>2, <1>3, <1>4

LEMMA AppendSent ==
    ASSUME TypeOK, NEW c \in Conns, NEW m \in Messages, outbox'[c] = Append(outbox[c], m)
    PROVE  /\ Len(outbox'[c]) = Len(outbox[c]) + 1
           /\ Sent(c)' = Sent(c) \cup {Len(outbox[c]) + 1}
           /\ \A i \in Sent(c) : outbox'[c][i] = outbox[c][i] /\ i <= Len(outbox[c])
           /\ outbox'[c][Len(outbox[c]) + 1] = m
<1>1. outbox[c] \in Seq(Messages)
  BY DEF TypeOK
<1> DEFINE f == outbox[c]
           g == outbox'[c]
<1>2. f \in Seq(Messages) /\ g = Append(f, m)
  BY <1>1
<1> HIDE DEF f, g
<1>3. /\ g \in Seq(Messages) /\ Len(g) = Len(f) + 1 /\ Len(f) \in Nat
      /\ g[Len(f) + 1] = m /\ \A k \in 1 .. Len(f) : g[k] = f[k]
  BY <1>2, AppendIs
<1>4. DOMAIN g = 1 .. Len(g)
  BY <1>3, LenProperties
<1>5. 1 .. Len(g) = (1 .. Len(f)) \cup {Len(f) + 1}
  BY <1>3
<1>6. DOMAIN f = 1 .. Len(f)
  BY <1>2, LenProperties
<1> QED
  BY <1>3, <1>4, <1>5, <1>6 DEF f, g, Sent

LEMMA TailSent ==
    ASSUME TypeOK, NEW c \in Conns, outbox[c] # <<>>, outbox'[c] = Tail(outbox[c])
    PROVE  /\ Len(outbox'[c]) = Len(outbox[c]) - 1
           /\ \A i \in Sent(c)' : i \in Nat /\ i + 1 \in Sent(c) /\ i + 1 > 1
                                  /\ outbox'[c][i] = outbox[c][i + 1]
           /\ 1 \in Sent(c) /\ Head(outbox[c]) = outbox[c][1] /\ Head(outbox[c]) \in Messages
<1>1. outbox[c] \in Seq(Messages)
  BY DEF TypeOK
<1> DEFINE f == outbox[c]
           g == outbox'[c]
<1>2. f \in Seq(Messages) /\ g = Tail(f) /\ f # <<>>
  BY <1>1
<1> HIDE DEF f, g
<1>3. /\ g \in Seq(Messages) /\ Len(g) = Len(f) - 1 /\ Len(f) \in Nat /\ Len(f) > 0
      /\ \A i \in 1 .. Len(g) : g[i] = f[i + 1]
      /\ Head(f) = f[1] /\ Head(f) \in Messages
  BY <1>2
<1>4. DOMAIN g = 1 .. Len(g) /\ DOMAIN f = 1 .. Len(f)
  BY <1>2, <1>3, LenProperties
<1> QED
  BY <1>3, <1>4 DEF f, g, Sent

LEMMA MessageFields ==
    ASSUME NEW m \in Messages
    PROVE  /\ m.answers \in Nat
           /\ m.request # None => /\ m.request \in Nat \X Nat /\ m.request[1] \in Nat
                                  /\ m.request[2] \in Nat
  BY DEF Messages

\* A request id of a connection is not the missing one.
LEMMA RequestIsNot ==
    ASSUME NEW c \in Conns, NEW r \in Nat \X Nat, r[1] = c
    PROVE  r # None
<1>1. r \in Conns \X Nat
  OBVIOUS
<1> QED
  BY <1>1

-----------------------------------------------------------------------------
(***************************************************************************)
(* Each action keeps the two ends in agreement.                            *)
(***************************************************************************)
Untouched(c) ==
    /\ pc'[c] = pc[c] /\ cur'[c] = cur[c] /\ inbox'[c] = inbox[c] /\ outbox'[c] = outbox[c]
    /\ client'[c] = client[c] /\ calls'[c] = calls[c] /\ last'[c] = last[c]
    /\ nextRequest' \in {nextRequest, nextRequest + 1}

OwnStep(d) ==
    \/ Open(d) \/ MarkOpen(d) \/ Decide(d) \/ Answers(d) \/ Admits(d) \/ Complete(d)
    \/ TimeOut(d) \/ EndOfInput(d) \/ MarkClose(d)
    \/ (\E tool \in Tools : Call(d, tool)) \/ ReadReply(d) \/ CloseLocked(d)

LEMMA OthersUntouched ==
    ASSUME TypeOK, NEW d \in Conns, NEW c \in Conns, c # d, OwnStep(d)
    PROVE  Untouched(c)
<1> USE DEF TypeOK, Untouched
<1>1. CASE Open(d)
  BY <1>1 DEF Open
<1>2. CASE MarkOpen(d)
  BY <1>2 DEF MarkOpen
<1>3. CASE Decide(d)
  BY <1>3 DEF Decide
<1>4. CASE Answers(d)
  BY <1>4 DEF Answers, SendLine
<1>5. CASE Admits(d)
  BY <1>5 DEF Admits
<1>6. CASE Complete(d)
  BY <1>6 DEF Complete
<1>7. CASE TimeOut(d) \/ EndOfInput(d) \/ MarkClose(d)
  BY <1>7 DEF TimeOut, EndOfInput, MarkClose
<1>8. CASE (\E tool \in Tools : Call(d, tool)) \/ ReadReply(d) \/ CloseLocked(d)
  BY ZenonT(30), <1>8 DEF Call, ReadReply, CloseLocked
<1> QED
  BY <1>1, <1>2, <1>3, <1>4, <1>5, <1>6, <1>7, <1>8 DEF OwnStep

LEMMA UntouchedWire ==
    ASSUME TypeOK, NEW c \in Conns, WireOf(c), Untouched(c)
    PROVE  WireOf(c)'
<1>1. nextRequest \in Nat /\ last[c] \in Nat
  BY DEF TypeOK
<1>2. Sent(c)' = Sent(c) /\ (Deciding(c)' <=> Deciding(c))
  BY DEF Untouched, Sent, Deciding
<1>3. RequestFits(c)'
  BY DEF Untouched, WireOf, RequestFits
<1>4. AgentFits(c)'
  BY <1>1, <1>2 DEF Untouched, WireOf, AgentFits
<1>5. \A i \in Sent(c) : MessageFits(c, outbox[c][i]) => MessageFits(c, outbox[c][i])'
  <2> SUFFICES ASSUME NEW i \in Sent(c), MessageFits(c, outbox[c][i])
               PROVE  MessageFits(c, outbox[c][i])'
    OBVIOUS
  <2>1. outbox[c][i].request # None => outbox[c][i].request[2] \in Nat
    BY SentIs, MessageFields
  <2> QED
    BY <1>1, <2>1 DEF Untouched, MessageFits
<1>6. MessagesFit(c)'
  BY <1>2, <1>5 DEF Untouched, WireOf, MessagesFit
<1> QED
  BY <1>3, <1>4, <1>6 DEF WireOf

LEMMA OpenWire ==
    ASSUME TypeOK, NEW c \in Conns, WireOf(c), Open(c)
    PROVE  WireOf(c)'
<1>1. /\ pc[c] = "none" /\ pc'[c] = "opening" /\ client'[c] = "free" /\ outbox' = outbox
      /\ UNCHANGED <<nextRequest, inbox, last>>
  BY DEF Open, TypeOK
<1>2. outbox[c] = <<>> /\ inbox[c] = NoRequest /\ last[c] <= nextRequest
  BY <1>1 DEF WireOf, AgentFits
<1>3. Sent(c)' = {}
  BY <1>1, <1>2, SentIs DEF Sent
<1>4. RequestFits(c)' /\ ~Deciding(c)'
  BY <1>1 DEF RequestFits, Deciding, Active
<1>5. AgentFits(c)'
  BY <1>1, <1>2, <1>3, <1>4 DEF AgentFits
<1> QED
  BY <1>3, <1>4, <1>5 DEF WireOf, MessagesFit

LEMMA MarkOpenWire ==
    ASSUME TypeOK, RequestsOwn, NEW c \in Conns, WireOf(c), MarkOpen(c)
    PROVE  WireOf(c)'
<1>1. /\ pc[c] = "opening" /\ UNCHANGED <<nextRequest, cur, inbox, client, calls, last>>
      /\ pc'[c] \in {"reading", "gone"}
  BY DEF MarkOpen, TypeOK
<1>2. outbox[c] = <<>> /\ last[c] <= nextRequest /\ cur[c] = NoRequest
  BY <1>1 DEF WireOf, AgentFits, RequestsOwn, Active
<1>3. RequestFits(c)' /\ ~Deciding(c)' /\ ~Deciding(c)
  BY <1>1 DEF RequestFits, Deciding, Active
<1>4. CASE outbox' = outbox
  <2>1. Sent(c)' = {}
    BY <1>2, <1>4, SentIs DEF Sent
  <2>2. AgentFits(c)'
    BY <1>1, <1>2, <1>3, <1>4, <2>1 DEF WireOf, AgentFits
  <2> QED
    BY <1>3, <2>1, <2>2 DEF WireOf, MessagesFit
<1>5. CASE outbox' # outbox
  <2> DEFINE m == [Deny(c, "unrecorded") EXCEPT !.request = None]
  <2>1. pc'[c] = "gone" /\ outbox' = [outbox EXCEPT ![c] = Append(outbox[c], m)]
    BY <1>5 DEF MarkOpen, TypeOK
  <2>2. /\ m \in Messages /\ m.request = None /\ m.reason = "unrecorded" /\ m.answers = 0
        /\ m.decision = "DENY"
    <3>1. /\ Deny(c, "unrecorded") \in Messages /\ Deny(c, "unrecorded").answers = cur[c].tag
          /\ Deny(c, "unrecorded").reason = "unrecorded"
          /\ Deny(c, "unrecorded").decision = "DENY"
      BY DenyIs DEF Reasons
    <3>2. cur[c].tag = 0
      BY <1>2, NoRequestIs
    <3> QED
      BY <3>1, <3>2 DEF Messages
  <2> HIDE DEF m
  <2>3. outbox'[c] = Append(outbox[c], m)
    BY <2>1 DEF TypeOK
  <2>4. Len(outbox[c]) = 0 /\ Sent(c) = {}
    BY <1>2, SentIs
  <2>5. Sent(c)' = {1} /\ outbox'[c][1] = m /\ Len(outbox'[c]) = 1
    BY <2>2, <2>3, <2>4, AppendSent
  <2>6. Unasked(m)
    BY <2>2 DEF Unasked
  <2>7. \A i \in Sent(c)' : Unasked(outbox'[c][i])
    BY <2>5, <2>6
  <2>8. AgentFits(c)'
    <3>1. client'[c] = "free" => inbox'[c] = NoRequest \/ pc'[c] \in {"closing", "gone"}
      BY <2>1, <1>1 DEF TypeOK
    <3>2. pc'[c] = "gone"
      BY <2>1 DEF TypeOK
    <3> QED
      BY <1>1, <1>2, <1>3, <2>7, <3>1, <3>2 DEF WireOf, AgentFits, Unasked
  <2>9. MessagesFit(c)'
    <3>1. pc'[c] = "gone"
      BY <2>1 DEF TypeOK
    <3>2. MessageFits(c, outbox[c][1])'
      BY <2>2, <2>5, <3>1 DEF MessageFits
    <3> QED
      BY <2>5, <3>2 DEF MessagesFit
  <2> QED
    BY <1>3, <2>8, <2>9 DEF WireOf
<1> QED
  BY <1>4, <1>5

\* A thread that reads has nothing unasked on its way.
LEMMA ReadingSent ==
    ASSUME TypeOK, NEW c \in Conns, WireOf(c), pc[c] \notin {"closing", "gone"}
    PROVE  \A i \in Sent(c) : ~Unasked(outbox[c][i])
  BY DEF WireOf, MessagesFit, MessageFits

\* A thread that takes up a request: what is on its way has smaller ids.
LEMMA TakesMessages ==
    ASSUME TypeOK, NEW c \in Conns, WireOf(c), pc[c] = "reading", outbox'[c] = outbox[c],
           last'[c] = last[c], nextRequest' = nextRequest + 1,
           cur'[c].request = <<c, nextRequest + 1>>
    PROVE  MessagesFit(c)'
<1>1. Sent(c)' = Sent(c) /\ nextRequest \in Nat
  BY DEF Sent, TypeOK
<1>2. ASSUME NEW i \in Sent(c)
      PROVE  MessageFits(c, outbox[c][i])' /\ ~Unasked(outbox[c][i])
  <2> DEFINE m == outbox[c][i]
  <2>1. m.request # None => m.request[2] \in Nat
    BY SentIs, MessageFields
  <2>2. MessageFits(c, m) /\ ~Unasked(m)
    BY ReadingSent DEF WireOf, MessagesFit
  <2>3. cur'[c].request[2] = nextRequest + 1
    OBVIOUS
  <2> QED
    BY <1>1, <2>1, <2>2, <2>3 DEF MessageFits, Unasked
<1> QED
  BY <1>1, <1>2 DEF WireOf, MessagesFit

LEMMA DecideWire ==
    ASSUME TypeOK, NEW c \in Conns, WireOf(c), Decide(c)
    PROVE  WireOf(c)'
<1>1. /\ pc[c] = "reading" /\ inbox[c] # NoRequest /\ inbox'[c] = NoRequest
      /\ nextRequest' = nextRequest + 1 /\ UNCHANGED <<outbox, client, calls, last>>
  BY DEF Decide, TypeOK
<1>2. PICK denial \in {"unread", "denied", None} :
         /\ cur' = [cur EXCEPT ![c] =
                [inbox[c] EXCEPT
                     !.request = <<c, nextRequest + 1>>,
                     !.tool = IF denial = "unread" THEN None ELSE inbox[c].asked,
                     !.reason = denial]]
         /\ pc' = [pc EXCEPT ![c] = IF denial = None THEN "admitted" ELSE "denying"]
  BY DEF Decide
<1>3. pc'[c] \in {"admitted", "denying"}
  BY <1>2 DEF TypeOK
<1>4. /\ cur'[c].request = <<c, nextRequest + 1>> /\ cur'[c].reason = denial
      /\ cur'[c].tag = inbox[c].tag /\ cur'[c].asked = inbox[c].asked
      /\ denial # "unread" => cur'[c].tool = inbox[c].asked
  <2> DEFINE t == IF denial = "unread" THEN None ELSE inbox[c].asked
             q == [inbox[c] EXCEPT !.request = <<c, nextRequest + 1>>, !.tool = t, !.reason = denial]
  <2>1. cur'[c] = q
    BY <1>2 DEF TypeOK
  <2>2. denial # "unread" => t = inbox[c].asked
    OBVIOUS
  <2>3. inbox[c] \in Requests
    BY DEF TypeOK
  <2> HIDE DEF t
  <2>4. /\ q.request = <<c, nextRequest + 1>> /\ q.reason = denial /\ q.tag = inbox[c].tag
        /\ q.asked = inbox[c].asked /\ q.tool = t
    BY <2>3 DEF Requests
  <2> HIDE DEF q
  <2> QED
    BY <2>1, <2>2, <2>4
<1>5. nextRequest \in Nat /\ last[c] \in Nat /\ last[c] <= nextRequest
  BY DEF TypeOK, WireOf, AgentFits
<1>6. denial \notin {"timeout", "append_failed", "unrecorded"}
  BY <1>2 DEF Reasons
<1>7. RequestFits(c)'
  <2>1. denial # None => pc'[c] = "denying"
    BY <1>2 DEF TypeOK
  <2>2. denial = "unread" => denial # None
    BY DEF Reasons
  <2> QED
    BY <1>1, <1>4, <1>5, <1>6, <2>1, <2>2 DEF RequestFits
<1>8. MessagesFit(c)'
  BY <1>1, <1>4, TakesMessages
<1>9. AgentFits(c)'
  <2>1. client[c] # "free"
    BY <1>1 DEF WireOf, AgentFits
  <2>2. client[c] \in Tools => /\ calls[c] > 0 /\ inbox[c].tag = calls[c]
                               /\ inbox[c].asked = client[c] /\ Sent(c) = {}
    BY <1>1, ReadingSent DEF WireOf, AgentFits
  <2>3. client[c] \in Tools => outbox[c] = <<>> /\ Sent(c)' = {}
    BY <1>1, <2>2, SentIs DEF Sent
  <2>4. client[c] # "none"
    BY <1>1 DEF WireOf, AgentFits
  <2> QED
    BY <1>1, <1>3, <1>4, <1>5, <2>1, <2>2, <2>3, <2>4 DEF AgentFits
<1> QED
  BY <1>7, <1>8, <1>9 DEF WireOf

LEMMA TimeOutWire ==
    ASSUME TypeOK, NEW c \in Conns, WireOf(c), TimeOut(c)
    PROVE  WireOf(c)'
<1>1. /\ pc[c] = "reading" /\ pc'[c] = "denying" /\ nextRequest' = nextRequest + 1
      /\ UNCHANGED <<inbox, outbox, client, calls, last>>
  BY DEF TimeOut, TypeOK
<1>2. /\ cur'[c].request = <<c, nextRequest + 1>> /\ cur'[c].reason = "timeout"
      /\ cur'[c].tag = 0
  BY DEF TimeOut, TypeOK, NoRequest
<1>3. nextRequest \in Nat /\ last[c] \in Nat /\ last[c] <= nextRequest
  BY DEF TypeOK, WireOf, AgentFits
<1>4. RequestFits(c)'
  BY <1>1, <1>2, <1>3 DEF RequestFits
<1>5. MessagesFit(c)'
  BY <1>1, <1>2, TakesMessages
<1>6. ~Deciding(c)' /\ ~Deciding(c) /\ Sent(c)' = Sent(c)
  BY <1>1, <1>2 DEF Deciding, Active, Sent
<1>7. AgentFits(c)'
  BY <1>1, <1>3, <1>6 DEF WireOf, AgentFits
<1> QED
  BY <1>4, <1>5, <1>7 DEF WireOf

\* A thread that goes on with its request, or stops reading.
LEMMA GoesOnWire ==
    ASSUME TypeOK, NEW c \in Conns, WireOf(c),
           UNCHANGED <<nextRequest, inbox, outbox, client, calls, last>>,
           cur'[c].request = cur[c].request, cur'[c].tag = cur[c].tag,
           cur'[c].asked = cur[c].asked,
           \/ pc[c] \in Active /\ pc'[c] \in Active /\ RequestFits(c)' /\ Deciding(c)
           \/ pc[c] \in {"reading", "closing"} /\ pc'[c] \in {"closing", "gone"}
    PROVE  WireOf(c)'
<1>1. Sent(c)' = Sent(c)
  BY DEF Sent
<1>2. RequestFits(c)' /\ (Deciding(c)' => Deciding(c))
  BY DEF RequestFits, Deciding, Active
<1>3. AgentFits(c)'
  BY <1>1, <1>2 DEF WireOf, AgentFits, Active
<1>4. \A i \in Sent(c) : MessageFits(c, outbox[c][i]) => MessageFits(c, outbox[c][i])'
  BY DEF MessageFits, Active
<1>5. MessagesFit(c)'
  BY <1>1, <1>4 DEF WireOf, MessagesFit
<1> QED
  BY <1>2, <1>3, <1>5 DEF WireOf

LEMMA AdmitsWire ==
    ASSUME TypeOK, NEW c \in Conns, WireOf(c), Admits(c)
    PROVE  WireOf(c)'
<1>1. /\ UNCHANGED <<cur, nextRequest, inbox, outbox, client, calls, last>>
      /\ pc[c] = "admitted" /\ pc'[c] = "recorded"
  BY DEF Admits, TypeOK
<1>2. RequestFits(c)' /\ Deciding(c)
  BY <1>1 DEF WireOf, RequestFits, Deciding, Active
<1> QED
  BY <1>1, <1>2, GoesOnWire DEF Active

LEMMA CompleteWire ==
    ASSUME TypeOK, NEW c \in Conns, WireOf(c), Complete(c)
    PROVE  WireOf(c)'
<1>1. /\ UNCHANGED <<nextRequest, inbox, outbox, client, calls, last>>
      /\ pc[c] = "recorded" /\ pc'[c] \in {"failing", "returned"}
  BY DEF Complete, TypeOK
<1>2. /\ cur'[c].request = cur[c].request /\ cur'[c].tag = cur[c].tag
      /\ cur'[c].asked = cur[c].asked /\ cur'[c].tool = cur[c].tool
      /\ cur'[c].reason \in {cur[c].reason, "halted_late", "tool_failed"}
  <2>1. \/ \E reason \in {"halted_late", "tool_failed"} : cur' = [cur EXCEPT ![c].reason = reason]
        \/ \E result : cur' = [cur EXCEPT ![c].result = result]
    BY DEF Complete
  <2>2. cur[c] \in Requests /\ cur \in [Conns -> Requests]
    BY DEF TypeOK
  <2>3. CASE \E reason \in {"halted_late", "tool_failed"} : cur' = [cur EXCEPT ![c].reason = reason]
    BY <2>2, <2>3 DEF Requests
  <2>4. CASE \E result : cur' = [cur EXCEPT ![c].result = result]
    BY <2>2, <2>4 DEF Requests
  <2> QED
    BY <2>1, <2>3, <2>4
<1>3. Deciding(c) /\ cur[c].tool = cur[c].asked
      /\ cur[c].reason \notin {"unread", "timeout", "append_failed", "unrecorded"}
      /\ last[c] < cur[c].request[2]
  BY <1>1 DEF WireOf, RequestFits, Deciding, Active
<1>4. RequestFits(c)'
  BY <1>1, <1>2, <1>3 DEF RequestFits
<1> QED
  BY <1>1, <1>2, <1>3, <1>4, GoesOnWire DEF Active

LEMMA EndsWire ==
    ASSUME TypeOK, NEW c \in Conns, WireOf(c), EndOfInput(c) \/ MarkClose(c)
    PROVE  WireOf(c)'
<1>1. /\ UNCHANGED <<cur, nextRequest, inbox, outbox, client, calls, last>>
      /\ pc[c] \in {"reading", "closing"} /\ pc'[c] \in {"closing", "gone"}
  BY DEF EndOfInput, MarkClose, TypeOK
<1> QED
  BY <1>1, GoesOnWire

\* The reply of a thread that decided: asked for by the call that waits, or
\* the last of the connection.
LEMMA AnswersWire ==
    ASSUME TypeOK, RequestsOwn, NEW c \in Conns, WireOf(c), Answers(c)
    PROVE  WireOf(c)'
<1>1. PICK m \in Messages :
         /\ m.request = cur[c].request /\ m.answers = cur[c].tag
         /\ m.reason \in {cur[c].reason, "append_failed", None}
         /\ cur[c].reason = "timeout" =>
                m.decision = "DENY" /\ m.reason \in {"timeout", "append_failed"}
         /\ SendLine(c, m, AfterReply(c))
  BY DEF Answers
<1>2. pc[c] \in Active /\ UNCHANGED <<nextRequest, inbox, client, calls, last>>
  BY DEF Answers
<1>3. /\ cur[c].request \in Nat \X Nat /\ cur[c].request[2] \in Nat
      /\ cur[c].request[1] = c /\ cur[c].request[2] <= nextRequest /\ last[c] < cur[c].request[2]
      /\ m.request # None
  <2>1. /\ cur[c].request \in Nat \X Nat /\ cur[c].request[2] \in Nat
        /\ cur[c].request[1] = c /\ cur[c].request[2] <= nextRequest /\ last[c] < cur[c].request[2]
    BY <1>2, RequestFields DEF TypeOK, RequestsOwn, WireOf, RequestFits
  <2> QED
    BY <1>1, <2>1, RequestIsNot
<1>4. m.reason # "unrecorded"
  BY <1>1, <1>2 DEF WireOf, RequestFits, Reasons
<1>5. pc'[c] \in {"reading", "closing"} /\ (cur[c].reason = "timeout" => pc'[c] = "closing")
  BY <1>1 DEF SendLine, AfterReply, TypeOK
<1>6. RequestFits(c)' /\ ~Deciding(c)'
  BY <1>5 DEF RequestFits, Deciding, Active
<1>7. \A i \in Sent(c) : /\ MessageFits(c, outbox[c][i]) /\ ~Unasked(outbox[c][i])
                         /\ outbox[c][i].request # None
                         /\ outbox[c][i].request[2] < m.request[2]
  BY <1>1, <1>2, ReadingSent DEF WireOf, MessagesFit, MessageFits, Active
<1>8. CASE client[c] = "closed"
  <2>1. outbox' = outbox /\ Sent(c)' = Sent(c)
    BY <1>1, <1>8 DEF SendLine, Sent
  <2>2. AgentFits(c)'
    BY <1>2, <1>5, <1>8 DEF WireOf, AgentFits
  <2>3. \A i \in Sent(c) : MessageFits(c, outbox[c][i])'
    BY <1>2, <1>5, <1>7, <2>1 DEF MessageFits, Active, Unasked
  <2>4. MessagesFit(c)'
    BY <1>7, <2>1, <2>3 DEF WireOf, MessagesFit, Unasked
  <2> QED
    BY <1>6, <2>2, <2>4 DEF WireOf
<1>9. CASE client[c] # "closed"
  <2> DEFINE n == Len(outbox[c]) + 1
  <2>1. outbox'[c] = Append(outbox[c], m)
    BY <1>1, <1>9 DEF SendLine, TypeOK
  <2>2. /\ Len(outbox'[c]) = n /\ Sent(c)' = Sent(c) \cup {n} /\ n \notin Sent(c)
        /\ \A i \in Sent(c) : outbox'[c][i] = outbox[c][i] /\ i < n
        /\ outbox'[c][n] = m /\ n \in Nat
    BY <2>1, AppendSent, SentIs
  <2> HIDE DEF n
  <2>3. cur[c].reason = "timeout" => Unasked(m)
    BY <1>1, <1>2 DEF Unasked, WireOf, RequestFits
  <2>4. cur[c].reason # "timeout" =>
            /\ client[c] \in Tools /\ calls[c] > 0 /\ m.answers = calls[c] /\ outbox[c] = <<>>
    BY <1>1, <1>2, <1>9 DEF WireOf, AgentFits, Deciding, TypeOK, Active
  <2>5. Unasked(m) => pc'[c] = "closing"
    <3>1. calls[c] \in Nat
      BY DEF TypeOK
    <3> QED
      BY <1>5, <2>4, <3>1 DEF Unasked
  <2>6. ASSUME NEW i \in Sent(c)'
        PROVE  MessageFits(c, outbox[c][i])' /\ (Unasked(outbox[c][i])' => i = n)
    <3>1. CASE i = n
      <4>1. outbox'[c][i] = m
        BY <2>2, <3>1
      <4> QED
        BY <1>1, <1>2, <1>3, <1>4, <1>5, <2>5, <3>1, <4>1 DEF MessageFits, Active, Unasked
    <3>2. CASE i \in Sent(c)
      <4>1. outbox'[c][i] = outbox[c][i]
        BY <2>2, <3>2
      <4>2. /\ MessageFits(c, outbox[c][i]) /\ ~Unasked(outbox[c][i])
            /\ outbox[c][i].request # None
        BY <1>7, <3>2
      <4> QED
        BY <1>2, <1>5, <4>1, <4>2 DEF MessageFits, Active, Unasked
    <3> QED
      BY <2>2, <3>1, <3>2
  <2>7. ASSUME NEW i \in Sent(c)', NEW j \in Sent(c)', i < j
        PROVE  /\ outbox'[c][i].request # None /\ outbox'[c][j].request # None
               /\ outbox'[c][i].request[2] < outbox'[c][j].request[2]
    <3>1. i \in Sent(c)
      BY <2>2, <2>7, SentIs
    <3>2. CASE j \in Sent(c)
      BY <2>2, <2>7, <3>1, <3>2 DEF WireOf, MessagesFit
    <3>3. CASE j = n
      BY <1>3, <1>7, <2>2, <3>1, <3>3
    <3> QED
      BY <2>2, <3>2, <3>3
  <2>8. MessagesFit(c)'
    BY <2>2, <2>6, <2>7 DEF MessagesFit
  <2>9. ASSUME client[c] = "free" \/ (client[c] \in Tools /\ inbox[c] # NoRequest)
        PROVE  Sent(c) = {} /\ cur[c].reason = "timeout"
    BY <1>2, <1>7, <2>9 DEF WireOf, AgentFits, Deciding
  <2>10. ASSUME NEW i \in Sent(c)', client[c] = "free" \/ (client[c] \in Tools /\ inbox[c] # NoRequest)
         PROVE  Unasked(outbox'[c][i])
    BY <2>2, <2>3, <2>9, <2>10
  <2>11. ASSUME NEW i \in Sent(c)', client[c] \in Tools
         PROVE  Unasked(outbox'[c][i]) \/ (i = 1 /\ outbox'[c][i].answers = calls[c])
    <3>1. CASE i \in Sent(c)
      BY <2>2, <2>11, <3>1 DEF WireOf, AgentFits
    <3>2. CASE i = n
      <4>1. outbox[c] = <<>> => n = 1
        BY SentIs DEF n
      <4> QED
        BY <2>2, <2>3, <2>4, <3>2, <4>1
    <3> QED
      BY <2>2, <3>1, <3>2
  <2>12. AgentFits(c)'
    <3>1. client[c] = "free" => inbox[c] = NoRequest
      BY <1>2 DEF WireOf, AgentFits, Active
    <3>2. client[c] # "none" /\ last[c] <= nextRequest
      BY <1>2 DEF WireOf, AgentFits, Active
    <3>3. client[c] \in Tools =>
              /\ calls[c] > 0
              /\ inbox[c] # NoRequest => inbox[c].tag = calls[c] /\ inbox[c].asked = client[c]
      BY DEF WireOf, AgentFits
    <3> QED
      BY <1>2, <1>5, <1>6, <2>10, <2>11, <3>1, <3>2, <3>3 DEF AgentFits, Unasked
  <2> QED
    BY <1>6, <2>8, <2>12 DEF WireOf
<1> QED
  BY <1>8, <1>9

LEMMA CallWire ==
    ASSUME TypeOK, NEW c \in Conns, WireOf(c), NEW tool \in Tools, Call(c, tool)
    PROVE  WireOf(c)'
<1>1. /\ client[c] = "free" /\ pc[c] \notin {"gone", "none"} /\ client'[c] = tool
      /\ calls'[c] = calls[c] + 1 /\ calls[c] \in Nat
      /\ UNCHANGED <<nextRequest, pc, cur, outbox, last>>
  BY DEF Call, HostClosed, TypeOK
<1>2. inbox'[c].tag = calls[c] + 1 /\ inbox'[c].asked = tool
  BY DEF Call, TypeOK, NoRequest
<1>3. Sent(c)' = Sent(c) /\ ~Deciding(c)' /\ \A i \in Sent(c) : Unasked(outbox[c][i])
  BY <1>1 DEF WireOf, AgentFits, Sent, Deciding
<1>4. AgentFits(c)'
  BY <1>1, <1>2, <1>3 DEF WireOf, AgentFits, Unasked
<1>5. RequestFits(c)' /\ MessagesFit(c)'
  BY <1>1, <1>3 DEF WireOf, RequestFits, MessagesFit, MessageFits, Unasked
<1> QED
  BY <1>4, <1>5 DEF WireOf

LEMMA CloseLockedWire ==
    ASSUME TypeOK, NEW c \in Conns, WireOf(c), CloseLocked(c)
    PROVE  WireOf(c)'
<1>1. /\ client[c] \in Tools \cup {"free"} /\ client'[c] = "closed" /\ outbox'[c] = <<>>
      /\ UNCHANGED <<nextRequest, pc, cur, inbox, calls, last>>
  BY DEF CloseLocked, TypeOK
<1>2. Sent(c)' = {}
  BY <1>1 DEF Sent
<1>3. AgentFits(c)'
  BY <1>1, <1>2 DEF WireOf, AgentFits
<1>4. RequestFits(c)' /\ MessagesFit(c)'
  BY <1>1, <1>2 DEF WireOf, RequestFits, MessagesFit
<1> QED
  BY <1>3, <1>4 DEF WireOf

\* What the next reply is, for the call that waits.
LEMMA HeadFits ==
    ASSUME TypeOK, NEW c \in Conns, WireOf(c), client[c] \in Tools, outbox[c] # <<>>
    PROVE  LET m == Head(outbox[c])
           IN /\ m = outbox[c][1] /\ 1 \in Sent(c) /\ m \in Messages
              /\ IdFits(c, m) \/ m.reason = "unrecorded"
              /\ Unasked(m) \/ m.answers = calls[c]
              /\ IdFits(c, m) => m.reason # "unrecorded"
<1> DEFINE m == Head(outbox[c])
<1>1. 1 \in Sent(c) /\ m = outbox[c][1] /\ m \in Messages
  <2>1. outbox[c] \in Seq(Messages)
    BY DEF TypeOK
  <2> QED
    BY <2>1, SentIs, HeadTailProperties
<1> HIDE DEF m
<1>2. MessageFits(c, m) /\ (Unasked(m) \/ m.answers = calls[c])
  BY <1>1 DEF WireOf, AgentFits, MessagesFit
<1>3. IdFits(c, m) \/ m.reason = "unrecorded"
  BY <1>2 DEF MessageFits, IdFits
<1>4. IdFits(c, m) => m.reason # "unrecorded"
  BY <1>2 DEF MessageFits, IdFits
<1> QED
  BY <1>1, <1>2, <1>3, <1>4 DEF m

LEMMA ReadReplyWire ==
    ASSUME TypeOK, NEW c \in Conns, WireOf(c), ReadReply(c)
    PROVE  WireOf(c)'
<1> DEFINE m == Head(outbox[c])
<1>1. /\ UNCHANGED <<nextRequest, pc, cur, inbox, calls>>
      /\ client[c] \in Tools /\ outbox[c] # <<>> /\ outbox'[c] = Tail(outbox[c])
      /\ \/ IdFits(c, m) /\ client'[c] = "free" /\ last'[c] = m.request[2]
         \/ client'[c] = "closed" /\ last'[c] = last[c]
  BY DEF ReadReply, TypeOK
<1>2. /\ Len(outbox'[c]) = Len(outbox[c]) - 1
      /\ \A i \in Sent(c)' : i \in Nat /\ i + 1 \in Sent(c) /\ i + 1 > 1
                             /\ outbox'[c][i] = outbox[c][i + 1]
      /\ 1 \in Sent(c) /\ m = outbox[c][1] /\ m \in Messages
  BY <1>1, TailSent
<1> HIDE DEF m
<1>3. IdFits(c, m) => /\ m.request[2] \in Nat /\ last[c] < m.request[2]
                      /\ m.request[2] <= nextRequest
                      /\ pc[c] \in Active => m.request[2] < cur[c].request[2]
  BY <1>2, MessageFields DEF WireOf, MessagesFit, MessageFits, IdFits
<1>4. last[c] <= last'[c] /\ last[c] \in Nat /\ last'[c] \in Nat /\ nextRequest \in Nat
      /\ last'[c] <= nextRequest
  BY <1>1, <1>3 DEF TypeOK, WireOf, AgentFits
<1>5. RequestFits(c)'
  BY <1>1, <1>3 DEF WireOf, RequestFits
<1>6. ASSUME NEW i \in Sent(c)'
      PROVE  /\ i \in Nat /\ i + 1 \in Sent(c) /\ outbox'[c][i] = outbox[c][i + 1] /\ 1 < i + 1
             /\ m.request # None /\ outbox[c][i + 1].request # None
             /\ m.request[2] < outbox[c][i + 1].request[2]
             /\ MessageFits(c, outbox[c][i + 1])
             /\ Unasked(outbox[c][i + 1]) => i = Len(outbox'[c])
  <2>1. Len(outbox[c]) \in Nat
    BY SentIs
  <2>2. /\ i \in Nat /\ i + 1 \in Sent(c) /\ outbox'[c][i] = outbox[c][i + 1] /\ 1 < i + 1
    BY <1>2
  <2>3. /\ outbox[c][1].request # None /\ outbox[c][i + 1].request # None
        /\ outbox[c][1].request[2] < outbox[c][i + 1].request[2]
    BY <1>2, <2>2 DEF WireOf, MessagesFit
  <2>4. /\ MessageFits(c, outbox[c][i + 1])
        /\ Unasked(outbox[c][i + 1]) => i + 1 = Len(outbox[c])
    BY <2>2 DEF WireOf, MessagesFit
  <2> QED
    BY <1>2, <2>1, <2>2, <2>3, <2>4
<1>7. ASSUME NEW i \in Sent(c)'
      PROVE  MessageFits(c, outbox[c][i])'
  <2>1. last'[c] < outbox'[c][i].request[2]
    <3>1. CASE last'[c] = last[c]
      BY <1>6, <3>1 DEF MessageFits
    <3>2. CASE last'[c] = m.request[2]
      BY <1>6, <3>2
    <3> QED
      BY <1>1, <3>1, <3>2
  <2>2. MessageFits(c, outbox'[c][i])
    BY <1>6
  <2> QED
    BY <1>1, <2>1, <2>2 DEF MessageFits, Unasked
<1>8. ASSUME NEW i \in Sent(c)', NEW j \in Sent(c)', i < j
      PROVE  /\ outbox'[c][i].request # None /\ outbox'[c][j].request # None
             /\ outbox'[c][i].request[2] < outbox'[c][j].request[2]
  <2>1. i + 1 \in Sent(c) /\ j + 1 \in Sent(c) /\ i + 1 < j + 1
    BY <1>6, <1>8
  <2> QED
    BY <1>6, <2>1 DEF WireOf, MessagesFit
<1>9. MessagesFit(c)'
  BY <1>6, <1>7, <1>8 DEF MessagesFit, Unasked
<1>10. ASSUME NEW i \in Sent(c)'
       PROVE  Unasked(outbox'[c][i])
  BY <1>1, <1>6 DEF WireOf, AgentFits
<1>11. inbox[c] # NoRequest => pc[c] \in {"closing", "gone"}
  BY <1>1, <1>2 DEF WireOf, AgentFits, MessagesFit, MessageFits
<1>12. ~Deciding(c) /\ ~Deciding(c)'
  BY <1>1 DEF WireOf, AgentFits, Deciding
<1>13. pc[c] \notin {"none", "opening"}
  BY <1>1 DEF WireOf, AgentFits
<1>14. AgentFits(c)'
  BY <1>1, <1>4, <1>10, <1>11, <1>12, <1>13 DEF AgentFits, Unasked
<1> QED
  BY <1>5, <1>9, <1>14 DEF WireOf

LEMMA RestartWire ==
    ASSUME NEW c \in Conns, Restart
    PROVE  WireOf(c)'
<1>1. /\ nextRequest' = 0 /\ pc'[c] = "none" /\ inbox'[c] = NoRequest /\ outbox'[c] = <<>>
      /\ client'[c] = "none" /\ last'[c] = 0
  BY DEF Restart
<1>2. Sent(c)' = {}
  BY <1>1 DEF Sent
<1> QED
  BY <1>1, <1>2 DEF WireOf, RequestFits, AgentFits, MessagesFit, Active

\* A step is of one connection, or none.
LEMMA StepIs ==
    ASSUME TypeOK, \A c \in Conns : WireOf(c), [Next]_vars
    PROVE  \/ Restart
           \/ UNCHANGED <<life, nextRequest, pc, cur, inbox, outbox, client, calls, last, told>>
              /\ UNCHANGED logVars
           \/ \E d \in Conns : OwnStep(d)
<1>1. ASSUME NEW d \in Conns,
             \/ Open(d) \/ MarkOpen(d) \/ Decide(d) \/ Logged(d) \/ PreEntry(d) \/ Complete(d)
             \/ Record(d) \/ Allow(d) \/ TimeOut(d) \/ EndOfInput(d) \/ MarkClose(d)
             \/ (\E tool \in Tools : Call(d, tool)) \/ ReadReply(d) \/ CloseLocked(d)
      PROVE  OwnStep(d)
  <2>1. RequestFits(d)
    BY DEF WireOf
  <2> QED
    BY <1>1, <2>1, LoggedAnswers, RecordAnswers, AllowAnswers, PreEntryAnswers DEF OwnStep
<1>2. CASE Halt
  BY <1>2 DEF Halt
<1>3. CASE UNCHANGED vars
  BY <1>3
<1>4. CASE Next
  BY <1>1, <1>2, <1>4 DEF Next
<1> QED
  BY <1>3, <1>4

LEMMA OwnStepWire ==
    ASSUME TypeOK, RequestsOwn, NEW d \in Conns, WireOf(d), OwnStep(d)
    PROVE  WireOf(d)'
<1>1. ASSUME NEW tool \in Tools, Call(d, tool) PROVE WireOf(d)'
  BY <1>1, CallWire
<1> QED
  BY <1>1, OpenWire, MarkOpenWire, DecideWire, AnswersWire, AdmitsWire, CompleteWire, TimeOutWire,
     EndsWire, ReadReplyWire, CloseLockedWire DEF OwnStep

LEMMA WireStep ==
    ASSUME TypeOK, RequestsOwn, [Next]_vars, \A c \in Conns : WireOf(c)
    PROVE  \A c \in Conns : WireOf(c)'
<1> SUFFICES ASSUME NEW c \in Conns PROVE WireOf(c)'
  OBVIOUS
<1>1. CASE Restart
  BY <1>1, RestartWire
<1>2. CASE UNCHANGED <<life, nextRequest, pc, cur, inbox, outbox, client, calls, last, told>>
  <2>1. Untouched(c)
    BY <1>2 DEF Untouched
  <2> QED
    BY <2>1, UntouchedWire
<1>3. ASSUME NEW d \in Conns, OwnStep(d) PROVE WireOf(c)'
  <2>1. CASE d = c
    BY <1>3, <2>1, OwnStepWire
  <2>2. CASE d # c
    BY <1>3, <2>2, OthersUntouched, UntouchedWire
  <2> QED
    BY <2>1, <2>2
<1> QED
  BY <1>1, <1>2, <1>3, StepIs

-----------------------------------------------------------------------------
(***************************************************************************)
(* Every reply on its way, and every one that was read, agrees with the    *)
(* final lines of its request.                                             *)
(***************************************************************************)
LEMMA LinesAfter ==
    ASSUME TypeOK, [Next]_vars, ~Restart
    PROVE  /\ life' = life
           /\ \A k \in Out' : \/ k \in Out /\ Written'[k] = Written[k]
                              \/ \E e \in Conns : Entry(e, Written'[k])
<1>1. CASE Rests
  BY <1>1, QuietIs DEF Rests
<1>2. ASSUME NEW e \in Conns, Works(e)
      PROVE  /\ life' = life
             /\ \A k \in Out' : (k \in Out /\ Written'[k] = Written[k]) \/ Entry(e, Written'[k])
  <2>1. life' = life
    BY <1>2 DEF Works
  <2>2. CASE Quiet
    BY <2>1, <2>2, QuietIs
  <2>3. ASSUME NEW line \in Lines, Appended(line), Entry(e, line)
        PROVE  \A k \in Out' : (k \in Out /\ Written'[k] = Written[k]) \/ Entry(e, Written'[k])
    <3> SUFFICES ASSUME NEW k \in Out'
                 PROVE  (k \in Out /\ Written'[k] = Written[k]) \/ Entry(e, Written'[k])
      OBVIOUS
    <3>1. CASE k \in Out
      BY <2>3, <3>1, AppendedIs
    <3>2. CASE k = Len(Written) + 1
      <4>1. Written'[k] = line
        BY <2>3, <3>2, AppendedIs
      <4> QED
        BY <2>3, <4>1
    <3> QED
      BY <2>3, <3>1, <3>2, AppendedIs
  <2> QED
    BY <1>2, <2>1, <2>2, <2>3, WorksWrites
<1> QED
  BY <1>1, <1>2, Steps

\* A final line that is put out is of a request no message was sent for yet.
LEMMA EntryIsNew ==
    ASSUME TypeOK, RequestsOwn, NEW c \in Conns, NEW m \in Messages, MessageFits(c, m),
           NEW e \in Conns, NEW line, Entry(e, line), Final(line)
    PROVE  line.request # m.request
<1>1. pc[e] \in Active /\ line.request = cur[e].request
  BY DEF Entry, OfCall, Final
<1>2. /\ cur[e].request \in Nat \X Nat /\ cur[e].request[1] = e /\ cur[e].request[2] \in Nat
  BY <1>1, RequestFields DEF TypeOK, RequestsOwn
<1>3. CASE m.request = None
  BY <1>1, <1>2, <1>3, RequestIsNot
<1>4. CASE m.request # None
  <2>1. /\ m.request[1] = c /\ m.request[2] \in Nat
        /\ pc[c] \in Active => m.request[2] < cur[c].request[2]
    BY <1>4, MessageFields DEF MessageFits
  <2> QED
    BY <1>1, <1>2, <2>1
<1> QED
  BY <1>3, <1>4

LEMMA SentAgreesStep ==
    ASSUME TypeOK, RequestsOwn, OpenRequests, [Next]_vars, \A c \in Conns : WireOf(c), SentAgrees
    PROVE  SentAgrees'
<1>1. CASE Restart
  BY <1>1 DEF Restart, SentAgrees
<1>2. CASE ~Restart
  <2>1. life' = life
    BY <1>2, LinesAfter
  <2>2. ASSUME NEW c \in Conns, NEW tool, NEW m \in Messages, MessageFits(c, m),
               \A k \in Out : FinalOf(Written[k], life, m.request) => Agrees(Written[k], tool, m),
               NEW k \in Out', FinalOf(Written'[k], life, m.request)
        PROVE  Agrees(Written'[k], tool, m)
    <3>1. \A e \in Conns : ~Entry(e, Written'[k])
      BY <2>2, EntryIsNew DEF FinalOf
    <3> QED
      BY <1>2, <2>2, <3>1, LinesAfter
  <2> SUFFICES ASSUME NEW c \in Conns, client'[c] \in Tools, NEW i \in Sent(c)',
                      outbox'[c][i].reason \notin RecordDiffers \cup {"unrecorded"},
                      NEW k \in Out', FinalOf(Written'[k], life, outbox'[c][i].request)
               PROVE  Agrees(Written'[k], client'[c], outbox'[c][i])
    BY <2>1 DEF SentAgrees, FinalOf, Final, Agrees
  <2> DEFINE n == outbox'[c][i]
  <2>3. ASSUME client'[c] = client[c], NEW j \in Sent(c), outbox'[c][i] = outbox[c][j]
        PROVE  Agrees(Written'[k], client'[c], outbox'[c][i])
    <3> DEFINE m == outbox[c][j]
               tool == client[c]
    <3>1. m \in Messages /\ MessageFits(c, m)
      BY SentIs DEF WireOf, MessagesFit
    <3>2. \A q \in Out : FinalOf(Written[q], life, m.request) => Agrees(Written[q], tool, m)
      BY <2>3 DEF SentAgrees
    <3>3. FinalOf(Written'[k], life, m.request)
      BY <2>3
    <3> HIDE DEF m, tool
    <3>4. Agrees(Written'[k], tool, m)
      BY <2>2, <3>1, <3>2, <3>3
    <3> QED
      BY <2>3, <3>4 DEF m, tool
  <2>4. CASE outbox'[c] = outbox[c] /\ client'[c] = client[c]
    BY <2>3, <2>4 DEF Sent
  <2>5. CASE UNCHANGED <<life, nextRequest, pc, cur, inbox, outbox, client, calls, last, told>>
    BY <2>4, <2>5
  <2>6. ASSUME NEW d \in Conns, OwnStep(d), d # c
        PROVE  Agrees(Written'[k], client'[c], outbox'[c][i])
    BY <2>4, <2>6, OthersUntouched DEF Untouched
  <2>7. CASE Open(c) \/ ReadReply(c) \/ CloseLocked(c)
    <3>1. client'[c] \in {"free", "closed"}
      BY <2>7 DEF Open, ReadReply, CloseLocked, TypeOK
    <3> QED
      BY <3>1
  <2>8. CASE \E tool \in Tools : Call(c, tool)
    <3>1. client[c] = "free" /\ outbox' = outbox
      BY <2>8 DEF Call
    <3>2. Unasked(outbox'[c][i])
      BY <3>1 DEF WireOf, AgentFits, Sent
    <3> QED
      BY <3>2 DEF Unasked, RecordDiffers
  <2>9. CASE Decide(c) \/ Admits(c) \/ Complete(c) \/ TimeOut(c) \/ EndOfInput(c) \/ MarkClose(c)
    <3>1. outbox' = outbox /\ client' = client
      BY <2>9 DEF Decide, Admits, Complete, TimeOut, EndOfInput, MarkClose
    <3> QED
      BY <2>4, <3>1
  <2>10. CASE MarkOpen(c)
    <3>1. client' = client
      BY <2>10 DEF MarkOpen
    <3>2. CASE outbox' = outbox
      BY <2>4, <3>1, <3>2
    <3>3. CASE outbox' # outbox
      <4> DEFINE m == [Deny(c, "unrecorded") EXCEPT !.request = None]
      <4>1. Deny(c, "unrecorded") \in Messages /\ Deny(c, "unrecorded").reason = "unrecorded"
        BY DenyIs DEF Reasons
      <4>2. m \in Messages /\ m.reason = "unrecorded"
        BY <4>1 DEF Messages
      <4>3. outbox'[c] = Append(outbox[c], m)
        BY <2>10, <3>3 DEF MarkOpen, TypeOK
      <4> HIDE DEF m
      <4>4. i \in Sent(c) \/ outbox'[c][i] = m
        BY <4>2, <4>3, AppendSent
      <4>5. i \in Sent(c) => outbox'[c][i] = outbox[c][i]
        BY <4>2, <4>3, AppendSent
      <4> QED
        BY <2>3, <3>1, <4>2, <4>4, <4>5
    <3> QED
      BY <3>2, <3>3
  <2>11. CASE Answers(c)
    <3>1. PICK m \in Messages :
             /\ m.request = cur[c].request /\ m.answers = cur[c].tag
             /\ \/ m.reason \in {cur[c].reason, "append_failed"}
                \/ m.reason = None /\ pc[c] = "returned"
             /\ cur[c].reason = "timeout" =>
                    m.decision = "DENY" /\ m.reason \in {"timeout", "append_failed"}
             /\ SendLine(c, m, AfterReply(c))
             /\ \/ Quiet
                \/ \E line \in Lines :
                      /\ Appended(line) /\ Entry(c, line)
                      /\ (Final(line) /\ m.reason # "append_failed")
                             => Agrees(line, cur[c].tool, m)
      BY <2>11 DEF Answers
    <3>2. client' = client /\ pc[c] \in Active
      BY <2>11 DEF Answers
    <3>3. outbox'[c] = Append(outbox[c], m)
      BY <3>1, <3>2 DEF SendLine, TypeOK
    <3>4. CASE i \in Sent(c)
      BY <2>3, <3>2, <3>3, <3>4, AppendSent
    <3>5. CASE outbox'[c][i] = m
      <4>1. cur[c].reason \notin {"unread", "timeout"} /\ m.reason # "append_failed"
        BY <3>1, <3>2, <3>5 DEF RecordDiffers, WireOf, RequestFits
      <4>2. cur[c].tool = client[c]
        BY <3>2, <4>1 DEF WireOf, RequestFits, AgentFits, Deciding
      <4>3. ~(k \in Out /\ Written'[k] = Written[k])
        BY <2>1, <3>1, <3>2, <3>5 DEF OpenRequests, FinalOf
      <4>4. PICK line \in Lines :
               /\ Appended(line)
               /\ (Final(line) /\ m.reason # "append_failed") => Agrees(line, cur[c].tool, m)
        BY <3>1, <4>3, QuietIs
      <4>5. Written'[k] = line
        BY <4>3, <4>4, AppendedIs
      <4> QED
        BY <3>2, <3>5, <4>1, <4>2, <4>4, <4>5 DEF FinalOf
    <3>6. i \in Sent(c) \/ outbox'[c][i] = m
      BY <3>3, AppendSent
    <3> QED
      BY <3>4, <3>5, <3>6
  <2> QED
    BY <1>2, <2>5, <2>6, <2>7, <2>8, <2>9, <2>10, <2>11, StepIs DEF OwnStep
<1> QED
  BY <1>1, <1>2

LEMMA HeardStep ==
    ASSUME TypeOK, RequestsOwn, [Next]_vars, \A c \in Conns : WireOf(c), SentAgrees,
           \A h \in told : HeardFits(h), HeardAgrees
    PROVE  (\A h \in told : HeardFits(h))' /\ HeardAgrees'
<1>1. life \in Nat /\ \A h \in told : h \in Reports
  BY DEF TypeOK
<1>2. \A h \in told : /\ h.life \in Nat /\ h.conn \in Conns
                      /\ h.request \in Nat \X Nat /\ h.request[2] \in Nat
  BY <1>1 DEF Reports
<1>3. CASE Restart
  <2>1. life' = life + 1 /\ told' = told
    BY <1>3 DEF Restart
  <2>2. \A k \in Out' : k \in Out /\ Written'[k] = Written[k]
    BY <1>3, RestartKeeps
  <2>3. ASSUME NEW h \in told PROVE HeardFits(h)'
    <3>1. HeardFits(h) /\ h.life # life'
      BY <1>1, <1>2, <2>1 DEF HeardFits
    <3> QED
      BY <1>1, <1>2, <2>1, <3>1 DEF HeardFits
  <2> QED
    BY <2>1, <2>2, <2>3 DEF HeardAgrees
<1>4. CASE ~Restart
  <2>1. life' = life
    BY <1>4, LinesAfter
  <2>2. \A c \in Conns : last[c] \in Nat /\ last'[c] \in Nat /\ last[c] <= last'[c]
    <3> SUFFICES ASSUME NEW c \in Conns
                 PROVE  last[c] \in Nat /\ last'[c] \in Nat /\ last[c] <= last'[c]
      OBVIOUS
    <3>1. last[c] \in Nat /\ last'[c] \in Nat
      BY Steps DEF TypeOK
    <3>2. CASE ReadReply(c)
      BY <3>1, <3>2 DEF ReadReply, IdFits, TypeOK
    <3>3. ASSUME NEW d \in Conns, OwnStep(d), ~ReadReply(c) PROVE last'[c] = last[c]
      <4>1. CASE d # c
        BY <3>3, <4>1, OthersUntouched DEF Untouched
      <4>2. CASE d = c
        BY <3>3, <4>2 DEF OwnStep, Open, MarkOpen, Decide, Answers, Admits, Complete, TimeOut,
           EndOfInput, MarkClose, Call, CloseLocked
      <4> QED
        BY <4>1, <4>2
    <3> QED
      BY <1>4, <3>1, <3>2, <3>3, StepIs
  <2>3. ASSUME NEW h \in told PROVE HeardFits(h)'
    <3>1. h.request[2] <= last[h.conn] => h.request[2] <= last'[h.conn]
      BY <1>2, <2>2
    <3> QED
      BY <2>1, <3>1 DEF HeardFits
  <2>4. ASSUME NEW h \in told, h.reason \notin RecordDiffers,
               NEW k \in Out', FinalOf(Written'[k], h.life, h.request)
        PROVE  Agrees(Written'[k], h.tool, h)
    <3>1. ASSUME NEW e \in Conns, Entry(e, Written'[k]) PROVE FALSE
      <4>1. pc[e] \in Active /\ h.request = cur[e].request /\ h.life = life
        BY <2>4, <3>1 DEF Entry, OfCall, FinalOf, Final
      <4>2. h.request[1] = h.conn /\ h.request[2] <= last[h.conn]
        BY <4>1 DEF HeardFits
      <4>3. h.request[1] = e /\ last[e] < h.request[2]
        BY <4>1 DEF RequestsOwn, WireOf, RequestFits
      <4> QED
        BY <1>2, <2>2, <4>2, <4>3
    <3> QED
      BY <1>4, <2>4, <3>1, LinesAfter DEF HeardAgrees
  <2>5. CASE told' = told
    BY <2>3, <2>4, <2>5 DEF HeardAgrees, FinalOf, Final, Agrees
  <2>6. CASE told' # told
    <3>1. PICK c \in Conns : ReadReply(c)
      <4>1. PICK d \in Conns : OwnStep(d)
        BY <1>4, <2>6, StepIs
      <4>2. ReadReply(d)
        BY <2>6, <4>1 DEF OwnStep, Open, MarkOpen, Decide, Answers, Admits, Complete, TimeOut,
           EndOfInput, MarkClose, Call, CloseLocked
      <4> QED
        BY <4>2
    <3> DEFINE m == Head(outbox[c])
               new == [life |-> life, conn |-> c, tool |-> client[c],
                       tag |-> calls[c], answers |-> m.answers,
                       request |-> m.request, decision |-> m.decision,
                       reason |-> m.reason, digest |-> m.digest]
    <3>2. /\ told' = told \cup {new} /\ IdFits(c, m) /\ last'[c] = m.request[2]
          /\ client[c] \in Tools /\ outbox[c] # <<>> /\ UNCHANGED logVars
      BY <2>6, <3>1 DEF ReadReply, TypeOK
    <3>3. /\ m = outbox[c][1] /\ 1 \in Sent(c) /\ m \in Messages
          /\ Unasked(m) \/ m.answers = calls[c]
          /\ m.reason # "unrecorded"
      BY <3>2, HeadFits
    <3>4. /\ new.life = life /\ new.conn = c /\ new.tool = client[c] /\ new.tag = calls[c]
          /\ new.answers = m.answers /\ new.request = m.request /\ new.decision = m.decision
          /\ new.reason = m.reason /\ new.digest = m.digest
      OBVIOUS
    <3>5. m.request[2] \in Nat /\ m.request[1] = c
      BY <3>2, <3>3, MessageFields DEF IdFits
    <3> HIDE DEF new, m
    <3>6. /\ new.life <= life' /\ (new.answers = new.tag \/ (new.answers = 0 /\ new.decision = "DENY"))
          /\ new.request[1] = new.conn /\ new.request[2] <= last'[new.conn]
      BY <1>1, <2>1, <3>2, <3>3, <3>4, <3>5 DEF Unasked
    <3>7. ASSUME new.reason \notin RecordDiffers,
                 NEW k \in Out', FinalOf(Written'[k], new.life, new.request)
          PROVE  Agrees(Written'[k], new.tool, new)
      <4>1. k \in Out /\ Written'[k] = Written[k]
        BY <3>2, UnchangedLog, QuietIs
      <4>2. m.reason \notin RecordDiffers \cup {"unrecorded"}
        BY <3>3, <3>4, <3>7
      <4>3. Agrees(Written[k], client[c], m)
        BY <3>2, <3>3, <3>4, <3>7, <4>1, <4>2 DEF SentAgrees
      <4> QED
        BY <3>4, <4>1, <4>3 DEF Agrees
    <3>8. ASSUME NEW h \in told' PROVE HeardFits(h)'
      <4>1. CASE h \in told
        BY <2>3, <4>1
      <4>2. CASE h = new
        BY <3>6, <4>2 DEF HeardFits
      <4> QED
        BY <3>2, <4>1, <4>2
    <3>9. ASSUME NEW h \in told', h.reason \notin RecordDiffers,
                 NEW k \in Out', FinalOf(Written'[k], h.life, h.request)
          PROVE  Agrees(Written'[k], h.tool, h)
      <4>1. CASE h \in told
        BY <2>4, <3>9, <4>1
      <4>2. CASE h = new
        BY <3>7, <3>9, <4>2
      <4> QED
        BY <3>2, <4>1, <4>2
    <3> QED
      BY <3>8, <3>9 DEF HeardAgrees, FinalOf, Final, Agrees
  <2> QED
    BY <2>5, <2>6
<1> QED
  BY <1>3, <1>4

-----------------------------------------------------------------------------
(***************************************************************************)
(* The inductive invariant, and what it shows.                             *)
(***************************************************************************)
SessionsInv ==
    /\ TypeOK /\ LogInv
    /\ \A c \in Conns : WireOf(c)
    /\ SentAgrees
    /\ \A h \in told : HeardFits(h)
    /\ HeardAgrees

LEMMA HeardGivesHonesty ==
    ASSUME TypeOK, HeardAgrees
    PROVE  HonestClaimStands
<1> SUFFICES ASSUME NEW h \in told, h.reason \notin RecordDiffers,
                    LivesOf(h.request) \subseteq {h.life},
                    AgentVerdict(h.conn, HonestClaim(h)) = "contradicted"
             PROVE  FALSE
  BY DEF HonestClaimStands
<1> DEFINE raw == HonestClaim(h)
           claim == BindClaimSession(raw, h.conn)
           outcome == IF h.decision = "ALLOW" THEN "allowed" ELSE "denied"
<1>1. /\ claim.kind = "action" /\ claim.request = h.request /\ claim.tool = h.tool
      /\ claim.outcome = outcome /\ claim.digest = h.digest
  BY DEF Body, BindClaimSession, HonestClaim
<1>2. VerifyClaim(claim, log).verdict = "contradicted"
  <2>1. AgentVerdict(h.conn, raw) = "contradicted"
    OBVIOUS
  <2> HIDE DEF raw
  <2> QED
    BY <2>1, VerdictIs
<1> HIDE DEF raw, claim
<1>3. VerifyAction(claim, log).verdict = "contradicted"
  BY <1>1, <1>2 DEF VerifyClaim
<1>4. PICK k \in Finals(claim, log) :
         \/ log[k].tool # claim.tool
         \/ Recorded(log[k]) # claim.outcome
         \/ /\ claim.digest # None /\ log[k].decision = "ALLOW"
            /\ log[k].result \notin {None, Cut, claim.digest}
  BY <1>3, ContradictedActionIs
<1>5. /\ k \in InFile /\ k \in Out /\ Written[k] = log[k] /\ log[k].request = h.request
      /\ log[k].decision \in {"ALLOW", "DENY"}
  BY <1>1, <1>4, LinesOfFile DEF Finals
<1>6. log[k].life = h.life
  BY <1>5, LinesOfFile DEF LivesOf
<1>7. Agrees(log[k], h.tool, h)
  BY <1>5, <1>6 DEF HeardAgrees, FinalOf, Final
<1>8. h.decision \in {"DENY", "ALLOW"}
  <2>1. h \in Reports
    BY DEF TypeOK
  <2> QED
    BY <2>1 DEF Reports
<1> QED
  BY <1>1, <1>4, <1>5, <1>7, <1>8 DEF Agrees, Recorded

LEMMA SessionsInit == Init => SessionsInv
<1> SUFFICES ASSUME Init PROVE SessionsInv
  OBVIOUS
<1>1. TypeOK /\ LogInv
  BY LogInit
<1>2. \A c \in Conns : /\ nextRequest = 0 /\ pc[c] = "none" /\ inbox[c] = NoRequest
                       /\ outbox[c] = <<>> /\ client[c] = "none" /\ last[c] = 0
  BY DEF Init
<1>3. \A c \in Conns : Sent(c) = {}
  BY <1>1, <1>2, SentIs
<1>4. \A c \in Conns : WireOf(c)
  BY <1>2, <1>3 DEF WireOf, RequestFits, AgentFits, MessagesFit, Active
<1>5. SentAgrees
  BY <1>3 DEF SentAgrees
<1>6. told = {}
  BY DEF Init
<1> QED
  BY <1>1, <1>4, <1>5, <1>6 DEF SessionsInv, HeardAgrees

LEMMA SessionsNext ==
    ASSUME SessionsInv, [Next]_vars
    PROVE  SessionsInv'
<1>1. TypeOK' /\ LogInv'
  BY LogStep DEF SessionsInv
<1>2. (\A c \in Conns : WireOf(c))'
  BY WireStep DEF SessionsInv, LogInv
<1>3. SentAgrees'
  BY SentAgreesStep DEF SessionsInv, LogInv
<1>4. (\A h \in told : HeardFits(h))' /\ HeardAgrees'
  BY HeardStep DEF SessionsInv, LogInv
<1> QED
  BY <1>1, <1>2, <1>3, <1>4 DEF SessionsInv

\* The types; the log of every life in order, its marks around its calls, its
\* lines true of what the tools did (LogInv); what each connection has sent and
\* the agent has read, and that the log has it (_serve_connection, _logged).
THEOREM SessionsInvariant == Spec => []SessionsInv
<1>1. Init => SessionsInv
  BY SessionsInit
<1>2. SessionsInv /\ [Next]_vars => SessionsInv'
  BY SessionsNext
<1> QED
  BY <1>1, <1>2, PTL DEF Spec

\* In every start of the host, over every failed append and restart: a verdict
\* "consistent" on not_called is true of every session that had the name
\* (verify_agent_claim, _mark_session, the PRE_ENTRY line before the tool).
THEOREM AbsenceIsTrue == Spec => []ConsistentAbsenceIsTrue
<1>1. SessionsInv => ConsistentAbsenceIsTrue
  BY LogGivesAbsence DEF SessionsInv
<1> QED
  BY <1>1, SessionsInvariant, PTL

\* A verdict "consistent" on an action is true of what the tool returned, for
\* a request id of one life (_decide, _record, verify_agent_claim).
THEOREM ActionIsTrue == Spec => []ConsistentActionIsTrue
<1>1. SessionsInv => ConsistentActionIsTrue
  BY LogGivesAction DEF SessionsInv
<1> QED
  BY <1>1, SessionsInvariant, PTL

\* The host never contradicts an agent that repeats the reply it was given,
\* RecordDiffers and reused ids apart (the order of append and reply).
THEOREM HonestyStands == Spec => []HonestClaimStands
<1>1. SessionsInv => HonestClaimStands
  BY HeardGivesHonesty DEF SessionsInv
<1> QED
  BY <1>1, SessionsInvariant, PTL

\* A reply that is read is the one to the call that waits, or the denial that
\* ends the connection, and no id of this host closes a connection that is
\* served (AgentConnection.call, _check_request_id, handle_request).
THEOREM RepliesAreOwn == Spec => []ReplyIsOwn
<1>1. SessionsInv => ReplyIsOwn
  <2> SUFFICES ASSUME SessionsInv PROVE ReplyIsOwn
    OBVIOUS
  <2>1. \A h \in told : h.answers = h.tag \/ (h.answers = 0 /\ h.decision = "DENY")
    BY DEF SessionsInv, HeardFits
  <2>2. ASSUME NEW c \in Conns, client[c] \in Tools, outbox[c] # <<>>
        PROVE  IdFits(c, Head(outbox[c])) \/ Head(outbox[c]).reason = "unrecorded"
    BY <2>2, HeadFits DEF SessionsInv
  <2> QED
    BY <2>1, <2>2 DEF ReplyIsOwn
<1> QED
  BY <1>1, SessionsInvariant, PTL

=============================================================================
