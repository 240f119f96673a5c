------------------------- MODULE DecisionLog_proofs -------------------------
(***************************************************************************)
(* Proofs about DecisionLog: what append acknowledged is in the durable    *)
(* part of the file, whatever fails, crashes or tears; and, until a line   *)
(* is torn, it is alone on its line and numbered upwards.                  *)
(***************************************************************************)
EXTENDS DecisionLog, SequenceTheorems, FunctionTheorems, FiniteSetTheorems, TLAPS

(***************************************************************************)
(* A prefix is a sequence of the same pieces (SubSeq on the log's file).   *)
(***************************************************************************)
LEMMA PrefixIs ==
    ASSUME NEW S, NEW f \in Seq(S), NEW n \in 0..Len(f)
    PROVE  /\ SubSeq(f, 1, n) \in Seq(S)
           /\ Len(SubSeq(f, 1, n)) = n
           /\ \A i \in 1..n : SubSeq(f, 1, n)[i] = f[i]
  OBVIOUS

\* A sequence cut in two is still itself.
LEMMA CutIs ==
    ASSUME NEW S, NEW g \in Seq(S), NEW n \in 0..Len(g)
    PROVE  SubSeq(g, 1, n) \o SubSeq(g, n + 1, Len(g)) = g
<1>1. 1 \in 1..Len(g) + 1 /\ n \in 1 - 1..Len(g) /\ Len(g) \in n..Len(g)
  OBVIOUS
<1>2. SubSeq(g, 1, n) \o SubSeq(g, n + 1, Len(g)) = SubSeq(g, 1, Len(g))
  BY <1>1, ConcatAdjacentSubSeq
<1> QED
  BY <1>2, SubSeqFull

(***************************************************************************)
(* What a concatenation holds.                                             *)
(***************************************************************************)
LEMMA ConcatIs ==
    ASSUME NEW S, NEW f \in Seq(S), NEW g \in Seq(S)
    PROVE  /\ f \o g \in Seq(S)
           /\ Len(f \o g) = Len(f) + Len(g)
           /\ \A i \in 1..Len(f) : (f \o g)[i] = f[i]
           /\ \A i \in 1..Len(g) : (f \o g)[Len(f) + i] = g[i]
  OBVIOUS

LEMMA EmptyIs ==
    /\ <<>> \in Seq(Pieces) /\ <<>> \in Seq(Records \cup {Newline})
    /\ Len(<<>>) = 0
  OBVIOUS

LEMMA NonEmpty ==
    ASSUME NEW S, NEW f \in Seq(S), Len(f) > 0
    PROVE  f # <<>>
  OBVIOUS

\* What is between two cuts.
LEMMA MiddleIs ==
    ASSUME NEW S, NEW f \in Seq(S), NEW m \in 0..Len(f), NEW n \in 0..m
    PROVE  /\ SubSeq(f, n + 1, m) \in Seq(S)
           /\ Len(SubSeq(f, n + 1, m)) = m - n
           /\ SubSeq(f, n + 1, m) = SubSeq(SubSeq(f, 1, m), n + 1, m)
  OBVIOUS

(***************************************************************************)
(* A write of the buffer leaves what was synced where it is, and the file  *)
(* a sequence of pieces.                                                   *)
(***************************************************************************)
LEMMA KeptIs ==
    ASSUME TypeOK, durable + overlap <= Len(file)
    PROVE  /\ Kept \in Seq(Pieces)
           /\ Len(Kept) = Len(file) - overlap
           /\ durable <= Len(Kept)
           /\ \A i \in 1..durable : Kept[i] = file[i]
  BY PrefixIs DEF TypeOK, Kept

LEMMA WritesKeep ==
    ASSUME TypeOK, durable + overlap <= Len(file), NEW w \in Writes
    PROVE  /\ w.file \in Seq(Pieces)
           /\ w.took \in 0..Len(buffer)
           /\ w.cut \in 0..1
           /\ durable + w.cut <= Len(w.file)
           /\ \A i \in 1..durable : w.file[i] = file[i]
<1> DEFINE Goal == /\ w.file \in Seq(Pieces)
                   /\ w.took \in 0..Len(buffer)
                   /\ w.cut \in 0..1
                   /\ durable + w.cut <= Len(w.file)
                   /\ \A i \in 1..durable : w.file[i] = file[i]
<1> USE DEF TypeOK
<1> buffer \in Seq(Pieces)
  BY DEF Pieces
<1>1. \A n \in 0..Len(buffer) :
         /\ Kept \o SubSeq(buffer, 1, n) \in Seq(Pieces)
         /\ durable <= Len(Kept \o SubSeq(buffer, 1, n))
         /\ \A i \in 1..durable : (Kept \o SubSeq(buffer, 1, n))[i] = file[i]
  <2> SUFFICES ASSUME NEW n \in 0..Len(buffer)
               PROVE  /\ Kept \o SubSeq(buffer, 1, n) \in Seq(Pieces)
                      /\ durable <= Len(Kept \o SubSeq(buffer, 1, n))
                      /\ \A i \in 1..durable : (Kept \o SubSeq(buffer, 1, n))[i] = file[i]
    OBVIOUS
  <2>1. SubSeq(buffer, 1, n) \in Seq(Pieces) /\ Len(SubSeq(buffer, 1, n)) = n
    BY PrefixIs
  <2> QED
    <3> DEFINE g == SubSeq(buffer, 1, n)
    <3>1. g \in Seq(Pieces) /\ Len(g) = n
      BY <2>1
    <3>2. Kept \in Seq(Pieces) /\ durable <= Len(Kept) /\ \A i \in 1..durable : Kept[i] = file[i]
      BY KeptIs
    <3> HIDE DEF g
    <3>3. /\ Kept \o g \in Seq(Pieces) /\ Len(Kept \o g) = Len(Kept) + Len(g)
          /\ \A i \in 1..Len(Kept) : (Kept \o g)[i] = Kept[i]
      BY <3>1, <3>2, ConcatIs
    <3>4. Len(Kept) \in Nat /\ Len(g) \in Nat
      BY <3>1, <3>2
    <3>5. durable <= Len(Kept \o g) /\ \A i \in 1..durable : (Kept \o g)[i] = file[i]
      BY <3>2, <3>3, <3>4
    <3> QED
      BY <3>3, <3>5 DEF g
<1>2. ASSUME NEW n \in overlap..Len(buffer),
             w = [file |-> Kept \o SubSeq(buffer, 1, n), took |-> n, cut |-> 0]
      PROVE  Goal
  <2> DEFINE f == Kept \o SubSeq(buffer, 1, n)
  <2>1. n \in 0..Len(buffer)
    OBVIOUS
  <2>2. f \in Seq(Pieces) /\ durable <= Len(f) /\ \A i \in 1..durable : f[i] = file[i]
    BY <1>1, <2>1
  <2>3. w.file = f /\ w.took = n /\ w.cut = 0
    BY <1>2
  <2> HIDE DEF f
  <2>4. Len(f) \in Nat
    BY <2>2
  <2> QED
    BY <2>1, <2>2, <2>3, <2>4
<1>3. ASSUME NEW n \in 0..(Len(buffer) - 1),
             w = [file |-> Kept \o SubSeq(buffer, 1, n) \o <<Fragment>>, took |-> n, cut |-> 1]
      PROVE  Goal
  <2> DEFINE f == Kept \o SubSeq(buffer, 1, n)
  <2>1. /\ f \in Seq(Pieces) /\ durable <= Len(f)
        /\ \A i \in 1..durable : f[i] = file[i]
    <3>1. n \in 0..Len(buffer)
      OBVIOUS
    <3> QED
      BY <1>1, <3>1
  <2>2. w.file = f \o <<Fragment>> /\ w.took = n /\ w.cut = 1
    BY <1>3
  <2> HIDE DEF f
  <2>3. /\ f \o <<Fragment>> \in Seq(Pieces)
        /\ Len(f \o <<Fragment>>) = Len(f) + 1
        /\ \A i \in 1..Len(f) : (f \o <<Fragment>>)[i] = f[i]
    BY <2>1, ConcatIs, Fragment \in Pieces, <<Fragment>> \in Seq(Pieces) DEF Pieces
  <2>4. Len(f) \in Nat
    BY <2>1
  <2>5. durable + w.cut <= Len(w.file) /\ w.file \in Seq(Pieces)
    BY <2>1, <2>2, <2>3, <2>4
  <2>6. \A i \in 1..durable : w.file[i] = file[i]
    BY <2>1, <2>2, <2>3, <2>4
  <2>7. w.took \in 0..Len(buffer) /\ w.cut \in 0..1
    <3> Len(buffer) \in Nat
      OBVIOUS
    <3> QED
      BY <2>2
  <2> QED
    BY <2>5, <2>6, <2>7
<1> QED
  BY <1>2, <1>3 DEF Writes

(***************************************************************************)
(* What was acknowledged stays durable if the durable part only grows.     *)
(***************************************************************************)
LEMMA DurableStays ==
    ASSUME TypeOK, AckedIsDurable, acked' = acked,
           durable' \in Nat, durable <= durable',
           \A i \in 1..durable : file'[i] = file[i]
    PROVE  AckedIsDurable'
  BY DEF TypeOK, AckedIsDurable

(***************************************************************************)
(* A process that ends leaves a good file behind (Leaves).                 *)
(***************************************************************************)
LEMMA LeavesKeeps ==
    ASSUME LogInv, NEW f \in Seq(Pieces), Leaves(f),
           durable <= durable', durable' \in 0..Len(f),
           \A i \in 1..durable : f[i] = file[i],
           UNCHANGED <<seq, acked, appends, failures>>, crashes' \in Nat
    PROVE  LogInv'
<1>1. AckedIsDurable'
  BY DurableStays DEF LogInv, Leaves, TypeOK
<1>2. torn' \in BOOLEAN
  BY DEF Leaves, LogInv, TypeOK
<1>3. TypeOK'
  BY <1>2, EmptyIs DEF Leaves, LogInv, TypeOK
<1>4. durable' + overlap' <= Len(file')
  BY DEF Leaves
<1> QED
  BY <1>1, <1>3, <1>4 DEF Leaves, LogInv

LEMMA InitLog == Init => LogInv
<1> SUFFICES ASSUME Init PROVE LogInv
  OBVIOUS
<1>1. TypeOK
  <2>1. torn \in BOOLEAN
    BY DEF Init
  <2>2. durable \in 0..Len(file) /\ overlap \in 0..1 /\ seq \in Nat /\ acked \subseteq Records
        /\ appends \in Nat /\ failures \in Nat /\ crashes \in Nat
    BY EmptyIs DEF Init
  <2>3. file \in Seq(Pieces) /\ buffer \in Seq(Records \cup {Newline})
        /\ pc \in {"down", "ready", "flush", "sync"}
    BY EmptyIs DEF Init
  <2> QED
    BY <2>1, <2>2, <2>3 DEF TypeOK
<1>2. AckedIsDurable
  BY DEF Init, AckedIsDurable
<1> QED
  BY <1>1, <1>2 DEF Init, LogInv

LEMMA NextLog == LogInv /\ [Next]_vars => LogInv'
<1> SUFFICES ASSUME LogInv, [Next]_vars
             PROVE  LogInv'
  OBVIOUS
<1> USE LogAssumption, PieceAssumption
<1> TypeOK /\ AckedIsDurable /\ durable + overlap <= Len(file)
  BY DEF LogInv
<1>1. CASE Open
  <2> LineCount(file) \in Nat
    <3> Cardinality({i \in 1..Len(file) : file[i] = Newline}) \in Nat
      <4>1. IsFiniteSet(1..Len(file))
        BY FS_Interval DEF TypeOK
      <4>2. IsFiniteSet({i \in 1..Len(file) : file[i] = Newline})
        BY <4>1, FS_Subset
      <4> QED
        BY <4>2, FS_CardinalityType
    <3> QED
      BY DEF LineCount
  <2> QED
    BY <1>1, DurableStays DEF Open, bounds, LogInv, TypeOK
<1>2. CASE Begin
  <2> DEFINE r == [seq |-> seq', at |-> appends']
  <2>1. r \in Records /\ <<r, Newline>> \in Seq(Records \cup {Newline}) /\ Len(<<r, Newline>>) = 2
    BY <1>2 DEF Begin, bounds, TypeOK, Records
  <2>2. buffer' = buffer \o <<r, Newline>>
    BY <1>2 DEF Begin, bounds
  <2>3. /\ buffer' \in Seq(Records \cup {Newline})
        /\ Len(buffer') = Len(buffer) + 2
        /\ buffer'[Len(buffer) + 1] = r
    BY <2>1, <2>2, ConcatIs DEF TypeOK
  <2>4. Len(buffer') > 1 /\ buffer'[Len(buffer') - 1] \in Records /\ buffer' # <<>>
    BY <2>1, <2>3 DEF TypeOK
  <2>5. AckedIsDurable'
    BY <1>2, DurableStays DEF Begin, bounds, TypeOK
  <2> QED
    BY <1>2, <2>3, <2>4, <2>5 DEF Begin, bounds, LogInv, TypeOK
<1>3. CASE Flush
  <2>1. buffer \in Seq(Pieces)
    BY DEF TypeOK, Pieces
  <2>2. /\ Kept \o buffer \in Seq(Pieces)
        /\ Len(Kept \o buffer) = Len(Kept) + Len(buffer)
        /\ \A i \in 1..Len(Kept) : (Kept \o buffer)[i] = Kept[i]
        /\ \A i \in 1..Len(buffer) : (Kept \o buffer)[Len(Kept) + i] = buffer[i]
    BY <2>1, KeptIs, ConcatIs
  <2>3. /\ file' \in Seq(Pieces) /\ durable <= Len(file')
        /\ \A i \in 1..durable : file'[i] = file[i]
    BY <1>3, <2>1, <2>2, KeptIs DEF Flush, bounds, TypeOK
  <2>4. Len(file') > 1 /\ file'[Len(file') - 1] \in Records
    BY <1>3, <2>1, <2>2, KeptIs DEF Flush, bounds, LogInv
  <2>5. AckedIsDurable'
    BY <1>3, <2>3, DurableStays DEF Flush, bounds, TypeOK
  <2> QED
    BY <1>3, <2>3, <2>4, <2>5, EmptyIs DEF Flush, bounds, LogInv, TypeOK
<1>4. CASE FlushFails
  <2> PICK w \in Writes, last \in {Len(buffer) - 2, Len(buffer)} :
          /\ w.took < last
          /\ file' = w.file
          /\ buffer' = SubSeq(buffer, w.took + 1, last)
          /\ overlap' = w.cut
    BY <1>4 DEF FlushFails
  <2>0. /\ w.file \in Seq(Pieces) /\ w.took \in 0..Len(buffer) /\ w.cut \in 0..1
        /\ durable + w.cut <= Len(w.file)
        /\ \A i \in 1..durable : w.file[i] = file[i]
    BY WritesKeep
  <2>1. /\ buffer' \in Seq(Records \cup {Newline}) /\ Len(buffer') > 0
    <3>1. buffer \in Seq(Records \cup {Newline}) /\ last \in 0..Len(buffer) /\ w.took \in 0..last
          /\ w.took < last
      BY <1>4, <2>0 DEF FlushFails, WriteFails, LogInv, TypeOK
    <3> QED
      BY <3>1, MiddleIs
  <2>2. AckedIsDurable'
    BY <1>4, <2>0, DurableStays DEF FlushFails, WriteFails, TypeOK
  <2> QED
    <3>1. buffer' # <<>>
      BY <2>1, NonEmpty
    <3>2. TypeOK'
      <4>1. file' \in Seq(Pieces) /\ overlap' \in 0..1
        BY <2>0
      <4>2. Len(file') \in Nat
        BY <4>1
      <4>3. durable' \in 0..Len(file')
        BY <1>4, <2>0, <4>2 DEF FlushFails, WriteFails, TypeOK
      <4>4. seq' \in Nat /\ pc' = "ready" /\ acked' \subseteq Records
            /\ appends' \in Nat /\ failures' \in Nat /\ crashes' \in Nat
        BY <1>4 DEF FlushFails, WriteFails, LogInv, TypeOK
      <4>5. torn' \in BOOLEAN
        BY <1>4 DEF FlushFails, TypeOK
      <4> QED
        BY <2>1, <4>1, <4>3, <4>4, <4>5 DEF TypeOK
    <3>3. durable' + overlap' <= Len(file') /\ pc' = "ready"
      BY <1>4, <2>0 DEF FlushFails, WriteFails
    <3> QED
      BY <2>2, <3>1, <3>2, <3>3 DEF LogInv
<1>11. CASE LargeWriteFails
  <2> PICK w \in Writes : file' = w.file
    BY <1>11 DEF LargeWriteFails
  <2>0. /\ w.file \in Seq(Pieces) /\ w.cut \in 0..1 /\ durable + w.cut <= Len(w.file)
        /\ \A i \in 1..durable : w.file[i] = file[i]
    BY WritesKeep
  <2>1. buffer' = <<>> /\ overlap' = 0 /\ pc' = "ready" /\ durable' = durable /\ acked' = acked
    BY <1>11 DEF LargeWriteFails, WriteFails
  <2>2. AckedIsDurable'
    BY <2>0, <2>1, DurableStays DEF TypeOK
  <2>3. durable' \in 0..Len(file')
    BY <2>0, <2>1 DEF TypeOK
  <2>4. seq' \in Nat /\ appends' \in Nat /\ failures' \in Nat /\ crashes' \in Nat
    BY <1>11 DEF LargeWriteFails, WriteFails, LogInv, TypeOK
  <2>5. torn' \in BOOLEAN
    BY <1>11 DEF LargeWriteFails, TypeOK
  <2>6. TypeOK'
    BY <2>0, <2>1, <2>3, <2>4, <2>5, EmptyIs DEF TypeOK
  <2> QED
    BY <2>1, <2>2, <2>3, <2>6 DEF LogInv
<1>5. CASE Sync
  <2>1. Mine \in Records /\ Len(file) > 1 /\ buffer = <<>> /\ overlap = 0
    BY <1>5 DEF Sync, bounds, LogInv, Mine
  <2>2. AckedIsDurable'
    BY <1>5, <2>1 DEF Sync, bounds, AckedIsDurable, TypeOK, Mine
  <2> QED
    BY <1>5, <2>1, <2>2 DEF Sync, bounds, LogInv, TypeOK
<1>6. CASE SyncFails
  BY <1>6, DurableStays DEF SyncFails, bounds, LogInv, TypeOK
<1>7. CASE Close
  <2> PICK w \in Writes : Leaves(w.file)
    BY <1>7 DEF Close
  <2>1. /\ w.file \in Seq(Pieces) /\ durable <= Len(w.file)
        /\ \A i \in 1..durable : w.file[i] = file[i]
    <3>1. /\ w.file \in Seq(Pieces) /\ w.cut \in 0..1
          /\ durable + w.cut <= Len(w.file)
          /\ \A i \in 1..durable : w.file[i] = file[i]
      BY WritesKeep
    <3> QED
      BY <3>1 DEF TypeOK
  <2>2. Len(w.file) \in Nat
    BY <2>1
  <2> QED
    BY <1>7, <2>1, <2>2, LeavesKeeps DEF Close, TypeOK, bounds
<1>8. CASE Crash
  <2>1. PICK f \in Seq(Pieces) : /\ Leaves(f) /\ durable <= Len(f)
                                 /\ \A i \in 1..durable : f[i] = file[i]
    <3>1. CASE Leaves(file)
      BY <3>1 DEF TypeOK
    <3>2. CASE \E w \in Writes : Leaves(w.file)
      <4> PICK w \in Writes : Leaves(w.file)
        BY <3>2
      <4>1. /\ w.file \in Seq(Pieces) /\ w.cut \in 0..1
            /\ durable + w.cut <= Len(w.file)
            /\ \A i \in 1..durable : w.file[i] = file[i]
        BY WritesKeep
      <4>2. durable <= Len(w.file)
        BY <4>1 DEF TypeOK
      <4> QED
        BY <4>1, <4>2
    <3> QED
      BY <1>8, <3>1, <3>2 DEF Crash
  <2>2. Len(f) \in Nat
    BY <2>1
  <2> QED
    BY <1>8, <2>1, <2>2, LeavesKeeps DEF Crash, TypeOK
<1>9. CASE PowerLoss
  <2> PICK n \in durable..Len(file) :
          \/ Leaves(SubSeq(file, 1, n)) /\ durable' = n
          \/ n < Len(file) /\ Leaves(Append(SubSeq(file, 1, n), Fragment)) /\ durable' = n + 1
    BY <1>9 DEF PowerLoss
  <2> DEFINE f == SubSeq(file, 1, n)
  <2>1. f \in Seq(Pieces) /\ Len(f) = n /\ \A i \in 1..durable : f[i] = file[i]
    BY PrefixIs DEF TypeOK
  <2>2. n \in Nat /\ durable \in 0..n
    BY DEF TypeOK
  <2> HIDE DEF f
  <2>3. Append(f, Fragment) \in Seq(Pieces) /\ Len(Append(f, Fragment)) = n + 1
        /\ \A i \in 1..durable : Append(f, Fragment)[i] = file[i]
    BY <2>1, <2>2, AppendProperties, Fragment \in Pieces DEF Pieces
  <2>4. CASE Leaves(f) /\ durable' = n
    BY <1>9, <2>1, <2>2, <2>4, LeavesKeeps DEF PowerLoss, TypeOK
  <2>5. CASE Leaves(Append(f, Fragment)) /\ durable' = n + 1
    <3> DEFINE g == Append(f, Fragment)
    <3>1. g \in Seq(Pieces) /\ Leaves(g) /\ \A i \in 1..durable : g[i] = file[i]
      BY <2>3, <2>5
    <3>2. durable' \in 0..Len(g) /\ durable <= durable'
      BY <2>2, <2>3, <2>5
    <3>3. UNCHANGED <<seq, acked, appends, failures>> /\ crashes' \in Nat
      BY <1>9 DEF PowerLoss, TypeOK
    <3> HIDE DEF g
    <3> QED
      BY <3>1, <3>2, <3>3, LeavesKeeps
  <2> QED
    BY <2>4, <2>5 DEF f
<1>10. CASE UNCHANGED vars
  BY <1>10 DEF vars, bounds, LogInv, TypeOK, AckedIsDurable
<1> QED
  BY <1>1, <1>2, <1>3, <1>4, <1>5, <1>6, <1>7, <1>8, <1>9, <1>10, <1>11 DEF Next

(***************************************************************************)
(* The inductive invariant holds in every reachable state.                 *)
(***************************************************************************)
THEOREM LogInvariant == Spec => []LogInv
  BY InitLog, NextLog, PTL DEF Spec

(***************************************************************************)
(* An acknowledged decision is never lost (DecisionLog.append), for any    *)
(* number of appends, failures, crashes, power losses and torn lines.      *)
(***************************************************************************)
THEOREM NothingAcknowledgedIsLost == Spec => []AckedIsDurable
<1> LogInv => AckedIsDurable
  BY DEF LogInv
<1> QED
  BY LogInvariant, PTL
-----------------------------------------------------------------------------
(***************************************************************************)
(* The lines of the log: those of the file, without the part of a record   *)
(* it may end in, and those the buffer still holds.                        *)
(***************************************************************************)
Whole == Kept \o buffer

\* n lines, each a record and its newline.
HasLines(f, n) ==
    /\ Len(f) = 2 * n
    /\ \A k \in 1..n : f[2 * k - 1] \in Records /\ f[2 * k] = Newline

\* Appends are in their order, and no number is ahead of its line.
InOrder(f, n) ==
    /\ \A i, j \in 1..Len(f) :
          i < j /\ f[i] \in Records /\ f[j] \in Records => f[i].at < f[j].at
    /\ \A i \in 1..Len(f) : f[i] \in Records => f[i].at <= n /\ 2 * f[i].seq <= i + 1

\* What was acknowledged has its newline on the disk; what follows it has a
\* higher number, acknowledged or not.
AckedIn(f, A, d) ==
    /\ \A r \in A : \E i \in 1..d - 1 : f[i] = r
    /\ \A i, j \in 1..Len(f) :
          i < j /\ f[i] \in A /\ f[j] \in Records => f[i].seq < f[j].seq

\* _seq is not ahead of the lines, and not behind an acknowledged record; it is
\* the number of the record an append is busy with.
Numbered ==
    /\ pc # "down" => 2 * seq <= Len(Whole) /\ \A r \in acked : r.seq <= seq
    /\ pc \in {"flush", "sync"} => /\ Whole[Len(Whole) - 1].seq = seq
                                   /\ \A r \in acked : r.seq < seq

LinesInv ==
    /\ overlap = 1 => file[Len(file)] = Fragment
    /\ ~torn => /\ \E n \in Nat : HasLines(Whole, n)
                /\ InOrder(Whole, appends)
                /\ AckedIn(Whole, acked, durable)
                /\ Numbered

-----------------------------------------------------------------------------
LEMMA Halves == \A i \in Nat : \E k \in Nat : i = 2 * k \/ i = 2 * k - 1
<1> SUFFICES ASSUME NEW i \in Nat PROVE \E k \in Nat : i = 2 * k \/ i = 2 * k - 1
  OBVIOUS
<1>1. (i + 1) \div 2 \in Nat /\ (i = 2 * ((i + 1) \div 2) \/ i = 2 * ((i + 1) \div 2) - 1)
  OBVIOUS
<1> QED
  BY <1>1

\* A record is alone on its line.
LEMMA LinesAre ==
    ASSUME NEW f \in Seq(Pieces), NEW n \in Nat, HasLines(f, n), NEW i \in 1..Len(f)
    PROVE  /\ f[i] \in Records \/ f[i] = Newline
           /\ f[i] \in Records => /\ i = 1 \/ f[i - 1] = Newline
                                  /\ i < Len(f) /\ f[i + 1] = Newline
           /\ f[i] = Newline => \E k \in 1..n : i = 2 * k
<1>1. PICK k \in Nat : i = 2 * k \/ i = 2 * k - 1
  <2>1. i \in Nat
    OBVIOUS
  <2> QED
    BY <2>1, Halves
<1>2. k \in 1..n /\ Len(f) = 2 * n
  BY <1>1 DEF HasLines
<1>3. f[2 * k - 1] \in Records /\ f[2 * k] = Newline
  BY <1>2 DEF HasLines
<1>4. Newline \notin Records
  BY PieceAssumption
<1>5. CASE i = 2 * k
  BY <1>2, <1>3, <1>4, <1>5
<1>6. CASE i = 2 * k - 1
  <2>1. i = 1 \/ (k - 1 \in 1..n /\ i - 1 = 2 * (k - 1))
    BY <1>2, <1>6
  <2>2. i = 1 \/ f[i - 1] = Newline
    BY <2>1 DEF HasLines
  <2>3. i < Len(f) /\ i + 1 = 2 * k
    BY <1>2, <1>6
  <2> QED
    BY <1>3, <1>4, <1>6, <2>2, <2>3
<1> QED
  BY <1>1, <1>5, <1>6

\* LineCount counts them (DecisionLog.__init__).
LEMMA LinesAreCounted ==
    ASSUME NEW f \in Seq(Pieces), NEW n \in Nat, HasLines(f, n)
    PROVE  LineCount(f) = n
<1> DEFINE N == {i \in 1..Len(f) : f[i] = Newline}
           F == [k \in 1..n |-> 2 * k]
<1>1. Len(f) = 2 * n /\ \A k \in 1..n : f[2 * k - 1] \in Records /\ f[2 * k] = Newline
  BY DEF HasLines
<1>2. \A k \in 1..n : 2 * k \in 1..Len(f)
  BY <1>1
<1>3. F \in [1..n -> N]
  BY <1>1, <1>2
<1>4. \A j, k \in 1..n : F[j] = F[k] => j = k
  OBVIOUS
<1>5. \A i \in N : \E k \in 1..n : F[k] = i
  BY LinesAre
<1>6. F \in Bijection(1..n, N)
  BY <1>3, <1>4, <1>5, Fun_IsBij
<1>7. ExistsBijection(1..n, N)
  BY <1>6, Fun_ExistsBij
<1>8. IsFiniteSet(1..n) /\ Cardinality(1..n) = n
  BY FS_Interval
<1>9. Cardinality(N) = n
  BY <1>7, <1>8, FS_Bijection
<1>10. f # <<>> => f[Len(f)] = Newline
  <2> SUFFICES ASSUME f # <<>> PROVE f[Len(f)] = Newline
    OBVIOUS
  <2>1. n \in 1..n
    BY <1>1
  <2> QED
    BY <1>1, <2>1
<1> QED
  BY <1>9, <1>10 DEF LineCount

\* The whole is a sequence, and begins with what the file keeps.
LEMMA WholeIs ==
    ASSUME LogInv
    PROVE  /\ Whole \in Seq(Pieces) /\ Kept \in Seq(Pieces)
           /\ Len(Kept) = Len(file) - overlap /\ Len(Whole) = Len(Kept) + Len(buffer)
           /\ Len(Whole) \in Nat /\ Len(Kept) \in Nat /\ durable \in 0..Len(Kept)
           /\ \A i \in 1..Len(Kept) : Whole[i] = Kept[i] /\ Kept[i] = file[i]
<1>1. buffer \in Seq(Pieces) /\ TypeOK /\ durable + overlap <= Len(file)
  BY DEF LogInv, TypeOK, Pieces
<1>2. Kept \in Seq(Pieces) /\ Len(Kept) = Len(file) - overlap /\ durable <= Len(Kept)
  BY <1>1, KeptIs
<1>3. \A i \in 1..Len(Kept) : Kept[i] = file[i]
  <2>1. file \in Seq(Pieces) /\ Len(file) - overlap \in 0..Len(file)
    BY <1>1 DEF TypeOK
  <2> QED
    BY <1>2, <2>1, PrefixIs DEF Kept
<1>4. /\ Whole \in Seq(Pieces) /\ Len(Whole) = Len(Kept) + Len(buffer)
      /\ \A i \in 1..Len(Kept) : Whole[i] = Kept[i]
  BY <1>1, <1>2, ConcatIs DEF Whole
<1>5. durable \in 0..Len(Kept) /\ Len(Kept) \in Nat /\ Len(Whole) \in Nat
  BY <1>1, <1>2, <1>4 DEF TypeOK
<1> QED
  BY <1>2, <1>3, <1>4, <1>5

-----------------------------------------------------------------------------
(***************************************************************************)
(* What a process leaves is a beginning of the whole, or ends in a part of *)
(* a record.                                                               *)
(***************************************************************************)
Begins(g, f) == Len(g) <= Len(f) /\ \A i \in 1..Len(g) : g[i] = f[i]
TornAt(g) == g # <<>> /\ g[Len(g)] = Fragment

LEMMA WrittenIs ==
    ASSUME LogInv, NEW n \in 0..Len(buffer)
    PROVE  LET a == SubSeq(buffer, 1, n)
               f == Kept \o a
           IN  /\ a \in Seq(Pieces) /\ Len(a) = n
               /\ f \in Seq(Pieces) /\ Len(f) = Len(Kept) + n /\ Begins(f, Whole)
<1> DEFINE a == SubSeq(buffer, 1, n)
           f == Kept \o a
<1>1. buffer \in Seq(Pieces)
  BY DEF LogInv, TypeOK, Pieces
<1>2. a \in Seq(Pieces) /\ Len(a) = n /\ \A i \in 1..n : a[i] = buffer[i]
  BY <1>1, PrefixIs
<1>3. Kept \in Seq(Pieces) /\ Len(Kept) \in Nat /\ Len(Whole) = Len(Kept) + Len(buffer)
  BY WholeIs
<1> HIDE DEF a
<1>4. /\ f \in Seq(Pieces) /\ Len(f) = Len(Kept) + n
      /\ \A i \in 1..Len(Kept) : f[i] = Kept[i]
      /\ \A i \in 1..n : f[Len(Kept) + i] = a[i]
  <2>0. Kept \in Seq(Pieces) /\ a \in Seq(Pieces)
    BY <1>2, <1>3
  <2>1. /\ Kept \o a \in Seq(Pieces) /\ Len(Kept \o a) = Len(Kept) + Len(a)
        /\ \A i \in 1..Len(Kept) : (Kept \o a)[i] = Kept[i]
        /\ \A i \in 1..Len(a) : (Kept \o a)[Len(Kept) + i] = a[i]
    BY <2>0, ConcatIs
  <2> QED
    BY <1>2, <2>1
<1>5. \A i \in 1..Len(buffer) : Whole[Len(Kept) + i] = buffer[i]
  BY <1>1, <1>3, ConcatIs DEF Whole
<1>6. \A i \in 1..Len(Kept) : Whole[i] = Kept[i]
  BY WholeIs
<1>7. ASSUME NEW i \in 1..Len(f) PROVE f[i] = Whole[i]
  <2>1. CASE i <= Len(Kept)
    BY <1>3, <1>4, <1>6, <2>1
  <2>2. CASE ~(i <= Len(Kept))
    <3> DEFINE j == i - Len(Kept)
    <3>1. j \in 1..n /\ j \in 1..Len(buffer) /\ Len(Kept) + j = i
      BY <1>1, <1>3, <1>4, <2>2
    <3> HIDE DEF j, f
    <3>2. f[Len(Kept) + j] = a[j] /\ a[j] = buffer[j] /\ Whole[Len(Kept) + j] = buffer[j]
      BY <1>2, <1>4, <1>5, <3>1
    <3> QED
      BY <3>1, <3>2
  <2> QED
    BY <2>1, <2>2
<1>8. Len(f) <= Len(Whole)
  BY <1>1, <1>3, <1>4
<1> QED
  BY <1>2, <1>4, <1>7, <1>8 DEF a, Begins

\* A write that stops anywhere.
LEMMA WriteIs ==
    ASSUME LogInv, NEW w \in Writes
    PROVE  Begins(w.file, Whole) \/ TornAt(w.file)
<1>1. ASSUME NEW n \in overlap..Len(buffer),
             w = [file |-> Kept \o SubSeq(buffer, 1, n), took |-> n, cut |-> 0]
      PROVE  Begins(w.file, Whole)
  <2>1. n \in 0..Len(buffer)
    BY DEF LogInv, TypeOK
  <2> QED
    BY <1>1, <2>1, WrittenIs
<1>2. ASSUME NEW n \in 0..(Len(buffer) - 1),
             w = [file |-> Kept \o SubSeq(buffer, 1, n) \o <<Fragment>>, took |-> n, cut |-> 1]
      PROVE  TornAt(w.file)
  <2> DEFINE f == Kept \o SubSeq(buffer, 1, n)
  <2>1. n \in 0..Len(buffer)
    BY DEF LogInv, TypeOK
  <2>2. f \in Seq(Pieces)
    BY <2>1, WrittenIs
  <2>3. w.file = f \o <<Fragment>>
    BY <1>2
  <2> HIDE DEF f
  <2>4. <<Fragment>> \in Seq(Pieces) /\ Len(<<Fragment>>) = 1 /\ <<Fragment>>[1] = Fragment
    BY DEF Pieces
  <2>5. /\ f \o <<Fragment>> \in Seq(Pieces) /\ Len(f \o <<Fragment>>) = Len(f) + 1
        /\ (f \o <<Fragment>>)[Len(f) + 1] = <<Fragment>>[1]
    BY <2>2, <2>4, ConcatIs
  <2>6. w.file # <<>>
    BY <2>2, <2>3, <2>5
  <2> QED
    BY <2>3, <2>4, <2>5, <2>6 DEF TornAt
<1> QED
  BY <1>1, <1>2 DEF Writes

\* The file itself, whatever of it the power leaves.
LEMMA FileIs ==
    ASSUME LogInv, overlap = 1 => file[Len(file)] = Fragment, NEW n \in 0..Len(file)
    PROVE  Begins(SubSeq(file, 1, n), Whole) \/ TornAt(SubSeq(file, 1, n))
<1> DEFINE f == SubSeq(file, 1, n)
<1>1. file \in Seq(Pieces) /\ overlap \in 0..1
  BY DEF LogInv, TypeOK
<1>2. f \in Seq(Pieces) /\ Len(f) = n /\ \A i \in 1..n : f[i] = file[i]
  BY <1>1, PrefixIs
<1> HIDE DEF f
<1>3. CASE n <= Len(Kept)
  BY <1>2, <1>3, WholeIs DEF Begins, f
<1>4. CASE ~(n <= Len(Kept))
  <2>1. overlap = 1 /\ n = Len(file) /\ n > 0
    BY <1>1, <1>4, WholeIs
  <2>2. f[n] = Fragment
    BY <1>2, <2>1
  <2>3. f # <<>>
    BY <1>2, <2>1
  <2> QED
    BY <1>2, <2>2, <2>3 DEF TornAt, f
<1> QED
  BY <1>3, <1>4

\* The lines up to one of them are lines still.
LEMMA BeginningHasLines ==
    ASSUME NEW f \in Seq(Pieces), NEW n \in Nat, HasLines(f, n),
           NEW g \in Seq(Pieces), Begins(g, f), g # <<>> => g[Len(g)] = Newline
    PROVE  \E m \in Nat : HasLines(g, m)
<1>1. CASE g = <<>>
  <2>1. HasLines(g, 0)
    BY <1>1 DEF HasLines
  <2> QED
    BY <2>1
<1>2. CASE g # <<>>
  <2>1. Len(g) \in 1..Len(f)
    BY <1>2 DEF Begins
  <2>2. f[Len(g)] = Newline
    BY <1>2, <2>1 DEF Begins
  <2>3. PICK k \in 1..n : Len(g) = 2 * k
    BY <2>1, <2>2, LinesAre
  <2>4. \A j \in 1..k : g[2 * j - 1] \in Records /\ g[2 * j] = Newline
    BY <2>1, <2>3 DEF HasLines, Begins
  <2>5. HasLines(g, k)
    BY <2>3, <2>4 DEF HasLines
  <2> QED
    BY <2>5
<1> QED
  BY <1>1, <1>2

\* A process that ends without tearing a line leaves its lines in order.
LEMMA LeavesInOrder ==
    ASSUME LogInv, LinesInv, ~torn, ~torn',
           NEW f \in Seq(Pieces), Leaves(f), Begins(f, Whole) \/ TornAt(f),
           durable <= durable', durable' \in 0..Len(f),
           UNCHANGED <<seq, acked, appends>>
    PROVE  LinesInv'
<1>1. /\ file' = f /\ overlap' = 0 /\ pc' = "down" /\ buffer' = <<>>
      /\ f # <<>> => f[Len(f)] = Newline
  BY DEF Leaves
<1>2. Begins(f, Whole)
  BY <1>1, PieceAssumption DEF TornAt
<1>3. Whole' = f
  <2>1. Kept' = f
    <3>1. Kept' = SubSeq(f, 1, Len(f))
      BY <1>1 DEF Kept
    <3> QED
      BY <3>1
  <2> QED
    BY <1>1, <2>1 DEF Whole
<1>4. Whole \in Seq(Pieces) /\ Len(f) \in Nat /\ Len(Whole) \in Nat
  BY WholeIs
<1>5. \E m \in Nat : HasLines(f, m)
  <2>1. PICK n \in Nat : HasLines(Whole, n)
    BY DEF LinesInv
  <2> QED
    BY <1>1, <1>2, <1>4, <2>1, BeginningHasLines
<1>6. InOrder(f, appends)
  <2>1. \A i \in 1..Len(f) : i \in 1..Len(Whole) /\ f[i] = Whole[i]
    BY <1>2, <1>4 DEF Begins
  <2>2. InOrder(Whole, appends)
    BY DEF LinesInv
  <2> QED
    BY <2>1, <2>2 DEF InOrder
<1>7. AckedIn(f, acked, durable')
  <2>1. durable \in 0..Len(Whole) /\ durable \in Nat /\ durable' \in Nat
    BY WholeIs
  <2>2. ASSUME NEW r \in acked PROVE \E i \in 1..durable' - 1 : f[i] = r
    <3>1. PICK i \in 1..durable - 1 : Whole[i] = r
      BY DEF LinesInv, AckedIn
    <3>2. i \in 1..durable' - 1 /\ i \in 1..Len(f)
      <4>1. i \in 1..durable - 1
        BY <3>1
      <4>2. durable <= durable' /\ durable' <= Len(f)
        BY <2>1
      <4>3. \A k, d, e, n \in Int : k \in 1..d - 1 /\ d <= e /\ e <= n => k \in 1..e - 1 /\ k \in 1..n
        OBVIOUS
      <4>4. i \in Int /\ durable \in Int /\ durable' \in Int /\ Len(f) \in Int
        BY <1>4, <2>1, <4>1
      <4> QED
        BY <4>1, <4>2, <4>3, <4>4
    <3> QED
      BY <1>2, <3>1, <3>2 DEF Begins
  <2>3. \A i, j \in 1..Len(f) :
           i < j /\ f[i] \in acked /\ f[j] \in Records => f[i].seq < f[j].seq
    BY <1>2, <1>4 DEF LinesInv, AckedIn, Begins
  <2> QED
    BY <2>2, <2>3 DEF AckedIn
<1>8. Numbered'
  BY <1>1 DEF Numbered
<1> QED
  BY <1>1, <1>3, <1>5, <1>6, <1>7, <1>8 DEF LinesInv

-----------------------------------------------------------------------------
\* A flush, whole or not, moves lines from the buffer to the file.
LEMMA FlushMoves ==
    ASSUME LogInv, Flush
    PROVE  Whole' = Whole /\ overlap' = 0 /\ Len(Whole) = Len(file')
<1>1. file' = Whole /\ buffer' = <<>> /\ overlap' = 0
  BY DEF Flush, Whole
<1>2. Whole \in Seq(Pieces)
  BY WholeIs
<1>3. Kept' = SubSeq(Whole, 1, Len(Whole))
  <2>1. Len(Whole) - 0 = Len(Whole)
    BY <1>2
  <2> QED
    BY <1>1, <2>1 DEF Kept
<1>4. Kept' = Whole
  BY <1>2, <1>3
<1> QED
  BY <1>1, <1>2, <1>4 DEF Whole

LEMMA ThreeAre ==
    ASSUME NEW f \in Seq(Pieces), NEW g \in Seq(Pieces), NEW h \in Seq(Pieces)
    PROVE  (f \o g) \o h = f \o (g \o h)
  BY ConcatAssociative

\* A write that puts a part into the file and keeps the rest loses nothing.
LEMMA RestIs ==
    ASSUME LogInv, NEW w \in Writes, NEW last \in 0..Len(buffer), w.took <= last,
           file' = w.file, buffer' = SubSeq(buffer, w.took + 1, last), overlap' = w.cut
    PROVE  /\ Whole' = Kept \o SubSeq(buffer, 1, last)
           /\ overlap' = 1 => file'[Len(file')] = Fragment
<1> DEFINE a(n) == SubSeq(buffer, 1, n)
<1>2. PICK n \in 0..Len(buffer) :
         /\ w.took = n
         /\ \/ w.file = Kept \o a(n) /\ w.cut = 0
            \/ w.file = Kept \o a(n) \o <<Fragment>> /\ w.cut = 1
  <2>1. ASSUME NEW n \in overlap..Len(buffer),
               w = [file |-> Kept \o a(n), took |-> n, cut |-> 0]
        PROVE  n \in 0..Len(buffer) /\ w.took = n /\ w.file = Kept \o a(n) /\ w.cut = 0
    <3>1. overlap \in 0..1 /\ Len(buffer) \in Nat
      BY DEF LogInv, TypeOK
    <3>2. n \in 0..Len(buffer)
      BY <3>1
    <3> QED
      BY <2>1, <3>2
  <2>2. ASSUME NEW n \in 0..(Len(buffer) - 1),
               w = [file |-> Kept \o a(n) \o <<Fragment>>, took |-> n, cut |-> 1]
        PROVE  /\ n \in 0..Len(buffer) /\ w.took = n
               /\ w.file = Kept \o a(n) \o <<Fragment>> /\ w.cut = 1
    BY <2>2 DEF LogInv, TypeOK
  <2> QED
    BY <2>1, <2>2 DEF Writes
<1> DEFINE c == SubSeq(buffer, 1, last)
           b == SubSeq(buffer, n + 1, last)
           f == Kept \o a(n)
<1>3. buffer \in Seq(Pieces) /\ Kept \in Seq(Pieces) /\ a(n) \in Seq(Pieces) /\ f \in Seq(Pieces)
  <2>1. buffer \in Seq(Pieces)
    BY DEF LogInv, TypeOK, Pieces
  <2> QED
    BY <2>1, WholeIs, WrittenIs
<1>4. b \in Seq(Pieces) /\ a(n) \o b = c
  <2>1. n \in 0..last
    BY <1>2
  <2>2. c \in Seq(Pieces) /\ Len(c) = last /\ b \in Seq(Pieces) /\ b = SubSeq(c, n + 1, last)
    BY <1>3, <2>1, PrefixIs, MiddleIs
  <2>3. a(n) = SubSeq(c, 1, n)
    BY <1>3, <2>1
  <2> HIDE DEF c, b
  <2> QED
    BY <2>1, <2>2, <2>3, CutIs
<1>5. f \o b = Kept \o c
  <2>1. (Kept \o a(n)) \o b = Kept \o (a(n) \o b)
    <3> DEFINE u == a(n)
    <3>1. Kept \in Seq(Pieces)
      BY <1>3
    <3>2. u \in Seq(Pieces)
      BY <1>3
    <3>3. b \in Seq(Pieces)
      BY <1>4
    <3> HIDE DEF u, b, c, f, a
    <3>4. (Kept \o u) \o b = Kept \o (u \o b)
      BY <3>1, <3>2, <3>3, ThreeAre
    <3> QED
      BY <3>4 DEF u
  <2> QED
    BY <1>4, <2>1
<1>6. buffer' = b
  BY <1>2
<1> HIDE DEF f, b
<1>7. /\ f \o <<Fragment>> \in Seq(Pieces) /\ Len(f \o <<Fragment>>) = Len(f) + 1
      /\ (f \o <<Fragment>>)[Len(f) + 1] = Fragment
      /\ SubSeq(f \o <<Fragment>>, 1, Len(f)) = f
  <2>1. <<Fragment>> \in Seq(Pieces)
    BY DEF Pieces
  <2> QED
    BY <1>3, <2>1
<1>8. Kept' = f /\ (overlap' = 1 => file'[Len(file')] = Fragment)
  <2>1. CASE w.file = f /\ w.cut = 0
    <3>1. Kept' = SubSeq(f, 1, Len(f) - 0)
      BY <2>1 DEF Kept
    <3>2. SubSeq(f, 1, Len(f) - 0) = f
      BY <1>3
    <3> QED
      BY <2>1, <3>1, <3>2
  <2>2. CASE w.file = f \o <<Fragment>> /\ w.cut = 1
    <3>1. Kept' = SubSeq(f \o <<Fragment>>, 1, Len(f) + 1 - 1)
      BY <1>7, <2>2 DEF Kept
    <3>2. Len(f) + 1 - 1 = Len(f)
      BY <1>3
    <3> QED
      BY <1>7, <2>2, <3>1, <3>2
  <2> QED
    BY <1>2, <2>1, <2>2 DEF f
<1>9. Whole' = f \o b
  BY <1>6, <1>8 DEF Whole
<1> QED
  BY <1>5, <1>8, <1>9

(***************************************************************************)
(* What is whole after a failed write: as before, or without the record    *)
(* the write was about.                                                    *)
(***************************************************************************)
LEMMA FailureLeaves ==
    ASSUME LogInv, NEW last \in {Len(buffer) - 2, Len(buffer)}, last \in Nat,
           Whole' = Kept \o SubSeq(buffer, 1, last)
    PROVE  /\ Whole' \in Seq(Pieces) /\ Begins(Whole', Whole)
           /\ Len(Whole') \in {Len(Whole) - 2, Len(Whole)} /\ durable <= Len(Whole')
<1>1. Len(buffer) \in Nat
  BY DEF LogInv, TypeOK
<1>2. last \in 0..Len(buffer)
  BY <1>1
<1>3. Whole' \in Seq(Pieces) /\ Len(Whole') = Len(Kept) + last /\ Begins(Whole', Whole)
  BY <1>2, WrittenIs
<1>4. Len(Whole) = Len(Kept) + Len(buffer) /\ durable \in 0..Len(Kept) /\ Len(Kept) \in Nat
  BY WholeIs
<1>5. durable <= Len(Whole')
  BY <1>3, <1>4
<1>6. Len(Whole') \in {Len(Whole) - 2, Len(Whole)}
  <2>1. CASE last = Len(buffer)
    BY <1>3, <1>4, <2>1
  <2>2. CASE last = Len(buffer) - 2
    BY <1>1, <1>3, <1>4, <2>2
  <2> QED
    BY <2>1, <2>2
<1> QED
  BY <1>3, <1>5, <1>6

LEMMA FlushFailsLeaves ==
    ASSUME LogInv, FlushFails
    PROVE  /\ overlap' = 1 => file'[Len(file')] = Fragment
           /\ Whole' \in Seq(Pieces) /\ Begins(Whole', Whole)
           /\ Len(Whole') \in {Len(Whole) - 2, Len(Whole)} /\ durable <= Len(Whole')
<1>1. PICK w \in Writes, last \in {Len(buffer) - 2, Len(buffer)} :
          /\ w.took < last /\ file' = w.file
          /\ buffer' = SubSeq(buffer, w.took + 1, last) /\ overlap' = w.cut
  BY DEF FlushFails
<1>2. last \in 0..Len(buffer) /\ last \in Nat /\ w.took <= last
  <2>1. TypeOK /\ durable + overlap <= Len(file) /\ Len(buffer) \in Nat
    BY DEF LogInv, TypeOK
  <2>2. w.took \in 0..Len(buffer)
    BY <2>1, WritesKeep
  <2> QED
    BY <1>1, <2>1, <2>2
<1>3. /\ Whole' = Kept \o SubSeq(buffer, 1, last)
      /\ overlap' = 1 => file'[Len(file')] = Fragment
  BY <1>1, <1>2, RestIs
<1> QED
  BY <1>2, <1>3, FailureLeaves

LEMMA LargeWriteLeaves ==
    ASSUME LogInv, LargeWriteFails, ~torn'
    PROVE  /\ Whole' \in Seq(Pieces) /\ Begins(Whole', Whole)
           /\ Len(Whole') \in {Len(Whole) - 2, Len(Whole)} /\ durable <= Len(Whole')
<1>1. PICK w \in Writes : w.took = Len(buffer) - 2 /\ file' = w.file /\ w.cut # 1
  BY DEF LargeWriteFails
<1> DEFINE last == Len(buffer) - 2
<1>2. /\ last \in 0..Len(buffer) /\ last \in Nat /\ w.took <= last /\ w.cut = 0
      /\ buffer \in Seq(Records \cup {Newline})
  <2>1. TypeOK /\ durable + overlap <= Len(file) /\ Len(buffer) \in Nat
    BY DEF LogInv, TypeOK
  <2>2. w.took \in 0..Len(buffer) /\ w.cut \in 0..1
    BY <2>1, WritesKeep
  <2> QED
    BY <1>1, <2>1, <2>2 DEF LogInv, TypeOK
<1>3. buffer' = SubSeq(buffer, w.took + 1, last) /\ overlap' = w.cut
  <2>1. SubSeq(buffer, last + 1, last) = <<>>
    BY <1>2
  <2> QED
    BY <1>1, <1>2, <2>1 DEF LargeWriteFails
<1>4. Whole' = Kept \o SubSeq(buffer, 1, last)
  BY <1>1, <1>2, <1>3, RestIs
<1> QED
  BY <1>2, <1>4, FailureLeaves

\* append hands the file object one more line.
LEMMA BeginAdds ==
    ASSUME LogInv, Begin
    PROVE  LET r == [seq |-> seq + 1, at |-> appends + 1]
           IN  /\ r \in Records /\ Len(Whole') = Len(Whole) + 2 /\ Whole' \in Seq(Pieces)
               /\ \A i \in 1..Len(Whole) : Whole'[i] = Whole[i]
               /\ Whole'[Len(Whole) + 1] = r /\ Whole'[Len(Whole) + 2] = Newline
<1> DEFINE r == [seq |-> seq + 1, at |-> appends + 1]
           t == <<r, Newline>>
<1>1. seq \in Nat /\ appends \in Nat /\ buffer \in Seq(Pieces)
  BY DEF LogInv, TypeOK, Pieces
<1>2. r \in Records
  BY <1>1 DEF Records
<1>3. t \in Seq(Pieces) /\ Len(t) = 2 /\ t[1] = r /\ t[2] = Newline
  BY <1>2 DEF Pieces
<1>4. buffer' = buffer \o t /\ Kept' = Kept
  BY DEF Begin, Kept
<1>5. Kept \in Seq(Pieces) /\ Whole \in Seq(Pieces) /\ Len(Whole) \in Nat
  BY WholeIs
<1> HIDE DEF r, t
<1>6. Whole' = Whole \o t
  <2>1. Kept \in Seq(Pieces)
    BY <1>5
  <2>2. buffer \in Seq(Pieces)
    BY <1>1
  <2>3. t \in Seq(Pieces)
    BY <1>3
  <2>4. (Kept \o buffer) \o t = Kept \o (buffer \o t)
    BY <2>1, <2>2, <2>3, ConcatAssociative
  <2> QED
    BY <1>4, <2>4 DEF Whole
<1>7. /\ Whole \o t \in Seq(Pieces) /\ Len(Whole \o t) = Len(Whole) + Len(t)
      /\ \A i \in 1..Len(Whole) : (Whole \o t)[i] = Whole[i]
      /\ \A i \in 1..Len(t) : (Whole \o t)[Len(Whole) + i] = t[i]
  <2>1. Whole \in Seq(Pieces)
    BY <1>5
  <2>2. t \in Seq(Pieces)
    BY <1>3
  <2> QED
    BY <2>1, <2>2, ConcatIs
<1> QED
  BY <1>2, <1>3, <1>6, <1>7 DEF r

\* The new line is the last, with the newest append and the next number.
LEMMA BeginKeepsOrder ==
    ASSUME LogInv, LinesInv, ~torn, Begin
    PROVE  LinesInv'
<1> DEFINE r == [seq |-> seq + 1, at |-> appends + 1]
           L == Len(Whole)
           W == Whole'
<1>1. /\ r \in Records /\ Len(W) = L + 2 /\ W \in Seq(Pieces)
      /\ \A i \in 1..L : W[i] = Whole[i]
      /\ W[L + 1] = r /\ W[L + 2] = Newline
  BY BeginAdds
<1>2. /\ pc = "ready" /\ pc' = "flush" /\ seq' = seq + 1 /\ appends' = appends + 1
      /\ acked' = acked /\ durable' = durable /\ torn' = torn
      /\ overlap' = overlap /\ file' = file
  BY DEF Begin
<1>3. /\ L \in Nat /\ durable \in 0..L /\ Newline \notin Records
      /\ seq \in Nat /\ appends \in Nat /\ Whole \in Seq(Pieces)
  BY WholeIs, PieceAssumption DEF LogInv, TypeOK
<1>4. r.seq = seq + 1 /\ r.at = appends + 1
  OBVIOUS
<1> HIDE DEF r, L, W
<1>5. 2 * seq <= L /\ \A s \in acked : s.seq <= seq
  BY <1>2 DEF LinesInv, Numbered, L
<1>6. \E n \in Nat : HasLines(W, n)
  <2>1. PICK n \in Nat : HasLines(Whole, n)
    BY DEF LinesInv
  <2>2. L = 2 * n /\ \A k \in 1..n : Whole[2 * k - 1] \in Records /\ Whole[2 * k] = Newline
    BY <2>1 DEF HasLines, L
  <2>3. ASSUME NEW k \in 1..n + 1
        PROVE  W[2 * k - 1] \in Records /\ W[2 * k] = Newline
    <3>1. CASE k = n + 1
      BY <1>1, <2>2, <3>1
    <3>2. CASE k # n + 1
      <4>1. k \in 1..n /\ 2 * k - 1 \in 1..L /\ 2 * k \in 1..L
        BY <2>2, <3>2
      <4> QED
        BY <1>1, <2>2, <4>1
    <3> QED
      BY <3>1, <3>2
  <2>4. HasLines(W, n + 1)
    BY <1>1, <2>2, <2>3 DEF HasLines
  <2> QED
    BY <2>4
<1>7. ASSUME NEW i \in 1..Len(W), W[i] \in Records
      PROVE  (i \in 1..L /\ W[i] = Whole[i]) \/ (i = L + 1 /\ W[i] = r)
  BY <1>1, <1>3, <1>7
<1>8. \A i \in 1..L : Whole[i] \in Records => /\ Whole[i].at <= appends
                                              /\ 2 * Whole[i].seq <= i + 1
                                              /\ Whole[i].at \in Nat
  BY DEF LinesInv, InOrder, L, Records
<1>9. InOrder(W, appends + 1)
  <2>1. ASSUME NEW i \in 1..Len(W), NEW j \in 1..Len(W),
               i < j, W[i] \in Records, W[j] \in Records
        PROVE  W[i].at < W[j].at
    <3>1. CASE j \in 1..L
      <4>1. i \in 1..L /\ W[i] = Whole[i] /\ W[j] = Whole[j]
        BY <1>1, <1>3, <2>1, <3>1
      <4>2. InOrder(Whole, appends)
        BY DEF LinesInv
      <4> QED
        BY <2>1, <3>1, <4>1, <4>2 DEF InOrder, L
    <3>2. CASE j = L + 1
      <4>1. i \in 1..L /\ W[i] = Whole[i] /\ W[j] = r
        BY <1>1, <1>3, <2>1, <3>2
      <4> QED
        BY <1>3, <1>4, <1>8, <2>1, <4>1
    <3> QED
      BY <1>7, <2>1, <3>1, <3>2
  <2>2. ASSUME NEW i \in 1..Len(W), W[i] \in Records
        PROVE  W[i].at <= appends + 1 /\ 2 * W[i].seq <= i + 1
    <3>1. CASE i \in 1..L /\ W[i] = Whole[i]
      BY <1>3, <1>8, <2>2, <3>1
    <3>2. CASE i = L + 1 /\ W[i] = r
      BY <1>3, <1>4, <1>5, <3>2
    <3> QED
      BY <1>7, <2>2, <3>1, <3>2
  <2> QED
    BY <2>1, <2>2 DEF InOrder
<1>10. AckedIn(W, acked, durable)
  <2>1. ASSUME NEW s \in acked PROVE \E i \in 1..durable - 1 : W[i] = s
    <3>1. PICK i \in 1..durable - 1 : Whole[i] = s
      BY DEF LinesInv, AckedIn
    <3>2. i \in 1..L
      BY <1>3, <3>1
    <3> QED
      BY <1>1, <3>1, <3>2
  <2>2. ASSUME NEW i \in 1..Len(W), NEW j \in 1..Len(W),
               i < j, W[i] \in acked, W[j] \in Records
        PROVE  W[i].seq < W[j].seq
    <3>1. CASE j \in 1..L
      <4>1. i \in 1..L /\ W[i] = Whole[i] /\ W[j] = Whole[j]
        BY <1>1, <1>3, <2>2, <3>1
      <4>2. AckedIn(Whole, acked, durable)
        BY DEF LinesInv
      <4> QED
        BY <2>2, <3>1, <4>1, <4>2 DEF AckedIn, L
    <3>2. CASE j = L + 1 /\ W[j] = r
      <4>1. W[i].seq <= seq /\ W[i].seq \in Nat
        BY <1>5, <2>2 DEF LogInv, TypeOK, Records
      <4> QED
        BY <1>3, <1>4, <3>2, <4>1
    <3> QED
      BY <1>7, <2>2, <3>1, <3>2
  <2> QED
    BY <2>1, <2>2 DEF AckedIn
<1>11. \A s \in acked : s.seq \in Nat
  BY DEF LogInv, TypeOK, Records
<1>12. Numbered'
  <2>1. 2 * seq' <= Len(W) /\ \A s \in acked' : s.seq < seq' /\ s.seq <= seq'
    BY <1>1, <1>2, <1>3, <1>5, <1>11
  <2>2. W[Len(W) - 1].seq = seq'
    BY <1>1, <1>2, <1>3, <1>4
  <2> QED
    BY <2>1, <2>2 DEF Numbered, W
<1>13. overlap' = 1 => file'[Len(file')] = Fragment
  BY <1>2 DEF LinesInv
<1> QED
  BY <1>2, <1>6, <1>9, <1>10, <1>12, <1>13 DEF LinesInv, W

-----------------------------------------------------------------------------
LEMMA InitLines == Init => LinesInv
<1> SUFFICES ASSUME Init PROVE LinesInv
  OBVIOUS
<1>1. Whole = <<>>
  BY DEF Init, Whole, Kept
<1>2. HasLines(<<>>, 0)
  BY DEF HasLines
<1>3. InOrder(<<>>, 0)
  BY DEF InOrder
<1>4. AckedIn(<<>>, {}, 0)
  BY DEF AckedIn
<1>5. Numbered
  BY DEF Init, Numbered
<1>6. \E n \in Nat : HasLines(Whole, n)
  BY <1>1, <1>2
<1> QED
  BY <1>1, <1>3, <1>4, <1>5, <1>6 DEF Init, LinesInv

\* Opening counts the lines, of which every acknowledged record is one.
LEMMA OpenCounts ==
    ASSUME LogInv, LinesInv, ~torn, Open
    PROVE  LinesInv'
<1>1. /\ pc = "down" /\ pc' = "ready" /\ seq' = LineCount(file)
      /\ UNCHANGED <<file, durable, buffer, overlap, acked, torn, appends>>
  BY DEF Open, bounds
<1>2. Whole' = Whole
  BY <1>1 DEF Whole, Kept
<1>3. Whole = file /\ file \in Seq(Pieces)
  <2>1. buffer = <<>> /\ overlap = 0 /\ file \in Seq(Pieces)
    BY <1>1 DEF LogInv, TypeOK
  <2>2. Kept = file
    <3>1. Len(file) - 0 = Len(file)
      BY <2>1
    <3>2. SubSeq(file, 1, Len(file)) = file
      BY <2>1
    <3> QED
      BY <2>1, <3>1, <3>2 DEF Kept
  <2> QED
    BY <2>1, <2>2 DEF Whole
<1>4. PICK n \in Nat : HasLines(Whole, n)
  BY DEF LinesInv
<1>5. seq' = n /\ Len(Whole) = 2 * n
  BY <1>1, <1>3, <1>4, LinesAreCounted DEF HasLines
<1>6. ASSUME NEW r \in acked PROVE r.seq <= n
  <2>1. PICK i \in 1..durable - 1 : Whole[i] = r
    BY DEF LinesInv, AckedIn
  <2>2. r \in Records /\ r.seq \in Nat /\ durable \in 0..Len(Whole) /\ Len(Whole) \in Nat
    BY WholeIs DEF LogInv, TypeOK, Records
  <2>3. i \in 1..Len(Whole) /\ i + 1 <= 2 * n
    BY <1>5, <2>1, <2>2
  <2>4. 2 * r.seq <= i + 1
    BY <2>1, <2>2, <2>3 DEF LinesInv, InOrder
  <2> QED
    BY <2>2, <2>3, <2>4
<1>7. Numbered'
  BY <1>1, <1>2, <1>5, <1>6 DEF Numbered
<1>8. (\E m \in Nat : HasLines(Whole, m))'
  BY <1>2, <1>4
<1> QED
  BY <1>1, <1>2, <1>7, <1>8 DEF LinesInv

\* The record an append is about is the last of the whole, and the file holds it.
LEMMA MineIs ==
    ASSUME LogInv, LinesInv, ~torn, pc = "sync"
    PROVE  /\ Whole = file /\ Len(Whole) \in Nat /\ Len(Whole) > 1 /\ Whole \in Seq(Pieces)
           /\ Mine = Whole[Len(Whole) - 1] /\ Mine \in Records
<1>1. buffer = <<>> /\ overlap = 0 /\ file \in Seq(Pieces) /\ Len(file) > 1
      /\ file[Len(file) - 1] \in Records
  BY DEF LogInv, TypeOK
<1>2. Kept = file
  <2>1. Len(file) - 0 = Len(file) /\ SubSeq(file, 1, Len(file)) = file
    BY <1>1
  <2> QED
    BY <1>1, <2>1 DEF Kept
<1>3. Whole = file
  BY <1>1, <1>2 DEF Whole
<1> QED
  BY <1>1, <1>3 DEF Mine

LEMMA SyncAcknowledges ==
    ASSUME LogInv, LinesInv, ~torn, Sync
    PROVE  LinesInv'
<1>1. /\ pc = "sync" /\ pc' = "ready" /\ durable' = Len(file)
      /\ acked' = acked \cup {Mine}
      /\ UNCHANGED <<file, buffer, overlap, seq, torn, appends>>
  BY DEF Sync, bounds
<1>2. Whole' = Whole
  BY <1>1 DEF Whole, Kept
<1> DEFINE L == Len(Whole)
<1>3. /\ Whole = file /\ L \in Nat /\ L > 1
      /\ Mine = Whole[L - 1] /\ Mine \in Records
  BY <1>1, MineIs
<1>4. PICK n \in Nat : HasLines(Whole, n)
  BY DEF LinesInv
<1>5. InOrder(Whole, appends) /\ AckedIn(Whole, acked, durable) /\ durable \in 0..L
  BY WholeIs DEF LinesInv
<1>6. Mine.seq = seq /\ \A r \in acked : r.seq < seq
  BY <1>1, <1>3 DEF LinesInv, Numbered
<1>7. L = 2 * n /\ n \in 1..n /\ Whole[L] = Newline /\ Newline \notin Records
  BY <1>3, <1>4, PieceAssumption DEF HasLines
<1>8. ASSUME NEW r \in acked' PROVE \E i \in 1..L - 1 : Whole[i] = r
  <2>1. CASE r \in acked
    <3>1. PICK i \in 1..durable - 1 : Whole[i] = r
      BY <1>5, <2>1 DEF AckedIn
    <3>2. i \in 1..L - 1
      BY <1>3, <1>5, <3>1
    <3> QED
      BY <3>1, <3>2
  <2>2. CASE r = Mine
    <3>1. L - 1 \in 1..L - 1
      BY <1>3
    <3> QED
      BY <1>3, <2>2, <3>1
  <2> QED
    BY <1>1, <2>1, <2>2
<1>9. ASSUME NEW i \in 1..L, NEW j \in 1..L,
             i < j, Whole[i] \in acked', Whole[j] \in Records
      PROVE  Whole[i].seq < Whole[j].seq
  <2>1. CASE Whole[i] \in acked
    BY <1>5, <1>9, <2>1 DEF AckedIn
  <2>2. CASE Whole[i] = Mine
    <3>1. j \in 1..L - 1
      BY <1>3, <1>7, <1>9
    <3>2. CASE j = L - 1
      <4>1. Whole[i].at < Whole[L - 1].at /\ Whole[L - 1].at \in Nat
        BY <1>3, <1>5, <1>9, <2>2, <3>2 DEF InOrder, Records
      <4> QED
        BY <1>3, <2>2, <4>1
    <3>3. CASE j # L - 1
      <4>1. j < L - 1 /\ i < L - 1 /\ L - 1 \in 1..L
        BY <1>3, <1>9, <3>1, <3>3
      <4>2. Whole[i].at < Whole[L - 1].at /\ Whole[L - 1].at \in Nat
        BY <1>3, <1>5, <2>2, <4>1 DEF InOrder, Records
      <4> QED
        BY <1>3, <2>2, <4>2
    <3> QED
      BY <3>2, <3>3
  <2> QED
    BY <1>1, <1>9, <2>1, <2>2
<1>10. AckedIn(Whole, acked', durable')
  BY <1>1, <1>3, <1>8, <1>9 DEF AckedIn
<1>11. Numbered'
  <2>1. 2 * seq <= L /\ \A r \in acked : r.seq <= seq
    BY <1>1 DEF LinesInv, Numbered
  <2>2. \A r \in acked' : r.seq <= seq
    <3>1. seq \in Nat
      BY DEF LogInv, TypeOK
    <3> QED
      BY <1>1, <1>6, <2>1, <3>1
  <2> QED
    BY <1>1, <1>2, <2>1, <2>2 DEF Numbered
<1>12. (\E m \in Nat : HasLines(Whole, m))'
  BY <1>2, <1>4
<1> QED
  BY <1>1, <1>2, <1>5, <1>10, <1>11, <1>12 DEF LinesInv

\* The number of a failed append is taken back, with its line or without:
\* nothing acknowledged has it.
LEMMA FailedTakesBack ==
    ASSUME LogInv, LinesInv, ~torn,
           Whole' \in Seq(Pieces), Begins(Whole', Whole),
           Len(Whole') \in {Len(Whole) - 2, Len(Whole)}, durable <= Len(Whole'),
           overlap' = 1 => file'[Len(file')] = Fragment,
           pc \in {"flush", "sync"}, pc' = "ready", seq' = seq - 1,
           UNCHANGED <<acked, durable, appends>>
    PROVE  LinesInv'
<1> DEFINE W == Whole'
<1>1. seq \in Nat /\ \A r \in acked : r.seq \in Nat
  BY DEF LogInv, TypeOK, Records
<1>2. /\ 2 * seq <= Len(Whole) /\ (\A r \in acked : r.seq < seq)
      /\ Len(Whole) \in Nat /\ durable \in Nat
  BY WholeIs DEF LinesInv, Numbered
<1>3. /\ W \in Seq(Pieces) /\ Len(W) \in {Len(Whole) - 2, Len(Whole)} /\ durable <= Len(W)
      /\ \A i \in 1..Len(W) : W[i] = Whole[i]
  BY DEF Begins
<1> HIDE DEF W
<1>4. Len(W) \in Nat /\ \A i \in 1..Len(W) : i \in 1..Len(Whole)
  BY <1>2, <1>3
<1>5. 2 * seq' <= Len(W) /\ \A r \in acked' : r.seq <= seq'
  BY <1>1, <1>2, <1>3
<1>6. Numbered'
  BY <1>5 DEF Numbered, W
<1>7. \E m \in Nat : HasLines(W, m)
  <2>1. PICK n \in Nat : HasLines(Whole, n)
    BY DEF LinesInv
  <2>2. PICK m \in {n - 1, n} : Len(W) = 2 * m /\ m \in Nat
    BY <1>3, <1>4, <2>1 DEF HasLines
  <2>3. ASSUME NEW k \in 1..m PROVE W[2 * k - 1] \in Records /\ W[2 * k] = Newline
    <3>1. k \in 1..n /\ 2 * k - 1 \in 1..Len(W) /\ 2 * k \in 1..Len(W)
      BY <2>2
    <3> QED
      BY <1>3, <2>1, <3>1 DEF HasLines
  <2> QED
    BY <2>2, <2>3 DEF HasLines
<1>8. InOrder(W, appends)
  <2>1. InOrder(Whole, appends)
    BY DEF LinesInv
  <2> QED
    BY <1>3, <1>4, <2>1 DEF InOrder
<1>9. AckedIn(W, acked, durable)
  <2>1. AckedIn(Whole, acked, durable)
    BY DEF LinesInv
  <2>2. ASSUME NEW r \in acked PROVE \E i \in 1..durable - 1 : W[i] = r
    <3>1. PICK i \in 1..durable - 1 : Whole[i] = r
      BY <2>1 DEF AckedIn
    <3>2. i \in 1..Len(W)
      BY <1>2, <1>3, <1>4
    <3> QED
      BY <1>3, <3>1, <3>2
  <2>3. ASSUME NEW i \in 1..Len(W), NEW j \in 1..Len(W),
               i < j, W[i] \in acked, W[j] \in Records
        PROVE  W[i].seq < W[j].seq
    <3>1. i \in 1..Len(Whole) /\ j \in 1..Len(Whole) /\ W[i] = Whole[i] /\ W[j] = Whole[j]
      BY <1>3, <1>4
    <3> QED
      BY <2>1, <2>3, <3>1 DEF AckedIn
  <2> QED
    BY <2>2, <2>3 DEF AckedIn
<1> QED
  BY <1>6, <1>7, <1>8, <1>9 DEF LinesInv, W

\* Tearing a line leaves only what is said of the overlap.
LEMMA TornIs ==
    ASSUME LogInv, LinesInv, [Next]_vars, torn'
    PROVE  overlap' = 1 => file'[Len(file')] = Fragment
<1>1. CASE Flush
  BY <1>1, FlushMoves
<1>2. CASE FlushFails
  BY <1>2, FlushFailsLeaves
<1>3. CASE LargeWriteFails \/ Close \/ Crash \/ PowerLoss
  BY <1>3 DEF LargeWriteFails, Close, Crash, PowerLoss, Leaves
<1>4. CASE Open \/ Begin \/ Sync \/ SyncFails \/ UNCHANGED vars
  BY <1>4 DEF Open, Begin, Sync, SyncFails, vars, LinesInv
<1> QED
  BY <1>1, <1>2, <1>3, <1>4 DEF Next

LEMMA NextLines == LogInv /\ LinesInv /\ [Next]_vars => LinesInv'
<1> SUFFICES ASSUME LogInv, LinesInv, [Next]_vars PROVE LinesInv'
  OBVIOUS
<1>0. /\ file \in Seq(Pieces) /\ durable \in 0..Len(file) /\ TypeOK
      /\ durable + overlap <= Len(file)
  BY DEF LogInv, TypeOK
<1>1. CASE torn'
  BY <1>1, TornIs DEF LinesInv
<1>2. CASE ~torn'
  <2>1. ~torn
    BY <1>2 DEF Next, Open, Begin, Flush, FlushFails, LargeWriteFails, Sync, SyncFails, Close,
       Crash, PowerLoss, Leaves, vars
  <2>2. CASE Open
    BY <2>1, <2>2, OpenCounts
  <2>3. CASE Begin
    BY <2>1, <2>3, BeginKeepsOrder
  <2>4. CASE Flush
    <3>1. Whole' = Whole /\ overlap' = 0
      BY <2>4, FlushMoves
    <3>2. pc = "flush" /\ pc' = "sync" /\ UNCHANGED <<seq, acked, durable, appends, torn>>
      BY <2>4 DEF Flush, bounds
    <3>3. Numbered'
      BY <2>1, <3>1, <3>2 DEF LinesInv, Numbered
    <3> QED
      BY <2>1, <3>1, <3>2, <3>3 DEF LinesInv
  <2>5. CASE FlushFails
    <3>1. /\ pc = "flush" /\ pc' = "ready" /\ seq' = seq - 1
          /\ UNCHANGED <<acked, durable, appends>>
      BY <2>5 DEF FlushFails, WriteFails
    <3> QED
      BY <2>1, <2>5, <3>1, FlushFailsLeaves, FailedTakesBack
  <2>6. CASE Sync
    BY <2>1, <2>6, SyncAcknowledges
  <2>7. CASE SyncFails
    <3>1. /\ pc = "sync" /\ pc' = "ready" /\ seq' = seq - 1
          /\ UNCHANGED <<file, buffer, overlap, acked, durable, appends, torn>>
      BY <2>7 DEF SyncFails, bounds
    <3>2. Whole' = Whole
      BY <3>1 DEF Whole, Kept
    <3>3. overlap' = 1 => file'[Len(file')] = Fragment
      BY <3>1 DEF LinesInv
    <3>4. /\ Whole \in Seq(Pieces) /\ Begins(Whole, Whole) /\ durable <= Len(Whole)
      BY WholeIs DEF Begins
    <3> QED
      BY <2>1, <3>1, <3>2, <3>3, <3>4, FailedTakesBack
  <2>8. CASE Close
    <3>1. PICK w \in Writes : Leaves(w.file)
      BY <2>8 DEF Close
    <3>2. /\ w.file \in Seq(Pieces) /\ durable \in 0..Len(w.file)
      <4>1. w.file \in Seq(Pieces) /\ w.cut \in 0..1 /\ durable + w.cut <= Len(w.file)
        BY <1>0, <3>1, WritesKeep
      <4> QED
        BY <1>0, <4>1
    <3>3. UNCHANGED <<durable, seq, acked, appends>>
      BY <2>8 DEF Close, bounds
    <3>4. Begins(w.file, Whole) \/ TornAt(w.file)
      BY WriteIs
    <3>5. durable <= durable' /\ durable' \in 0..Len(w.file)
      BY <1>0, <3>2, <3>3
    <3> QED
      BY <1>2, <2>1, <3>1, <3>2, <3>3, <3>4, <3>5, LeavesInOrder
  <2>9. CASE Crash
    <3>1. PICK f \in Seq(Pieces) : /\ Leaves(f) /\ durable \in 0..Len(f)
                                   /\ Begins(f, Whole) \/ TornAt(f)
      <4>1. CASE Leaves(file)
        <5>1. Len(file) \in 0..Len(file) /\ SubSeq(file, 1, Len(file)) = file
          BY <1>0
        <5>2. Begins(file, Whole) \/ TornAt(file)
          BY <5>1, FileIs DEF LinesInv
        <5> QED
          BY <1>0, <4>1, <5>2
      <4>2. CASE \E w \in Writes : Leaves(w.file)
        <5>1. PICK w \in Writes : Leaves(w.file)
          BY <4>2
        <5>2. w.file \in Seq(Pieces) /\ durable \in 0..Len(w.file)
          <6>1. w.file \in Seq(Pieces) /\ w.cut \in 0..1 /\ durable + w.cut <= Len(w.file)
            BY <1>0, <5>1, WritesKeep
          <6> QED
            BY <1>0, <6>1
        <5> QED
          BY <5>1, <5>2, WriteIs
      <4> QED
        BY <2>9, <4>1, <4>2 DEF Crash
    <3>2. UNCHANGED <<durable, seq, acked, appends>>
      BY <2>9 DEF Crash
    <3>3. durable <= durable' /\ durable' \in 0..Len(f)
      BY <1>0, <3>1, <3>2
    <3> QED
      BY <1>2, <2>1, <3>1, <3>2, <3>3, LeavesInOrder
  <2>10. CASE PowerLoss
    <3>1. PICK n \in durable..Len(file) :
            \/ Leaves(SubSeq(file, 1, n)) /\ durable' = n
            \/ n < Len(file) /\ Leaves(Append(SubSeq(file, 1, n), Fragment)) /\ durable' = n + 1
      BY <2>10 DEF PowerLoss
    <3> DEFINE f == SubSeq(file, 1, n)
    <3>2. n \in 0..Len(file) /\ n \in Nat /\ durable \in Nat
      BY <1>0
    <3>3. f \in Seq(Pieces) /\ Len(f) = n
      BY <1>0, <3>2, PrefixIs
    <3>4. Begins(f, Whole) \/ TornAt(f)
      BY <3>2, FileIs DEF LinesInv
    <3>5. UNCHANGED <<seq, acked, appends>>
      BY <2>10 DEF PowerLoss
    <3> HIDE DEF f
    <3>6. CASE Leaves(f) /\ durable' = n
      <4>1. durable <= durable' /\ durable' \in 0..Len(f)
        BY <3>1, <3>2, <3>3, <3>6
      <4> QED
        BY <1>2, <2>1, <3>3, <3>4, <3>5, <3>6, <4>1, LeavesInOrder
    <3>7. CASE Leaves(Append(f, Fragment))
      <4>1. Append(f, Fragment) # <<>> /\ Append(f, Fragment)[Len(Append(f, Fragment))] = Fragment
        BY <3>3, AppendProperties, Fragment \in Pieces DEF Pieces
      <4> QED
        BY <1>2, <3>7, <4>1, PieceAssumption DEF Leaves
    <3> QED
      BY <3>1, <3>6, <3>7 DEF f
  <2>11. CASE UNCHANGED vars
    BY <2>11 DEF vars, bounds, LinesInv, Numbered, Whole, Kept
  <2>12. CASE LargeWriteFails
    <3>1. /\ pc = "flush" /\ pc' = "ready" /\ seq' = seq - 1 /\ overlap' = 0
          /\ UNCHANGED <<acked, durable, appends>>
      BY <2>12 DEF LargeWriteFails, WriteFails
    <3> QED
      BY <1>2, <2>1, <2>12, <3>1, LargeWriteLeaves, FailedTakesBack
  <2> QED
    BY <2>2, <2>3, <2>4, <2>5, <2>6, <2>7, <2>8, <2>9, <2>10, <2>11, <2>12 DEF Next
<1> QED
  BY <1>1, <1>2

\* The numbering and the lines hold in every reachable state.
THEOREM LinesInvariant == Spec => [](LogInv /\ LinesInv)
<1>1. Init => LogInv /\ LinesInv
  BY InitLog, InitLines
<1>2. LogInv /\ LinesInv /\ [Next]_vars => LogInv' /\ LinesInv'
  BY NextLog, NextLines
<1> QED
  BY <1>1, <1>2, PTL DEF Spec

\* An acknowledged record of the file is where it was synced, its newline behind it.
LEMMA AckedIsPlaced ==
    ASSUME LogInv, LinesInv, ~torn, NEW i \in 1..Len(file), file[i] \in acked
    PROVE  /\ i \in 1..Len(Whole) /\ Whole[i] = file[i]
           /\ i + 1 <= durable /\ durable <= Len(file) /\ Whole[i] \in Records
           /\ \A k \in 1..i + 1 : file[k] = Whole[k]
<1>1. /\ file[i] \in Records /\ Fragment \notin Records /\ overlap \in 0..1
      /\ file \in Seq(Pieces)
  BY PieceAssumption DEF LogInv, TypeOK
<1>2. i \in 1..Len(Kept)
  <2>1. overlap = 1 => i # Len(file)
    BY <1>1 DEF LinesInv
  <2> QED
    BY <1>1, <2>1, WholeIs
<1>3. /\ Len(Kept) \in Nat /\ Len(Whole) \in Nat /\ Len(Kept) <= Len(Whole)
      /\ durable \in 0..Len(Kept) /\ Len(Kept) <= Len(file)
      /\ \A k \in 1..Len(Kept) : Whole[k] = file[k]
  <2>1. buffer \in Seq(Pieces)
    BY DEF LogInv, TypeOK, Pieces
  <2> QED
    BY <1>1, <2>1, WholeIs
<1>4. PICK j \in 1..durable - 1 : Whole[j] = file[i]
  BY DEF LinesInv, AckedIn
<1>5. j \in 1..Len(Whole) /\ i \in 1..Len(Whole) /\ Whole[i] = Whole[j] /\ j + 1 <= durable
  BY <1>2, <1>3, <1>4
<1>6. i = j
  <2>1. InOrder(Whole, appends) /\ Whole[i] \in Records /\ Whole[i].at \in Nat
    BY <1>1, <1>2, <1>3 DEF LinesInv, Records
  <2>2. i < j => Whole[i].at < Whole[j].at
    BY <1>5, <2>1 DEF InOrder
  <2>3. j < i => Whole[j].at < Whole[i].at
    BY <1>5, <2>1 DEF InOrder
  <2> QED
    BY <1>5, <2>1, <2>2, <2>3
<1>7. \A k \in 1..i + 1 : k \in 1..Len(Kept)
  BY <1>3, <1>5, <1>6
<1> QED
  BY <1>1, <1>2, <1>3, <1>5, <1>6, <1>7

\* Until a line is torn, a reader finds every acknowledged record alone
\* on its line (append's retries of a write that failed, read_records).
THEOREM AcknowledgedIsReadable == Spec => []AckedIsReadable
<1>1. LogInv /\ LinesInv => AckedIsReadable
  <2> SUFFICES ASSUME LogInv, LinesInv, ~torn, NEW i \in 1..Len(file), file[i] \in acked
               PROVE  Alone(i)
    BY DEF AckedIsReadable
  <2>1. /\ i \in 1..Len(Whole) /\ Whole[i] = file[i] /\ Whole[i] \in Records
        /\ i + 1 <= durable /\ durable <= Len(file)
        /\ \A k \in 1..i + 1 : file[k] = Whole[k]
    BY AckedIsPlaced
  <2>2. PICK n \in Nat : HasLines(Whole, n)
    BY DEF LinesInv
  <2>3. Whole \in Seq(Pieces) /\ durable \in Nat /\ Len(file) \in Nat
    BY WholeIs DEF LogInv, TypeOK
  <2>4. /\ i = 1 \/ Whole[i - 1] = Newline
        /\ i < Len(Whole) /\ Whole[i + 1] = Newline
    BY <2>1, <2>2, <2>3, LinesAre
  <2>5. file[i + 1] = Newline /\ i < Len(file)
    <3>1. i + 1 \in 1..i + 1
      OBVIOUS
    <3> QED
      BY <2>1, <2>3, <2>4, <3>1
  <2>6. i = 1 \/ file[i - 1] = Newline
    <3>1. i = 1 \/ i - 1 \in 1..i + 1
      OBVIOUS
    <3> QED
      BY <2>1, <2>4, <3>1
  <2> QED
    BY <2>5, <2>6 DEF Alone
<1> QED
  BY <1>1, LinesInvariant, PTL

\* Until a line is torn, the numbers of the acknowledged records grow
\* along the file (the count of lines at start, the number taken back).
THEOREM AcknowledgedSeqsGrow == Spec => []AckedSeqsGrow
<1>1. LogInv /\ LinesInv => AckedSeqsGrow
  <2> SUFFICES ASSUME LogInv, LinesInv, ~torn,
                      NEW i \in 1..Len(file), NEW j \in 1..Len(file),
                      i < j, file[i] \in acked, file[j] \in acked
               PROVE  file[i].seq < file[j].seq
    BY DEF AckedSeqsGrow
  <2>1. /\ i \in 1..Len(Whole) /\ Whole[i] = file[i]
        /\ j \in 1..Len(Whole) /\ Whole[j] = file[j] /\ Whole[j] \in Records
    BY AckedIsPlaced
  <2> QED
    BY <2>1 DEF LinesInv, AckedIn
<1> QED
  BY <1>1, LinesInvariant, PTL

(***************************************************************************)
(* The log only grows: what is on the disk is never rewritten or cut off,  *)
(* by a write, a failure, a crash or a power loss; no acknowledgement is   *)
(* taken back; and what a step acknowledges is on the disk when it does.   *)
(***************************************************************************)
LogGrows ==
    /\ durable <= durable' /\ \A i \in 1..durable : file'[i] = file[i]
    /\ acked \subseteq acked'
    /\ \A r \in acked' \ acked : \E i \in 1..durable' : file'[i] = r

LEMMA GrowthStep ==
    ASSUME LogInv, LogInv', [Next]_vars
    PROVE  LogGrows
<1>0. TypeOK /\ TypeOK' /\ AckedIsDurable' /\ durable + overlap <= Len(file)
      /\ durable \in Nat
  BY DEF LogInv, TypeOK
<1>1. ASSUME durable <= durable', \A i \in 1..durable : file'[i] = file[i], acked \subseteq acked'
      PROVE  LogGrows
  BY <1>0, <1>1 DEF LogGrows, AckedIsDurable
<1>2. ASSUME UNCHANGED <<file, durable, acked>> PROVE LogGrows
  BY <1>0, <1>1, <1>2
<1>3. ASSUME NEW w \in Writes, file' = w.file, UNCHANGED <<durable, acked>> PROVE LogGrows
  BY <1>0, <1>1, <1>3, WritesKeep
<1>4. CASE Flush
  <2>1. buffer \in Seq(Pieces) /\ Kept \in Seq(Pieces) /\ durable <= Len(Kept)
        /\ \A i \in 1..durable : Kept[i] = file[i]
    BY <1>0, KeptIs DEF TypeOK, Pieces
  <2> DEFINE g == Kept \o buffer
  <2>2. \A i \in 1..durable : g[i] = file[i]
    <3>1. /\ Len(Kept) \in Nat /\ \A i \in 1..durable : i \in 1..Len(Kept)
          /\ \A i \in 1..Len(Kept) : g[i] = Kept[i]
      BY <1>0, <2>1, ConcatIs
    <3> HIDE DEF g
    <3> QED
      BY <2>1, <3>1
  <2>3. file' = g /\ durable' = durable /\ acked' = acked
    BY <1>4 DEF Flush
  <2> HIDE DEF g
  <2> QED
    BY <1>0, <1>1, <2>2, <2>3
<1>5. CASE Sync
  BY <1>0, <1>1, <1>5 DEF Sync, TypeOK
<1>6. CASE FlushFails \/ LargeWriteFails
  BY <1>3, <1>6 DEF FlushFails, LargeWriteFails, WriteFails
<1>7. CASE Close
  BY <1>3, <1>7 DEF Close, Leaves
<1>8. CASE Crash
  <2>1. file' = file \/ \E w \in Writes : file' = w.file
    BY <1>8 DEF Crash, Leaves
  <2>2. UNCHANGED <<durable, acked>>
    BY <1>8 DEF Crash
  <2> QED
    BY <1>2, <1>3, <2>1, <2>2
<1>9. CASE PowerLoss
  <2>1. PICK n \in durable..Len(file) :
          \/ file' = SubSeq(file, 1, n) /\ durable' = n
          \/ file' = Append(SubSeq(file, 1, n), Fragment) /\ durable' = n + 1
    BY <1>9 DEF PowerLoss, Leaves
  <2> DEFINE f == SubSeq(file, 1, n)
  <2>2. f \in Seq(Pieces) /\ Len(f) = n /\ \A i \in 1..durable : f[i] = file[i]
    BY <1>0, PrefixIs DEF TypeOK
  <2>3. n \in Nat /\ durable <= n
    BY <1>0 DEF TypeOK
  <2> HIDE DEF f
  <2>4. \A i \in 1..durable : Append(f, Fragment)[i] = file[i]
    BY <1>0, <2>2, <2>3, AppendProperties, Fragment \in Pieces DEF Pieces
  <2>5. acked' = acked
    BY <1>9 DEF PowerLoss
  <2> QED
    BY <1>0, <1>1, <2>1, <2>2, <2>3, <2>4, <2>5 DEF f
<1>10. CASE Open \/ Begin \/ SyncFails \/ UNCHANGED vars
  BY <1>2, <1>10 DEF Open, Begin, SyncFails, vars
<1> QED
  BY <1>4, <1>5, <1>6, <1>7, <1>8, <1>9, <1>10 DEF Next

\* The log is append-only on the disk, whatever fails (append, close, restart).
THEOREM TheLogOnlyGrows == Spec => [][LogGrows]_vars
<1>1. LogInv /\ LogInv' /\ [Next]_vars => [LogGrows]_vars
  BY GrowthStep
<1> QED
  BY <1>1, LogInvariant, PTL DEF Spec
=============================================================================
