---------------------------- MODULE DecisionLog ----------------------------
(***************************************************************************)
(* The decision log (pep/host/log.py, DecisionLog): an append-only file of *)
(* lines numbered by seq, a buffer that a failed write leaves behind, and  *)
(* the crashes, power losses and restarts the file outlives.               *)
(*                                                                         *)
(* The file is a sequence of records and newlines; a Fragment is part of a *)
(* record.  An append holds the log's lock from its first step to its      *)
(* last, so one append at a time is all the threads can do.                *)
(***************************************************************************)
EXTENDS Integers, Sequences, FiniteSets

CONSTANTS
    Newline, Fragment,
    MaxAppends, MaxFailures, MaxCrashes     \* bounds

ASSUME LogAssumption ==
    /\ MaxAppends \in Nat /\ MaxFailures \in Nat /\ MaxCrashes \in Nat

\* A record's seq, and which append wrote it.
Records == [seq : Nat, at : Nat]

ASSUME PieceAssumption == {Newline, Fragment} \cap Records = {} /\ Newline # Fragment

Pieces == Records \cup {Newline, Fragment}

VARIABLES
    file,       \* the file as a reader sees it
    durable,    \* how much of it survives a power loss
    buffer,     \* what the file object holds back
    overlap,    \* 1 if the file ends with a part of the buffer's first record
    seq,        \* _seq
    pc,         \* "down", "ready", "flush", "sync"
    acked,      \* records whose append returned
    torn,       \* a line was cut short, and what completes it is lost (history)
    appends, failures, crashes

bounds == <<appends, failures, crashes>>
vars == <<file, durable, buffer, overlap, seq, pc, acked, torn, bounds>>

-----------------------------------------------------------------------------
\* Every line begins with a record or a part of one, so none is empty.
LineCount(f) ==
    Cardinality({i \in 1..Len(f) : f[i] = Newline})
        + IF f # <<>> /\ f[Len(f)] # Newline THEN 1 ELSE 0

\* What the file holds without the part of a record that the buffer still has.
Kept == SubSeq(file, 1, Len(file) - overlap)

\* Results of a write of the buffer that may stop anywhere: what the file
\* becomes, how much of the buffer it took, and whether it cut a record.
Writes ==
    {[file |-> Kept \o SubSeq(buffer, 1, n), took |-> n, cut |-> 0] :
        n \in overlap..Len(buffer)}
    \cup
    {[file |-> Kept \o SubSeq(buffer, 1, n) \o <<Fragment>>, took |-> n, cut |-> 1] :
        n \in {m \in 0..(Len(buffer) - 1) : buffer[m + 1] \in Records}}

\* The file a process leaves for the next one to open.
Leaves(f) ==
    /\ file' = f
    /\ torn' = (torn \/ (f # <<>> /\ f[Len(f)] # Newline))
    /\ buffer' = <<>> /\ overlap' = 0
    /\ pc' = "down"

Init ==
    /\ file = <<>> /\ durable = 0
    /\ buffer = <<>> /\ overlap = 0
    /\ seq = 0 /\ pc = "down" /\ acked = {} /\ torn = FALSE
    /\ appends = 0 /\ failures = 0 /\ crashes = 0

-----------------------------------------------------------------------------
\* Mutant: the lines already there are not counted.
OpenAtZero ==
    /\ pc = "down"
    /\ seq' = 0
    /\ pc' = "ready"
    /\ UNCHANGED <<file, durable, buffer, overlap, acked, torn, bounds>>

\* Opening counts the lines already there.
Open ==
    /\ pc = "down"
    /\ seq' = LineCount(file)
    /\ pc' = "ready"
    /\ UNCHANGED <<file, durable, buffer, overlap, acked, torn, bounds>>

\* Mutant: the number is not taken before the record is built.
BeginUnnumbered ==
    /\ pc = "ready" /\ appends < MaxAppends
    /\ appends' = appends + 1
    /\ UNCHANGED seq
    /\ buffer' = buffer \o <<[seq |-> seq, at |-> appends'], Newline>>
    /\ pc' = "flush"
    /\ UNCHANGED <<file, durable, overlap, acked, torn, failures, crashes>>

\* append numbers the record and hands it to the file object.
Begin ==
    /\ pc = "ready" /\ appends < MaxAppends
    /\ appends' = appends + 1
    /\ seq' = seq + 1
    /\ buffer' = buffer \o <<[seq |-> seq', at |-> appends'], Newline>>
    /\ pc' = "flush"
    /\ UNCHANGED <<file, durable, overlap, acked, torn, failures, crashes>>

Flush ==
    /\ pc = "flush"
    /\ file' = Kept \o buffer
    /\ buffer' = <<>> /\ overlap' = 0
    /\ pc' = "sync"
    /\ UNCHANGED <<durable, seq, acked, torn, bounds>>

\* The write of an append fails, and its number is taken back.
WriteFails ==
    /\ pc = "flush" /\ failures < MaxFailures
    /\ failures' = failures + 1
    /\ seq' = seq - 1
    /\ pc' = "ready"
    /\ UNCHANGED <<durable, acked, appends, crashes>>

\* Mutant: a write that fails takes the rest of the buffer with it.
FlushFailsEmpty ==
    /\ WriteFails
    /\ \E w \in Writes : file' = w.file
    /\ buffer' = <<>> /\ overlap' = 0
    /\ UNCHANGED torn

\* It may have put any part of the buffer into the file, and the buffer keeps
\* the rest for the next flush: but not the new record, if the older rest had
\* to be written to make room for it, and was not.
FlushFails ==
    /\ WriteFails
    /\ \E w \in Writes, last \in {Len(buffer) - 2, Len(buffer)} :
          /\ w.took < last
          /\ file' = w.file
          /\ buffer' = SubSeq(buffer, w.took + 1, last)
          /\ overlap' = w.cut
    /\ UNCHANGED torn

\* A record larger than the buffer is written past it; what a short write
\* leaves of it is nowhere.
LargeWriteFails ==
    /\ WriteFails
    /\ \E w \in Writes :
          /\ w.took = Len(buffer) - 2
          /\ file' = w.file
          /\ torn' = (torn \/ w.cut = 1)
    /\ buffer' = <<>> /\ overlap' = 0

\* The record the append is about.
Mine == file[Len(file) - 1]

\* Mutant: the append returns without waiting for the disk.
SyncSkipped ==
    /\ pc = "sync"
    /\ acked' = acked \cup {Mine}
    /\ pc' = "ready"
    /\ UNCHANGED <<file, durable, buffer, overlap, seq, torn, bounds>>

Sync ==
    /\ pc = "sync"
    /\ durable' = Len(file)
    /\ acked' = acked \cup {Mine}
    /\ pc' = "ready"
    /\ UNCHANGED <<file, buffer, overlap, seq, torn, bounds>>

\* A failed fsync takes the number back; the line stays in the file.
SyncFails ==
    /\ pc = "sync" /\ failures < MaxFailures
    /\ failures' = failures + 1
    /\ seq' = seq - 1
    /\ pc' = "ready"
    /\ UNCHANGED <<file, durable, buffer, overlap, acked, torn, appends, crashes>>

\* close() flushes what the buffer still holds, or fails to.
Close ==
    /\ pc = "ready"
    /\ \E w \in Writes : Leaves(w.file)
    /\ UNCHANGED <<durable, seq, acked, bounds>>

\* The process dies, in the middle of a write perhaps.
Crash ==
    /\ pc # "down" /\ crashes < MaxCrashes
    /\ crashes' = crashes + 1
    /\ \/ pc = "flush" /\ \E w \in Writes : Leaves(w.file)
       \/ Leaves(file)
    /\ UNCHANGED <<durable, seq, acked, appends, failures>>

\* The power goes: what was not synced is lost from some point on.
PowerLoss ==
    /\ crashes < MaxCrashes
    /\ crashes' = crashes + 1
    /\ \E n \in durable..Len(file) :
          \/ Leaves(SubSeq(file, 1, n)) /\ durable' = n
          \/ /\ n < Len(file) /\ file[n + 1] \in Records
             /\ Leaves(Append(SubSeq(file, 1, n), Fragment))
             /\ durable' = n + 1
    /\ UNCHANGED <<seq, acked, appends, failures>>

Next ==
    \/ Open \/ Begin \/ Flush \/ FlushFails \/ LargeWriteFails \/ Sync \/ SyncFails
    \/ Close \/ Crash \/ PowerLoss

Spec == Init /\ [][Next]_vars

-----------------------------------------------------------------------------
TypeOK ==
    /\ file \in Seq(Pieces)
    /\ durable \in 0..Len(file)
    /\ buffer \in Seq(Records \cup {Newline})
    /\ overlap \in 0..1
    /\ seq \in Nat
    /\ pc \in {"down", "ready", "flush", "sync"}
    /\ acked \subseteq Records
    /\ torn \in BOOLEAN
    /\ appends \in Nat /\ failures \in Nat /\ crashes \in Nat

(***************************************************************************)
(* A decision whose append returned is in the file for good, through every *)
(* crash, power loss and restart; the host enters a tool only after the    *)
(* append of its PRE_ENTRY record returned.                                *)
(***************************************************************************)
AckedIsDurable == \A r \in acked : \E i \in 1..durable : file[i] = r

(***************************************************************************)
(* Unless a crash, or a failed write of a record larger than the buffer,   *)
(* cut a line short, an acknowledged record is alone on its line, where    *)
(* read_records parses it; what a failed write left in the buffer is       *)
(* completed by the next one.                                              *)
(***************************************************************************)
Alone(i) ==
    /\ i = 1 \/ file[i - 1] = Newline
    /\ i < Len(file) /\ file[i + 1] = Newline
AckedIsReadable == ~torn => \A i \in 1..Len(file) : file[i] \in acked => Alone(i)

(***************************************************************************)
(* Unless a line was cut short, the seq of the acknowledged records grows  *)
(* along the file, across failed appends and restarts.                     *)
(***************************************************************************)
AckedSeqsGrow ==
    ~torn => \A i, j \in 1..Len(file) :
        i < j /\ file[i] \in acked /\ file[j] \in acked => file[i].seq < file[j].seq

(***************************************************************************)
(* "Count lines already there so a restarted host does not reuse seq."     *)
(***************************************************************************)
SeqIsNotReused == \A r, s \in acked : r.seq = s.seq => r = s

-----------------------------------------------------------------------------
(***************************************************************************)
(* The inductive invariant.                                                *)
(***************************************************************************)
LogInv ==
    /\ TypeOK
    /\ AckedIsDurable
    /\ durable + overlap <= Len(file)
    /\ overlap = 1 => buffer # <<>> /\ pc # "down"
    /\ pc = "sync" => /\ Len(file) > 1 /\ file[Len(file) - 1] \in Records
                      /\ buffer = <<>> /\ overlap = 0
    /\ pc \in {"flush", "sync"} => seq > 0
    /\ pc = "flush" => Len(buffer) > 1 /\ buffer[Len(buffer) - 1] \in Records
    /\ pc = "down" => buffer = <<>>
=============================================================================
