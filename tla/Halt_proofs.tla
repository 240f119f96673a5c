----------------------------- MODULE Halt_proofs -----------------------------
(* Proofs about the halt file's two sides: HaltStore's inductive invariant,  *)
(* that a kill stays, and that a write no hand meddled with is a merge, as   *)
(* HostHalt takes it for; and HostHalt's, that a halt that overtakes a call  *)
(* stops it, and that no step of the gate lifts a halt.                      *)
EXTENDS HaltStore, HostHalt, TLAPS

USE DocumentAssumption, HaltAssumption, HostAssumption

-----------------------------------------------------------------------------
(* The document.                                                             *)

(* What a reader of any contents gets is a halt state, a halt state is read  *)
(* as it was written, and it is observed as what it says.                    *)
LEMMA ReadType ==
    ASSUME NEW c \in Contents
    PROVE  /\ LibraryRead(c) \in HaltState
           /\ c \in HaltState => LibraryRead(c) = c
           /\ Observed(c) \in Modes \cup {"none"}
           /\ c \in HaltState => Observed(c) = IF IsKilled(c) THEN "killed" ELSE c.mode
BY DEF LibraryRead, Observed, IsKilled, Contents, NoState, HaltState, Modes, Active, FailClosed

(* A merge with a halted state is halted, and a kill is merged as a kill. *)
LEMMA MergeType ==
    ASSUME NEW s \in HaltState, NEW r \in HaltState
    PROVE  /\ Merge(s, r) \in HaltState
           /\ IsKilled(s) => IsKilled(Merge(s, r))
           /\ r.mode = "killed" => Merge(s, r).mode = "killed"
BY DEF Merge, IsKilled, HaltState, Modes

-----------------------------------------------------------------------------
(* HaltStore.                                                                *)

(* The jobs a writer is given carry a halt state. *)
LEMMA JobType == ASSUME NEW j \in Jobs PROVE j.state \in HaltState
BY DEF Job

LEMMA StoreStart == StoreInit => HaltInv
<1> SUFFICES ASSUME StoreInit PROVE HaltInv
    OBVIOUS
<1>1. Active \in HaltState /\ Missing \in NoState
      BY DEF Active, HaltState, Modes, NoState
<1>2. StoreTypeOK
      BY <1>1 DEF StoreInit, StoreTypeOK, Contents, States
<1>3. LockInv
      BY DEF StoreInit, LockInv, Critical
<1>4. MergeInv
      BY DEF StoreInit, MergeInv, MergesRight, Conditional
<1>5. DurableInv
      BY DEF StoreInit, DurableInv, WrittenKillIsDurable
<1> QED BY <1>2, <1>3, <1>4, <1>5 DEF HaltInv

LEMMA StoreTypeStep == HaltInv /\ [StoreNext]_storeVars => StoreTypeOK'
<1> SUFFICES ASSUME HaltInv, [StoreNext]_storeVars PROVE StoreTypeOK'
    OBVIOUS
<1> USE DEF HaltInv, StoreTypeOK, Return, MoveTo, Proceed, Release, Tell, Acknowledge, States
<1>1. CASE PowerLoss
      BY <1>1 DEF PowerLoss
<1>2. CASE WriteBack
      BY <1>2 DEF WriteBack
<1>3. CASE \E c \in Edits : EditUnlocked(c)
      BY <1>3 DEF EditUnlocked, Contents, HaltState, NoState
<1>4. ASSUME NEW w \in Writers, Begin(w) \/ CheckKill(w) \/ CheckInit(w) PROVE StoreTypeOK'
  <2>1. CASE Begin(w)
        BY <2>1 DEF Begin
  <2>2. CASE CheckKill(w)
        BY <2>2 DEF CheckKill
  <2>3. CASE CheckInit(w)
        BY <2>3 DEF CheckInit
  <2> QED BY <1>4, <2>1, <2>2, <2>3
<1>5. ASSUME NEW w \in Writers,
             Lock(w) \/ LockTimeout(w) \/ LockError(w) \/ Crash(w) \/ Confirm(w)
      PROVE  StoreTypeOK'
      BY <1>5 DEF Lock, LockTimeout, LockError, Crash, Confirm
<1>6. ASSUME NEW w \in Writers, ReadAndMerge(w) PROVE StoreTypeOK'
  <2>1. job[w] \in Jobs
        BY <1>6 DEF MergeInv, MergesRight, ReadAndMerge
  <2>2. Merge(LibraryRead(file), job[w].state) \in HaltState
        BY <2>1, ReadType, JobType, MergeType
  <2> QED BY <1>6, <2>2 DEF ReadAndMerge
<1>7. ASSUME NEW w \in Writers, Replace(w) PROVE StoreTypeOK'
  <2>1. next[w] \in HaltState
        BY <1>7 DEF MergeInv, MergesRight, Replace
  <2> QED BY <1>7, <2>1 DEF Replace, Contents
<1>8. ASSUME NEW w \in Writers, Sync(w) PROVE StoreTypeOK'
      BY <1>8 DEF Sync
<1> QED BY <1>1, <1>2, <1>3, <1>4, <1>5, <1>6, <1>7, <1>8 DEF StoreNext, WriterStep, storeVars

(* The lock excludes: it is held by the one writer in the critical section. *)
LEMMA LockStep == HaltInv /\ [StoreNext]_storeVars => LockInv'
<1> SUFFICES ASSUME HaltInv, [StoreNext]_storeVars PROVE LockInv'
    OBVIOUS
<1> USE DEF HaltInv, StoreTypeOK, LockInv, Critical, Return, MoveTo, Proceed, Release, Tell
<1>1. CASE PowerLoss \/ WriteBack \/ \E c \in Edits : EditUnlocked(c)
      BY <1>1 DEF PowerLoss, WriteBack, EditUnlocked
<1>2. ASSUME NEW w \in Writers, Begin(w) \/ CheckKill(w) \/ CheckInit(w) PROVE LockInv'
      BY <1>2 DEF Begin, CheckKill, CheckInit
<1>3. ASSUME NEW w \in Writers,
             Lock(w) \/ LockTimeout(w) \/ LockError(w) \/ Crash(w) \/ Confirm(w)
      PROVE  LockInv'
      BY <1>3 DEF Lock, LockTimeout, LockError, Crash, Confirm
<1>4. ASSUME NEW w \in Writers, ReadAndMerge(w) \/ Replace(w) PROVE LockInv'
      BY <1>4 DEF ReadAndMerge, Replace
<1>5. ASSUME NEW w \in Writers, Sync(w) PROVE LockInv'
      BY <1>5 DEF Sync
<1> QED BY <1>1, <1>2, <1>3, <1>4, <1>5 DEF StoreNext, WriterStep, storeVars

(* The merge a writer is about to rename is a merge with the present file. *)
LEMMA MergeStep == HaltInv /\ [StoreNext]_storeVars => MergeInv'
<1> SUFFICES ASSUME HaltInv, [StoreNext]_storeVars, NEW v \in Writers
             PROVE  MergesRight(v)'
    BY DEF MergeInv
<1> USE DEF HaltInv, StoreTypeOK, Return, MoveTo, Proceed, Release, Tell, Conditional
<1>0. MergesRight(v)
      BY DEF MergeInv
<1> USE DEF MergesRight
<1>1. CASE PowerLoss \/ WriteBack
      BY <1>0, <1>1 DEF PowerLoss, WriteBack
<1>2. CASE \E c \in Edits : EditUnlocked(c)
      BY <1>0, <1>2 DEF EditUnlocked, LockInv, Critical
<1>3. ASSUME NEW w \in Writers, Begin(w) \/ CheckKill(w) \/ CheckInit(w)
      PROVE  MergesRight(v)'
      BY <1>0, <1>3 DEF Begin, CheckKill, CheckInit
<1>4. ASSUME NEW w \in Writers,
             LockTimeout(w) \/ LockError(w) \/ Crash(w) \/ Confirm(w)
      PROVE  MergesRight(v)'
      BY <1>0, <1>4 DEF LockTimeout, LockError, Crash, Confirm
<1>5. ASSUME NEW w \in Writers, Lock(w) PROVE MergesRight(v)'
      BY <1>0, <1>5 DEF Lock, LockInv, Critical
<1>6. ASSUME NEW w \in Writers, ReadAndMerge(w) PROVE MergesRight(v)'
  <2>1. job[w] \in Jobs
        BY <1>6 DEF MergeInv, MergesRight, ReadAndMerge
  <2>2. /\ Merge(LibraryRead(file), job[w].state) \in HaltState
        /\ job[w].state.mode = "killed" =>
              Merge(LibraryRead(file), job[w].state).mode = "killed"
        BY <2>1, ReadType, JobType, MergeType
  <2> QED BY <1>0, <1>6, <2>2 DEF ReadAndMerge
<1>7. ASSUME NEW w \in Writers, Replace(w) PROVE MergesRight(v)'
      BY <1>0, <1>7 DEF Replace, LockInv, Critical
<1>8. ASSUME NEW w \in Writers, Sync(w) PROVE MergesRight(v)'
      BY <1>0, <1>8 DEF Sync
<1> QED BY <1>0, <1>1, <1>2, <1>3, <1>4, <1>5, <1>6, <1>7, <1>8 DEF StoreNext, WriterStep, storeVars

(* A writer no edit overtook leaves a halted file halted. *)
LEMMA ReplaceHalts ==
    ASSUME HaltInv, NEW w \in Writers, Replace(w), Halted(file), ~meddled
    PROVE  Halted(file)'
<1>1. job[w] \in Jobs /\ next[w] = Merge(LibraryRead(file), job[w].state)
      BY DEF HaltInv, MergeInv, MergesRight, Replace
<1>2. next[w] \in HaltState /\ IsKilled(next[w])
      BY <1>1, ReadType, JobType, MergeType DEF HaltInv, StoreTypeOK, Halted
<1>3. Halted(next[w])
      BY <1>2, ReadType DEF Halted, Contents
<1> QED BY <1>3 DEF Replace, Halted

LEMMA DurableStep == HaltInv /\ [StoreNext]_storeVars => DurableInv'
<1> SUFFICES ASSUME HaltInv, [StoreNext]_storeVars PROVE DurableInv'
    OBVIOUS
<1> USE DEF HaltInv, DurableInv, WrittenKillIsDurable, Return, MoveTo, Proceed, Release, Tell
<1>1. CASE PowerLoss \/ WriteBack \/ \E c \in Edits : EditUnlocked(c)
      BY <1>1 DEF PowerLoss, WriteBack, EditUnlocked, Halted
<1>2. ASSUME NEW w \in Writers, Begin(w) \/ CheckKill(w) \/ CheckInit(w) PROVE DurableInv'
      BY <1>2 DEF Begin, CheckKill, CheckInit, Halted
<1>3. ASSUME NEW w \in Writers,
             Lock(w) \/ LockTimeout(w) \/ LockError(w) \/ Crash(w) \/ Confirm(w)
      PROVE  DurableInv'
      BY <1>3 DEF Lock, LockTimeout, LockError, Crash, Confirm, Halted
<1>4. ASSUME NEW w \in Writers, ReadAndMerge(w) PROVE DurableInv'
      BY <1>4 DEF ReadAndMerge, Halted
<1>5. ASSUME NEW w \in Writers, Replace(w) PROVE DurableInv'
  <2>1. flock # Free
        BY <1>5 DEF Replace, LockInv, Critical
  <2>2. "wrote" \in acked => Halted(file)' /\ Halted(durable)'
        BY <1>5, <2>1, ReplaceHalts DEF Replace, Halted
  <2> QED BY <1>5, <2>1, <2>2 DEF Replace
<1>6. ASSUME NEW w \in Writers, Sync(w) PROVE DurableInv'
  <2>1. flock # Free /\ job[w] \in Jobs
        BY <1>6 DEF Sync, LockInv, Critical, MergeInv, MergesRight
  <2>2. job[w].state.mode = "killed" /\ ~meddled => Halted(file)
    <3> SUFFICES ASSUME job[w].state.mode = "killed", ~meddled PROVE Halted(file)
        OBVIOUS
    <3>1. file = next[w] /\ next[w] \in HaltState /\ next[w].mode = "killed"
          BY <1>6 DEF Sync, MergeInv, MergesRight
    <3> QED BY <3>1, ReadType DEF Halted, IsKilled, Contents
  <2> QED BY <1>6, <2>1, <2>2 DEF Sync, Acknowledge, Halted
<1> QED BY <1>1, <1>2, <1>3, <1>4, <1>5, <1>6 DEF StoreNext, WriterStep, storeVars, Halted

(* The inductive invariant holds of every instance. *)
THEOREM HaltInvariant == StoreSpec => []HaltInv
<1>1. HaltInv /\ [StoreNext]_storeVars => HaltInv'
      BY StoreTypeStep, LockStep, MergeStep, DurableStep DEF HaltInv
<1> QED BY StoreStart, <1>1, PTL DEF StoreSpec

(* A kill that was acknowledged as written is found again after any crash *)
(* or power loss, until an operator edits the file.                        *)
THEOREM KillLands == StoreSpec => []WrittenKillIsDurable
<1>1. HaltInv => WrittenKillIsDurable
      BY DEF HaltInv, DurableInv
<1> QED BY HaltInvariant, <1>1, PTL

(* No writer un-halts a halted file. *)
THEOREM KillStays == StoreSpec => KillIsSticky
<1> DEFINE A == Halted(file) /\ ~Halted(file') => edits' # edits \/ meddled \/ ~Halted(durable)
<1>1. HaltInv /\ [StoreNext]_storeVars => [A]_storeVars
  <2> SUFFICES ASSUME HaltInv, [StoreNext]_storeVars, Halted(file), ~Halted(file')
               PROVE  edits' # edits \/ meddled \/ ~Halted(durable)
      OBVIOUS
  <2>1. CASE PowerLoss
        BY <2>1 DEF PowerLoss
  <2>2. CASE \E c \in Edits : EditUnlocked(c)
        BY <2>2 DEF EditUnlocked, HaltInv, StoreTypeOK
  <2>3. ASSUME NEW w \in Writers, Replace(w) PROVE meddled
        BY <2>3, ReplaceHalts DEF Halted
  <2>4. CASE UNCHANGED file
        BY <2>4
  <2> QED BY <2>1, <2>2, <2>3, <2>4 DEF StoreNext, WriterStep, storeVars, WriteBack, Begin, CheckKill,
             CheckInit, Lock, LockTimeout, LockError, ReadAndMerge, Sync, Confirm, Crash
<1> QED BY HaltInvariant, <1>1, PTL DEF StoreSpec, KillIsSticky

(* A conditional write replaces only the mode its caller had read. *)
THEOREM ConditionalWrites == StoreSpec => ConditionalWriteCompares
<1> DEFINE A == \A w \in Writers :
                   Conditional(w) /\ phase'[w] = "sync" /\ ~meddled =>
                       Compares(file, job[w].expected)
<1>1. HaltInv => A
      BY DEF HaltInv, MergeInv, MergesRight
<1> QED BY HaltInvariant, <1>1, PTL DEF ConditionalWriteCompares

(* What a writer that no edit overtook leaves in the file is what was there, *)
(* or its request merged with it: HostHalt's CloseWrite renames in one step  *)
(* what OpenWrite merged, and this is what the store makes of the two when   *)
(* no hand meddles in between.                                               *)
WritesMerge ==
    [][\A w \in Writers :
          WriterStep(w) /\ ~meddled =>
              file' \in {file, Merge(LibraryRead(file), job[w].state)}]_storeVars

THEOREM WritesAreMerges == StoreSpec => WritesMerge
<1> DEFINE A == \A w \in Writers :
                   WriterStep(w) /\ ~meddled =>
                       file' \in {file, Merge(LibraryRead(file), job[w].state)}
<1>1. HaltInv => A
  <2> SUFFICES ASSUME HaltInv, NEW w \in Writers, WriterStep(w), ~meddled
               PROVE  file' \in {file, Merge(LibraryRead(file), job[w].state)}
      OBVIOUS
  <2>1. CASE Replace(w)
        BY <2>1 DEF HaltInv, MergeInv, MergesRight, Replace
  <2>2. CASE ~Replace(w)
        BY <2>2 DEF WriterStep, CheckKill, CheckInit, Lock, LockTimeout, ReadAndMerge, Sync, Confirm
  <2> QED BY <2>1, <2>2
<1> QED BY HaltInvariant, <1>1, PTL DEF WritesMerge

-----------------------------------------------------------------------------
(* HostHalt.                                                                 *)

(* A file that compares is a state in the expected mode, and a merge with   *)
(* it is no less halted.                                                    *)
LEMMA CompareType ==
    ASSUME NEW c \in Contents, NEW m \in Modes, Compares(c, m)
    PROVE  c \in HaltState /\ c.mode = m /\ c.available
BY DEF Compares, ReadExisting, Contents, NoState, HaltState, Modes, FailClosed

(* What a step of the gate may do to the file and to the runtime. *)
Gently ==
    /\ file' \in Contents
    /\ Observed(file') = "active" => Observed(file) = "active" \/ EditedUnderWrite
    /\ Observed(file) = "killed" => Observed(file') = "killed" \/ EditedUnderWrite
    /\ mode' \in Modes /\ available' \in BOOLEAN /\ stored' \in BOOLEAN
    /\ mode = "killed" => mode' = "killed"
    /\ mode = "suspended" /\ mode' = "active" => Observed(file) = "active" \/ EditedUnderWrite
    /\ edits' = edits
    /\ failures' \in Nat /\ starts' = starts

(* What a step that may open a write leaves: none, or a fresh one of its    *)
(* own that says no less than the file and the runtime.                     *)
Opens(who) ==
    /\ file' = file
    /\ writing' \in Write \cup {None}
    /\ writing' # None =>
          /\ writing'.by = who /\ ~writing'.edited
          /\ mode' = "killed" => writing'.next.mode = "killed"
          /\ WriteFollowsFile'

LEMMA OpenWriteType ==
    ASSUME TypeOK, NEW who \in Threads \cup {"kill", "open"}, NEW s \in HaltState,
           OpenWrite(who, s)
    PROVE  /\ writing' \in Write
           /\ writing'.by = who /\ ~writing'.edited
           /\ writing'.next = Merge(LibraryRead(file), s)
BY ReadType, MergeType DEF OpenWrite, Write, TypeOK

LEMMA RuntimeKillType ==
    ASSUME TypeOK, writing = None, NEW who \in Threads \cup {"kill", "open"}, RuntimeKill(who)
    PROVE  /\ Gently /\ Opens(who)
           /\ writing' # None => writing'.next.mode = "killed"
           /\ grant' \in [Threads -> {"none", "outstanding", "spent", "revoked"}]
<1> DEFINE requested == [mode |-> "killed", available |-> available]
           merged == Merge(LibraryRead(file), requested)
<1>1. requested \in HaltState
      BY DEF TypeOK, HaltState, Modes
<1>2. merged \in HaltState /\ merged.mode = "killed"
      BY <1>1, ReadType, MergeType DEF TypeOK
<1>3. Observed(merged) = "killed"
      BY <1>2, ReadType DEF Contents, IsKilled
<1>4. Gently /\ grant' \in [Threads -> {"none", "outstanding", "spent", "revoked"}]
      BY DEF RuntimeKill, RevokeAll, Gently, TypeOK, Modes, bounds
<1>5. CASE ~stored
      BY <1>4, <1>5 DEF RuntimeKill, Opens, TypeOK
<1>6. CASE stored
  <2>1. OpenWrite(who, requested)
        BY <1>6 DEF RuntimeKill
  <2>2. writing' \in Write /\ writing'.by = who /\ ~writing'.edited /\ writing'.next = merged
        BY <2>1, <1>1, OpenWriteType
  <2> HIDE DEF merged
  <2> QED BY <2>2, <1>2, <1>3, <1>4 DEF RuntimeKill, Opens, WriteFollowsFile
<1> QED BY <1>5, <1>6

LEMMA KillMemoryType ==
    ASSUME TypeOK, writing = None, NEW who \in Threads \cup {"kill", "open"}, KillMemory(who)
    PROVE  /\ Gently /\ Opens(who)
           /\ writing' # None => writing'.next.mode = "killed"
           /\ grant' \in [Threads -> {"none", "outstanding", "spent", "revoked"}]
BY RuntimeKillType DEF KillMemory, Gently, Opens, TypeOK, runtime, bounds

LEMMA MirrorType ==
    ASSUME TypeOK, writing = None, NEW t \in Threads, NEW m \in {"active", "suspended"},
           Mirrors(m), MirrorAs(t, m), UNCHANGED <<file, stored>>
    PROVE  Gently /\ Opens(t)
<1> DEFINE wanted == [mode |-> m, available |-> available]
           merged == Merge(LibraryRead(file), wanted)
<1>0. mode # "killed"
      BY DEF Mirrors
<1>1. CASE Compares(file, m) /\ OpenWrite(t, wanted) /\ UNCHANGED <<mode, available, bounds>>
  <2>1. file \in HaltState /\ file.mode = m /\ file.available
        BY <1>1, CompareType DEF TypeOK, Modes
  <2>2. LibraryRead(file) = file
        BY <2>1 DEF LibraryRead, NoState, HaltState
  <2>3. Observed(file) = m
        BY <2>1, ReadType DEF TypeOK, IsKilled
  <2>4. wanted \in HaltState
        BY DEF TypeOK, HaltState, Modes
  <2>5. merged.mode = m
        BY <2>1, <2>2 DEF Merge, HaltState, Modes
  <2>6. writing' \in Write /\ writing'.by = t /\ ~writing'.edited /\ writing'.next = merged
        BY <1>1, <2>4, OpenWriteType
  <2> HIDE DEF merged, wanted
  <2>7. Gently
        BY <1>1, <1>0 DEF Gently, TypeOK, bounds
  <2> QED BY <1>0, <1>1, <2>3, <2>5, <2>6, <2>7 DEF Opens, WriteFollowsFile
<1>2. CASE ~Compares(file, m) /\ Declined(m) /\ UNCHANGED <<writing, bounds>>
  <2>1. ReadExisting(file) = None \/ ReadExisting(file) \in HaltState
        BY DEF TypeOK, ReadExisting, Contents, NoState, HaltState, Modes, FailClosed
  <2>2. mode' \in Modes /\ available' \in BOOLEAN
        BY <1>2, <2>1 DEF Declined, TypeOK, Modes, HaltState
  <2>3. ~(mode = "suspended" /\ mode' = "active")
        BY <1>2, <2>1 DEF Declined, Mirrors
  <2> QED BY <1>0, <1>2, <2>2, <2>3 DEF Gently, Opens, TypeOK, bounds
<1>3. CASE /\ mode' = (IF m = "suspended" THEN m ELSE mode)
           /\ UNCHANGED <<available, writing>> /\ Fail
      BY <1>0, <1>3 DEF Gently, Opens, TypeOK, Modes, Fail
<1> QED BY <1>1, <1>2, <1>3 DEF MirrorAs

(* A mirror is looked at again under the lock: what it does when it need    *)
(* not write is nothing.                                                    *)
LEMMA HaltMirrorType ==
    ASSUME HostInv, NEW t \in Threads, HaltMirror(t)
    PROVE  Gently /\ Opens(t)
<1>1. seen[t] \in {"active", "suspended"} /\ TypeOK /\ writing = None /\ UNCHANGED <<file, stored>>
      BY DEF HostInv, HaltMirror
<1>2. CASE Mirrors(seen[t]) /\ MirrorAs(t, seen[t])
      BY <1>1, <1>2, MirrorType
<1>3. CASE UNCHANGED <<mode, available, writing, bounds>>
      BY <1>1, <1>3 DEF Gently, Opens, TypeOK, bounds
<1> QED BY <1>2, <1>3 DEF HaltMirror

(* The rename of a write no hand meddled with lifts no halt; and a halt      *)
(* that counts before any rename counts after it.                            *)
LEMMA CloseWriteType ==
    ASSUME HostInv, NEW who \in Threads \cup {"kill", "open"}, CloseWrite(who)
    PROVE  /\ Gently
           /\ writing' = None
           /\ FileHalts => FileHalts'
           /\ late' \in SUBSET Threads
<1> DEFINE goal == writing.next
<1>1. /\ writing' = None /\ writing # None /\ writing \in Write
      /\ mode = "killed" => goal.mode = "killed"
      /\ writing.edited \/ WriteFollowsFile
      BY DEF CloseWrite, HostInv, TypeOK, WriterOpen
<1>2. goal \in HaltState /\ goal \in Contents /\ goal.mode \in Modes /\ goal.available \in BOOLEAN
      BY <1>1 DEF Write, HaltState, Contents
<1>3. Observed(goal) = "active" => goal.mode = "active"
      BY <1>2, ReadType
<1> HIDE DEF goal
<1>4. late' \in SUBSET Threads
      BY DEF CloseWrite, Overtaken, CallsAt, HostInv, TypeOK
<1>5. FileHalts => FileHalts'
  <2>1. FileHalts' <=> Observed(file') # "active"
        BY <1>1 DEF FileHalts
  <2>2. file' \in {file, goal}
        BY DEF CloseWrite, goal
  <2> QED BY <1>1, <1>3, <2>1, <2>2 DEF FileHalts, WriteFollowsFile, goal
<1>6. ASSUME file' = goal, mode' = goal.mode, available' = goal.available, UNCHANGED <<bounds, stored>>
      PROVE  Gently
      BY <1>1, <1>2, <1>3, <1>6 DEF Gently, EditedUnderWrite, WriteFollowsFile, HostInv, TypeOK, bounds, goal
<1>7. ASSUME file' \in {file, goal}, mode' = IF goal.mode = "suspended" THEN "suspended" ELSE mode,
             UNCHANGED <<available, stored>>, UNCHANGED bounds \/ Fail
      PROVE  Gently
      BY <1>1, <1>2, <1>3, <1>7 DEF Gently, EditedUnderWrite, WriteFollowsFile, HostInv, TypeOK, Modes, Fail, bounds, goal
<1> QED BY <1>1, <1>4, <1>5, <1>6, <1>7 DEF CloseWrite, goal

(* The kill command leaves the file as it was or killed. *)
LEMMA KilledFileType ==
    ASSUME TypeOK, NEW c \in KilledFile(file)
    PROVE  c \in Contents /\ (c = file \/ Observed(c) = "killed")
<1>1. Killed \in HaltState /\ Killed.mode = "killed"
      BY DEF Killed, HaltState, Modes
<1>2. Merge(LibraryRead(file), Killed) \in HaltState
      BY <1>1, ReadType, MergeType DEF TypeOK
<1>3. Merge(LibraryRead(file), Killed).mode = "killed"
      BY <1>1, ReadType, MergeType DEF TypeOK
<1>4. Observed(Merge(LibraryRead(file), Killed)) = "killed"
      BY <1>2, <1>3, ReadType DEF Contents, IsKilled
<1> QED BY <1>2, <1>4 DEF KilledFile, TypeOK, Contents

LEMMA Start == Init => HostInv
<1> SUFFICES ASSUME Init PROVE HostInv
    OBVIOUS
<1>1. Active \in HaltState /\ Suspended \in HaltState
      BY DEF Active, Suspended, HaltState, Modes
<1> QED BY <1>1 DEF Init, HostInv, TypeOK, Contents, NoState, Modes, Steps

LEMMA LatchType == ASSUME TypeOK, Latch PROVE sticky' = TRUE /\ late' \subseteq Threads
BY DEF TypeOK, Latch, CallsAt

LEMMA FailType ==
    ASSUME TypeOK, Fail
    PROVE  edits' \in Nat /\ failures' \in Nat /\ starts' \in Nat
BY DEF TypeOK, Fail

LEMMA TypeStep == HostInv /\ [Next]_vars => TypeOK'
<1> SUFFICES ASSUME HostInv, [Next]_vars PROVE TypeOK'
    OBVIOUS
<1>0. TypeOK
      BY DEF HostInv
<1> USE DEF TypeOK, GoTo, bounds, runtime
<1>1. ASSUME OpenFirst \/ OpenBuild PROVE TypeOK'
  <2>1. Observed(file) \in Modes \cup {"none"}
        BY <1>0, ReadType
  <2>2. LibraryRead(file).mode \in Modes /\ LibraryRead(file).available \in BOOLEAN
        BY <1>0, ReadType DEF HaltState
  <2>3. CASE OpenFirst
    <3>1. starts' \in Nat
          BY <1>0, <2>3 DEF OpenFirst
    <3> QED BY <1>0, <2>1, <2>3, <3>1 DEF OpenFirst, Modes
  <2>4. CASE OpenBuild
        BY <1>0, <2>2, <2>4 DEF OpenBuild
  <2> QED BY <1>1, <2>3, <2>4
<1>2. ASSUME OpenAgain PROVE TypeOK'
  <2>1. CASE RuntimeKill("open")
        BY <1>0, <1>2, <2>1, RuntimeKillType DEF OpenAgain, Gently, Opens
  <2>2. CASE ~RuntimeKill("open")
        BY <1>0, <1>2, <2>2 DEF OpenAgain
  <2> QED BY <2>1, <2>2
<1>3. ASSUME Stop PROVE TypeOK'
      BY <1>0, <1>3 DEF Stop, Steps, Modes
<1>4. ASSUME NEW t \in Threads, Request(t) \/ Grant(t) PROVE TypeOK'
  <2>1. CASE Request(t)
        BY <1>0, <2>1, LatchType, FailType DEF Request, Steps, FirstLook
  <2>2. CASE Grant(t)
        BY <1>0, <2>2 DEF Grant
  <2> QED BY <1>4, <2>1, <2>2
<1>5. ASSUME NEW t \in Threads, HaltRead(t) PROVE TypeOK'
      BY <1>0, <1>5, ReadType DEF HaltRead, Steps, FirstLook, SecondLook
<1>6. ASSUME NEW t \in Threads, HaltJudge(t) PROVE TypeOK'
  <2>1. seen' \in [Threads -> Modes \cup {"none"}]
        BY <1>0, <1>6 DEF HaltJudge, HaltBlockEnds
  <2> QED BY ZenonT(30), <1>0, <1>6, <2>1, LatchType DEF HaltJudge, Judge, Steps, FirstLook, SecondLook
<1>7. ASSUME NEW t \in Threads, HaltMirror(t) PROVE TypeOK'
  <2>1. seen[t] \in {"active", "suspended"} /\ Gently /\ Opens(t)
        BY <1>7, HaltMirrorType DEF HaltMirror, HostInv
  <2>2. pc' \in [Threads -> Steps] /\ seen' \in [Threads -> Modes \cup {"none"}]
        BY <1>0, <1>7, <2>1 DEF HaltMirror, HaltBlockEnds, AfterWrite, Steps
  <2> QED BY <1>0, <1>7, <2>1, <2>2 DEF HaltMirror, Gently, Opens
<1>8. ASSUME NEW t \in Threads, HaltKill(t) PROVE TypeOK'
  <2>1. pc' \in [Threads -> Steps]
        BY <1>0, <1>8 DEF HaltKill, AfterWrite, Steps
  <2> QED BY <1>0, <1>8, <2>1, KillMemoryType DEF HaltKill, Gently, Opens
<1>9. ASSUME NEW t \in Threads,
             Check(t) \/ Evaluate(t) \/ Finalize(t) \/ PreEntry(t) \/ Claim(t)
             \/ Enter(t) \/ Answer(t)
      PROVE  TypeOK'
  <2>1. CASE Check(t) \/ PreEntry(t) \/ Answer(t)
        BY ZenonT(30), <1>0, <2>1, LatchType, FailType DEF Check, PreEntry, Answer, Steps, SecondLook
  <2>2. CASE Evaluate(t)
        BY <1>0, <2>2 DEF Evaluate, Steps
  <2>3. CASE Finalize(t) \/ Claim(t) \/ Enter(t)
        BY <1>0, <2>3 DEF Finalize, Claim, Enter, Steps
  <2> QED BY <1>9, <2>1, <2>2, <2>3
<1>10. ASSUME KillLatch PROVE TypeOK'
  <2>1. edits' \in Nat
        BY <1>0, <1>10 DEF KillLatch
  <2>2. sticky' = TRUE /\ late' \subseteq Threads
        BY <1>0, <1>10, LatchType DEF KillLatch
  <2> QED BY <1>0, <1>10, <2>1, <2>2 DEF KillLatch
<1>11. ASSUME KillWrite \/ CliKill PROVE TypeOK'
      BY <1>0, <1>11, KilledFileType DEF KillWrite, CliKill, Overtaken, CallsAt
<1>12. ASSUME KillFinish PROVE TypeOK'
      BY <1>0, <1>12, KillMemoryType DEF KillFinish, Gently, Opens
<1>13. ASSUME NEW c \in Edits, Edit(c) PROVE TypeOK'
  <2>1. writing' \in Write \cup {None}
        BY <1>0, <1>13 DEF Edit, Write
  <2> QED BY <1>0, <1>13, <2>1 DEF Edit, Overtaken, CallsAt
<1>14. ASSUME NEW t \in Threads, HaltRename(t) PROVE TypeOK'
  <2>1. pc[t] \in {"mirror1", "mirror2", "latch"}
        BY <1>14 DEF HaltRename, CloseWrite, HostInv, WriterOpen
  <2>2. pc[t] \in {"mirror1", "mirror2"} => seen[t] \in {"active", "suspended"}
        BY DEF HostInv
  <2>3. pc' \in [Threads -> Steps] /\ seen' \in [Threads -> Modes \cup {"none"}]
        BY <1>0, <1>14, <2>1, <2>2 DEF HaltRename, HaltBlockEnds, AfterWrite, Steps
  <2> QED BY <1>0, <1>14, <2>3, CloseWriteType DEF HaltRename, Gently
<1>15. ASSUME OpenKilled \/ KillRename PROVE TypeOK'
      BY <1>0, <1>15, CloseWriteType DEF OpenKilled, KillRename, Gently
<1>16. CASE UNCHANGED vars
      BY <1>0, <1>16 DEF vars
<1> QED BY <1>1, <1>2, <1>3, <1>4, <1>5, <1>6, <1>7, <1>8, <1>9, <1>10, <1>11, <1>12, <1>13, <1>14,
           <1>15, <1>16
        DEF Next, CallStep

(* A call that a halt overtook keeps the halt ahead of it. *)
LEMMA LateStep == HostInv /\ [Next]_vars => (\A t \in late : HaltAhead(t))'
<1> SUFFICES ASSUME HostInv, [Next]_vars, NEW v \in late'
             PROVE  HaltAhead(v)'
    OBVIOUS
<1> USE DEF HostInv, HaltAhead, GoTo, BeforeSecondRead, FirstLook
<1>0. TypeOK /\ TypeOK' /\ v \in Threads
      BY TypeStep DEF TypeOK
<1>a. Threads = DOMAIN pc /\ Threads = DOMAIN seen
      BY <1>0 DEF TypeOK
<1>b. ASSUME UNCHANGED <<file, writing>> PROVE FileHalts' <=> FileHalts
      BY <1>b DEF FileHalts
<1>c. ASSUME NEW who, Opens(who), writing = None PROVE FileHalts' <=> FileHalts
      BY <1>c DEF Opens, FileHalts
<1>1. ASSUME OpenFirst \/ OpenBuild PROVE HaltAhead(v)'
      BY <1>1, <1>b DEF OpenFirst, OpenBuild
<1>2. ASSUME OpenAgain PROVE HaltAhead(v)'
  <2>1. FileHalts' <=> FileHalts
        BY <1>0, <1>2, <1>b, <1>c, RuntimeKillType DEF OpenAgain
  <2> QED BY <1>2, <2>1 DEF OpenAgain
<1>3. ASSUME Stop PROVE HaltAhead(v)'
      BY <1>3 DEF Stop
<1>4. ASSUME NEW t \in Threads, Request(t) PROVE HaltAhead(v)'
  <2>0. FileHalts' <=> FileHalts
        BY <1>4, <1>b DEF Request
  <2>1. CASE Latch
        BY <1>0, <1>a, <1>4, <2>0, <2>1 DEF Request, Latch, CallsAt
  <2>2. CASE ~Latch
        BY ZenonT(30), <1>0, <1>a, <1>4, <2>0, <2>2 DEF Request
  <2> QED BY <2>1, <2>2
<1>5. ASSUME NEW t \in Threads, HaltRead(t) PROVE HaltAhead(v)'
  <2>1. FileHalts' <=> FileHalts
        BY <1>5, <1>b DEF HaltRead
  <2>2. FileHalts => Observed(file) # "active"
        BY DEF FileHalts
  <2> QED BY <1>0, <1>a, <1>5, <2>1, <2>2 DEF HaltRead
<1>6. ASSUME NEW t \in Threads, HaltJudge(t) PROVE HaltAhead(v)'
  <2>1. FileHalts' <=> FileHalts
        BY <1>6, <1>b DEF HaltJudge
  <2>2. /\ \A u \in Threads : u # t => seen'[u] = seen[u]
        /\ pc'[t] \in {"mirror1", "mirror2"} => seen'[t] = seen[t]
        BY <1>0, <1>a, <1>6 DEF HaltJudge, HaltBlockEnds
  <2>3. CASE v = t
        BY <1>0, <1>a, <1>6, <2>1, <2>2, <2>3 DEF HaltJudge, Judge, Latch, CallsAt
  <2>4. CASE v # t
    <3>1. pc'[v] = pc[v] /\ seen'[v] = seen[v]
          BY <1>0, <1>a, <1>6, <2>2, <2>4 DEF HaltJudge, Judge
    <3>2. sticky => sticky'
          BY <1>6 DEF HaltJudge, Judge, Latch
    <3>3. v \in late \/ sticky'
          BY <1>6 DEF HaltJudge, Judge, Latch
    <3>4. v \in late \/ pc[v] \in BeforeSecondRead \cup {"judge2"}
          BY <1>6 DEF HaltJudge, Judge, Latch, CallsAt
    <3> QED BY <2>1, <3>1, <3>2, <3>3, <3>4
  <2> QED BY <2>3, <2>4
<1>7. ASSUME NEW t \in Threads, HaltMirror(t) PROVE HaltAhead(v)'
  <2>1. FileHalts' <=> FileHalts
        BY <1>7, <1>c, HaltMirrorType DEF HaltMirror
  <2>2. seen[t] \in {"active", "suspended"}
        BY <1>7 DEF HaltMirror
  <2> QED BY <1>0, <1>a, <1>7, <2>1, <2>2 DEF HaltMirror, HaltBlockEnds, AfterWrite
<1>8. ASSUME NEW t \in Threads, HaltKill(t) PROVE HaltAhead(v)'
  <2>1. FileHalts' <=> FileHalts
        BY <1>0, <1>8, <1>c, KillMemoryType DEF HaltKill
  <2> QED BY <1>0, <1>a, <1>8, <2>1 DEF HaltKill, AfterWrite
<1>9. ASSUME NEW t \in Threads, Check(t) \/ PreEntry(t) \/ Answer(t) PROVE HaltAhead(v)'
  <2>1. FileHalts' <=> FileHalts
        BY <1>9, <1>b DEF Check, PreEntry, Answer
  <2> QED BY <1>0, <1>a, <1>9, <2>1 DEF Check, PreEntry, Answer, Latch, CallsAt
<1>10. ASSUME NEW t \in Threads, Evaluate(t) \/ Finalize(t) \/ Claim(t) \/ Enter(t) \/ Grant(t)
       PROVE  HaltAhead(v)'
  <2>1. FileHalts' <=> FileHalts
        BY <1>10, <1>b DEF Evaluate, Finalize, Claim, Enter, Grant, runtime
  <2> QED BY <1>0, <1>a, <1>10, <2>1 DEF Evaluate, Finalize, Claim, Enter, Grant
<1>11. ASSUME KillLatch PROVE HaltAhead(v)'
      BY <1>0, <1>a, <1>11 DEF KillLatch, Latch, CallsAt
<1>12. ASSUME KillWrite \/ CliKill PROVE HaltAhead(v)'
  <2>1. file' = file \/ Observed(file') = "killed"
        BY <1>0, <1>12, KilledFileType DEF KillWrite, CliKill
  <2>2. FileHalts => FileHalts'
        BY <1>12, <2>1 DEF KillWrite, CliKill, FileHalts
  <2> QED BY <1>0, <1>a, <1>12, <2>2 DEF KillWrite, CliKill, Overtaken, CallsAt
<1>13. ASSUME KillFinish PROVE HaltAhead(v)'
  <2>1. FileHalts' <=> FileHalts
        BY <1>0, <1>13, <1>c, KillMemoryType DEF KillFinish
  <2> QED BY <1>0, <1>a, <1>13, <2>1 DEF KillFinish
<1>14. ASSUME NEW c \in Edits, Edit(c) PROVE HaltAhead(v)'
  <2>1. CASE Observed(c) = "active" /\ ~sticky
        BY <1>14, <2>1 DEF Edit
  <2>2. CASE Observed(c) = "active" /\ sticky
        BY <1>0, <1>a, <1>14, <2>2 DEF Edit, Overtaken, CallsAt
  <2>3. CASE Observed(c) # "active"
    <3>1. ASSUME writing # None PROVE Observed(writing.next) = "active" => writing.next.mode = "active"
          BY <1>0, <3>1, ReadType DEF TypeOK, Write, Contents
    <3>2. ASSUME FileHalts, writing # None PROVE Observed(writing.next) # "active"
          BY <3>1, <3>2 DEF FileHalts, WriteFollowsFile
    <3>3. ASSUME writing # None PROVE writing' # None /\ writing'.next = writing.next
      <4>1. writing' = [writing EXCEPT !.edited = TRUE] /\ writing \in Write
            BY <1>0, <1>14, <3>3 DEF Edit, TypeOK
      <4>2. writing' \in Write /\ writing'.next = writing.next
            BY <4>1 DEF Write
      <4> QED BY <4>2 DEF HostAssumption
    <3>4. FileHalts => FileHalts'
          BY <1>14, <2>3, <3>2, <3>3 DEF Edit, FileHalts
    <3> QED BY <1>0, <1>a, <1>14, <2>3, <3>4 DEF Edit, Overtaken, CallsAt
  <2> QED BY <2>1, <2>2, <2>3
<1>15. ASSUME NEW t \in Threads, HaltRename(t) PROVE HaltAhead(v)'
  <2>1. (FileHalts => FileHalts') /\ late' = Overtaken
        BY <1>15, CloseWriteType DEF HaltRename, CloseWrite
  <2>2. pc[t] \in {"mirror1", "mirror2", "latch"}
        BY <1>15 DEF HaltRename, CloseWrite, WriterOpen
  <2>3. pc[t] \in {"mirror1", "mirror2"} => seen[t] \in {"active", "suspended"}
        OBVIOUS
  <2> HIDE DEF HostInv
  <2>4. \A u \in late : HaltAhead(u)
        BY DEF HostInv
  <2> QED BY <1>0, <1>a, <1>15, <2>1, <2>2, <2>3, <2>4 DEF HaltRename, HaltBlockEnds, AfterWrite, Overtaken, CallsAt
<1>16. ASSUME OpenKilled \/ KillRename PROVE HaltAhead(v)'
  <2>1. (FileHalts => FileHalts') /\ late' = Overtaken
        BY <1>16, CloseWriteType DEF OpenKilled, KillRename, CloseWrite
  <2> QED BY <1>0, <1>a, <1>16, <2>1 DEF OpenKilled, KillRename, Overtaken, CallsAt
<1>17. CASE UNCHANGED vars
      BY <1>17, <1>b DEF vars
<1> QED BY <1>1, <1>2, <1>3, <1>4, <1>5, <1>6, <1>7, <1>8, <1>9, <1>10, <1>11, <1>12, <1>13, <1>14,
           <1>15, <1>16, <1>17 DEF Next, CallStep

(* A mirror is on its way only for an active or a suspended file, and a     *)
(* kill of the host's own is latched before it is written.                  *)
LEMMA AuxStep ==
    HostInv /\ [Next]_vars =>
        /\ (\A t \in Threads :
               pc[t] \in {"mirror1", "mirror2"} => seen[t] \in {"active", "suspended"})'
        /\ (killer # "idle" => sticky)'
        /\ (boot # "up" => killer = "idle" /\ \A t \in Threads : pc[t] = "idle")'
<1> SUFFICES ASSUME HostInv, [Next]_vars
             PROVE  /\ (\A t \in Threads : pc[t] \in {"mirror1", "mirror2"} =>
                                              seen[t] \in {"active", "suspended"})'
                    /\ (killer # "idle" => sticky)'
                    /\ (boot # "up" => killer = "idle" /\ \A t \in Threads : pc[t] = "idle")'
    OBVIOUS
<1> DEFINE Goal == /\ (\A t \in Threads : pc[t] \in {"mirror1", "mirror2"} =>
                                           seen[t] \in {"active", "suspended"})'
                   /\ (killer # "idle" => sticky)'
                   /\ (boot # "up" => killer = "idle" /\ \A t \in Threads : pc[t] = "idle")'
<1> USE DEF HostInv, TypeOK, GoTo
<1>1. ASSUME OpenFirst \/ OpenBuild \/ OpenAgain \/ OpenKilled \/ Stop PROVE Goal
      BY <1>1 DEF OpenFirst, OpenBuild, OpenAgain, OpenKilled, Stop
<1>2. ASSUME NEW t \in Threads, Request(t) \/ HaltRead(t) \/ Check(t) \/ PreEntry(t) \/ Answer(t)
      PROVE  Goal
      BY <1>2 DEF Request, HaltRead, Check, PreEntry, Answer, Latch
<1>3. ASSUME NEW t \in Threads, HaltJudge(t) PROVE Goal
  <2>1. /\ \A u \in Threads : u # t => seen'[u] = seen[u]
        /\ pc'[t] \in {"mirror1", "mirror2"} => seen'[t] = seen[t]
        BY <1>3 DEF HaltJudge, HaltBlockEnds
  <2> QED BY <1>3, <2>1 DEF HaltJudge, Judge, Latch
<1>4. ASSUME NEW t \in Threads, HaltMirror(t) \/ HaltKill(t) PROVE Goal
      BY <1>4 DEF HaltMirror, HaltKill, HaltBlockEnds, AfterWrite
<1>5. ASSUME NEW t \in Threads, Evaluate(t) \/ Finalize(t) \/ Claim(t) \/ Enter(t) \/ Grant(t)
      PROVE  Goal
      BY <1>5 DEF Evaluate, Finalize, Claim, Enter, Grant
<1>6. ASSUME KillLatch \/ KillWrite \/ KillFinish \/ KillRename \/ CliKill PROVE Goal
      BY <1>6 DEF KillLatch, KillWrite, KillFinish, KillRename, CliKill, Latch
<1>7. ASSUME NEW c \in Edits, Edit(c) PROVE Goal
      BY <1>7 DEF Edit
<1>8. ASSUME NEW t \in Threads, HaltRename(t) PROVE Goal
  <2>1. pc[t] \in {"mirror1", "mirror2", "latch"}
        BY <1>8 DEF HaltRename, CloseWrite, WriterOpen
  <2> QED BY <1>8, <2>1 DEF HaltRename, HaltBlockEnds, AfterWrite
<1>9. CASE UNCHANGED vars
      BY <1>9 DEF vars
<1> QED BY <1>1, <1>2, <1>3, <1>4, <1>5, <1>6, <1>7, <1>8, <1>9 DEF Next, CallStep

(* Whoever has an open write is still where it opened it, and what it is    *)
(* about to rename says no less than the file it read, unless a hand        *)
(* meddled.                                                                 *)
LEMMA OpenWriteStep ==
    HostInv /\ [Next]_vars =>
        /\ (writing # None => WriterOpen)'
        /\ (writing # None /\ ~writing.edited => WriteFollowsFile)'
<1> SUFFICES ASSUME HostInv, [Next]_vars, writing' # None
             PROVE  WriterOpen' /\ (writing'.edited \/ WriteFollowsFile')
    OBVIOUS
<1> DEFINE Goal == WriterOpen' /\ (writing'.edited \/ WriteFollowsFile')
<1>0. TypeOK /\ (writing # None => writing \in Write)
      BY DEF HostInv, TypeOK
<1>a. ASSUME UNCHANGED <<file, boot, mode, writing>>, killer = "memory" => killer' = "memory",
             \A t \in Threads : pc[t] \in {"mirror1", "mirror2", "latch"} => pc'[t] = pc[t]
      PROVE  Goal
      BY <1>0, <1>a DEF HostInv, WriterOpen, WriteFollowsFile
<1>1. ASSUME OpenAgain PROVE Goal
  <2>1. RuntimeKill("open")
        BY <1>1 DEF OpenAgain
  <2> QED BY <1>0, <1>1, <2>1, RuntimeKillType DEF OpenAgain, Opens, WriterOpen, HostAssumption
<1>2. ASSUME NEW t \in Threads, HaltMirror(t) PROVE Goal
  <2>1. Opens(t)
        BY <1>2, HaltMirrorType
  <2>2. boot' \in {"again", "up"}
        BY <1>2 DEF HaltMirror, HostInv
  <2> QED BY <1>0, <1>2, <2>1, <2>2 DEF HaltMirror, Opens, WriterOpen, HostAssumption
<1>3. ASSUME NEW t \in Threads, HaltKill(t) PROVE Goal
  <2>1. Opens(t) /\ writing'.next.mode = "killed"
        BY <1>0, <1>3, KillMemoryType DEF HaltKill
  <2> QED BY <1>0, <1>3, <2>1 DEF HaltKill, GoTo, Opens, WriterOpen, HostAssumption, TypeOK, HostInv
<1>4. ASSUME KillFinish PROVE Goal
  <2>1. Opens("kill") /\ writing'.next.mode = "killed"
        BY <1>0, <1>4, KillMemoryType DEF KillFinish
  <2> QED BY <1>0, <1>4, <2>1 DEF KillFinish, Opens, WriterOpen, HostAssumption, TypeOK, HostInv
<1>5. ASSUME NEW c \in Edits, Edit(c) PROVE Goal
      BY <1>0, <1>5 DEF Edit, Write, HostInv, WriterOpen, runtime
<1>6. ASSUME NEW t \in Threads,
             Request(t) \/ HaltRead(t) \/ HaltJudge(t) \/ Check(t) \/ Evaluate(t) \/ Finalize(t)
             \/ PreEntry(t) \/ Claim(t) \/ Enter(t) \/ Answer(t) \/ Grant(t)
      PROVE  Goal
  <2>1. UNCHANGED <<file, boot, mode, writing, killer>>
        BY <1>6 DEF Request, HaltRead, HaltJudge, Check, Evaluate, Finalize, PreEntry, Claim,
           Enter, Answer, Grant, runtime
  <2>2. \A u \in Threads : pc[u] \in {"mirror1", "mirror2", "latch"} => pc'[u] = pc[u]
        BY <1>0, <1>6 DEF Request, HaltRead, HaltJudge, Judge, Check, Evaluate, Finalize, PreEntry,
           Claim, Enter, Answer, Grant, GoTo, TypeOK
  <2> QED BY <1>a, <2>1, <2>2
<1>7. OpenFirst \/ OpenBuild => writing # None /\ writing' = writing /\ boot \in {"down", "build"}
      BY DEF OpenFirst, OpenBuild
<1>8. ~OpenFirst /\ ~OpenBuild
      BY <1>7 DEF HostInv, WriterOpen
<1>9. ~Stop /\ ~OpenKilled /\ ~KillRename /\ ~KillWrite /\ ~CliKill /\ (\A t \in Threads : ~HaltRename(t))
      BY DEF Stop, OpenKilled, KillRename, HaltRename, CloseWrite, KillWrite, CliKill
<1>10. ASSUME KillLatch PROVE Goal
      BY <1>10, <1>a DEF KillLatch, runtime
<1>11. CASE UNCHANGED vars
      BY <1>11, <1>a DEF vars
<1> QED BY <1>1, <1>2, <1>3, <1>4, <1>5, <1>6, <1>8, <1>9, <1>10, <1>11 DEF Next, CallStep

(* The inductive invariant holds of every instance. *)
THEOREM HostInvariant == Spec => []HostInv
<1>1. HostInv /\ [Next]_vars => HostInv'
      BY TypeStep, LateStep, AuxStep, OpenWriteStep DEF HostInv
<1> QED BY Start, <1>1, PTL DEF Spec

(* A call that a halt overtook before its second look never enters the tool. *)
THEOREM NoCallOutrunsAHalt == Spec => []NoLateEntry
<1>1. HostInv => NoLateEntry
      BY DEF HostInv, HaltAhead, NoLateEntry
<1> QED BY HostInvariant, <1>1, PTL

(* What each step of the gate does to the file and the runtime: nothing      *)
(* that Gently does not allow, or it is an operator's.                       *)
LEMMA GateIsGentle ==
    ASSUME HostInv, Next, edits' = edits, ~OpenFirst, ~OpenBuild, ~Stop
    PROVE  Gently
<1>0. TypeOK
      BY DEF HostInv
<1>1. ASSUME NEW t \in Threads, HaltMirror(t) PROVE Gently
      BY <1>1, HaltMirrorType
<1>2. ASSUME NEW t \in Threads, HaltKill(t) PROVE Gently
      BY <1>0, <1>2, KillMemoryType DEF HaltKill
<1>3. ASSUME KillFinish PROVE Gently
      BY <1>0, <1>3, KillMemoryType DEF KillFinish
<1>4. ASSUME KillWrite PROVE Gently
      BY <1>0, <1>4, KilledFileType DEF KillWrite, Gently, TypeOK, runtime, bounds
<1>5. ASSUME UNCHANGED <<file, runtime, starts>>, failures' \in Nat PROVE Gently
      BY <1>0, <1>5 DEF Gently, TypeOK, runtime
<1>6. ASSUME NEW t \in Threads,
             Request(t) \/ HaltRead(t) \/ HaltJudge(t) \/ Check(t) \/ Evaluate(t)
             \/ Finalize(t) \/ PreEntry(t) \/ Claim(t) \/ Enter(t) \/ Answer(t) \/ Grant(t)
      PROVE  UNCHANGED <<file, runtime, starts>> /\ failures' \in Nat
      BY <1>0, <1>6 DEF Request, HaltRead, HaltJudge, Check, Evaluate, Finalize, PreEntry, Claim,
         Enter, Answer, Grant, Fail, TypeOK, bounds
<1>7. ASSUME NEW who \in Threads \cup {"kill", "open"}, CloseWrite(who) PROVE Gently
      BY <1>7, CloseWriteType
<1>8. ASSUME OpenAgain PROVE Gently
  <2>1. CASE RuntimeKill("open")
        BY <1>0, <1>8, <2>1, RuntimeKillType DEF OpenAgain
  <2>2. CASE ~RuntimeKill("open")
        BY <1>0, <1>8, <1>5, <2>2 DEF OpenAgain, bounds, TypeOK
  <2> QED BY <2>1, <2>2
<1>9. ~KillLatch /\ ~CliKill /\ ~(\E c \in Edits : Edit(c))
      BY <1>0 DEF KillLatch, CliKill, Edit, TypeOK
<1> QED BY <1>1, <1>2, <1>3, <1>4, <1>5, <1>6, <1>7, <1>8, <1>9
        DEF Next, CallStep, HaltRename, OpenKilled, KillRename

(* No step of the gate, opening included, lifts a halt from the file, but    *)
(* for a rename over an edit by hand it did not see.                         *)
THEOREM GateLiftsNoHalt == Spec => GateNeverUnhalts
<1> DEFINE A == /\ Observed(file) # "active" /\ Observed(file') = "active"
                      => edits' # edits \/ EditedUnderWrite
                /\ Observed(file) = "killed" /\ Observed(file') # "killed"
                      => edits' # edits \/ EditedUnderWrite
<1>1. HostInv /\ [Next]_vars => [A]_vars
  <2> SUFFICES ASSUME HostInv, Next, edits' = edits PROVE A
      OBVIOUS
  <2>1. CASE OpenFirst \/ OpenBuild \/ Stop
        BY <2>1 DEF OpenFirst, OpenBuild, Stop
  <2>2. CASE ~OpenFirst /\ ~OpenBuild /\ ~Stop
        BY <2>2, GateIsGentle DEF Gently
  <2> QED BY <2>1, <2>2
<1> QED BY HostInvariant, <1>1, PTL DEF Spec, GateNeverUnhalts

(* The runtime resumes only under an active file and never leaves a kill. *)
THEOREM RuntimeIsLed == Spec => RuntimeFollowsFile
<1> DEFINE A == boot = "up" /\ boot' = "up" =>
                  /\ mode = "suspended" /\ mode' = "active"
                        => Observed(file) = "active" \/ EditedUnderWrite
                  /\ mode = "killed" => mode' = "killed"
<1>1. HostInv /\ [Next]_vars => [A]_vars
  <2> SUFFICES ASSUME HostInv, Next, boot = "up", boot' = "up" PROVE A
      OBVIOUS
  <2>1. ~OpenFirst /\ ~OpenBuild /\ ~Stop
        BY DEF OpenFirst, OpenBuild, Stop
  <2>2. CASE edits' = edits
        BY <2>1, <2>2, GateIsGentle DEF Gently
  <2>3. CASE KillLatch \/ CliKill \/ (\E c \in Edits : Edit(c))
        BY <2>3 DEF KillLatch, CliKill, Edit, runtime
  <2>4. edits' = edits \/ KillLatch \/ CliKill \/ (\E c \in Edits : Edit(c))
    <3>0. TypeOK
          BY DEF HostInv
    <3>1. ASSUME NEW t \in Threads, HaltMirror(t) \/ HaltKill(t) PROVE edits' = edits
          BY <3>0, <3>1, HaltMirrorType, KillMemoryType DEF HaltKill, Gently
    <3>2. ASSUME NEW who \in Threads \cup {"kill", "open"}, CloseWrite(who) PROVE edits' = edits
          BY <3>2, CloseWriteType DEF Gently
    <3>3. KillFinish => edits' = edits
          BY <3>0, KillMemoryType DEF KillFinish, Gently
    <3>4. OpenAgain \/ KillWrite => edits' = edits
          BY DEF OpenAgain, KillWrite, bounds
    <3>5. ASSUME NEW t \in Threads,
                 Request(t) \/ HaltRead(t) \/ HaltJudge(t) \/ Check(t) \/ Evaluate(t)
                 \/ Finalize(t) \/ PreEntry(t) \/ Claim(t) \/ Enter(t) \/ Answer(t) \/ Grant(t)
          PROVE  edits' = edits
          BY <3>5 DEF Request, HaltRead, HaltJudge, Check, Evaluate, Finalize, PreEntry, Claim,
             Enter, Answer, Grant, Fail, bounds
    <3> QED BY <2>1, <3>1, <3>2, <3>3, <3>4, <3>5
            DEF Next, CallStep, HaltRename, OpenKilled, KillRename
  <2> QED BY <2>2, <2>3, <2>4
<1> QED BY HostInvariant, <1>1, PTL DEF Spec, RuntimeFollowsFile
=============================================================================
