----------------------------- MODULE HaltStore -----------------------------
(***************************************************************************)
(* The halt file (pep/halt.py, pep/host/haltfile.py): a JSON file that any *)
(* number of processes replace, each write a read, a merge and a rename    *)
(* under an flock.  Writers crash, the machine loses power, and operators  *)
(* edit or delete the file without taking the lock.  A writer here is one  *)
(* thread of one process.  Threads that share a HaltStore object exclude   *)
(* each other by its thread lock first, whose holder waits for the flock:  *)
(* that wait has no deadline of its own, and no steps here.                *)
(***************************************************************************)
EXTENDS Naturals, HaltDocument

CONSTANTS
    Writers,
    Live,        \* the writers that keep running; the others may hang
    Jobs,        \* what a writer may be asked to do
    Free

\* write, write_if of a HaltStore; write_killed and init_active of the host.
Job == [op : {"write", "write_if", "kill", "init"}, expected : Modes,
        state : HaltState]

ASSUME HaltAssumption ==
    /\ Jobs \subseteq Job
    /\ \A j \in Jobs : /\ j.op = "kill" => j.state = Killed
                       /\ j.op = "init" => j.state = Active
    /\ Edits \subseteq Contents
    /\ MaxEdits \in Nat
    /\ Live \subseteq Writers
    /\ Free \notin Writers
    /\ None \notin Jobs

VARIABLES
    durable,   \* the path as it would be found after a power loss
    flock,     \* who holds the lock file
    phase, job, next,   \* per writer: where it is, what it was asked, what it will write
    meddled,   \* an operator's edit landed inside the present critical section
    acked      \* kills since the last edit: "wrote" and synced, or "found"

storeVars == <<file, durable, flock, phase, job, next, edits, meddled, acked>>

States == {"idle", "check", "lock", "read", "replace", "sync", "confirm"}
Critical == {"read", "replace", "sync"}

Halted(c) == IsKilled(LibraryRead(c))

-----------------------------------------------------------------------------
StoreInit ==
    /\ file \in {Missing, Active}
    /\ durable = file
    /\ flock = Free
    /\ phase = [w \in Writers |-> "idle"]
    /\ job = [w \in Writers |-> None]
    /\ next = [w \in Writers |-> None]
    /\ edits = 0
    /\ meddled = FALSE
    /\ acked = {}

MoveTo(w, where) == phase' = [phase EXCEPT ![w] = where]
Proceed(w, where) == MoveTo(w, where) /\ UNCHANGED <<job, next>>

\* Back to the caller.  What it is told matters here only when it is that a
\* kill landed, which acked keeps.
Return(w) ==
    /\ MoveTo(w, "idle")
    /\ job' = [job EXCEPT ![w] = None]
    /\ next' = [next EXCEPT ![w] = None]

Begin(w) ==
    /\ phase[w] = "idle"
    /\ \E j \in Jobs :
          /\ job' = [job EXCEPT ![w] = j]
          /\ MoveTo(w, IF j.op \in {"kill", "init"} THEN "check" ELSE "lock")
    /\ UNCHANGED <<file, durable, flock, next, edits, meddled, acked>>

ReadsKilled == file \in HaltState /\ file.mode = "killed"

\* write_killed's first look: a file that already says killed is success, a
\* path that cannot be read as a file is an error.
CheckKill(w) ==
    /\ phase[w] = "check" /\ job[w].op = "kill"
    /\ \/ file \in {NotAFile, Unreadable} /\ Return(w) /\ UNCHANGED acked
       \/ ReadsKilled /\ Return(w) /\ acked' = acked \cup {"found"}
       \/ /\ file \notin {NotAFile, Unreadable} /\ ~ReadsKilled
          /\ Proceed(w, "lock")
          /\ UNCHANGED acked
    /\ UNCHANGED <<file, durable, flock, edits, meddled>>

\* init_active's only look: it creates a missing file and clears nothing.
CheckInit(w) ==
    /\ phase[w] = "check" /\ job[w].op = "init"
    /\ \/ file = Missing /\ Proceed(w, "lock")
       \/ file # Missing /\ Return(w)
    /\ UNCHANGED <<file, durable, flock, edits, meddled, acked>>

\* Mutant: the lock does not exclude.
LockShared(w) ==
    /\ phase[w] = "lock"
    /\ flock' = w
    /\ meddled' = FALSE
    /\ Proceed(w, "read")
    /\ UNCHANGED <<file, durable, edits, acked>>

Lock(w) ==
    /\ phase[w] = "lock"
    /\ flock = Free
    /\ flock' = w
    /\ meddled' = FALSE
    /\ Proceed(w, "read")
    /\ UNCHANGED <<file, durable, edits, acked>>

\* Mutant: the wait for the lock has no deadline.
LockTimeoutNever(w) == FALSE /\ UNCHANGED storeVars

\* _flock_bounded gives up on a holder that does not let go.  Only the flock is
\* waited for with a bound.
LockTimeout(w) ==
    /\ phase[w] = "lock"
    /\ flock # Free
    /\ Return(w)
    /\ UNCHANGED <<file, durable, flock, edits, meddled, acked>>

\* The lock file cannot be opened or is not this user's.
LockError(w) ==
    /\ phase[w] = "lock"
    /\ Return(w)
    /\ UNCHANGED <<file, durable, flock, edits, meddled, acked>>

Release(w) == flock' = Free /\ Return(w)

\* Mutant: a conditional write does not compare.
ReadAndMergeAlways(w) ==
    /\ phase[w] = "read"
    /\ next' = [next EXCEPT ![w] = Merge(LibraryRead(file), job[w].state)]
    /\ MoveTo(w, "replace")
    /\ UNCHANGED <<flock, job, file, durable, edits, meddled, acked>>

\* The read under the lock: decide what to write, or decline.
ReadAndMerge(w) ==
    /\ phase[w] = "read"
    /\ \/ job[w].op = "write_if" /\ ~Compares(file, job[w].expected) /\ Release(w)
       \/ /\ job[w].op = "write_if" => Compares(file, job[w].expected)
          /\ next' = [next EXCEPT ![w] = Merge(LibraryRead(file), job[w].state)]
          /\ MoveTo(w, "replace")
          /\ UNCHANGED <<flock, job>>
    /\ UNCHANGED <<file, durable, edits, meddled, acked>>

\* _write_unlocked up to os.replace: the temporary file is complete and synced
\* before the rename, so readers see the old contents or the new.  Each of its
\* calls may fail.
Replace(w) ==
    /\ phase[w] = "replace"
    /\ \/ file # NotAFile /\ file' = next[w] /\ Proceed(w, "sync") /\ UNCHANGED flock
       \/ Release(w) /\ UNCHANGED file
    /\ UNCHANGED <<durable, edits, meddled, acked>>

\* A kill that an edit overtook before it was synced is the operator's affair.
Acknowledge(w) == acked' = IF job[w].state.mode = "killed" /\ ~meddled
                           THEN acked \cup {"wrote"} ELSE acked

\* The caller gets its answer; write_killed reads its kill back first.
Tell(w) == IF job[w].op = "kill" THEN Proceed(w, "confirm") ELSE Return(w)

\* Mutant: success is reported although the directory was not synced.
SyncUnchecked(w) ==
    /\ phase[w] = "sync"
    /\ flock' = Free
    /\ Tell(w) /\ Acknowledge(w)
    /\ UNCHANGED <<file, durable, edits, meddled>>

\* The directory's fsync and the release of the lock.
Sync(w) ==
    /\ phase[w] = "sync"
    /\ \/ durable' = file /\ flock' = Free /\ Tell(w) /\ Acknowledge(w)
       \/ Release(w) /\ UNCHANGED <<durable, acked>>
    /\ UNCHANGED <<file, edits, meddled>>

\* The read-back, which can only turn success into an error.
Confirm(w) ==
    /\ phase[w] = "confirm"
    /\ Return(w)
    /\ UNCHANGED <<file, durable, flock, edits, meddled, acked>>

\* The writer's process dies; the kernel drops its lock.
Crash(w) ==
    /\ phase[w] # "idle"
    /\ Return(w)
    /\ flock' = IF flock = w THEN Free ELSE flock
    /\ UNCHANGED <<file, durable, edits, meddled, acked>>

\* The kernel writes a rename back before, or without, the fsync.
WriteBack ==
    /\ durable # file
    /\ durable' = file
    /\ UNCHANGED <<file, flock, phase, job, next, edits, meddled, acked>>

\* The machine stops: only what was synced is found again.
PowerLoss ==
    /\ file' = durable
    /\ flock' = Free
    /\ phase' = [w \in Writers |-> "idle"]
    /\ job' = [w \in Writers |-> None]
    /\ next' = [w \in Writers |-> None]
    /\ UNCHANGED <<durable, edits, meddled, acked>>

\* An operator edits, replaces or deletes the file; nothing makes them lock.
EditUnlocked(c) ==
    /\ edits < MaxEdits
    /\ c # file
    /\ file' = c
    /\ durable' = c
    /\ edits' = edits + 1
    /\ meddled' = (meddled \/ flock # Free)
    /\ acked' = {}
    /\ UNCHANGED <<flock, phase, job, next>>

WriterStep(w) ==
    \/ CheckKill(w) \/ CheckInit(w) \/ Lock(w) \/ LockTimeout(w)
    \/ ReadAndMerge(w) \/ Replace(w) \/ Sync(w) \/ Confirm(w)

StoreNext ==
    \/ \E w \in Writers : Begin(w) \/ WriterStep(w) \/ LockError(w) \/ Crash(w)
    \/ WriteBack
    \/ PowerLoss
    \/ \E c \in Edits : EditUnlocked(c)

StoreSpec == StoreInit /\ [][StoreNext]_storeVars

(***************************************************************************)
(* Fairness: a live writer keeps running; it takes the lock or gives up on *)
(* it.  The other writers may stop anywhere, the lock in hand.             *)
(***************************************************************************)
StoreLiveSpec == StoreSpec /\ \A w \in Live : WF_storeVars(WriterStep(w))

-----------------------------------------------------------------------------
StoreTypeOK ==
    /\ file \in Contents /\ durable \in Contents
    /\ flock \in Writers \cup {Free}
    /\ phase \in [Writers -> States]
    /\ job \in [Writers -> Jobs \cup {None}]
    /\ next \in [Writers -> HaltState \cup {None}]
    /\ edits \in Nat
    /\ meddled \in BOOLEAN
    /\ acked \subseteq {"wrote", "found"}

(***************************************************************************)
(* "A persisted kill cannot be overwritten by suspend or resume" (halt.py):*)
(* whatever the writers do, a halted file stops being halted only by an    *)
(* edit, by a writer an edit overtook, or by a power loss before the kill  *)
(* was durable.                                                            *)
(***************************************************************************)
KillIsSticky ==
    [][Halted(file) /\ ~Halted(file') =>
          edits' # edits \/ meddled \/ ~Halted(durable)]_storeVars

(***************************************************************************)
(* A kill whose writer is told that it landed is found again after any     *)
(* crash or power loss, until an operator edits the file.                  *)
(***************************************************************************)
WrittenKillIsDurable == "wrote" \in acked => Halted(file) /\ Halted(durable)

Conditional(w) == phase[w] = "replace" /\ job[w].op = "write_if"

(***************************************************************************)
(* A conditional write replaces a file that still holds the mode its       *)
(* caller read, unless an unlocked edit slipped into its critical section. *)
(***************************************************************************)
ConditionalWriteCompares ==
    [][\A w \in Writers :
          Conditional(w) /\ phase'[w] = "sync" /\ ~meddled =>
              Compares(file, job[w].expected)]_storeVars

(***************************************************************************)
(* A live writer returns even when the holder of the lock hangs ("it does  *)
(* not hang the caller", _acquire_file_lock).                              *)
(***************************************************************************)
LiveWritersReturn == \A w \in Live : []<>(phase[w] = "idle")

-----------------------------------------------------------------------------
(***************************************************************************)
(* The inductive invariant.                                                *)
(***************************************************************************)

\* The lock is held exactly inside the critical section.
LockInv == \A w \in Writers : flock = w <=> phase[w] \in Critical

\* What a writer is about to rename over the file is a merge with it, and
\* what it has renamed is still there, unless an edit overtook it.
MergesRight(w) ==
    /\ phase[w] # "idle" => job[w] \in Jobs
    /\ phase[w] \in {"replace", "sync"} => next[w] \in HaltState
    /\ phase[w] = "replace" /\ ~meddled => next[w] = Merge(LibraryRead(file), job[w].state)
    /\ Conditional(w) /\ ~meddled => Compares(file, job[w].expected)
    /\ phase[w] = "sync" /\ ~meddled => file = next[w]
    /\ phase[w] \in {"replace", "sync"} /\ job[w].state.mode = "killed" =>
          next[w].mode = "killed"
MergeInv == \A w \in Writers : MergesRight(w)

\* An acknowledged kill is not exposed to a writer that an edit overtook.
DurableInv ==
    /\ WrittenKillIsDurable
    /\ meddled /\ flock # Free => "wrote" \notin acked

HaltInv == StoreTypeOK /\ LockInv /\ MergeInv /\ DurableInv
=============================================================================
