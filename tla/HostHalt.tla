------------------------------ MODULE HostHalt ------------------------------
(***************************************************************************)
(* The reference host's halt (pep/host/server.py over pep/evaluate.py): a  *)
(* gate process that reads the halt file before and after it decides a     *)
(* call, mirrors a suspend and a resume into its PepRuntime, and latches a *)
(* kill, a missing or an unreadable file for the life of the process.      *)
(*                                                                         *)
(* A thread is the thread of one connection; it decides one call at a      *)
(* time.  A call into PepRuntime that writes the file is two steps, the    *)
(* read or the comparison and the rename: it holds the runtime's lock and  *)
(* the flock in between, but an edit by hand asks for neither.  The other  *)
(* calls run under their locks and are single steps: PepGate and HaltStore *)
(* look inside them.  init_halt(), which replaces the runtime of a host    *)
(* that is not halted, is not modelled.                                    *)
(***************************************************************************)
EXTENDS Naturals, HaltDocument

CONSTANTS
    Threads,
    MaxFailures,   \* bound on failed writes, appends and clock reads
    MaxStarts      \* bound on starts of the process

\* A write of the runtime between its read of the file and its rename: who
\* writes, what, and whether the file was edited by hand meanwhile.
Write == [by : Threads \cup {"kill", "open"}, next : HaltState, edited : BOOLEAN]

ASSUME HostAssumption ==
    /\ Edits \subseteq Contents
    /\ Threads \cap {"kill", "open"} = {} /\ None \notin Write
    /\ MaxEdits \in Nat /\ MaxFailures \in Nat /\ MaxStarts \in Nat

VARIABLES
    boot,        \* where the process stands: "down", three steps of opening, "up"
    bootSeen,    \* _open_runtime's first observation, while it runs
    sticky,      \* _sticky_halt
    mode, available, stored,   \* PepRuntime: mode, availability, has a HaltStore
    grant,       \* per thread: the grant of its connection
    pc, seen,    \* per thread: where its call is; what the running _halt_block read
    killer,      \* the thread inside ReferenceHost.kill()
    writing,     \* the runtime's open write, None when nobody has its locks
    late,        \* calls a halt overtook before their second look at it
    failures, starts

vars == <<file, boot, bootSeen, sticky, mode, available, stored, grant, pc, seen,
          killer, writing, late, edits, failures, starts>>
runtime == <<mode, available, stored>>
bounds == <<edits, failures, starts>>

\* A call looks at the halt twice; the second time is after PRE_ENTRY.
FirstLook == {"read1", "judge1", "mirror1"}
SecondLook == {"read2", "judge2", "mirror2"}
Steps == {"idle", "check", "evaluate", "finalize", "log", "claim", "permit", "entered", "latch", "deny"}
         \cup FirstLook \cup SecondLook

BeforeSecondRead ==
    FirstLook \cup {"check", "evaluate", "finalize", "log", "read2"}

-----------------------------------------------------------------------------
Init ==
    /\ file \in {Missing, Active, Suspended}
    /\ boot = "down" /\ bootSeen = "none"
    /\ sticky = FALSE
    /\ mode = "active" /\ available = TRUE /\ stored = FALSE
    /\ grant = [t \in Threads |-> "none"]
    /\ pc = [t \in Threads |-> "idle"]
    /\ seen = [t \in Threads |-> "none"]
    /\ killer = "idle" /\ writing = None
    /\ late = {}
    /\ edits = 0 /\ failures = 0 /\ starts = 0

GoTo(t, where) == pc' = [pc EXCEPT ![t] = where]
HaltBlockEnds(t) == seen' = [seen EXCEPT ![t] = "none"]
CallsAt(where) == {t \in Threads : pc[t] \in where}

Fail == failures < MaxFailures /\ failures' = failures + 1 /\ UNCHANGED <<edits, starts>>

\* The latch, and the calls that will still look at it.
Latch ==
    /\ sticky' = TRUE
    /\ late' = late \cup CallsAt(BeforeSecondRead \cup {"judge2"})

\* A halt in the file, unless it was written by hand under an open write that
\* is about to put an active state in its place.
FileHalts ==
    /\ Observed(file) # "active"
    /\ ~(writing # None /\ writing.edited /\ Observed(writing.next) = "active")

\* A halt in the file overtakes the calls that have not read it again.
Overtaken == IF FileHalts' THEN late \cup CallsAt(BeforeSecondRead) ELSE late

(***************************************************************************)
(* PepRuntime's ways to the halt file, under its lock.                     *)
(***************************************************************************)

\* HaltStore.write and write_if up to the rename.
OpenWrite(who, requested) ==
    writing' = [by |-> who, next |-> Merge(LibraryRead(file), requested), edited |-> FALSE]

\* The rename, and what the runtime makes of it.  It may fail without a trace,
\* or after it landed; then a suspend or a kill stays and a resume does not.
CloseWrite(who) ==
    /\ writing # None /\ writing.by = who
    /\ writing' = None
    /\ \/ /\ file # NotAFile
          /\ file' = writing.next
          /\ mode' = writing.next.mode /\ available' = writing.next.available
          /\ UNCHANGED bounds
       \/ /\ file' \in IF file = NotAFile THEN {file} ELSE {file, writing.next}
          /\ mode' = IF writing.next.mode = "suspended" THEN "suspended" ELSE mode
          /\ UNCHANGED available
          /\ IF file = NotAFile THEN UNCHANGED bounds ELSE Fail
    /\ late' = Overtaken
    /\ UNCHANGED stored

\* PepRuntime.kill(): outstanding grants end before the file is written.
RevokeAll == grant' = [t \in Threads |-> IF grant[t] = "outstanding" THEN "revoked" ELSE grant[t]]

RuntimeKill(who) ==
    /\ RevokeAll
    /\ mode' = "killed"
    /\ \/ stored /\ OpenWrite(who, [mode |-> "killed", available |-> available])
       \/ ~stored /\ UNCHANGED writing
    /\ UNCHANGED <<file, available, stored, bounds>>

\* _kill_runtime_memory.
KillMemory(who) ==
    \/ mode # "killed" /\ RuntimeKill(who)
    \/ mode = "killed" /\ UNCHANGED <<file, grant, runtime, writing, bounds>>

\* Mutant: a declined write is taken for a written one.
DeclinedFollows(pending) == mode' = pending /\ UNCHANGED available

\* write_if declined: a halt on disk is learned, a missing file keeps a suspend.
Declined(pending) ==
    LET current == ReadExisting(file)
    IN IF current # None /\ IsKilled(current)
       THEN mode' = "killed" /\ available' = current.available
       ELSE /\ mode' = CASE current = None -> IF pending = "suspended" THEN pending ELSE mode
                         [] current # None /\ current.mode = "suspended" -> "suspended"
                         [] OTHER -> mode
            /\ UNCHANGED available

\* Mutant: the mirror of a mode does not compare (an unconditional write).
MirrorAsAlways(t, expected) ==
    /\ OpenWrite(t, [mode |-> expected, available |-> available])
    /\ UNCHANGED <<mode, available, bounds>>

\* suspend and resume with expect_halt, up to the rename; the runtime follows
\* the file, never leads.
MirrorAs(t, expected) ==
    \/ /\ Compares(file, expected)
       /\ OpenWrite(t, [mode |-> expected, available |-> available])
       /\ UNCHANGED <<mode, available, bounds>>
    \/ /\ ~Compares(file, expected)
       /\ Declined(expected)
       /\ UNCHANGED <<writing, bounds>>
    \/ /\ mode' = IF expected = "suspended" THEN expected ELSE mode
       /\ UNCHANGED <<available, writing>>
       /\ Fail

\* Mutant: a resume is never mirrored.
NeedsMirrorSuspend(expected) == expected = "suspended" /\ mode = "active"

\* _halt_block's own test, and the one under the runtime's lock.
NeedsMirror(expected) ==
    IF expected = "active" THEN mode = "suspended" ELSE mode = "active"
Mirrors(expected) ==
    IF expected = "active" THEN mode = "suspended" ELSE mode # "killed"

-----------------------------------------------------------------------------
(***************************************************************************)
(* Opening: the runtime is built between two reads that have to agree.     *)
(***************************************************************************)
OpenFirst ==
    /\ boot = "down" /\ starts < MaxStarts
    /\ starts' = starts + 1
    /\ IF Observed(file) \in {"active", "suspended"}
       THEN boot' = "build" /\ bootSeen' = Observed(file) /\ UNCHANGED <<sticky, mode>>
       ELSE boot' = "up" /\ sticky' = TRUE /\ mode' = "killed" /\ UNCHANGED bootSeen
    /\ UNCHANGED <<file, available, stored, grant, pc, seen, killer, late, edits, failures, writing>>

OpenBuild ==
    /\ boot = "build"
    /\ boot' = "again"
    /\ mode' = LibraryRead(file).mode
    /\ available' = LibraryRead(file).available
    /\ stored' = TRUE
    /\ UNCHANGED <<file, bootSeen, sticky, grant, pc, seen, killer, late, bounds, writing>>

OpenAgain ==
    /\ boot = "again" /\ writing = None
    /\ bootSeen' = "none"
    /\ \/ /\ Observed(file) = bootSeen /\ boot' = "up"
          /\ UNCHANGED <<file, sticky, grant, runtime, writing, bounds>>
       \/ /\ Observed(file) # bootSeen /\ UNCHANGED boot
          /\ sticky' = TRUE /\ RuntimeKill("open")
    /\ UNCHANGED <<pc, seen, killer, late>>

OpenKilled ==
    /\ boot = "again" /\ CloseWrite("open")
    /\ boot' = "up"
    /\ UNCHANGED <<bootSeen, sticky, grant, pc, seen, killer>>

\* The process ends; its memory is gone, the file stays.
Stop ==
    /\ boot # "down" /\ starts < MaxStarts
    /\ boot' = "down" /\ bootSeen' = "none"
    /\ sticky' = FALSE
    /\ mode' = "active" /\ available' = TRUE /\ stored' = FALSE
    /\ grant' = [t \in Threads |-> "none"]
    /\ pc' = [t \in Threads |-> "idle"]
    /\ seen' = [t \in Threads |-> "none"]
    /\ killer' = "idle" /\ writing' = None
    /\ late' = {}
    /\ UNCHANGED <<file, bounds>>

-----------------------------------------------------------------------------
(***************************************************************************)
(* A call, handle_request.                                                 *)
(***************************************************************************)
Request(t) ==
    /\ boot = "up" /\ pc[t] = "idle"
    /\ \/ /\ GoTo(t, "read1")
          /\ late' = IF sticky \/ FileHalts THEN late \cup {t} ELSE late \ {t}
          /\ UNCHANGED <<sticky, bounds>>
       \/ GoTo(t, "deny") /\ Latch /\ Fail      \* the clock fails
    /\ UNCHANGED <<file, boot, bootSeen, runtime, grant, seen, killer, writing>>

HaltRead(t) ==
    /\ \/ pc[t] = "read1" /\ GoTo(t, "judge1")
       \/ pc[t] = "read2" /\ GoTo(t, "judge2")
    /\ seen' = [seen EXCEPT ![t] = Observed(file)]
    /\ UNCHANGED <<file, boot, bootSeen, sticky, runtime, grant, killer, late, bounds, writing>>

\* Mutant: the latch is not consulted.
JudgeUnlatched(t, mirror, kill, pass) ==
    /\ GoTo(t, CASE mode = "killed" -> "deny"
                 [] mode # "killed" /\ seen[t] \in {"active", "suspended"} ->
                       IF NeedsMirror(seen[t]) THEN mirror
                       ELSE IF seen[t] = "active" THEN pass ELSE "deny"
                 [] OTHER -> kill)
    /\ UNCHANGED <<sticky, late>>

\* Where _halt_block goes from its one read.
Judge(t, mirror, kill, pass) ==
    \/ /\ sticky \/ mode = "killed"
       /\ GoTo(t, "deny")
       /\ UNCHANGED <<sticky, late>>
    \/ /\ ~sticky /\ mode # "killed" /\ seen[t] \in {"active", "suspended"}
       /\ GoTo(t, IF NeedsMirror(seen[t]) THEN mirror
                  ELSE IF seen[t] = "active" THEN pass ELSE "deny")
       /\ UNCHANGED <<sticky, late>>
    \/ /\ ~sticky /\ mode # "killed" /\ seen[t] \in {"killed", "none"}
       /\ GoTo(t, kill)
       /\ Latch

HaltJudge(t) ==
    /\ sticky \/ writing = None
    /\ \/ pc[t] = "judge1" /\ Judge(t, "mirror1", "latch", "check")
       \/ pc[t] = "judge2" /\ Judge(t, "mirror2", "latch", "claim")
    /\ IF pc'[t] \in {"mirror1", "mirror2"} THEN UNCHANGED seen ELSE HaltBlockEnds(t)
    /\ UNCHANGED <<file, boot, bootSeen, runtime, grant, killer, bounds, writing>>

\* Where the call goes on from a mirror or a kill.
AfterWrite(t) ==
    CASE pc[t] = "latch" \/ seen[t] # "active" -> "deny"
      [] pc[t] = "mirror1" /\ seen[t] = "active" -> "check"
      [] pc[t] = "mirror2" /\ seen[t] = "active" -> "claim"

\* The mirror up to its rename; without one the call goes on.
HaltMirror(t) ==
    /\ pc[t] \in {"mirror1", "mirror2"} /\ writing = None
    /\ \/ Mirrors(seen[t]) /\ MirrorAs(t, seen[t])
       \/ ~Mirrors(seen[t]) /\ UNCHANGED <<mode, available, writing, bounds>>
    /\ IF writing' = None
       THEN GoTo(t, AfterWrite(t)) /\ HaltBlockEnds(t)
       ELSE UNCHANGED <<pc, seen>>
    /\ UNCHANGED <<file, stored, boot, bootSeen, sticky, grant, killer, late>>

\* A latched halt reaches the runtime.
HaltKill(t) ==
    /\ pc[t] = "latch" /\ writing = None
    /\ KillMemory(t)
    /\ GoTo(t, IF writing' = None THEN AfterWrite(t) ELSE pc[t])
    /\ UNCHANGED <<boot, bootSeen, sticky, seen, killer, late>>

HaltRename(t) ==
    /\ CloseWrite(t)
    /\ GoTo(t, AfterWrite(t)) /\ HaltBlockEnds(t)
    /\ UNCHANGED <<boot, bootSeen, sticky, grant, killer>>

\* Parsing, the registry and the grant's selection; a policy file that changed
\* latches the halt.
Check(t) ==
    /\ pc[t] = "check"
    /\ \/ GoTo(t, "evaluate") /\ UNCHANGED <<sticky, late, bounds>>
       \/ GoTo(t, "deny") /\ UNCHANGED <<sticky, late, bounds>>
       \/ GoTo(t, "latch") /\ Latch /\ Fail
    /\ UNCHANGED <<file, boot, bootSeen, runtime, grant, seen, killer, writing>>

Open == mode = "active" /\ available

\* begin_invoke, up to the consumption of the grant.
Evaluate(t) ==
    /\ pc[t] = "evaluate" /\ writing = None
    /\ \/ /\ Open /\ grant[t] = "outstanding"
          /\ grant' = [grant EXCEPT ![t] = "spent"]
          /\ GoTo(t, "finalize")
       \/ ~(Open /\ grant[t] = "outstanding") /\ GoTo(t, "deny") /\ UNCHANGED grant
    /\ UNCHANGED <<file, boot, bootSeen, sticky, runtime, seen, killer, late, bounds, writing>>

\* The ALLOW is decided again under the runtime lock.
Finalize(t) ==
    /\ pc[t] = "finalize" /\ writing = None
    /\ GoTo(t, IF Open THEN "log" ELSE "deny")
    /\ UNCHANGED <<file, boot, bootSeen, sticky, runtime, grant, seen, killer, late, bounds, writing>>

\* Mutant: the halt is not looked at again after the PRE_ENTRY line.
PreEntryOnce(t) ==
    /\ pc[t] = "log"
    /\ \/ GoTo(t, "claim") /\ UNCHANGED <<sticky, late, bounds>>
       \/ GoTo(t, "idle") /\ Latch /\ Fail
    /\ UNCHANGED <<file, boot, bootSeen, runtime, grant, seen, killer, writing>>

\* The PRE_ENTRY line; without it the tool is not entered.
PreEntry(t) ==
    /\ pc[t] = "log"
    /\ \/ GoTo(t, "read2") /\ UNCHANGED <<sticky, late, bounds>>
       \/ GoTo(t, "idle") /\ Latch /\ Fail
    /\ UNCHANGED <<file, boot, bootSeen, runtime, grant, seen, killer, writing>>

\* claim_entry in complete_invoke.
Claim(t) ==
    /\ pc[t] = "claim" /\ writing = None
    /\ GoTo(t, IF Open THEN "permit" ELSE "deny")
    /\ UNCHANGED <<file, boot, bootSeen, sticky, runtime, grant, seen, killer, late, bounds, writing>>

Enter(t) ==
    /\ pc[t] = "permit"
    /\ GoTo(t, "entered")
    /\ UNCHANGED <<file, boot, bootSeen, sticky, runtime, grant, seen, killer, late, bounds, writing>>

\* The outcome's line and the reply; a line that cannot be written latches.
Answer(t) ==
    /\ pc[t] \in {"deny", "entered"}
    /\ GoTo(t, "idle")
    /\ \/ UNCHANGED <<sticky, late, bounds>>
       \/ Latch /\ Fail
    /\ UNCHANGED <<file, boot, bootSeen, runtime, grant, seen, killer, writing>>

\* The operator mints a grant for the connection; no halt is consulted.
Grant(t) ==
    /\ boot = "up" /\ grant[t] # "outstanding"
    /\ grant' = [grant EXCEPT ![t] = "outstanding"]
    /\ UNCHANGED <<file, boot, bootSeen, sticky, runtime, pc, seen, killer, late, bounds, writing>>

-----------------------------------------------------------------------------
(***************************************************************************)
(* Kills and edits.                                                        *)
(***************************************************************************)

\* What write_killed leaves, whether or not it reports success.
KilledFile(c) ==
    {c} \cup (IF c \in {NotAFile, Unreadable} \/ (c \in HaltState /\ c.mode = "killed")
              THEN {} ELSE {Merge(LibraryRead(c), Killed)})

\* ReferenceHost.kill(): latch, write, then the runtime.
KillLatch ==
    /\ boot = "up" /\ killer = "idle" /\ edits < MaxEdits
    /\ killer' = "write"
    /\ Latch
    /\ edits' = edits + 1
    /\ UNCHANGED <<file, boot, bootSeen, runtime, grant, pc, seen, failures, starts, writing>>

KillWrite ==
    /\ killer = "write" /\ writing = None
    /\ killer' = "memory"
    /\ file' \in KilledFile(file)
    /\ UNCHANGED <<boot, bootSeen, sticky, runtime, grant, pc, seen, bounds, writing>>
    /\ late' = Overtaken

KillFinish ==
    /\ killer = "memory" /\ writing = None
    /\ KillMemory("kill")
    /\ killer' = IF writing' = None THEN "idle" ELSE killer
    /\ UNCHANGED <<boot, bootSeen, sticky, pc, seen, late>>

KillRename ==
    /\ CloseWrite("kill")
    /\ killer' = "idle"
    /\ UNCHANGED <<boot, bootSeen, sticky, grant, pc, seen>>

\* python -m pep.host kill, another process.
CliKill ==
    /\ edits < MaxEdits /\ writing = None
    /\ file' \in KilledFile(file) \ {file}
    /\ edits' = edits + 1
    /\ UNCHANGED <<boot, bootSeen, sticky, runtime, grant, pc, seen, killer, failures, starts, writing>>
    /\ late' = Overtaken

\* An edit by hand or a deletion, which wait for no lock; init-halt, which does,
\* is taken for one.  Only an edit can make the file active again, and it takes
\* back no latch.
Edit(c) ==
    /\ edits < MaxEdits
    /\ c # file
    /\ file' = c
    /\ writing' = IF writing = None THEN None ELSE [writing EXCEPT !.edited = TRUE]
    /\ late' = IF Observed(c) = "active" /\ ~sticky THEN {} ELSE Overtaken
    /\ edits' = edits + 1
    /\ UNCHANGED <<boot, bootSeen, sticky, runtime, grant, pc, seen, killer, failures, starts>>

-----------------------------------------------------------------------------
CallStep(t) ==
    \/ HaltRead(t) \/ HaltJudge(t) \/ HaltMirror(t) \/ HaltKill(t) \/ HaltRename(t) \/ Check(t)
    \/ Evaluate(t) \/ Finalize(t) \/ PreEntry(t) \/ Claim(t) \/ Enter(t) \/ Answer(t)

Next ==
    \/ OpenFirst \/ OpenBuild \/ OpenAgain \/ OpenKilled \/ Stop
    \/ \E t \in Threads : Request(t) \/ CallStep(t) \/ Grant(t)
    \/ KillLatch \/ KillWrite \/ KillFinish \/ KillRename \/ CliKill
    \/ \E c \in Edits : Edit(c)

Spec == Init /\ [][Next]_vars

(***************************************************************************)
(* Fairness: connections keep sending calls and their threads run.         *)
(***************************************************************************)
LiveSpec == Spec /\ \A t \in Threads : WF_vars(Request(t) \/ CallStep(t))

-----------------------------------------------------------------------------
TypeOK ==
    /\ file \in Contents
    /\ boot \in {"down", "build", "again", "up"}
    /\ bootSeen \in Modes \cup {"none"}
    /\ sticky \in BOOLEAN
    /\ mode \in Modes /\ available \in BOOLEAN /\ stored \in BOOLEAN
    /\ grant \in [Threads -> {"none", "outstanding", "spent", "revoked"}]
    /\ pc \in [Threads -> Steps]
    /\ seen \in [Threads -> Modes \cup {"none"}]
    /\ killer \in {"idle", "write", "memory"}
    /\ writing \in Write \cup {None}
    /\ late \subseteq Threads
    /\ edits \in Nat /\ failures \in Nat /\ starts \in Nat

(***************************************************************************)
(* A call that a halt overtook before its second look never enters the     *)
(* tool, through whatever mirrors and edits happen in between: "A kill     *)
(* that lands after the first halt check, including during the log fsync,  *)
(* is read again here" (server.py).  A halt written by hand under an open  *)
(* mirror of an active file is overwritten by it, and is not counted.      *)
(***************************************************************************)
NoLateEntry == \A t \in late : pc[t] \notin {"claim", "permit", "entered"}

(***************************************************************************)
(* No step of a gate process, its opening included, makes the file active  *)
(* or less halted: only an operator does.  The exception is a rename over  *)
(* an edit by hand that fell between it and its comparison.                *)
(***************************************************************************)
EditedUnderWrite == writing # None /\ writing.edited

GateNeverUnhalts ==
    [][/\ Observed(file) # "active" /\ Observed(file') = "active"
             => edits' # edits \/ EditedUnderWrite
       /\ Observed(file) = "killed" /\ Observed(file') # "killed"
             => edits' # edits \/ EditedUnderWrite]_vars

(***************************************************************************)
(* A runtime leaves its suspend only for a file that is active at that     *)
(* moment, or was until an edit by hand under the write that says so; and  *)
(* a killed runtime stays killed as long as the process runs.              *)
(***************************************************************************)
RuntimeFollowsFile ==
    [][boot = "up" /\ boot' = "up" =>
          /\ mode = "suspended" /\ mode' = "active"
                => Observed(file) = "active" \/ EditedUnderWrite
          /\ mode = "killed" => mode' = "killed"]_vars

(***************************************************************************)
(* "A later active file can proceed": a gate that was suspended resumes    *)
(* once the file stays active, as long as calls keep arriving.             *)
(***************************************************************************)
ResumeReachesTheGate ==
    <>[](boot = "up" /\ Observed(file) = "active" /\ ~sticky /\ mode # "killed")
        => <>[](mode = "active")
-----------------------------------------------------------------------------
(***************************************************************************)
(* The inductive invariant: a late call has a halt ahead of it, and an     *)
(* open write no hand meddled with says what the file says, or more halt.  *)
(***************************************************************************)
HaltAhead(t) ==
    /\ pc[t] \in BeforeSecondRead => sticky \/ FileHalts
    /\ pc[t] = "judge2" => sticky \/ seen[t] # "active"
    /\ pc[t] = "mirror2" => seen[t] # "active"
    /\ pc[t] \notin {"claim", "permit", "entered"}

WriterOpen ==
    /\ boot \in {"again", "up"}
    /\ mode = "killed" => writing.next.mode = "killed"
    /\ writing.by \in Threads => pc[writing.by] \in {"mirror1", "mirror2", "latch"}
    /\ writing.by \in Threads /\ pc[writing.by] = "latch" => writing.next.mode = "killed"
    /\ writing.by = "kill" => killer = "memory"
    /\ writing.by = "open" => boot = "again"

WriteFollowsFile ==
    /\ writing.next.mode = "active" => Observed(file) = "active"
    /\ Observed(file) = "killed" => Observed(writing.next) = "killed"

HostInv ==
    /\ TypeOK
    /\ \A t \in late : HaltAhead(t)
    /\ \A t \in Threads : pc[t] \in {"mirror1", "mirror2"} => seen[t] \in {"active", "suspended"}
    /\ killer # "idle" => sticky
    /\ boot # "up" => killer = "idle" /\ \A t \in Threads : pc[t] = "idle"
    /\ writing # None => WriterOpen
    /\ writing # None /\ ~writing.edited => WriteFollowsFile
=============================================================================
