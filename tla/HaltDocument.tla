---------------------------- MODULE HaltDocument ----------------------------
(***************************************************************************)
(* What a halt file can hold and how it is read, merged and compared       *)
(* (pep/halt.py, pep/host/haltfile.py), and the file itself: the part that *)
(* the store's writers and the gate share.                                 *)
(***************************************************************************)

CONSTANTS
    Missing, Corrupt, Unreadable,
    NotAFile,    \* a directory in the file's place
    None,
    Edits,       \* what an operator may leave in the file by hand
    MaxEdits     \* bound on operator actions on the file

VARIABLES
    file,        \* the path as a reader sees it
    edits        \* operator actions on it so far

Modes == {"active", "suspended", "killed"}
HaltState == [mode : Modes, available : BOOLEAN]
NoState == {Missing, Corrupt, Unreadable, NotAFile}
Contents == HaltState \cup NoState

Active == [mode |-> "active", available |-> TRUE]
Suspended == [mode |-> "suspended", available |-> TRUE]
Killed == [mode |-> "killed", available |-> TRUE]
FailClosed == [mode |-> "killed", available |-> FALSE]

ASSUME DocumentAssumption ==
    /\ None \notin Contents
    /\ NoState \cap HaltState = {}
    /\ Missing \notin {Corrupt, Unreadable, NotAFile}
    /\ NotAFile \notin {Corrupt, Unreadable}

\* _read_unlocked: no file is active, unusable bytes are a kill.
LibraryRead(c) ==
    CASE c \in {Missing, NotAFile} -> Active
      [] c \in {Corrupt, Unreadable} -> FailClosed
      [] OTHER -> c

\* _read_existing_unlocked: only an absent file is no state.
ReadExisting(c) ==
    CASE c = Missing -> None
      [] c \in NoState \ {Missing} -> FailClosed
      [] OTHER -> c

IsKilled(s) == s.mode = "killed" \/ ~s.available

\* read_fail_closed: the host's own reader, for which any doubt is a halt.
Observed(c) ==
    CASE c \in NoState -> "none"
      [] c \notin NoState /\ IsKilled(c) -> "killed"
      [] OTHER -> c.mode

\* Mutant: the last writer's mode wins.
MergeLastWins(current, requested) == requested

\* _merge_sticky_kill.
Merge(current, requested) ==
    [mode |-> IF current.mode = "killed" THEN "killed" ELSE requested.mode,
     available |-> current.available /\ requested.available]

\* The comparison of write_if.
Compares(c, expected) ==
    LET current == ReadExisting(c)
    IN current # None /\ current.mode = expected /\ current.available
=============================================================================
