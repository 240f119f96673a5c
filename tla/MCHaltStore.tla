----------------------------- MODULE MCHaltStore -----------------------------
(* Small instances of HaltStore: the jobs and edits of its runs. *)
EXTENDS HaltStore

CONSTANTS w1, w2, w3

DoWrite(m, a) == [op |-> "write", expected |-> "active",
                  state |-> [mode |-> m, available |-> a]]
WriteIf(m) == [op |-> "write_if", expected |-> m,
               state |-> [mode |-> m, available |-> TRUE]]
RunKill == [op |-> "kill", expected |-> "active", state |-> Killed]
RunInit == [op |-> "init", expected |-> "active", state |-> Active]

\* The library's runtime (kill, suspend, resume, unavailable), the gate's
\* mirror of the file it read, and the two operator commands.
AllJobs == {DoWrite("killed", TRUE), DoWrite("suspended", TRUE),
            DoWrite("active", TRUE), DoWrite("active", FALSE),
            WriteIf("active"), WriteIf("suspended"), RunKill, RunInit}
AllEdits == {Missing, Corrupt, Unreadable, NotAFile, Active, Killed,
             [Active EXCEPT !.mode = "suspended"]}
==============================================================================
