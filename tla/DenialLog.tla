----------------------------- MODULE DenialLog -----------------------------
(***************************************************************************)
(* The host's account of the calls it denies (pep/host/server.py): denials *)
(* of one window beyond a burst are counted, not written; the count is     *)
(* written as one summary line when a later denial or the accept loop      *)
(* finds the window over, or by the shutdown, which waits for the calls    *)
(* still deciding, up to a bound, and closes the log.                      *)
(*                                                                         *)
(* The steps are the critical sections of the server's lock and the calls  *)
(* of DecisionLog.append between them.                                     *)
(***************************************************************************)
EXTENDS Integers, FiniteSets

CONSTANTS
    Callers,        \* the connection threads
    Serve, Closer,  \* the accept loop, which ends by a shutdown; close()
    Burst,          \* _deny_burst
    Window,         \* _deny_window
    MaxClock, MaxDenials, MaxFailures,   \* bounds
    NoWindow

Stoppers == {Serve, Closer}
Actors == Callers \cup Stoppers

ASSUME DenialAssumption ==
    /\ Burst \in Nat \ {0} /\ Window \in Nat \ {0}
    /\ MaxClock \in Nat /\ MaxDenials \in Nat /\ MaxFailures \in Nat
    /\ NoWindow \notin Nat
    /\ Serve # Closer /\ Stoppers \cap Callers = {}
    /\ IsFiniteSet(Callers)

VARIABLES
    clock,
    windowStart, written, suppressed,   \* the open window and its held count
    inflight, draining, closed,         \* the log-call tickets and the shutdown
    refused,                            \* _refused_after_close
    overran,                            \* the drain ended by its bound (history)
    sticky,                             \* _sticky_halt
    fileOpen,                           \* the DecisionLog's file
    pc, held,                           \* per actor; held: a summary's count
    denied, lines, summed,              \* denials decided; with a line; in a summary
    dropped, failures                   \* denials whose append failed; failed appends

vars == <<clock, windowStart, written, suppressed, inflight, draining, closed, refused,
          overran, sticky, fileOpen, pc, held, denied, lines, summed, dropped, failures>>
window == <<windowStart, written, suppressed>>
shutdown == <<draining, closed, fileOpen, overran>>
tallies == <<denied, lines, summed, dropped, failures>>

Steps == {"idle", "decide", "account", "summary", "summarise", "append", "record",
          "leave", "last", "loop", "start", "drain", "wait", "close", "done"}

Init ==
    /\ clock = 0
    /\ windowStart = NoWindow /\ written = 0 /\ suppressed = 0
    /\ inflight = 0 /\ draining = FALSE /\ closed = FALSE
    /\ refused = 0 /\ sticky = FALSE /\ fileOpen = TRUE /\ overran = FALSE
    /\ pc = [a \in Actors |-> IF a = Serve THEN "loop" ELSE "idle"]
    /\ held = [a \in Actors |-> 0]
    /\ denied = 0 /\ lines = 0 /\ summed = 0 /\ dropped = 0 /\ failures = 0

GoTo(a, where) == pc' = [pc EXCEPT ![a] = where]
Expired == windowStart # NoWindow /\ clock - windowStart >= Window
\* Denials not yet decided, so that no bound stops a call half way.
Room == denied + Cardinality({c \in Callers : pc[c] \in {"decide", "account"}}) < MaxDenials

-----------------------------------------------------------------------------
(***************************************************************************)
(* A call: handle_request takes a ticket, _logged takes one more.  The     *)
(* denials of a connection that never became a session are not calls here: *)
(* _reject_busy and _refuse_unattested hold one ticket, and the latter     *)
(* answers without a line and without counting once the log is closed.     *)
(***************************************************************************)
\* Mutant: only _logged takes a ticket.
JoinUnticketed(c) ==
    /\ pc[c] = "idle" /\ Room
    /\ IF closed
       THEN /\ refused' = refused + 1 /\ denied' = denied + 1
            /\ UNCHANGED pc
       ELSE /\ GoTo(c, "decide")
            /\ UNCHANGED <<refused, denied>>
    /\ UNCHANGED <<clock, window, inflight, shutdown, sticky, held, lines, summed, dropped, failures>>

Join(c) ==
    /\ pc[c] = "idle" /\ Room
    /\ IF closed
       THEN /\ refused' = refused + 1 /\ denied' = denied + 1
            /\ UNCHANGED <<inflight, pc>>
       ELSE /\ inflight' = inflight + 1 /\ GoTo(c, "decide")
            /\ UNCHANGED <<refused, denied>>
    /\ UNCHANGED <<clock, window, shutdown, sticky, held, lines, summed, dropped, failures>>

\* A denial before admission goes through the window, one after it does not.
Decide(c) ==
    /\ pc[c] = "decide"
    /\ \/ /\ IF closed
             THEN /\ refused' = refused + 1 /\ denied' = denied + 1
                  /\ GoTo(c, "last") /\ UNCHANGED inflight
             ELSE /\ inflight' = inflight + 1 /\ GoTo(c, "account")
                  /\ UNCHANGED <<refused, denied>>
       \/ /\ GoTo(c, "record")
          /\ denied' = denied + 1
          /\ UNCHANGED <<inflight, refused>>
    /\ UNCHANGED <<clock, window, shutdown, sticky, held, lines, summed, dropped, failures>>

\* Mutant: a denial that opens a window forgets the count of the last one.
AccountForgets(c) ==
    /\ pc[c] = "account"
    /\ denied' = denied + 1
    /\ \/ /\ windowStart = NoWindow \/ Expired
          /\ windowStart' = clock /\ written' = 1 /\ suppressed' = 0
          /\ GoTo(c, "append")
       \/ /\ windowStart # NoWindow /\ ~Expired /\ written < Burst
          /\ written' = written + 1
          /\ GoTo(c, "append")
          /\ UNCHANGED <<windowStart, suppressed>>
       \/ /\ windowStart # NoWindow /\ ~Expired /\ written >= Burst
          /\ suppressed' = suppressed + 1
          /\ GoTo(c, "leave")
          /\ UNCHANGED <<windowStart, written>>
    /\ UNCHANGED <<clock, inflight, shutdown, refused, sticky, held, lines, summed, dropped, failures>>

\* _account_denial: a line of its own, a count, or the last window's summary first.
Account(c) ==
    /\ pc[c] = "account"
    /\ denied' = denied + 1
    /\ \/ /\ windowStart = NoWindow \/ Expired
          /\ windowStart' = clock /\ written' = 1 /\ suppressed' = 0
          /\ held' = [held EXCEPT ![c] = suppressed]
          /\ GoTo(c, IF suppressed > 0 THEN "summary" ELSE "append")
       \/ /\ windowStart # NoWindow /\ ~Expired /\ written < Burst
          /\ written' = written + 1
          /\ GoTo(c, "append")
          /\ UNCHANGED <<windowStart, suppressed, held>>
       \/ /\ windowStart # NoWindow /\ ~Expired /\ written >= Burst
          /\ suppressed' = suppressed + 1
          /\ GoTo(c, "leave")
          /\ UNCHANGED <<windowStart, written, held>>
    /\ UNCHANGED <<clock, inflight, shutdown, refused, sticky, lines, summed, dropped, failures>>

\* Mutant: the accept loop writes a summary without joining the open calls.
FlushUnticketed ==
    /\ pc[Serve] = "loop"
    /\ ~closed /\ ~draining /\ suppressed > 0 /\ Expired
    /\ windowStart' = NoWindow /\ written' = 0 /\ suppressed' = 0
    /\ held' = [held EXCEPT ![Serve] = suppressed]
    /\ GoTo(Serve, "summary")
    /\ UNCHANGED <<clock, inflight, shutdown, refused, sticky, tallies>>

\* _flush_expired_window, by the accept loop.
Flush ==
    /\ pc[Serve] = "loop"
    /\ ~closed /\ ~draining /\ suppressed > 0 /\ Expired
    /\ windowStart' = NoWindow /\ written' = 0 /\ suppressed' = 0
    /\ held' = [held EXCEPT ![Serve] = suppressed]
    /\ inflight' = inflight + 1
    /\ GoTo(Serve, "summary")
    /\ UNCHANGED <<clock, shutdown, refused, sticky, tallies>>

\* Where an actor goes after its summary, and after one that failed.
Summarised(a) == IF a = Serve THEN "leave" ELSE "append"
OwnDenial(a) == IF a = Serve THEN 0 ELSE 1

\* _append_summary's look at the log before it appends.
Summary(a) ==
    /\ pc[a] = "summary"
    /\ IF closed
       THEN sticky' = TRUE /\ GoTo(a, "leave") /\ held' = [held EXCEPT ![a] = 0]
       ELSE GoTo(a, "summarise") /\ UNCHANGED <<sticky, held>>
    /\ UNCHANGED <<clock, window, inflight, shutdown, refused, tallies>>

Broken == failures < MaxFailures /\ failures' = failures + 1 /\ sticky' = TRUE

\* Its append; a failure latches the halt, and what it counted is gone.
Summarise(a) ==
    /\ pc[a] = "summarise"
    /\ held' = [held EXCEPT ![a] = 0]
    /\ \/ /\ fileOpen
          /\ summed' = summed + held[a]
          /\ GoTo(a, Summarised(a))
          /\ UNCHANGED <<sticky, dropped, failures>>
       \/ /\ fileOpen /\ Broken
          /\ dropped' = dropped + held[a] + OwnDenial(a)
          /\ GoTo(a, "leave")
          /\ UNCHANGED summed
       \/ /\ ~fileOpen
          /\ sticky' = TRUE
          /\ GoTo(a, "leave")
          /\ UNCHANGED <<summed, dropped, failures>>
    /\ UNCHANGED <<clock, window, inflight, shutdown, refused, denied, lines>>

\* _append: the denial's own line.
Append(c) ==
    /\ pc[c] \in {"append", "record"}
    /\ LET after == IF pc[c] = "append" THEN "leave" ELSE "last"
       IN \/ /\ fileOpen
             /\ lines' = lines + 1
             /\ GoTo(c, after)
             /\ UNCHANGED <<sticky, dropped, failures, refused>>
          \/ /\ fileOpen /\ Broken
             /\ IF closed
                THEN refused' = refused + 1 /\ UNCHANGED dropped
                ELSE dropped' = dropped + 1 /\ UNCHANGED refused
             /\ GoTo(c, after)
             /\ UNCHANGED lines
          \/ /\ ~fileOpen
             /\ sticky' = TRUE
             /\ refused' = refused + 1
             /\ GoTo(c, after)
             /\ UNCHANGED <<lines, dropped, failures>>
    /\ UNCHANGED <<clock, window, inflight, shutdown, held, denied, summed>>

\* _end_log_call, for _logged and for handle_request.
Leave(a) ==
    /\ pc[a] \in {"leave", "last"}
    /\ inflight' = IF inflight > 0 THEN inflight - 1 ELSE 0
    /\ GoTo(a, CASE pc[a] = "leave" /\ a = Serve -> "loop"
                 [] pc[a] = "leave" /\ a # Serve -> "last"
                 [] OTHER -> "idle")
    /\ UNCHANGED <<clock, window, shutdown, refused, sticky, held, tallies>>

-----------------------------------------------------------------------------
(***************************************************************************)
(* _shutdown_log, by the accept loop when it ends and by close().          *)
(***************************************************************************)
Stop(s) ==
    /\ pc[s] = (IF s = Serve THEN "loop" ELSE "idle")
    /\ GoTo(s, "start")
    /\ UNCHANGED <<clock, window, inflight, shutdown, refused, sticky, held, tallies>>

ShutdownStart(s) ==
    /\ pc[s] = "start"
    /\ \/ closed /\ GoTo(s, "done") /\ UNCHANGED draining
       \/ ~closed /\ draining /\ GoTo(s, "wait") /\ UNCHANGED draining
       \/ ~closed /\ ~draining /\ GoTo(s, "drain") /\ draining' = TRUE
    /\ UNCHANGED <<clock, window, inflight, closed, fileOpen, overran, refused, sticky, held, tallies>>

\* Mutant: the bound on the wait is forgotten.
DrainNever(s) == pc[s] = "drain" /\ inflight = 0

\* The wait is over: the calls have returned their tickets, or the bound passed.
Drained(s) == pc[s] = "drain"

\* The held count is written and the log closes, in one critical section; those
\* that waited for it are woken.
ShutdownCount(s) ==
    /\ Drained(s)
    /\ windowStart' = NoWindow /\ written' = 0 /\ suppressed' = 0
    /\ \/ summed' = summed + suppressed /\ UNCHANGED <<sticky, dropped, failures>>
       \/ suppressed > 0 /\ Broken /\ dropped' = dropped + suppressed /\ UNCHANGED summed
    /\ draining' = FALSE /\ closed' = TRUE /\ overran' = (inflight > 0)
    /\ pc' = [a \in Actors |-> IF a = s THEN "close"
                               ELSE IF pc[a] = "wait" THEN "done" ELSE pc[a]]
    /\ UNCHANGED <<clock, inflight, fileOpen, refused, held, denied, lines>>

CloseFile(s) ==
    /\ pc[s] = "close"
    /\ fileOpen' = FALSE
    /\ GoTo(s, "done")
    /\ UNCHANGED <<clock, window, inflight, draining, closed, overran, refused, sticky, held, tallies>>

\* The monotonic clock.
Tick ==
    /\ clock < MaxClock
    /\ clock' = clock + 1
    /\ UNCHANGED <<window, inflight, shutdown, refused, sticky, pc, held, tallies>>

-----------------------------------------------------------------------------
CallerStep(c) ==
    Decide(c) \/ Account(c) \/ Summary(c) \/ Summarise(c) \/ Append(c) \/ Leave(c)

StopperStep(s) == ShutdownStart(s) \/ ShutdownCount(s) \/ CloseFile(s)

ServeStep == Summary(Serve) \/ Summarise(Serve) \/ Leave(Serve)

Next ==
    \/ \E c \in Callers : Join(c) \/ CallerStep(c)
    \/ \E s \in Stoppers : Stop(s) \/ StopperStep(s)
    \/ Flush \/ ServeStep
    \/ Tick

Spec == Init /\ [][Next]_vars

(***************************************************************************)
(* Fairness: a thread that shuts the log down keeps running, and the bound *)
(* of its wait passes by itself; nothing is assumed of the callers, which  *)
(* may be inside a tool that never returns.                                *)
(***************************************************************************)
LiveSpec == Spec /\ \A s \in Stoppers : WF_vars(StopperStep(s))

-----------------------------------------------------------------------------
TypeOK ==
    /\ clock \in Nat
    /\ windowStart \in Nat \cup {NoWindow}
    /\ written \in 0..Burst /\ suppressed \in Nat
    /\ inflight \in Nat /\ draining \in BOOLEAN /\ closed \in BOOLEAN
    /\ refused \in Nat /\ overran \in BOOLEAN /\ sticky \in BOOLEAN /\ fileOpen \in BOOLEAN
    /\ pc \in [Actors -> Steps] /\ held \in [Actors -> Nat]
    /\ denied \in Nat /\ lines \in Nat /\ summed \in Nat
    /\ dropped \in Nat /\ failures \in Nat

\* Callers whose own denial is decided and not yet in the log.
Unwritten == {c \in Callers : pc[c] \in {"append", "record", "summary", "summarise"}}
\* The sum of a function from actors to numbers, as the size of a set.
Pile(n) == UNION {{a} \X (1..n[a]) : a \in Actors}
Total(n) == Cardinality(Pile(n))
\* Counts taken out of a window and not yet in a summary.
Popped == Total(held)

(***************************************************************************)
(* Coalescing loses no denial of a call (handle_request, _logged) unless   *)
(* the call outlived the drain bound: each has a line, is in a summary, is held in the window or by a thread about *)
(* to write it, was refused after the close and counted, or fell to a      *)
(* failed append, which latched the halt (_account_denial,                 *)
(* _flush_expired_window, _shutdown_log).                                  *)
(***************************************************************************)
AllAccounted ==
    /\ ~overran => denied = lines + summed + suppressed + Popped
                            + Cardinality(Unwritten) + refused + dropped
    /\ dropped > 0 => sticky

(***************************************************************************)
(* A log closed after a complete drain leaves nothing behind it: no count  *)
(* in a window, no thread with a line or a summary to write                *)
(* (_begin_log_call: "Shutdown waits until every joined call has accounted *)
(* its denial").                                                           *)
(***************************************************************************)
ClosedIsComplete == closed /\ ~overran => suppressed = 0 /\ Popped = 0 /\ Unwritten = {}

(***************************************************************************)
(* Every variable keeps its type, and the tickets the drain waits for are  *)
(* those of the threads inside a call or a summary: none is returned twice *)
(* or kept (_begin_log_call, _end_log_call).                               *)
(***************************************************************************)
Tickets(a) == CASE pc[a] \in {"decide", "record", "last"} -> 1
                [] pc[a] \in {"account", "summary", "summarise", "append", "leave"} ->
                       IF a = Serve THEN 1 ELSE 2
                [] OTHER -> 0
DenialInv == TypeOK /\ inflight = Total([a \in Actors |-> Tickets(a)])

(***************************************************************************)
(* Whatever the calls do, a shutdown that starts returns: the one that     *)
(* drains by its bound, the one that waits for it by its wake-up           *)
(* (_shutdown_log).                                                        *)
(***************************************************************************)
ShutdownReturns == \A s \in Stoppers : pc[s] = "start" ~> pc[s] = "done"

=============================================================================
