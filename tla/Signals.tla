------------------------------- MODULE Signals -------------------------------
(***************************************************************************)
(* Three programs of bloque03 that others control with signals: "shield"   *)
(* (ej34), which blocks SIGINT while it loads and then waits in pause(),   *)
(* "service" (ej35), a daemon with a pid file, of which several may be     *)
(* started, and "counter" (e07_sigaction_basico), which prints how often   *)
(* SIGUSR1 came.                                                           *)
(*                                                                         *)
(* The kernel keeps a signal once, however often it is sent, and delivers  *)
(* it between any two steps unless it is blocked.  Without a handler it    *)
(* ends the process.  What a handler writes is left out, and so are the    *)
(* signals that no program here installs a handler for, but for SIGKILL.   *)
(***************************************************************************)
EXTENDS Integers, Sequences, FiniteSetsExt

CONSTANTS
  Daemon,       \* the processes of "service"
  Single,       \* the process of the other two
  Hits,         \* the SIGINTs that "shield" gives in to, 3 in the code
  MaxSent       \* bound: the signals that are sent

Signal == {"INT", "USR1", "TERM", "HUP", "KILL"}
Empty == "empty"
None == "none"

VARIABLES
  prog,
  at,           \* where each process is
  caught,       \* the signals that it has a handler for
  pending,
  run,          \* flag_run, g_run, ~stop_flag
  count,        \* sigint_count, usr1_count
  last,         \* what "counter" has printed
  reload,       \* g_reload
  owed,         \* a SIGHUP that was handled and not applied: "asked", "late" or None
  pidFile,      \* the process that it names, Empty or None
  cause,        \* the signal that ended the process
  sent          \* how often each signal was sent

vars == <<prog, at, caught, pending, run, count, last, reload, owed, pidFile, cause, sent>>

Proc == IF prog = "service" THEN Daemon ELSE {Single}

\* The handlers in the order of their sigaction.
Handlers ==
  CASE prog = "shield"  -> <<"INT", "USR1", "TERM">>
    [] prog = "service" -> <<"TERM", "HUP">>
    [] prog = "counter" -> <<"USR1", "TERM">>

Init ==
  /\ prog \in {"shield", "service", "counter"}
  /\ at = [p \in Proc |-> "start"]
  /\ caught = [p \in Proc |-> {}] /\ pending = [p \in Proc |-> {}]
  /\ run = [p \in Proc |-> TRUE]
  /\ count = [p \in Proc |-> 0]
  /\ last = [p \in Proc |-> -1]
  /\ reload = [p \in Proc |-> FALSE] /\ owed = [p \in Proc |-> None]
  /\ pidFile = None
  /\ cause = [p \in Proc |-> None]
  /\ sent = [s \in Signal |-> 0]

Goes(p, from, to) == at[p] = from /\ at' = [at EXCEPT ![p] = to]

-----------------------------------------------------------------------------
(* The start.                                                              *)

\* "shield" blocks SIGINT, "service" forks twice and may fail to.
Begin(p) ==
  /\ \/ prog = "shield" /\ Goes(p, "start", "load")
     \/ prog = "service" /\ \E to \in {"open", "end"} : Goes(p, "start", to)
     \/ prog = "counter" /\ Goes(p, "start", "install")
  /\ UNCHANGED <<prog, caught, pending, run, count, last, reload, owed, pidFile, cause, sent>>

\* The end of the load unblocks SIGINT: one that is pending comes before the
\* handlers are installed, and ends the process.
Unblock(p) ==
  /\ IF "INT" \in pending[p]
     THEN Goes(p, "load", "end") /\ cause' = [cause EXCEPT ![p] = "INT"]
     ELSE Goes(p, "load", "install") /\ UNCHANGED cause
  /\ UNCHANGED <<prog, caught, pending, run, count, last, reload, owed, pidFile, sent>>

\* A slip of OpenPidFile: without O_EXCL.
OpenPidFileAnyway(p) ==
  /\ Goes(p, "open", "write") /\ pidFile' = Empty
  /\ UNCHANGED <<prog, caught, pending, run, count, last, reload, owed, cause, sent>>

\* open with O_EXCL
OpenPidFile(p) ==
  /\ IF pidFile = None
     THEN Goes(p, "open", "write") /\ pidFile' = Empty
     ELSE Goes(p, "open", "end") /\ UNCHANGED pidFile
  /\ UNCHANGED <<prog, caught, pending, run, count, last, reload, owed, cause, sent>>

WritePid(p) ==
  /\ Goes(p, "write", "install")
  /\ pidFile' = p
  /\ UNCHANGED <<prog, caught, pending, run, count, last, reload, owed, cause, sent>>

\* One sigaction.
Install(p) ==
  LET k == Cardinality(caught[p]) + 1
  IN /\ Goes(p, "install", IF k = Len(Handlers) THEN "test" ELSE "install")
     /\ caught' = [caught EXCEPT ![p] = @ \union {Handlers[k]}]
     /\ UNCHANGED <<prog, pending, run, count, last, reload, owed, pidFile, cause, sent>>

-----------------------------------------------------------------------------
(* The loop.                                                               *)

\* The while: "shield" goes on to pause, the others to look.
Test(p) ==
  /\ Goes(p, "test",
          CASE run[p]  -> IF prog = "shield" THEN "enter" ELSE "look"
            [] ~run[p] -> IF prog = "service" THEN "unlink" ELSE "end")
  /\ UNCHANGED <<prog, caught, pending, run, count, last, reload, owed, pidFile, cause, sent>>

\* pause() is called: what came since the test does not wake it up.
Pause(p) ==
  /\ Goes(p, "enter", "paused")
  /\ UNCHANGED <<prog, caught, pending, run, count, last, reload, owed, pidFile, cause, sent>>

\* if (g_reload); the new count is printed.
Look(p) ==
  /\ Goes(p, "look", IF prog = "service" /\ reload[p] THEN "apply" ELSE "sleep")
  /\ last' = IF prog = "counter" THEN [last EXCEPT ![p] = count[p]] ELSE last
  /\ UNCHANGED <<prog, caught, pending, run, count, reload, owed, pidFile, cause, sent>>

\* The configuration is applied, and only then g_reload is reset.
Apply(p) ==
  /\ Goes(p, "apply", "reset")
  /\ owed' = [owed EXCEPT ![p] = None]
  /\ UNCHANGED <<prog, caught, pending, run, count, last, reload, pidFile, cause, sent>>

Reset(p) ==
  /\ Goes(p, "reset", "sleep")
  /\ reload' = [reload EXCEPT ![p] = FALSE]
  /\ UNCHANGED <<prog, caught, pending, run, count, last, owed, pidFile, cause, sent>>

\* sleep and usleep end by themselves.
Elapse(p) ==
  /\ Goes(p, "sleep", "test")
  /\ UNCHANGED <<prog, caught, pending, run, count, last, reload, owed, pidFile, cause, sent>>

Unlink(p) ==
  /\ Goes(p, "unlink", "end")
  /\ pidFile' = None
  /\ UNCHANGED <<prog, caught, pending, run, count, last, reload, owed, cause, sent>>

-----------------------------------------------------------------------------
(* Signals.                                                                *)

Alive(p) == at[p] \notin {"start", "end"}

\* Somebody sends a signal that the program has a handler for, or kills a daemon.
Send(p) ==
  /\ Alive(p) /\ MapThenSumSet(LAMBDA s : sent[s], Signal) < MaxSent
  /\ \E s \in {Handlers[k] : k \in DOMAIN Handlers}
              \union (IF prog = "service" THEN {"KILL"} ELSE {}) :
       /\ sent' = [sent EXCEPT ![s] = @ + 1]
       /\ pending' = [pending EXCEPT ![p] = @ \union {s}]
  /\ UNCHANGED <<prog, at, caught, run, count, last, reload, owed, pidFile, cause>>

Blocked(p) == IF prog = "shield" /\ at[p] = "load" THEN {"INT"} ELSE {}

\* What the handler of each program does with the count and the flags.
Counted(p, s) ==
  IF s = (IF prog = "shield" THEN "INT" ELSE "USR1") THEN count[p] + 1 ELSE count[p]

\* A slip of KeepsRunning: SIGTERM is written about and not obeyed.
KeepsRunningOn(p, s) == run[p] /\ (s = "INT" => Counted(p, s) < Hits)

KeepsRunning(p, s) == run[p] /\ s # "TERM" /\ (s = "INT" => Counted(p, s) < Hits)

\* The handler runs, and ends a pause or a sleep.
Handle(p, s) ==
  /\ s \in caught[p]
  /\ count' = [count EXCEPT ![p] = Counted(p, s)]
  /\ run' = [run EXCEPT ![p] = KeepsRunning(p, s)]
  /\ reload' = [reload EXCEPT ![p] = @ \/ s = "HUP"]
  /\ owed' = [owed EXCEPT ![p] = IF s = "HUP"
                                 THEN IF at[p] = "reset" THEN "late" ELSE "asked"
                                 ELSE @]
  /\ at' = [at EXCEPT ![p] = IF @ \in {"paused", "sleep"} THEN "test" ELSE @]
  /\ UNCHANGED cause

\* No handler: the process ends at once.
Die(p, s) ==
  /\ s \notin caught[p]
  /\ at' = [at EXCEPT ![p] = "end"]
  /\ cause' = [cause EXCEPT ![p] = s]
  /\ UNCHANGED <<run, count, reload, owed>>

Deliver(p) ==
  /\ Alive(p)
  /\ \E s \in pending[p] \ Blocked(p) :
       /\ pending' = [pending EXCEPT ![p] = @ \ {s}]
       /\ Handle(p, s) \/ Die(p, s)
  /\ UNCHANGED <<prog, caught, last, pidFile, sent>>

-----------------------------------------------------------------------------

Works(p) ==
  \/ Unblock(p) \/ OpenPidFile(p) \/ WritePid(p) \/ Install(p) \/ Test(p) \/ Pause(p)
  \/ Look(p) \/ Apply(p) \/ Reset(p) \/ Elapse(p) \/ Unlink(p)

Quiet == (\A p \in Proc : at[p] \in {"end", "paused"}) /\ UNCHANGED vars

Next == (\E p \in Proc : Begin(p) \/ Works(p) \/ Send(p) \/ Deliver(p)) \/ Quiet

-----------------------------------------------------------------------------

\* The daemons between their open and their unlink.
Owner(p) == at[p] \notin {"start", "open", "end"}

\* Whatever signals come at whatever step: one daemon at a time is past its open
\* and the file is its own; a file that nobody owns is left by a daemon that was
\* killed; a reload that was asked for is not forgotten, unless it came between the
\* application and the reset of the one before; the shield gives in only to SIGTERM
\* and to as many SIGINTs as it says; no count is printed that was not reached.
SignalsAreKept ==
  /\ prog = "service" =>
       /\ \A p, r \in Daemon : Owner(p) /\ Owner(r) => p = r
       /\ \A p \in Daemon : Owner(p) => pidFile = (IF at[p] = "write" THEN Empty ELSE p)
       /\ pidFile # None /\ (\A p \in Daemon : ~Owner(p)) =>
            \E p \in Daemon : pidFile \in {p, Empty} /\ cause[p] # None
       /\ \A p \in Daemon : owed[p] = "asked" => reload[p]
  /\ prog = "shield" =>
       run[Single] \/ sent["TERM"] > 0 \/ sent["INT"] >= Hits
  /\ \A p \in Proc : last[p] <= count[p]

\* What keeps the shield in pause() although it was told to stop: the signal came
\* between the test and the call, and no other has come since.
Deaf(p) == prog = "shield" /\ at[p] = "paused" /\ pending[p] = {}

\* A process that is sent SIGTERM or gave in ends, or is deaf; a deaf one ends with any other
\* signal; a count is printed in the end.
StopIsKept ==
  \A p \in Daemon \union {Single} :
    LET Is(A) == p \in Proc /\ A
        Ended == p \in Proc => at[p] = "end"
    IN /\ Is("TERM" \in pending[p] \/ ~run[p]) ~> (Ended \/ Deaf(p))
       /\ Is(~run[p] /\ at[p] = "paused" /\ pending[p] # {}) ~> Ended
       /\ Is(prog = "counter" /\ at[p] = "look") ~> (Ended \/ last[p] = count[p])
=============================================================================
