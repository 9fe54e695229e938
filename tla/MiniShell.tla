------------------------------ MODULE MiniShell ------------------------------
(***************************************************************************)
(* minishell (bloque03, proyecto03): the loop that reads a line and forks, *)
(* the processes it starts, and the SIGCHLD handler that runs between any  *)
(* two steps of the loop, also while the loop is blocked in waitpid.       *)
(*                                                                         *)
(* A line is a simple command or two commands with a pipe, with or without *)
(* "&"; words, redirections and built-ins that start no process are left   *)
(* out.                                                                    *)
(***************************************************************************)
EXTENDS Integers, FiniteSets

CONSTANTS
  MaxPid,      \* bound: processes the shell starts
  MaxCtrlC,    \* bound: times the user presses Ctrl-C
  ForksMayFail \* whether the kernel may refuse a process

ASSUME ShellAssumption ==
  MaxPid \in Nat \ {0} /\ MaxCtrlC \in Nat /\ ForksMayFail \in BOOLEAN

Pid == 1 .. MaxPid
Shell == 0      \* as a holder of the ends of a pipe
Failed == -1    \* what fork returns when it fails

VARIABLES
  pc,        \* where the loop is; see Places
  amp,       \* the line has an "&"
  pid1, pid2,
  proc,      \* of a process: "none", "born", "run", "zombie" or "gone"
  role,      \* "none", "fg", "bg", "left" or "right"
  writers, readers,  \* who holds the ends of the pipe
  chld,      \* SIGCHLD is pending
  handling,  \* sigchld_handler runs
  presses    \* of Ctrl-C

shellVars ==
  <<pc, amp, pid1, pid2, proc, role, writers, readers, chld, handling, presses>>
pipe == <<writers, readers>>

Places ==
  {"prompt", "launch", "wait", "left", "right", "close", "wait1", "wait2", "exit"}

ShellInit ==
  /\ pc = "prompt" /\ amp = FALSE /\ pid1 = 0 /\ pid2 = 0
  /\ proc = [p \in Pid |-> "none"]
  /\ role = [p \in Pid |-> "none"]
  /\ writers = {} /\ readers = {}
  /\ chld = FALSE /\ handling = FALSE
  /\ presses = 0

In(status) == {p \in Pid : proc[p] = status}
Zombies == In("zombie")
Alive == In("born") \union In("run")
Unused == In("none")
\* The process that the next fork makes.
Fresh == {p \in Unused : \A r \in Unused : p <= r}

\* The loop runs only while the handler does not.
At(place) == pc = place /\ ~handling
Goto(place) == pc' = place

-----------------------------------------------------------------------------
(* The loop. *)

\* fgets and the parsing of a line that starts processes.
ReadLine ==
  /\ At("prompt") /\ Cardinality(Unused) >= 2
  /\ amp' \in BOOLEAN
  /\ pc' \in {"launch", "left"}
  /\ pid1' = 0 /\ pid2' = 0
  /\ UNCHANGED <<proc, role, pipe, chld, handling, presses>>

\* exit, or the end of the input.
Exit ==
  /\ At("prompt")
  /\ Goto("exit")
  /\ UNCHANGED <<amp, pid1, pid2, proc, role, pipe, chld, handling, presses>>

\* fork: the child is there and has not run yet.
Born(p, r) ==
  /\ proc' = [proc EXCEPT ![p] = "born"]
  /\ role' = [role EXCEPT ![p] = r]

\* A slip of Launch: the result of fork is not tested for a failure.
LaunchUnchecked ==
  /\ At("launch")
  /\ \/ \E p \in Fresh : Born(p, IF amp THEN "bg" ELSE "fg") /\ pid1' = p
     \/ ForksMayFail /\ pid1' = Failed /\ UNCHANGED <<proc, role>>
  /\ Goto(IF amp THEN "prompt" ELSE "wait")
  /\ UNCHANGED <<amp, pid2, pipe, chld, handling, presses>>

\* launch_process.
Launch ==
  /\ At("launch")
  /\ \/ \E p \in Fresh :
          /\ Born(p, IF amp THEN "bg" ELSE "fg")
          /\ pid1' = p
          /\ Goto(IF amp THEN "prompt" ELSE "wait")
     \/ /\ ForksMayFail
        /\ pid1' = Failed
        /\ Goto("prompt")
        /\ UNCHANGED <<proc, role>>
  /\ UNCHANGED <<amp, pid2, pipe, chld, handling, presses>>

\* execute_pipe, up to the first fork.  The child has both ends as well.
PipeLeft ==
  /\ At("left")
  /\ \/ \E p \in Fresh :
          /\ Born(p, "left")
          /\ pid1' = p
          /\ writers' = {Shell, p} /\ readers' = {Shell, p}
     \/ /\ ForksMayFail
        /\ pid1' = Failed
        /\ writers' = {Shell} /\ readers' = {Shell}
        /\ UNCHANGED <<proc, role>>
  /\ Goto("right")
  /\ UNCHANGED <<amp, pid2, chld, handling, presses>>

\* The second fork.
PipeRight ==
  /\ At("right")
  /\ \/ \E p \in Fresh :
          /\ Born(p, "right")
          /\ pid2' = p
          /\ writers' = writers \union {p} /\ readers' = readers \union {p}
     \/ /\ ForksMayFail
        /\ pid2' = Failed
        /\ UNCHANGED <<proc, role, pipe>>
  /\ Goto("close")
  /\ UNCHANGED <<amp, pid1, chld, handling, presses>>

\* A slip of PipeClose: the shell keeps the end for writing.
PipeCloseHalf ==
  /\ At("close")
  /\ readers' = readers \ {Shell}
  /\ Goto("wait1")
  /\ UNCHANGED <<writers, amp, pid1, pid2, proc, role, chld, handling, presses>>

PipeClose ==
  /\ At("close")
  /\ writers' = writers \ {Shell} /\ readers' = readers \ {Shell}
  /\ Goto("wait1")
  /\ UNCHANGED <<amp, pid1, pid2, proc, role, chld, handling, presses>>

\* waitpid(pid, ..., 0) of the loop: it blocks while a child it may mean lives,
\* reaps one that has ended, and fails (ECHILD) when there is none: the handler
\* may have been faster.  Where fork has failed, pid is -1 and means any child.
Meant(pid) == IF pid = Failed THEN Pid ELSE {pid}

WaitFor(pid, from, to) ==
  /\ At(from)
  /\ \/ \E z \in Meant(pid) \intersect Zombies :
          proc' = [proc EXCEPT ![z] = "gone"]
     \/ Meant(pid) \intersect (Alive \union Zombies) = {} /\ UNCHANGED proc
  /\ Goto(to)
  /\ UNCHANGED <<amp, pid1, pid2, role, pipe, chld, handling, presses>>

WaitForeground == WaitFor(pid1, "wait", "prompt")
\* A slip of WaitLeft: only the last command of the pipe is waited for.
WaitLeftNot ==
  /\ At("wait1") /\ Goto("wait2")
  /\ UNCHANGED <<amp, pid1, pid2, proc, role, pipe, chld, handling, presses>>
WaitLeft == WaitFor(pid1, "wait1", "wait2")
WaitRight == WaitFor(pid2, "wait2", "prompt")

-----------------------------------------------------------------------------
(* sigchld_handler. *)

\* The kernel starts it; the signal is blocked until it returns.
Deliver ==
  /\ chld /\ ~handling /\ pc # "exit"
  /\ chld' = FALSE /\ handling' = TRUE
  /\ UNCHANGED <<pc, amp, pid1, pid2, proc, role, pipe, presses>>

\* A slip of Reap: "if" in the place of "while".
ReapOnce ==
  /\ handling
  /\ \E z \in Zombies : proc' = [proc EXCEPT ![z] = "gone"]
  /\ handling' = FALSE
  /\ UNCHANGED <<pc, amp, pid1, pid2, role, pipe, chld, presses>>

\* One turn of its loop: waitpid(-1, ..., WNOHANG) finds a child that ended,
Reap ==
  /\ handling
  /\ \E z \in Zombies : proc' = [proc EXCEPT ![z] = "gone"]
  /\ UNCHANGED <<pc, amp, pid1, pid2, role, pipe, chld, handling, presses>>

\* or finds none.
HandlerReturns ==
  /\ handling /\ Zombies = {}
  /\ handling' = FALSE
  /\ UNCHANGED <<pc, amp, pid1, pid2, proc, role, pipe, chld, presses>>

-----------------------------------------------------------------------------
(* The processes and the user. *)

\* What a child does before its program runs: close and dup2 the pipe, or give
\* SIGINT back its default.
Start(p) ==
  /\ proc[p] = "born"
  /\ proc' = [proc EXCEPT ![p] = "run"]
  /\ readers' = IF role[p] = "left" THEN readers \ {p} ELSE readers
  /\ writers' = IF role[p] = "right" THEN writers \ {p} ELSE writers
  /\ UNCHANGED <<pc, amp, pid1, pid2, role, chld, handling, presses>>

\* The kernel closes what these processes had and tells the shell.
Die(dead) ==
  /\ proc' = [p \in Pid |-> IF p \in dead THEN "zombie" ELSE proc[p]]
  /\ writers' = writers \ dead /\ readers' = readers \ dead
  /\ chld' = (chld \/ dead # {})

\* A program ends, a command that is not found among them.
End(p) ==
  /\ proc[p] = "run"
  /\ Die({p})
  /\ UNCHANGED <<pc, amp, pid1, pid2, role, handling, presses>>

\* Whom SIGINT ends.  The shell ignores it and its children begin that way;
\* only launch_process gives it back its default.
Mortal == {p \in In("run") : role[p] \in {"fg", "bg"}}

\* The terminal sends SIGINT to all: they share the group of the shell.
CtrlC ==
  /\ pc # "exit" /\ presses < MaxCtrlC
  /\ presses' = presses + 1
  /\ Die(Mortal)
  /\ UNCHANGED <<pc, amp, pid1, pid2, role, handling>>

LoopStep ==
  \/ Launch \/ PipeLeft \/ PipeRight \/ PipeClose
  \/ WaitForeground \/ WaitLeft \/ WaitRight

HandlerStep == Deliver \/ Reap \/ HandlerReturns

ShellNext ==
  \/ ReadLine \/ Exit \/ LoopStep \/ HandlerStep \/ CtrlC
  \/ \E p \in Pid : Start(p) \/ End(p)

ShellSpec == ShellInit /\ [][ShellNext]_shellVars

\* What makes a program end: a foreground job at some time; the reader of a
\* pipe at its end, when nobody can write; the writer when it is read or when
\* nobody can read (SIGPIPE).  A background job may run for ever.
Ends(p) ==
  CASE role[p] = "right" -> writers = {}
    [] role[p] = "left" ->
         readers = {} \/ \E r \in readers \intersect In("run") : role[r] = "right"
    [] OTHER -> role[p] = "fg"

ShellFairSpec ==
  /\ ShellSpec
  /\ WF_shellVars(LoopStep)
  /\ WF_shellVars(HandlerStep)
  /\ \A p \in Pid : WF_shellVars(Start(p)) /\ WF_shellVars(Ends(p) /\ End(p))

-----------------------------------------------------------------------------

\* The types; only those that live hold the pipe, and a simple command is waited
\* for only when its process exists.
ShellTypeOK ==
  /\ pc \in Places /\ amp \in BOOLEAN
  /\ {pid1, pid2} \subseteq Pid \union {0, Failed}
  /\ proc \in [Pid -> {"none", "born", "run", "zombie", "gone"}]
  /\ role \in [Pid -> {"none", "fg", "bg", "left", "right"}]
  /\ writers \subseteq {Shell} \union Alive /\ readers \subseteq {Shell} \union Alive
  /\ chld \in BOOLEAN /\ handling \in BOOLEAN
  /\ presses \in 0 .. MaxCtrlC
  /\ pc = "wait" => pid1 \in Pid /\ role[pid1] = "fg"

\* Signals are merged: several children may end under one SIGCHLD.  Still no
\* zombie is forgotten: while there is one, the handler is running or will.
NoZombieForgotten == pc # "exit" /\ Zombies # {} => chld \/ handling

Waited == {p \in Pid : role[p] \in {"fg", "left", "right"}}

\* The prompt means that what the last line started in the foreground has
\* ended, whoever reaped it and whatever fork failed.
PromptMeansDone == pc = "prompt" => Waited \intersect Alive = {}

\* The prompt comes back after every line none of whose forks failed: no waitpid
\* waits for a child that the handler took, and the reader of a pipe is not kept
\* alive by an end that the shell or the reader itself forgot to close.
PromptReturns ==
  pc # "prompt" ~> pc \in {"prompt", "exit"} \/ Failed \in {pid1, pid2}

\* Ctrl-C ends what runs in the foreground (README.md 33).
CtrlCEndsForeground ==
  [][presses' > presses =>
       \A p \in Waited \intersect In("run") : proc'[p] = "zombie"]_shellVars
=============================================================================
