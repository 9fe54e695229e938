------------------------------ MODULE Admission ------------------------------
(***************************************************************************)
(* What a runner promises, without its file format, its HTTP handlers or   *)
(* its counters: it grants jobs a share of a fixed budget, never more than *)
(* the budget holds, takes nothing back while it lives, and forgets every  *)
(* grant when it stops.                                                    *)
(***************************************************************************)
EXTENDS Integers

CONSTANTS CpuBudget, MemBudget, JobBudget

VARIABLES cpuUsed, memUsed, jobs

avars == <<cpuUsed, memUsed, jobs>>

Init == cpuUsed = 0 /\ memUsed = 0 /\ jobs = 0

\* A job takes some CPU and some memory of what is left, and one place.
Grant ==
  /\ jobs < JobBudget
  /\ cpuUsed' \in (cpuUsed + 1) .. CpuBudget
  /\ memUsed' \in (memUsed + 1) .. MemBudget
  /\ jobs' = jobs + 1

Forget == cpuUsed' = 0 /\ memUsed' = 0 /\ jobs' = 0

Next == Grant \/ Forget

Spec == Init /\ [][Next]_avars
=============================================================================
