------------------------------- MODULE JobQueue -------------------------------
(***************************************************************************)
(* What the work queue of dix/dixutils.c promises to who puts a job on it: *)
(* every job is called once, and in order, but those of clients that are   *)
(* going away, which may overtake others.                                  *)
(***************************************************************************)
EXTENDS Naturals, Sequences, SequencesExt

VARIABLES
    jobs,           \* the jobs that will be called, oldest first
    waiting,        \* how many have been put there and not been called
    going           \* the clients that are being closed down

vars == <<jobs, waiting, going>>

Init == jobs = <<>> /\ waiting = 0 /\ going = {}

Put ==
    /\ Len(jobs') = Len(jobs) + 1 /\ Front(jobs') = jobs
    /\ waiting' = waiting + 1

Call ==
    /\ \E i \in DOMAIN jobs :
          /\ i = 1 \/ jobs[i].client \in going
          /\ jobs' = RemoveAt(jobs, i)
    /\ waiting' = waiting - 1

Next == Put \/ Call \/ UNCHANGED <<jobs, waiting>>

Spec == Init /\ [][Next]_vars
=============================================================================
