---------------------------- MODULE SerialLevels ----------------------------
(***************************************************************************)
(* Exporting a group of levels one after the other, the order a concurrent *)
(* group has to be indistinguishable from (#647): each level is written    *)
(* whole before the next begins, a checkpoint may follow every level but   *)
(* the archive's last, and the first level that fails ends the group.      *)
(***************************************************************************)
EXTENDS Naturals, Sequences

CONSTANTS
  N,        \* levels in the group, coarsest first
  Last,     \* whether the group's last level is the archive's last
  Panic,    \* the outcome of a panic
  Pending   \* no outcome yet

\* Where a level's work goes wrong, if it does.  "checkpoint": one is due after
\* the level, and it fails.
Faults == {"none", "collect", "collectPanic", "encode", "encodePanic",
           "write", "writePanic", "checkpoint"}
Panics == {"collectPanic", "encodePanic", "writePanic"}

\* No checkpoint is taken after the archive's last level: finalize follows.
Inputs == {f \in [1..N -> Faults] : Last => f[N] # "checkpoint"}

VARIABLES
  fault,     \* input: per level, what goes wrong
  written,   \* levels written whole, in the order the writer got them
  ckpt,      \* levels written when the last checkpoint was taken
  outcome    \* Ok, the level that failed, Panic, or Pending

vars == <<fault, written, ckpt, outcome>>

Init == /\ fault \in [1..N -> Faults]
        /\ written = <<>> /\ ckpt = 0 /\ outcome = Pending

Ok       == 0
Upcoming == Len(written) + 1

\* The next level, when none before it failed.  A checkpoint may be due after.
Write == /\ outcome = Pending
         /\ Upcoming <= N /\ fault[Upcoming] \in {"none", "checkpoint"}
         /\ \A i \in 1..Len(written) : fault[i] = "none"
         /\ written' = Append(written, Upcoming)
         /\ \/ UNCHANGED ckpt
            \/ /\ fault[Upcoming] = "none" /\ (Last => Upcoming < N)
               /\ ckpt' = Upcoming
         /\ UNCHANGED <<fault, outcome>>

\* The first level that fails.
Culprit == CHOOSE i \in 1..N : /\ fault[i] # "none"
                               /\ \A j \in 1..(i - 1) : fault[j] = "none"

\* Success writes everything.  An error is the coarsest level's, and every
\* coarser level is written by then.  Work runs ahead, so a finer level's
\* panic can come through instead.
Return ==
  /\ outcome = Pending
  /\ \/ /\ \A i \in 1..N : fault[i] = "none"
        /\ Len(written) = N /\ outcome' = Ok
     \/ /\ \E i \in 1..N : fault[i] # "none"
        /\ fault[Culprit] \notin Panics
        /\ Len(written) = IF fault[Culprit] = "checkpoint" THEN Culprit
                                                           ELSE Culprit - 1
        /\ outcome' = Culprit
     \/ \E i \in 1..N : fault[i] \in Panics /\ outcome' = Panic
  /\ UNCHANGED <<fault, written, ckpt>>

Next == Write \/ Return

Spec == Init /\ [][Next]_vars
=============================================================================
