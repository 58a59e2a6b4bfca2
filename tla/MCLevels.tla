------------------------------ MODULE MCLevels ------------------------------
(* The two ways the levels of an export come to be drawn, for TLC: groups   *)
(* of levels committed in order (GroupCommit), and levels drawn behind a    *)
(* prober that decides which tiles end there (VariableDepth).  The second   *)
(* calls the first a run of levels at a time and sees it as one step, so a  *)
(* behaviour is one of a group or one of the drawing behind the prober.     *)
EXTENDS GroupCommit, VariableDepth

VARIABLE part   \* which of the two runs

\* Four levels, one zoom skipped, the coarsest too far up to be probed.
MCZooms == <<0, 1, 2, 4>>

\* A point in the buffer of a tile border, and an area beside it.
MCRows == {[at |-> 16, point |-> TRUE], [at |-> 20, point |-> FALSE]}

ASSUME DepthAssumption == VariableDepthAssumption

MCVars == <<vars, depthVars, part>>

MCInit ==
  /\ \/ /\ part = "group"
        /\ rung = {} /\ collapse = FALSE
        /\ shown = [k \in Probed |-> [r \in Rows |-> "none"]]
     \/ part = "depth" /\ fault = [i \in Levels |-> "none"]
  /\ Init /\ DepthInit

InGroup == part = "group" /\ UNCHANGED <<part, depthVars>>
InDepth == part = "depth" /\ UNCHANGED <<part, vars>>

MCNext ==
  \/ InGroup /\ CheckError
  \/ InGroup /\ Collect
  \/ InGroup /\ CollectFails
  \/ InGroup /\ Return
  \/ \E i \in Levels : InGroup /\ Encode(i)
  \/ \E i \in Levels : InGroup /\ Finish(i)
  \/ \E i \in Levels : InGroup /\ Release(i)
  \/ \E i, j \in Levels : InGroup /\ WriteReady(i, j)
  \/ \E i, j \in Levels : InGroup /\ WriteFails(i, j)
  \/ \E i, j \in Levels : InGroup /\ WritePanics(i, j)
  \/ InDepth /\ ProbeLevel
  \/ InDepth /\ ProbeEnds
  \/ InDepth /\ ProbeFails
  \/ InDepth /\ DrawLevel
  \/ InDepth /\ DrawFails
  \/ InDepth /\ DrawnAll
  \/ InDepth /\ Receive
  \/ InDepth /\ Abandoned
  \/ InDepth /\ PlanRun
  \/ InDepth /\ Join

\* Each one's own fairness.
MCFairness ==
  /\ WF_MCVars(InGroup /\ Main) /\ \A i \in Levels : WF_MCVars(InGroup /\ Task(i))
  /\ WF_MCVars(InDepth /\ Probe) /\ WF_MCVars(InDepth /\ Draw)

MCSpec == MCInit /\ [][MCNext]_MCVars /\ MCFairness

\* The group returns (GroupCommit.Returns); both threads behind a prober end,
\* and what is returned is what happened (VariableDepth.DepthReturns).
LevelsReturn == (part = "group" => Returns) /\ (part = "depth" => DepthReturns)

=============================================================================
