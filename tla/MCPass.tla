------------------------------- MODULE MCPass -------------------------------
(* The two halves of a buffered pass 2 for TLC: the pipe that feeds it      *)
(* (ScopedPipe) and the sinks it fills (SpillSink).  They share no state    *)
(* but the batches, so a behaviour is one of the pipe's, with the sinks at  *)
(* rest, or one of the sinks', fed in read order.                           *)
EXTENDS ScopedPipe, SpillSink

VARIABLE part \* which half runs

MCInit ==
  /\ \/ part = "pipe" /\ feed = <<>> /\ backing = "ram"
     \/ part = "sinks" /\ source = [n |-> 0, end |-> "ok"] /\ inFlight = 0
  /\ Init /\ PassInit

MCVars  == <<vars, passVars, part>>
InPipe  == part = "pipe" /\ UNCHANGED <<part, passVars>>
InSinks == part = "sinks" /\ UNCHANGED <<part, vars>>

MCNext ==
  \/ InPipe /\ Send
  \/ InPipe /\ HungUp
  \/ InPipe /\ SourceEnds
  \/ InPipe /\ Recv
  \/ InPipe /\ Disconnected
  \/ InPipe /\ TopUp
  \/ InPipe /\ Filled
  \/ InPipe /\ Process
  \/ InPipe /\ ProcessPanics
  \/ InPipe /\ EmitNext
  \/ InPipe /\ EmitEnds
  \/ InPipe /\ NextWindow
  \/ InPipe /\ Join
  \/ InSinks /\ Setup
  \/ InSinks /\ NextItem
  \/ InSinks /\ SourceFails
  \/ InSinks /\ AllRead
  \/ InSinks /\ Push
  \/ InSinks /\ Measure
  \/ InSinks /\ Downgrade
  \/ InSinks /\ Move
  \/ InSinks /\ Moved
  \/ InSinks /\ Drain
  \/ InSinks /\ JoinWriter
  \/ InSinks /\ WriteLevel
  \/ InSinks /\ DropSink
  \/ InSinks /\ DropJoin
  \/ \E l \in 1..L : InSinks /\ Receive(l)
  \/ \E l \in 1..L : InSinks /\ Write(l)
  \/ \E l \in 1..L : InSinks /\ Finish(l)
  \/ \E l \in 1..L : InSinks /\ WriterStops(l)

\* Each half's own fairness.
MCFairness ==
  /\ WF_MCVars(InPipe /\ Producer) /\ WF_MCVars(InPipe /\ Consumer)
  /\ WF_MCVars(InPipe /\ Join)
  /\ WF_MCVars(InSinks /\ Driver)
  /\ \A l \in 1..L : WF_MCVars(InSinks /\ Writer(l))

MCSpec == MCInit /\ [][MCNext]_MCVars /\ MCFairness

\* The pipe returns (ScopedPipe.AlwaysReturns) and so does the pass
\* (SpillSink.Returns), whatever fails.
PassReturns == (part = "pipe" => AlwaysReturns) /\ (part = "sinks" => Returns)

=============================================================================
