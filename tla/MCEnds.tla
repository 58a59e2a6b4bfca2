------------------------------- MODULE MCEnds -------------------------------
(* The two ends of a conversion for TLC: the output path several runs       *)
(* replace (AtomicOutput) and the input that workers read in order          *)
(* (OrderedRead).  They share no state, so a behaviour is one of the        *)
(* output's, with the read at rest, or one of the read's.                   *)
(*                                                                          *)
(* The read: a segment of three rows has two batches, and a worker has two  *)
(* segments where there are three.                                          *)
EXTENDS AtomicOutput, OrderedRead

CONSTANT MaxRead  \* bound: the rows of a plan

VARIABLE end  \* which end runs

MCVars == <<outputVars, readVars, end>>

\* The read that is not run: two empty segments.
AtRest ==
  /\ segs = [i \in 1..2 |-> [part |-> 1, rows |-> 0]]
  /\ fault = [kind |-> "none", seg |-> 1, at |-> 0] /\ limit = Ample

\* A plan of no more than MaxRead rows.
Short == SumFunctionOnSet([i \in DOMAIN segs |-> segs[i].rows], DOMAIN segs) <= MaxRead

MCInit ==
  /\ \/ end = "output" /\ AtRest
     \/ end = "read" /\ here = Nothing /\ away = Nothing
  /\ OutputInit /\ ReadInit /\ Short

InOutput == end = "output" /\ UNCHANGED <<end, readVars>>
InRead   == end = "read" /\ UNCHANGED <<end, outputVars>>

MCNext ==
  \/ \E r \in Runs : InOutput /\ CheckWritable(r)
  \/ \E r \in Runs : InOutput /\ Unchecked(r)
  \/ \E r \in Runs : InOutput /\ Probe(r)
  \/ \E r \in Runs : InOutput /\ Unprobe(r)
  \/ \E r \in Runs : InOutput /\ Lstat(r)
  \/ \E r \in Runs : InOutput /\ Resolve(r)
  \/ \E r \in Runs : InOutput /\ Stat(r)
  \/ \E r \in Runs : InOutput /\ CreateSibling(r)
  \/ \E r \in Runs : InOutput /\ Write(r)
  \/ \E r \in Runs : InOutput /\ Close(r)
  \/ \E r \in Runs : InOutput /\ Rename(r)
  \/ \E r \in Runs : InOutput /\ Return(r)
  \/ \E r \in Runs : InOutput /\ Fails(r)
  \/ \E r \in Runs : InOutput /\ Killed(r)
  \/ InRead /\ Spawn
  \/ InRead /\ SpawnFails
  \/ InRead /\ Deliver
  \/ InRead /\ BeginSegment
  \/ InRead /\ RecvBatch
  \/ InRead /\ Joined
  \/ InRead /\ RecvEnd
  \/ InRead /\ RecvErr
  \/ InRead /\ RecvDisconnected
  \/ InRead /\ TailDone
  \/ InRead /\ Join
  \/ \E w \in 1..Workers : InRead /\ w \in DOMAIN work /\ SendBatch(w)
  \/ \E w \in 1..Workers : InRead /\ w \in DOMAIN work /\ SendEnd(w)
  \/ \E w \in 1..Workers : InRead /\ w \in DOMAIN work /\ SendErr(w)
  \/ \E w \in 1..Workers : InRead /\ w \in DOMAIN work /\ Panics(w)
  \/ \E w \in 1..Workers : InRead /\ w \in DOMAIN work /\ WorkerEnds(w)

\* The read's fairness; the runs that write may stop anywhere.
MCFairness ==
  /\ WF_MCVars(InRead /\ Merge)
  /\ \A w \in 1..Workers : WF_MCVars(InRead /\ w \in DOMAIN work /\ Worker(w))

MCSpec == MCInit /\ [][MCNext]_MCVars /\ MCFairness

\* The read returns, whatever fails (OrderedRead.Returns).
ReadReturns == end = "read" => Returns

=============================================================================
