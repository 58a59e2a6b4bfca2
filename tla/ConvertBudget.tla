--------------------------- MODULE ConvertBudget ---------------------------
(***************************************************************************)
(* One conversion's grants, in the order overview/stream.rs takes them:    *)
(* staging, the spill's page cache, the encodes, and per read of pass 2 a  *)
(* read-ahead and a compute window.  Both reads resolve their workers and  *)
(* queues (overview/read.rs) from one copy of the ledger.                  *)
(***************************************************************************)
EXTENDS MemoryBudget

CONSTANTS
  Runs,           \* the runs: what a conversion is given (see RunType)
  MinDepth, MaxDepth, BoundedDepth, \* READ_AHEAD_*_BATCHES
  BoundedWorkers, \* READ_WORKERS_BOUNDED_MAX
  EncodeFloor     \* ENCODE_FLOOR

RunType ==
  [limit : 0..Top \cup {Unknown},
   profile : {"bounded", "auto", "speed"},
   cgroup : BOOLEAN,      \* page cache counts against the limit
   spill : Nat,           \* what pass 2 would spill, 0 for nothing
   stage : Nat,           \* the largest staging request, 0 for a local input
   staging : Nat \ {0},   \* staging requests wanted, what their byte budget holds
   threads : Nat \ {0},   \* encode threads
   encode : Nat \ {0},    \* price of an encode
   batch : Nat \ {0},     \* price of a read batch
   reader : Nat,          \* batches a reader holds besides its queue
   workers : Nat,         \* --read-workers
   channel : Nat,         \* batches between the read and its consumer
   window : Nat \ {0},    \* batches wanted in the compute window
   windowPrice : Nat \ {0},
   buffered : BOOLEAN,    \* some level is buffered
   streamed : BOOLEAN]    \* the finest level is streamed on its own

ASSUME ConvertAssumption ==
  /\ Runs \subseteq RunType
  /\ EncodeFloor \in Nat \ {0} /\ BoundedWorkers \in Nat \ {0}
  /\ MinDepth \in Nat \ {0} /\ BoundedDepth \in Nat /\ MaxDepth \in Nat
  /\ MinDepth <= BoundedDepth /\ BoundedDepth <= MaxDepth

VARIABLES
  tuning, \* the copy of the ledger both reads resolve from
  shape,  \* the read shape charged last: workers and depth
  pc      \* "stage", "staged", "spill", "encode", "read", "window",
          \* "reading", "finest", "fwindow", "freading", "done"

vars == <<run, ledger, least, tuning, shape, pc>>

-----------------------------------------------------------------------------
(* resolve_read_shape *)

MaxWorkers == IF run.profile = "bounded" THEN BoundedWorkers ELSE Top
DepthCap == IF run.profile = "bounded" THEN BoundedDepth ELSE MaxDepth
ReadAffordable(l) == Affordable(l, "read", run.batch)

Workers_NoReader(l) ==
  Least(Least(Most(run.workers, 1), MaxWorkers),
        Most(ReadAffordable(l) \div MinDepth, 1))

Workers(l) ==
  Least(Least(Most(run.workers, 1), MaxWorkers),
        Most(ReadAffordable(l) \div (MinDepth + run.reader), 1))

Depth(l) ==
  Least(Most(Minus(ReadAffordable(l) \div Workers(l), run.reader), MinDepth), DepthCap)

Batches(s) == Sat(s.workers * (s.depth + run.reader) + run.channel)

-----------------------------------------------------------------------------
(* The conversion. *)

Init ==
  /\ run \in Runs
  /\ LedgerInit
  /\ tuning = <<0, None>> /\ shape = [workers |-> 1, depth |-> MinDepth]
  /\ pc = IF run.stage = 0 THEN "spill" ELSE "stage"

Goto(p) == pc' = p

Stage ==
  /\ pc = "stage"
  /\ Fit("stage", run.stage, run.staging, 1, 1)
  /\ Goto("staged")
  /\ UNCHANGED <<run, reserved, tuning, shape>>

\* Released when staging ends, whether it succeeded or not.
Staged ==
  /\ pc = "staged"
  /\ Release({"stage"})
  /\ Goto("spill")
  /\ UNCHANGED <<run, reserved, tuning, shape>>

\* The spill's page cache is reserved whole, or not at all.
ReserveSpill ==
  /\ pc = "spill"
  /\ IF /\ run.limit # Unknown /\ run.cgroup /\ run.spill > 0
        /\ run.spill <= Remaining(ledger)
     THEN ReserveUpTo(run.spill) ELSE UNCHANGED reserved
  /\ Goto("encode")
  /\ UNCHANGED <<run, granted, tuning, shape, least>>

\* The encodes' grant is kept to the end; the reads' tuning copies the ledger.
Encode ==
  /\ pc = "encode"
  /\ LET floor == Least(run.threads, EncodeFloor)
     IN  Fit("encode", run.encode, run.threads, floor, floor)
  /\ tuning' = <<reserved, granted'>>
  /\ Goto(IF run.buffered THEN "read" ELSE IF run.streamed THEN "finest" ELSE "done")
  /\ UNCHANGED <<run, reserved, shape>>

\* A read's workers, queues, readers and channel are charged as they are.
\* It could have done with the channel, and if it is down to one worker at the
\* shallowest queue, with nothing less than it has.
ReadAhead ==
  LET s == [workers |-> Workers(tuning), depth |-> Depth(tuning)]
      low == run.channel + IF s.workers = 1 /\ s.depth = MinDepth
                           THEN MinDepth + run.reader ELSE 0
  IN  /\ shape' = s
      /\ Fit("read", run.batch, Batches(s), Batches(s), low)

Read ==
  /\ pc \in {"read", "finest"}
  /\ ReadAhead
  /\ Goto(IF pc = "read" THEN "window" ELSE "fwindow")
  /\ UNCHANGED <<run, reserved, tuning>>

\* The window is sized against what the read-ahead left.
Window ==
  /\ pc \in {"window", "fwindow"}
  /\ Fit("compute", run.windowPrice, run.window, 1, 1)
  /\ Goto(IF pc = "window" THEN "reading" ELSE "freading")
  /\ UNCHANGED <<run, reserved, tuning, shape>>

EndRead_KeepsRead ==
  /\ pc \in {"reading", "freading"}
  /\ Release({"compute"})
  /\ \E p \in {"done"} \cup (IF pc = "reading" /\ run.streamed THEN {"finest"} ELSE {}) : Goto(p)
  /\ UNCHANGED <<run, reserved, tuning, shape>>

\* Both are returned when the read ends; if it failed, the run ends there.
EndRead ==
  /\ pc \in {"reading", "freading"}
  /\ Release({"read", "compute"})
  /\ \E p \in {"done"} \cup (IF pc = "reading" /\ run.streamed THEN {"finest"} ELSE {}) : Goto(p)
  /\ UNCHANGED <<run, reserved, tuning, shape>>

Next ==
  \/ Stage \/ Staged \/ ReserveSpill \/ Encode \/ Read \/ Window \/ EndRead

Spec == Init /\ [][Next]_vars

-----------------------------------------------------------------------------
TypeOK ==
  /\ LedgerTypeOK /\ run \in Runs
  /\ tuning \in Nat \X [Grants -> Nat]
  /\ shape \in [workers : Nat \ {0}, depth : Nat \ {0}]
  /\ pc \in {"stage", "staged", "spill", "encode", "read", "window", "reading",
             "finest", "fwindow", "freading", "done"}

\* The copy that a read resolves its shape from.
TuningIsCurrent == pc \in {"read", "finest"} => tuning = ledger

Holds(w, d) == w * (d + run.reader) <= ReadAffordable(tuning)
ShapeIsLargest ==
  pc \in {"window", "fwindow"} =>
    LET asked == Least(Most(run.workers, 1), MaxWorkers) IN
      /\ shape.workers \in 1..asked
      /\ shape.workers > 1 => Holds(shape.workers, shape.depth)
      /\ shape.workers < asked => ~Holds(shape.workers + 1, MinDepth)
      /\ shape.depth \in MinDepth..DepthCap
      /\ shape.depth < DepthCap => ~Holds(shape.workers, shape.depth + 1)

(***************************************************************************)
(* Each read is sized by the ledger it is charged to, the second as the    *)
(* first: all the first held is back.  And the closed form gives what the  *)
(* loop it replaced gave: the most workers, of those asked for, that can   *)
(* each hold the shallowest queue beside their reader; then the deepest    *)
(* queue they can all have.                                                *)
(***************************************************************************)
SizedAsCharged == TuningIsCurrent /\ ShapeIsLargest
=============================================================================
