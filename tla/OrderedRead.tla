---------------------------- MODULE OrderedRead ----------------------------
(***************************************************************************)
(* overview/read.rs, read_in_parallel: reader workers over disjoint        *)
(* segments, each with a bounded channel of its own, and a merge on the    *)
(* calling thread that takes the segments in order and re-cuts their       *)
(* batches where a single reader would have cut them.                      *)
(*                                                                         *)
(* A batch is the sequence of its row ids with the bytes it pins: as many  *)
(* as the rows it was decoded with, also after a slice.                    *)
(***************************************************************************)
EXTENDS Naturals, Sequences, SequencesExt, FiniteSetsExt

CONSTANTS
  B,        \* tuning.batch_size
  Limits,   \* what tylertoo_io::byte_array_limit may be, in rows
  Ample,    \* a limit no queue's bytes reach
  Workers,  \* shape.workers
  Depth,    \* shape.depth, a channel's capacity
  MaxSegs,  \* bound: segments in the plan
  MaxRows,  \* bound: rows of a segment
  Pending   \* no outcome yet

\* What the code derives them as; a queue never pins three batches' worth.
ASSUME ShapeAssumption ==
  /\ B \in Nat \ {0} /\ Workers \in Nat \ {0} /\ Depth \in Nat \ {0}
  /\ Limits \subseteq Nat /\ Ample \in Nat /\ Ample >= 3 * B
  /\ MaxSegs \in Nat /\ MaxRows \in Nat

VARIABLES
  segs,     \* input: the plan, per segment its part and row count
  fault,    \* input: where reading fails, and how
  limit,    \* input: the byte limit of a join
  up,       \* workers spawned
  work,     \* per worker: [seg, at, run]: its segment, the rows of it sent,
            \* and whether it runs, has ended, or has panicked
  chan,     \* per worker: its channel
  open,     \* the receivers are alive
  mpc,      \* merge: "spawn", "part", "recv", "join", "tail", "done"
  seq,      \* the segment being merged
  part,     \* current_part
  queue,    \* the Regrouper's queue
  given,    \* batches on_batch was called with: <<row offset, row ids>>
  answer,   \* what on_batch last said
  result,   \* what the merge returned or raised
  outcome   \* what read_in_order returned or raised, Pending until then

inputs  == <<segs, fault, limit>>
readers == <<work, chan>>
merge   == <<seq, part, queue, given, answer>>
readVars == <<inputs, up, readers, open, mpc, merge, result, outcome>>

Sequential == INSTANCE SequentialRead

NWorkers  == IF Workers < Len(segs) THEN Workers ELSE Len(segs)

\* Segment i is read by worker i, round-robin.
ReaderOf(i) == ((i - 1) % NWorkers) + 1
Rows      == FlattenSeq([i \in DOMAIN queue |-> queue[i].rows])
RowOffset == SumFunctionOnSet([i \in DOMAIN given |-> Len(given[i][2])], DOMAIN given)

ReadInit ==
  /\ segs \in Sequential!Plans /\ fault \in Sequential!FaultsOf(segs)
  /\ limit \in Limits
  /\ up = 0 /\ open = TRUE
  /\ work = [w \in 1..NWorkers |-> [seg |-> w, at |-> 0, run |-> "run"]]
  /\ chan = [w \in 1..NWorkers |-> <<>>]
  /\ mpc = "spawn" /\ seq = 1 /\ part = 0
  /\ queue = <<>> /\ given = <<>> /\ answer = "go"
  /\ result = Pending /\ outcome = Pending

-----------------------------------------------------------------------------
(* Worker w: read_segments_for_worker *)

Working(w) == w <= up /\ work[w].run = "run"
Stay       == UNCHANGED <<inputs, up, open, mpc, merge, result, outcome>>

\* send: blocks on a full channel, fails once the receivers are gone.
Send(w, msg) ==
  /\ open /\ Len(chan[w]) < Depth
  /\ chan' = [chan EXCEPT ![w] = Append(@, msg)]

\* The rows of the reader's next batch, and whether it fails in or before it.
NextLen(w) == LET rest == segs[work[w].seg].rows - work[w].at
              IN  IF rest < B THEN rest ELSE B
FailsNext(w) ==
  /\ fault.kind # "none" /\ fault.seg = work[w].seg
  /\ fault.at = 0 \/ fault.at < work[w].at + NextLen(w)

SendBatch(w) ==
  /\ Working(w) /\ work[w].seg <= Len(segs) /\ ~FailsNext(w) /\ NextLen(w) > 0
  /\ LET from == Sequential!First(work[w].seg) + work[w].at
     IN  Send(w, [kind |-> "batch", rows |-> Sequential!Run(from, NextLen(w)),
                  bytes |-> NextLen(w)])
  /\ work' = [work EXCEPT ![w].at = @ + NextLen(w)]
  /\ Stay

SendEnd(w) ==
  /\ Working(w) /\ work[w].seg <= Len(segs) /\ ~FailsNext(w) /\ NextLen(w) = 0
  /\ Send(w, [kind |-> "end"])
  /\ work' = [work EXCEPT ![w].seg = @ + NWorkers, ![w].at = 0]
  /\ Stay

SendErr(w) ==
  /\ Working(w) /\ work[w].seg <= Len(segs) /\ FailsNext(w) /\ fault.kind = "err"
  /\ Send(w, [kind |-> "err"])
  /\ work' = [work EXCEPT ![w].run = "end"]
  /\ Stay

Panics(w) ==
  /\ Working(w) /\ work[w].seg <= Len(segs) /\ FailsNext(w) /\ fault.kind = "panic"
  /\ work' = [work EXCEPT ![w].run = "panic"]
  /\ UNCHANGED chan /\ Stay

\* No segment is left, or the send found the merge gone.
WorkerEnds(w) ==
  /\ Working(w)
  /\ \/ work[w].seg > Len(segs)
     \/ ~open /\ ~(FailsNext(w) /\ fault.kind = "panic")
  /\ work' = [work EXCEPT ![w].run = "end"]
  /\ UNCHANGED chan /\ Stay

Worker(w) == SendBatch(w) \/ SendEnd(w) \/ SendErr(w) \/ Panics(w) \/ WorkerEnds(w)

-----------------------------------------------------------------------------
(* The merge, on the calling thread *)

\* Mutant: an error leaves the receivers alive until the scope has joined.
LeaveWith_KeepsRx(r) ==
  /\ result' = r /\ mpc' = "done"
  /\ IF r = "consumerErr" THEN UNCHANGED <<open, chan>>
                          ELSE open' = FALSE /\ chan' = [w \in DOMAIN chan |-> <<>>]
  /\ UNCHANGED <<inputs, up, work, outcome>>

\* Whatever path the merge leaves by drops the receivers it owns.
LeaveWith(r) ==
  /\ result' = r /\ mpc' = "done"
  /\ open' = FALSE /\ chan' = [w \in DOMAIN chan |-> <<>>]
  /\ UNCHANGED <<inputs, up, work, outcome>>

Go(pc) == mpc' = pc /\ UNCHANGED <<inputs, up, work, open, result, outcome>>

Spawn ==
  /\ mpc = "spawn"
  /\ up' = up + 1
  /\ mpc' = IF up' = NWorkers THEN "part" ELSE "spawn"
  /\ UNCHANGED <<inputs, readers, open, merge, result, outcome>>

SpawnFails == mpc = "spawn" /\ LeaveWith("spawnErr") /\ UNCHANGED merge

\* Of the queue: the rows of its first n batches, and the bytes some of its
\* batches pin.
RowsIn(n)   == SumFunctionOnSet([i \in DOMAIN queue |-> Len(queue[i].rows)], 1..n)
Pinned(bs) == SumFunctionOnSet([i \in DOMAIN queue |-> queue[i].bytes], bs)

\* Regrouper::bounded_rows, concat_prefix_rows: the longest run of whole
\* batches that pins limit bytes at most, the first one always included.
BoundedRows ==
  IF queue = <<>> THEN 0
  ELSE RowsIn(Max({n \in DOMAIN queue : n = 1 \/ Pinned(1..n) <= limit}))

\* What is left of the queue when its first n rows are gone: the batches that
\* are through, and a slice of the one that is not.
Rest(n) ==
  LET gone == Max({k \in 0..Len(queue) : RowsIn(k) <= n})
      left == SubSeq(queue, gone + 1, Len(queue))
  IN  IF left = <<>> THEN <<>>
      ELSE [left EXCEPT ![1].rows = SubSeq(@, n - RowsIn(gone) + 1, Len(@))]

\* Mutant: rows are joined whatever they pin.
Take_Unbounded(n) == n

\* Regrouper::take, cut down to what may be joined.
Take(n) == IF n < BoundedRows THEN n ELSE BoundedRows

\* The rows to hand on now: all that is left where a part ends, a batch's
\* worth when there is one or when joining more would pass the limit.
Wanted ==
  CASE mpc = "tail" -> Len(Rows)
    [] mpc = "part" /\ segs[seq].part # part -> Len(Rows)
    [] mpc = "join" /\ (Len(Rows) >= B \/ BoundedRows < Len(Rows)) ->
         IF Len(Rows) < B THEN Len(Rows) ELSE B
    [] OTHER -> 0

\* Mutant: the slice put back is what was handed on.
Deliver_ForgetsRest ==
  /\ Wanted > 0
  /\ given' = Append(given, <<RowOffset, SubSeq(Rows, 1, Take(Wanted))>>)
  /\ queue' = <<>>
  /\ answer' \in Sequential!Answers
  /\ UNCHANGED <<seq, part>>
  /\ CASE answer' = "go"   -> Go(mpc) /\ UNCHANGED chan
       [] answer' = "stop" -> LeaveWith("ok")
       [] answer' = "err"  -> LeaveWith("consumerErr")
       [] OTHER            -> LeaveWith("panic")

\* deliver, and what on_batch makes of it.
Deliver ==
  /\ Wanted > 0
  /\ given' = Append(given, <<RowOffset, SubSeq(Rows, 1, Take(Wanted))>>)
  /\ queue' = Rest(Take(Wanted))
  /\ answer' \in Sequential!Answers
  /\ UNCHANGED <<seq, part>>
  /\ CASE answer' = "go"   -> Go(mpc) /\ UNCHANGED chan
       [] answer' = "stop" -> LeaveWith("ok")
       [] answer' = "err"  -> LeaveWith("consumerErr")
       [] OTHER            -> LeaveWith("panic")

BeginSegment ==
  /\ mpc = "part" /\ Wanted = 0
  /\ part' = segs[seq].part
  /\ Go("recv") /\ UNCHANGED <<chan, seq, queue, given, answer>>

Msgs == chan[ReaderOf(seq)]
Next1 == chan' = [chan EXCEPT ![ReaderOf(seq)] = Tail(@)]

RecvBatch ==
  /\ mpc = "recv" /\ Msgs # <<>> /\ Head(Msgs).kind = "batch"
  /\ queue' = Append(queue, [rows |-> Head(Msgs).rows, bytes |-> Head(Msgs).bytes])
  /\ Next1 /\ Go("join") /\ UNCHANGED <<seq, part, given, answer>>

\* The batch is queued and no more can be handed on: back to recv.
Joined == /\ mpc = "join" /\ Wanted = 0
          /\ Go("recv") /\ UNCHANGED <<chan, merge>>

RecvEnd ==
  /\ mpc = "recv" /\ Msgs # <<>> /\ Head(Msgs).kind = "end"
  /\ seq' = seq + 1
  /\ Next1 /\ Go(IF seq = Len(segs) THEN "tail" ELSE "part")
  /\ UNCHANGED <<part, queue, given, answer>>

RecvErr == /\ mpc = "recv" /\ Msgs # <<>> /\ Head(Msgs).kind = "err"
           /\ LeaveWith("readErr") /\ UNCHANGED merge

\* The worker is gone without an End.
RecvDisconnected ==
  /\ mpc = "recv" /\ Msgs = <<>> /\ work[ReaderOf(seq)].run # "run"
  /\ LeaveWith("internalErr") /\ UNCHANGED merge

TailDone == mpc = "tail" /\ Wanted = 0 /\ LeaveWith("ok") /\ UNCHANGED merge

\* The scope joins its workers; one that panicked makes the scope panic.
Join ==
  /\ mpc = "done" /\ outcome = Pending
  /\ \A w \in 1..up : work[w].run # "run"
  /\ outcome' = IF \E w \in 1..up : work[w].run = "panic" THEN "panic" ELSE result
  /\ UNCHANGED <<inputs, up, readers, open, mpc, merge, result>>

Merge == \/ Spawn \/ SpawnFails \/ Deliver \/ BeginSegment \/ RecvBatch \/ Joined
         \/ RecvEnd \/ RecvErr \/ RecvDisconnected \/ TailDone \/ Join

ReadNext == Merge \/ \E w \in DOMAIN work : Worker(w)

\* The threads are scheduled; a read and on_batch return.
Fairness == /\ WF_readVars(Merge)
            /\ \A w \in 1..Workers : WF_readVars(w \in DOMAIN work /\ Worker(w))

ReadSpec == ReadInit /\ [][ReadNext]_readVars /\ Fairness

-----------------------------------------------------------------------------
(* Properties *)

\* Every variable holds a value of its kind.
ReadTypeOK ==
  /\ segs \in Sequential!Plans /\ fault \in Sequential!FaultsOf(segs)
  /\ limit \in Limits
  /\ up \in 0..NWorkers /\ open \in BOOLEAN
  /\ DOMAIN work = 1..NWorkers /\ DOMAIN chan = 1..NWorkers
  /\ \A w \in DOMAIN work : /\ work[w].run \in {"run", "end", "panic"}
                            /\ work[w].seg \in 1..(Len(segs) + NWorkers)
                            /\ work[w].at \in 0..MaxRows
                            /\ Len(chan[w]) <= Depth
  /\ mpc \in {"spawn", "part", "recv", "join", "tail", "done"}
  /\ seq \in 1..(Len(segs) + 1) /\ part \in 0..2
  /\ answer \in Sequential!Answers

\* Rows are joined into one batch only while the batches they come from pin
\* limit bytes together: a seam never makes a batch whose offsets overflow.
JoinsBounded ==
  [][given' # given =>
       LET n    == Len(given'[Len(given')][2])
           from == {i \in DOMAIN queue : RowsIn(i - 1) < n}
       IN  from = {1} \/ Pinned(from) <= limit]_readVars

\* The parallel read is the sequential one: the same batches at the same row
\* offsets, and an outcome the sequential reader could have had.
ReadsSequentially == Sequential!Spec

\* The read returns, whatever fails: no worker stays parked in send on a
\* channel nobody drains (#362), and the merge waits for no worker that has
\* ended.
Returns == <>(outcome # Pending)

=============================================================================
