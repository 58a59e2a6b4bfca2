--------------------------- MODULE SequentialRead ---------------------------
(***************************************************************************)
(* One reader, one thread: the selected rows of every part in order, in    *)
(* batches of B rows that no part boundary is inside of.  This is what     *)
(* read_in_order promises whatever --read-workers is (#494).               *)
(***************************************************************************)
EXTENDS Naturals, Sequences, FiniteSetsExt, Functions

CONSTANTS
  B,        \* tuning.batch_size
  Ample,    \* a byte limit under which no join is refused
  MaxSegs,  \* bound: segments in the plan
  MaxRows,  \* bound: rows of a segment
  Pending   \* no outcome yet

VARIABLES
  segs,     \* input: the plan, per segment its part and row count
  fault,    \* input: where reading fails, and how
  limit,    \* input: the byte limit of a join
  given,    \* batches on_batch was called with: <<row offset, row ids>>
  answer,   \* what on_batch last said
  outcome

vars == <<segs, fault, limit, given, answer, outcome>>

\* read_segments never lets a segment cross a part; a row group can be empty.
Plans == {p \in UNION {[1..n -> [part : {1, 2}, rows : 0..MaxRows]] : n \in 2..MaxSegs} :
            \A i \in 1..(Len(p) - 1) : p[i].part <= p[i + 1].part}

\* The row of segment `seg` before which `at` were read when its reader fails;
\* 0 is also where opening the segment fails.
FaultsOf(p) ==
  {f \in [kind : {"none", "err", "panic"}, seg : DOMAIN p, at : 0..MaxRows] :
     IF f.kind = "none" THEN f.seg = 1 /\ f.at = 0
                        ELSE f.at = 0 \/ f.at < p[f.seg].rows}

\* Row ids count from 1 over the whole selection; First(i) is segment i's.
First(i)     == 1 + SumFunctionOnSet([j \in DOMAIN segs |-> segs[j].rows], 1..(i - 1))
AllRows      == First(Len(segs) + 1) - 1
PartFirst(i) == First(Min({j \in DOMAIN segs : segs[j].part = segs[i].part}))
PartEnds     == {First(i + 1) - 1 : i \in {j \in DOMAIN segs :
                   j = Len(segs) \/ segs[j + 1].part # segs[j].part}}
PartLast(r)  == Min({e \in PartEnds : e >= r})

Run(from, len) == [i \in 1..len |-> from + i - 1]

Init == /\ segs \in Plans /\ fault \in FaultsOf(segs) /\ limit \in Nat
        /\ given = <<>> /\ answer = "go" /\ outcome = Pending

Read == SumFunctionOnSet([i \in DOMAIN given |-> Len(given[i][2])], DOMAIN given)

Answers == {"go", "stop", "err", "panic"}

\* The first row that cannot be read.
BadRow == IF fault.kind = "none" THEN AllRows + 1 ELSE First(fault.seg) + fault.at

Deliver ==
  /\ outcome = Pending /\ answer = "go" /\ Read < AllRows
  /\ \E len \in 1..B :
       LET room == PartLast(Read + 1) - Read
       IN  /\ len <= room
           /\ limit >= Ample => len = IF room < B THEN room ELSE B
           /\ Read + len < BadRow
           /\ given' = Append(given, <<Read, Run(Read + 1, len)>>)
  /\ answer' \in Answers
  /\ UNCHANGED <<segs, fault, limit, outcome>>

\* A read error is reported once the parts before it are through, and costs
\* the batch it is in and the one before at most.
ReadFails == /\ answer = "go" /\ fault.kind = "err"
             /\ Read + 1 >= PartFirst(fault.seg)
             /\ BadRow - 1 - Read <= 2 * (B - 1)

Finished == answer = "go" /\ Read = AllRows /\ fault.kind = "none"

Return ==
  /\ outcome = Pending
  /\ \/ outcome' = "ok" /\ (answer = "stop" \/ Finished)
     \/ outcome' = "consumerErr" /\ answer = "err"
     \/ outcome' = "readErr" /\ ReadFails
     \/ outcome' = "spawnErr" /\ given = <<>>
     \/ outcome' = "panic" /\ (answer = "panic" \/ fault.kind = "panic")
  /\ UNCHANGED <<segs, fault, limit, given, answer>>

Next == Deliver \/ Return

Spec == Init /\ [][Next]_vars
=============================================================================
