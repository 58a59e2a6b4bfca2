---------------------------- MODULE BufferedPass ----------------------------
(***************************************************************************)
(* What the buffered pass 2 promises, with no spill file and no thread in  *)
(* it: every level's batches reach the overview writer in read order,      *)
(* level after level, and the pass reports success only when all of them   *)
(* did, failure only when something failed.                                *)
(***************************************************************************)
EXTENDS Naturals, Sequences

CONSTANTS
  L,          \* buffered levels
  MaxBatches, \* bound: batches read
  Unfinished  \* no outcome yet

Levels == 1..L
Causes == {"source", "create", "write", "panic", "read", "output"}

VARIABLES
  feed,     \* input: per batch read, the levels it has rows for
  out,      \* per level, what the overview writer was given
  broke,    \* history: what has failed
  passOutcome

vars == <<feed, out, broke, passOutcome>>

Feeds == UNION {[1..n -> SUBSET Levels] : n \in 0..MaxBatches}

\* The batches of level l among the first n read, in read order.
First(l, n) ==
  LET rows[i \in 0..Len(feed)] ==
        IF i = 0 THEN <<>>
        ELSE IF l \in feed[i] THEN Append(rows[i - 1], i) ELSE rows[i - 1]
  IN  rows[n]

Want(l) == First(l, Len(feed))

Whole(l) == out[l] = Want(l)

Init == /\ feed \in Feeds /\ out = [l \in Levels |-> <<>>] /\ broke = {}
        /\ passOutcome = Unfinished

Break == /\ \E c \in Causes : broke' = broke \cup {c}
         /\ UNCHANGED <<feed, out, passOutcome>>

\* A level is drained, in part only when that is what failed.
Drain ==
  /\ passOutcome = Unfinished
  /\ \E l \in Levels :
       /\ \A k \in 1..(l - 1) : Whole(k)
       /\ \A k \in l..L : out[k] = <<>>
       /\ \/ out' = [out EXCEPT ![l] = Want(l)] /\ UNCHANGED broke
          \/ \E n \in 0..Len(Want(l)), c \in {"read", "output"} :
               /\ out' = [out EXCEPT ![l] = SubSeq(Want(l), 1, n)]
               /\ broke' = broke \cup {c}
  /\ UNCHANGED <<feed, passOutcome>>

Return ==
  /\ passOutcome = Unfinished
  /\ \/ passOutcome' = "ok" /\ \A l \in Levels : Whole(l)
     \/ passOutcome' \in broke
  /\ UNCHANGED <<feed, out, broke>>

Next == Break \/ Drain \/ Return

Spec == Init /\ [][Next]_vars
=============================================================================
