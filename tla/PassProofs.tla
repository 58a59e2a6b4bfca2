----------------------------- MODULE PassProofs -----------------------------
(***************************************************************************)
(* Theorems about the two halves of a buffered pass 2.                     *)
(*                                                                         *)
(* ScopedPipe, for any source, any verdicts and any in-flight setting:     *)
(* order, the resident bound, the precedence of errors, and that the       *)
(* threaded pipe implements the serial loop of PipeContract.  IInv follows *)
(* an item through the three places it can be (channel, window, emitted),  *)
(* says what the producer's result means (Produced), and with what the     *)
(* consumer can have ended (Consumed).                                     *)
(*                                                                         *)
(* SpillSink, for any number of levels and batches, any queue depth and    *)
(* any failures: no writer thread is left behind, and the spilled pass     *)
(* implements the one of BufferedPass, with every level in RAM.  SinkInv   *)
(* follows each level's batches through its RAM buffer, or through hand,   *)
(* channel and file of its writer (Flow): together they are what the level *)
(* was offered, in read order.                                             *)
(***************************************************************************)
EXTENDS ScopedPipe, SpillSink, SequenceTheorems, WellFoundedInduction, TLAPS

\* Emitted items count up from 1.  While the consumer drains, the window goes
\* on from there, the channel from the window, and nothing else was sent.
InOrder ==
  /\ \A i \in 1..Len(emitted) : emitted[i] = i
  /\ cpc # "done" =>
       /\ \A i \in 1..Len(items) : items[i] = Len(emitted) + i
       /\ \A i \in 1..Len(q) : q[i] = Len(emitted) + Len(items) + i
       /\ given = Len(emitted) + Len(items) + Len(q)

\* What is in hand at each place of the consumer's loop.
InHand ==
  /\ cpc = "recv" => items = <<>>
  /\ cpc = "emit" => /\ Len(results) = Len(items)
                     /\ \A i \in 1..Len(items) : results[i] = verdict[items[i]]
                     /\ \A i \in 1..Len(items) : results[i] # "panic"
  /\ Len(q) <= Depth /\ Len(items) <= Window

\* The two ends of the channel live as long as their threads, or closures, do.
Alive ==
  /\ tx <=> prod = Pending
  /\ rx <=> cpc # "done"
  /\ cons = Pending <=> cpc # "done"

\* A producer that has ended came to its source's end, or was hung up on.
Produced ==
  prod # Pending => \/ given = source.n /\ prod = source.end
                    \/ ~rx /\ given < source.n /\ prod = "ok"

AllOk     == \A i \in 1..Len(emitted) : verdict[i] = "ok"
StoppedAt == /\ emitted # <<>> /\ verdict[Len(emitted)] = "stop"
             /\ \A i \in 1..(Len(emitted) - 1) : verdict[i] = "ok"

\* How the consumer ended, and what the items had to do with it.
Consumed ==
  /\ cons = Pending => AllOk
  /\ cons = "ok" =>
       \/ StoppedAt /\ Len(emitted) <= given
       \/ /\ AllOk
          /\ Len(emitted) = source.n /\ given = source.n /\ prod = source.end
  /\ cons = "itemErr" => /\ AllOk
                         /\ Len(emitted) < given
                         /\ verdict[Len(emitted) + 1] = "err"
  /\ cons = "panic" =>
       \E i \in 1..source.n : verdict[i] \in {"panic", "emitPanic"}

Reported ==
  outcome # Pending =>
    cons # Pending /\ prod # Pending /\ outcome = Outcome

IInv == /\ TypeOK /\ InOrder /\ InHand /\ Alive /\ Produced /\ Consumed
        /\ Reported

USE BoundsAssumption, PendingAssumption

-----------------------------------------------------------------------------
(* Lemmas *)

\* split_in_flight divides the setting without a rest, and neither half is 0.
LEMMA Split ==
  ASSUME inFlight \in Nat
  PROVE  /\ Window \in Nat \ {0} /\ Depth \in Nat \ {0}
         /\ Window + Depth = IF inFlight < 2 THEN 2 ELSE inFlight
  BY DEF Window, Depth, AtLeastOne

LEMMA Taking ==
  ASSUME NEW S, NEW s \in Seq(S), s # <<>>
  PROVE  /\ Head(s) = s[1] /\ Head(s) \in S /\ Tail(s) \in Seq(S)
         /\ Len(s) \in Nat \ {0} /\ Len(Tail(s)) = Len(s) - 1
         /\ \A i \in 1..(Len(s) - 1) : Tail(s)[i] = s[i + 1]
  BY HeadTailProperties, LenProperties, ElementOfSeq, EmptySeq

LEMMA Adding ==
  ASSUME NEW S, NEW s \in Seq(S), NEW e \in S
  PROVE  /\ Append(s, e) \in Seq(S) /\ Append(s, e) # <<>>
         /\ Len(s) \in Nat /\ Len(Append(s, e)) = Len(s) + 1
         /\ \A i \in 1..Len(s) : Append(s, e)[i] = s[i]
         /\ Append(s, e)[Len(s) + 1] = e
  BY AppendProperties, LenProperties

LEMMA Inputs ==
  ASSUME TypeOK
  PROVE  /\ inFlight \in Nat /\ source.n \in Nat
         /\ source.end \in {"ok", "err", "panic"}
         /\ verdict \in [1..source.n ->
                           {"ok", "err", "panic", "emitPanic", "stop"}]
  BY DEF TypeOK, Contract!Sources, Contract!Ends, Contract!Verdicts

LEMMA Lengths ==
  ASSUME TypeOK
  PROVE  /\ Len(q) \in Nat /\ Len(items) \in Nat /\ Len(emitted) \in Nat
         /\ Len(results) \in Nat /\ given \in Nat
         /\ (emitted # <<>> <=> Len(emitted) # 0)
         /\ (items = <<>> <=> Len(items) = 0)
         /\ (q = <<>> <=> Len(q) = 0)
  BY Inputs, LenProperties, EmptySeq DEF TypeOK

LEMMA Initial == Init => IInv
  <1> SUFFICES ASSUME Init PROVE IInv
    OBVIOUS
  <1>1. TypeOK
    BY EmptySeq DEF Init, TypeOK, Contract!Sources
  <1>2. /\ Window \in Nat \ {0} /\ Depth \in Nat \ {0}
        /\ Len(q) = 0 /\ Len(items) = 0 /\ Len(emitted) = 0
    BY <1>1, Inputs, Split, EmptySeq DEF Init
  <1> QED
    BY <1>1, <1>2 DEF Init, IInv, InOrder, InHand, Alive, Produced, Consumed,
       Reported, AllOk

-----------------------------------------------------------------------------
(* The producer's steps *)

LEMMA Producing == IInv /\ Producer => IInv'
  <1> SUFFICES ASSUME IInv, Producer PROVE IInv'
    OBVIOUS
  <1> USE DEF IInv
  <1>1. CASE Send
    <2> USE <1>1 DEF Send, inputs, consumer
    <2>1. /\ given + 1 \in 1..source.n /\ q \in Seq(1..source.n)
      BY Inputs, Lengths DEF TypeOK
    <2>2. /\ q' \in Seq(1..source.n) /\ Len(q) \in Nat /\ Len(q') = Len(q) + 1
          /\ \A i \in 1..Len(q) : q'[i] = q[i]
          /\ q'[Len(q) + 1] = given + 1
      BY <2>1, Adding
    <2>3. TypeOK'
      BY <2>1, <2>2 DEF TypeOK
    <2>4. InOrder'
      <3>1. cpc # "done" /\ given = Len(emitted) + Len(items) + Len(q)
        BY DEF Alive, InOrder
      <3>2. \A i \in 1..Len(q') : q'[i] = Len(emitted) + Len(items) + i
        <4> TAKE i \in 1..Len(q')
        <4>1. CASE i = Len(q) + 1
          BY <2>2, <3>1, <4>1, Lengths
        <4>2. CASE i # Len(q) + 1
          <5>1. i \in 1..Len(q)
            BY <2>2, <4>2
          <5> QED BY <2>2, <3>1, <5>1 DEF InOrder
        <4> QED BY <4>1, <4>2
      <3> QED BY <2>2, <3>1, <3>2, Lengths DEF InOrder
    <2>5. InHand'
      BY <2>2, Inputs, Split DEF InHand, Window, Depth
    <2>6. Alive' /\ Produced' /\ Reported'
      BY DEF Alive, Produced, Reported, Outcome
    <2>7. Consumed'
      BY DEF Consumed, Alive, AllOk, StoppedAt
    <2> QED BY <2>3, <2>4, <2>5, <2>6, <2>7
  <1>2. CASE HungUp
    <2> USE <1>2 DEF HungUp, ProducerEnds, inputs, consumer
    <2>1. TypeOK' /\ InOrder'
      BY DEF TypeOK, InOrder
    <2>2. InHand' /\ Alive' /\ Produced'
      BY DEF InHand, Alive, Produced, Window, Depth
    <2>3. Consumed' /\ Reported'
      BY DEF Consumed, Reported, Produced, AllOk, StoppedAt, Outcome
    <2> QED BY <2>1, <2>2, <2>3
  <1>3. CASE SourceEnds
    <2> USE <1>3 DEF SourceEnds, ProducerEnds, inputs, consumer
    <2>1. TypeOK' /\ InOrder'
      BY Inputs DEF TypeOK, InOrder
    <2>2. InHand' /\ Alive' /\ Produced'
      BY Inputs DEF InHand, Alive, Produced, Window, Depth
    <2>3. Consumed' /\ Reported'
      BY Inputs DEF Consumed, Reported, Produced, AllOk, StoppedAt, Outcome
    <2> QED BY <2>1, <2>2, <2>3
  <1> QED BY <1>1, <1>2, <1>3 DEF Producer

-----------------------------------------------------------------------------
(* The consumer's steps *)

\* Steps that only move between the places of the loop.
LEMMA Turning == IInv /\ (Filled \/ Process \/ NextWindow) => IInv'
  <1> SUFFICES ASSUME IInv, Filled \/ Process \/ NextWindow PROVE IInv'
    OBVIOUS
  <1> USE DEF IInv, Stay, inputs, producer
  <1>1. CASE Filled
    BY <1>1 DEF Filled, TypeOK, InOrder, InHand, Alive, Produced, Consumed,
         Reported, Outcome, AllOk, StoppedAt, Window, Depth
  <1>2. CASE Process
    <2> USE <1>2 DEF Process
    <2>1. /\ results' \in Seq(Contract!Verdicts) /\ Len(results') = Len(items)
          /\ \A i \in 1..Len(items) : /\ results'[i] = verdict[items[i]]
                                     /\ results'[i] # "panic"
      <3>1. Len(items) \in Nat
        BY Lengths
      <3>2. \A i \in 1..Len(items) : verdict[items[i]] \in Contract!Verdicts
        BY ElementOfSeq DEF TypeOK
      <3> QED BY <3>1, <3>2, IsASeq
    <2>2. TypeOK' /\ InOrder'
      BY <2>1 DEF TypeOK, InOrder
    <2>3. InHand' /\ Alive' /\ Produced'
      BY <2>1 DEF InHand, Alive, Produced, Window, Depth
    <2>4. Consumed' /\ Reported'
      BY DEF Consumed, Reported, Outcome, AllOk, StoppedAt
    <2> QED BY <2>2, <2>3, <2>4
  <1>3. CASE NextWindow
    <2>1. items = <<>>
      BY <1>3, Lengths, EmptySeq DEF NextWindow, InHand
    <2> QED
      BY <1>3, <2>1 DEF NextWindow, TypeOK, InOrder, InHand, Alive, Produced,
           Consumed, Reported, Outcome, AllOk, StoppedAt, Window, Depth
  <1> QED BY <1>1, <1>2, <1>3

\* Steps that take an item from the channel into the window.
LEMMA Receiving == IInv /\ (Recv \/ TopUp) => IInv'
  <1> SUFFICES ASSUME IInv, Recv \/ TopUp PROVE IInv'
    OBVIOUS
  <1> USE DEF IInv, Stay, inputs, producer
  <1>1. /\ q # <<>> /\ q' = Tail(q) /\ items' = Append(items, Head(q))
        /\ cpc \in {"recv", "topup"} /\ cpc' = "topup" /\ Len(items) < Window
    <2>1. CASE TopUp
      BY <2>1 DEF TopUp
    <2>2. CASE Recv
      <3>1. items = <<>> /\ Append(<<>>, Head(q)) = <<Head(q)>>
        BY <2>2 DEF Recv, InHand
      <3>2. Len(items) = 0 /\ Window \in Nat \ {0}
        BY <3>1, Lengths, Inputs, Split
      <3> QED BY <2>2, <3>1, <3>2 DEF Recv
    <2> QED BY <2>1, <2>2
  <1>2. UNCHANGED <<inputs, tx, rx, producer, results, cons, emitted, outcome>>
    BY DEF Recv, TopUp
  <1>3. /\ Head(q) = q[1] /\ Head(q) \in 1..source.n /\ q' \in Seq(1..source.n)
        /\ Len(q) \in Nat \ {0} /\ Len(q') = Len(q) - 1
        /\ \A i \in 1..(Len(q) - 1) : q'[i] = q[i + 1]
    BY <1>1, Taking DEF TypeOK
  <1>4. /\ items' \in Seq(1..source.n) /\ Len(items) \in Nat
        /\ Len(items') = Len(items) + 1
        /\ \A i \in 1..Len(items) : items'[i] = items[i]
        /\ items'[Len(items) + 1] = Head(q)
    BY <1>1, <1>3, Adding DEF TypeOK
  <1>5. TypeOK'
    BY <1>1, <1>2, <1>3, <1>4 DEF TypeOK
  <1>6. InOrder'
    <2>1. Head(q) = Len(emitted) + Len(items) + 1
      BY <1>1, <1>3 DEF InOrder
    <2>2. \A i \in 1..Len(items') : items'[i] = Len(emitted) + i
      BY <1>1, <1>4, <2>1, Lengths DEF InOrder
    <2>3. \A i \in 1..Len(q') : q'[i] = Len(emitted) + Len(items') + i
      <3> TAKE i \in 1..Len(q')
      <3>1. i \in 1..(Len(q) - 1) /\ i + 1 \in 1..Len(q)
        BY <1>3
      <3>2. q[i + 1] = Len(emitted) + Len(items) + (i + 1)
        BY <1>1, <3>1 DEF InOrder
      <3> QED BY <1>2, <1>3, <1>4, <3>1, <3>2, Lengths
    <2> QED BY <1>1, <1>2, <1>3, <1>4, <2>2, <2>3, Lengths DEF InOrder
  <1>7. InHand'
    <2>1. Window \in Nat /\ Depth \in Nat /\ Len(q) <= Depth
      BY Inputs, Split DEF InHand
    <2> QED BY <1>1, <1>2, <1>3, <1>4, <2>1 DEF InHand, Window, Depth
  <1>8. Alive' /\ Produced' /\ Consumed' /\ Reported'
    BY <1>1, <1>2 DEF Alive, Produced, Consumed, Reported, Outcome, AllOk,
       StoppedAt
  <1> QED BY <1>5, <1>6, <1>7, <1>8

\* The consumer's end, by whatever path: what it owned is gone.
LEMMA Ending ==
  ASSUME IInv, NEW how \in {"ok", "itemErr", "panic"}, ConsumerEnds(how),
         emitted' \in Seq(1..source.n),
         \A i \in 1..Len(emitted') : emitted'[i] = i,
         UNCHANGED <<items, results>>,
         cons = Pending,
         Consumed'
  PROVE  IInv'
  <1> USE DEF IInv, ConsumerEnds, inputs, producer
  <1>1. how # Pending
    OBVIOUS
  <1>2. TypeOK'
    BY EmptySeq DEF TypeOK
  <1>3. InOrder' /\ Alive'
    BY <1>1 DEF InOrder, Alive
  <1>4. InHand'
    <2>1. Len(q') = 0 /\ Depth \in Nat
      BY Inputs, Split, EmptySeq
    <2> QED BY <2>1 DEF InHand, Window, Depth
  <1>5. Produced' /\ Reported'
    BY DEF Produced, Reported, Alive
  <1> QED BY <1>2, <1>3, <1>4, <1>5

LEMMA Draining == IInv /\ (Disconnected \/ ProcessPanics) => IInv'
  <1> SUFFICES ASSUME IInv, Disconnected \/ ProcessPanics PROVE IInv'
    OBVIOUS
  <1> USE DEF IInv
  <1>0. cons = Pending /\ rx /\ cpc # "done"
    BY DEF Disconnected, ProcessPanics, Alive
  <1>1. CASE Disconnected
    <2> USE <1>1 DEF Disconnected
    <2>1. Len(items) = 0 /\ Len(q) = 0
      BY Lengths DEF InHand
    <2>2. given = Len(emitted) /\ given = source.n /\ prod = source.end
      BY <1>0, <2>1, Lengths DEF InOrder, Alive, Produced
    <2>3. Consumed'
      BY <1>0, <2>2 DEF Consumed, AllOk, ConsumerEnds, inputs, producer
    <2> QED BY <1>0, <2>3, Ending DEF TypeOK, InOrder
  <1>2. CASE ProcessPanics
    <2> USE <1>2 DEF ProcessPanics
    <2>1. \E i \in 1..source.n : verdict[i] = "panic"
      <3>1. PICK j \in 1..Len(items) : verdict[items[j]] = "panic"
        OBVIOUS
      <3> QED BY <3>1, ElementOfSeq DEF TypeOK
    <2>2. Consumed'
      BY <2>1 DEF Consumed, ConsumerEnds, inputs, producer
    <2> QED BY <1>0, <2>2, Ending DEF TypeOK, InOrder
  <1> QED BY <1>1, <1>2

\* The item whose result is at the head is the one to be emitted next.
LEMMA HeadItem ==
  ASSUME IInv, cpc = "emit", results # <<>>
  PROVE  /\ items # <<>> /\ Head(items) = Len(emitted) + 1
         /\ Head(items) \in 1..source.n
         /\ Head(results) = verdict[Head(items)] /\ Head(results) # "panic"
         /\ Len(emitted) < given
         /\ cons = Pending /\ outcome = Pending /\ AllOk
  <1> USE DEF IInv
  <1>1. Len(results) \in Nat \ {0} /\ Head(results) = results[1]
    BY Taking DEF TypeOK
  <1>2. items # <<>> /\ Len(items) \in Nat \ {0}
    BY <1>1, Lengths DEF InHand
  <1>3. Head(items) = items[1] /\ Head(items) \in 1..source.n
    BY <1>2, Taking DEF TypeOK
  <1>4. items[1] = Len(emitted) + 1
    BY <1>2 DEF InOrder
  <1>5. results[1] = verdict[items[1]] /\ results[1] # "panic"
    BY <1>2 DEF InHand
  <1>6. Len(emitted) < given
    BY <1>2, Lengths DEF InOrder
  <1>7. cons = Pending /\ outcome = Pending /\ AllOk
    BY DEF Alive, Consumed, Reported
  <1> QED BY <1>1, <1>2, <1>3, <1>4, <1>5, <1>6, <1>7

LEMMA Emitting == IInv /\ EmitNext => IInv'
  <1> SUFFICES ASSUME IInv, EmitNext PROVE IInv'
    OBVIOUS
  <1> USE DEF IInv, EmitNext, Stay, inputs, producer
  <1>1. /\ items # <<>> /\ Head(items) = Len(emitted) + 1
        /\ Head(items) \in 1..source.n /\ verdict[Len(emitted) + 1] = "ok"
        /\ cons = Pending /\ outcome = Pending /\ AllOk
    BY HeadItem
  <1>2. /\ emitted' \in Seq(1..source.n) /\ Len(emitted') = Len(emitted) + 1
        /\ \A i \in 1..Len(emitted) : emitted'[i] = emitted[i]
        /\ emitted'[Len(emitted) + 1] = Len(emitted) + 1
    BY <1>1, Adding DEF TypeOK
  <1>3. /\ items' \in Seq(1..source.n) /\ Len(items) \in Nat \ {0}
        /\ Len(items') = Len(items) - 1
        /\ \A i \in 1..(Len(items) - 1) : items'[i] = items[i + 1]
    BY <1>1, Taking DEF TypeOK
  <1>4. /\ results' \in Seq(Contract!Verdicts)
        /\ Len(results') = Len(results) - 1
        /\ \A i \in 1..(Len(results) - 1) : results'[i] = results[i + 1]
    BY Taking DEF TypeOK
  <1>5. TypeOK'
    BY <1>2, <1>3, <1>4 DEF TypeOK
  <1>6. InOrder'
    <2>1. \A i \in 1..Len(emitted') : emitted'[i] = i
      BY <1>2, Lengths DEF InOrder
    <2>2. \A i \in 1..Len(items') : items'[i] = Len(emitted') + i
      <3> TAKE i \in 1..Len(items')
      <3>1. i \in 1..(Len(items) - 1) /\ i + 1 \in 1..Len(items)
        BY <1>3
      <3>2. items[i + 1] = Len(emitted) + (i + 1)
        BY <3>1 DEF InOrder
      <3> QED BY <1>2, <1>3, <3>1, <3>2, Lengths
    <2>3. \A i \in 1..Len(q') : q'[i] = Len(emitted') + Len(items') + i
      BY <1>2, <1>3, Lengths DEF InOrder
    <2> QED BY <1>2, <1>3, <2>1, <2>2, <2>3, Lengths DEF InOrder
  <1>7. InHand'
    <2>1. Len(results') = Len(items')
      BY <1>3, <1>4 DEF InHand
    <2>2. \A i \in 1..Len(items') : /\ results'[i] = verdict[items'[i]]
                                   /\ results'[i] # "panic"
      <3> TAKE i \in 1..Len(items')
      <3>1. i \in 1..(Len(items) - 1) /\ i + 1 \in 1..Len(items)
        BY <1>3
      <3>2. results'[i] = results[i + 1] /\ items'[i] = items[i + 1]
        BY <1>3, <1>4, <3>1 DEF InHand
      <3> QED BY <3>1, <3>2 DEF InHand
    <2>3. Window \in Nat /\ Len(items') <= Window
      BY <1>3, Inputs, Split DEF InHand
    <2> QED BY <2>1, <2>2, <2>3 DEF InHand, Window, Depth
  <1>8. Alive' /\ Produced' /\ Reported'
    BY <1>1 DEF Alive, Produced, Reported
  <1>9. Consumed'
    <2>1. AllOk'
      BY <1>1, <1>2, Lengths DEF AllOk
    <2> QED BY <1>1, <2>1 DEF Consumed
  <1> QED BY <1>5, <1>6, <1>7, <1>8, <1>9

LEMMA EmittingEnds == IInv /\ EmitEnds => IInv'
  <1> SUFFICES ASSUME IInv, EmitEnds PROVE IInv'
    OBVIOUS
  <1> USE DEF IInv, EmitEnds, ConsumerEnds, inputs, producer
  <1>1. /\ Head(items) = Len(emitted) + 1
        /\ Head(items) \in 1..source.n /\ Head(results) = verdict[Len(emitted) + 1]
        /\ Head(results) # "panic" /\ Len(emitted) < given
        /\ cons = Pending /\ AllOk
    BY HeadItem
  <1>2. Head(results) \in {"stop", "err", "emitPanic"}
    BY <1>1, Inputs
  <1>3. CASE Head(results) = "stop"
    <2>1. ConsumerEnds("ok") /\ emitted' = Append(emitted, Head(items))
      BY <1>3
    <2>2. /\ emitted' \in Seq(1..source.n) /\ Len(emitted') = Len(emitted) + 1
          /\ \A i \in 1..Len(emitted) : emitted'[i] = emitted[i]
          /\ emitted'[Len(emitted) + 1] = Len(emitted) + 1
          /\ emitted' # <<>>
      <3>1. emitted \in Seq(1..source.n) /\ Head(items) \in 1..source.n
        BY <1>1 DEF TypeOK
      <3> DEFINE longer == Append(emitted, Head(items))
      <3>2. /\ longer \in Seq(1..source.n) /\ longer # <<>>
            /\ Len(longer) = Len(emitted) + 1
            /\ \A i \in 1..Len(emitted) : longer[i] = emitted[i]
            /\ longer[Len(emitted) + 1] = Head(items)
        BY <3>1, Adding
      <3>3. emitted' = longer /\ Head(items) = Len(emitted) + 1
        BY <1>1, <2>1
      <3> HIDE DEF longer, IInv, EmitEnds, ConsumerEnds
      <3> QED BY <3>2, <3>3
    <2>3. Consumed'
      BY <1>1, <1>3, <2>1, <2>2, Lengths DEF Consumed, StoppedAt, AllOk
    <2>4. \A i \in 1..Len(emitted') : emitted'[i] = i
      BY <2>2, Lengths DEF InOrder
    <2> QED BY <1>1, <2>1, <2>2, <2>3, <2>4, Ending
  <1>4. CASE Head(results) = "err"
    <2>1. ConsumerEnds("itemErr") /\ emitted' = emitted
      BY <1>4
    <2>2. Consumed'
      BY <1>1, <1>4, <2>1 DEF Consumed, AllOk
    <2> QED BY <1>1, <2>1, <2>2, Ending DEF TypeOK, InOrder
  <1>5. CASE Head(results) = "emitPanic"
    <2>1. ConsumerEnds("panic") /\ emitted' = emitted
      BY <1>5
    <2>2. Consumed'
      BY <1>1, <1>5, <2>1 DEF Consumed
    <2> QED BY <1>1, <2>1, <2>2, Ending DEF TypeOK, InOrder
  <1> QED BY <1>2, <1>3, <1>4, <1>5

LEMMA Joining == IInv /\ Join => IInv'
  <1> SUFFICES ASSUME IInv, Join PROVE IInv'
    OBVIOUS
  <1> USE DEF IInv, Join, inputs, channel, producer, consumer
  <1>1. TypeOK'
    BY DEF TypeOK, Outcome
  <1>2. InOrder' /\ InHand' /\ Alive' /\ Produced'
    BY DEF InOrder, InHand, Alive, Produced, Window, Depth
  <1>3. Consumed' /\ Reported'
    BY DEF Consumed, Reported, AllOk, StoppedAt, Outcome
  <1> QED BY <1>1, <1>2, <1>3

LEMMA Step == IInv /\ [Next]_vars => IInv'
  <1>1. IInv /\ UNCHANGED vars => IInv'
    BY DEF vars, inputs, channel, producer, consumer, IInv, TypeOK, InOrder,
       InHand, Alive, Produced, Consumed, Reported, Outcome, AllOk, StoppedAt,
       Window, Depth
  <1> QED
    BY <1>1, Producing, Turning, Receiving, Draining, Emitting, EmittingEnds,
       Joining
       DEF Next, Consumer

-----------------------------------------------------------------------------
(* Theorems *)

LEMMA Invariance == Spec => []IInv
  <1> QED BY Initial, Step, PTL DEF Spec

\* Every variable of pipe.rs's two threads keeps its kind, and every item seen
\* anywhere is one the source has.
THEOREM TypeCorrect == Spec => []TypeOK
  <1>1. IInv => TypeOK
    BY DEF IInv
  <1> QED BY <1>1, Invariance, PTL

\* for_each_window loses, repeats and reorders nothing between the channel,
\* the window and emit.
THEOREM KeepsOrder == Spec => []InOrder
  <1>1. IInv => InOrder
    BY DEF IInv
  <1> QED BY <1>1, Invariance, PTL

\* split_in_flight bounds what is queued and in the window, for every setting;
\* it does not count the item a sender waiting for room has in hand.
THEOREM InFlightIsBounded == Spec => []ResidentBounded
  <1>1. IInv => ResidentBounded
    BY Inputs, Lengths, Split DEF IInv, InHand, ResidentBounded
  <1> QED BY <1>1, Invariance, PTL

\* scoped_pipe's join never passes over the source's own failure.
THEOREM SourceErrorReported == Spec => []SourceErrorWins
  <1>1. IInv => SourceErrorWins
    BY Inputs, Lengths DEF IInv, Reported, Produced, Outcome, SourceErrorWins
  <1> QED BY <1>1, Invariance, PTL

\* for_each_window processes what was queued before it looks at how the
\* source ended: what was sent is emitted, up to the first item that fails.
THEOREM SentIsEmitted == Spec => []DrainsWhatWasSent
  <1>1. IInv => DrainsWhatWasSent
    <2> SUFFICES ASSUME IInv, outcome \in {"ok", "sourceErr", "itemErr"},
                        NEW i \in 1..given
                 PROVE  i <= Len(emitted) <=>
                          /\ verdict[i] \in {"ok", "stop"}
                          /\ \A j \in 1..(i - 1) : verdict[j] = "ok"
      BY DEF DrainsWhatWasSent
    <2>1. cons \in {"ok", "itemErr"}
      BY DEF IInv, TypeOK, Reported, Outcome
    <2>2. Len(emitted) \in Nat /\ given \in Nat
          /\ (emitted # <<>> <=> Len(emitted) # 0)
      BY Lengths DEF IInv
    <2>3. CASE StoppedAt
      BY <2>2, <2>3 DEF StoppedAt
    <2>4. CASE AllOk /\ Len(emitted) = given
      BY <2>2, <2>4 DEF AllOk
    <2>5. CASE /\ AllOk /\ Len(emitted) < given
               /\ verdict[Len(emitted) + 1] = "err"
      <3>1. CASE i <= Len(emitted)
        BY <2>2, <2>5, <3>1 DEF AllOk
      <3>2. CASE i = Len(emitted) + 1
        BY <2>2, <2>5, <3>2
      <3>3. CASE i > Len(emitted) + 1
        <4>1. Len(emitted) + 1 \in 1..(i - 1)
          BY <2>2, <3>3
        <4> QED BY <2>2, <2>5, <3>3, <4>1
      <3> QED BY <2>2, <3>1, <3>2, <3>3
    <2> QED BY <2>1, <2>3, <2>4, <2>5 DEF IInv, Consumed
  <1> QED BY <1>1, Invariance, PTL

\* Two items or three threads make no difference: the pipe does what the
\* serial loop over its source does.
THEOREM SerialLoop == Spec => ActsSerially
  <1>1. Init => Contract!Init
    BY DEF Init, Contract!Init
  <1>2. IInv /\ EmitNext => Contract!Emit
    <2> SUFFICES ASSUME IInv, EmitNext PROVE Contract!Emit
      OBVIOUS
    <2>1. /\ Head(items) = Len(emitted) + 1 /\ Len(emitted) + 1 <= source.n
          /\ verdict[Len(emitted) + 1] = "ok" /\ outcome = Pending /\ AllOk
      BY HeadItem, Inputs, Lengths DEF IInv, EmitNext
    <2>2. ~Contract!Stopped
      BY <2>1, Lengths DEF IInv, AllOk, Contract!Stopped
    <2> QED
      BY <2>1, <2>2 DEF EmitNext, Stay, inputs, Contract!Emit, Contract!Upcoming
  <1>3. IInv /\ EmitEnds => Contract!Emit \/ UNCHANGED Contract!vars
    <2> SUFFICES ASSUME IInv, EmitEnds
                 PROVE  Contract!Emit \/ UNCHANGED Contract!vars
      OBVIOUS
    <2>1. /\ Head(items) = Len(emitted) + 1 /\ Len(emitted) + 1 <= source.n
          /\ Head(results) = verdict[Len(emitted) + 1]
          /\ outcome = Pending /\ AllOk
      BY HeadItem, Inputs, Lengths DEF IInv, EmitEnds
    <2>2. ~Contract!Stopped
      BY <2>1, Lengths DEF IInv, AllOk, Contract!Stopped
    <2>3. UNCHANGED <<source, verdict, outcome>>
      BY DEF EmitEnds, ConsumerEnds, inputs
    <2> QED
      BY <2>1, <2>2, <2>3 DEF EmitEnds, Contract!Emit, Contract!Upcoming,
         Contract!vars
  <1>4. IInv /\ Join => Contract!Return
    <2> SUFFICES ASSUME IInv, Join PROVE Contract!Return
      OBVIOUS
    <2>1. Outcome \in Contract!Allowed
      <3> USE DEF Contract!Allowed
      <3>1. /\ cons \in {"ok", "itemErr", "panic"} /\ prod \in {"ok", "err", "panic"}
            /\ prod \in {"err", "panic"} => prod = source.end
        BY DEF IInv, Join, TypeOK, Produced
      <3>2. CASE Outcome = "panic"
        BY <3>1, <3>2 DEF IInv, Consumed, Outcome
      <3>3. CASE Outcome = "sourceErr"
        BY <3>1, <3>3 DEF Outcome
      <3>4. CASE Outcome = "itemErr"
        <4>1. /\ AllOk /\ Len(emitted) + 1 <= source.n
              /\ verdict[Len(emitted) + 1] = "err"
          BY <3>1, <3>4, Inputs, Lengths DEF IInv, Consumed, Outcome, TypeOK
        <4>2. ~Contract!Stopped
          BY <4>1, Lengths DEF IInv, AllOk, Contract!Stopped
        <4> QED BY <3>4, <4>1, <4>2 DEF Contract!Upcoming
      <3>5. CASE Outcome = "ok"
        <4>1. cons = "ok" /\ prod = "ok"
          BY <3>1, <3>5 DEF Outcome
        <4>2. Contract!Stopped \/ Contract!Drained
          BY <4>1 DEF IInv, Consumed, StoppedAt, Contract!Stopped, Contract!Drained
        <4> QED BY <3>5, <4>2
      <3> QED BY <3>1, <3>2, <3>3, <3>4, <3>5 DEF Outcome
    <2> QED BY <2>1 DEF Join, inputs, consumer, Contract!Return
  <1>5. IInv /\ [Next]_vars => [Contract!Next]_(Contract!vars)
    <2> SUFFICES ASSUME IInv, [Next]_vars
                 PROVE  Contract!Next \/ UNCHANGED Contract!vars
      OBVIOUS
    <2>1. CASE UNCHANGED vars
      BY <2>1 DEF vars, inputs, consumer, Contract!vars
    <2>2. CASE Producer
      BY <2>2 DEF Producer, Send, HungUp, SourceEnds, ProducerEnds, inputs,
         consumer, Contract!vars
    <2>3. CASE Recv \/ TopUp \/ Filled \/ Process \/ NextWindow
      BY <2>3 DEF Recv, TopUp, Filled, Process, NextWindow, Stay, inputs,
         Contract!vars
    <2>4. CASE Disconnected \/ ProcessPanics
      BY <2>4 DEF Disconnected, ProcessPanics, ConsumerEnds, inputs,
         Contract!vars
    <2> QED
      BY <1>2, <1>3, <1>4, <2>1, <2>2, <2>3, <2>4
         DEF Next, Consumer, Contract!Next
  <1> QED
    BY <1>1, <1>5, Invariance, PTL DEF Spec, ActsSerially, Contract!Spec

-----------------------------------------------------------------------------
(* The sinks: SpillSink implements BufferedPass *)

Over     == pc \in {"drop", "dropJoin", "done"}
Emptying == pc \in {"drain", "join", "read"}

\* Every buffer holds a sequence of batch numbers.
Batched ==
  /\ ram \in [Levels -> Seq(Nat)] /\ moving \in Seq(Nat)
  /\ queues \in [Levels -> Seq(Nat)] /\ hand \in [Levels -> Seq(Nat)]
  /\ file \in [Levels -> Seq(Nat)] /\ out \in [Levels -> Seq(Nat)]

\* The batches level l has been offered: the one in hand reaches the levels in
\* turn.
Offered(l) == IF pc = "push" /\ at <= l THEN item - 1 ELSE item

\* What of level l is between its RAM buffer and its writer's channel.
Underway(l) == IF pc = "move" /\ at = l THEN moving ELSE <<>>

\* All a level was offered is in its buffer, or on its way through its writer
\* in read order; a writer that ended well has all of it in the file.
Flow(l) ==
  /\ th[l] = "none" =>
       /\ ram[l] = Ram!First(l, Offered(l))
       /\ file[l] = <<>> /\ hand[l] = <<>> /\ queues[l] = <<>>
  /\ th[l] \in {"run", "ok"} =>
       ((file[l] \o hand[l]) \o queues[l]) \o Underway(l) = Ram!First(l, Offered(l))
  /\ th[l] = "ok" => hand[l] = <<>> /\ queues[l] = <<>>
  /\ th[l] = "joined" => pc = "read" /\ at = l /\ file[l] = Ram!Want(l)

InFlow(l) == ~Over /\ ~(Emptying /\ l < at)
Flows     == \A l \in Levels : InFlow(l) => Flow(l)

\* Where the driver is, and which writers it can have started by then.
Placed ==
  /\ pc = "push" => item # 0
  /\ pc = "setup" => item = 0
  /\ Emptying => item = Len(feed)
  /\ pc = "join" => th[at] # "none"
  /\ pc = "read" => th[at] \in {"none", "joined"}
  /\ pc \in {"setup", "downgrade"} => \A l \in at..L : th[l] = "none"
  /\ pc = "move" => \A l \in (at + 1)..L : th[l] = "none"
  /\ armed => backing = "ram"
  /\ armed /\ pc \in {"setup", "pass", "push", "measure"} =>
       \A l \in Levels : th[l] = "none"

\* What the overview writer has been given by then.
Handed ==
  /\ Over /\ result = "ok" => \A l \in Levels : Ram!Whole(l)
  /\ Emptying =>
       \A l \in Levels : IF l < at THEN Ram!Whole(l) ELSE out[l] = <<>>
  /\ ~Over /\ ~Emptying => \A l \in Levels : out[l] = <<>>

\* What is reported has happened.
Blamed ==
  /\ IF Over THEN result \in {"ok"} \cup broke ELSE result = "ok"
  /\ \A l \in Levels : th[l] \in {"write", "panic"} => th[l] \in broke
  /\ passOutcome # Unfinished => pc = "done"

\* The sinks that have been dropped have no writer left.
Gone ==
  /\ pc \in {"drop", "dropJoin"} =>
       \A l \in 1..(at - 1) : th[l] \in {"none", "joined"}
  /\ pc = "done" => \A l \in Levels : th[l] \in {"none", "joined"}

SinkInv == PassType /\ Batched /\ Flows /\ Placed /\ Handed /\ Blamed /\ Gone

(* What the buffered levels are to hold: the recursion in BufferedPass *)

\* Every nonempty set of naturals has a least member.
LEMMA Smallest ==
  ASSUME NEW S \in SUBSET Nat, S # {}
  PROVE  \E x \in S : \A y \in S : x <= y
<1>1. PICK x \in S : \A y \in S : <<y, x>> \notin OpToRel(<, Nat)
  BY NatLessThanWellFounded, WFMin
<1>2. \A y \in S : ~(y < x)
  BY <1>1 DEF OpToRel
<1>3. \A y \in S : x <= y
  BY <1>2
<1> QED  BY <1>3

\* One step of BufferedPass's recursion.
Row(l, before, i) == IF l \in feed[i] THEN Append(before, i) ELSE before

\* A function that obeys the recursion exists: there is no least length for
\* which it does not.
LEMMA RowsExist ==
  ASSUME feed \in Ram!Feeds, NEW l, NEW m \in 0..Len(feed)
  PROVE  \E f \in [0..m -> Seq(Nat)] :
           /\ f[0] = <<>>
           /\ \A i \in 1..m : f[i] = Row(l, f[i - 1], i)
<1> DEFINE Good(n) == \E f \in [0..n -> Seq(Nat)] :
                        f[0] = <<>> /\ \A i \in 1..n : f[i] = Row(l, f[i - 1], i)
           S == {n \in 0..Len(feed) : ~Good(n)}
<1>1. SUFFICES ASSUME ~Good(m) PROVE FALSE
  OBVIOUS
<1> HIDE DEF Good
<1>2. Len(feed) \in Nat
  BY DEF Ram!Feeds
<1>3. PICK n \in S : \A k \in S : n <= k
  <2>1. m \in S /\ S \in SUBSET Nat
    BY <1>1, <1>2
  <2> HIDE DEF S
  <2>2. S # {}
    BY <2>1
  <2> QED  BY <2>1, <2>2, Smallest
<1>4. n \in 0..Len(feed) /\ n \in Nat /\ ~Good(n)
  BY <1>2, <1>3
<1>5. n # 0
  <2>1. Good(0)
    <3>1. <<>> \in Seq(Nat)
      OBVIOUS
    <3>2. [i \in 0..0 |-> <<>>] \in [0..0 -> Seq(Nat)]
      BY <3>1
    <3>3. [i \in 0..0 |-> <<>>][0] = <<>>
      OBVIOUS
    <3>4. \E f \in [0..0 -> Seq(Nat)] : f[0] = <<>>
      BY <3>2, <3>3
    <3> QED  BY <3>4 DEF Good
  <2> QED  BY <1>4, <2>1
<1>6. n - 1 \in 0..Len(feed) /\ Good(n - 1)
  <2>1. n - 1 \in 0..Len(feed) /\ ~(n <= n - 1)
    BY <1>2, <1>4, <1>5
  <2> QED  BY <1>3, <2>1
<1>7. PICK f \in [0..(n - 1) -> Seq(Nat)] :
        f[0] = <<>> /\ \A i \in 1..(n - 1) : f[i] = Row(l, f[i - 1], i)
  BY <1>6 DEF Good
<1> DEFINE g == [i \in 0..n |-> IF i = n THEN Row(l, f[n - 1], n) ELSE f[i]]
<1>8. g \in [0..n -> Seq(Nat)]
  <2>1. f[n - 1] \in Seq(Nat)
    BY <1>4, <1>5, <1>7
  <2>2. Row(l, f[n - 1], n) \in Seq(Nat)
    BY <1>4, <2>1 DEF Row
  <2>3. \A i \in 0..n : i # n => f[i] \in Seq(Nat)
    BY <1>4, <1>7
  <2> QED  BY <2>2, <2>3
<1>9. g[0] = <<>> /\ \A i \in 1..n : g[i] = Row(l, g[i - 1], i)
  <2>1. g[0] = <<>>
    BY <1>4, <1>5, <1>7
  <2>2. ASSUME NEW i \in 1..n PROVE g[i] = Row(l, g[i - 1], i)
    <3>1. g[i - 1] = f[i - 1]
      BY <1>4
    <3>2. CASE i = n
      BY <1>4, <3>1, <3>2
    <3>3. CASE i # n
      BY <1>4, <1>7, <3>1, <3>3
    <3> QED  BY <3>2, <3>3
  <2> QED  BY <2>1, <2>2
<1> HIDE DEF g
<1>10. Good(n)
  BY <1>8, <1>9 DEF Good
<1> QED  BY <1>4, <1>10

\* So BufferedPass's function, chosen among those that obey it, obeys it.
LEMMA FirstRows ==
  ASSUME feed \in Ram!Feeds, NEW l
  PROVE  /\ Ram!First(l, 0) = <<>>
         /\ \A n \in 1..Len(feed) : Ram!First(l, n) = Row(l, Ram!First(l, n - 1), n)
         /\ \A n \in 0..Len(feed) : Ram!First(l, n) \in Seq(Nat)
<1> DEFINE Rows(h) == h = [i \in 0..Len(feed) |->
                            IF i = 0 THEN <<>>
                            ELSE IF l \in feed[i] THEN Append(h[i - 1], i) ELSE h[i - 1]]
           r == CHOOSE h : Rows(h)
<1>1. Len(feed) \in Nat
  BY DEF Ram!Feeds
<1>2. PICK f \in [0..Len(feed) -> Seq(Nat)] :
        f[0] = <<>> /\ \A i \in 1..Len(feed) : f[i] = Row(l, f[i - 1], i)
  <2>1. Len(feed) \in 0..Len(feed)
    BY <1>1
  <2> HIDE DEF Rows, r
  <2> QED  BY <2>1, RowsExist
<1>3. Rows(f)
  <2>1. \A i \in 0..Len(feed) : i # 0 => i \in 1..Len(feed)
    BY <1>1
  <2>2. \A i \in 0..Len(feed) :
          f[i] = IF i = 0 THEN <<>>
                 ELSE IF l \in feed[i] THEN Append(f[i - 1], i) ELSE f[i - 1]
    BY <1>2, <2>1 DEF Row
  <2>3. f = [i \in 0..Len(feed) |-> f[i]]
    BY <1>2
  <2>4. f = [i \in 0..Len(feed) |->
               IF i = 0 THEN <<>>
               ELSE IF l \in feed[i] THEN Append(f[i - 1], i) ELSE f[i - 1]]
    BY <2>2, <2>3, Zenon
  <2> QED  BY <2>4
<1>4. Rows(r)
  BY <1>3
<1>5. \A n : Ram!First(l, n) = r[n]
  BY DEF Ram!First
<1> HIDE DEF r
<1>6. r[0] = <<>> /\ \A n \in 1..Len(feed) : r[n] = Row(l, r[n - 1], n)
  <2>1. r = [i \in 0..Len(feed) |->
               IF i = 0 THEN <<>>
               ELSE IF l \in feed[i] THEN Append(r[i - 1], i) ELSE r[i - 1]]
    BY <1>4
  <2>2. \A i \in 0..Len(feed) :
          r[i] = IF i = 0 THEN <<>>
                 ELSE IF l \in feed[i] THEN Append(r[i - 1], i) ELSE r[i - 1]
    BY <2>1, Zenon
  <2>3. 0 \in 0..Len(feed) /\ \A i \in 1..Len(feed) : i \in 0..Len(feed) /\ i # 0
    BY <1>1
  <2> QED  BY <2>2, <2>3 DEF Row
<1>7. \A n \in 0..Len(feed) : r[n] \in Seq(Nat)
  <2> DEFINE S == {n \in 0..Len(feed) : r[n] \notin Seq(Nat)}
  <2>1. SUFFICES ASSUME S # {} PROVE FALSE
    OBVIOUS
  <2>2. PICK n \in S : \A k \in S : n <= k
    <3>1. S \in SUBSET Nat
      BY <1>1
    <3> HIDE DEF S
    <3> QED  BY <2>1, <3>1, Smallest
  <2>3. n \in 0..Len(feed) /\ n \in Nat /\ r[n] \notin Seq(Nat)
    BY <1>1, <2>2
  <2>4. n # 0 /\ n \in 1..Len(feed) /\ n - 1 \in 0..Len(feed) /\ ~(n <= n - 1)
    <3>1. <<>> \in Seq(Nat)
      OBVIOUS
    <3>2. n # 0
      BY <1>6, <2>3, <3>1
    <3> QED  BY <1>1, <2>3, <3>2
  <2>5. r[n - 1] \in Seq(Nat)
    BY <2>2, <2>4
  <2>6. r[n] = Row(l, r[n - 1], n)
    BY <1>6, <2>4
  <2> QED  BY <2>3, <2>5, <2>6 DEF Row
<1> QED  BY <1>5, <1>6, <1>7

(* What the sinks' state is made of *)

LEMMA Feeding ==
  ASSUME PassType
  PROVE  /\ Len(feed) \in Nat /\ item \in Nat /\ item <= Len(feed)
         /\ at \in Nat /\ 1 <= at /\ at <= L /\ L \in Nat
         /\ \A l \in Levels : l \in Nat
         /\ feed \in Ram!Feeds
  BY SinkAssumption DEF PassType, Ram!Feeds, Levels

LEMMA FirstKept ==
  ASSUME feed' = feed
  PROVE  \A l, n : Ram!First(l, n)' = Ram!First(l, n)
  BY DEF Ram!First

LEMMA WantKept ==
  ASSUME feed' = feed
  PROVE  \A l : Ram!Want(l)' = Ram!Want(l)
  BY DEF Ram!First, Ram!Want

(* Batches moving from a buffer through a channel into a file *)

LEMMA Shifting ==
  ASSUME NEW f \in Seq(Nat), NEW c \in Seq(Nat), NEW u \in Seq(Nat), c # <<>>
  PROVE  ((f \o <<Head(c)>>) \o Tail(c)) \o u = ((f \o <<>>) \o c) \o u
<1>1. /\ Head(c) \in Nat /\ Tail(c) \in Seq(Nat) /\ <<Head(c)>> \in Seq(Nat)
      /\ c = <<Head(c)>> \o Tail(c)
  BY HeadTailProperties
<1>2. (f \o <<Head(c)>>) \o Tail(c) = f \o (<<Head(c)>> \o Tail(c))
  BY <1>1, ConcatAssociative
<1>3. f \o <<>> = f
  BY ConcatEmptySeq
<1> QED  BY <1>1, <1>2, <1>3

LEMMA Landing ==
  ASSUME NEW f \in Seq(Nat), NEW h \in Seq(Nat)
  PROVE  (f \o h) \o <<>> = f \o h
<1>1. f \o h \in Seq(Nat)
  BY ConcatProperties
<1> QED  BY <1>1, ConcatEmptySeq

LEMMA Settled ==
  ASSUME NEW f \in Seq(Nat)
  PROVE  ((f \o <<>>) \o <<>>) \o <<>> = f
  BY ConcatEmptySeq

LEMMA Moving ==
  ASSUME NEW u \in Seq(Nat)
  PROVE  ((<<>> \o <<>>) \o <<>>) \o u = u
<1>1. <<>> \in Seq(Nat)
  OBVIOUS
<1> QED  BY <1>1, ConcatEmptySeq

Grouped(r, s, t) == r \o (s \o t) = (r \o s) \o t

LEMMA Regroup ==
  ASSUME NEW r \in Seq(Nat), NEW s \in Seq(Nat), NEW t \in Seq(Nat)
  PROVE  Grouped(r, s, t)
  BY ConcatAssociative, SMTT(30) DEF Grouped

\* Moving the head of m behind c leaves the whole as it is.
Slides(f, h, c, m) ==
  ((f \o h) \o Append(c, Head(m))) \o Tail(m) = ((f \o h) \o c) \o m

LEMMA Handover ==
  ASSUME NEW f \in Seq(Nat), NEW h \in Seq(Nat), NEW c \in Seq(Nat),
         NEW m \in Seq(Nat), m # <<>>
  PROVE  Slides(f, h, c, m)
<1>1. Head(m) \in Nat /\ Tail(m) \in Seq(Nat) /\ m = <<Head(m)>> \o Tail(m)
  BY HeadTailProperties
<1> DEFINE b == Head(m)  u == Tail(m)  s == <<Head(m)>>  g == f \o h
<1>2. /\ b \in Nat /\ u \in Seq(Nat) /\ s \in Seq(Nat) /\ g \in Seq(Nat)
      /\ m = s \o u /\ s = <<b>>
  BY <1>1, ConcatProperties
<1> HIDE DEF b, u, s, g
<1>3. Append(c, b) = c \o s
  BY <1>2, AppendIsConcat
<1>4. c \o s \in Seq(Nat) /\ g \o c \in Seq(Nat)
  BY <1>2, ConcatProperties
<1>5. Grouped(g, c, s) /\ Grouped(g \o c, s, u)
  BY <1>2, <1>4, Regroup
<1>6. g \o (c \o s) = (g \o c) \o s /\ (g \o c) \o (s \o u) = ((g \o c) \o s) \o u
  BY <1>5 DEF Grouped
<1>7. (g \o Append(c, b)) \o u = (g \o c) \o m
  BY <1>2, <1>3, <1>5, <1>6
<1> QED  BY <1>7 DEF b, u, g, Slides

\* What is queued last is last of the whole.
Lengthened(f, h, c, b) ==
  ((f \o h) \o Append(c, b)) \o <<>> = Append(((f \o h) \o c) \o <<>>, b)

LEMMA Lengthens ==
  ASSUME NEW f \in Seq(Nat), NEW h \in Seq(Nat), NEW c \in Seq(Nat),
         NEW b \in Nat
  PROVE  Lengthened(f, h, c, b)
<1> DEFINE g == f \o h  s == <<b>>  a == Append(c, b)
<1>1. /\ g \in Seq(Nat) /\ s \in Seq(Nat) /\ a \in Seq(Nat)
      /\ a = c \o s /\ \A x \in Seq(Nat) : Append(x, b) = x \o s
  BY ConcatProperties, AppendProperties, AppendIsConcat
<1> HIDE DEF g, s, a
<1>2. g \o c \in Seq(Nat) /\ g \o a \in Seq(Nat)
  BY <1>1, ConcatProperties
<1>3. (g \o a) \o <<>> = g \o a /\ (g \o c) \o <<>> = g \o c
  BY <1>2, ConcatEmptySeq
<1>4. Grouped(g, c, s) /\ Append(g \o c, b) = (g \o c) \o s
  BY <1>1, <1>2, Regroup
<1>5. g \o a = Append(g \o c, b)
  BY <1>1, <1>4 DEF Grouped
<1>6. (g \o a) \o <<>> = Append((g \o c) \o <<>>, b)
  BY <1>3, <1>5
<1> QED  BY <1>6 DEF g, a, Lengthened

USE SinkAssumption

(* Steps of the sinks *)

LEMMA FlowKept ==
  ASSUME NEW l \in Levels, feed' = feed, Flow(l), th[l] # "joined",
         th'[l] = th[l], ram'[l] = ram[l], file'[l] = file[l],
         hand'[l] = hand[l], queues'[l] = queues[l],
         Offered(l)' = Offered(l), Underway(l)' = Underway(l)
  PROVE  Flow(l)'
<1>1. Ram!First(l, Offered(l))' = Ram!First(l, Offered(l))
  BY FirstKept
<1> QED  BY <1>1 DEF Flow

LEMMA Leaving ==
  ASSUME SinkInv, NEW c \in Ram!Causes, Leave(c), c \in broke', broke \subseteq broke',
         pc # "done", backing' = backing,
         \A l \in Levels : th'[l] \in {"write", "panic"} => th'[l] = th[l]
  PROVE  Flows' /\ Placed' /\ Handed' /\ Blamed' /\ Gone'
<1>1. pc' = "drop" /\ at' = 1 /\ result' = c /\ armed' = armed
      /\ passOutcome' = passOutcome
  BY DEF Leave
<1>2. Flows' /\ Placed'
  BY <1>1 DEF Flows, InFlow, Placed, Over, Emptying, SinkInv
<1>3. Gone'
  BY <1>1 DEF Gone
<1>4. Blamed'
  BY <1>1 DEF Blamed, Over, SinkInv
<1>5. Handed'
  BY <1>1 DEF Handed, Over, Emptying, Ram!Causes
<1> QED  BY <1>2, <1>3, <1>4, <1>5

LEMMA Initially == PassInit => SinkInv
<1> SUFFICES ASSUME PassInit PROVE SinkInv
  OBVIOUS
<1>1. L \in Nat /\ 1 <= L
  OBVIOUS
<1>2. PassType
  <2>1. Len(feed) \in Nat
    BY DEF PassInit, Ram!Feeds
  <2> QED  BY <1>1, <2>1 DEF PassInit, PassType, Levels, Ram!Causes
<1>3. Batched
  <2>1. <<>> \in Seq(Nat)
    OBVIOUS
  <2> QED  BY <2>1 DEF PassInit, Batched
<1>4. Flows
  <2> SUFFICES ASSUME NEW l \in Levels PROVE Flow(l)
    BY DEF Flows
  <2>1. Offered(l) = 0 /\ Ram!First(l, 0) = <<>>
    BY FirstRows DEF PassInit, Offered
  <2> QED  BY <2>1 DEF PassInit, Flow
<1>5. Placed /\ Handed /\ Blamed /\ Gone
  BY <1>1 DEF PassInit, Placed, Handed, Blamed, Gone, Over, Emptying, Levels
<1> QED  BY <1>2, <1>3, <1>4, <1>5 DEF SinkInv

(* The writers *)

\* A step of a writer thread leaves the driver and the other levels alone.
LEMMA WriterAlone ==
  ASSUME SinkInv, NEW l \in Levels, Others,
         \A k \in Levels \ {l} : /\ th'[k] = th[k] /\ hand'[k] = hand[k]
                                 /\ queues'[k] = queues[k] /\ file'[k] = file[k],
         th[l] = "run", th'[l] \in {"run", "ok", "write", "panic"},
         broke \subseteq broke',
         th'[l] \in {"write", "panic"} => th'[l] \in broke',
         InFlow(l) => Flow(l)'
  PROVE  Flows' /\ Placed' /\ Handed' /\ Blamed' /\ Gone'
<1> USE DEF Others, driver, sinks
<1>1. /\ UNCHANGED <<feed, backing, pc, at, item, armed, result, passOutcome>>
      /\ UNCHANGED <<ram, moving, out>>
  OBVIOUS
<1>2. Flows'
  <2> SUFFICES ASSUME NEW k \in Levels, InFlow(k)
               PROVE  Flow(k)'
    BY <1>1 DEF Flows, InFlow, Over, Emptying
  <2>1. CASE k = l
    BY <2>1
  <2>2. CASE k # l
    <3>1. Flow(k)
      BY DEF SinkInv, Flows
    <3>2. Ram!First(k, Offered(k))' = Ram!First(k, Offered(k))
      BY <1>1, FirstKept DEF Offered
    <3>3. Ram!Want(k)' = Ram!Want(k)
      BY <1>1, WantKept
    <3> QED  BY <1>1, <2>2, <3>1, <3>2, <3>3 DEF Flow, Underway
  <2> QED  BY <2>1, <2>2
<1>3. Placed'
  BY <1>1, Feeding DEF SinkInv, Placed, Emptying, Levels
<1>4. Handed'
  <2>1. \A k : Ram!Want(k)' = Ram!Want(k)
    BY <1>1, WantKept
  <2> QED  BY <1>1, <2>1 DEF SinkInv, Handed, Emptying, Over, Ram!Whole
<1>5. Blamed' /\ Gone'
  BY <1>1, Feeding DEF SinkInv, Blamed, Gone, Over, Levels
<1> QED  BY <1>2, <1>3, <1>4, <1>5

LEMMA ReceiveKeeps == ASSUME SinkInv, NEW l \in Levels, Receive(l) PROVE SinkInv'
<1> USE DEF Receive, Others, driver, sinks
<1>1. /\ file[l] \in Seq(Nat) /\ queues[l] \in Seq(Nat) /\ hand[l] = <<>>
      /\ queues[l] # <<>> /\ queues \in [Levels -> Seq(Nat)]
      /\ hand \in [Levels -> Seq(Nat)] /\ th[l] = "run"
  BY DEF SinkInv, Batched
<1>2. /\ Head(queues[l]) \in Nat /\ Tail(queues[l]) \in Seq(Nat)
      /\ Len(Tail(queues[l])) = Len(queues[l]) - 1 /\ Len(queues[l]) \in Nat
      /\ <<Head(queues[l])>> \in Seq(Nat) /\ Len(<<Head(queues[l])>>) = 1
  BY <1>1, HeadTailProperties
<1>3. /\ hand'[l] = <<Head(queues[l])>> /\ queues'[l] = Tail(queues[l])
      /\ \A k \in Levels \ {l} : hand'[k] = hand[k] /\ queues'[k] = queues[k]
  BY <1>1
<1>4. Batched'
  BY <1>2, <1>1 DEF SinkInv, Batched
<1>5. PassType'
  <2>1. \A k \in Levels : Len(queues'[k]) <= QueueDepth /\ Len(hand'[k]) <= 1
    BY <1>2, <1>3 DEF SinkInv, PassType
  <2> QED  BY <2>1 DEF SinkInv, PassType
<1>6. Underway(l) \in Seq(Nat)
  <2>1. <<>> \in Seq(Nat)
    OBVIOUS
  <2> QED  BY <2>1 DEF SinkInv, Batched, Underway
<1>7. InFlow(l) => Flow(l)'
  <2> SUFFICES ASSUME InFlow(l) PROVE Flow(l)'
    OBVIOUS
  <2>1. ((file[l] \o <<>>) \o queues[l]) \o Underway(l) = Ram!First(l, Offered(l))
    BY <1>1 DEF SinkInv, Flows, Flow
  <2>2. ((file[l] \o <<Head(queues[l])>>) \o Tail(queues[l])) \o Underway(l)
          = Ram!First(l, Offered(l))
    BY <1>1, <1>6, <2>1, Shifting
  <2>3. /\ Ram!First(l, Offered(l))' = Ram!First(l, Offered(l))
        /\ Underway(l)' = Underway(l) /\ th'[l] = "run"
        /\ file'[l] = file[l]
    BY <1>1, FirstKept DEF Offered, Underway
  <2> QED  BY <1>3, <2>2, <2>3 DEF Flow
<1>8. Flows' /\ Placed' /\ Handed' /\ Blamed' /\ Gone'
  <2> HIDE DEF Others, driver, sinks
  <2> QED  BY <1>1, <1>3, <1>7, WriterAlone
<1> QED  BY <1>4, <1>5, <1>8 DEF SinkInv

LEMMA WriteKeeps == ASSUME SinkInv, NEW l \in Levels, Write(l) PROVE SinkInv'
<1> USE DEF Write, Others, driver, sinks
<1>1. /\ file[l] \in Seq(Nat) /\ queues[l] \in Seq(Nat) /\ hand[l] \in Seq(Nat)
      /\ file \in [Levels -> Seq(Nat)] /\ hand \in [Levels -> Seq(Nat)]
      /\ th[l] = "run"
  BY DEF SinkInv, Batched
<1>2. file[l] \o hand[l] \in Seq(Nat) /\ <<>> \in Seq(Nat) /\ Len(<<>>) = 0
  BY <1>1, ConcatProperties
<1>3. /\ hand'[l] = <<>> /\ file'[l] = file[l] \o hand[l]
      /\ \A k \in Levels \ {l} : hand'[k] = hand[k] /\ file'[k] = file[k]
  BY <1>1
<1>4. Batched'
  BY <1>2, <1>1 DEF SinkInv, Batched
<1>5. PassType'
  <2>1. \A k \in Levels : Len(queues'[k]) <= QueueDepth /\ Len(hand'[k]) <= 1
    BY <1>2, <1>3 DEF SinkInv, PassType
  <2> QED  BY <2>1 DEF SinkInv, PassType
<1>6. InFlow(l) => Flow(l)'
  <2> SUFFICES ASSUME InFlow(l) PROVE Flow(l)'
    OBVIOUS
  <2>1. ((file[l] \o hand[l]) \o queues[l]) \o Underway(l) = Ram!First(l, Offered(l))
    BY <1>1 DEF SinkInv, Flows, Flow
  <2>2. (((file[l] \o hand[l]) \o <<>>) \o queues[l]) \o Underway(l)
          = Ram!First(l, Offered(l))
    BY <1>1, <2>1, Landing
  <2>3. /\ Ram!First(l, Offered(l))' = Ram!First(l, Offered(l))
        /\ Underway(l)' = Underway(l) /\ th'[l] = "run"
        /\ queues'[l] = queues[l]
    BY <1>1, FirstKept DEF Offered, Underway
  <2> QED  BY <1>3, <2>2, <2>3 DEF Flow
<1>7. Flows' /\ Placed' /\ Handed' /\ Blamed' /\ Gone'
  <2> HIDE DEF Others, driver, sinks
  <2> QED  BY <1>1, <1>3, <1>6, WriterAlone
<1> QED  BY <1>4, <1>5, <1>7 DEF SinkInv

LEMMA FinishKeeps == ASSUME SinkInv, NEW l \in Levels, Finish(l) PROVE SinkInv'
<1> USE DEF Finish, Others, driver, sinks
<1>1. /\ hand[l] = <<>> /\ queues[l] = <<>> /\ th[l] = "run" /\ th'[l] = "ok"
      /\ \A k \in Levels \ {l} : th'[k] = th[k]
  BY DEF SinkInv, PassType
<1>2. Batched' /\ PassType'
  BY DEF SinkInv, Batched, PassType
<1>3. InFlow(l) => Flow(l)'
  <2> SUFFICES ASSUME InFlow(l) PROVE Flow(l)'
    OBVIOUS
  <2>1. ((file[l] \o hand[l]) \o queues[l]) \o Underway(l) = Ram!First(l, Offered(l))
    BY <1>1 DEF SinkInv, Flows, Flow
  <2>2. Ram!First(l, Offered(l))' = Ram!First(l, Offered(l))
        /\ Underway(l)' = Underway(l)
    BY FirstKept DEF Offered, Underway
  <2> QED  BY <1>1, <2>1, <2>2 DEF Flow
<1>4. Flows' /\ Placed' /\ Handed' /\ Blamed' /\ Gone'
  <2> HIDE DEF Others, driver, sinks
  <2> QED  BY <1>1, <1>3, WriterAlone
<1> QED  BY <1>2, <1>4 DEF SinkInv

LEMMA StopKeeps == ASSUME SinkInv, NEW l \in Levels, WriterStops(l) PROVE SinkInv'
<1> USE DEF WriterStops, Others, driver, sinks
<1>1. PICK how \in {"write", "panic"} :
        th' = [th EXCEPT ![l] = how] /\ broke' = broke \cup {how}
  OBVIOUS
<1>2. /\ th[l] = "run" /\ th'[l] = how
      /\ \A k \in Levels \ {l} : /\ th'[k] = th[k] /\ hand'[k] = hand[k]
                                 /\ queues'[k] = queues[k]
  BY <1>1 DEF SinkInv, PassType, Batched
<1>3. <<>> \in Seq(Nat) /\ Len(<<>>) = 0
  OBVIOUS
<1>4. Batched'
  BY <1>3 DEF SinkInv, Batched
<1>5. PassType'
  <2>1. \A k \in Levels : Len(queues'[k]) <= QueueDepth /\ Len(hand'[k]) <= 1
    BY <1>3 DEF SinkInv, PassType, Batched
  <2>2. th' \in [Levels -> {"none", "run", "ok", "write", "panic", "joined"}]
        /\ broke' \subseteq Ram!Causes
    BY <1>1 DEF SinkInv, PassType, Ram!Causes
  <2> QED  BY <2>1, <2>2 DEF SinkInv, PassType
<1>6. Flow(l)'
  BY <1>2 DEF Flow
<1>7. Flows' /\ Placed' /\ Handed' /\ Blamed' /\ Gone'
  <2> HIDE DEF Others, driver, sinks
  <2> QED  BY <1>1, <1>2, <1>6, WriterAlone
<1> QED  BY <1>4, <1>5, <1>7 DEF SinkInv

(* The driver *)

\* A step that fails leaves for the drops.
LEMMA FailingKeeps ==
  ASSUME SinkInv, NEW c \in Ram!Causes, Fails(c), pc # "done",
         UNCHANGED <<feed, backing, spill>>, Batched'
  PROVE  SinkInv'
<1>1. /\ UNCHANGED <<feed, backing, item, armed, passOutcome>>
      /\ UNCHANGED <<th, senders, queues, hand, file>>
      /\ pc' = "drop" /\ at' = 1 /\ result' = c /\ broke' = broke \cup {c}
      /\ Leave(c)
  BY DEF Fails, Leave, spill
<1>2. at' \in Levels
  BY <1>1 DEF Levels
<1>3. PassType'
  BY <1>1, <1>2 DEF SinkInv, PassType
<1>4. Flows' /\ Placed' /\ Handed' /\ Blamed' /\ Gone'
  BY <1>1, Leaving
<1> QED  BY <1>3, <1>4 DEF SinkInv

LEMMA SetupKeeps == ASSUME SinkInv, Setup PROVE SinkInv'
<1> USE DEF Setup, Fixed, sinks, spill
<1>1. /\ Len(feed) \in Nat /\ item = 0 /\ at \in Nat /\ 1 <= at /\ at <= L
      /\ L \in Nat /\ feed \in Ram!Feeds /\ at \in Levels
      /\ pc = "setup" /\ UNCHANGED <<feed, backing, ram, moving, out>>
  BY Feeding DEF SinkInv, Placed, PassType
<1>2. CASE ~Fails("create")
  <2>1. /\ UNCHANGED <<queues, hand, file, item, armed, result, passOutcome, broke>>
        /\ IF at < L THEN pc' = "setup" /\ at' = at + 1 ELSE pc' = "pass" /\ at' = 1
    BY <1>2 DEF Start, OnTo, Go
  <2>2. \/ backing = "ram" /\ UNCHANGED <<th, senders>>
        \/ /\ backing = "spill" /\ th' = [th EXCEPT ![at] = "run"]
           /\ senders' = [senders EXCEPT ![at] = TRUE]
    BY <1>2 DEF Start
  <2>3. at' \in Levels /\ pc' \in {"setup", "pass"}
    BY <1>1, <2>1 DEF Levels
  <2>4. PassType'
    <3>1. /\ th' \in [Levels -> {"none", "run", "ok", "write", "panic", "joined"}]
          /\ senders' \in [Levels -> BOOLEAN]
      BY <2>2 DEF SinkInv, PassType
    <3> QED  BY <1>1, <2>1, <2>3, <3>1 DEF SinkInv, PassType
  <2>5. Batched'
    BY <1>1, <2>1 DEF SinkInv, Batched
  <2>6. Flows'
    <3> SUFFICES ASSUME NEW l \in Levels PROVE Flow(l)'
      BY DEF Flows
    <3>1. Flow(l)
      BY <1>1 DEF SinkInv, Flows, InFlow, Over, Emptying
    <3>2. Offered(l) = 0 /\ Offered(l)' = 0 /\ Underway(l)' = <<>>
      BY <1>1, <2>1, <2>3 DEF Offered, Underway
    <3>3. Ram!First(l, 0) = <<>> /\ Ram!First(l, Offered(l))' = <<>>
      BY <1>1, <3>2, FirstRows, FirstKept
    <3>4. th[l] # "joined" /\ Underway(l) = <<>>
      BY <1>1, <3>1 DEF Flow, Underway
    <3>5. CASE th'[l] = th[l]
      BY <1>1, <2>1, <3>1, <3>2, <3>3, <3>4, <3>5 DEF Flow
    <3>6. CASE l = at /\ th'[l] = "run"
      <4>1. th[l] = "none"
        BY <1>1, <3>6 DEF SinkInv, Placed
      <4>2. file[l] = <<>> /\ hand[l] = <<>> /\ queues[l] = <<>>
        BY <3>1, <4>1 DEF Flow
      <4>3. ((<<>> \o <<>>) \o <<>>) \o <<>> = <<>>
        BY Settled
      <4> QED  BY <1>1, <2>1, <3>2, <3>3, <3>6, <4>2, <4>3 DEF Flow
    <3> QED  BY <1>1, <2>2, <3>5, <3>6 DEF SinkInv, PassType
  <2>7. Placed'
    <3>1. \A l \in at..L : th[l] = "none"
      BY <1>1 DEF SinkInv, Placed
    <3>2. ASSUME pc' = "setup", NEW l \in at'..L PROVE th'[l] = "none"
      <4>1. l \in at..L /\ l # at /\ l \in Levels
        BY <1>1, <2>1, <3>2 DEF Levels
      <4>2. th'[l] = th[l]
        BY <2>2, <4>1 DEF SinkInv, PassType
      <4> QED  BY <3>1, <4>1, <4>2
    <3>3. backing = "ram" => UNCHANGED th
      BY <2>2
    <3> QED  BY <1>1, <2>1, <3>2, <3>3 DEF SinkInv, Placed, Emptying
  <2>8. Handed' /\ Blamed' /\ Gone'
    <3>1. \A l \in Levels : th'[l] \in {"write", "panic"} => th'[l] = th[l]
      BY <2>2 DEF SinkInv, PassType
    <3> QED
      BY <1>1, <2>1, <2>3, <3>1 DEF SinkInv, Handed, Blamed, Gone, Over, Emptying
  <2> QED  BY <2>4, <2>5, <2>6, <2>7, <2>8 DEF SinkInv
<1>3. CASE Fails("create")
  <2>1. UNCHANGED <<spill, sinks>>
    BY <1>1, <1>3 DEF OnTo, Go, Fails, Leave
  <2>2. Batched'
    BY <2>1 DEF SinkInv, Batched
  <2> QED  BY <1>1, <1>3, <2>1, <2>2, FailingKeeps DEF Ram!Causes
<1> QED  BY <1>2, <1>3

LEMMA NextItemKeeps == ASSUME SinkInv, NextItem PROVE SinkInv'
<1> USE DEF NextItem, Fixed, sinks, spill
<1>1. /\ pc = "pass" /\ pc' = "push" /\ at' = 1 /\ item' = item + 1
      /\ item < Len(feed) /\ Len(feed) \in Nat /\ item \in Nat /\ L \in Nat /\ 1 <= L
      /\ UNCHANGED <<feed, backing, ram, moving, out, armed, result, passOutcome>>
      /\ UNCHANGED <<th, senders, queues, hand, file, broke>>
  BY Feeding DEF SinkInv
<1>2. at' \in Levels /\ item' \in 0..Len(feed)'
  BY <1>1 DEF Levels
<1>3. PassType' /\ Batched'
  BY <1>1, <1>2 DEF SinkInv, PassType, Batched
<1>4. Flows'
  <2> SUFFICES ASSUME NEW l \in Levels PROVE Flow(l)'
    BY DEF Flows
  <2>1. Flow(l) /\ th[l] # "joined"
    BY <1>1 DEF SinkInv, Flows, InFlow, Flow, Over, Emptying
  <2>2. Offered(l)' = Offered(l) /\ Underway(l)' = Underway(l)
    BY <1>1 DEF Offered, Underway, Levels
  <2> QED  BY <1>1, <2>1, <2>2, FlowKept
<1>5. Placed' /\ Handed' /\ Blamed' /\ Gone'
  BY <1>1 DEF SinkInv, Placed, Handed, Blamed, Gone, Over, Emptying
<1> QED  BY <1>3, <1>4, <1>5 DEF SinkInv

LEMMA SourceFailsKeeps == ASSUME SinkInv, SourceFails PROVE SinkInv'
<1>1. /\ Fails("source") /\ pc # "done" /\ UNCHANGED <<feed, backing, spill, sinks>>
  BY DEF SourceFails, Fixed
<1>2. Batched'
  BY <1>1 DEF SinkInv, Batched, sinks, spill
<1> QED  BY <1>1, <1>2, FailingKeeps DEF Ram!Causes

LEMMA AllReadKeeps == ASSUME SinkInv, AllRead PROVE SinkInv'
<1> USE DEF AllRead, Fixed, sinks, spill, Go
<1>1. /\ pc = "pass" /\ pc' = "drain" /\ at' = 1
      /\ item = Len(feed) /\ Len(feed) \in Nat /\ L \in Nat /\ 1 <= L
      /\ UNCHANGED <<feed, backing, ram, moving, out, armed, result, passOutcome>>
      /\ UNCHANGED <<th, senders, queues, hand, file, broke, item>>
  BY Feeding DEF SinkInv
<1>2. at' \in Levels
  BY <1>1 DEF Levels
<1>3. PassType' /\ Batched'
  BY <1>1, <1>2 DEF SinkInv, PassType, Batched
<1>4. Flows'
  <2> SUFFICES ASSUME NEW l \in Levels PROVE Flow(l)'
    BY DEF Flows
  <2>1. Flow(l) /\ th[l] # "joined"
    BY <1>1 DEF SinkInv, Flows, InFlow, Flow, Over, Emptying
  <2>2. Offered(l)' = Offered(l) /\ Underway(l)' = Underway(l)
    BY <1>1 DEF Offered, Underway, Levels
  <2> QED  BY <1>1, <2>1, <2>2, FlowKept
<1>5. Handed'
  BY <1>1 DEF SinkInv, Handed, Over, Emptying, Levels
<1>6. Placed' /\ Blamed' /\ Gone'
  BY <1>1 DEF SinkInv, Placed, Blamed, Gone, Over, Emptying
<1> QED  BY <1>3, <1>4, <1>5, <1>6 DEF SinkInv

LEMMA MeasureKeeps == ASSUME SinkInv, Measure PROVE SinkInv'
<1> USE DEF Measure, Fixed, sinks, spill, Go
<1>1. /\ pc = "measure" /\ at' = 1 /\ L \in Nat /\ 1 <= L
      /\ pc' = "pass" \/ (pc' = "downgrade" /\ armed)
      /\ UNCHANGED <<feed, backing, ram, moving, out, armed, result, passOutcome>>
      /\ UNCHANGED <<th, senders, queues, hand, file, broke, item>>
  BY Feeding DEF SinkInv
<1>2. at' \in Levels
  BY <1>1 DEF Levels
<1>3. PassType' /\ Batched'
  BY <1>1, <1>2 DEF SinkInv, PassType, Batched
<1>4. Flows'
  <2> SUFFICES ASSUME NEW l \in Levels PROVE Flow(l)'
    BY DEF Flows
  <2>1. Flow(l) /\ th[l] # "joined"
    BY <1>1 DEF SinkInv, Flows, InFlow, Flow, Over, Emptying
  <2>2. Offered(l)' = Offered(l) /\ Underway(l)' = Underway(l)
    BY <1>1 DEF Offered, Underway, Levels
  <2> QED  BY <1>1, <2>1, <2>2, FlowKept
<1>5. Placed'
  BY <1>1 DEF SinkInv, Placed, Emptying, Levels
<1>6. Handed' /\ Blamed' /\ Gone'
  BY <1>1 DEF SinkInv, Handed, Blamed, Gone, Over, Emptying
<1> QED  BY <1>3, <1>4, <1>5, <1>6 DEF SinkInv

\* A push that finds its writer gone leaves with what the writer ended in.
LEMMA SendFailsKeeps ==
  ASSUME SinkInv, SendFails(at), pc # "done",
         UNCHANGED <<feed, backing, broke>>, Batched'
  PROVE  SinkInv'
<1>1. /\ th[at] \in {"write", "panic"} /\ Leave(th[at]) /\ at \in Levels
      /\ th' = [th EXCEPT ![at] = "joined"]
      /\ senders' = [senders EXCEPT ![at] = FALSE]
      /\ UNCHANGED <<queues, hand, file>>
  BY DEF SendFails, SinkInv, PassType
<1>2. th[at] \in Ram!Causes /\ th[at] \in broke'
  BY <1>1 DEF SinkInv, Blamed, Ram!Causes
<1>3. \A l \in Levels : th'[l] \in {"write", "panic"} => th'[l] = th[l]
  BY <1>1 DEF SinkInv, PassType
<1>4. PassType'
  <2>1. /\ pc' = "drop" /\ at' = 1 /\ result' = th[at]
        /\ UNCHANGED <<item, armed, passOutcome>>
    BY <1>1 DEF Leave
  <2>2. at' \in Levels
    BY <2>1 DEF Levels
  <2>3. /\ th' \in [Levels -> {"none", "run", "ok", "write", "panic", "joined"}]
        /\ senders' \in [Levels -> BOOLEAN]
    BY <1>1 DEF SinkInv, PassType
  <2> QED  BY <1>1, <1>2, <2>1, <2>2, <2>3 DEF SinkInv, PassType
<1>5. Flows' /\ Placed' /\ Handed' /\ Blamed' /\ Gone'
  BY <1>1, <1>2, <1>3, Leaving
<1> QED  BY <1>4, <1>5 DEF SinkInv

\* A batch queued is the last of what the level's writer has been given.
LEMMA Queued ==
  ASSUME SinkInv, NEW l \in Levels, NEW b \in Nat, SendBatch(l, b)
  PROVE  /\ th[l] = "run" /\ queues'[l] = Append(queues[l], b)
         /\ \A k \in Levels \ {l} : queues'[k] = queues[k]
         /\ queues' \in [Levels -> Seq(Nat)]
         /\ \A k \in Levels : Len(queues'[k]) <= QueueDepth
         /\ UNCHANGED <<th, senders, hand, file>>
<1>1. queues \in [Levels -> Seq(Nat)] /\ QueueDepth \in Nat
  BY DEF SinkInv, Batched
<1>2. /\ Append(queues[l], b) \in Seq(Nat)
      /\ Len(Append(queues[l], b)) = Len(queues[l]) + 1 /\ Len(queues[l]) \in Nat
  BY <1>1, AppendProperties
<1>3. /\ th[l] = "run" /\ Len(queues[l]) < QueueDepth
      /\ queues' = [queues EXCEPT ![l] = Append(queues[l], b)]
      /\ UNCHANGED <<th, senders, hand, file>>
  BY DEF SendBatch
<1>4. queues' \in [Levels -> Seq(Nat)] /\ queues'[l] = Append(queues[l], b)
      /\ \A k \in Levels \ {l} : queues'[k] = queues[k]
  BY <1>1, <1>2, <1>3
<1>5. \A k \in Levels : Len(queues'[k]) <= QueueDepth
  <2>1. \A k \in Levels : Len(queues[k]) <= QueueDepth
    BY DEF SinkInv, PassType
  <2>2. Len(queues'[l]) <= QueueDepth
    BY <1>1, <1>2, <1>3, <1>4
  <2> QED  BY <1>4, <2>1, <2>2
<1> QED  BY <1>3, <1>4, <1>5

LEMMA PushMoves ==
  ASSUME SinkInv, Push, OnTo("push", "measure"), NEW a \in Levels, a = at
  PROVE  SinkInv'
<1> USE DEF Fixed, spill
<1>1. /\ pc = "push" /\ item # 0 /\ item \in Nat /\ item <= Len(feed)
      /\ Len(feed) \in Nat /\ a \in Nat /\ 1 <= a /\ a <= L /\ L \in Nat
      /\ a \in Levels /\ feed \in Ram!Feeds
      /\ UNCHANGED <<feed, backing, item, armed, result, passOutcome>>
      /\ UNCHANGED <<moving, out, broke>>
      /\ IF a < L THEN pc' = "push" /\ at' = a + 1 ELSE pc' = "measure" /\ at' = 1
      /\ at = a
  BY Feeding DEF SinkInv, Placed, PassType, Push, OnTo, Go
<1>2. at' \in Levels /\ pc' \in {"push", "measure"}
  BY <1>1 DEF Levels
<1>3. /\ Ram!First(a, item) = Row(a, Ram!First(a, item - 1), item)
      /\ Ram!First(a, item - 1) \in Seq(Nat)
  <2>1. item \in 1..Len(feed) /\ item - 1 \in 0..Len(feed)
    BY <1>1
  <2> QED  BY <1>1, <2>1, FirstRows
<1>4. Flow(a) /\ th[a] # "joined" /\ Underway(a) = <<>> /\ Offered(a) = item - 1
  <2>1. Flow(a)
    BY <1>1 DEF SinkInv, Flows, InFlow, Over, Emptying
  <2>2. Underway(a) = <<>> /\ Offered(a) = item - 1
    BY <1>1 DEF Underway, Offered
  <2> QED  BY <1>1, <2>1, <2>2 DEF Flow
<1>5. Underway(a)' = <<>> /\ Offered(a)' = item
  BY <1>1, <1>2 DEF Underway, Offered
<1>6. Ram!First(a, Offered(a))' = Ram!First(a, item)
  BY <1>1, <1>5, FirstKept
<1>7. /\ UNCHANGED <<th, senders, hand, file>>
      /\ ram' \in [Levels -> Seq(Nat)] /\ queues' \in [Levels -> Seq(Nat)]
      /\ \A l \in Levels : Len(queues'[l]) <= QueueDepth
      /\ \A l \in Levels \ {a} : ram'[l] = ram[l] /\ queues'[l] = queues[l]
      /\ Flow(a)'
  <2>1. /\ ram \in [Levels -> Seq(Nat)] /\ queues \in [Levels -> Seq(Nat)]
        /\ \A l \in Levels : Len(queues[l]) <= QueueDepth
    BY DEF SinkInv, Batched, PassType
  <2>2. \/ a \notin feed[item] /\ UNCHANGED <<ram, spill>>
        \/ /\ a \in feed[item] /\ th[a] = "none"
           /\ ram' = [ram EXCEPT ![a] = Append(@, item)] /\ UNCHANGED spill
        \/ a \in feed[item] /\ SendBatch(a, item) /\ UNCHANGED ram
    <3>1. ~Leave(th[a])
      BY <1>2 DEF Leave
    <3> QED  BY <3>1 DEF Push, SendFails
  <2>3. CASE a \notin feed[item] /\ UNCHANGED <<ram, spill>>
    <3>1. Ram!First(a, item) = Ram!First(a, item - 1)
      BY <1>3, <2>3 DEF Row
    <3>2. Flow(a)'
      BY <1>4, <1>5, <1>6, <2>3, <3>1 DEF Flow
    <3> QED  BY <2>1, <2>3, <3>2
  <2>4. CASE /\ a \in feed[item] /\ th[a] = "none"
             /\ ram' = [ram EXCEPT ![a] = Append(@, item)] /\ UNCHANGED spill
    <3>1. /\ Append(ram[a], item) \in Seq(Nat) /\ ram'[a] = Append(ram[a], item)
          /\ \A l \in Levels \ {a} : ram'[l] = ram[l]
          /\ ram' \in [Levels -> Seq(Nat)]
      BY <1>1, <2>1, <2>4
    <3>2. Ram!First(a, item) = Append(ram[a], item)
      BY <1>3, <1>4, <2>4 DEF Row, Flow
    <3>3. Flow(a)'
      BY <1>4, <1>6, <2>4, <3>1, <3>2 DEF Flow
    <3> QED  BY <2>1, <2>4, <3>1, <3>3
  <2>5. CASE a \in feed[item] /\ SendBatch(a, item) /\ UNCHANGED ram
    <3>1. /\ th[a] = "run" /\ queues'[a] = Append(queues[a], item)
          /\ \A k \in Levels \ {a} : queues'[k] = queues[k]
          /\ queues' \in [Levels -> Seq(Nat)]
          /\ \A k \in Levels : Len(queues'[k]) <= QueueDepth
          /\ UNCHANGED <<th, senders, hand, file>>
      BY <1>1, <2>5, Queued
    <3>2. /\ file[a] \in Seq(Nat) /\ hand[a] \in Seq(Nat) /\ queues[a] \in Seq(Nat)
      BY <1>1 DEF SinkInv, Batched
    <3>3. ((file[a] \o hand[a]) \o queues[a]) \o <<>> = Ram!First(a, item - 1)
      BY <1>4, <3>1 DEF Flow
    <3>4. ((file[a] \o hand[a]) \o Append(queues[a], item)) \o <<>>
            = Append(Ram!First(a, item - 1), item)
      <4>1. ((file[a] \o hand[a]) \o Append(queues[a], item)) \o <<>>
              = Append(((file[a] \o hand[a]) \o queues[a]) \o <<>>, item)
        <5>1. Lengthened(file[a], hand[a], queues[a], item)
          BY <1>1, <3>2, Lengthens
        <5> QED  BY <5>1 DEF Lengthened
      <4> QED  BY <3>3, <4>1
    <3>5. Ram!First(a, item) = Append(Ram!First(a, item - 1), item)
      BY <1>3, <2>5 DEF Row
    <3>6. Flow(a)'
      BY <1>5, <1>6, <3>1, <3>4, <3>5 DEF Flow
    <3> QED  BY <2>1, <2>5, <3>1, <3>6
  <2> QED  BY <2>2, <2>3, <2>4, <2>5
<1>8. PassType'
  BY <1>1, <1>2, <1>7 DEF SinkInv, PassType
<1>9. Batched'
  BY <1>1, <1>7 DEF SinkInv, Batched
<1>10. Flows'
  <2> SUFFICES ASSUME NEW l \in Levels, l # a PROVE Flow(l)'
    BY <1>7 DEF Flows
  <2>1. Flow(l) /\ th[l] # "joined"
    BY <1>1 DEF SinkInv, Flows, InFlow, Flow, Over, Emptying
  <2>2. Offered(l)' = Offered(l) /\ Underway(l)' = Underway(l)
    <3>1. l \in Nat /\ l <= L
      BY <1>1 DEF Levels
    <3> QED  BY <1>1, <3>1 DEF Offered, Underway
  <2> QED  BY <1>1, <1>7, <2>1, <2>2, FlowKept
<1>11. Placed' /\ Handed' /\ Blamed' /\ Gone'
  BY <1>1, <1>2, <1>7 DEF SinkInv, Placed, Handed, Blamed, Gone, Over, Emptying
<1> QED  BY <1>8, <1>9, <1>10, <1>11 DEF SinkInv

LEMMA PushKeeps == ASSUME SinkInv, Push PROVE SinkInv'
<1>1. CASE OnTo("push", "measure")
  <2>1. PICK a \in Levels : a = at
    BY DEF SinkInv, PassType
  <2> QED  BY <1>1, <2>1, PushMoves
<1>2. CASE SendFails(at) /\ UNCHANGED ram
  <2>1. /\ pc # "done" /\ UNCHANGED <<feed, backing, broke, moving, out>>
    BY DEF Push, Fixed
  <2>2. Batched'
    BY <1>2, <2>1 DEF SinkInv, Batched, SendFails
  <2> QED  BY <1>2, <2>1, <2>2, SendFailsKeeps
<1> QED  BY <1>1, <1>2 DEF Push

LEMMA DowngradeKeeps == ASSUME SinkInv, Downgrade PROVE SinkInv'
<1> USE DEF Fixed, spill
<1>1. PICK a \in Levels : a = at
  BY DEF SinkInv, PassType
<1>2. /\ pc = "downgrade" /\ item \in Nat /\ Len(feed) \in Nat
      /\ a \in Nat /\ 1 <= a /\ a <= L /\ L \in Nat
      /\ UNCHANGED <<feed, backing, out>>
  BY <1>1, Feeding DEF SinkInv, Downgrade
<1>3. CASE Fails("create") /\ UNCHANGED <<ram, moving, spill>>
  <2>1. Batched'
    BY <1>2, <1>3 DEF SinkInv, Batched
  <2> QED  BY <1>2, <1>3, <2>1, FailingKeeps DEF Ram!Causes
<1>4. CASE /\ Start(at) /\ Go("move", at)
           /\ moving' = ram[at] /\ ram' = [ram EXCEPT ![at] = <<>>]
           /\ UNCHANGED broke
  <2>1. /\ pc' = "move" /\ at' = a
        /\ UNCHANGED <<item, armed, result, passOutcome, queues, hand, file, broke>>
        /\ th' = [th EXCEPT ![a] = "run"] /\ senders' = [senders EXCEPT ![a] = TRUE]
        /\ moving' = ram[a] /\ ram' = [ram EXCEPT ![a] = <<>>]
    BY <1>1, <1>4 DEF Start, Go
  <2>2. /\ th'[a] = "run" /\ th[a] = "none"
        /\ \A l \in Levels \ {a} : th'[l] = th[l] /\ ram'[l] = ram[l]
        /\ th' \in [Levels -> {"none", "run", "ok", "write", "panic", "joined"}]
        /\ senders' \in [Levels -> BOOLEAN]
    BY <1>1, <1>2, <2>1 DEF SinkInv, PassType, Batched, Placed
  <2>3. PassType'
    BY <1>1, <1>2, <2>1, <2>2 DEF SinkInv, PassType
  <2>4. Batched'
    <3>1. ram[a] \in Seq(Nat) /\ <<>> \in Seq(Nat)
      BY DEF SinkInv, Batched
    <3> QED  BY <1>2, <2>1, <3>1 DEF SinkInv, Batched
  <2>5. \A l \in Levels : Flow(l) /\ th[l] # "joined"
    BY <1>2 DEF SinkInv, Flows, InFlow, Flow, Over, Emptying
  <2>6. Flow(a)'
    <3>1. Offered(a) = item /\ Offered(a)' = item /\ Underway(a)' = ram[a]
      BY <1>2, <2>1 DEF Offered, Underway
    <3>2. /\ ram[a] = Ram!First(a, item)
          /\ file[a] = <<>> /\ hand[a] = <<>> /\ queues[a] = <<>>
      BY <2>2, <2>5, <3>1 DEF Flow
    <3>3. Ram!First(a, Offered(a))' = Ram!First(a, item)
      BY <1>2, <3>1, FirstKept
    <3>4. ((<<>> \o <<>>) \o <<>>) \o ram[a] = ram[a]
      <4>1. ram[a] \in Seq(Nat)
        BY DEF SinkInv, Batched
      <4> QED  BY <4>1, Moving
    <3> QED  BY <2>1, <2>2, <3>1, <3>2, <3>3, <3>4 DEF Flow
  <2>7. Flows'
    <3> SUFFICES ASSUME NEW l \in Levels, l # a PROVE Flow(l)'
      BY <2>6 DEF Flows
    <3>1. Offered(l)' = Offered(l) /\ Underway(l)' = Underway(l)
      BY <1>2, <2>1 DEF Offered, Underway
    <3> QED  BY <1>2, <2>1, <2>2, <2>5, <3>1, FlowKept
  <2>8. Placed'
    <3>1. \A l \in (a + 1)..L : th'[l] = "none"
      <4> SUFFICES ASSUME NEW l \in (a + 1)..L PROVE th'[l] = "none"
        OBVIOUS
      <4>1. l \in a..L /\ l # a /\ l \in Levels
        BY <1>2 DEF Levels
      <4> QED  BY <1>1, <1>2, <2>2, <4>1 DEF SinkInv, Placed
    <3> QED  BY <1>2, <2>1, <3>1 DEF SinkInv, Placed, Emptying
  <2>9. Handed' /\ Blamed' /\ Gone'
    BY <1>2, <2>1, <2>2 DEF SinkInv, Handed, Blamed, Gone, Over, Emptying
  <2> QED  BY <2>3, <2>4, <2>7, <2>8, <2>9 DEF SinkInv
<1> QED  BY <1>3, <1>4 DEF Downgrade

LEMMA MoveKeeps == ASSUME SinkInv, Move PROVE SinkInv'
<1> USE DEF Fixed
<1>1. PICK a \in Levels : a = at
  BY DEF SinkInv, PassType
<1>2. /\ pc = "move" /\ item \in Nat /\ Len(feed) \in Nat
      /\ a \in Nat /\ 1 <= a /\ a <= L /\ L \in Nat
      /\ moving # <<>> /\ moving \in Seq(Nat)
      /\ UNCHANGED <<feed, backing, ram, out, broke>>
  BY <1>1, Feeding DEF SinkInv, Move, Batched
<1>3. /\ Head(moving) \in Nat /\ Tail(moving) \in Seq(Nat)
      /\ moving = <<Head(moving)>> \o Tail(moving)
  BY <1>2, HeadTailProperties
<1>4. CASE SendFails(at) /\ moving' = <<>>
  <2>1. <<>> \in Seq(Nat)
    OBVIOUS
  <2>2. Batched'
    BY <1>2, <1>4, <2>1 DEF SinkInv, Batched, SendFails
  <2> QED  BY <1>2, <1>4, <2>2, SendFailsKeeps
<1>5. CASE SendBatch(at, Head(moving)) /\ moving' = Tail(moving) /\ Go("move", at)
  <2>1. /\ th[a] = "run" /\ queues'[a] = Append(queues[a], Head(moving))
        /\ \A k \in Levels \ {a} : queues'[k] = queues[k]
        /\ queues' \in [Levels -> Seq(Nat)]
        /\ \A k \in Levels : Len(queues'[k]) <= QueueDepth
        /\ UNCHANGED <<th, senders, hand, file>>
    BY <1>1, <1>3, <1>5, Queued
  <2>2. /\ pc' = "move" /\ at' = a /\ moving' = Tail(moving)
        /\ UNCHANGED <<item, armed, result, passOutcome>>
    BY <1>1, <1>5 DEF Go
  <2>3. PassType' /\ Batched'
    BY <1>1, <1>2, <1>3, <2>1, <2>2 DEF SinkInv, PassType, Batched
  <2>4. \A l \in Levels : Flow(l) /\ th[l] # "joined"
    BY <1>2 DEF SinkInv, Flows, InFlow, Flow, Over, Emptying
  <2>5. Flow(a)'
    <3>1. /\ Offered(a) = item /\ Offered(a)' = item
          /\ Underway(a) = moving /\ Underway(a)' = Tail(moving)
      BY <1>1, <1>2, <2>2 DEF Offered, Underway
    <3>2. ((file[a] \o hand[a]) \o queues[a]) \o moving = Ram!First(a, item)
      BY <2>1, <2>4, <3>1 DEF Flow
    <3>3. Ram!First(a, Offered(a))' = Ram!First(a, item)
      BY <1>2, <3>1, FirstKept
    <3>4. ((file[a] \o hand[a]) \o Append(queues[a], Head(moving))) \o Tail(moving)
            = Ram!First(a, item)
      <4>1. file[a] \in Seq(Nat) /\ hand[a] \in Seq(Nat) /\ queues[a] \in Seq(Nat)
        BY DEF SinkInv, Batched
      <4>2. ((file[a] \o hand[a]) \o Append(queues[a], Head(moving))) \o Tail(moving)
              = ((file[a] \o hand[a]) \o queues[a]) \o moving
        <5>1. Slides(file[a], hand[a], queues[a], moving)
          BY <1>2, <4>1, Handover
        <5> QED  BY <5>1 DEF Slides
      <4> QED  BY <3>2, <4>2
    <3> QED  BY <2>1, <2>2, <3>1, <3>3, <3>4 DEF Flow
  <2>6. Flows'
    <3> SUFFICES ASSUME NEW l \in Levels, l # a PROVE Flow(l)'
      BY <2>5 DEF Flows
    <3>1. Offered(l)' = Offered(l) /\ Underway(l)' = Underway(l)
      BY <1>1, <1>2, <2>2 DEF Offered, Underway
    <3> QED  BY <1>2, <2>1, <2>4, <3>1, FlowKept
  <2>7. Placed' /\ Handed' /\ Blamed' /\ Gone'
    BY <1>1, <1>2, <2>1, <2>2
       DEF SinkInv, Placed, Handed, Blamed, Gone, Over, Emptying
  <2> QED  BY <2>3, <2>6, <2>7 DEF SinkInv
<1> QED  BY <1>4, <1>5 DEF Move

LEMMA MovedKeeps == ASSUME SinkInv, Moved PROVE SinkInv'
<1> USE DEF Moved, Fixed, sinks, spill
<1>1. PICK a \in Levels : a = at
  BY DEF SinkInv, PassType
<1>2. /\ pc = "move" /\ moving = <<>> /\ item \in Nat /\ Len(feed) \in Nat
      /\ a \in Nat /\ 1 <= a /\ a <= L /\ L \in Nat
      /\ UNCHANGED <<feed, backing, ram, moving, out, result, passOutcome>>
      /\ UNCHANGED <<th, senders, queues, hand, file, broke, item>>
      /\ \/ a < L /\ pc' = "downgrade" /\ at' = a + 1 /\ armed' = armed
         \/ a = L /\ pc' = "pass" /\ at' = 1 /\ armed' = FALSE
  BY <1>1, Feeding DEF SinkInv
<1>3. at' \in Levels /\ pc' \in {"downgrade", "pass"} /\ armed' \in BOOLEAN
  <2>1. armed' = armed \/ armed' = FALSE
    BY <1>2
  <2>2. armed' \in BOOLEAN
    BY <2>1 DEF SinkInv, PassType
  <2>3. at' \in Levels /\ pc' \in {"downgrade", "pass"}
    BY <1>2 DEF Levels
  <2> QED  BY <2>2, <2>3
<1>4. PassType' /\ Batched'
  BY <1>2, <1>3 DEF SinkInv, PassType, Batched
<1>5. Flows'
  <2> SUFFICES ASSUME NEW l \in Levels PROVE Flow(l)'
    BY DEF Flows
  <2>1. Flow(l) /\ th[l] # "joined"
    BY <1>2 DEF SinkInv, Flows, InFlow, Flow, Over, Emptying
  <2>2. Offered(l)' = Offered(l) /\ Underway(l)' = Underway(l)
    BY <1>2, <1>3 DEF Offered, Underway
  <2> QED  BY <1>2, <2>1, <2>2, FlowKept
<1>6. Placed'
  BY <1>1, <1>2 DEF SinkInv, Placed, Emptying
<1>7. Handed' /\ Blamed' /\ Gone'
  BY <1>2, <1>3 DEF SinkInv, Handed, Blamed, Gone, Over, Emptying
<1> QED  BY <1>4, <1>5, <1>6, <1>7 DEF SinkInv

LEMMA DrainKeeps == ASSUME SinkInv, Drain PROVE SinkInv'
<1> USE DEF Drain, Fixed, sinks, Go
<1>1. PICK a \in Levels : a = at
  BY DEF SinkInv, PassType
<1>2. /\ pc = "drain" /\ at' = a /\ a \in Nat /\ 1 <= a /\ a <= L /\ L \in Nat
      /\ UNCHANGED <<feed, backing, ram, moving, out, armed, result, passOutcome>>
      /\ UNCHANGED <<th, queues, hand, file, broke, item>>
      /\ pc' = IF th[a] = "none" THEN "read" ELSE "join"
      /\ senders' = [senders EXCEPT ![a] = FALSE]
  BY <1>1, Feeding DEF SinkInv
<1>3. PassType' /\ Batched'
  <2>1. senders' \in [Levels -> BOOLEAN]
    BY <1>2 DEF SinkInv, PassType
  <2> QED  BY <1>1, <1>2, <2>1 DEF SinkInv, PassType, Batched
<1>4. Flows'
  <2> SUFFICES ASSUME NEW l \in Levels, ~(l < a) PROVE Flow(l)'
    BY <1>2 DEF Flows, InFlow, Over, Emptying
  <2>1. Flow(l) /\ th[l] # "joined"
    BY <1>1, <1>2 DEF SinkInv, Flows, InFlow, Flow, Over, Emptying
  <2>2. Offered(l)' = Offered(l) /\ Underway(l)' = Underway(l)
    BY <1>2 DEF Offered, Underway
  <2> QED  BY <1>2, <2>1, <2>2, FlowKept
<1>5. Handed'
  <2>1. \A l : Ram!Want(l)' = Ram!Want(l)
    BY <1>2, WantKept
  <2> QED  BY <1>1, <1>2, <2>1 DEF SinkInv, Handed, Over, Emptying, Ram!Whole
<1>6. Placed' /\ Blamed' /\ Gone'
  BY <1>1, <1>2 DEF SinkInv, Placed, Blamed, Gone, Over, Emptying
<1> QED  BY <1>3, <1>4, <1>5, <1>6 DEF SinkInv

LEMMA JoinWriterKeeps == ASSUME SinkInv, JoinWriter PROVE SinkInv'
<1> USE DEF Fixed, sinks
<1>1. PICK a \in Levels : a = at
  BY DEF SinkInv, PassType
<1>2. /\ pc = "join" /\ a \in Nat /\ 1 <= a /\ a <= L /\ L \in Nat
      /\ item = Len(feed) /\ item \in Nat
      /\ th[a] \in {"ok", "write", "panic"} /\ Flow(a)
      /\ UNCHANGED <<feed, backing, ram, moving, out, senders, queues, hand, file, broke>>
      /\ th' = [th EXCEPT ![a] = "joined"]
      /\ IF th[a] = "ok" THEN Go("read", at) ELSE Leave(th[a])
  <2>1. th[a] \notin {"none", "run"} /\ pc = "join"
    BY <1>1 DEF SinkInv, Placed, JoinWriter
  <2>2. Flow(a)
    BY <1>1, <2>1, Feeding DEF SinkInv, Flows, InFlow, Over, Emptying
  <2>3. th[a] # "joined" /\ th[a] \in {"none", "run", "ok", "write", "panic", "joined"}
    BY <2>1, <2>2 DEF Flow, SinkInv, PassType
  <2> QED
    BY <1>1, <2>1, <2>2, <2>3, Feeding DEF SinkInv, Placed, Emptying, JoinWriter
<1>3. /\ th'[a] = "joined" /\ \A l \in Levels \ {a} : th'[l] = th[l]
      /\ th' \in [Levels -> {"none", "run", "ok", "write", "panic", "joined"}]
  BY <1>2 DEF SinkInv, PassType
<1>4. Batched'
  BY <1>2 DEF SinkInv, Batched
<1>5. CASE th[a] # "ok"
  <2>1. th[a] \in Ram!Causes /\ th[a] \in broke' /\ Leave(th[a])
    BY <1>2, <1>5 DEF SinkInv, Blamed, Ram!Causes
  <2>2. /\ pc' = "drop" /\ at' = 1 /\ result' = th[a]
        /\ UNCHANGED <<item, armed, passOutcome>>
    BY <2>1 DEF Leave
  <2>3. at' \in Levels
    BY <1>2, <2>2 DEF Levels
  <2>4. PassType'
    BY <1>2, <1>3, <2>1, <2>2, <2>3 DEF SinkInv, PassType
  <2>5. \A l \in Levels : th'[l] \in {"write", "panic"} => th'[l] = th[l]
    BY <1>3
  <2>6. Flows' /\ Placed' /\ Handed' /\ Blamed' /\ Gone'
    BY <1>2, <2>1, <2>5, Leaving
  <2> QED  BY <1>4, <2>4, <2>6 DEF SinkInv
<1>6. CASE th[a] = "ok"
  <2>1. /\ pc' = "read" /\ at' = a
        /\ UNCHANGED <<item, armed, result, passOutcome>>
    BY <1>1, <1>2, <1>6 DEF Go
  <2>2. PassType'
    BY <1>2, <1>3, <2>1 DEF SinkInv, PassType
  <2>3. Flow(a)'
    <3>1. Offered(a) = Len(feed) /\ Underway(a) = <<>>
      BY <1>2 DEF Offered, Underway
    <3>2. /\ hand[a] = <<>> /\ queues[a] = <<>>
          /\ ((file[a] \o <<>>) \o <<>>) \o <<>> = Ram!Want(a)
      BY <1>2, <1>6, <3>1 DEF Flow, Ram!Want
    <3>3. file[a] = Ram!Want(a)
      <4>1. file[a] \in Seq(Nat)
        BY DEF SinkInv, Batched
      <4> QED  BY <3>2, <4>1, Settled
    <3>4. Ram!Want(a)' = Ram!Want(a)
      BY <1>2, WantKept
    <3> QED  BY <1>2, <1>3, <2>1, <3>3, <3>4 DEF Flow
  <2>4. Flows'
    <3> SUFFICES ASSUME NEW l \in Levels, ~(l < a), l # a PROVE Flow(l)'
      BY <2>1, <2>3 DEF Flows, InFlow, Over, Emptying
    <3>1. Flow(l) /\ th[l] # "joined"
      BY <1>1, <1>2 DEF SinkInv, Flows, InFlow, Flow, Over, Emptying
    <3>2. Offered(l)' = Offered(l) /\ Underway(l)' = Underway(l)
      BY <1>2, <2>1 DEF Offered, Underway
    <3> QED  BY <1>2, <1>3, <3>1, <3>2, FlowKept
  <2>5. Handed'
    <3>1. \A l : Ram!Want(l)' = Ram!Want(l)
      BY <1>2, WantKept
    <3> QED  BY <1>1, <1>2, <2>1, <3>1 DEF SinkInv, Handed, Over, Emptying, Ram!Whole
  <2>6. Placed' /\ Blamed' /\ Gone'
    BY <1>1, <1>2, <1>3, <2>1 DEF SinkInv, Placed, Blamed, Gone, Over, Emptying
  <2> QED  BY <1>4, <2>2, <2>4, <2>5, <2>6 DEF SinkInv
<1> QED  BY <1>5, <1>6

\* What is read back, or still in RAM, is the level.
LEMMA StoredWhole ==
  ASSUME SinkInv, pc = "read"
  PROVE  Stored(at) = Ram!Want(at) /\ Stored(at) \in Seq(Nat)
<1>1. PICK a \in Levels : a = at
  BY DEF SinkInv, PassType
<1>2. Flow(a) /\ th[a] \in {"none", "joined"} /\ item = Len(feed)
  BY <1>1, Feeding DEF SinkInv, Flows, InFlow, Over, Emptying, Placed
<1>3. Offered(a) = Len(feed)
  BY <1>2 DEF Offered
<1>4. Stored(a) = Ram!Want(a)
  BY <1>2, <1>3 DEF Flow, Stored, Ram!Want
<1>5. Stored(a) \in Seq(Nat)
  BY <1>1 DEF Stored, SinkInv, Batched
<1> QED  BY <1>1, <1>4, <1>5

LEMMA WriteLevelKeeps == ASSUME SinkInv, WriteLevel PROVE SinkInv'
<1> USE DEF Fixed, spill
<1>1. PICK a \in Levels : a = at
  BY DEF SinkInv, PassType
<1>2. /\ pc = "read" /\ a \in Nat /\ 1 <= a /\ a <= L /\ L \in Nat
      /\ item = Len(feed) /\ item \in Nat
      /\ UNCHANGED <<feed, backing, moving, th, senders, queues, hand, file>>
      /\ ram' = [ram EXCEPT ![a] = <<>>]
  BY <1>1, Feeding DEF SinkInv, Placed, Emptying, WriteLevel
<1>3. PICK w \in Seq(Nat) : w = Stored(at) /\ w = Ram!Want(at)
  BY <1>2, StoredWhole
<1>4. ram' \in [Levels -> Seq(Nat)]
  <2>1. <<>> \in Seq(Nat)
    OBVIOUS
  <2> QED  BY <1>2, <2>1 DEF SinkInv, Batched
<1>5. CASE /\ out' = [out EXCEPT ![at] = Stored(at)]
           /\ OnTo("drain", "drop") /\ UNCHANGED broke
  <2>1. /\ IF a < L THEN pc' = "drain" /\ at' = a + 1 ELSE pc' = "drop" /\ at' = 1
        /\ UNCHANGED <<item, armed, result, passOutcome, broke>>
        /\ out' = [out EXCEPT ![a] = w]
    BY <1>1, <1>3, <1>5 DEF OnTo, Go
  <2>2. at' \in Levels /\ pc' \in {"drain", "drop"}
    BY <1>2, <2>1 DEF Levels
  <2>3. /\ out' \in [Levels -> Seq(Nat)] /\ out'[a] = w
        /\ \A l \in Levels \ {a} : out'[l] = out[l]
    BY <2>1 DEF SinkInv, Batched
  <2>4. PassType' /\ Batched'
    BY <1>2, <1>4, <2>1, <2>2, <2>3 DEF SinkInv, PassType, Batched
  <2>5. Flows'
    <3> SUFFICES ASSUME NEW l \in Levels, pc' = "drain", ~(l < at') PROVE Flow(l)'
      BY <2>1 DEF Flows, InFlow, Over, Emptying
    <3>1. ~(l < a) /\ l # a
      BY <1>2, <2>1 DEF Levels
    <3>2. Flow(l)
      BY <1>1, <1>2, <3>1 DEF SinkInv, Flows, InFlow, Over, Emptying
    <3>3. th[l] # "joined"
      BY <1>1, <3>1, <3>2 DEF Flow
    <3>4. Offered(l)' = Offered(l) /\ Underway(l)' = Underway(l)
      BY <1>2, <2>1 DEF Offered, Underway
    <3>5. ram'[l] = ram[l]
      BY <1>2, <3>1 DEF SinkInv, Batched
    <3> QED  BY <1>2, <3>2, <3>3, <3>4, <3>5, FlowKept
  <2>6. Handed'
    <3>1. \A l : Ram!Want(l)' = Ram!Want(l)
      BY <1>2, WantKept
    <3>2. Ram!Want(a) = w
      BY <1>1, <1>3
    <3>3. \A l \in Levels : l <= a => Ram!Whole(l)'
      <4> SUFFICES ASSUME NEW l \in Levels, l <= a PROVE Ram!Whole(l)'
        OBVIOUS
      <4>1. CASE l = a
        BY <2>3, <3>1, <3>2, <4>1 DEF Ram!Whole
      <4>2. CASE l # a
        <5>1. l < a
          BY <1>2, <4>2 DEF Levels
        <5> QED  BY <1>1, <1>2, <2>3, <3>1, <4>2, <5>1
                 DEF SinkInv, Handed, Emptying, Ram!Whole
      <4> QED  BY <4>1, <4>2
    <3>4. \A l \in Levels : ~(l <= a) => out'[l] = <<>>
      <4> SUFFICES ASSUME NEW l \in Levels, ~(l <= a) PROVE out'[l] = <<>>
        OBVIOUS
      <4>1. l # a /\ ~(l < a)
        BY <1>2 DEF Levels
      <4> QED  BY <1>1, <1>2, <2>3, <4>1 DEF SinkInv, Handed, Emptying
    <3>5. \A l \in Levels : (l < a + 1 <=> l <= a) /\ l <= L
      BY <1>2 DEF Levels
    <3> QED  BY <1>2, <2>1, <3>3, <3>4, <3>5 DEF Handed, Over, Emptying
  <2>7. Placed'
    BY <1>1, <1>2, <2>1, <2>2 DEF SinkInv, Placed, Emptying
  <2>8. Blamed'
    BY <1>2, <2>1, <2>2 DEF SinkInv, Blamed, Over
  <2>9. Gone'
    BY <2>1, <2>2 DEF Gone
  <2> QED  BY <2>4, <2>5, <2>6, <2>7, <2>8, <2>9 DEF SinkInv
<1>6. CASE /\ \E n \in 0..Len(Stored(at)) :
                 out' = [out EXCEPT ![at] = SubSeq(Stored(at), 1, n)]
           /\ Fails("output") \/ (th[at] # "none" /\ Fails("read"))
  <2>1. PICK n \in 0..Len(w) : out' = [out EXCEPT ![a] = SubSeq(w, 1, n)]
    BY <1>1, <1>3, <1>6
  <2>2. SubSeq(w, 1, n) \in Seq(Nat)
    <3>1. Len(w) \in Nat /\ \A i \in 1..n : w[i] \in Nat
      OBVIOUS
    <3> QED  BY <3>1, SubSeqProperties
  <2>3. Batched'
    BY <1>2, <1>4, <2>1, <2>2 DEF SinkInv, Batched
  <2>4. PICK c \in Ram!Causes : Fails(c)
    BY <1>6 DEF Ram!Causes
  <2> QED  BY <1>2, <2>3, <2>4, FailingKeeps
<1> QED  BY <1>5, <1>6 DEF WriteLevel

LEMMA DropSinkKeeps == ASSUME SinkInv, DropSink PROVE SinkInv'
<1> USE DEF DropSink, Fixed, sinks, Go
<1>1. /\ pc = "drop" /\ pc' = "dropJoin" /\ at' = at
      /\ senders' = [senders EXCEPT ![at] = FALSE]
      /\ UNCHANGED <<feed, backing, ram, moving, out, armed, result, passOutcome>>
      /\ UNCHANGED <<th, queues, hand, file, broke, item>>
  OBVIOUS
<1>2. PassType' /\ Batched'
  <2>1. senders' \in [Levels -> BOOLEAN]
    BY <1>1 DEF SinkInv, PassType
  <2> QED  BY <1>1, <2>1 DEF SinkInv, PassType, Batched
<1>3. Flows' /\ Placed'
  BY <1>1 DEF SinkInv, Flows, InFlow, Placed, Over, Emptying
<1>4. Handed'
  <2>1. \A l : Ram!Want(l)' = Ram!Want(l)
    BY <1>1, WantKept
  <2> QED  BY <1>1, <2>1 DEF SinkInv, Handed, Over, Emptying, Ram!Whole
<1>5. Blamed' /\ Gone'
  BY <1>1 DEF SinkInv, Blamed, Gone, Over
<1> QED  BY <1>2, <1>3, <1>4, <1>5 DEF SinkInv

LEMMA DropJoinKeeps == ASSUME SinkInv, DropJoin PROVE SinkInv'
<1> USE DEF DropJoin, Fixed, sinks
<1>1. PICK a \in Levels : a = at
  BY DEF SinkInv, PassType
<1>2. /\ pc = "dropJoin" /\ a \in Nat /\ 1 <= a /\ a <= L /\ L \in Nat
      /\ UNCHANGED <<feed, backing, ram, moving, out, armed, item>>
      /\ UNCHANGED <<senders, queues, hand, file, broke>>
      /\ th[a] # "run"
      /\ \/ a < L /\ pc' = "drop" /\ at' = a + 1 /\ passOutcome' = passOutcome
         \/ a = L /\ pc' = "done" /\ at' = a /\ passOutcome' = result'
      /\ result' = IF th[a] = "panic" THEN "panic" ELSE result
  BY <1>1, Feeding DEF SinkInv
<1>3. /\ th'[a] \in {"none", "joined"} /\ \A l \in Levels \ {a} : th'[l] = th[l]
      /\ th' \in [Levels -> {"none", "run", "ok", "write", "panic", "joined"}]
  BY <1>1 DEF SinkInv, PassType
<1>4. result' \in {"ok"} \cup broke' /\ (result' = "ok" => result = "ok")
  <2>1. th[a] = "panic" => "panic" \in broke
    BY <1>1 DEF SinkInv, Blamed
  <2>2. result \in {"ok"} \cup broke
    BY <1>2 DEF SinkInv, Blamed, Over
  <2> QED  BY <1>2, <2>1, <2>2
<1>5. at' \in Levels /\ pc' \in {"drop", "done"}
  BY <1>2 DEF Levels
<1>6. PassType'
  <2>1. result' \in {"ok"} \cup Ram!Causes
    BY <1>2, <1>4 DEF SinkInv, PassType
  <2>2. passOutcome' \in {Unfinished, "ok"} \cup Ram!Causes
    BY <1>2, <2>1 DEF SinkInv, PassType
  <2> QED  BY <1>2, <1>3, <1>5, <2>1, <2>2 DEF SinkInv, PassType
<1>7. Batched'
  BY <1>2 DEF SinkInv, Batched
<1>8. Flows' /\ Placed'
  <2>1. Flows'
    BY <1>5 DEF Flows, InFlow, Over
  <2>2. Placed'
    <3>1. armed => backing = "ram"
      BY DEF SinkInv, Placed
    <3> HIDE DEF DropJoin
    <3> QED  BY <1>2, <1>5, <3>1 DEF Placed, Emptying
  <2> QED  BY <2>1, <2>2
<1>9. Handed'
  <2>1. \A l : Ram!Want(l)' = Ram!Want(l)
    BY <1>2, WantKept
  <2> QED
    BY <1>2, <1>4, <1>5, <2>1 DEF SinkInv, Handed, Over, Emptying, Ram!Whole
<1>10. Blamed'
  <2>1. \A l \in Levels : th'[l] \in {"write", "panic"} => th'[l] = th[l]
    BY <1>3
  <2> QED  BY <1>2, <1>4, <1>5, <2>1 DEF SinkInv, Blamed, Over
<1>11. Gone'
  <2>1. \A l \in 1..(a - 1) : th[l] \in {"none", "joined"}
    BY <1>1, <1>2 DEF SinkInv, Gone
  <2>2. \A l \in 1..a : th'[l] \in {"none", "joined"}
    <3> SUFFICES ASSUME NEW l \in 1..a, l # a PROVE th'[l] \in {"none", "joined"}
      BY <1>3
    <3>1. l \in 1..(a - 1) /\ l \in Levels
      BY <1>2 DEF Levels
    <3> QED  BY <1>3, <2>1, <3>1
  <2> QED  BY <1>2, <2>2 DEF Gone, Levels
<1> QED  BY <1>6, <1>7, <1>8, <1>9, <1>10, <1>11 DEF SinkInv

LEMMA SinkStep == SinkInv /\ [PassNext]_passVars => SinkInv'
<1>1. ASSUME SinkInv, UNCHANGED passVars PROVE SinkInv'
  <2> USE DEF passVars, driver, sinks, spill
  <2>1. \A l : Ram!Want(l)' = Ram!Want(l)
    BY <1>1, WantKept
  <2>2. \A l : Flow(l) => Flow(l)'
    <3> SUFFICES ASSUME NEW l, Flow(l) PROVE Flow(l)'
      OBVIOUS
    <3>1. Ram!First(l, Offered(l))' = Ram!First(l, Offered(l))
      BY <1>1, FirstKept DEF Offered
    <3> QED  BY <1>1, <2>1, <3>1 DEF Flow, Underway
  <2>3. PassType' /\ Batched'
    BY <1>1 DEF SinkInv, PassType, Batched
  <2>4. Flows' /\ Placed'
    BY <1>1, <2>2 DEF SinkInv, Flows, InFlow, Placed, Over, Emptying
  <2>5. Handed' /\ Blamed' /\ Gone'
    BY <1>1, <2>1 DEF SinkInv, Handed, Blamed, Gone, Over, Emptying, Ram!Whole
  <2> QED  BY <2>3, <2>4, <2>5 DEF SinkInv
<1>2. ASSUME SinkInv, NEW l \in Levels, Writer(l) PROVE SinkInv'
  BY <1>2, ReceiveKeeps, WriteKeeps, FinishKeeps, StopKeeps DEF Writer
<1>3. ASSUME SinkInv, Driver PROVE SinkInv'
  BY <1>3, SetupKeeps, NextItemKeeps, SourceFailsKeeps, AllReadKeeps, PushKeeps,
     MeasureKeeps, DowngradeKeeps, MoveKeeps, MovedKeeps, DrainKeeps,
     JoinWriterKeeps, WriteLevelKeeps, DropSinkKeeps, DropJoinKeeps DEF Driver
<1> QED  BY <1>1, <1>2, <1>3 DEF PassNext

LEMMA SinkInvariant == PassSpec => []SinkInv
<1> QED  BY Initially, SinkStep, PTL DEF PassSpec

\* Every variable of run_pass2_buffered keeps its kind: no channel holds more
\* than SPILL_QUEUE_DEPTH batches, and what is reported is one of the causes.
THEOREM SinksTyped == PassSpec => []PassType
<1>1. SinkInv => PassType
  BY DEF SinkInv
<1> QED  BY <1>1, SinkInvariant, PTL

\* However the pass ends, every spill writer it started has been joined.
THEOREM WritersJoined == PassSpec => []NoOrphans
<1>1. SinkInv => NoOrphans
  BY DEF SinkInv, Blamed, Gone, NoOrphans
<1> QED  BY <1>1, SinkInvariant, PTL

\* Spilling, downgrading in the middle of the pass and the writer threads make
\* no difference: each level's batches reach the overview writer in read order,
\* level after level, and success is reported only with all of them there.
THEOREM SpillsAsRam == PassSpec => ActsAsRam
<1>1. PassInit => Ram!Init
  BY DEF PassInit, Ram!Init, Levels, Ram!Levels
<1>2. SinkInv /\ WriteLevel => Ram!Drain
  <2> SUFFICES ASSUME SinkInv, WriteLevel PROVE Ram!Drain
    OBVIOUS
  <2>1. PICK a \in Levels : a = at
    BY DEF SinkInv, PassType
  <2>2. /\ pc = "read" /\ a \in Nat /\ 1 <= a /\ a <= L /\ L \in Nat
        /\ UNCHANGED <<feed, passOutcome>> /\ passOutcome = Unfinished
    BY <2>1, Feeding
       DEF SinkInv, Blamed, WriteLevel, Fixed, OnTo, Go, Fails, Leave
  <2>3. Stored(at) = Ram!Want(a)
    BY <2>1, <2>2, StoredWhole
  <2>4. (\A k \in 1..(a - 1) : Ram!Whole(k)) /\ \A k \in a..L : out[k] = <<>>
    BY <2>1, <2>2 DEF SinkInv, Handed, Emptying, Levels
  <2>5. \/ out' = [out EXCEPT ![a] = Ram!Want(a)] /\ UNCHANGED broke
        \/ \E n \in 0..Len(Ram!Want(a)), c \in {"read", "output"} :
             /\ out' = [out EXCEPT ![a] = SubSeq(Ram!Want(a), 1, n)]
             /\ broke' = broke \cup {c}
    BY <2>1, <2>3 DEF WriteLevel, Fails
  <2>6. a \in Ram!Levels
    BY <2>1 DEF Levels, Ram!Levels
  <2> QED  BY <2>2, <2>4, <2>5, <2>6 DEF Ram!Drain
<1>3. SinkInv /\ DropJoin => Ram!Return \/ UNCHANGED Ram!vars
  <2> SUFFICES ASSUME SinkInv, DropJoin PROVE Ram!Return \/ UNCHANGED Ram!vars
    OBVIOUS
  <2>1. UNCHANGED <<feed, out, broke>> /\ passOutcome = Unfinished
    BY DEF DropJoin, Fixed, sinks, SinkInv, Blamed
  <2>2. CASE pc' = "drop"
    BY <2>1, <2>2 DEF DropJoin, Ram!vars
  <2>3. CASE pc' = "done"
    <3>1. SinkInv'
      BY DropJoinKeeps
    <3>2. passOutcome' = result'
      BY <2>3 DEF DropJoin
    <3>3. result' \in {"ok"} \cup broke'
      BY <2>3, <3>1 DEF SinkInv, Blamed, Over
    <3>4. result' = "ok" => \A l \in Levels : Ram!Whole(l)
      <4>1. result' = "ok" => \A l \in Levels : Ram!Whole(l)'
        BY <2>3, <3>1 DEF SinkInv, Handed, Over
      <4>2. \A l : Ram!Want(l)' = Ram!Want(l)
        BY <2>1, WantKept
      <4> QED  BY <2>1, <4>1, <4>2 DEF Ram!Whole
    <3> QED  BY <2>1, <3>2, <3>3, <3>4 DEF Ram!Return, Levels, Ram!Levels
  <2> QED  BY <2>2, <2>3 DEF DropJoin
<1>4. ASSUME NEW c \in Ram!Causes, Fails(c), UNCHANGED <<feed, out>>
      PROVE  Ram!Break
  BY <1>4 DEF Fails, Leave, Ram!Break
<1>5. ASSUME NEW l \in Levels, Writer(l) PROVE Ram!Break \/ UNCHANGED Ram!vars
  <2>1. UNCHANGED <<feed, out, passOutcome>>
    BY <1>5 DEF Writer, Receive, Write, Finish, WriterStops, Others, driver, sinks
  <2>2. CASE WriterStops(l)
    <3>1. PICK how \in {"write", "panic"} : broke' = broke \cup {how}
      BY <2>2 DEF WriterStops
    <3> QED  BY <2>1, <3>1 DEF Ram!Break, Ram!Causes
  <2>3. CASE ~WriterStops(l)
    BY <1>5, <2>1, <2>3 DEF Writer, Receive, Write, Finish, Ram!vars
  <2> QED  BY <2>2, <2>3
<1>6. SinkInv /\ [PassNext]_passVars => [Ram!Next]_(Ram!vars)
  <2> SUFFICES ASSUME SinkInv, [PassNext]_passVars
               PROVE  Ram!Next \/ UNCHANGED Ram!vars
    OBVIOUS
  <2>1. CASE UNCHANGED passVars
    BY <2>1 DEF passVars, driver, sinks, Ram!vars
  <2>2. CASE Setup
    <3>1. UNCHANGED <<feed, out>>
      BY <2>2 DEF Setup, Fixed, sinks
    <3>2. Fails("create") \/ UNCHANGED <<broke, passOutcome>>
      BY <2>2 DEF Setup, OnTo, Go
    <3> QED  BY <1>4, <3>1, <3>2 DEF Ram!Next, Ram!vars, Ram!Causes
  <2>3. CASE NextItem \/ AllRead \/ Measure \/ Moved \/ Drain \/ DropSink
    BY <2>3 DEF NextItem, AllRead, Measure, Moved, Drain, DropSink, Go, Fixed,
       sinks, Ram!vars
  <2>4. CASE SourceFails
    <3>1. Fails("source") /\ UNCHANGED <<feed, out>>
      BY <2>4 DEF SourceFails, Fixed, sinks
    <3> QED  BY <1>4, <3>1 DEF Ram!Next, Ram!Causes
  <2>5. CASE Push
    BY <2>5 DEF Push, SendFails, Leave, OnTo, Go, Fixed, Ram!vars
  <2>6. CASE Downgrade
    <3>1. UNCHANGED <<feed, out>>
      BY <2>6 DEF Downgrade, Fixed
    <3>2. Fails("create") \/ UNCHANGED <<broke, passOutcome>>
      BY <2>6 DEF Downgrade, Go
    <3> QED  BY <1>4, <3>1, <3>2 DEF Ram!Next, Ram!vars, Ram!Causes
  <2>7. CASE Move
    BY <2>7 DEF Move, SendFails, Leave, Go, Fixed, Ram!vars
  <2>8. CASE JoinWriter
    BY <2>8 DEF JoinWriter, Leave, Go, Fixed, sinks, Ram!vars
  <2>9. CASE WriteLevel \/ DropJoin
    BY <1>2, <1>3, <2>9 DEF Ram!Next
  <2>10. CASE \E l \in Levels : Writer(l)
    BY <1>5, <2>10 DEF Ram!Next
  <2> QED
    BY <2>1, <2>2, <2>3, <2>4, <2>5, <2>6, <2>7, <2>8, <2>9, <2>10
       DEF PassNext, Driver
<1> QED  BY <1>1, <1>6, SinkInvariant, PTL DEF PassSpec, ActsAsRam, Ram!Spec

=============================================================================
