----------------------------- MODULE ScopedPipe -----------------------------
(***************************************************************************)
(* overview/pipe.rs: a producer on a scoped thread feeds a bounded channel *)
(* of which the calling thread's consumer owns the receiver; the consumer  *)
(* drains it a window at a time.                                           *)
(***************************************************************************)
EXTENDS Naturals, Sequences

CONSTANTS
  MaxItems,   \* bound: items a source yields
  MaxInFlight,\* bound: --in-flight-batches, resolved
  Pending     \* no result yet

ASSUME BoundsAssumption == MaxItems \in Nat /\ MaxInFlight \in Nat
ASSUME PendingAssumption ==
  Pending \notin {"ok", "err", "itemErr", "sourceErr", "panic"}

VARIABLES
  source,     \* input: [n : items the producer has, end : how it ends]
  verdict,    \* input: per item, what processing and emitting it does
  inFlight,   \* input: the resolved --in-flight-batches
  q,          \* the channel's contents
  tx,         \* the sender is alive
  rx,         \* the receiver is alive
  given,      \* items the producer has sent
  prod,       \* the producer's result, Pending while it runs
  cpc,        \* the consumer: "recv", "topup", "process", "emit", "done"
  items,      \* the window in hand
  results,    \* what processing the window gave, while it is being emitted
  cons,       \* the consumer's result, Pending while it runs
  emitted,    \* the items emit accepted, in order
  outcome     \* what scoped_pipe returned or raised, Pending until then

inputs   == <<source, verdict, inFlight>>
channel  == <<q, tx, rx>>
producer == <<given, prod>>
consumer == <<cpc, items, results, cons, emitted>>
vars     == <<inputs, channel, producer, consumer, outcome>>

Contract == INSTANCE PipeContract

\* split_in_flight: the compute window, and the channel's depth.
AtLeastOne(n) == IF n = 0 THEN 1 ELSE n
Window == AtLeastOne(inFlight \div 2)

\* Mutant: the channel keeps the full depth beside the window.
Depth_Unsplit == AtLeastOne(inFlight)

Depth == AtLeastOne(IF inFlight > Window THEN inFlight - Window ELSE 0)

Init ==
  /\ source \in Contract!Sources
  /\ verdict \in [1..source.n -> Contract!Verdicts]
  /\ inFlight \in 0..MaxInFlight
  /\ q = <<>> /\ tx = TRUE /\ rx = TRUE
  /\ given = 0 /\ prod = Pending
  /\ cpc = "recv" /\ items = <<>> /\ results = <<>> /\ cons = Pending
  /\ emitted = <<>>
  /\ outcome = Pending

-----------------------------------------------------------------------------
(* The producer thread *)

\* Its closure returned or unwound: tx is dropped with it.
ProducerEnds(result) ==
  /\ prod' = result /\ tx' = FALSE
  /\ UNCHANGED <<inputs, q, rx, given, consumer, outcome>>

\* send blocks on a full channel.
Send ==
  /\ prod = Pending /\ given < source.n
  /\ rx /\ Len(q) < Depth
  /\ q' = Append(q, given + 1)
  /\ given' = given + 1
  /\ UNCHANGED <<inputs, tx, rx, prod, consumer, outcome>>

\* Every receiver is gone: a SendError, which is a clean stop.
HungUp ==
  /\ prod = Pending /\ given < source.n
  /\ ~rx
  /\ ProducerEnds("ok")

\* The source is exhausted, or fails after its last item.
SourceEnds ==
  /\ prod = Pending /\ given = source.n
  /\ ProducerEnds(source.end)

Producer == Send \/ HungUp \/ SourceEnds

-----------------------------------------------------------------------------
(* The consumer: for_each_window *)

\* Mutant: a consumer that unwinds leaves the receiver alive behind it.
ConsumerEnds_KeepsRx(result) ==
  /\ cons' = result /\ cpc' = "done"
  /\ rx' = (result = "panic")
  /\ q' = IF result = "panic" THEN q ELSE <<>>
  /\ UNCHANGED <<inputs, tx, producer, outcome>>

\* By whatever path it ends, the receiver it owns is dropped, and what the
\* channel still holds goes with it.
ConsumerEnds(result) ==
  /\ cons' = result /\ cpc' = "done"
  /\ rx' = FALSE /\ q' = <<>>
  /\ UNCHANGED <<inputs, tx, producer, outcome>>

Stay == UNCHANGED <<inputs, tx, rx, producer, outcome>>

\* recv blocks for the window's first item.
Recv ==
  /\ cpc = "recv" /\ q # <<>>
  /\ items' = <<Head(q)>> /\ q' = Tail(q)
  /\ cpc' = "topup"
  /\ UNCHANGED <<results, cons, emitted>> /\ Stay

\* The channel is empty and its sender gone: the drain is over.
Disconnected ==
  /\ cpc = "recv" /\ q = <<>> /\ ~tx
  /\ ConsumerEnds("ok")
  /\ UNCHANGED <<items, results, emitted>>

\* try_recv tops the window up from what is queued.
TopUp ==
  /\ cpc = "topup" /\ Len(items) < Window /\ q # <<>>
  /\ items' = Append(items, Head(q)) /\ q' = Tail(q)
  /\ UNCHANGED <<cpc, results, cons, emitted>> /\ Stay

\* The window is full, or there is nothing queued: it never waits to fill.
Filled ==
  /\ cpc = "topup" /\ (Len(items) = Window \/ q = <<>>)
  /\ cpc' = "process"
  /\ UNCHANGED <<q, items, results, cons, emitted>> /\ Stay

\* The whole window is processed, concurrently, before any of it is emitted.
Process ==
  /\ cpc = "process"
  /\ \A i \in 1..Len(items) : verdict[items[i]] # "panic"
  /\ results' = [i \in 1..Len(items) |-> verdict[items[i]]]
  /\ cpc' = "emit"
  /\ UNCHANGED <<q, items, cons, emitted>> /\ Stay

ProcessPanics ==
  /\ cpc = "process"
  /\ \E i \in 1..Len(items) : verdict[items[i]] = "panic"
  /\ ConsumerEnds("panic")
  /\ UNCHANGED <<items, results, emitted>>

\* Mutant: results are taken last first.
EmitNext_Reversed ==
  /\ cpc = "emit" /\ results # <<>> /\ results[Len(results)] = "ok"
  /\ emitted' = Append(emitted, items[Len(items)])
  /\ items' = SubSeq(items, 1, Len(items) - 1)
  /\ results' = SubSeq(results, 1, Len(results) - 1)
  /\ UNCHANGED <<q, cpc, cons>> /\ Stay

\* Results are emitted in receive order.
EmitNext ==
  /\ cpc = "emit" /\ results # <<>> /\ Head(results) = "ok"
  /\ emitted' = Append(emitted, Head(items))
  /\ items' = Tail(items) /\ results' = Tail(results)
  /\ UNCHANGED <<q, cpc, cons>> /\ Stay

\* The first item in receive order that does not go through ends the drain.
EmitEnds ==
  /\ cpc = "emit" /\ results # <<>> /\ Head(results) # "ok"
  /\ emitted' = IF Head(results) = "stop" THEN Append(emitted, Head(items))
                                          ELSE emitted
  /\ ConsumerEnds(CASE Head(results) = "stop" -> "ok"
                    [] Head(results) = "err" -> "itemErr"
                    [] OTHER -> "panic")
  /\ UNCHANGED <<items, results>>

NextWindow ==
  /\ cpc = "emit" /\ results = <<>>
  /\ cpc' = "recv"
  /\ UNCHANGED <<q, items, results, cons, emitted>> /\ Stay

Consumer == Recv \/ Disconnected \/ TopUp \/ Filled \/ Process \/ ProcessPanics
              \/ EmitNext \/ EmitEnds \/ NextWindow

-----------------------------------------------------------------------------
(* scoped_pipe on the calling thread, once consume returned or unwound *)

\* A panic is resumed, a producer's error beats the consumer's.
Outcome ==
  IF cons = "panic" \/ prod = "panic" THEN "panic"
  ELSE IF prod = "err" THEN "sourceErr" ELSE cons

\* The join waits for the producer.  An unwinding consumer waits as well:
\* the scope joins its threads before it lets the panic through.
Join ==
  /\ cons # Pending /\ prod # Pending /\ outcome = Pending
  /\ outcome' = Outcome
  /\ UNCHANGED <<inputs, channel, producer, consumer>>

Next == Producer \/ Consumer \/ Join

\* The threads are scheduled, and the source, process and emit return.
Fairness == WF_vars(Producer) /\ WF_vars(Consumer) /\ WF_vars(Join)

Spec == Init /\ [][Next]_vars /\ Fairness

-----------------------------------------------------------------------------
(* Properties *)

\* Every variable holds a value of its kind, and every item seen is one the
\* source has.
TypeOK ==
  /\ source \in Contract!Sources
  /\ verdict \in [1..source.n -> Contract!Verdicts]
  /\ inFlight \in 0..MaxInFlight
  /\ q \in Seq(1..source.n) /\ tx \in BOOLEAN /\ rx \in BOOLEAN
  /\ given \in 0..source.n
  /\ prod \in {Pending, "ok", "err", "panic"}
  /\ cpc \in {"recv", "topup", "process", "emit", "done"}
  /\ items \in Seq(1..source.n)
  /\ results \in Seq(Contract!Verdicts)
  /\ cons \in {Pending, "ok", "itemErr", "panic"}
  /\ emitted \in Seq(1..source.n)
  /\ outcome \in {Pending, "ok", "sourceErr", "itemErr", "panic"}

\* split_in_flight's purpose: the channel and the window together hold no more
\* than --in-flight-batches items (two at least).  The item that a sender
\* waiting for room has in hand is beyond that.
ResidentBounded ==
  Len(q) + Len(items) <= IF inFlight < 2 THEN 2 ELSE inFlight

\* A source that got as far as its own failure is never passed over for an
\* item's error, or for success, whatever the items did meanwhile.
SourceErrorWins ==
  given = source.n /\ source.end # "ok" => outcome \notin {"ok", "itemErr"}

\* Unless something panics, every item sent is emitted up to the first that
\* does not go through: also when the source fails after it, and whatever
\* window or channel slot the item was in.
DrainsWhatWasSent ==
  outcome \in {"ok", "sourceErr", "itemErr"} =>
    \A i \in 1..given :
      i <= Len(emitted) <=> /\ verdict[i] \in {"ok", "stop"}
                            /\ \A j \in 1..(i - 1) : verdict[j] = "ok"

\* The pipe is the serial loop.
ActsSerially == Contract!Spec

\* The pipe returns, whatever fails: the join never waits for a producer that
\* is parked in send (the hang of #362).
AlwaysReturns == Contract!Returns

=============================================================================
