----------------------------- MODULE SpillSink -----------------------------
(***************************************************************************)
(* overview/pipeline.rs, run_pass2_buffered: one sink per level, in RAM or *)
(* spilled through a writer thread of its own, filled in read order by the *)
(* consumer, downgraded from RAM to spill at most once, and drained into   *)
(* the overview writer level by level.                                     *)
(***************************************************************************)
EXTENDS Naturals, Sequences, FiniteSets

CONSTANTS
  L,          \* buffered levels
  MaxBatches, \* bound: batches read
  QueueDepth, \* SPILL_QUEUE_DEPTH
  MaxFaults,  \* bound: things that fail in one pass
  Unfinished  \* no outcome yet

ASSUME SinkAssumption ==
  /\ L \in Nat \ {0} /\ MaxBatches \in Nat /\ QueueDepth \in Nat \ {0}
  /\ MaxFaults \in Nat

VARIABLES
  feed,     \* input: per batch read, the levels it has rows for
  backing,  \* input: SinkBacking, "ram" or "spill"
  pc,       \* the driver: "setup", "pass", "push", "downgrade", "move",
            \* "drain", "join", "read", "drop", "dropJoin", "done"
  at,       \* the level it is at
  item,     \* the batch it is at
  armed,    \* the tuner may still ask for the downgrade
  ram,      \* per level: the batches a RAM sink holds
  moving,   \* the buffer being handed to a new spill sink
  th,       \* per level: its writer thread, "none", "run", "ok", "write"
            \* (ended in an error) or "panic"; "joined" once joined
  senders,  \* per level: the sender is alive
  queues,   \* per level: the channel
  hand,     \* per level: the batch being written, as a sequence of at most one
  file,     \* per level: the batches in the spill file
  out,      \* per level: what the overview writer was given
  result,   \* what the pass leaves with
  broke,    \* history: what has failed
  passOutcome \* what run_pass2_buffered returned or raised, Unfinished
            \* until then

driver   == <<pc, at, item, armed, result, passOutcome>>
sinks    == <<ram, moving, out>>
spill    == <<th, senders, queues, hand, file>>
passVars == <<feed, backing, driver, sinks, spill, broke>>

Ram == INSTANCE BufferedPass
Levels == 1..L

PassInit ==
  /\ feed \in Ram!Feeds /\ backing \in {"ram", "spill"}
  /\ pc = "setup" /\ at = 1 /\ item = 0 /\ armed = (backing = "ram")
  /\ result = "ok" /\ passOutcome = Unfinished
  /\ ram = [l \in Levels |-> <<>>] /\ moving = <<>>
  /\ th = [l \in Levels |-> "none"] /\ senders = [l \in Levels |-> FALSE]
  /\ queues = [l \in Levels |-> <<>>] /\ hand = queues /\ file = queues
  /\ out = queues
  /\ broke = {}

MayFail == Cardinality(broke) < MaxFaults

-----------------------------------------------------------------------------
(* A level's writer thread *)

Others == UNCHANGED <<feed, backing, driver, sinks>>

Receive(l) ==
  /\ th[l] = "run" /\ hand[l] = <<>> /\ queues[l] # <<>>
  /\ hand' = [hand EXCEPT ![l] = <<Head(queues[l])>>]
  /\ queues' = [queues EXCEPT ![l] = Tail(@)]
  /\ UNCHANGED <<th, senders, file, broke>> /\ Others

Write(l) ==
  /\ th[l] = "run" /\ hand[l] # <<>>
  /\ file' = [file EXCEPT ![l] = @ \o hand[l]]
  /\ hand' = [hand EXCEPT ![l] = <<>>]
  /\ UNCHANGED <<th, senders, queues, broke>> /\ Others

\* The stream is closed and everything in it written: EOS and flush.
Finish(l) ==
  /\ th[l] = "run" /\ hand[l] = <<>> /\ queues[l] = <<>> /\ ~senders[l]
  /\ th' = [th EXCEPT ![l] = "ok"]
  /\ UNCHANGED <<senders, queues, hand, file, broke>> /\ Others

\* A write, or the finish, fails or panics: the receiver goes with the thread,
\* and whatever the channel holds goes with it.
WriterStops(l) ==
  /\ th[l] = "run" /\ MayFail
  /\ hand[l] # <<>> \/ (queues[l] = <<>> /\ ~senders[l])
  /\ \E how \in {"write", "panic"} :
       /\ th' = [th EXCEPT ![l] = how]
       /\ broke' = broke \cup {how}
  /\ queues' = [queues EXCEPT ![l] = <<>>] /\ hand' = [hand EXCEPT ![l] = <<>>]
  /\ UNCHANGED <<senders, file>> /\ Others

Writer(l) == Receive(l) \/ Write(l) \/ Finish(l) \/ WriterStops(l)

-----------------------------------------------------------------------------
(* The driver *)

\* An error, or a panic, leaves the pass: the sinks are dropped in order.
Leave(cause) == /\ result' = cause /\ pc' = "drop" /\ at' = 1
                /\ UNCHANGED <<item, armed, passOutcome>>

Fails(cause) == MayFail /\ broke' = broke \cup {cause} /\ Leave(cause)

Go(p, l) == pc' = p /\ at' = l /\ UNCHANGED <<item, armed, result, passOutcome>>

\* The next level of the loop the driver is in, or what follows the loop.
OnTo(p, after) == IF at < L THEN Go(p, at + 1) ELSE Go(after, 1)

Fixed == UNCHANGED <<feed, backing>>

\* SpillState::spawn.
Start(l) == /\ th' = [th EXCEPT ![l] = "run"]
            /\ senders' = [senders EXCEPT ![l] = TRUE]
            /\ UNCHANGED <<queues, hand, file>>

Setup ==
  /\ pc = "setup" /\ UNCHANGED sinks /\ Fixed
  /\ \/ backing = "ram" /\ OnTo("setup", "pass") /\ UNCHANGED <<spill, broke>>
     \/ backing = "spill" /\ Start(at) /\ OnTo("setup", "pass") /\ UNCHANGED broke
     \/ backing = "spill" /\ Fails("create") /\ UNCHANGED spill

NextItem ==
  /\ pc = "pass" /\ item < Len(feed)
  /\ item' = item + 1 /\ pc' = "push" /\ at' = 1
  /\ UNCHANGED <<armed, result, passOutcome, sinks, spill, broke>> /\ Fixed

\* Reading or processing a batch fails.
SourceFails == pc = "pass" /\ Fails("source") /\ UNCHANGED <<sinks, spill>> /\ Fixed

AllRead == /\ pc = "pass" /\ item = Len(feed)
           /\ Go("drain", 1) /\ UNCHANGED <<sinks, spill, broke>> /\ Fixed

\* SpillState::push: blocks while the channel is full.
SendBatch(l, batch) ==
  /\ th[l] = "run" /\ Len(queues[l]) < QueueDepth
  /\ queues' = [queues EXCEPT ![l] = Append(@, batch)]
  /\ UNCHANGED <<th, senders, hand, file>>

\* Mutant: a closed channel is taken for the end of the stream.
SendFails_Silent(l) ==
  /\ th[l] \in {"write", "panic"}
  /\ OnTo("push", "pass") /\ UNCHANGED <<th, senders, queues, hand, file>>

\* The writer is gone: release it, join it, report what it died of.
SendFails(l) ==
  /\ th[l] \in {"write", "panic"}
  /\ senders' = [senders EXCEPT ![l] = FALSE] /\ th' = [th EXCEPT ![l] = "joined"]
  /\ Leave(th[l])
  /\ UNCHANGED <<queues, hand, file>>

Push ==
  /\ pc = "push" /\ UNCHANGED <<moving, out, broke>> /\ Fixed
  /\ LET spilled == th[at] # "none"
         next    == OnTo("push", "measure")
     IN  \/ at \notin feed[item] /\ next /\ UNCHANGED <<ram, spill>>
         \/ /\ at \in feed[item] /\ ~spilled
            /\ ram' = [ram EXCEPT ![at] = Append(@, item)]
            /\ next /\ UNCHANGED spill
         \/ /\ at \in feed[item] /\ spilled /\ UNCHANGED ram
            /\ (SendBatch(at, item) /\ next) \/ SendFails(at)

\* The measured rate may project past the budget, once.
Measure ==
  /\ pc = "measure"
  /\ Go("pass", 1) \/ (armed /\ Go("downgrade", 1))
  /\ UNCHANGED <<sinks, spill, broke>> /\ Fixed

\* downgrade_to_spill: the file is opened before the buffer is moved out.
Downgrade ==
  /\ pc = "downgrade" /\ UNCHANGED out /\ Fixed
  /\ \/ /\ Start(at) /\ Go("move", at)
        /\ moving' = ram[at] /\ ram' = [ram EXCEPT ![at] = <<>>]
        /\ UNCHANGED broke
     \/ Fails("create") /\ UNCHANGED <<ram, moving, spill>>

Move ==
  /\ pc = "move" /\ moving # <<>>
  /\ UNCHANGED <<ram, out, broke>> /\ Fixed
  /\ \/ SendBatch(at, Head(moving)) /\ moving' = Tail(moving) /\ Go("move", at)
     \/ SendFails(at) /\ moving' = <<>>

\* The buffer is through; after the last level the downgrade is marked.
Moved ==
  /\ pc = "move" /\ moving = <<>>
  /\ IF at < L THEN pc' = "downgrade" /\ at' = at + 1 /\ UNCHANGED armed
               ELSE pc' = "pass" /\ at' = 1 /\ armed' = FALSE
  /\ UNCHANGED <<item, result, passOutcome, sinks, spill, broke>> /\ Fixed

\* drain_sink.  A spilled level's stream is closed, which is what ends its
\* writer.
Drain ==
  /\ pc = "drain" /\ UNCHANGED <<sinks, broke>> /\ Fixed
  /\ senders' = [senders EXCEPT ![at] = FALSE]
  /\ UNCHANGED <<th, queues, hand, file>>
  /\ Go(IF th[at] = "none" THEN "read" ELSE "join", at)

\* into_reader's join: the writer's error, or its panic, is the driver's.
JoinWriter ==
  /\ pc = "join" /\ th[at] # "run" /\ UNCHANGED <<sinks, broke>> /\ Fixed
  /\ th' = [th EXCEPT ![at] = "joined"] /\ UNCHANGED <<senders, queues, hand, file>>
  /\ IF th[at] = "ok" THEN Go("read", at) ELSE Leave(th[at])

Stored(l) == IF th[l] = "none" THEN ram[l] ELSE file[l]

\* write_level: what the sink holds goes to the overview writer, which can
\* fail; so can reading a spill file back.
WriteLevel ==
  /\ pc = "read" /\ UNCHANGED <<moving, spill>> /\ Fixed
  /\ ram' = [ram EXCEPT ![at] = <<>>]
  /\ \/ /\ out' = [out EXCEPT ![at] = Stored(at)]
        /\ OnTo("drain", "drop") /\ UNCHANGED broke
     \/ /\ \E n \in 0..Len(Stored(at)) :
             out' = [out EXCEPT ![at] = SubSeq(Stored(at), 1, n)]
        /\ Fails("output") \/ (th[at] # "none" /\ Fails("read"))

\* Mutant: the writer is joined while its stream is still open.
DropSink_KeepsTx ==
  /\ pc = "drop" /\ UNCHANGED <<sinks, broke>> /\ Fixed
  /\ UNCHANGED <<th, senders, queues, hand, file>>
  /\ Go("dropJoin", at)

\* SpillState's drop: the sender first, then the join.
DropSink ==
  /\ pc = "drop" /\ UNCHANGED <<sinks, broke>> /\ Fixed
  /\ senders' = [senders EXCEPT ![at] = FALSE] /\ UNCHANGED <<th, queues, hand, file>>
  /\ Go("dropJoin", at)

\* Mutant: a sink's drop closes the stream and does not wait for its writer.
DropJoin_NoWait ==
  /\ pc = "dropJoin" /\ UNCHANGED <<sinks, broke, spill, result>> /\ Fixed
  /\ IF at < L THEN pc' = "drop" /\ at' = at + 1 /\ UNCHANGED passOutcome
               ELSE pc' = "done" /\ at' = at /\ passOutcome' = result
  /\ UNCHANGED <<item, armed>>

\* A writer's panic replaces the error being returned, its error does not.
DropJoin ==
  /\ pc = "dropJoin" /\ th[at] # "run" /\ UNCHANGED <<sinks, broke>> /\ Fixed
  /\ result' = IF th[at] = "panic" THEN "panic" ELSE result
  /\ th' = IF th[at] = "none" THEN th ELSE [th EXCEPT ![at] = "joined"]
  /\ UNCHANGED <<senders, queues, hand, file>>
  /\ IF at < L THEN pc' = "drop" /\ at' = at + 1 /\ UNCHANGED passOutcome
               ELSE pc' = "done" /\ at' = at /\ passOutcome' = result'
  /\ UNCHANGED <<item, armed>>

Driver == \/ Setup \/ NextItem \/ SourceFails \/ AllRead \/ Push \/ Measure
          \/ Downgrade \/ Move \/ Moved \/ Drain \/ JoinWriter \/ WriteLevel
          \/ DropSink \/ DropJoin

PassNext == Driver \/ \E l \in Levels : Writer(l)

\* The driver and the writer threads are scheduled; file I/O returns.
PassFairness == WF_passVars(Driver) /\ \A l \in Levels : WF_passVars(Writer(l))

PassSpec == PassInit /\ [][PassNext]_passVars /\ PassFairness

-----------------------------------------------------------------------------
(* Properties *)

\* Every variable holds a value of its kind.
PassType ==
  /\ feed \in Ram!Feeds /\ backing \in {"ram", "spill"}
  /\ pc \in {"setup", "pass", "push", "measure", "downgrade", "move", "drain",
            "join", "read", "drop", "dropJoin", "done"}
  /\ at \in Levels /\ item \in 0..Len(feed) /\ armed \in BOOLEAN
  /\ th \in [Levels -> {"none", "run", "ok", "write", "panic", "joined"}]
  /\ senders \in [Levels -> BOOLEAN]
  /\ \A l \in Levels : Len(queues[l]) <= QueueDepth /\ Len(hand[l]) <= 1
  /\ broke \subseteq Ram!Causes
  /\ result \in {"ok"} \cup Ram!Causes
  /\ passOutcome \in {Unfinished, "ok"} \cup Ram!Causes

\* When the pass is over no writer thread is left: each was joined, so its
\* temporary file is gone or read.
NoOrphans ==
  passOutcome # Unfinished => \A l \in Levels : th[l] \in {"none", "joined"}

\* The pass is the one with every level in RAM.
ActsAsRam == Ram!Spec

\* The pass returns: no writer is parked on a stream nobody closes, no join
\* waits for one.
Returns == <>(passOutcome # Unfinished)

=============================================================================
