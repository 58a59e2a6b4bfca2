---------------------------- MODULE PipeContract ----------------------------
(***************************************************************************)
(* What scoped_pipe with a windowed consumer promises its caller, with no  *)
(* channel, no thread and no window in it: the serial loop                 *)
(*                                                                         *)
(*     for item in source { emit(item, process(item)?)? }                  *)
(*                                                                         *)
(* The source ends after some number of items, cleanly or with an error or *)
(* a panic; each item has a verdict, what processing and emitting it does. *)
(***************************************************************************)
EXTENDS Naturals, Sequences

CONSTANTS
  MaxItems,   \* bound: items a source yields
  Pending     \* no outcome yet

Ends     == {"ok", "err", "panic"}
Verdicts == {"ok", "err", "panic", "emitPanic", "stop"}

VARIABLES
  source,     \* what the source yields: [n : item count, end : how it ends]
  verdict,    \* per item, what happens to it
  emitted,    \* the items emit accepted, in order
  outcome     \* what the call returned

vars == <<source, verdict, emitted, outcome>>

Sources == [n : 0..MaxItems, end : Ends]

Init == /\ source \in Sources
        /\ verdict \in [1..source.n -> Verdicts]
        /\ emitted = <<>> /\ outcome = Pending

Upcoming == Len(emitted) + 1

\* The previous item asked to stop.
Stopped == emitted # <<>> /\ verdict[Len(emitted)] = "stop"

Emit == /\ outcome = Pending /\ ~Stopped
        /\ Upcoming <= source.n /\ verdict[Upcoming] \in {"ok", "stop"}
        /\ emitted' = Append(emitted, Upcoming)
        /\ UNCHANGED <<source, verdict, outcome>>

Drained == Len(emitted) = source.n /\ source.end = "ok"

\* The outcomes a serial run could have had from here.  The source runs ahead,
\* so its error or panic may be reported while items are left; an item that
\* panics may do so while earlier ones are being emitted.
Allowed ==
  {o \in {"ok"} : Drained \/ Stopped}
    \cup {o \in {"sourceErr"} : source.end = "err"}
    \cup {o \in {"itemErr"} : /\ ~Stopped /\ Upcoming <= source.n
                              /\ verdict[Upcoming] = "err"}
    \cup {o \in {"panic"} :
            \/ source.end = "panic"
            \/ \E i \in 1..source.n : verdict[i] \in {"panic", "emitPanic"}}

Return == /\ outcome = Pending
          /\ outcome' \in Allowed
          /\ UNCHANGED <<source, verdict, emitted>>

Next == Emit \/ Return

Spec == Init /\ [][Next]_vars

\* The call returns.
Returns == <>(outcome # Pending)
=============================================================================
