--------------------------- MODULE OutputRegister ---------------------------
(***************************************************************************)
(* What the path of an output promises to whoever reads it while runs of   *)
(* the program write to it: one atomic register.  A run replaces what is   *)
(* read there once and as a whole, and says so only if it did; a run that  *)
(* reports a failure has changed nothing.                                  *)
(***************************************************************************)
CONSTANTS
  Runs,
  Parts,     \* writes a complete output takes
  Device,    \* reading the path leads to a device
  Others     \* what else can be read there before any run: a directory, ...

VARIABLES
  read,      \* what reading the path gives
  phase      \* per run: "running", "replaced", "done", "failed", "killed"

Output(r) == [by |-> r, parts |-> Parts]

Init ==
  /\ read \in Others \cup {Device}
  /\ phase = [r \in Runs |-> "running"]

Replace(r) ==
  /\ phase[r] = "running" /\ read # Device
  /\ read' = Output(r)
  /\ phase' = [phase EXCEPT ![r] = "replaced"]

Report(r) ==
  /\ \/ phase[r] = "replaced"
     \/ phase[r] = "running" /\ read = Device
  /\ phase' = [phase EXCEPT ![r] = "done"]
  /\ UNCHANGED read

Fail(r) ==
  /\ phase[r] = "running"
  /\ phase' = [phase EXCEPT ![r] = "failed"]
  /\ UNCHANGED read

Killed(r) ==
  /\ phase[r] \in {"running", "replaced"}
  /\ phase' = [phase EXCEPT ![r] = "killed"]
  /\ UNCHANGED read

Next == \E r \in Runs : Replace(r) \/ Report(r) \/ Fail(r) \/ Killed(r)

Spec == Init /\ [][Next]_<<read, phase>>

=============================================================================
