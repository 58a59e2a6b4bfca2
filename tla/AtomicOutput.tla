---------------------------- MODULE AtomicOutput ----------------------------
(***************************************************************************)
(* atomic_output.rs and its callers: several runs of the program write the *)
(* same output path, each into a sibling it renames over the destination.  *)
(* A step is one call on the file system; a run may be killed between any  *)
(* two.  The file system is external.                                      *)
(***************************************************************************)
EXTENDS Naturals

CONSTANTS
  Runs,      \* the processes
  Names,     \* the sibling names a run can draw
  Parts,     \* bound: writes a complete output takes
  Earlier,   \* the run that wrote what is there at the start
  Nothing,   \* no directory entry, or no sibling
  Link,      \* an entry that is a symbolic link to the file elsewhere
  Device,    \* an entry that is neither a file nor a directory nor a link
  Dir        \* an entry that is a directory

\* What a file holds: the run that writes it and how much of it is there.
Contents == [by : Runs \cup {Earlier}, parts : 0..Parts]

ASSUME PartsAssumption == Parts \in Nat \ {0}
ASSUME EntriesAssumption ==
  /\ {Nothing, Link, Device, Dir} \cap Contents = {}
  /\ Link \notin {Nothing, Device, Dir}
  /\ Device # Dir /\ Nothing \notin {Device, Dir}
  /\ Nothing \notin Names

VARIABLES
  here,      \* the entry at the path the user gave
  away,      \* the entry a link at that path leads to
  sibling,   \* per name: the file of that name beside the destination
  probes,    \* runs whose write probe is in the directory
  call,      \* per run: the call it makes next, or how it ended
  target,    \* per run: the destination it resolved, "here" or "away"
  mine       \* per run: the name of its sibling, Nothing if it has none

paths      == <<here, away>>
outputVars == <<here, away, sibling, probes, call, target, mine>>

Whole == [by : Runs \cup {Earlier}, parts : {Parts}]
Alive(r) == call[r] \notin {"done", "failed", "killed"}

\* The entry a path names without, and with, following a link.
At(t)   == IF t = "here" THEN here ELSE away
Reached == IF here = Link THEN away ELSE here

OutputInit ==
  /\ away \in [by : {Earlier}, parts : {Parts}] \cup {Nothing, Device, Dir}
  /\ here \in [by : {Earlier}, parts : {Parts}]
                \cup {Nothing, Device, Dir, Link}
  /\ sibling = [n \in Names |-> Nothing]
  /\ probes = {}
  /\ call = [r \in Runs |-> "start"]
  /\ target = [r \in Runs |-> "here"]
  /\ mine = [r \in Runs |-> Nothing]

Goto(r, to) == call' = [call EXCEPT ![r] = to]
KeepsFiles == UNCHANGED <<here, away, sibling, probes>>

-----------------------------------------------------------------------------
(* check_writable; a report is written without it *)

\* A directory is refused; a device, and a link that leads to no device or
\* directory, pass without a probe; the rest is probed for.
CheckWritable(r) ==
  /\ call[r] = "start"
  /\ Goto(r, IF Reached = Dir THEN "failed"
             ELSE IF Reached = Device \/ here = Link THEN "lstat" ELSE "probe")
  /\ KeepsFiles /\ UNCHANGED <<target, mine>>

Unchecked(r) ==
  /\ call[r] = "start"
  /\ Goto(r, "lstat")
  /\ KeepsFiles /\ UNCHANGED <<target, mine>>

\* The directory takes a new file, under a name no other process has.
Probe(r) ==
  /\ call[r] = "probe"
  /\ probes' = probes \cup {r}
  /\ Goto(r, "unprobe")
  /\ UNCHANGED <<paths, sibling, target, mine>>

Unprobe(r) ==
  /\ call[r] = "unprobe"
  /\ probes' = probes \ {r}
  /\ Goto(r, "lstat")
  /\ UNCHANGED <<paths, sibling, target, mine>>

-----------------------------------------------------------------------------
(* create *)

\* symlink_metadata
Lstat(r) ==
  /\ call[r] = "lstat"
  /\ Goto(r, IF here = Link THEN "resolve" ELSE "stat")
  /\ KeepsFiles /\ UNCHANGED <<target, mine>>

\* Mutant: the link is not followed: its own entry is what is replaced.
Resolve_Skipped(r) ==
  /\ call[r] = "resolve"
  /\ Goto(r, "stat")
  /\ KeepsFiles /\ UNCHANGED <<target, mine>>

\* canonicalize; a link that dangles cannot be resolved.
Resolve(r) ==
  /\ call[r] = "resolve"
  /\ IF away = Nothing
     THEN Goto(r, "failed") /\ UNCHANGED target
     ELSE Goto(r, "stat") /\ target' = [target EXCEPT ![r] = "away"]
  /\ KeepsFiles /\ UNCHANGED mine

\* A device is opened and written directly.
Stat(r) ==
  /\ call[r] = "stat"
  /\ Goto(r, IF At(target[r]) = Device THEN "direct" ELSE "create")
  /\ KeepsFiles /\ UNCHANGED <<target, mine>>

\* O_EXCL: a name that exists is not opened, another one is drawn.
CreateSibling(r) ==
  /\ call[r] = "create"
  /\ \E n \in Names :
       /\ sibling[n] = Nothing
       /\ sibling' = [sibling EXCEPT ![n] = [by |-> r, parts |-> 0]]
       /\ mine' = [mine EXCEPT ![r] = n]
  /\ Goto(r, "write")
  /\ UNCHANGED <<paths, probes, target>>

-----------------------------------------------------------------------------
(* The caller: write, close, publish *)

Write(r) ==
  /\ call[r] = "write" /\ sibling[mine[r]].parts < Parts
  /\ sibling' = [sibling EXCEPT ![mine[r]].parts = @ + 1]
  /\ UNCHANGED <<paths, probes, call, target, mine>>

\* The footer is down and the handle closed.
Close(r) ==
  /\ call[r] = "write" /\ sibling[mine[r]].parts = Parts
  /\ Goto(r, "publish")
  /\ KeepsFiles /\ UNCHANGED <<target, mine>>

\* persist: the sibling's name becomes the destination's, in one step.  A
\* rename over a directory fails (see Fails).
Rename(r) ==
  /\ call[r] = "publish" /\ At(target[r]) # Dir
  /\ IF target[r] = "here" THEN here' = sibling[mine[r]] /\ UNCHANGED away
                           ELSE away' = sibling[mine[r]] /\ UNCHANGED here
  /\ sibling' = [sibling EXCEPT ![mine[r]] = Nothing]
  /\ mine' = [mine EXCEPT ![r] = Nothing]
  /\ Goto(r, "renamed")
  /\ UNCHANGED <<probes, target>>

\* The caller is told of success; a device was written to the end.
Return(r) ==
  /\ call[r] \in {"renamed", "direct"}
  /\ Goto(r, "done")
  /\ KeepsFiles /\ UNCHANGED <<target, mine>>

\* Mutant: the sibling of a run that fails is left behind.
Fails_KeepsSibling(r) ==
  /\ call[r] \in {"probe", "resolve", "create", "write", "publish", "direct"}
  /\ mine' = [mine EXCEPT ![r] = Nothing]
  /\ Goto(r, "failed")
  /\ UNCHANGED <<paths, sibling, probes, target>>

\* Mutant: a failure to publish is not reported.
Fails_Unreported(r) ==
  /\ call[r] \in {"probe", "resolve", "create", "write", "publish", "direct"}
  /\ sibling' = [n \in Names |-> IF n = mine[r] THEN Nothing ELSE sibling[n]]
  /\ mine' = [mine EXCEPT ![r] = Nothing]
  /\ Goto(r, IF call[r] = "publish" THEN "done" ELSE "failed")
  /\ UNCHANGED <<paths, probes, target>>

\* A call fails and the run reports it; dropping the pending output removes
\* its sibling.  (That the removal itself fails is not modelled.)
Fails(r) ==
  /\ call[r] \in {"probe", "resolve", "create", "write", "publish", "direct"}
  /\ sibling' = [n \in Names |-> IF n = mine[r] THEN Nothing ELSE sibling[n]]
  /\ mine' = [mine EXCEPT ![r] = Nothing]
  /\ Goto(r, "failed")
  /\ UNCHANGED <<paths, probes, target>>

\* The process is gone; nothing of it runs any more.
Killed(r) ==
  /\ Alive(r)
  /\ Goto(r, "killed")
  /\ KeepsFiles /\ UNCHANGED <<target, mine>>

OutputNext == \E r \in Runs :
  \/ CheckWritable(r) \/ Unchecked(r) \/ Probe(r) \/ Unprobe(r)
  \/ Lstat(r) \/ Resolve(r) \/ Stat(r) \/ CreateSibling(r)
  \/ Write(r) \/ Close(r) \/ Rename(r) \/ Return(r) \/ Fails(r) \/ Killed(r)

OutputSpec == OutputInit /\ [][OutputNext]_outputVars

-----------------------------------------------------------------------------
(* Properties *)

\* Every variable holds a value of its kind, and a run has a sibling exactly
\* from its creation to its publication, failure or death.
OutputTypeOK ==
  /\ here \in Contents \cup {Nothing, Device, Dir, Link}
  /\ away \in Contents \cup {Nothing, Device, Dir}
  /\ sibling \in [Names -> Contents \cup {Nothing}]
  /\ probes \subseteq Runs
  /\ call \in [Runs -> {"start", "probe", "unprobe", "lstat", "resolve", "stat",
                      "create", "write", "publish", "renamed", "direct",
                      "done", "failed", "killed"}]
  /\ target \in [Runs -> {"here", "away"}]
  /\ mine \in [Runs -> Names \cup {Nothing}]
  /\ \A r \in Runs : call[r] \in {"write", "publish"} => mine[r] # Nothing

\* Whatever runs are under way, were killed or failed, the destination holds
\* one run's complete output, or what it held before.
DestinationWhole ==
  \A f \in {here, away} : f \in Contents => f \in Whole

\* Two runs of the same output never write into each other's sibling.
OwnSibling ==
  \A r \in Runs : Alive(r) /\ mine[r] # Nothing => sibling[mine[r]].by = r

\* Only a killed run leaves anything beside the output.
NothingLeftBeside ==
  /\ \A n \in Names : sibling[n] # Nothing =>
       \E r \in Runs : mine[r] = n /\ call[r] \in {"write", "publish", "killed"}
  /\ \A r \in probes : call[r] \in {"unprobe", "killed"}

\* A link at the output path is written through and stays (the opposite of
\* what the PMTiles writers do).
LinkStays == [][here = Link => here' = Link]_outputVars

\* The output path is an atomic register.
Register == INSTANCE OutputRegister WITH
  Others <- Contents \cup {Nothing, Dir},
  read   <- Reached,
  phase  <- [r \in Runs |-> IF call[r] = "renamed" THEN "replaced"
                            ELSE IF Alive(r) THEN "running" ELSE call[r]]

ActsAsRegister == Register!Spec

=============================================================================
