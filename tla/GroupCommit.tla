----------------------------- MODULE GroupCommit -----------------------------
(***************************************************************************)
(* overview/export.rs, export_level_group: the levels of a group are       *)
(* collected in order on the calling thread, encoded each in a Rayon task  *)
(* of its own, and written in level order under the GroupCommit lock by    *)
(* whichever task completes the next level.                                *)
(***************************************************************************)
EXTENDS Naturals, Sequences

CONSTANTS
  N,        \* levels in the group, coarsest first
  Last,     \* whether the group's last level is the archive's last
  Panic,    \* the outcome of a panic
  Pending,  \* no outcome yet
  None      \* nobody, nothing

ASSUME SizeAssumption     == N \in Nat \ {0}
ASSUME LastAssumption     == Last \in BOOLEAN
ASSUME SentinelAssumption == /\ {None, Panic, Pending} \cap Nat = {}
                             /\ Panic # Pending

Levels == 1..N

VARIABLES
  fault,     \* input: per level, what goes wrong
  main,      \* calling thread: "check", "collect", "join", "done"
  level,     \* the level it is at
  failed,    \* the level whose collect failed, kept until the scope is over
  task,      \* per level: "none", "encode", "finish", "write", "end", "panic"
  lock,      \* the task holding the commit lock
  next,      \* GroupCommit.next
  pending,   \* GroupCommit.pending: encoded levels waiting for a coarser one
  error,     \* GroupCommit.error: the lowest failed level so far
  reports,   \* GroupCommit.reports
  written,   \* levels written whole, in the order the writer got them
  torn,      \* a level's write stopped half way
  ckpt,      \* levels written when the last checkpoint was taken
  outcome    \* what the group returned or raised

commit == <<next, pending, error, reports>>
writer == <<written, torn, ckpt>>
vars   == <<fault, main, level, failed, task, lock, commit, writer, outcome>>

Serial == INSTANCE SerialLevels

Init ==
  /\ fault \in Serial!Inputs
  /\ main = "check" /\ level = 1 /\ failed = None
  /\ task = [i \in Levels |-> "none"]
  /\ lock = None
  /\ next = 1 /\ pending = {} /\ error = None /\ reports = <<>>
  /\ written = <<>> /\ torn = FALSE /\ ckpt = 0
  /\ outcome = Pending

\* Mutant: the latest failure replaces an earlier one.
Worse_Latest(i) == i

\* GroupCommit::fail keeps the coarsest failure.
Worse(i) == IF error = None THEN i ELSE IF i < error THEN i ELSE error

-----------------------------------------------------------------------------
(* The calling thread *)

\* Under the lock, for as long as the comparison takes: has a level failed?
CheckError ==
  /\ main = "check" /\ lock = None
  /\ main' = IF level > N \/ error # None THEN "join" ELSE "collect"
  /\ UNCHANGED <<fault, level, failed, task, lock, commit, writer, outcome>>

Collect ==
  /\ main = "collect"
  /\ fault[level] \notin {"collect", "collectPanic"}
  /\ task' = [task EXCEPT ![level] = "encode"]
  /\ level' = level + 1
  /\ main' = "check"
  /\ UNCHANGED <<fault, failed, lock, commit, writer, outcome>>

\* `?` leaves the scope's closure with the error in hand, a panic unwinds out
\* of it; either way the scope waits for the spawned tasks.
CollectFails ==
  /\ main = "collect"
  /\ fault[level] \in {"collect", "collectPanic"}
  /\ failed' = level
  /\ main' = "join"
  /\ UNCHANGED <<fault, level, task, lock, commit, writer, outcome>>

Panicked == \/ \E i \in Levels : task[i] = "panic"
            \/ failed # None /\ fault[failed] = "collectPanic"

\* The scope is over: a panic is re-raised, a collect error recorded, and
\* into_reports gives the coarsest failure or the reports.
Return ==
  /\ main = "join"
  /\ \A i \in Levels : task[i] \in {"none", "end", "panic"}
  /\ main' = "done"
  /\ error' = IF failed = None \/ Panicked THEN error ELSE Worse(failed)
  /\ outcome' = IF Panicked THEN Panic
                ELSE IF error' # None THEN error' ELSE Serial!Ok
  /\ UNCHANGED <<fault, level, failed, task, lock, next, pending, reports,
                 writer>>

-----------------------------------------------------------------------------
(* A level's encode task *)

Encode(i) ==
  /\ task[i] = "encode"
  /\ task' = [task EXCEPT ![i] = IF fault[i] = "encodePanic" THEN "panic"
                                                             ELSE "finish"]
  /\ UNCHANGED <<fault, main, level, failed, lock, commit, writer, outcome>>

\* GroupCommit::finish with the lock taken.
Finish(i) ==
  /\ task[i] = "finish" /\ lock = None
  /\ IF fault[i] = "encode"
       THEN /\ error' = Worse(i)
            /\ task' = [task EXCEPT ![i] = "end"]
            /\ UNCHANGED <<lock, pending>>
       ELSE /\ pending' = pending \cup {i}
            /\ task' = [task EXCEPT ![i] = "write"]
            /\ lock' = i
            /\ UNCHANGED error
  /\ UNCHANGED <<fault, main, level, failed, next, reports, writer, outcome>>

\* write_ready's loop goes on while this level can be written.
Ready(j) == j = next /\ j \in pending /\ (error # None => j < error)

\* checkpoint_zoom_after_level: none after the archive's last level.
MayCheckpoint(j) == ~(Last /\ j = N)

\* write_level: the tiles, the report, and a checkpoint when one is due.
WriteReady(i, j) ==
  /\ task[i] = "write" /\ lock = i /\ Ready(j)
  /\ fault[j] \notin {"write", "writePanic", "checkpoint"}
  /\ pending' = pending \ {j}
  /\ written' = Append(written, j)
  /\ ckpt' \in {ckpt} \cup (IF MayCheckpoint(j) THEN {Len(written')} ELSE {})
  /\ reports' = Append(reports, j)
  /\ next' = next + 1
  /\ UNCHANGED <<fault, main, level, failed, task, lock, error, torn, outcome>>

\* The write stops half way, or the checkpoint after it fails.
WriteFails(i, j) ==
  /\ task[i] = "write" /\ lock = i /\ Ready(j)
  /\ \/ fault[j] = "write" /\ torn' = TRUE /\ UNCHANGED written
     \/ fault[j] = "checkpoint" /\ written' = Append(written, j) /\ UNCHANGED torn
  /\ pending' = pending \ {j}
  /\ error' = Worse(j)
  /\ UNCHANGED <<fault, main, level, failed, task, lock, next, reports, ckpt,
                 outcome>>

\* Mutant: the panic leaves the lock held.
WritePanics_KeepsLock(i, j) ==
  /\ task[i] = "write" /\ lock = i /\ Ready(j)
  /\ fault[j] = "writePanic"
  /\ torn' = TRUE
  /\ pending' = pending \ {j}
  /\ task' = [task EXCEPT ![i] = "panic"]
  /\ UNCHANGED <<fault, main, level, failed, lock, next, error, reports,
                 written, ckpt, outcome>>

\* The guard's drop poisons the lock and frees it; lock_commit ignores poison.
WritePanics(i, j) ==
  /\ task[i] = "write" /\ lock = i /\ Ready(j)
  /\ fault[j] = "writePanic"
  /\ torn' = TRUE
  /\ pending' = pending \ {j}
  /\ task' = [task EXCEPT ![i] = "panic"]
  /\ lock' = None
  /\ UNCHANGED <<fault, main, level, failed, next, error, reports, written,
                 ckpt, outcome>>

\* Nothing more is ready: finish returns and the lock is released.
Release(i) ==
  /\ task[i] = "write" /\ lock = i
  /\ \A j \in Levels : ~Ready(j)
  /\ lock' = None
  /\ task' = [task EXCEPT ![i] = "end"]
  /\ UNCHANGED <<fault, main, level, failed, commit, writer, outcome>>

Main    == CheckError \/ Collect \/ CollectFails \/ Return
Task(i) == \/ Encode(i) \/ Finish(i) \/ Release(i)
           \/ \E j \in Levels : WriteReady(i, j) \/ WriteFails(i, j)
                                  \/ WritePanics(i, j)

Next == Main \/ \E i \in Levels : Task(i)

\* The calling thread and the pool's workers are scheduled.  The lock is taken
\* finitely often, so waiting for it needs no more than that.
Fairness == WF_vars(Main) /\ \A i \in Levels : WF_vars(Task(i))

Spec == Init /\ [][Next]_vars /\ Fairness

-----------------------------------------------------------------------------
(* Properties *)

\* Every variable holds a value of its kind.
TypeOK ==
  /\ fault \in Serial!Inputs
  /\ main \in {"check", "collect", "join", "done"}
  /\ level \in 1..(N + 1) /\ failed \in Levels \cup {None}
  /\ task \in [Levels -> {"none", "encode", "finish", "write", "end", "panic"}]
  /\ lock \in Levels \cup {None}
  /\ next \in 1..(N + 1)
  /\ pending \subseteq Levels
  /\ error \in Levels \cup {None}
  /\ reports \in Seq(Levels) /\ written \in Seq(Levels)
  /\ torn \in BOOLEAN /\ ckpt \in 0..N
  /\ outcome \in Levels \cup {Serial!Ok, Panic, Pending}

\* The writer gets the levels in level order, whatever order their tasks end
\* in and whoever panics: a gap or a swap would break the archive's tile-id
\* order.
WrittenInOrder == written = [i \in 1..Len(written) |-> i]

\* A level that stopped half way is the last thing the writer is given, also
\* when the task writing it panicked and left the lock to the others.
NothingAfterTorn == [][torn => written' = written]_vars

\* No level at or past a recorded failure has been written, but for the level
\* whose own checkpoint failed.
NoneAtOrPastError ==
  error # None =>
    Len(written) <= IF fault[error] = "checkpoint" THEN error ELSE error - 1

\* The group does what the serial loop does: the same tiles in the same order,
\* the same error, and "a failed level leaves every coarser level of the group
\* written and, when due, checkpointed".
ActsSerially == Serial!Spec

\* The group returns: no lock is left held, no task is waited for in vain.
Returns == <>(outcome # Pending)

=============================================================================
