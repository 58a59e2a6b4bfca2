---------------------------- MODULE LevelsProofs ----------------------------
(***************************************************************************)
(* Theorems about how the levels of an export are drawn and written.       *)
(*                                                                         *)
(* GroupCommit, for a group of any size and any combination of faults: the *)
(* types, the safety properties, and that a group encoded concurrently     *)
(* implements the serial loop of SerialLevels.  One inductive invariant    *)
(* carries all of them.  Its core (Cursor): the levels behind              *)
(* GroupCommit.next are exactly those written, or the level it stands at   *)
(* has been used up, its write having gone wrong, and then it is never     *)
(* ready again.                                                            *)
(*                                                                         *)
(* VariableDepth, for every set of rows, every ladder of zooms and every   *)
(* limit on a tile's members: each tile of a level is written once, as     *)
(* itself or under one stop, however far the prober has come when the      *)
(* level is drawn, and a stop hides nothing.                               *)
(***************************************************************************)
EXTENDS GroupCommit, VariableDepth, SequenceTheorems, FiniteSetTheorems,
        WellFoundedInduction, TLAPS

-----------------------------------------------------------------------------
(* Levels encoded together and written in order *)

\* A task past its encode: its level is with the writer, waits, or failed.
Past == {"write", "end", "panic"}

AnyPanic == \E i \in Levels : task[i] = "panic"

\* The calling thread has collected the levels below `level`, and no others.
Collected ==
  /\ \A i \in Levels : i >= level => task[i] = "none"
  /\ \A i \in Levels : i < level =>
       task[i] # "none" /\ fault[i] \notin {"collect", "collectPanic"}
  /\ main = "collect" => level \in Levels
  /\ main \in {"check", "collect"} => failed = None
  /\ failed # None => /\ failed = level
                      /\ fault[failed] \in {"collect", "collectPanic"}
  /\ main = "join" /\ failed = None => level > N \/ error # None

\* The outcome is there once the calling thread is through, and by then no
\* task has work left.
Ended ==
  /\ outcome = Pending <=> main # "done"
  /\ main = "done" => \A i \in Levels : task[i] \in {"none", "end", "panic"}

\* The commit lock is held by the one task that writes.  Nobody lets go of it
\* with a level still to be written, but by panicking.
Locked ==
  /\ lock # None => task[lock] = "write"
  /\ \A i \in Levels : task[i] = "write" => lock = i
  /\ lock = None => (\A j \in Levels : ~Ready(j)) \/ AnyPanic

\* What the state of a level and of its task say of its fault.
Explained ==
  /\ AnyPanic => \E i \in Levels : fault[i] \in {"encodePanic", "writePanic"}
  /\ \A i \in Levels : task[i] \in {"finish", "write", "end"} =>
       fault[i] # "encodePanic"
  /\ \A i \in pending : 
       task[i] \in Past /\ fault[i] \notin {"encode", "encodePanic"}
  /\ \A i \in Levels : i < next => task[i] \in Past /\ fault[i] = "none"
  /\ \A i \in Levels : task[i] \in {"write", "end"} =>
       \/ i \in pending \/ i < next \/ AnyPanic
       \/ error # None /\ error <= i

\* The recorded failure is of a level that was reached, and no written level
\* is finer.
Failure ==
  error # None =>
    /\ next <= error
    /\ main # "done" => error < level
    /\ fault[error] \in {"collect", "encode", "write", "checkpoint"}
    /\ fault[error] = "checkpoint" => Len(written) = error

\* The level at the cursor was taken from pending and did not get through.
Spent ==
  /\ next \in Levels \ pending /\ task[next] \in Past
  /\ \/ /\ Len(written) = next
        /\ fault[next] = "checkpoint" /\ error = next
     \/ /\ Len(written) = next - 1
        /\ torn /\ (AnyPanic \/ error = next)

Cursor == \/ Len(written) = next - 1 /\ ~torn
          \/ Spent

\* The part of TypeOK the other conjuncts lean on.
TypeCore ==
  /\ main \in {"check", "collect", "join", "done"}
  /\ level \in 1..(N + 1) /\ failed \in Levels \cup {None}
  /\ task \in [Levels -> {"none", "encode", "finish", "write", "end", "panic"}]
  /\ lock \in Levels \cup {None}
  /\ next \in 1..(N + 1)
  /\ pending \subseteq Levels
  /\ error \in Levels \cup {None}

CommitInv == /\ TypeOK /\ WrittenInOrder
        /\ Collected /\ Ended /\ Locked /\ Explained /\ Failure /\ Cursor

-----------------------------------------------------------------------------
(* Lemmas *)

\* A level is a level, and none of the sentinels.
LEMMA LevelsApart == \A i \in Levels : i \in Nat /\ i # None /\ i # Pending
BY SizeAssumption, SentinelAssumption DEF Levels

\* The writer's record grows by the next level and stays in level order.
LEMMA AppendUpcoming ==
  ASSUME NEW s \in Seq(Levels), s = [i \in 1..Len(s) |-> i],
         NEW k \in Levels, Len(s) = k - 1
  PROVE  /\ Append(s, k) \in Seq(Levels)
         /\ Len(Append(s, k)) = k
         /\ Append(s, k) = [i \in 1..Len(Append(s, k)) |-> i]
<1> DEFINE t == Append(s, k)
<1>1. /\ t \in Seq(Levels) /\ Len(t) = k
      /\ \A i \in 1..Len(s) : t[i] = s[i]
      /\ t[k] = k
  BY AppendProperties DEF Levels
<1>2. \A i \in 1..Len(s) : s[i] = i
  OBVIOUS
<1>3. \A i \in 1..k : t[i] = i
  BY <1>1, <1>2 DEF Levels
<1>4. t = [i \in 1..Len(t) |-> t[i]]
  BY <1>1, LenProperties
<1>5. [i \in 1..Len(t) |-> t[i]] = [i \in 1..Len(t) |-> i]
  BY <1>1, <1>3
<1> QED BY <1>1, <1>4, <1>5

\* Worse keeps the coarser of two failures.
LEMMA WorseIsCoarser ==
  ASSUME error \in Levels \cup {None}, NEW i \in Levels
  PROVE  /\ Worse(i) \in Levels
         /\ Worse(i) = i \/ (error # None /\ Worse(i) = error)
         /\ Worse(i) <= i
         /\ error # None => Worse(i) <= error
BY SizeAssumption, SentinelAssumption DEF Worse, Levels

\* A level that is ready is the one after those written.
LEMMA ReadyIsNext ==
  ASSUME CommitInv, NEW j \in Levels, Ready(j)
  PROVE  /\ j = next /\ Len(written) = j - 1 /\ ~torn
         /\ task[j] \in Past /\ j < level
         /\ fault[j] \in {"none", "write", "writePanic", "checkpoint"}
         /\ error # None => j < error
<1>1. j = next /\ j \in pending /\ (error # None => j < error)
  BY DEF Ready
<1>2. Len(written) = j - 1 /\ ~torn
  BY <1>1 DEF CommitInv, Cursor, Spent
<1>3. task[j] \in Past /\ fault[j] \notin {"encode", "encodePanic"}
  BY <1>1 DEF CommitInv, Explained
<1>4. j < level /\ fault[j] \notin {"collect", "collectPanic"}
  BY <1>3 DEF CommitInv, TypeOK, Collected, Levels, Past
<1>5. fault[j] \in Serial!Faults
  BY DEF CommitInv, TypeOK, Serial!Inputs, Levels
<1> QED BY <1>1, <1>2, <1>3, <1>4, <1>5 DEF Serial!Faults

-----------------------------------------------------------------------------
(* Type correctness and the invariant *)

\* The invariant holds initially.
LEMMA InitCommits == Init => CommitInv
<1> SUFFICES ASSUME Init PROVE CommitInv
  OBVIOUS
<1> USE SizeAssumption, SentinelAssumption DEF Init, Levels
<1>1. TypeOK
  <2>1. <<>> \in Seq(Levels)
    OBVIOUS
  <2>2. task \in [Levels -> {"none", "encode", "finish", "write", "end", "panic"}]
    OBVIOUS
  <2>3. torn \in BOOLEAN
    OBVIOUS
  <2> QED BY <2>1, <2>2, <2>3 DEF TypeOK
<1>0. WrittenInOrder
  BY EmptySeq DEF WrittenInOrder
<1>2. Collected /\ Ended
  BY DEF Collected, Ended
<1>3. Locked /\ Explained
  BY DEF Locked, Explained, Ready, AnyPanic
<1>4. Failure /\ Cursor
  BY DEF Failure, Cursor
<1> QED BY <1>0, <1>1, <1>2, <1>3, <1>4 DEF CommitInv

\* Every step preserves it.
LEMMA StepCommits == CommitInv /\ [Next]_vars => CommitInv'
<1> SUFFICES ASSUME CommitInv, [Next]_vars PROVE CommitInv'
  OBVIOUS
<1> USE SizeAssumption, SentinelAssumption DEF Levels, Past
<1>0. TypeCore /\ written \in Seq(Levels) /\ reports \in Seq(Levels) /\ ckpt \in 0..N
  BY DEF CommitInv, TypeOK, TypeCore
<1>a. next \in Levels /\ task[next] \in Past => next < level
  BY <1>0 DEF CommitInv, Collected, TypeCore
<1>1. CASE CheckError
  <2> USE <1>1 DEF CheckError, commit, writer
  <2>1. TypeCore'
    BY <1>0 DEF TypeCore
  <2>2. TypeOK' /\ WrittenInOrder'
    BY <2>1 DEF CommitInv, TypeOK, TypeCore, WrittenInOrder
  <2>3. Collected'
    BY <1>0 DEF CommitInv, Collected, TypeCore
  <2>4. Ended'
    BY DEF CommitInv, Ended
  <2>5. Locked' /\ Explained'
    BY DEF CommitInv, Locked, Explained, Ready, AnyPanic
  <2>6. Failure' /\ Cursor'
    BY DEF CommitInv, Failure, Cursor, Spent, AnyPanic
  <2> QED BY <2>2, <2>3, <2>4, <2>5, <2>6 DEF CommitInv
<1>2. CASE Collect
  <2> USE <1>2 DEF Collect, commit, writer
  <2>1. TypeCore'
    BY <1>0 DEF TypeCore, CommitInv, Collected
  <2>2. TypeOK' /\ WrittenInOrder'
    BY <2>1 DEF CommitInv, TypeOK, TypeCore, WrittenInOrder
  <2>3. Collected'
    BY <1>0 DEF CommitInv, Collected, TypeCore
  <2>4. Ended'
    BY DEF CommitInv, Ended
  <2>5. Locked'
    BY <1>0 DEF CommitInv, Collected, TypeCore, Locked, Ready, AnyPanic
  <2>6. Explained'
    <3>1. /\ level \in Levels /\ task[level] = "none" /\ task'[level] = "encode"
          /\ \A k \in Levels : k # level => task'[k] = task[k]
      BY <1>0 DEF CommitInv, Collected, TypeCore
    <3>2. AnyPanic' => AnyPanic
      BY <3>1 DEF AnyPanic
    <3>3. AnyPanic => AnyPanic'
      BY <3>1 DEF AnyPanic
    <3> QED BY <1>0, <3>1, <3>2, <3>3 DEF CommitInv, Explained, TypeCore
  <2>7. Failure'
    BY <1>0 DEF CommitInv, Collected, TypeCore, Failure
  <2>8. Cursor'
    BY <1>0 DEF CommitInv, Collected, TypeCore, Cursor, Spent, AnyPanic
  <2> QED BY <2>2, <2>3, <2>4, <2>5, <2>6, <2>7, <2>8 DEF CommitInv
<1>3. CASE CollectFails
  <2> USE <1>3 DEF CollectFails, commit, writer
  <2>1. TypeCore'
    BY <1>0 DEF TypeCore, CommitInv, Collected
  <2>2. TypeOK' /\ WrittenInOrder'
    BY <2>1 DEF CommitInv, TypeOK, TypeCore, WrittenInOrder
  <2>3. Collected'
    BY <1>0 DEF CommitInv, Collected, TypeCore
  <2>4. Ended'
    BY DEF CommitInv, Ended
  <2>5. Locked' /\ Explained'
    BY DEF CommitInv, Locked, Explained, Ready, AnyPanic
  <2>6. Failure' /\ Cursor'
    BY DEF CommitInv, Failure, Cursor, Spent, AnyPanic
  <2> QED BY <2>2, <2>3, <2>4, <2>5, <2>6 DEF CommitInv
<1>4. CASE Return
  <2> USE <1>4 DEF Return, writer
  <2>1. TypeCore'
    BY <1>0, WorseIsCoarser DEF TypeCore
  <2>2. TypeOK' /\ WrittenInOrder'
    BY <2>1 DEF CommitInv, TypeOK, TypeCore, WrittenInOrder
  <2>3. Collected'
    BY <1>0 DEF CommitInv, Collected, TypeCore
  <2>4. Ended'
    <3>1. outcome' \in Levels \cup {Serial!Ok, Panic}
      BY <2>1 DEF TypeCore
    <3>2. outcome' # Pending
      BY <3>1 DEF Serial!Ok
    <3> QED BY <3>2 DEF Ended
  <2>5. Locked' /\ Explained'
    <3>1. /\ task' = task /\ lock' = lock /\ next' = next /\ pending' = pending
          /\ fault' = fault
          /\ error # None => error' # None /\ error' <= error
      BY <1>0, WorseIsCoarser DEF TypeCore
    <3>2. \A k \in Levels : error # None /\ error <= k => error' # None /\ error' <= k
      BY <1>0, <2>1, <3>1, LevelsApart DEF TypeCore
    <3>3. AnyPanic' <=> AnyPanic
      BY <3>1 DEF AnyPanic
    <3>4. \A j \in Levels : Ready(j)' => Ready(j)
      BY <1>0, <2>1, <3>1, LevelsApart DEF TypeCore, Ready
    <3>5. Locked'
      BY <3>1, <3>3, <3>4 DEF CommitInv, Locked
    <3>6. Explained'
      BY <1>0, <3>1, <3>2, <3>3 DEF CommitInv, Explained, TypeCore
    <3> QED BY <3>5, <3>6
  <2>6. Failure'
    <3>1. CASE error' = error
      BY <1>0, <3>1 DEF CommitInv, Failure
    <3>2. CASE error' # error
      <4>1. failed \in Levels /\ error' = failed /\ fault[failed] = "collect"
        BY <1>0, <3>2, WorseIsCoarser DEF TypeCore, CommitInv, Collected, Panicked
      <4>2. ASSUME NEW i \in Levels, i < next
            PROVE  i < failed
        <5>1. task[i] \in Past
          BY <4>2 DEF CommitInv, Explained
        <5>2. failed = level /\ i < level
          BY <1>0, <4>1, <5>1 DEF CommitInv, Collected, TypeCore
        <5> QED BY <5>2
      <4>3. next <= failed
        BY <1>0, <4>1, <4>2 DEF TypeCore
      <4> QED BY <4>1, <4>3 DEF Failure
    <3> QED BY <3>1, <3>2
  <2>7. Cursor'
    <3>1. ASSUME next \in Levels, task[next] \in Past, error = next
          PROVE  error' = error
      <4>1. next < level
        BY <1>a, <3>1
      <4>2. failed # None => failed = level
        BY DEF CommitInv, Collected
      <4>3. failed # None => Worse(failed) = error
        BY <1>0, <3>1, <4>1, <4>2, LevelsApart DEF Worse, TypeCore
      <4>4. error' = error \/ (failed # None /\ error' = Worse(failed))
        OBVIOUS
      <4> QED BY <4>3, <4>4
    <3> QED BY <3>1 DEF CommitInv, Cursor, Spent, AnyPanic
  <2> QED BY <2>2, <2>3, <2>4, <2>5, <2>6, <2>7 DEF CommitInv
<1>5. ASSUME NEW i \in Levels, Encode(i)
      PROVE  CommitInv'
  <2> USE <1>5 DEF Encode, commit, writer
  <2>1. TypeCore'
    BY <1>0 DEF TypeCore
  <2>2. TypeOK' /\ WrittenInOrder'
    BY <2>1 DEF CommitInv, TypeOK, TypeCore, WrittenInOrder
  <2>3. Collected'
    BY <1>0 DEF CommitInv, Collected, TypeCore
  <2>4. Ended'
    BY <1>0 DEF CommitInv, Ended, TypeCore
  <2>5. Locked'
    BY <1>0 DEF CommitInv, TypeCore, Locked, Ready, AnyPanic
  <2>6. Explained'
    BY <1>0 DEF CommitInv, TypeCore, Explained, AnyPanic
  <2>7. Failure' /\ Cursor'
    BY <1>0 DEF CommitInv, TypeCore, Failure, Cursor, Spent, AnyPanic
  <2> QED BY <2>2, <2>3, <2>4, <2>5, <2>6, <2>7 DEF CommitInv
<1>6. ASSUME NEW i \in Levels, Finish(i)
      PROVE  CommitInv'
  <2> USE <1>6 DEF Finish, writer
  <2>1. TypeCore'
    BY <1>0, WorseIsCoarser DEF TypeCore
  <2>2. TypeOK' /\ WrittenInOrder'
    BY <2>1 DEF CommitInv, TypeOK, TypeCore, WrittenInOrder
  <2>3. Collected'
    <3>1. error' # None \/ error' = error
      BY <1>0, WorseIsCoarser DEF TypeCore
    <3> QED BY <1>0, <3>1 DEF CommitInv, Collected, TypeCore
  <2>4. Ended'
    BY <1>0 DEF CommitInv, Ended, TypeCore
  <2>a. /\ i < level /\ next <= i /\ ~(Spent /\ next = i)
        /\ error # None => next <= error
    <3>1. i < level
      BY <1>0 DEF CommitInv, Collected, TypeCore
    <3>2. ~(i < next) /\ ~(Spent /\ next = i)
      BY DEF CommitInv, Explained, Spent
    <3> QED BY <1>0, <3>1, <3>2 DEF TypeCore, CommitInv, Failure
  <2>5. CASE fault[i] = "encode"
    <3>1. /\ task' = [task EXCEPT ![i] = "end"] /\ error' = Worse(i)
          /\ lock' = None /\ pending' = pending
      BY <2>5
    <3>2. /\ error' \in Levels /\ error' <= i
          /\ error' = i \/ error' = error
          /\ error # None => error' <= error
      BY <1>0, <3>1, WorseIsCoarser DEF TypeCore
    <3>3. AnyPanic' <=> AnyPanic
      BY <1>0, <3>1 DEF AnyPanic, TypeCore
    <3>4. Locked'
      BY <1>0, <3>1, <3>2, <3>3 DEF CommitInv, TypeCore, Locked, Ready
    <3>5. Explained'
      BY <1>0, <2>5, <3>1, <3>2, <3>3 DEF CommitInv, TypeCore, Explained
    <3>6. Failure'
      BY <1>0, <2>5, <2>a, <3>1, <3>2 DEF CommitInv, TypeCore, Failure, Ended
    <3>7. Cursor'
      <4>1. next' = next /\ written' = written /\ torn' = torn
        OBVIOUS
      <4>2. CASE Len(written) = next - 1 /\ ~torn
        BY <4>1, <4>2 DEF Cursor
      <4>3. CASE Spent
        <5>1. next # i /\ (error = next => error' = next)
          BY <1>0, <2>a, <3>2, <4>3, LevelsApart DEF TypeCore
        <5> QED BY <1>0, <3>1, <3>3, <4>1, <4>3, <5>1 DEF TypeCore, Cursor, Spent
      <4> QED BY <4>2, <4>3 DEF CommitInv, Cursor
    <3> QED BY <2>2, <2>3, <2>4, <3>4, <3>5, <3>6, <3>7 DEF CommitInv
  <2>6. CASE fault[i] # "encode"
    <3>1. /\ task' = [task EXCEPT ![i] = "write"] /\ error' = error
          /\ lock' = i /\ pending' = pending \cup {i}
      BY <2>6
    <3>3. AnyPanic' <=> AnyPanic
      BY <1>0, <3>1 DEF AnyPanic, TypeCore
    <3>4. Locked'
      BY <1>0, <3>1, <3>3, LevelsApart DEF CommitInv, TypeCore, Locked
    <3>5. Explained'
      BY <1>0, <2>6, <3>1, <3>3 DEF CommitInv, TypeCore, Explained
    <3>6. Failure'
      BY <3>1 DEF CommitInv, Failure
    <3>7. Cursor'
      BY <1>0, <2>a, <3>1, <3>3 DEF CommitInv, TypeCore, Cursor, Spent
    <3> QED BY <2>2, <2>3, <2>4, <3>4, <3>5, <3>6, <3>7 DEF CommitInv
  <2> QED BY <2>5, <2>6
<1>7. ASSUME NEW i \in Levels, Release(i)
      PROVE  CommitInv'
  <2> USE <1>7 DEF Release, commit, writer
  <2>1. TypeCore'
    BY <1>0 DEF TypeCore
  <2>2. TypeOK' /\ WrittenInOrder'
    BY <2>1 DEF CommitInv, TypeOK, TypeCore, WrittenInOrder
  <2>3. Collected'
    BY <1>0 DEF CommitInv, Collected, TypeCore
  <2>4. Ended'
    BY <1>0 DEF CommitInv, Ended, TypeCore
  <2>5. Locked'
    BY <1>0 DEF CommitInv, TypeCore, Locked, Ready, AnyPanic
  <2>6. Explained'
    BY <1>0 DEF CommitInv, TypeCore, Explained, AnyPanic
  <2>7. Failure' /\ Cursor'
    BY <1>0 DEF CommitInv, TypeCore, Failure, Cursor, Spent, AnyPanic
  <2> QED BY <2>2, <2>3, <2>4, <2>5, <2>6, <2>7 DEF CommitInv
<1>8. ASSUME NEW i \in Levels, NEW j \in Levels, WriteReady(i, j)
      PROVE  CommitInv'
  <2> USE <1>8 DEF WriteReady
  <2>a. /\ j = next /\ Len(written) = j - 1 /\ ~torn
        /\ task[j] \in Past /\ fault[j] = "none" /\ j < level
        /\ error # None => j < error
    BY ReadyIsNext
  <2>b. /\ written' \in Seq(Levels) /\ Len(written') = j
        /\ written' = [k \in 1..Len(written') |-> k]
    BY <1>0, <2>a, AppendUpcoming DEF CommitInv, WrittenInOrder
  <2>1. TypeCore'
    BY <1>0, <2>a DEF TypeCore
  <2>2. TypeOK' /\ WrittenInOrder'
    <3>1. reports' \in Seq(Levels)
      BY <1>0, AppendProperties
    <3>2. ckpt' \in 0..N
      BY <1>0, <2>b
    <3> QED BY <2>1, <2>b, <3>1, <3>2 DEF CommitInv, TypeOK, TypeCore, WrittenInOrder
  <2>3. Collected'
    BY <1>0 DEF CommitInv, Collected, TypeCore
  <2>4. Ended'
    BY <1>0 DEF CommitInv, Ended, TypeCore
  <2>5. Locked'
    BY <1>0 DEF CommitInv, TypeCore, Locked, Ready, AnyPanic
  <2>6. Explained'
    BY <1>0, <2>a DEF CommitInv, TypeCore, Explained, AnyPanic
  <2>7. Failure' /\ Cursor'
    BY <1>0, <2>a, <2>b DEF CommitInv, TypeCore, Failure, Cursor
  <2> QED BY <2>2, <2>3, <2>4, <2>5, <2>6, <2>7 DEF CommitInv
<1>9. ASSUME NEW i \in Levels, NEW j \in Levels, WriteFails(i, j)
      PROVE  CommitInv'
  <2> USE <1>9 DEF WriteFails
  <2>a. /\ j = next /\ Len(written) = j - 1 /\ ~torn
        /\ task[j] \in Past /\ j < level
        /\ error # None => j < error
    BY ReadyIsNext
  <2>b. error' = j
    BY <2>a DEF Worse
  <2>c. /\ written' \in Seq(Levels)
        /\ Len(written') = IF fault[j] = "checkpoint" THEN j ELSE j - 1
        /\ written' = [k \in 1..Len(written') |-> k]
    <3>1. CASE fault[j] = "write"
      BY <1>0, <2>a, <3>1 DEF CommitInv, WrittenInOrder
    <3>2. CASE fault[j] = "checkpoint"
      <4>1. written' = Append(written, j)
        BY <3>2
      <4>2. written = [k \in 1..Len(written) |-> k]
        BY DEF CommitInv, WrittenInOrder
      <4> QED BY <1>0, <2>a, <3>2, <4>1, <4>2, AppendUpcoming
    <3> QED BY <3>1, <3>2
  <2>1. TypeCore'
    BY <1>0, <2>b DEF TypeCore
  <2>2. TypeOK' /\ WrittenInOrder'
    BY <2>1, <2>c DEF CommitInv, TypeOK, TypeCore, WrittenInOrder
  <2>3. Collected'
    <3>1. error' # None
      BY <2>b, LevelsApart
    <3> QED BY <1>0, <3>1 DEF CommitInv, Collected, TypeCore
  <2>4. Ended'
    BY <1>0 DEF CommitInv, Ended, TypeCore
  <2>5. Locked'
    BY <1>0 DEF CommitInv, TypeCore, Locked, Ready, AnyPanic
  <2>6. Explained'
    <3>1. /\ task' = task /\ next' = next /\ fault' = fault
          /\ pending' = pending \ {j}
          /\ error' = j /\ (error # None => j < error)
      BY <2>a, <2>b
    <3>2. AnyPanic' <=> AnyPanic
      BY DEF AnyPanic
    <3>3. \A k \in Levels : k = j \/ (error # None /\ error <= k)
                              => error' # None /\ error' <= k
      BY <1>0, <3>1, LevelsApart DEF TypeCore
    <3> QED BY <1>0, <3>1, <3>2, <3>3 DEF CommitInv, TypeCore, Explained
  <2>7. Failure' /\ Cursor'
    BY <1>0, <2>a, <2>b, <2>c DEF CommitInv, TypeCore, Failure, Cursor, Spent
  <2> QED BY <2>2, <2>3, <2>4, <2>5, <2>6, <2>7 DEF CommitInv
<1>10. ASSUME NEW i \in Levels, NEW j \in Levels, WritePanics(i, j)
       PROVE  CommitInv'
  <2> USE <1>10 DEF WritePanics
  <2>a. /\ j = next /\ Len(written) = j - 1 /\ ~torn
        /\ task[j] \in Past
    BY ReadyIsNext
  <2>1. TypeCore'
    BY <1>0 DEF TypeCore
  <2>2. TypeOK' /\ WrittenInOrder'
    BY <2>1 DEF CommitInv, TypeOK, TypeCore, WrittenInOrder
  <2>3. Collected'
    BY <1>0 DEF CommitInv, Collected, TypeCore
  <2>4. Ended'
    BY <1>0 DEF CommitInv, Ended, TypeCore
  <2>b. AnyPanic'
    BY <1>0 DEF AnyPanic, TypeCore
  <2>5. Locked'
    BY <1>0, <2>b DEF CommitInv, TypeCore, Locked
  <2>6. Explained'
    BY <1>0, <2>a, <2>b DEF CommitInv, TypeCore, Explained
  <2>7. Failure' /\ Cursor'
    BY <1>0, <2>a, <2>b DEF CommitInv, TypeCore, Failure, Cursor, Spent
  <2> QED BY <2>2, <2>3, <2>4, <2>5, <2>6, <2>7 DEF CommitInv
<1>11. CASE UNCHANGED vars
  <2> USE <1>11 DEF vars, commit, writer
  <2>1. TypeOK' /\ WrittenInOrder'
    BY DEF CommitInv, TypeOK, WrittenInOrder
  <2>2. Collected' /\ Ended'
    BY DEF CommitInv, Collected, Ended
  <2>3. Locked' /\ Explained'
    BY DEF CommitInv, Locked, Explained, Ready, AnyPanic
  <2>4. Failure' /\ Cursor'
    BY DEF CommitInv, Failure, Cursor, Spent, AnyPanic
  <2> QED BY <2>1, <2>2, <2>3, <2>4 DEF CommitInv
<1> QED
  BY <1>1, <1>2, <1>3, <1>4, <1>5, <1>6, <1>7, <1>8, <1>9, <1>10, <1>11
     DEF Next, Main, Task

-----------------------------------------------------------------------------
(* Theorems *)

LEMMA CommitInductive == Spec => []CommitInv
BY InitCommits, StepCommits, PTL DEF Spec

\* Every variable keeps its kind (the states of export_level_group, its tasks
\* and GroupCommit).
THEOREM GroupTyped == Spec => []TypeOK
<1>1. CommitInv => TypeOK
  BY DEF CommitInv
<1> QED BY <1>1, CommitInductive, PTL

\* write_ready hands the writer the levels in level order, for any number of
\* levels, any order of completion and any faults.
THEOREM InLevelOrder == Spec => []WrittenInOrder
<1>1. CommitInv => WrittenInOrder
  BY DEF CommitInv
<1> QED BY <1>1, CommitInductive, PTL

\* Whatever fails, no level at or past the recorded failure is in the archive
\* (GroupCommit::fail against write_ready), but for the one whose checkpoint
\* failed.
THEOREM NothingPastError == Spec => []NoneAtOrPastError
<1>1. CommitInv => NoneAtOrPastError
  <2> SUFFICES ASSUME CommitInv, error # None
               PROVE  Len(written) <= IF fault[error] = "checkpoint" THEN error
                                                                     ELSE error - 1
    BY DEF NoneAtOrPastError
  <2>1. /\ error \in Nat /\ next \in Nat /\ Len(written) \in Nat /\ next <= error
    BY LevelsApart, SizeAssumption DEF CommitInv, TypeOK, Failure
  <2>2. CASE Len(written) = next - 1
    BY <2>1, <2>2
  <2>3. CASE Len(written) = next /\ fault[next] = "checkpoint" /\ error = next
    BY <2>1, <2>3
  <2> QED BY <2>2, <2>3 DEF CommitInv, Cursor, Spent
<1> QED BY <1>1, CommitInductive, PTL

\* A level torn by a failure or a panic is the last thing the writer gets,
\* although lock_commit lets the other tasks on after a poisoned lock.
THEOREM NothingFollowsTorn == Spec => NothingAfterTorn
<1>1. CommitInv /\ [Next]_vars => [torn => written' = written]_vars
  <2> SUFFICES ASSUME CommitInv, Next, torn
               PROVE  written' = written
    OBVIOUS
  <2>1. \A j \in Levels : ~Ready(j)
    BY ReadyIsNext
  <2>2. CASE Main
    BY <2>2 DEF Main, CheckError, Collect, CollectFails, Return, writer
  <2>3. ASSUME NEW i \in Levels, Encode(i) \/ Finish(i) \/ Release(i)
        PROVE  written' = written
    BY <2>3 DEF Encode, Finish, Release, writer
  <2>4. ASSUME NEW i \in Levels, NEW j \in Levels,
               WriteReady(i, j) \/ WriteFails(i, j) \/ WritePanics(i, j)
        PROVE  Ready(j)
    BY <2>4 DEF WriteReady, WriteFails, WritePanics
  <2> QED BY <2>1, <2>2, <2>3, <2>4 DEF Next, Task
<1> QED BY <1>1, CommitInductive, PTL DEF Spec, NothingAfterTorn

-----------------------------------------------------------------------------
(* The group implements the serial loop *)

\* When the call returns without a panic and reports no error, every level has
\* been written and nothing was wrong with any.
LEMMA SuccessIsComplete ==
  ASSUME CommitInv, Return, ~Panicked, error' = None
  PROVE  Len(written) = N /\ \A i \in Levels : fault[i] = "none"
<1> USE LevelsApart, SizeAssumption
<1>1. error = None /\ failed = None
  BY DEF Return, Worse, CommitInv, TypeOK
<1>2. \A i \in Levels : task[i] = "end"
  <2>1. level > N /\ level \in Nat
    BY <1>1 DEF Return, CommitInv, TypeOK, Collected
  <2> QED BY <2>1 DEF Return, Panicked, CommitInv, Collected, Levels
<1>3. ~AnyPanic /\ lock = None
  BY <1>2 DEF AnyPanic, CommitInv, Locked, TypeOK
<1>4. \A j \in Levels : j # next \/ j \notin pending
  BY <1>1, <1>3 DEF CommitInv, Locked, Ready
<1>5. next = N + 1
  <2> SUFFICES ASSUME next \in Levels PROVE FALSE
    BY DEF CommitInv, TypeOK, Levels
  <2> QED BY <1>1, <1>2, <1>3, <1>4 DEF CommitInv, Explained
<1>6. \A i \in Levels : fault[i] = "none"
  BY <1>5 DEF CommitInv, Explained, Levels
<1>7. Len(written) = N
  BY <1>5 DEF CommitInv, Cursor, Spent, Levels
<1> QED BY <1>6, <1>7

\* When it returns without a panic and reports an error, that is the coarsest
\* faulty level, and every coarser one has been written.
LEMMA ErrorIsCulprit ==
  ASSUME CommitInv, Return, ~Panicked, error' # None
  PROVE  /\ error' \in Levels /\ fault[error'] \notin Serial!Panics \cup {"none"}
         /\ \A i \in 1..(error' - 1) : fault[i] = "none"
         /\ Len(written) = IF fault[error'] = "checkpoint" THEN error'
                                                           ELSE error' - 1
<1> USE LevelsApart, SizeAssumption
<1> DEFINE e == error'
<1>1. /\ e \in Levels
      /\ e = error \/ (e = failed /\ failed # None)
      /\ error # None => e <= error
  BY WorseIsCoarser DEF Return, CommitInv, TypeOK
<1>2. ~AnyPanic /\ lock = None
  BY DEF Return, Panicked, AnyPanic, CommitInv, Locked, TypeOK
<1>3. fault[e] \in {"collect", "encode", "write", "checkpoint"}
  BY <1>1 DEF Return, Panicked, CommitInv, Failure, Collected
<1>4. \A i \in Levels : i < e => i < level
  BY <1>1 DEF Return, CommitInv, Failure, Collected, TypeOK
<1>5. \A i \in Levels : i < e => task[i] = "end"
  BY <1>4 DEF Return, Panicked, CommitInv, Collected
<1>6. next = e
  <2>1. ~(e < next)
    BY <1>1, <1>3 DEF CommitInv, Explained, TypeOK
  <2>2. ASSUME next < e PROVE FALSE
    <3>1. next \in Levels /\ task[next] = "end"
      BY <1>1, <1>5, <2>2 DEF CommitInv, TypeOK, Levels
    <3>2. ~(error # None /\ error <= next)
      BY <1>1, <2>2, <3>1 DEF CommitInv, TypeOK
    <3>3. next \in pending
      BY <1>2, <3>1, <3>2 DEF CommitInv, Explained, TypeOK
    <3>4. Ready(next)
      BY <1>1, <3>1, <3>2, <3>3 DEF Ready, CommitInv, TypeOK
    <3> QED BY <1>2, <3>1, <3>4 DEF CommitInv, Locked
  <2> QED BY <1>1, <2>1, <2>2 DEF CommitInv, TypeOK
<1>7. \A i \in 1..(e - 1) : fault[i] = "none"
  <2>1. \A m \in Levels : \A i \in 1..(m - 1) : i \in Levels /\ i < m
    BY DEF Levels
  <2>2. \A i \in 1..(e - 1) : i \in Levels /\ i < next
    BY <1>1, <1>6, <2>1
  <2> QED BY <2>2 DEF CommitInv, Explained
<1>8. Len(written) = IF fault[e] = "checkpoint" THEN e ELSE e - 1
  <2>1. CASE fault[e] = "checkpoint"
    <3>1. e = error
      BY <1>1, <2>1 DEF CommitInv, Collected
    <3> QED BY <2>1, <3>1 DEF CommitInv, Failure
  <2>2. CASE fault[e] # "checkpoint"
    BY <1>6, <2>2 DEF CommitInv, Cursor, Spent
  <2> QED BY <2>1, <2>2
<1> QED BY <1>1, <1>3, <1>7, <1>8 DEF Serial!Panics

\* There is one first faulty level.
LEMMA FirstIsUnique ==
  ASSUME NEW i \in 1..N, fault[i] # "none", \A k \in 1..(i - 1) : fault[k] = "none",
         NEW j \in 1..N, fault[j] # "none", \A k \in 1..(j - 1) : fault[k] = "none"
  PROVE  i = j
<1>1. ~(i < j) /\ ~(j < i)
  BY SizeAssumption
<1> QED BY <1>1, SizeAssumption

\* A return of the group is a return of the serial loop.
LEMMA ReturnIsSerial == CommitInv /\ Return => Serial!Return
<1> SUFFICES ASSUME CommitInv, Return PROVE Serial!Return
  OBVIOUS
<1> USE LevelsApart, SizeAssumption
<1>1. outcome = Pending /\ UNCHANGED <<fault, written, ckpt>>
  BY DEF Return, writer, CommitInv, Ended
<1>2. CASE Panicked
  <2>1. outcome' = Panic
    BY <1>2 DEF Return
  <2>2. \E i \in Levels : fault[i] \in Serial!Panics
    BY <1>2 DEF Panicked, AnyPanic, CommitInv, Explained, Collected, TypeOK, Serial!Panics
  <2> QED BY <1>1, <2>1, <2>2 DEF Serial!Return, Levels
<1>3. CASE ~Panicked /\ error' = None
  <2>1. outcome' = Serial!Ok
    BY <1>3 DEF Return
  <2> QED BY <1>1, <1>3, <2>1, SuccessIsComplete DEF Serial!Return, Levels
<1>4. CASE ~Panicked /\ error' # None
  <2>1. outcome' = error'
    BY <1>4 DEF Return
  <2>2. Serial!Culprit = error'
    <3> DEFINE C(i) == /\ i \in 1..N /\ fault[i] # "none"
                       /\ \A k \in 1..(i - 1) : fault[k] = "none"
    <3>1. C(error')
      BY <1>4, ErrorIsCulprit DEF Levels
    <3>2. ASSUME NEW i \in 1..N, C(i)
          PROVE  i = error'
      <4>1. error' \in 1..N
        BY <3>1
      <4> QED BY <3>1, <3>2, <4>1, FirstIsUnique
    <3> QED BY <3>1, <3>2 DEF Serial!Culprit
  <2>3. /\ fault[error'] \notin Serial!Panics /\ fault[error'] # "none"
        /\ error' \in 1..N
        /\ Len(written) = IF fault[error'] = "checkpoint" THEN error' ELSE error' - 1
    BY <1>4, ErrorIsCulprit DEF Levels
  <2> QED BY <1>1, <2>1, <2>2, <2>3 DEF Serial!Return
<1> QED BY <1>2, <1>3, <1>4

\* A level handed to the writer whole is a step of the serial loop.
LEMMA WriteIsSerial ==
  ASSUME CommitInv, NEW i \in Levels, NEW j \in Levels, Ready(j), task[i] = "write",
         fault[j] \in {"none", "checkpoint"},
         written' = Append(written, j), UNCHANGED <<fault, outcome>>,
         \/ ckpt' = ckpt
         \/ fault[j] = "none" /\ MayCheckpoint(j) /\ ckpt' = Len(written')
  PROVE  Serial!Write
<1>1. j = next /\ Len(written) = j - 1
  BY ReadyIsNext
<1>2. Serial!Upcoming = j /\ Len(written') = j
  BY <1>1, LevelsApart, AppendProperties DEF Serial!Upcoming, CommitInv, TypeOK
<1>3. outcome = Pending
  BY DEF CommitInv, Ended, TypeOK
<1>4. \A k \in 1..Len(written) : fault[k] = "none"
  BY <1>1, SizeAssumption DEF CommitInv, Explained, Levels
<1>5. j <= N /\ (MayCheckpoint(j) => (Last => j < N))
  BY SizeAssumption DEF Levels, MayCheckpoint
<1> QED BY <1>2, <1>3, <1>4, <1>5 DEF Serial!Write

\* The levels of a group, encoded concurrently, reach the archive and the
\* caller as the serial loop would have them: same tiles in the same order,
\* same error, same checkpoints to choose from.
THEOREM SerialOrder == Spec => ActsSerially
<1>1. Init => Serial!Init
  BY DEF Init, Serial!Init, Serial!Inputs
<1>2. CommitInv /\ [Next]_vars => [Serial!Next]_(Serial!vars)
  <2> SUFFICES ASSUME CommitInv, [Next]_vars
               PROVE  Serial!Next \/ UNCHANGED Serial!vars
    OBVIOUS
  <2> USE DEF Serial!vars, Serial!Next
  <2>1. CASE CheckError \/ Collect \/ CollectFails
    BY <2>1 DEF CheckError, Collect, CollectFails, writer
  <2>2. CASE Return
    BY <2>2, ReturnIsSerial
  <2>3. ASSUME NEW i \in Levels, Encode(i) \/ Finish(i) \/ Release(i)
        PROVE  UNCHANGED Serial!vars
    BY <2>3 DEF Encode, Finish, Release, writer
  <2>4. ASSUME NEW i \in Levels, NEW j \in Levels, WriteReady(i, j)
        PROVE  Serial!Write
    <3>1. fault[j] = "none" /\ task[i] = "write" /\ Ready(j)
      BY <2>4, ReadyIsNext DEF WriteReady
    <3>2. /\ written' = Append(written, j) /\ UNCHANGED <<fault, outcome>>
          /\ ckpt' = ckpt \/ (MayCheckpoint(j) /\ ckpt' = Len(written'))
      BY <2>4 DEF WriteReady
    <3> QED BY <3>1, <3>2, WriteIsSerial
  <2>5. ASSUME NEW i \in Levels, NEW j \in Levels, WriteFails(i, j)
        PROVE  Serial!Write \/ UNCHANGED Serial!vars
    <3>1. /\ task[i] = "write" /\ Ready(j) /\ UNCHANGED <<fault, outcome, ckpt>>
          /\ \/ UNCHANGED written
             \/ fault[j] = "checkpoint" /\ written' = Append(written, j)
      BY <2>5 DEF WriteFails
    <3> QED BY <3>1, WriteIsSerial
  <2>6. ASSUME NEW i \in Levels, NEW j \in Levels, WritePanics(i, j)
        PROVE  UNCHANGED Serial!vars
    BY <2>6 DEF WritePanics
  <2>7. CASE UNCHANGED vars
    BY <2>7 DEF vars, writer
  <2> QED
    BY <2>1, <2>2, <2>3, <2>4, <2>5, <2>6, <2>7 DEF Next, Main, Task
<1> QED BY <1>1, <1>2, CommitInductive, PTL DEF Spec, ActsSerially, Serial!Spec


-----------------------------------------------------------------------------
\* A set of naturals that is not empty has a least member.
LEMMA Smallest ==
  ASSUME NEW S \in SUBSET Nat, S # {}
  PROVE  \E x \in S : \A y \in S : x <= y
<1>1. PICK x \in S : \A y \in S : <<y, x>> \notin OpToRel(<, Nat)
  BY NatLessThanWellFounded, WFMin
<1>2. \A y \in S : ~(y < x)
  BY <1>1 DEF OpToRel
<1>3. \A y \in S : x <= y
  BY <1>2
<1> QED  BY <1>3

-----------------------------------------------------------------------------
(* Powers of two *)

\* A power of two is the number of subsets of an interval.
LEMMA Subsets ==
  ASSUME NEW n \in Nat
  PROVE  /\ IsFiniteSet(SUBSET (1..n)) /\ Cardinality(SUBSET (1..n)) = 2^n
         /\ 2^n \in Nat \ {0}
<1>1. IsFiniteSet(1..n) /\ Cardinality(1..n) = n
  BY FS_Interval
<1>2. IsFiniteSet(SUBSET (1..n)) /\ Cardinality(SUBSET (1..n)) = 2^n
  BY <1>1, FS_SUBSET
<1>3. Cardinality(SUBSET (1..n)) \in Nat \ {0}
  BY <1>2, FS_CardinalityType, FS_EmptySet
<1> QED  BY <1>2, <1>3

LEMMA PowerNext ==
  ASSUME NEW n \in Nat
  PROVE  2^(n + 1) = 2 * 2^n
<1> DEFINE A == SUBSET (1..n)
           B == {s \cup {n + 1} : s \in A}
           f == [s \in A |-> s \cup {n + 1}]
<1>1. SUBSET (1..(n + 1)) = A \cup B
  <2>1. 1..(n + 1) = (1..n) \cup {n + 1} /\ n + 1 \notin 1..n
    OBVIOUS
  <2>2. ASSUME NEW s \in SUBSET (1..(n + 1))  PROVE s \in A \cup B
    <3>1. s \ {n + 1} \in A
      BY <2>1
    <3>2. CASE n + 1 \in s
      <4>1. s = (s \ {n + 1}) \cup {n + 1}
        BY <3>2
      <4> QED  BY <3>1, <4>1
    <3>3. CASE n + 1 \notin s
      BY <2>1, <3>3
    <3> QED  BY <3>2, <3>3
  <2>3. A \cup B \subseteq SUBSET (1..(n + 1))
    BY <2>1
  <2> QED  BY <2>2, <2>3
<1>2. n + 1 \notin 1..n
  OBVIOUS
<1>3. A \cap B = {}
  BY <1>2
<1>4. f \in Bijection(A, B)
  <2>1. f \in [A -> B] /\ \A t \in B : \E s \in A : f[s] = t
    OBVIOUS
  <2>2. ASSUME NEW s \in A, NEW t \in A, f[s] = f[t]  PROVE s = t
    <3>1. s \cup {n + 1} = t \cup {n + 1}
      BY <2>2
    <3>2. n + 1 \notin s /\ n + 1 \notin t
      BY <1>2
    <3> QED  BY <3>1, <3>2
  <2> HIDE DEF f, A, B
  <2> QED  BY <2>1, <2>2 DEF Bijection, Injection, Surjection, IsInjective
<1>5. IsFiniteSet(A) /\ Cardinality(A) = 2^n /\ 2^n \in Nat
  BY Subsets
<1>6. Cardinality(SUBSET (1..(n + 1))) = 2^(n + 1)
  BY Subsets
<1> HIDE DEF A, B, f
<1>7. IsFiniteSet(B) /\ Cardinality(B) = Cardinality(A)
  BY <1>4, <1>5, FS_Bijection DEF ExistsBijection
<1>8. Cardinality(A \cup B) = Cardinality(A) + Cardinality(B) - Cardinality(A \cap B)
  BY <1>5, <1>7, FS_Union
<1>9. Cardinality(A \cap B) = 0
  BY <1>3, FS_EmptySet
<1>10. 2^(n + 1) = 2^n + 2^n - 0
  BY <1>1, <1>5, <1>6, <1>7, <1>8, <1>9, Zenon
<1>11. \A u \in Nat : u + u - 0 = 2 * u
  OBVIOUS
<1> QED  BY <1>5, <1>10, <1>11

LEMMA PowerSum ==
  ASSUME NEW m \in Nat, NEW n \in Nat
  PROVE  2^(m + n) = 2^m * 2^n
<1> DEFINE Bad == {k \in Nat : 2^(m + k) # 2^m * 2^k}
<1>1. \A k \in Nat : 2^k \in Nat \ {0} /\ 2^(k + 1) = 2 * 2^k
  BY Subsets, PowerNext
<1>2. Bad = {}
  <2>1. SUFFICES ASSUME Bad # {}  PROVE FALSE
    OBVIOUS
  <2>2. PICK k \in Bad : \A j \in Bad : k <= j
    BY <2>1, Smallest
  <2>3. k \in Nat /\ 2^(m + k) # 2^m * 2^k
    BY <2>2
  <2>4. CASE k = 0
    <3>1. 2^0 = 1
      OBVIOUS
    <3>2. m + k = m /\ 2^k = 1
      BY <2>4, <3>1
    <3> QED  BY <1>1, <2>3, <3>2
  <2>5. CASE k # 0
    <3>1. k - 1 \in Nat /\ k - 1 \notin Bad
      BY <2>2, <2>3, <2>5
    <3> DEFINE j == k - 1
    <3>2. j \in Nat /\ k = j + 1 /\ 2^(m + j) = 2^m * 2^j
      BY <3>1
    <3> HIDE DEF j
    <3>3. m + j \in Nat /\ m + k = (m + j) + 1
      BY <3>2
    <3>4. 2^(m + k) = 2 * 2^(m + j) /\ 2^k = 2 * 2^j
      BY <1>1, <3>2, <3>3
    <3> DEFINE u == 2^m
               v == 2^j
    <3>5. u \in Nat /\ v \in Nat
      BY <1>1, <3>2
    <3>6. 2^(m + k) = 2 * (u * v) /\ 2^m * 2^k = u * (2 * v)
      BY <3>2, <3>4
    <3> HIDE DEF u, v
    <3>7. 2 * (u * v) = u * (2 * v)
      BY <3>5
    <3> QED  BY <2>3, <3>6, <3>7
  <2> QED  BY <2>4, <2>5
<1> QED  BY <1>2

LEMMA PowerGrows ==
  ASSUME NEW m \in Nat, NEW n \in Nat, m <= n
  PROVE  2^m <= 2^n
<1>1. n - m \in Nat /\ m + (n - m) = n
  OBVIOUS
<1>2. 2^n = 2^m * 2^(n - m)
  BY <1>1, PowerSum
<1>3. 2^m \in Nat /\ 2^(n - m) \in Nat \ {0}
  BY <1>1, Subsets
<1>4. \A u \in Nat, v \in Nat \ {0} : u <= u * v
  OBVIOUS
<1> QED  BY <1>2, <1>3, <1>4

\* Dividing twice.
LEMMA QuotientTwice ==
  ASSUME NEW x \in Nat, NEW a \in Nat \ {0}, NEW b \in Nat \ {0}
  PROVE  (x \div a) \div b = x \div (a * b)
<1> DEFINE q == x \div a
           p == q \div b
<1>1. q \in Nat /\ \E r \in 0..(a - 1) : x = a * q + r
  <2>1. q \in Int /\ a * q <= x /\ x < a * q + a
    OBVIOUS
  <2>2. q >= 0
    OBVIOUS
  <2>3. x - a * q \in 0..(a - 1) /\ x = a * q + (x - a * q)
    BY <2>1
  <2> HIDE DEF q
  <2> QED  BY <2>1, <2>2, <2>3
<1>2. PICK r \in 0..(a - 1) : x = a * q + r
  BY <1>1
<1> HIDE DEF q
<1>3. p \in Nat /\ \E s \in 0..(b - 1) : q = b * p + s
  <2>0. q \in Nat
    BY <1>1
  <2>1. p \in Int /\ b * p <= q /\ q < b * p + b
    BY <2>0
  <2>2. p >= 0
    BY <2>0
  <2>3. q - b * p \in 0..(b - 1) /\ q = b * p + (q - b * p)
    BY <2>0, <2>1
  <2> HIDE DEF p
  <2> QED  BY <2>1, <2>2, <2>3
<1>4. PICK s \in 0..(b - 1) : q = b * p + s
  BY <1>3
<1> HIDE DEF p
<1>5. x = (a * b) * p + (a * s + r)
  BY <1>1, <1>2, <1>3, <1>4
<1>6. a * s + r \in 0..(a * b - 1)
  <2>1. a * (b - 1 - s) \in Nat /\ a * (b - 1 - s) = a * b - a - a * s
    OBVIOUS
  <2>2. a * s \in Nat
    OBVIOUS
  <2>3. a * b \in Nat
    OBVIOUS
  <2> QED  BY <2>1, <2>2, <2>3
<1> DEFINE c == a * b
           t == a * s + r
<1>7. c \in Nat \ {0} /\ t \in 0..(c - 1) /\ x = c * p + t
  BY <1>5, <1>6
<1> HIDE DEF c, t
<1>8. x \div c = p
  BY <1>3, <1>7
<1> QED  BY <1>8 DEF c, p, q

-----------------------------------------------------------------------------
(* Tiles *)

LEMMA LevelZooms ==
  ASSUME VariableDepthAssumption
  PROVE  /\ Finest \in Nat \ {0} /\ Finest \in Ladder
         /\ \A k \in Ladder : Zooms[k] \in Nat
         /\ \A j, k \in Ladder : j <= k => Zooms[j] <= Zooms[k]
<1>1. \A j, k \in Ladder : j < k => Zooms[j] < Zooms[k]
  BY DEF VariableDepthAssumption
<1>2. Finest \in Nat \ {0} /\ \A k \in Ladder : Zooms[k] \in Nat
  BY DEF VariableDepthAssumption
<1> HIDE DEF Finest
<1>3. \A j, k \in Ladder : j <= k => j = k \/ j < k
  BY <1>2 DEF Ladder
<1>4. \A j, k \in Ladder : j <= k => Zooms[j] <= Zooms[k]
  BY <1>1, <1>2, <1>3
<1> QED  BY <1>2, <1>4 DEF Ladder

\* A tile's ancestor at its own zoom is itself, and an ancestor's ancestor is
\* its own.
LEMMA Ancestors ==
  ASSUME NEW x \in Nat, NEW a \in Nat, NEW b \in Nat, NEW c \in Nat,
         a <= b, b <= c
  PROVE  /\ Ancestor(x, c, c) = x
         /\ Ancestor(x, c, b) \in Nat
         /\ Ancestor(Ancestor(x, c, b), b, a) = Ancestor(x, c, a)
<1>1. c - b \in Nat /\ b - a \in Nat /\ c - a = (c - b) + (b - a)
  OBVIOUS
<1>2. 2^(c - b) \in Nat \ {0} /\ 2^(b - a) \in Nat \ {0}
  BY <1>1, Subsets
<1>3. 2^(c - a) = 2^(c - b) * 2^(b - a)
  BY <1>1, PowerSum
<1>4. (x \div 2^(c - b)) \div 2^(b - a) = x \div 2^(c - a)
  <2>1. \A u, v \in Nat \ {0} : (x \div u) \div v = x \div (u * v)
    BY QuotientTwice
  <2>2. (x \div 2^(c - b)) \div 2^(b - a) = x \div (2^(c - b) * 2^(b - a))
    BY <1>2, <2>1
  <2> QED  BY <1>3, <2>2
<1>5. x \div 2^(c - b) \in Nat
  BY <1>2
<1>6. c - c = 0 /\ 2^0 = 1 /\ x \div 1 = x
  OBVIOUS
<1>7. x \div 2^(c - c) = x
  BY <1>6
<1> QED  BY <1>4, <1>5, <1>7 DEF Ancestor

LEMMA AncestorsOf ==
  ASSUME NEW x \in Nat, NEW a \in Nat, NEW b \in Nat, NEW c \in Nat,
         a <= b, b <= c, NEW y, y = Ancestor(x, c, b)
  PROVE  Ancestor(y, b, a) = Ancestor(x, c, a)
BY Ancestors

LEMMA TilesNest ==
  ASSUME NEW a \in Nat, NEW b \in Nat, a <= b
  PROVE  Tiles(a) \subseteq Tiles(b) /\ Tiles(a) \subseteq Nat
<1>1. 2^a \in Nat /\ 2^b \in Nat /\ 2^a <= 2^b
  BY Subsets, PowerGrows
<1> QED  BY <1>1 DEF Tiles

LEMMA ReachTiles ==
  ASSUME NEW rows, NEW z
  PROVE  Reached(rows, z) \subseteq Tiles(z)
BY DEF Reached, Reach

LEMMA SomeProbed ==
  ASSUME VariableDepthAssumption
  PROVE  /\ FirstProbed \in Nat \ {0} /\ Probed \subseteq Ladder
         /\ Finest \notin Probed
         /\ \A k \in Probed, j \in Ladder : k <= j /\ j < Finest => j \in Probed
<1>1. Finest \in Nat \ {0}
  BY LevelZooms
<1>2. IsFiniteSet(1..(Finest - 1))
  BY <1>1, FS_Interval
<1>3. FirstProbed \in Nat \ {0}
  <2>1. IsFiniteSet({k \in 1..(Finest - 1) : Zooms[Finest] - Zooms[k] > ClampDepth})
    BY <1>2, FS_Subset
  <2> QED  BY <2>1, FS_CardinalityType DEF FirstProbed
<1> HIDE DEF Finest
<1> QED  BY <1>1, <1>3 DEF Probed, Ladder

-----------------------------------------------------------------------------
(* A tile that stops hides nothing *)

\* A row is released at a zoom, and by the canonical level at the latest.
LEMMA Releases ==
  ASSUME VariableDepthAssumption, NEW r \in Rows
  PROVE  ReleaseZoom(r) \in Nat
<1> DEFINE Seen(k) == /\ r \in Shown(k)
                      /\ \A j \in 1..k-1 : j \in Probed => r \notin Shown(j)
                      /\ k \in Probed \cup {Finest}
           At == {k \in Ladder : r \in Shown(k) /\ k \in Probed \cup {Finest}}
<1>1. Finest \in At /\ Ladder \subseteq Nat
  BY LevelZooms, SomeProbed DEF Shown, Ladder
<1>2. PICK k \in At : \A j \in At : k <= j
  <2>1. At \in SUBSET Nat /\ At # {}
    BY <1>1
  <2> HIDE DEF At
  <2> QED  BY <2>1, Smallest
<1>3. k \in Ladder /\ Seen(k)
  <2>1. ASSUME NEW j \in 1..k-1, j \in Probed, r \in Shown(j)  PROVE FALSE
    <3>1. j \in At
      BY <2>1, SomeProbed
    <3>2. k <= j /\ k \in Nat
      BY <1>1, <1>2, <3>1
    <3> QED  BY <3>2
  <2> QED  BY <1>2, <2>1
<1>4. (CHOOSE i \in Ladder : Seen(i)) \in Ladder
  BY <1>3
<1> QED  BY <1>4, LevelZooms DEF ReleaseZoom

-----------------------------------------------------------------------------
(* The inductive invariant *)

\* What the levels before this one could stop is settled: received, or nothing.
Known(k) ==
  \/ k <= received
  \/ \A j \in 1..k : Candidates(j, NoStops) = {}
  \/ k = Finest /\ received = Finest - 1

\* The tiles of a level's own scan that are under no stop.
Own(k) == Reached(IF k = Finest THEN Rows ELSE Shown(k), Zooms[k])
Uncovered(k) == {x \in Own(k) : x \notin stopped[k] /\ ~Covered(stopped, k, x)}

Stops == {f \in [Ladder -> SUBSET Nat] : \A k \in Ladder : f[k] \subseteq Tiles(Zooms[k])}
Messages == [level : Ladder, stops : SUBSET Tiles(Zooms[Finest])]

DepthType ==
  /\ prober \in {"run", "ok", "error", "panic"} /\ at \in Ladder
  /\ tx \in BOOLEAN /\ rx \in BOOLEAN /\ chan \in Seq(Messages)
  /\ pc \in {"draw", "wait", "leave", "done"}
  /\ upcoming \in 1..Finest + 1 /\ end \in 1..Finest + 1 /\ received \in 0..Finest - 1
  /\ stopped \in Stops /\ frontier \in Stops /\ drawn \in Stops /\ ends \in Stops

\* A level stops tiles that may stop, once the prober has come to it.
Probing ==
  /\ blocked = Policy
  /\ \A k \in Ladder : stopped[k] \subseteq Candidates(k, stopped)
  /\ \A k \in Ladder : at < k \/ (at = k /\ prober = "run") => stopped[k] = {}

\* The channel holds the levels between the two threads, in order.
Sending ==
  /\ received < at
  /\ rx => /\ received + Len(chan) = at - 1
           /\ \A i \in 1..Len(chan) : /\ chan[i].level = received + i
                                      /\ chan[i].stops = stopped[received + i]
  /\ ~rx => chan = <<>>
  /\ pc \in {"draw", "wait"} <=> rx
  /\ \A k \in Ladder : frontier[k] = IF k <= received THEN stopped[k] ELSE {}

\* A level is drawn when its stops and those above it are settled.
Drawing ==
  /\ \A k \in 1..upcoming-1 : Known(k) /\ drawn[k] = Uncovered(k) /\ ends[k] = stopped[k]
  /\ \A k \in Ladder : upcoming <= k => ends[k] = {}
  /\ pc = "draw" => upcoming <= end /\ \A k \in upcoming..end-1 : Known(k)
  /\ pc = "wait" => upcoming <= Finest

DepthInv == DepthType /\ Probing /\ Sending /\ Drawing

-----------------------------------------------------------------------------
(* What a level may stop is settled by the levels before it *)

LEMMA CandidatesLocal ==
  ASSUME NEW k \in Ladder, NEW f, NEW g, \A j \in 1..k-1 : f[j] = g[j]
  PROVE  /\ Candidates(k, f) = Candidates(k, g)
         /\ \A x : Covered(f, k, x) <=> Covered(g, k, x)
<1>1. \A x : Covered(f, k, x) <=> Covered(g, k, x)
  BY DEF Covered
<1> QED  BY <1>1 DEF Candidates

LEMMA CandidatesThen ==
  ASSUME blocked' = blocked, NEW k, NEW f
  PROVE  Candidates(k, f)' = Candidates(k, f)
BY DEF Candidates

LEMMA NotProbed ==
  ASSUME NEW k, NEW f
  PROVE  /\ k \notin Probed => Candidates(k, f) = {}
         /\ Candidates(k, f) \subseteq Tiles(Zooms[k])
BY ReachTiles DEF Candidates

\* Where nothing could stop before any stop was made, nothing does.
LEMMA NothingStops ==
  ASSUME VariableDepthAssumption, NEW k \in Ladder, NEW f,
         \A j \in 1..k : Candidates(j, NoStops) = {},
         \A j \in 1..k : f[j] \subseteq Candidates(j, f)
  PROVE  \A j \in 1..k : f[j] = {}
<1> DEFINE Bad == {j \in 1..k : f[j] # {}}
<1>1. SUFFICES ASSUME Bad # {}  PROVE FALSE
  OBVIOUS
<1>2. k \in Nat /\ Ladder \subseteq Nat /\ 1..k \subseteq Ladder
  BY LevelZooms DEF Ladder
<1>3. PICK j \in Bad : \A i \in Bad : j <= i
  <2>1. Bad \in SUBSET Nat
    BY <1>2
  <2> HIDE DEF Bad
  <2> QED  BY <1>1, <2>1, Smallest
<1>4. j \in 1..k /\ j \in Ladder /\ f[j] # {}
  BY <1>2, <1>3
<1>5. \A i \in 1..j-1 : f[i] = NoStops[i]
  <2>1. ASSUME NEW i \in 1..j-1  PROVE f[i] = NoStops[i]
    <3>1. i \in 1..k /\ i \in Ladder /\ ~(j <= i)
      BY <1>2, <1>4
    <3>2. f[i] = {}
      BY <1>3, <3>1
    <3> QED  BY <3>1, <3>2 DEF NoStops
  <2> QED  BY <2>1
<1>6. Candidates(j, f) = {}
  BY <1>4, <1>5, CandidatesLocal
<1> QED  BY <1>4, <1>6

\* The levels up to the first that could stop a tile.
LEMMA FirstRun ==
  ASSUME VariableDepthAssumption
  PROVE  /\ FirstProbedLevel \in Ladder
         /\ \A k \in 1..FirstProbedLevel - 1 : Candidates(k, NoStops) = {}
<1> DEFINE ks == {k \in Probed : Candidates(k, NoStops) # {}}
<1>1. Probed \subseteq Ladder /\ Ladder \subseteq Nat /\ Finest \in Ladder
  BY LevelZooms, SomeProbed DEF Ladder
<1>2. CASE ks = {}
  <2>1. FirstProbedLevel = Finest
    BY <1>2 DEF FirstProbedLevel
  <2> QED  BY <1>1, <1>2, <2>1, NotProbed
<1>3. CASE ks # {}
  <2>1. \E k \in ks : \A j \in ks : k <= j
    <3>1. ks \in SUBSET Nat
      BY <1>1
    <3> HIDE DEF ks
    <3> QED  BY <1>3, <3>1, Smallest
  <2>2. FirstProbedLevel = CHOOSE k \in ks : \A j \in ks : k <= j
    BY <1>3 DEF FirstProbedLevel
  <2>3. FirstProbedLevel \in ks /\ \A j \in ks : FirstProbedLevel <= j
    BY <2>1, <2>2
  <2>4. ASSUME NEW k \in 1..FirstProbedLevel - 1  PROVE k \notin ks
    <3>1. FirstProbedLevel \in Nat
      BY <1>1, <2>3
    <3>2. ~(FirstProbedLevel <= k)
      BY <3>1
    <3> QED  BY <2>3, <3>2
  <2> QED  BY <1>1, <2>3, <2>4, NotProbed
<1> QED  BY <1>2, <1>3

\* What the exporter knows of the stops up to a settled level is all there is.
LEMMA Settled ==
  ASSUME VariableDepthAssumption, DepthInv, NEW k \in Ladder, Known(k)
  PROVE  /\ \A j \in 1..k : frontier[j] = stopped[j]
         /\ at <= k => \/ \A j \in 1..k : Candidates(j, NoStops) = {} /\ stopped[j] = {}
                       \/ at = Finest
<1>1. k \in Nat /\ Ladder \subseteq Nat /\ 1..k \subseteq Ladder /\ Finest \in Nat \ {0}
  BY LevelZooms DEF Ladder
<1>2. \A j \in Ladder : stopped[j] \subseteq Candidates(j, stopped)
  BY DEF DepthInv, Probing
<1>3. \A j \in Ladder : frontier[j] = IF j <= received THEN stopped[j] ELSE {}
  BY DEF DepthInv, Sending
<1>4. received < at /\ received \in Nat /\ at \in Nat /\ at \in Ladder
  BY <1>1 DEF DepthInv, Sending, DepthType
<1>5. CASE k <= received
  BY <1>1, <1>3, <1>4, <1>5
<1>6. CASE \A j \in 1..k : Candidates(j, NoStops) = {}
  <2>1. \A j \in 1..k : stopped[j] = {}
    BY <1>1, <1>2, <1>6, NothingStops
  <2> QED  BY <1>1, <1>3, <1>6, <2>1
<1>7. CASE k = Finest /\ received = Finest - 1
  <2>1. stopped[Finest] = {}
    BY <1>1, <1>2, LevelZooms, SomeProbed, NotProbed
  <2>2. \A j \in 1..k : j <= received \/ j = Finest
    BY <1>1, <1>7
  <2>3. at = Finest
    <3>1. at <= Finest
      BY <1>4, <1>1 DEF Ladder
    <3> HIDE DEF Finest
    <3> QED  BY <1>1, <1>4, <1>7, <3>1
  <2> QED  BY <1>1, <1>3, <2>1, <2>2, <2>3
<1> QED  BY <1>5, <1>6, <1>7 DEF Known

-----------------------------------------------------------------------------
(* The invariant, one action at a time *)

LEMMA InitKeeps ==
  ASSUME VariableDepthAssumption, DepthInit
  PROVE  DepthInv
<1>1. Finest \in Nat \ {0} /\ Ladder \subseteq Nat /\ FirstProbedLevel \in Ladder
  BY LevelZooms, FirstRun DEF Ladder
<1>2. NoStops \in Stops /\ \A k \in Ladder : NoStops[k] = {}
  BY DEF NoStops, Stops
<1>3. DepthType
  BY <1>1, <1>2 DEF DepthInit, DepthType, Ladder
<1>4. Probing
  BY <1>2 DEF DepthInit, Probing
<1>5. Sending
  <2>1. \A k \in Ladder : frontier[k] = {} /\ stopped[k] = {}
    BY <1>2 DEF DepthInit
  <2>2. Len(chan) = 0 /\ chan = <<>> /\ received = 0 /\ at = 1 /\ rx /\ pc = "draw"
    BY DEF DepthInit
  <2>3. \A i \in 1..Len(chan) : FALSE
    BY <2>2
  <2>4. received < at /\ received + Len(chan) = at - 1
    BY <2>2
  <2> QED  BY <2>1, <2>2, <2>3, <2>4 DEF Sending
<1>6. Drawing
  <2>1. \A k \in 1..upcoming-1 : FALSE
    BY DEF DepthInit
  <2>2. \A k \in Ladder : ends[k] = {}
    BY <1>2 DEF DepthInit
  <2>3. upcoming <= end
    BY <1>1 DEF DepthInit, Ladder
  <2>4. \A k \in upcoming..end-1 : Known(k)
    <3>1. ASSUME NEW k \in upcoming..end-1, NEW j \in 1..k  PROVE Candidates(j, NoStops) = {}
      <4>1. j \in 1..FirstProbedLevel - 1
        BY <1>1 DEF DepthInit
      <4> QED  BY <4>1, FirstRun
    <3> QED  BY <3>1 DEF Known
  <2>5. pc # "wait"
    BY DEF DepthInit
  <2> QED  BY <2>1, <2>2, <2>3, <2>4, <2>5 DEF Drawing
<1> QED  BY <1>3, <1>4, <1>5, <1>6 DEF DepthInv

\* A step that leaves the inputs and the received levels alone leaves alone
\* what is settled of them.
LEMMA KnownThen ==
  ASSUME UNCHANGED input
  PROVE  /\ \A k, f : Candidates(k, f)' = Candidates(k, f)
         /\ \A k : Own(k)' = Own(k)
         /\ Policy' = Policy
         /\ received' = received => \A k : Known(k)' = Known(k)
<1>1. \A k, f : Candidates(k, f)' = Candidates(k, f)
  BY CandidatesThen DEF input
<1>2. \A k : Shown(k)' = Shown(k) /\ Reduced(k)' = Reduced(k)
  BY DEF input, Shown, Reduced
<1>3. \A k : PointsShown(k)' = PointsShown(k) /\ Clusters(k)' = Clusters(k)
  BY <1>2 DEF input, PointsShown, Clusters
<1>4. \A r : ReleaseZoom(r)' = ReleaseZoom(r)
  <2>1. shown' = shown /\ rung' = rung
    BY DEF input
  <2>2. ASSUME NEW r  PROVE ReleaseZoom(r)' = ReleaseZoom(r)
    BY <2>1, SMT DEF ReleaseZoom, Shown
  <2> QED  BY <2>2
<1>5. \A k : BadTiles(k)' = BadTiles(k)
  BY <1>3, <1>4 DEF input, BadTiles
<1> QED  BY <1>1, <1>2, <1>5 DEF Own, Policy, Known

LEMMA ProbeLevelKeeps ==
  ASSUME VariableDepthAssumption, DepthInv, ProbeLevel
  PROVE  DepthInv'
<1>0. /\ Finest \in Nat \ {0} /\ Ladder \subseteq Nat /\ Ladder = 1..Finest
      /\ at \in Ladder /\ at < Finest /\ prober = "run" /\ UNCHANGED input
      /\ UNCHANGED <<rx, drawing, received, frontier>>
  BY LevelZooms DEF ProbeLevel, DepthInv, DepthType, Ladder
<1>1. PICK fits \in SUBSET Candidates(at, stopped) :
        /\ stopped' = [stopped EXCEPT ![at] = fits]
        /\ IF rx THEN chan' = Append(chan, [level |-> at, stops |-> fits])
                      /\ at' = at + 1 /\ UNCHANGED <<prober, tx>>
                 ELSE prober' = "ok" /\ tx' = FALSE /\ UNCHANGED <<at, chan>>
  BY DEF ProbeLevel
<1>2. /\ stopped'[at] = fits /\ \A k \in Ladder \ {at} : stopped'[k] = stopped[k]
  BY <1>0, <1>1 DEF DepthInv, DepthType, Stops
<1>3. fits \subseteq Tiles(Zooms[at]) /\ fits \subseteq Nat
      /\ fits \in SUBSET Tiles(Zooms[Finest])
  <2>1. fits \subseteq Tiles(Zooms[at])
    BY <1>1, NotProbed
  <2>2. Tiles(Zooms[at]) \subseteq Tiles(Zooms[Finest]) /\ Tiles(Zooms[at]) \subseteq Nat
    BY <1>0, LevelZooms, TilesNest
  <2> QED  BY <2>1, <2>2
<1>4. stopped' \in Stops
  BY <1>0, <1>1, <1>2, <1>3 DEF DepthInv, DepthType, Stops
<1>5. DepthType'
  <2>1. [level |-> at, stops |-> fits] \in Messages
    BY <1>0, <1>3 DEF Messages
  <2>2. chan' \in Seq(Messages)
    BY <1>1, <2>1 DEF DepthInv, DepthType
  <2>3. at' \in Ladder /\ prober' \in {"run", "ok", "error", "panic"} /\ tx' \in BOOLEAN
    <3>1. at + 1 \in Ladder
      BY <1>0
    <3> QED  BY <1>0, <1>1, <3>1 DEF DepthInv, DepthType
  <2> QED  BY <1>0, <1>4, <2>2, <2>3 DEF DepthInv, DepthType, drawing
<1>6. Probing'
  <2> DEFINE s == stopped'
  <2>1. \A k \in Ladder : s[k] \subseteq Candidates(k, s)
    <3>1. ASSUME NEW k \in Ladder, k <= at  PROVE s[k] \subseteq Candidates(k, s)
      <4>1. \A j \in 1..k-1 : s[j] = stopped[j]
        BY <1>0, <1>2, <3>1
      <4>2. Candidates(k, s) = Candidates(k, stopped)
        BY <4>1, CandidatesLocal
      <4>3. stopped[k] \subseteq Candidates(k, stopped)
        BY DEF DepthInv, Probing
      <4> QED  BY <1>1, <1>2, <4>2, <4>3
    <3>2. ASSUME NEW k \in Ladder, at < k  PROVE s[k] = {}
      BY <1>0, <1>2, <3>2 DEF DepthInv, Probing
    <3>3. \A k \in Ladder : k <= at \/ at < k
      BY <1>0
    <3> QED  BY <3>1, <3>2, <3>3
  <2>2. \A k \in Ladder : Candidates(k, stopped)' = Candidates(k, s)
    BY <1>0 DEF Candidates, Covered, input
  <2>3. \A k \in Ladder : at' < k \/ (at' = k /\ prober' = "run") => stopped'[k] = {}
    <3>1. ASSUME NEW k \in Ladder, at' < k \/ (at' = k /\ prober' = "run")
          PROVE  at < k
      BY <1>0, <1>1, <3>1
    <3> QED  BY <1>0, <1>2, <3>1 DEF DepthInv, Probing
  <2>4. blocked' = Policy'
    BY <1>0, KnownThen DEF input, DepthInv, Probing
  <2> HIDE DEF s
  <2> QED  BY <2>1, <2>2, <2>3, <2>4 DEF Probing, s
<1>7. Sending'
  <2>1. received \in Nat /\ received < at /\ at \in Nat
        /\ \A k \in 1..received : k \in Ladder \ {at}
    BY <1>0 DEF DepthInv, Sending, DepthType
  <2>2. \A k \in Ladder : frontier'[k] = IF k <= received THEN stopped'[k] ELSE {}
    BY <1>0, <1>2, <2>1 DEF DepthInv, Sending
  <2>3. CASE rx
    <3>1. chan \in Seq(Messages) /\ Len(chan) \in Nat /\ received + Len(chan) = at - 1
      BY <2>3 DEF DepthInv, DepthType, Sending
    <3>2. Len(chan') = Len(chan) + 1 /\ chan'[Len(chan) + 1] = [level |-> at, stops |-> fits]
          /\ \A i \in 1..Len(chan) : chan'[i] = chan[i]
      BY <1>1, <2>3, <3>1
    <3>3. at' = at + 1
      BY <1>1, <2>3
    <3>4. ASSUME NEW i \in 1..Len(chan')
          PROVE  chan'[i].level = received + i /\ chan'[i].stops = stopped'[received + i]
      <4>1. CASE i \in 1..Len(chan)
        <5>1. received + i \in Ladder \ {at}
          BY <1>0, <2>1, <3>1, <4>1
        <5>2. chan[i].level = received + i /\ chan[i].stops = stopped[received + i]
          BY <2>3, <4>1 DEF DepthInv, Sending
        <5> QED  BY <1>2, <3>2, <4>1, <5>1, <5>2
      <4>2. CASE i = Len(chan) + 1
        <5>1. received + i = at
          BY <2>1, <3>1, <4>2
        <5> QED  BY <1>2, <3>2, <4>2, <5>1
      <4>3. i \in 1..Len(chan) \/ i = Len(chan) + 1
        BY <3>1, <3>2
      <4> QED  BY <4>1, <4>2, <4>3
    <3>5. received' + Len(chan') = at' - 1 /\ received' < at'
      BY <1>0, <2>1, <3>1, <3>2, <3>3
    <3> QED  BY <1>0, <2>2, <2>3, <3>4, <3>5 DEF DepthInv, Sending, drawing
  <2>4. CASE ~rx
    BY <1>0, <1>1, <2>1, <2>2, <2>4 DEF DepthInv, Sending, drawing
  <2> QED  BY <2>3, <2>4
<1>8. ASSUME NEW k \in Ladder, Known(k)
      PROVE  Known(k)' /\ Uncovered(k)' = Uncovered(k) /\ stopped'[k] = stopped[k]
  <2>1. \A j \in 1..k : stopped'[j] = stopped[j]
    <3>1. 1..k \subseteq Ladder /\ k \in Nat /\ k \in 1..k
      BY <1>0
    <3>2. CASE k < at
      <4>1. \A j \in 1..k : j # at
        BY <1>0, <3>2
      <4> QED  BY <1>2, <3>1, <4>1
    <3>3. CASE at <= k
      <4>1. \A j \in 1..k : Candidates(j, NoStops) = {} /\ stopped[j] = {}
        BY <1>0, <1>8, <3>3, Settled
      <4>2. \A j \in 1..at-1 : stopped[j] = NoStops[j]
        <5>1. \A j \in 1..at-1 : j \in 1..k /\ j \in Ladder
          BY <1>0, <3>1, <3>3
        <5> QED  BY <4>1, <5>1 DEF NoStops
      <4>3. Candidates(at, stopped) = {}
        <5>1. Candidates(at, stopped) = Candidates(at, NoStops)
          BY <1>0, <4>2, CandidatesLocal
        <5> QED  BY <1>0, <3>1, <3>3, <4>1, <5>1
      <4>4. fits = {} /\ at \in 1..k
        BY <1>0, <1>1, <3>1, <3>3, <4>3
      <4> QED  BY <1>2, <3>1, <4>1, <4>4
    <3>4. k < at \/ at <= k
      BY <1>0, <3>1
    <3> QED  BY <3>2, <3>3, <3>4
  <2>2. k \in 1..k /\ 1..k-1 \subseteq 1..k
    BY <1>0
  <2>3. \A x : Covered(stopped, k, x)' <=> Covered(stopped, k, x)
    BY <2>1, <2>2 DEF Covered
  <2>4. Own(k)' = Own(k) /\ Known(k)' = Known(k)
    BY <1>0, KnownThen
  <2> QED  BY <1>8, <2>1, <2>2, <2>3, <2>4 DEF Uncovered
<1>9. Drawing'
  <2>1. upcoming \in Nat /\ upcoming' = upcoming /\ end' = end /\ pc' = pc /\ drawn' = drawn
        /\ ends' = ends /\ (\A k \in 1..upcoming-1 : k \in Ladder)
        /\ end \in Nat /\ \A k \in upcoming..end-1 : k \in Ladder
    BY <1>0 DEF DepthInv, DepthType, drawing
  <2>2. \A k \in 1..upcoming-1 : Known(k)' /\ drawn'[k] = Uncovered(k)' /\ ends'[k] = stopped'[k]
    BY <1>8, <2>1 DEF DepthInv, Drawing
  <2>3. pc = "draw" => \A k \in upcoming..end-1 : Known(k)'
    BY <1>8, <2>1 DEF DepthInv, Drawing
  <2> QED  BY <2>1, <2>2, <2>3 DEF DepthInv, Drawing
<1> QED  BY <1>5, <1>6, <1>7, <1>9 DEF DepthInv

\* A step that stops nothing.
LEMMA UncoveredThen ==
  ASSUME UNCHANGED input, stopped' = stopped
  PROVE  /\ \A k : Uncovered(k)' = Uncovered(k)
         /\ received' = received => \A k : Known(k)' = Known(k)
         /\ Policy' = Policy
         /\ \A k : Candidates(k, stopped)' = Candidates(k, stopped)
<1>1. \A k, x : Covered(stopped, k, x)' <=> Covered(stopped, k, x)
  BY DEF Covered
<1>2. \A k : Candidates(k, stopped)' = Candidates(k, stopped)
  BY <1>1 DEF Candidates, input
<1> QED  BY <1>1, <1>2, KnownThen DEF Uncovered

LEMMA ProbeStopsKeeps ==
  ASSUME VariableDepthAssumption, DepthInv, ProbeEnds \/ ProbeFails
  PROVE  DepthInv'
<1>1. /\ UNCHANGED <<input, at, stopped, rx, chan, drawing, received, frontier>>
      /\ prober' \in {"ok", "error", "panic"} /\ tx' = FALSE /\ prober = "run"
  BY DEF ProbeEnds, ProbeFails
<1>2. Policy' = Policy /\ blocked' = blocked
      /\ \A k : Known(k)' = Known(k) /\ Uncovered(k)' = Uncovered(k)
                /\ Candidates(k, stopped)' = Candidates(k, stopped)
  BY <1>1, UncoveredThen DEF input
<1>3. DepthType'
  BY <1>1 DEF DepthInv, DepthType, drawing
<1>4. Probing'
  BY <1>1, <1>2 DEF DepthInv, Probing
<1>5. Sending'
  BY <1>1 DEF DepthInv, Sending, drawing
<1>6. Drawing'
  BY <1>1, <1>2 DEF DepthInv, Drawing, drawing
<1> QED  BY <1>3, <1>4, <1>5, <1>6 DEF DepthInv

LEMMA DrawLevelKeeps ==
  ASSUME VariableDepthAssumption, DepthInv, DrawLevel
  PROVE  DepthInv'
<1>0. /\ Finest \in Nat \ {0} /\ Ladder \subseteq Nat /\ Ladder = 1..Finest
  BY LevelZooms DEF Ladder
<1>1. /\ pc = "draw" /\ upcoming < end /\ upcoming \in Nat /\ end \in Nat /\ upcoming \in Ladder
      /\ UNCHANGED <<input, probing, rx, chan, pc, end, received, frontier>>
      /\ upcoming' = upcoming + 1
      /\ drawn' = [drawn EXCEPT ![upcoming] = Remaining(upcoming)]
      /\ ends' = [ends EXCEPT ![upcoming] = frontier[upcoming]]
  BY <1>0 DEF DrawLevel, DepthInv, DepthType
<1>2. /\ Policy' = Policy /\ blocked' = blocked
      /\ \A k : /\ Known(k)' = Known(k) /\ Uncovered(k)' = Uncovered(k)
                /\ Candidates(k, stopped)' = Candidates(k, stopped)
  BY <1>1, UncoveredThen DEF input, probing
<1>3. Known(upcoming) /\ \A j \in 1..upcoming : frontier[j] = stopped[j]
  <2>1. Known(upcoming)
    <3>1. upcoming \in upcoming..end-1
      BY <1>1
    <3> QED  BY <1>1, <3>1 DEF DepthInv, Drawing
  <2> QED  BY <1>1, <2>1, Settled
<1>4. Remaining(upcoming) = Uncovered(upcoming) /\ frontier[upcoming] = stopped[upcoming]
  <2>1. \A x : Covered(frontier, upcoming, x) <=> Covered(stopped, upcoming, x)
    <3>1. \A j \in 1..upcoming-1 : frontier[j] = stopped[j]
      BY <1>1, <1>3
    <3> QED  BY <1>1, <3>1, CandidatesLocal
  <2>2. frontier[upcoming] = stopped[upcoming]
    <3>1. upcoming \in 1..upcoming
      BY <1>0, <1>1
    <3> QED  BY <1>3, <3>1
  <2> QED  BY <2>1, <2>2 DEF Remaining, Uncovered, Own
<1>5. Remaining(upcoming) \subseteq Tiles(Zooms[upcoming]) /\ Tiles(Zooms[upcoming]) \subseteq Nat
  <2>1. Own(upcoming) \subseteq Tiles(Zooms[upcoming])
    BY ReachTiles DEF Own
  <2> QED  BY <1>1, <1>4, <2>1, LevelZooms, TilesNest DEF Uncovered
<1>6. DepthType'
  <2>1. drawn' \in Stops
    BY <1>1, <1>5 DEF DepthInv, DepthType, Stops
  <2>2. ends' \in Stops
    BY <1>1 DEF DepthInv, DepthType, Stops
  <2>3. upcoming' \in 1..Finest + 1
    BY <1>0, <1>1
  <2> QED  BY <1>1, <2>1, <2>2, <2>3 DEF DepthInv, DepthType, probing
<1>7. Probing'
  BY <1>1, <1>2 DEF DepthInv, Probing, probing
<1>8. Sending'
  BY <1>1 DEF DepthInv, Sending, probing
<1>9. Drawing'
  <2>1. /\ drawn'[upcoming] = Uncovered(upcoming) /\ ends'[upcoming] = stopped[upcoming]
        /\ \A k \in Ladder \ {upcoming} : drawn'[k] = drawn[k] /\ ends'[k] = ends[k]
    BY <1>1, <1>4 DEF DepthInv, DepthType, Stops
  <2>2. \A k \in 1..upcoming'-1 : k = upcoming \/ (k \in 1..upcoming-1 /\ k \in Ladder \ {upcoming})
    BY <1>0, <1>1
  <2>3. \A k \in 1..upcoming'-1 : Known(k)' /\ drawn'[k] = Uncovered(k)' /\ ends'[k] = stopped'[k]
    BY <1>1, <1>2, <1>3, <2>1, <2>2 DEF DepthInv, Drawing, probing
  <2>4. \A k \in Ladder : upcoming' <= k => ends'[k] = {}
    <3>1. \A k \in Ladder : upcoming' <= k => upcoming <= k /\ k \in Ladder \ {upcoming}
      BY <1>0, <1>1
    <3> QED  BY <2>1, <3>1 DEF DepthInv, Drawing
  <2>5. upcoming' <= end' /\ \A k \in upcoming'..end'-1 : Known(k)'
    <3>1. upcoming' <= end' /\ \A k \in upcoming'..end'-1 : k \in upcoming..end-1
      BY <1>1
    <3> QED  BY <1>1, <1>2, <3>1 DEF DepthInv, Drawing
  <2>6. pc' = "draw"
    BY <1>1
  <2> QED  BY <2>3, <2>4, <2>5, <2>6 DEF Drawing
<1> QED  BY <1>6, <1>7, <1>8, <1>9 DEF DepthInv

\* The exporter leaves, or the scope joins the prober.
LEMMA LeaveKeeps ==
  ASSUME VariableDepthAssumption, DepthInv,
         UNCHANGED <<input, probing, upcoming, end, drawn, ends, received, frontier>>,
         pc' \in {"leave", "done"}, rx' = FALSE, chan' = <<>>
  PROVE  DepthInv'
<1>2. /\ Policy' = Policy /\ blocked' = blocked
      /\ \A k : /\ Known(k)' = Known(k) /\ Uncovered(k)' = Uncovered(k)
                /\ Candidates(k, stopped)' = Candidates(k, stopped)
  BY UncoveredThen DEF input, probing
<1>3. DepthType'
  <2>1. chan' \in Seq(Messages)
    OBVIOUS
  <2> QED  BY <2>1 DEF DepthInv, DepthType, probing
<1>4. Probing'
  BY <1>2 DEF DepthInv, Probing, probing
<1>5. Sending'
  BY DEF DepthInv, Sending, probing
<1>6. Drawing'
  BY <1>2 DEF DepthInv, Drawing, probing
<1> QED  BY <1>3, <1>4, <1>5, <1>6 DEF DepthInv

LEMMA DrawnAllKeeps ==
  ASSUME VariableDepthAssumption, DepthInv, DrawnAll
  PROVE  DepthInv'
<1>1. CASE upcoming > Finest
  BY <1>1, LeaveKeeps DEF DrawnAll, Leave
<1>2. CASE ~(upcoming > Finest)
  <2>0. Finest \in Nat \ {0} /\ upcoming \in Nat /\ upcoming <= Finest
    BY <1>2, LevelZooms DEF DepthInv, DepthType
  <2>1. /\ UNCHANGED <<input, probing, rx, chan, upcoming, end, drawn, ends, received, frontier>>
        /\ pc = "draw" /\ pc' = "wait"
    BY <1>2 DEF DrawnAll
  <2>2. /\ Policy' = Policy /\ blocked' = blocked
        /\ \A k : /\ Known(k)' = Known(k) /\ Uncovered(k)' = Uncovered(k)
                  /\ Candidates(k, stopped)' = Candidates(k, stopped)
    BY <2>1, UncoveredThen DEF input, probing
  <2>3. DepthType'
    BY <2>1 DEF DepthInv, DepthType, probing
  <2>4. Probing'
    BY <2>1, <2>2 DEF DepthInv, Probing, probing
  <2>5. Sending'
    BY <2>1 DEF DepthInv, Sending, probing
  <2>6. Drawing'
    BY <2>0, <2>1, <2>2 DEF DepthInv, Drawing, probing
  <2> QED  BY <2>3, <2>4, <2>5, <2>6 DEF DepthInv
<1> QED  BY <1>1, <1>2

LEMMA ReceiveKeeps ==
  ASSUME VariableDepthAssumption, DepthInv, Receive
  PROVE  DepthInv'
<1>0. Finest \in Nat \ {0} /\ Ladder \subseteq Nat /\ Ladder = 1..Finest
  BY LevelZooms DEF Ladder
<1>1. /\ pc = "wait" /\ received < Finest - 1 /\ chan # <<>> /\ received \in Nat
      /\ at \in Ladder /\ received' = received + 1 /\ chan' = Tail(chan)
      /\ frontier' = [frontier EXCEPT ![Head(chan).level] = Head(chan).stops]
      /\ UNCHANGED <<input, probing, rx, drawing>>
  BY DEF Receive, DepthInv, DepthType
<1>2. /\ rx /\ chan \in Seq(Messages) /\ Len(chan) \in Nat \ {0}
      /\ received + Len(chan) = at - 1
      /\ \A i \in 1..Len(chan) : /\ chan[i].level = received + i
                                 /\ chan[i].stops = stopped[received + i]
  BY <1>1 DEF DepthInv, Sending, DepthType
<1>3. Head(chan).level = received + 1 /\ Head(chan).stops = stopped[received + 1]
      /\ received + 1 \in Ladder
  <2>1. 1 \in 1..Len(chan) /\ Head(chan) = chan[1] /\ received + 1 \in Ladder
    BY <1>0, <1>1, <1>2
  <2> QED  BY <1>2, <2>1
<1>4. /\ Len(chan') = Len(chan) - 1 /\ chan' \in Seq(Messages)
      /\ \A i \in 1..Len(chan') : chan'[i] = chan[i + 1] /\ i + 1 \in 1..Len(chan)
  BY <1>1, <1>2
<1>5. /\ Policy' = Policy /\ blocked' = blocked /\ stopped' = stopped /\ at' = at
      /\ \A k : Uncovered(k)' = Uncovered(k)
                /\ Candidates(k, stopped)' = Candidates(k, stopped)
                /\ Candidates(k, NoStops)' = Candidates(k, NoStops)
  BY <1>1, UncoveredThen, KnownThen DEF input, probing
<1>6. \A k \in Ladder : Known(k) => Known(k)'
  <2>1. \A k \in Ladder : k <= received => k <= received'
    BY <1>0, <1>1
  <2>2. ~(received = Finest - 1)
    BY <1>0, <1>1
  <2> QED  BY <1>5, <2>1, <2>2 DEF Known
<1>7. /\ frontier' \in Stops /\ frontier'[received + 1] = stopped[received + 1]
      /\ \A k \in Ladder \ {received + 1} : frontier'[k] = frontier[k]
  <2>1. stopped[received + 1] \subseteq Tiles(Zooms[received + 1])
        /\ stopped[received + 1] \in SUBSET Nat
    BY <1>3 DEF DepthInv, DepthType, Stops
  <2>2. frontier' = [frontier EXCEPT ![received + 1] = stopped[received + 1]]
    BY <1>1, <1>3
  <2> QED  BY <1>3, <2>1, <2>2 DEF DepthInv, DepthType, Stops
<1>8. DepthType'
  <2>1. received' \in 0..Finest - 1
    BY <1>0, <1>1
  <2> QED  BY <1>1, <1>4, <1>7, <2>1 DEF DepthInv, DepthType, probing, drawing
<1>9. Probing'
  BY <1>1, <1>5 DEF DepthInv, Probing, probing
<1>10. Sending'
  <2>1. received' < at' /\ received' + Len(chan') = at' - 1
    BY <1>0, <1>1, <1>2, <1>4, <1>5
  <2>2. ASSUME NEW i \in 1..Len(chan')
        PROVE  chan'[i].level = received' + i /\ chan'[i].stops = stopped'[received' + i]
    <3>1. received' + i = received + (i + 1)
      BY <1>1
    <3> QED  BY <1>2, <1>4, <1>5, <3>1
  <2>3. \A k \in Ladder : frontier'[k] = IF k <= received' THEN stopped'[k] ELSE {}
    <3>1. ASSUME NEW k \in Ladder
          PROVE  frontier'[k] = IF k <= received' THEN stopped'[k] ELSE {}
      <4>1. CASE k = received + 1
        <5>1. k <= received'
          BY <1>0, <1>1, <4>1
        <5> QED  BY <1>5, <1>7, <4>1, <5>1
      <4>2. CASE k # received + 1
        <5>1. k <= received <=> k <= received'
          BY <1>0, <1>1, <4>2
        <5>2. frontier[k] = IF k <= received THEN stopped[k] ELSE {}
          BY DEF DepthInv, Sending
        <5> QED  BY <1>5, <1>7, <4>2, <5>1, <5>2
      <4> QED  BY <4>1, <4>2
    <3> QED  BY <3>1
  <2> QED  BY <1>1, <1>2, <2>1, <2>2, <2>3 DEF Sending, DepthInv, drawing
<1>11. Drawing'
  <2>1. upcoming' = upcoming /\ end' = end /\ pc' = pc /\ drawn' = drawn /\ ends' = ends
        /\ \A k \in 1..upcoming-1 : k \in Ladder
    BY <1>0, <1>1 DEF drawing, DepthInv, DepthType
  <2>2. \A k \in 1..upcoming'-1 : Known(k)' /\ drawn'[k] = Uncovered(k)' /\ ends'[k] = stopped'[k]
    BY <1>5, <1>6, <2>1 DEF DepthInv, Drawing
  <2> QED  BY <1>1, <2>1, <2>2 DEF DepthInv, Drawing
<1> QED  BY <1>8, <1>9, <1>10, <1>11 DEF DepthInv

LEMMA PlanRunKeeps ==
  ASSUME VariableDepthAssumption, DepthInv, PlanRun
  PROVE  DepthInv'
<1>0. Finest \in Nat \ {0} /\ Ladder \subseteq Nat /\ Ladder = 1..Finest
  BY LevelZooms DEF Ladder
<1>1. /\ pc = "wait" /\ RunReady /\ pc' = "draw" /\ upcoming \in Nat /\ received \in 0..Finest - 1
      /\ end' = IF received = Finest - 1 THEN Finest + 1 ELSE received + 1
      /\ UNCHANGED <<input, probing, rx, chan, upcoming, drawn, ends, received, frontier>>
  BY DEF PlanRun, DepthInv, DepthType
<1>2. upcoming <= Finest
  BY <1>1 DEF DepthInv, Drawing
<1>3. /\ Policy' = Policy /\ blocked' = blocked
      /\ \A k : /\ Known(k)' = Known(k) /\ Uncovered(k)' = Uncovered(k)
                /\ Candidates(k, stopped)' = Candidates(k, stopped)
  BY <1>1, UncoveredThen DEF input, probing
<1>4. end' \in 1..Finest + 1 /\ upcoming <= end'
  <2> HIDE DEF Finest, Ladder
  <2>1. upcoming < Finest => received >= upcoming
    BY <1>1 DEF RunReady
  <2>2. upcoming = Finest => received = Finest - 1
    BY <1>1, <1>0 DEF RunReady
  <2> QED  BY <1>0, <1>1, <1>2, <2>1, <2>2
<1>5. \A k \in upcoming..end'-1 : Known(k)
  <2>1. \A k \in upcoming..end'-1 : k <= received \/ (k = Finest /\ received = Finest - 1)
    <3> HIDE DEF Finest, Ladder
    <3> QED  BY <1>0, <1>1
  <2> QED  BY <2>1 DEF Known
<1>6. DepthType'
  BY <1>1, <1>4 DEF DepthInv, DepthType, probing
<1>7. Probing'
  BY <1>1, <1>3 DEF DepthInv, Probing, probing
<1>8. Sending'
  BY <1>1 DEF DepthInv, Sending, probing
<1>9. Drawing'
  BY <1>1, <1>3, <1>4, <1>5 DEF DepthInv, Drawing, probing
<1> QED  BY <1>6, <1>7, <1>8, <1>9 DEF DepthInv

\* The inductive invariant: a level is drawn from the stops of the levels up to
\* it, and those are settled although the prober runs on.
THEOREM DepthInductive ==
  ASSUME VariableDepthAssumption
  PROVE  DepthSpec => []DepthInv
<1>1. DepthInit => DepthInv
  BY InitKeeps
<1>2. ASSUME DepthInv, [DepthNext]_depthVars  PROVE DepthInv'
  <2>1. CASE ProbeLevel
    BY <1>2, <2>1, ProbeLevelKeeps
  <2>2. CASE ProbeEnds \/ ProbeFails
    BY <1>2, <2>2, ProbeStopsKeeps
  <2>3. CASE DrawLevel
    BY <1>2, <2>3, DrawLevelKeeps
  <2>4. CASE DrawFails
    BY <1>2, <2>4, LeaveKeeps DEF DrawFails, Leave
  <2>5. CASE DrawnAll
    BY <1>2, <2>5, DrawnAllKeeps
  <2>6. CASE Receive
    BY <1>2, <2>6, ReceiveKeeps
  <2>7. CASE Abandoned
    BY <1>2, <2>7, LeaveKeeps DEF Abandoned, Leave
  <2>8. CASE PlanRun
    BY <1>2, <2>8, PlanRunKeeps
  <2>9. CASE Join
    <3>1. pc = "leave" /\ pc' = "done" /\ rx' = rx /\ chan' = chan
          /\ UNCHANGED <<input, probing, upcoming, end, drawn, ends, received, frontier>>
      BY <2>9 DEF Join
    <3>2. rx = FALSE /\ chan = <<>>
      BY <1>2, <3>1 DEF DepthInv, DepthType, Sending
    <3> QED  BY <1>2, <3>1, <3>2, LeaveKeeps
  <2>10. CASE UNCHANGED depthVars
    <3>1. UNCHANGED <<input, probing, rx, chan, pc, upcoming, end, drawn, ends,
                      received, frontier>>
      BY <2>10 DEF depthVars, drawing
    <3>2. /\ Policy' = Policy /\ blocked' = blocked
          /\ \A k : /\ Known(k)' = Known(k) /\ Uncovered(k)' = Uncovered(k)
                    /\ Candidates(k, stopped)' = Candidates(k, stopped)
      BY <3>1, UncoveredThen DEF input, probing
    <3>3. DepthType'
      BY <1>2, <3>1 DEF DepthInv, DepthType, probing
    <3>4. Probing'
      BY <1>2, <3>1, <3>2 DEF DepthInv, Probing, probing
    <3>5. Sending'
      BY <1>2, <3>1 DEF DepthInv, Sending, probing
    <3>6. Drawing'
      BY <1>2, <3>1, <3>2 DEF DepthInv, Drawing, probing
    <3> QED  BY <3>3, <3>4, <3>5, <3>6 DEF DepthInv
  <2> QED  BY <1>2, <2>1, <2>2, <2>3, <2>4, <2>5, <2>6, <2>7, <2>8, <2>9, <2>10 DEF DepthNext
<1> QED  BY <1>1, <1>2, PTL DEF DepthSpec

-----------------------------------------------------------------------------
(* Each tile once *)

\* No level's own stop is under another.
LEMMA OneAbove ==
  ASSUME VariableDepthAssumption, DepthInv, NEW k \in Ladder,
         \A j \in 1..k : ends[j] = stopped[j], NEW x \in Tiles(Zooms[k])
  PROVE  Cardinality(Above(k, x)) <= 1
<1>0. Ladder \subseteq Nat /\ 1..k \subseteq Ladder /\ k \in Nat
  BY LevelZooms DEF Ladder
<1>1. ASSUME NEW i \in Above(k, x), NEW j \in Above(k, x), i < j  PROVE FALSE
  <2>1. /\ i \in Ladder /\ j \in Ladder /\ i \in 1..j-1
        /\ Ancestor(x, Zooms[k], Zooms[i]) \in stopped[i]
        /\ Ancestor(x, Zooms[k], Zooms[j]) \in stopped[j]
    BY <1>0, <1>1 DEF Above
  <2>2. /\ Zooms[i] \in Nat /\ Zooms[j] \in Nat /\ Zooms[k] \in Nat /\ x \in Nat
        /\ Zooms[i] <= Zooms[j] /\ Zooms[j] <= Zooms[k]
    BY <1>0, <1>1, <2>1, LevelZooms, TilesNest DEF Above
  <2>3. Ancestor(Ancestor(x, Zooms[k], Zooms[j]), Zooms[j], Zooms[i])
          = Ancestor(x, Zooms[k], Zooms[i])
    <3>1. PICK y : y = Ancestor(x, Zooms[k], Zooms[j])
      OBVIOUS
    <3>2. Ancestor(y, Zooms[j], Zooms[i]) = Ancestor(x, Zooms[k], Zooms[i])
      BY <2>2, <3>1, AncestorsOf
    <3> QED  BY <3>1, <3>2
  <2>4. Covered(stopped, j, Ancestor(x, Zooms[k], Zooms[j]))
    BY <2>1, <2>3 DEF Covered
  <2>5. Ancestor(x, Zooms[k], Zooms[j]) \in Candidates(j, stopped)
    BY <2>1 DEF DepthInv, Probing
  <2> QED  BY <2>4, <2>5 DEF Candidates
<1>2. \A i, j \in Above(k, x) : i = j
  <2>1. Above(k, x) \subseteq Nat
    BY DEF Above
  <2> QED  BY <1>1, <2>1
<1>3. CASE Above(k, x) = {}
  BY <1>3, FS_EmptySet
<1>4. CASE Above(k, x) # {}
  <2>1. PICK i : Above(k, x) = {i}
    BY <1>2, <1>4
  <2>2. Cardinality({i}) = 1
    BY FS_Singleton
  <2> QED  BY <2>1, <2>2
<1> QED  BY <1>3, <1>4

\* What has been written of a level is each tile of its band that is under no
\* stop, and no tile has two stops at or above it: whatever the order in which
\* the prober stops tiles and the exporter draws levels.
THEOREM EveryTileOnce ==
  ASSUME VariableDepthAssumption
  PROVE  DepthSpec => []EachTileOnce
<1>1. ASSUME DepthInv  PROVE EachTileOnce
  <2>0. Ladder \subseteq Nat /\ Ladder = 1..Finest /\ Finest \in Nat
    BY LevelZooms DEF Ladder
  <2>1. ASSUME NEW k \in 1..upcoming-1
        PROVE  /\ k \in Ladder /\ k \in Nat /\ drawn[k] = Uncovered(k)
               /\ \A j \in 1..k : ends[j] = stopped[j]
    BY <1>1, <2>0 DEF DepthInv, DepthType, Drawing
  <2>2. ASSUME NEW k \in 1..upcoming-1, NEW x \in Tiles(Zooms[k])
        PROVE  /\ x \in Own(k) => (x \in drawn[k]) = (Above(k, x) = {})
               /\ Cardinality(Above(k, x)) <= 1
               /\ x \in drawn[k] => Above(k, x) = {}
    <3>1. /\ k \in Ladder /\ k \in Nat /\ k \in 1..k /\ drawn[k] = Uncovered(k)
          /\ \A j \in 1..k : ends[j] = stopped[j]
          /\ \A j : j \in 1..k <=> j \in 1..k-1 \/ j = k
      BY <2>1
    <3>2. Ancestor(x, Zooms[k], Zooms[k]) = x
      <4>1. Zooms[k] \in Nat /\ x \in Nat /\ Zooms[k] <= Zooms[k]
      BY <3>1, LevelZooms, TilesNest
    <4> QED  BY <4>1, Ancestors, Zenon
    <3>3. Above(k, x) = {} <=> x \notin stopped[k] /\ ~Covered(stopped, k, x)
      BY <3>1, <3>2 DEF Above, Covered
    <3>4. Cardinality(Above(k, x)) <= 1
      BY <1>1, <3>1, OneAbove
    <3>5. x \in drawn[k] <=> x \in Own(k) /\ Above(k, x) = {}
      BY <3>1, <3>3 DEF Uncovered
    <3> QED  BY <3>4, <3>5
  <2>3. \A k \in 1..upcoming-1 : ends[k] = stopped[k]
    BY <2>1
  <2> QED  BY <2>2, <2>3 DEF EachTileOnce, Own
<1> QED  BY <1>1, DepthInductive, PTL

-----------------------------------------------------------------------------
(* A tile that stops hides nothing *)

\* A tile under a stop is not one that may not stop.
LEMMA UnderStop ==
  ASSUME VariableDepthAssumption, DepthInv, NEW k \in Ladder, NEW t \in ends[k],
         NEW j \in k..Finest - 1, NEW x \in Tiles(Zooms[j]),
         Ancestor(x, Zooms[j], Zooms[k]) = t
  PROVE  j \in Probed /\ x \notin BadTiles(j)
<1>0. Ladder \subseteq Nat /\ Ladder = 1..Finest /\ Finest \in Nat
  BY LevelZooms DEF Ladder
<1>1. k < upcoming /\ t \in stopped[k]
  <2>1. upcoming \in Nat
    BY <1>0 DEF DepthInv, DepthType
  <2>2. ~(upcoming <= k)
    BY DEF DepthInv, Drawing
  <2>3. k < upcoming /\ k \in 1..upcoming-1
    BY <1>0, <2>1, <2>2
  <2> QED  BY <2>3 DEF DepthInv, Drawing
<1>2. k \in Probed /\ <<Zooms[k], t>> \notin blocked
  BY <1>1 DEF DepthInv, Probing, Candidates
<1>3. j \in Ladder /\ k <= j /\ j < Finest
  BY <1>0
<1>4. j \in Probed
  BY <1>2, <1>3, SomeProbed
<1>5. Zooms[k] \in 0..Zooms[j]
  BY <1>3, LevelZooms
<1>6. <<Zooms[k], t>> \in Block(j, x)
  BY <1>5 DEF Block
<1>7. ASSUME x \in BadTiles(j)  PROVE FALSE
  <2>1. Block(j, x) \in UNION {{Block(i, y) : y \in BadTiles(i)} : i \in Probed}
    BY <1>4, <1>7
  <2>2. <<Zooms[k], t>> \in Policy
    BY <1>6, <2>1 DEF Policy
  <2> QED  BY <1>2, <2>2 DEF DepthInv, Probing
<1> QED  BY <1>4, <1>7

\* As many points as the canonical band has are those points.
LEMMA SamePoints ==
  ASSUME VariableDepthAssumption, NEW j, NEW z, NEW x,
         ~(collapse /\ Mixed),
         Members(PointsShown(j), z, x) = Members(Points(Rows), z, x)
  PROVE  {r \in PointsShown(j) : x \in Reach(r, z)} = {r \in Points(Rows) : x \in Reach(r, z)}
<1> DEFINE in(rows) == {r \in rows : x \in Reach(r, z)}
<1>1. IsFiniteSet(Rows) /\ Points(Rows) \subseteq Rows
  BY DEF VariableDepthAssumption, Points
<1>2. Shown(j) \subseteq Rows /\ Reduced(j) \subseteq Rows /\ PointsShown(j) \subseteq Rows
      /\ Points(Shown(j)) \subseteq Points(Rows)
  BY DEF Shown, Reduced, PointsShown, Points
<1>3. IsFiniteSet(in(PointsShown(j))) /\ IsFiniteSet(in(Points(Rows)))
  BY <1>1, <1>2, FS_Subset
<1>4. Cardinality(in(PointsShown(j))) = Cardinality(in(Points(Rows)))
  BY DEF Members
<1>5. CASE PointsShown(j) \subseteq Points(Rows)
  <2>1. in(PointsShown(j)) \in SUBSET in(Points(Rows))
    BY <1>5
  <2>2. in(PointsShown(j)) = in(Points(Rows))
    <3> HIDE DEF in
    <3> QED  BY <1>3, <1>4, <2>1, FS_Subset
  <2> QED  BY <2>2
<1>6. CASE Points(Rows) = {}
  <2>1. in(Points(Rows)) = {}
    BY <1>6
  <2>2. in(PointsShown(j)) = in(Points(Rows))
    <3> HIDE DEF in
    <3> QED  BY <1>3, <1>4, <2>1, FS_EmptySet
  <2> QED  BY <2>2
<1>7. PointsShown(j) \subseteq Points(Rows) \/ Points(Rows) = {}
  <2>1. CASE ~collapse
    BY <1>2, <2>1 DEF PointsShown
  <2>2. CASE ~Mixed
    BY <1>2, <2>2 DEF Mixed, Points
  <2> QED  BY <2>1, <2>2
<1> QED  BY <1>5, <1>6, <1>7

\* At its own and at every finer level a drawn stop covers, the points drawn are
\* the canonical band's, none a cluster, and every row is released: the policy
\* that compares numbers of points is enough.
THEOREM StopsHideNothing ==
  ASSUME VariableDepthAssumption
  PROVE  DepthSpec => []StopsLoseNothing
<1>1. ASSUME DepthInv, NEW k \in Ladder, NEW t \in ends[k],
             NEW j \in k..Finest - 1, NEW x \in Tiles(Zooms[j]),
             Ancestor(x, Zooms[j], Zooms[k]) = t
      PROVE  LET in(rows) == {r \in rows : x \in Reach(r, Zooms[j])} IN
               /\ in(PointsShown(j)) = in(Points(Rows))
               /\ in(Clusters(j)) = {}
               /\ \A r \in in(Rows) : ReleaseZoom(r) <= Zooms[j]
  <2> DEFINE in(rows) == {r \in rows : x \in Reach(r, Zooms[j])}
  <2>1. j \in Probed /\ x \notin BadTiles(j) /\ Zooms[j] \in Nat
    BY <1>1, UnderStop, SomeProbed, LevelZooms
  <2>2. in(PointsShown(j)) = in(Points(Rows))
    <3>1. CASE x \in Reached(PointsShown(j), Zooms[j]) \cup Reached(Points(Rows), Zooms[j])
      <4>1. /\ ~(collapse /\ Mixed)
            /\ Members(PointsShown(j), Zooms[j], x) = Members(Points(Rows), Zooms[j], x)
        BY <2>1, <3>1 DEF BadTiles
      <4> QED  BY <4>1, SamePoints
    <3>2. CASE x \notin Reached(PointsShown(j), Zooms[j]) \cup Reached(Points(Rows), Zooms[j])
      BY <3>2 DEF Reached
    <3> QED  BY <3>1, <3>2
  <2>3. in(Clusters(j)) = {}
    <3>1. x \notin Reached(Clusters(j), Zooms[j])
      BY <2>1 DEF BadTiles
    <3> QED  BY <3>1 DEF Reached
  <2>4. ASSUME NEW r \in in(Rows)  PROVE ReleaseZoom(r) <= Zooms[j]
    <3>1. r \in Rows /\ ReleaseZoom(r) \in Nat
      BY Releases
    <3>2. x \notin Reached({s \in Rows : ReleaseZoom(s) > Zooms[j]}, Zooms[j])
      BY <2>1 DEF BadTiles
    <3>3. ~(ReleaseZoom(r) > Zooms[j])
      BY <3>1, <3>2 DEF Reached
    <3> QED  BY <2>1, <3>1, <3>3
  <2> QED  BY <2>2, <2>3, <2>4
<1>2. ASSUME DepthInv  PROVE StopsLoseNothing
  BY <1>1, <1>2 DEF StopsLoseNothing
<1> QED  BY <1>2, DepthInductive, PTL

=============================================================================
