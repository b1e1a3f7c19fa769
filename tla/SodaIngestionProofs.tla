------------------------ MODULE SodaIngestionProofs ------------------------
(***************************************************************************)
(* Theorems about SodaIngestion for every value of its constants.          *)
(*                                                                         *)
(* The argument has three layers: types; one cycle at a time, so that what *)
(* a task read from its row is still what the row says; and, for datasets  *)
(* that never stamp two versions alike, what the locals of a stream        *)
(* promise about the part of the dataset it has already read.              *)
(* With it the ingestion implements ChangeFeed.  Apart from this, and for  *)
(* any dataset, a step of a stream is in vain in one case only.            *)
(***************************************************************************)
EXTENDS SodaIngestion, FiniteSetTheorems, TLAPS

-----------------------------------------------------------------------------
\* While a task is between the read of its row and the write, the row is as
\* it was read, and the stream's cursor is past the one it started from.
RowAsRead ==
  \A c \in Cycles, s \in Sources :
    LET t == task[c][s]
    IN /\ t.pc \in Active =>
            /\ t.base = row[s].cursor
            /\ t.fails = row[s].failures
            /\ t.cur = 0 \/ t.base < t.cur
            /\ t.last = 0 \/ t.base < t.last
       /\ t.pc = "ensure" => t.cur = 0 /\ t.last = 0

\* The COMPLETED audit status is set where the cursor is about to be saved.
CompletedOnlyThere ==
  \A c \in Cycles, s \in Sources :
    At(c, s, "persist") => task[c][s].job = "COMPLETED"

CycleInv == TypeOK /\ SingleCycle /\ RowAsRead /\ CompletedOnlyThere

-----------------------------------------------------------------------------
\* A dataset's versions carry distinct stamps or none, and none is later than
\* its clock; a cursor is a stamp the dataset has given, or what it was seeded with;
\* and the cursor covers what lies between the seed and itself.
DatasetOk(s) ==
  /\ \A v \in pub[s] : v.stamp <= clock[s]
  /\ \A v, w \in pub[s] : v.stamp # 0 /\ v.stamp = w.stamp => v = w
  /\ floor[s] <= row[s].cursor
  /\ row[s].cursor <= clock[s] \/ row[s].cursor = floor[s]
  /\ \A v \in pub[s] :
       (v.kind # "dead" /\ floor[s] < v.stamp /\ v.stamp <= row[s].cursor)
         => v \in queued[s]

\* What a stream has read of the dataset above its base.
Read(c, s) ==
  {v \in pub[s] : /\ v.kind # "dead"
                  /\ task[c][s].base < v.stamp
                  /\ v.stamp <= task[c][s].last}

\* It is on the queue or still in the stream's hands; cursorValue never runs
\* ahead of it; and a completed stream has nothing left in its hands.
StreamOk(c, s) ==
  LET t == task[c][s]
  IN /\ t.cur <= t.last
     /\ t.last <= clock[s]
     /\ t.pc \in {"ensure", "open", "mark"} => t.last = 0
     /\ t.pc = "query" => t.cur = t.last
     /\ t.pc \in {"ensure", "open", "mark", "query", "rest", "close"}
          => t.page = {}
     /\ t.pc = "close" => t.batch = {}
     /\ t.pc \in {"query", "drain", "rest", "close"}
          => Read(c, s) \subseteq queued[s] \cup t.page \cup t.batch
     /\ t.job = "COMPLETED" =>
          /\ t.pc \in {"persist", "countfail", "fulfilled", "rejected"}
          /\ t.page = {} /\ t.batch = {}
          /\ Read(c, s) \subseteq queued[s]

FeedInv ==
  /\ CycleInv
  /\ \A s \in Sources : DatasetOk(s)
  /\ \A c \in Cycles, s \in Sources : StreamOk(c, s)

-----------------------------------------------------------------------------
(* Types.                                                                  *)

\* There are finitely many versions, so every page is finite.
LEMMA VersionsFinite ==
  IsFiniteSet(Version) /\ \A B \in SUBSET Version : Cardinality(B) \in Nat
<1> DEFINE X == (Recs \X (0 .. MaxTime)) \X Kinds
           f == [x \in X |->
                   [rec |-> x[1][1], stamp |-> x[1][2], kind |-> x[2]]]
<1>1. IsFiniteSet({"live", "dead", "invalid"})
  <2>1. IsFiniteSet({"live"})
    BY FS_Singleton
  <2>2. IsFiniteSet({"live"} \cup {"dead"})
    BY <2>1, FS_AddElement
  <2>3. IsFiniteSet(({"live"} \cup {"dead"}) \cup {"invalid"})
    BY <2>2, FS_AddElement
  <2>4. {"live", "dead", "invalid"}
          = ({"live"} \cup {"dead"}) \cup {"invalid"}
    OBVIOUS
  <2> QED BY <2>3, <2>4
<1>2. IsFiniteSet(Kinds)
  BY <1>1, FS_Subset, ConstantsAssumption
<1>3. IsFiniteSet(0 .. MaxTime)
  BY FS_Interval, ConstantsAssumption
<1>4. IsFiniteSet(X)
  BY <1>2, <1>3, FS_Product, ConstantsAssumption
<1>5. f \in Surjection(X, Version)
  <2>1. f \in [X -> Version]
    BY DEF Version
  <2>2. ASSUME NEW v \in Version PROVE \E x \in X : f[x] = v
    <3>1. <<<<v.rec, v.stamp>>, v.kind>> \in X
      BY DEF Version
    <3>2. f[<<<<v.rec, v.stamp>>, v.kind>>] = v
      BY <3>1 DEF Version
    <3> QED BY <3>1, <3>2
  <2> QED BY <2>1, <2>2 DEF Surjection
<1>6. IsFiniteSet(Version)
  BY <1>4, <1>5, FS_Surjection
<1> QED BY <1>6, FS_Subset, FS_CardinalityType

\* Replacing the locals of one task by locals of the right type keeps the
\* type of task, changes that task as told and leaves the others alone.
LEMMA BecomesEffect ==
  ASSUME task \in [Cycles -> [Sources -> Task]],
         NEW c \in Cycles, NEW s \in Sources, NEW t \in Task,
         Becomes(c, s, t)
  PROVE  /\ task' \in [Cycles -> [Sources -> Task]]
         /\ task'[c][s] = t
         /\ \A d \in Cycles, u \in Sources :
              d # c \/ u # s => task'[d][u] = task[d][u]
  BY DEF Becomes

\* Goto changes the control point of one task and nothing else of it.
LEMMA GotoEffect ==
  ASSUME task \in [Cycles -> [Sources -> Task]],
         NEW c \in Cycles, NEW s \in Sources, NEW pc \in PC,
         Goto(c, s, pc)
  PROVE  /\ Becomes(c, s, [task[c][s] EXCEPT !.pc = pc])
         /\ [task[c][s] EXCEPT !.pc = pc] \in Task
<1>1. task[c][s] \in Task
  OBVIOUS
<1>2. [task[c][s] EXCEPT !.pc = pc] \in Task
  BY <1>1 DEF Task
<1> QED BY <1>2 DEF Goto

\* The locals of a task that is off, or just started, have their type.
LEMMA OffType == Off \in Task /\ [Off EXCEPT !.pc = "ensure"] \in Task
<1>1. "off" \in PC /\ "ensure" \in PC /\ "none" \in JobStatus
  BY DEF PC, JobStatus
<1>2. /\ 0 \in 0 .. MaxTime /\ 0 \in 0 .. FailureCap
      /\ 0 \in 0 .. BatchSize - 1
  BY ConstantsAssumption
<1>3. Off \in Task
  BY <1>1, <1>2 DEF Off, Task
<1> QED BY <1>1, <1>3 DEF Task

LEMMA TypeInit == Init => TypeOK
<1> SUFFICES ASSUME Init PROVE TypeOK
  OBVIOUS
<1>1. task \in [Cycles -> [Sources -> Task]]
  BY OffType DEF Init
<1>2. row \in [Sources -> Row]
  BY ConstantsAssumption DEF Init, Row
<1>3. 0 \in 0 .. MaxTime /\ 0 \in 0 .. MaxFaults
  BY ConstantsAssumption
<1> QED BY <1>1, <1>2, <1>3 DEF Init, TypeOK

LEMMA TypeStep == TypeOK /\ [Next]_vars => TypeOK'
<1> SUFFICES ASSUME TypeOK, [Next]_vars PROVE TypeOK'
  OBVIOUS
<1> USE ConstantsAssumption
<1>1. ASSUME NEW s \in Sources, NEW r \in Recs, NEW k \in Kinds,
             Publish(s, r, k)
      PROVE  TypeOK'
  <2>1. PICK n \in NextStamps(clock[s]) \cup {0} :
          /\ clock' = [clock EXCEPT ![s] = IF n = 0 THEN @ ELSE n]
          /\ pub' = [pub EXCEPT ![s] = {v \in @ : v.rec # r}
                       \cup {[rec |-> r, stamp |-> n, kind |-> k]}]
    BY <1>1 DEF Publish
  <2>2. n \in 0 .. MaxTime
    BY <2>1 DEF NextStamps
  <2>3. [rec |-> r, stamp |-> n, kind |-> k] \in Version
    BY <2>2 DEF Version
  <2>4. pub' \in [Sources -> SUBSET Version]
    BY <2>1, <2>3 DEF TypeOK
  <2>5. clock' \in [Sources -> 0 .. MaxTime]
    BY <2>1, <2>2 DEF TypeOK
  <2> QED BY <1>1, <2>4, <2>5 DEF Publish, TypeOK
<1>2. ASSUME NEW c \in Cycles, StartCycle(c) PROVE TypeOK'
  BY <1>2, OffType DEF StartCycle, TypeOK
<1>3. ASSUME NEW c \in Cycles, EndCycle(c) PROVE TypeOK'
  BY <1>3, OffType DEF EndCycle, TypeOK
<1>4. CASE Crash
  <2>1. faults' \in 0 .. MaxFaults
    BY <1>4 DEF Crash, Fault, TypeOK
  <2>2. task' \in [Cycles -> [Sources -> Task]]
    BY <1>4, OffType DEF Crash
  <2> QED BY <1>4, <2>1, <2>2 DEF Crash, TypeOK
<1>5. ASSUME NEW c \in Cycles, NEW s \in Sources, Step(c, s)
      PROVE  TypeOK'
  <2> DEFINE t == task[c][s]
  <2>0. t \in Task /\ row[s] \in Row
    BY DEF TypeOK
  <2>p. PC = {"mark", "query", "drain", "rest", "close", "jobfail", "open",
              "persist", "countfail", "fulfilled", "rejected", "off",
              "ensure"}
    BY DEF PC, Active, Streaming, Settled
  <2>f. ASSUME NEW pc \in PC, Fails(c, s, pc)
        PROVE  task' \in [Cycles -> [Sources -> Task]]
               /\ faults' \in 0 .. MaxFaults
    <3>1. Goto(c, s, pc) /\ faults < MaxFaults /\ faults' = faults + 1
      BY <2>f DEF Fails, Fault
    <3>2. task' \in [Cycles -> [Sources -> Task]]
      BY <3>1, GotoEffect, BecomesEffect DEF TypeOK
    <3>3. faults' \in 0 .. MaxFaults
      BY <3>1 DEF TypeOK
    <3> QED BY <3>2, <3>3
  <2>1. CASE Ensure(c, s)
    <3>1. BaseCursor(s) \in 0 .. MaxTime
      BY <2>0 DEF BaseCursor, FirstCursor, Row
    <3>2. [t EXCEPT !.pc = "open", !.base = BaseCursor(s),
             !.fails = row[s].failures] \in Task
      BY <2>0, <2>p, <3>1 DEF Task, Row
    <3>3. [exists |-> TRUE, cursor |-> BaseCursor(s),
           failures |-> row[s].failures] \in Row
      BY <2>0, <3>1 DEF Row
    <3>4. ASSUME row' = [row EXCEPT ![s] =
                   [exists |-> TRUE, cursor |-> BaseCursor(s),
                    failures |-> row[s].failures]],
                 floor' = [floor EXCEPT ![s] =
                   IF row[s].cursor = 0 THEN BaseCursor(s) ELSE @],
                 Becomes(c, s, [t EXCEPT !.pc = "open",
                   !.base = BaseCursor(s), !.fails = row[s].failures]),
                 UNCHANGED faults
          PROVE  TypeOK'
      <4>1. row' \in [Sources -> Row]
        BY <3>3, <3>4 DEF TypeOK
      <4>2. floor' \in [Sources -> 0 .. MaxTime]
        BY <3>1, <3>4 DEF TypeOK
      <4>3. task' \in [Cycles -> [Sources -> Task]]
        BY <3>2, <3>4, BecomesEffect DEF TypeOK
      <4> QED BY <2>1, <3>4, <4>1, <4>2, <4>3 DEF Ensure, TypeOK
    <3>5. CASE Fails(c, s, "rejected") /\ UNCHANGED <<row, floor>>
      BY <2>1, <2>f, <2>p, <3>5 DEF Ensure, TypeOK
    <3> QED BY <2>1, <3>4, <3>5 DEF Ensure
  <2>2. CASE Open(c, s)
    <3>1. [t EXCEPT !.pc = "mark", !.job = "ACCEPTED"] \in Task
      BY <2>0, <2>p DEF Task, JobStatus
    <3> QED BY <2>2, <2>f, <2>p, <3>1, BecomesEffect
          DEF Open, StreamUnchanged, TypeOK
  <2>3. CASE Mark(c, s)
    <3>1. [t EXCEPT !.pc = "query", !.job = "PROCESSING"] \in Task
      BY <2>0, <2>p DEF Task, JobStatus
    <3> QED BY <2>3, <2>f, <2>p, <3>1, BecomesEffect
          DEF Mark, StreamUnchanged, TypeOK
  <2>4. CASE Query(c, s)
    <3>1. StreamUnchanged BY <2>4 DEF Query
    <3>2. CASE Goto(c, s, "rest") /\ UNCHANGED faults
      BY <2>p, <3>1, <3>2, GotoEffect, BecomesEffect
        DEF StreamUnchanged, TypeOK
    <3>3. CASE Fails(c, s, "rest") \/ Fails(c, s, "jobfail")
      BY <2>f, <2>p, <3>1, <3>3 DEF StreamUnchanged, TypeOK
    <3>4. ASSUME NEW P \in SUBSET pub[s], NEW z \in P, UNCHANGED faults,
                 Becomes(c, s, [t EXCEPT !.pc = "drain",
                   !.page = {v \in P : v.kind # "dead"},
                   !.full = Cardinality(P) >= PageSize,
                   !.last = z.stamp])
          PROVE  TypeOK'
      <4>1. z.stamp \in 0 .. MaxTime /\ P \subseteq Version
        BY <3>4 DEF TypeOK, Version
      <4>2. [t EXCEPT !.pc = "drain", !.page = {v \in P : v.kind # "dead"},
               !.full = Cardinality(P) >= PageSize, !.last = z.stamp] \in Task
        <5>1. (Cardinality(P) >= PageSize) \in BOOLEAN
          OBVIOUS
        <5>2. {v \in P : v.kind # "dead"} \in SUBSET Version
          BY <4>1
        <5> HIDE DEF t
        <5> QED BY <2>0, <2>p, <4>1, <5>1, <5>2 DEF Task
      <4> QED BY <3>1, <3>4, <4>2, BecomesEffect
            DEF StreamUnchanged, TypeOK
    <3> QED BY <2>4, <3>2, <3>3, <3>4 DEF Query, Selected
  <2>e. ASSUME NEW B \in SUBSET Version, NEW u \in Task, Enqueue(c, s, B, u),
               UNCHANGED <<pub, clock, row, isRunning, floor>>
        PROVE  TypeOK'
    <3>1. CASE queued' = [queued EXCEPT ![s] = @ \cup B] /\ Becomes(c, s, u)
               /\ UNCHANGED faults
      BY <2>e, <3>1, BecomesEffect DEF TypeOK
    <3>2. CASE Goto(c, s, "jobfail") /\ UNCHANGED <<queued, faults>>
      BY <2>e, <2>p, <3>2, GotoEffect, BecomesEffect DEF TypeOK
    <3>3. CASE Fails(c, s, "jobfail") /\ UNCHANGED queued
      BY <2>e, <2>f, <2>p, <3>3 DEF TypeOK
    <3> QED BY <2>e, <3>1, <3>2, <3>3 DEF Enqueue
  <2>5. CASE Drain(c, s)
    <3>0. t.page \in SUBSET Version /\ t.batch \in SUBSET Version
      BY <2>0 DEF Task
    <3>1. ASSUME NEW B \in SUBSET t.page,
                 Enqueue(c, s, t.batch \cup B, [t EXCEPT
                   !.page = @ \ B, !.batch = {}, !.size = 0])
          PROVE  TypeOK'
      <4>1. [t EXCEPT !.page = @ \ B, !.batch = {}, !.size = 0] \in Task
        <5>1. 0 \in 0 .. BatchSize - 1
          OBVIOUS
        <5>2. t.page \ B \in SUBSET Version
          BY <3>0
        <5> HIDE DEF t
        <5> QED BY <2>0, <5>1, <5>2 DEF Task
      <4>2. t.batch \cup B \in SUBSET Version
        BY <3>0
      <4> QED BY <2>5, <2>e, <3>1, <4>1, <4>2 DEF Drain
    <3>2. CASE /\ Cardinality(t.page) < Room(t)
               /\ Becomes(c, s, [t EXCEPT
                     !.pc = IF t.full THEN "query" ELSE "rest",
                     !.cur = CursorAfterPage(t),
                     !.page = {}, !.batch = @ \cup t.page,
                     !.size = @ + Cardinality(t.page)])
               /\ UNCHANGED <<queued, faults>>
      <4>1. t.size + Cardinality(t.page) \in 0 .. BatchSize - 1
        <5>1. Cardinality(t.page) \in Nat /\ t.size \in 0 .. BatchSize - 1
          BY <2>0, <3>0, VersionsFinite DEF Task
        <5> QED BY <3>2, <5>1 DEF Room
      <4>2. /\ CursorAfterPage(t) \in 0 .. MaxTime
            /\ t.batch \cup t.page \in SUBSET Version
        BY <2>0, <3>0 DEF Task, CursorAfterPage
      <4>3. [t EXCEPT !.pc = IF t.full THEN "query" ELSE "rest",
               !.cur = CursorAfterPage(t),
               !.page = {}, !.batch = @ \cup t.page,
               !.size = @ + Cardinality(t.page)] \in Task
        BY <2>0, <2>p, <4>1, <4>2 DEF Task
      <4> QED BY <2>5, <3>2, <4>3, BecomesEffect DEF Drain, TypeOK
    <3> QED BY <2>5, <3>1, <3>2 DEF Drain
  <2>6. CASE Rest(c, s)
    <3>1. CASE Goto(c, s, "close") /\ UNCHANGED <<queued, faults>>
      BY <2>6, <2>p, <3>1, GotoEffect, BecomesEffect DEF Rest, TypeOK
    <3>2. CASE Enqueue(c, s, t.batch, [t EXCEPT
                 !.pc = "close", !.batch = {}, !.size = 0])
      <4>1. [t EXCEPT !.pc = "close", !.batch = {}, !.size = 0] \in Task
            /\ t.batch \in SUBSET Version
        <5>1. 0 \in 0 .. BatchSize - 1
          OBVIOUS
        <5> HIDE DEF t
        <5> QED BY <2>0, <2>p, <5>1 DEF Task
      <4> QED BY <2>6, <2>e, <3>2, <4>1 DEF Rest
    <3> QED BY <2>6, <3>1, <3>2 DEF Rest, FlushRest
  <2>7. CASE Close(c, s)
    <3>1. [t EXCEPT !.pc = "persist", !.job = "COMPLETED"] \in Task
      BY <2>0, <2>p DEF Task, JobStatus
    <3> QED BY <2>7, <2>f, <2>p, <3>1, BecomesEffect
          DEF Close, StreamUnchanged, TypeOK
  <2>8. CASE JobFail(c, s)
    <3>1. [t EXCEPT !.pc = "countfail", !.job = "FAILED"] \in Task
      BY <2>0, <2>p DEF Task, JobStatus
    <3> QED BY <2>8, <2>f, <2>p, <3>1, BecomesEffect
          DEF JobFail, StreamUnchanged, TypeOK
  <2>9. CASE Persist(c, s)
    <3>1. NextCursor(t) \in 0 .. MaxTime
      BY <2>0 DEF NextCursor, Task
    <3>2. [row[s] EXCEPT !.cursor = NextCursor(t), !.failures = 0] \in Row
      <4>1. row[s] \in Row /\ 0 \in 0 .. FailureCap
        BY <2>0
      <4> QED BY <3>1, <4>1 DEF Row
    <3>3. CASE /\ row' = [row EXCEPT ![s] =
                    [@ EXCEPT !.cursor = NextCursor(t), !.failures = 0]]
               /\ Goto(c, s, "fulfilled")
               /\ UNCHANGED faults
      <4>1. task' \in [Cycles -> [Sources -> Task]]
        BY <2>p, <3>3, GotoEffect, BecomesEffect DEF TypeOK
      <4> QED BY <2>9, <3>2, <3>3, <4>1 DEF Persist, TypeOK
    <3>4. CASE Fails(c, s, "countfail") /\ UNCHANGED row
      BY <2>9, <2>f, <2>p, <3>4 DEF Persist, TypeOK
    <3> QED BY <2>9, <3>3, <3>4 DEF Persist
  <2>10. CASE CountFail(c, s)
    <3>1. NextFailures(t) \in 0 .. FailureCap
      BY <2>0 DEF NextFailures, Task
    <3>2. [row EXCEPT ![s] = AfterFailure(@, t)] \in [Sources -> Row]
      BY <2>0, <3>1 DEF TypeOK, Row, AfterFailure
    <3>3. CASE /\ row' = [row EXCEPT ![s] = AfterFailure(@, t)]
               /\ Goto(c, s, "fulfilled")
               /\ UNCHANGED faults
      BY <2>10, <2>p, <3>2, <3>3, GotoEffect, BecomesEffect
        DEF CountFail, TypeOK
    <3>4. CASE Fails(c, s, "rejected") /\ UNCHANGED row
      BY <2>10, <2>f, <2>p, <3>4 DEF CountFail, TypeOK
    <3> QED BY <2>10, <3>3, <3>4 DEF CountFail
  <2> QED BY <1>5, <2>1, <2>2, <2>3, <2>4, <2>5, <2>6, <2>7, <2>8, <2>9, <2>10
        DEF Step
<1>6. CASE UNCHANGED vars
  BY <1>6 DEF vars, TypeOK
<1> QED BY <1>1, <1>2, <1>3, <1>4, <1>5, <1>6 DEF Next

\* Every variable and every local keeps its type in every run.
THEOREM TypeCorrect == Spec => []TypeOK
  BY TypeInit, TypeStep, PTL DEF Spec

-----------------------------------------------------------------------------
(* What a step of one task may touch.                                      *)

\* A call that fails changes the control point of its task only.
LEMMA FailsEffect ==
  ASSUME TypeOK, NEW c \in Cycles, NEW s \in Sources, NEW pc \in PC,
         Fails(c, s, pc)
  PROVE  /\ task'[c][s] = [task[c][s] EXCEPT !.pc = pc]
         /\ \A d \in Cycles, u \in Sources :
              d # c \/ u # s => task'[d][u] = task[d][u]
<1>1. Goto(c, s, pc) /\ task \in [Cycles -> [Sources -> Task]]
  BY DEF Fails, TypeOK
<1> QED BY <1>1, GotoEffect, BecomesEffect

LEMMA GotoMoves ==
  ASSUME TypeOK, NEW c \in Cycles, NEW s \in Sources, NEW pc \in PC,
         Goto(c, s, pc)
  PROVE  /\ task'[c][s] = [task[c][s] EXCEPT !.pc = pc]
         /\ \A d \in Cycles, u \in Sources :
              d # c \/ u # s => task'[d][u] = task[d][u]
<1>1. task \in [Cycles -> [Sources -> Task]]
  BY DEF TypeOK
<1> QED BY <1>1, GotoEffect, BecomesEffect

\* Becomes without the need to know that the new locals are well typed.
LEMMA BecomesMoves ==
  ASSUME TypeOK, NEW c \in Cycles, NEW s \in Sources, NEW t,
         Becomes(c, s, t)
  PROVE  /\ task'[c][s] = t
         /\ \A d \in Cycles, u \in Sources :
              d # c \/ u # s => task'[d][u] = task[d][u]
  BY DEF Becomes, TypeOK

\* An add to the queue either takes the batch or diverts to the catch.
LEMMA EnqueueMoves ==
  ASSUME TypeOK, NEW c \in Cycles, NEW s \in Sources, NEW B, NEW t,
         Enqueue(c, s, B, t)
  PROVE  /\ \/ task'[c][s] = t /\ queued'[s] = queued[s] \cup B
            \/ /\ task'[c][s] = [task[c][s] EXCEPT !.pc = "jobfail"]
               /\ queued'[s] = queued[s]
         /\ \A d \in Cycles, u \in Sources :
              d # c \/ u # s => task'[d][u] = task[d][u]
         /\ \A u \in Sources \ {s} : queued'[u] = queued[u]
<1>0. "jobfail" \in PC
  BY DEF PC, Active, Streaming
<1>1. CASE queued' = [queued EXCEPT ![s] = @ \cup B] /\ Becomes(c, s, t)
  BY <1>1, BecomesMoves DEF TypeOK
<1>2. CASE Goto(c, s, "jobfail") /\ UNCHANGED queued
  BY <1>0, <1>2, GotoMoves
<1>3. CASE Fails(c, s, "jobfail") /\ UNCHANGED queued
  BY <1>0, <1>3, FailsEffect
<1> QED BY <1>1, <1>2, <1>3 DEF Enqueue

\* What the steps of one task leave alone: the dataset, the flag, every
\* other task, and the row and queue of every other dataset.
Frame(c, s) ==
  /\ UNCHANGED <<pub, clock, isRunning>>
  /\ \A d \in Cycles, u \in Sources :
       d # c \/ u # s => task'[d][u] = task[d][u]
  /\ \A u \in Sources \ {s} :
       row'[u] = row[u] /\ floor'[u] = floor[u] /\ queued'[u] = queued[u]

\* The row, the seed and the queue of s stay as they are.
Quiet(s) == row'[s] = row[s] /\ floor'[s] = floor[s] /\ queued'[s] = queued[s]

\* How a step moves the locals of its task, its row and its queue.
MoveEnsure(c, s) ==
  LET t == task[c][s]
  IN /\ t.pc = "ensure"
     /\ row'[s] = [exists |-> TRUE, cursor |-> BaseCursor(s),
                   failures |-> row[s].failures]
     /\ floor'[s] = IF row[s].cursor = 0 THEN BaseCursor(s) ELSE floor[s]
     /\ queued'[s] = queued[s]
     /\ task'[c][s] = [t EXCEPT !.pc = "open", !.base = BaseCursor(s),
                                !.fails = row[s].failures]

MoveQuery(c, s) ==
  LET t == task[c][s]
      V == Selected(s, t.base, t.cur)
  IN /\ t.pc = "query" /\ Quiet(s)
     /\ \E P \in SUBSET V : \E z \in P :
          /\ IsPrefix(P, V, PageSize)
          /\ \A v \in P : NotAfter(v, z)
          /\ task'[c][s] = [t EXCEPT !.pc = "drain",
                  !.page = {v \in P : v.kind # "dead"},
                  !.full = Cardinality(P) >= PageSize, !.last = z.stamp]

MoveBatch(c, s) ==
  LET t == task[c][s]
  IN /\ t.pc = "drain" /\ row'[s] = row[s] /\ floor'[s] = floor[s]
     /\ \E B \in SUBSET t.page :
          /\ Cardinality(B) = Room(t)
          /\ queued'[s] = queued[s] \cup (t.batch \cup B)
          /\ task'[c][s] = [t EXCEPT !.page = @ \ B, !.batch = {}, !.size = 0]

MovePage(c, s) ==
  LET t == task[c][s]
  IN /\ t.pc = "drain" /\ Quiet(s)
     /\ Cardinality(t.page) < Room(t)
     /\ task'[c][s] = [t EXCEPT !.pc = IF t.full THEN "query" ELSE "rest",
                         !.cur = CursorAfterPage(t),
                         !.page = {}, !.batch = @ \cup t.page,
                         !.size = @ + Cardinality(t.page)]

MoveRest(c, s) ==
  LET t == task[c][s]
  IN /\ t.pc = "rest" /\ row'[s] = row[s] /\ floor'[s] = floor[s]
     /\ queued'[s] = queued[s] \cup t.batch
     /\ \/ task'[c][s] = [t EXCEPT !.pc = "close", !.batch = {}, !.size = 0]
        \/ t.batch = {} /\ task'[c][s] = [t EXCEPT !.pc = "close"]

MovePersist(c, s) ==
  LET t == task[c][s]
  IN /\ t.pc = "persist"
     /\ row'[s] = [row[s] EXCEPT !.cursor = NextCursor(t), !.failures = 0]
     /\ floor'[s] = floor[s] /\ queued'[s] = queued[s]
     /\ task'[c][s] = [t EXCEPT !.pc = "fulfilled"]

MoveCountFail(c, s) ==
  LET t == task[c][s]
  IN /\ t.pc = "countfail"
     /\ row'[s] = AfterFailure(row[s], t)
     /\ floor'[s] = floor[s] /\ queued'[s] = queued[s]
     /\ task'[c][s] = [t EXCEPT !.pc = "fulfilled"]

\* The audit row of the stream changes status, the control point with it.
MoveJob(c, s) ==
  LET t == task[c][s]
  IN /\ Quiet(s)
     /\ \E m \in {<<"open", "mark", "ACCEPTED">>,
                  <<"mark", "query", "PROCESSING">>,
                  <<"close", "persist", "COMPLETED">>,
                  <<"jobfail", "countfail", "FAILED">>} :
          /\ t.pc = m[1]
          /\ task'[c][s] = [t EXCEPT !.pc = m[2], !.job = m[3]]

\* The control point alone moves: an empty page, or a failed call.
MovePc(c, s) ==
  LET t == task[c][s]
  IN /\ Quiet(s)
     /\ \E pc \in {"rest", "rejected", "countfail", "jobfail"} :
          /\ task'[c][s] = [t EXCEPT !.pc = pc]
          /\ t.pc = "query" \/ pc # "rest"
          /\ t.pc \in {"ensure", "countfail"} <=> pc = "rejected"
          /\ t.pc \in {"open", "jobfail", "persist"} <=> pc = "countfail"
     /\ t.pc \in Active \cup {"ensure"}

Moves(c, s) ==
  \/ MoveEnsure(c, s)
  \/ MoveQuery(c, s)
  \/ MoveBatch(c, s)
  \/ MovePage(c, s)
  \/ MoveRest(c, s)
  \/ MovePersist(c, s)
  \/ MoveCountFail(c, s)
  \/ MoveJob(c, s)
  \/ MovePc(c, s)

\* Every step of a task is one of these moves and keeps to its frame.
LEMMA StepMoves ==
  ASSUME TypeOK, NEW c \in Cycles, NEW s \in Sources, Step(c, s)
  PROVE  Frame(c, s) /\ Moves(c, s)
<1> DEFINE t == task[c][s]
<1>0. {"rejected", "countfail", "jobfail", "rest", "close", "fulfilled"}
        \subseteq PC
  BY DEF PC, Active, Streaming, Settled
<1>a. Active = {"mark", "query", "drain", "rest", "close", "jobfail", "open",
                "persist", "countfail"}
  BY DEF Active, Streaming
<1>g. ASSUME NEW pc \in {"rest", "rejected", "countfail", "jobfail"},
             Goto(c, s, pc), t.pc \in Active \cup {"ensure"},
             t.pc = "query" \/ pc # "rest",
             t.pc \in {"ensure", "countfail"} <=> pc = "rejected",
             t.pc \in {"open", "jobfail", "persist"} <=> pc = "countfail",
             UNCHANGED <<pub, clock, row, isRunning, queued, floor>>
      PROVE  Frame(c, s) /\ Moves(c, s)
  <2>1. /\ task'[c][s] = [t EXCEPT !.pc = pc]
        /\ \A d \in Cycles, u \in Sources :
             d # c \/ u # s => task'[d][u] = task[d][u]
    BY <1>0, <1>g, GotoMoves
  <2>2. Frame(c, s)
    BY <1>g, <2>1 DEF Frame
  <2>3. MovePc(c, s)
    BY <1>g, <2>1 DEF MovePc, Quiet
  <2> QED BY <2>2, <2>3 DEF Moves
<1>j. ASSUME NEW m \in {<<"open", "mark", "ACCEPTED">>,
                        <<"mark", "query", "PROCESSING">>,
                        <<"close", "persist", "COMPLETED">>,
                        <<"jobfail", "countfail", "FAILED">>},
             t.pc = m[1], Becomes(c, s, [t EXCEPT !.pc = m[2], !.job = m[3]]),
             UNCHANGED <<pub, clock, row, isRunning, queued, floor>>
      PROVE  Frame(c, s) /\ Moves(c, s)
  <2>1. /\ task'[c][s] = [t EXCEPT !.pc = m[2], !.job = m[3]]
        /\ \A d \in Cycles, u \in Sources :
             d # c \/ u # s => task'[d][u] = task[d][u]
    BY <1>j, BecomesMoves
  <2>2. Frame(c, s)
    BY <1>j, <2>1 DEF Frame
  <2>3. MoveJob(c, s)
    BY <1>j, <2>1 DEF MoveJob, Quiet
  <2> QED BY <2>2, <2>3 DEF Moves
<1>1. CASE Ensure(c, s)
  <2>0. t.pc = "ensure" /\ UNCHANGED <<pub, clock, isRunning, queued>>
    BY <1>1 DEF Ensure, At
  <2>1. CASE Fails(c, s, "rejected") /\ UNCHANGED <<row, floor>>
    BY <1>g, <2>0, <2>1 DEF Fails
  <2>2. ASSUME row' = [row EXCEPT ![s] =
                 [exists |-> TRUE, cursor |-> BaseCursor(s),
                  failures |-> row[s].failures]],
               floor' = [floor EXCEPT ![s] =
                 IF row[s].cursor = 0 THEN BaseCursor(s) ELSE @],
               Becomes(c, s, [t EXCEPT !.pc = "open",
                 !.base = BaseCursor(s), !.fails = row[s].failures])
        PROVE  Frame(c, s) /\ Moves(c, s)
    <3>1. /\ task'[c][s] = [t EXCEPT !.pc = "open",
                 !.base = BaseCursor(s), !.fails = row[s].failures]
          /\ \A d \in Cycles, u \in Sources :
               d # c \/ u # s => task'[d][u] = task[d][u]
      BY <2>2, BecomesMoves
    <3>2. /\ row'[s] = [exists |-> TRUE, cursor |-> BaseCursor(s),
                        failures |-> row[s].failures]
          /\ floor'[s] = IF row[s].cursor = 0 THEN BaseCursor(s) ELSE floor[s]
          /\ \A u \in Sources \ {s} :
               row'[u] = row[u] /\ floor'[u] = floor[u]
      BY <2>2 DEF TypeOK
    <3>3. Frame(c, s)
      BY <2>0, <3>1, <3>2 DEF Frame
    <3>4. MoveEnsure(c, s)
      BY <2>0, <3>1, <3>2 DEF MoveEnsure
    <3> QED BY <3>3, <3>4 DEF Moves
  <2> QED BY <1>1, <2>1, <2>2 DEF Ensure
<1>2. CASE Open(c, s)
  <2>0. t.pc = "open" /\ UNCHANGED <<pub, clock, row, isRunning, queued, floor>>
    BY <1>2 DEF Open, StreamUnchanged, At
  <2>1. CASE Becomes(c, s, [t EXCEPT !.pc = "mark", !.job = "ACCEPTED"])
    BY <1>j, <2>0, <2>1
  <2>2. CASE Fails(c, s, "countfail")
    BY <1>a, <1>g, <2>0, <2>2 DEF Fails
  <2> QED BY <1>2, <2>1, <2>2 DEF Open
<1>3. CASE Mark(c, s)
  <2>0. t.pc = "mark" /\ UNCHANGED <<pub, clock, row, isRunning, queued, floor>>
    BY <1>3 DEF Mark, StreamUnchanged, At
  <2>1. CASE Becomes(c, s, [t EXCEPT !.pc = "query", !.job = "PROCESSING"])
    BY <1>j, <2>0, <2>1
  <2>2. CASE Fails(c, s, "jobfail")
    BY <1>a, <1>g, <2>0, <2>2 DEF Fails
  <2> QED BY <1>3, <2>1, <2>2 DEF Mark
<1>4. CASE Query(c, s)
  <2>0. t.pc = "query"
        /\ UNCHANGED <<pub, clock, row, isRunning, queued, floor>>
    BY <1>4 DEF Query, StreamUnchanged, At
  <2>1. CASE Goto(c, s, "rest")
    BY <1>a, <1>g, <2>0, <2>1
  <2>2. CASE Fails(c, s, "rest") \/ Fails(c, s, "jobfail")
    BY <1>a, <1>g, <2>0, <2>2 DEF Fails
  <2>3. ASSUME NEW P \in SUBSET Selected(s, t.base, t.cur), NEW z \in P,
               IsPrefix(P, Selected(s, t.base, t.cur), PageSize),
               \A v \in P : NotAfter(v, z),
               Becomes(c, s, [t EXCEPT !.pc = "drain",
                 !.page = {v \in P : v.kind # "dead"},
                 !.full = Cardinality(P) >= PageSize, !.last = z.stamp])
        PROVE  Frame(c, s) /\ Moves(c, s)
    <3>1. /\ task'[c][s] = [t EXCEPT !.pc = "drain",
                 !.page = {v \in P : v.kind # "dead"},
                 !.full = Cardinality(P) >= PageSize, !.last = z.stamp]
          /\ \A d \in Cycles, u \in Sources :
               d # c \/ u # s => task'[d][u] = task[d][u]
      BY <2>3, BecomesMoves
    <3>2. Frame(c, s)
      BY <2>0, <3>1 DEF Frame
    <3>3. MoveQuery(c, s)
      BY <2>0, <2>3, <3>1 DEF MoveQuery, Quiet
    <3> QED BY <3>2, <3>3 DEF Moves
  <2> QED BY <1>4, <2>1, <2>2, <2>3 DEF Query
<1>5. CASE Drain(c, s)
  <2>0. t.pc = "drain" /\ UNCHANGED <<pub, clock, row, isRunning, floor>>
    BY <1>5 DEF Drain, At
  <2>1. ASSUME NEW B \in SUBSET t.page,
               Cardinality(B) = Room(t),
               Enqueue(c, s, t.batch \cup B, [t EXCEPT
                 !.page = @ \ B, !.batch = {}, !.size = 0])
        PROVE  Frame(c, s) /\ Moves(c, s)
    <3>1. /\ \/ /\ task'[c][s] = [t EXCEPT
                     !.page = @ \ B, !.batch = {}, !.size = 0]
                /\ queued'[s] = queued[s] \cup (t.batch \cup B)
             \/ /\ task'[c][s] = [t EXCEPT !.pc = "jobfail"]
                /\ queued'[s] = queued[s]
          /\ \A d \in Cycles, u \in Sources :
               d # c \/ u # s => task'[d][u] = task[d][u]
          /\ \A u \in Sources \ {s} : queued'[u] = queued[u]
      <4> DEFINE X == t.batch \cup B
                 Y == [t EXCEPT !.page = @ \ B, !.batch = {}, !.size = 0]
      <4>1. Enqueue(c, s, X, Y)
        BY <2>1
      <4> HIDE DEF X, Y
      <4>2. /\ \/ task'[c][s] = Y /\ queued'[s] = queued[s] \cup X
               \/ /\ task'[c][s] = [t EXCEPT !.pc = "jobfail"]
                  /\ queued'[s] = queued[s]
            /\ \A d \in Cycles, u \in Sources :
                 d # c \/ u # s => task'[d][u] = task[d][u]
            /\ \A u \in Sources \ {s} : queued'[u] = queued[u]
        BY <4>1, EnqueueMoves
      <4> QED BY <4>2 DEF X, Y
    <3>2. Frame(c, s)
      BY <2>0, <3>1 DEF Frame
    <3>3. MoveBatch(c, s) \/ MovePc(c, s)
      BY <1>a, <2>0, <2>1, <3>1 DEF MoveBatch, MovePc, Quiet
    <3> QED BY <3>2, <3>3 DEF Moves
  <2>2. CASE /\ Cardinality(t.page) < Room(t)
             /\ Becomes(c, s, [t EXCEPT
                   !.pc = IF t.full THEN "query" ELSE "rest",
                   !.cur = CursorAfterPage(t),
                   !.page = {}, !.batch = @ \cup t.page,
                   !.size = @ + Cardinality(t.page)])
             /\ UNCHANGED <<queued, faults>>
    <3>1. /\ task'[c][s] = [t EXCEPT
                   !.pc = IF t.full THEN "query" ELSE "rest",
                   !.cur = CursorAfterPage(t),
                   !.page = {}, !.batch = @ \cup t.page,
                   !.size = @ + Cardinality(t.page)]
          /\ \A d \in Cycles, u \in Sources :
               d # c \/ u # s => task'[d][u] = task[d][u]
      BY <2>2, BecomesMoves
    <3>2. Frame(c, s)
      BY <2>0, <2>2, <3>1 DEF Frame
    <3>3. MovePage(c, s)
      BY <2>0, <2>2, <3>1 DEF MovePage, Quiet
    <3> QED BY <3>2, <3>3 DEF Moves
  <2> QED BY <1>5, <2>1, <2>2 DEF Drain
<1>6. CASE Rest(c, s)
  <2>0. t.pc = "rest" /\ UNCHANGED <<pub, clock, row, isRunning, floor>>
    BY <1>6 DEF Rest, At
  <2>1. CASE t.batch = {} /\ Goto(c, s, "close") /\ UNCHANGED <<queued, faults>>
    <3>1. /\ task'[c][s] = [t EXCEPT !.pc = "close"]
          /\ \A d \in Cycles, u \in Sources :
               d # c \/ u # s => task'[d][u] = task[d][u]
      BY <1>0, <2>1, GotoMoves
    <3>2. Frame(c, s)
      BY <2>0, <2>1, <3>1 DEF Frame
    <3>3. MoveRest(c, s)
      BY <2>0, <2>1, <3>1 DEF MoveRest
    <3> QED BY <3>2, <3>3 DEF Moves
  <2>2. CASE Enqueue(c, s, t.batch, [t EXCEPT
               !.pc = "close", !.batch = {}, !.size = 0])
    <3>1. /\ \/ /\ task'[c][s] = [t EXCEPT
                     !.pc = "close", !.batch = {}, !.size = 0]
                /\ queued'[s] = queued[s] \cup t.batch
             \/ /\ task'[c][s] = [t EXCEPT !.pc = "jobfail"]
                /\ queued'[s] = queued[s]
          /\ \A d \in Cycles, u \in Sources :
               d # c \/ u # s => task'[d][u] = task[d][u]
          /\ \A u \in Sources \ {s} : queued'[u] = queued[u]
      BY <2>2, EnqueueMoves
    <3>2. Frame(c, s)
      BY <2>0, <3>1 DEF Frame
    <3>3. MoveRest(c, s) \/ MovePc(c, s)
      BY <1>a, <2>0, <3>1 DEF MoveRest, MovePc, Quiet
    <3> QED BY <3>2, <3>3 DEF Moves
  <2> QED BY <1>6, <2>1, <2>2 DEF Rest, FlushRest
<1>7. CASE Close(c, s)
  <2>0. t.pc = "close"
        /\ UNCHANGED <<pub, clock, row, isRunning, queued, floor>>
    BY <1>7 DEF Close, StreamUnchanged, At
  <2>1. CASE Becomes(c, s, [t EXCEPT !.pc = "persist", !.job = "COMPLETED"])
    BY <1>j, <2>0, <2>1
  <2>2. CASE Fails(c, s, "jobfail")
    BY <1>a, <1>g, <2>0, <2>2 DEF Fails
  <2> QED BY <1>7, <2>1, <2>2 DEF Close
<1>8. CASE JobFail(c, s)
  <2>0. t.pc = "jobfail"
        /\ UNCHANGED <<pub, clock, row, isRunning, queued, floor>>
    BY <1>8 DEF JobFail, StreamUnchanged, At
  <2>1. CASE Becomes(c, s, [t EXCEPT !.pc = "countfail", !.job = "FAILED"])
    BY <1>j, <2>0, <2>1
  <2>2. CASE Fails(c, s, "countfail")
    BY <1>a, <1>g, <2>0, <2>2 DEF Fails
  <2> QED BY <1>8, <2>1, <2>2 DEF JobFail
<1>9. CASE Persist(c, s)
  <2>0. t.pc = "persist" /\ UNCHANGED <<pub, clock, isRunning, queued, floor>>
    BY <1>9 DEF Persist, At
  <2>1. CASE /\ row' = [row EXCEPT ![s] =
                  [@ EXCEPT !.cursor = NextCursor(t), !.failures = 0]]
             /\ Goto(c, s, "fulfilled")
    <3>1. /\ task'[c][s] = [t EXCEPT !.pc = "fulfilled"]
          /\ \A d \in Cycles, u \in Sources :
               d # c \/ u # s => task'[d][u] = task[d][u]
      BY <1>0, <2>1, GotoMoves
    <3>2. Frame(c, s)
      BY <2>0, <2>1, <3>1 DEF Frame, TypeOK
    <3>3. MovePersist(c, s)
      BY <2>0, <2>1, <3>1 DEF MovePersist, TypeOK
    <3> QED BY <3>2, <3>3 DEF Moves
  <2>2. CASE Fails(c, s, "countfail") /\ UNCHANGED row
    BY <1>a, <1>g, <2>0, <2>2 DEF Fails
  <2> QED BY <1>9, <2>1, <2>2 DEF Persist
<1>10. CASE CountFail(c, s)
  <2>0. t.pc = "countfail" /\ UNCHANGED <<pub, clock, isRunning, queued, floor>>
    BY <1>10 DEF CountFail, At
  <2>1. CASE /\ row' = [row EXCEPT ![s] = AfterFailure(@, t)]
             /\ Goto(c, s, "fulfilled")
    <3>1. /\ task'[c][s] = [t EXCEPT !.pc = "fulfilled"]
          /\ \A d \in Cycles, u \in Sources :
               d # c \/ u # s => task'[d][u] = task[d][u]
      BY <1>0, <2>1, GotoMoves
    <3>2. Frame(c, s)
      BY <2>0, <2>1, <3>1 DEF Frame, TypeOK
    <3>3. MoveCountFail(c, s)
      BY <2>0, <2>1, <3>1 DEF MoveCountFail, TypeOK
    <3> QED BY <3>2, <3>3 DEF Moves
  <2>2. CASE Fails(c, s, "rejected") /\ UNCHANGED row
    BY <1>a, <1>g, <2>0, <2>2 DEF Fails
  <2> QED BY <1>10, <2>1, <2>2 DEF CountFail
<1> QED BY <1>1, <1>2, <1>3, <1>4, <1>5, <1>6, <1>7, <1>8, <1>9, <1>10
      DEF Step

-----------------------------------------------------------------------------
(* One cycle at a time.                                                    *)

LEMMA PCFacts ==
  /\ Active = {"mark", "query", "drain", "rest", "close", "jobfail", "open",
               "persist", "countfail"}
  /\ Settled = {"fulfilled", "rejected"}
  BY DEF Active, Streaming, Settled

\* A step starts from and arrives at a control point of a running task.
LEMMA MovesRunning ==
  ASSUME NEW c \in Cycles, NEW s \in Sources, TypeOK, Moves(c, s)
  PROVE  ~At(c, s, "off") /\ ~At(c, s, "off")' /\ ~At(c, s, "ensure")'
         /\ task[c][s].pc \in Active \cup {"ensure"}
<1> DEFINE t == task[c][s]
<1>0. t \in Task
  BY DEF TypeOK
<1>1. CASE MoveEnsure(c, s)
  BY <1>0, <1>1, PCFacts DEF MoveEnsure, At, Task
<1>2. CASE MoveQuery(c, s)
  BY <1>0, <1>2, PCFacts DEF MoveQuery, At, Task
<1>3. CASE MoveBatch(c, s)
  BY <1>0, <1>3, PCFacts DEF MoveBatch, At, Task
<1>4. CASE MovePage(c, s)
  BY <1>0, <1>4, PCFacts DEF MovePage, At, Task
<1>5. CASE MoveRest(c, s)
  BY <1>0, <1>5, PCFacts DEF MoveRest, At, Task
<1>6. CASE MovePersist(c, s)
  BY <1>0, <1>6, PCFacts DEF MovePersist, At, Task
<1>7. CASE MoveCountFail(c, s)
  BY <1>0, <1>7, PCFacts DEF MoveCountFail, At, Task
<1>8. CASE MoveJob(c, s)
  BY <1>0, <1>8, PCFacts DEF MoveJob, At, Task
<1>9. CASE MovePc(c, s)
  BY <1>0, <1>9, PCFacts DEF MovePc, At, Task
<1> QED BY <1>1, <1>2, <1>3, <1>4, <1>5, <1>6, <1>7, <1>8, <1>9 DEF Moves

\* No step breaks the mutual exclusion of cycles.
LEMMA SingleStep == TypeOK /\ SingleCycle /\ [Next]_vars => SingleCycle'
<1> SUFFICES ASSUME TypeOK, SingleCycle, [Next]_vars PROVE SingleCycle'
  OBVIOUS
<1>1. ASSUME NEW s \in Sources, NEW r \in Recs, NEW k \in Kinds,
             Publish(s, r, k)
      PROVE  SingleCycle'
  BY <1>1 DEF Publish, SingleCycle, At
<1>2. ASSUME NEW c \in Cycles, StartCycle(c) PROVE SingleCycle'
  <2>1. \A d \in Cycles, s \in Sources : At(d, s, "off")
    BY <1>2 DEF StartCycle, MayStart, SingleCycle
  <2>2. \A d \in Cycles \ {c}, s \in Sources : task'[d][s] = task[d][s]
    BY <1>2 DEF StartCycle, TypeOK
  <2> QED BY <1>2, <2>1, <2>2 DEF StartCycle, SingleCycle, At
<1>3. ASSUME NEW c \in Cycles, EndCycle(c) PROVE SingleCycle'
  <2>1. \A s \in Sources : ~At(c, s, "off")
    BY <1>3, PCFacts DEF EndCycle, CycleDone, At
  <2>2. \A d \in Cycles \ {c}, s \in Sources : At(d, s, "off")
    BY <2>1 DEF SingleCycle
  <2>3. \A s \in Sources : task'[c][s] = Off
    BY <1>3 DEF EndCycle, CycleDone, TypeOK
  <2>4. \A d \in Cycles \ {c}, s \in Sources : task'[d][s] = task[d][s]
    BY <1>3 DEF EndCycle, TypeOK
  <2>5. Off.pc = "off"
    BY DEF Off
  <2> QED BY <2>2, <2>3, <2>4, <2>5 DEF SingleCycle, At
<1>4. CASE Crash
  BY <1>4 DEF Crash, SingleCycle, At, Off
<1>5. ASSUME NEW c \in Cycles, NEW s \in Sources, Step(c, s)
      PROVE  SingleCycle'
  <2>1. Frame(c, s) /\ ~At(c, s, "off")
    BY <1>5, StepMoves, MovesRunning
  <2> QED BY <2>1 DEF Frame, SingleCycle, At
<1>6. CASE UNCHANGED vars
  BY <1>6 DEF vars, SingleCycle, At
<1> QED BY <1>1, <1>2, <1>3, <1>4, <1>5, <1>6 DEF Next

\* The bootstrap hook and the cron never stream at the same time.
THEOREM OneCycleAtATime == Spec => []SingleCycle
<1>1. Init => SingleCycle
  BY DEF Init, SingleCycle, At, Off
<1>2. Spec => []TypeOK
  BY TypeCorrect
<1> QED BY <1>1, <1>2, SingleStep, PTL DEF Spec

-----------------------------------------------------------------------------
(* The row a task works from.                                              *)

\* RowAsRead and CompletedOnlyThere, for one task.
RowAsReadBy(c, s) ==
  LET t == task[c][s]
  IN /\ t.pc \in Active =>
          /\ t.base = row[s].cursor
          /\ t.fails = row[s].failures
          /\ t.cur = 0 \/ t.base < t.cur
          /\ t.last = 0 \/ t.base < t.last
     /\ t.pc = "ensure" => t.cur = 0 /\ t.last = 0
     /\ t.pc = "persist" => t.job = "COMPLETED"

\* Each move keeps the row as its task read it.
LEMMA MovesRow ==
  ASSUME NEW c \in Cycles, NEW s \in Sources, TypeOK, Moves(c, s),
         RowAsReadBy(c, s), UNCHANGED pub
  PROVE  RowAsReadBy(c, s)'
<1> DEFINE t == task[c][s]
<1>0. t \in Task /\ row[s] \in Row
  BY DEF TypeOK
<1>1. CASE MoveEnsure(c, s)
  BY <1>0, <1>1, PCFacts DEF MoveEnsure, RowAsReadBy, Task
<1>2. CASE MoveQuery(c, s)
  <2>1. PICK z \in Selected(s, t.base, t.cur) :
          \E p \in SUBSET Version, f \in BOOLEAN :
            task'[c][s] = [t EXCEPT !.pc = "drain", !.page = p, !.full = f,
                                    !.last = z.stamp]
    <3>1. PICK P \in SUBSET Selected(s, t.base, t.cur) : \E z \in P :
            task'[c][s] = [t EXCEPT !.pc = "drain",
                  !.page = {v \in P : v.kind # "dead"},
                  !.full = Cardinality(P) >= PageSize, !.last = z.stamp]
      BY <1>2 DEF MoveQuery
    <3>2. {v \in P : v.kind # "dead"} \in SUBSET Version
      BY DEF TypeOK, Selected
    <3>3. (Cardinality(P) >= PageSize) \in BOOLEAN
      OBVIOUS
    <3> QED BY <3>1, <3>2, <3>3
  <2>2. z.stamp = 0 \/ t.base < z.stamp
    <3>1. z.stamp \in Nat /\ t.base \in Nat
      BY <1>0, ConstantsAssumption DEF Selected, TypeOK, Version, Task
    <3> QED BY <3>1 DEF Selected
  <2> QED BY <1>0, <1>2, <2>1, <2>2, PCFacts
        DEF MoveQuery, Quiet, RowAsReadBy, Task
<1>3. CASE MoveBatch(c, s)
  BY <1>0, <1>3, PCFacts DEF MoveBatch, RowAsReadBy, Task
<1>4. CASE MovePage(c, s)
  BY <1>0, <1>4, PCFacts DEF MovePage, Quiet, RowAsReadBy, Task, CursorAfterPage
<1>5. CASE MoveRest(c, s)
  BY <1>0, <1>5, PCFacts DEF MoveRest, RowAsReadBy, Task
<1>6. CASE MovePersist(c, s)
  BY <1>0, <1>6, PCFacts DEF MovePersist, RowAsReadBy, Task
<1>7. CASE MoveCountFail(c, s)
  BY <1>0, <1>7, PCFacts DEF MoveCountFail, AfterFailure, RowAsReadBy, Task
<1>8. CASE MoveJob(c, s)
  BY <1>0, <1>8, PCFacts DEF MoveJob, Quiet, RowAsReadBy, Task
<1>9. CASE MovePc(c, s)
  BY <1>0, <1>9, PCFacts DEF MovePc, Quiet, RowAsReadBy, Task
<1> QED BY <1>1, <1>2, <1>3, <1>4, <1>5, <1>6, <1>7, <1>8, <1>9 DEF Moves

LEMMA RowAsReadParts ==
  (RowAsRead /\ CompletedOnlyThere)
    <=> \A c \in Cycles, s \in Sources : RowAsReadBy(c, s)
  BY DEF RowAsRead, CompletedOnlyThere, RowAsReadBy, At

\* CycleInv is inductive.
LEMMA CycleStep == CycleInv /\ [Next]_vars => CycleInv'
<1> SUFFICES ASSUME CycleInv, [Next]_vars PROVE CycleInv'
  OBVIOUS
<1>a. TypeOK /\ SingleCycle /\ TypeOK' /\ SingleCycle'
  BY TypeStep, SingleStep DEF CycleInv
<1>b. \A c \in Cycles, s \in Sources : RowAsReadBy(c, s)
  BY RowAsReadParts DEF CycleInv
<1>c. (\A c \in Cycles, s \in Sources : RowAsReadBy(c, s)') => CycleInv'
  <2>1. (\A c \in Cycles, s \in Sources : RowAsReadBy(c, s)')
          => RowAsRead' /\ CompletedOnlyThere'
    BY DEF RowAsRead, CompletedOnlyThere, RowAsReadBy, At
  <2> QED BY <1>a, <2>1 DEF CycleInv
<1>o. Off.pc = "off" /\ [Off EXCEPT !.pc = "ensure"].pc = "ensure"
      /\ [Off EXCEPT !.pc = "ensure"].cur = 0
      /\ [Off EXCEPT !.pc = "ensure"].last = 0
  BY DEF Off
<1>1. ASSUME NEW s \in Sources, NEW r \in Recs, NEW k \in Kinds,
             Publish(s, r, k)
      PROVE  CycleInv'
  BY <1>1, <1>b, <1>c DEF Publish, RowAsReadBy
<1>2. ASSUME NEW c \in Cycles, StartCycle(c) PROVE CycleInv'
  <2> SUFFICES ASSUME NEW d \in Cycles, NEW s \in Sources
               PROVE  RowAsReadBy(d, s)'
    BY <1>c
  <2>1. CASE d = c
    BY <1>2, <1>a, <1>o, <2>1, PCFacts DEF StartCycle, TypeOK, RowAsReadBy
  <2>2. CASE d # c
    BY <1>2, <1>a, <1>b, <2>2 DEF StartCycle, TypeOK, RowAsReadBy
  <2> QED BY <2>1, <2>2
<1>3. ASSUME NEW c \in Cycles, EndCycle(c) PROVE CycleInv'
  <2> SUFFICES ASSUME NEW d \in Cycles, NEW s \in Sources
               PROVE  RowAsReadBy(d, s)'
    BY <1>c
  <2>1. CASE d = c
    BY <1>3, <1>a, <1>o, <2>1, PCFacts
      DEF EndCycle, CycleDone, TypeOK, RowAsReadBy
  <2>2. CASE d # c
    BY <1>3, <1>a, <1>b, <2>2 DEF EndCycle, TypeOK, RowAsReadBy
  <2> QED BY <2>1, <2>2
<1>4. CASE Crash
  BY <1>4, <1>c, <1>o, PCFacts DEF Crash, RowAsReadBy
<1>5. ASSUME NEW c \in Cycles, NEW s \in Sources, Step(c, s)
      PROVE  CycleInv'
  <2>0. Frame(c, s) /\ Moves(c, s) /\ ~At(c, s, "off")
    BY <1>5, <1>a, StepMoves, MovesRunning
  <2> SUFFICES ASSUME NEW d \in Cycles, NEW u \in Sources
               PROVE  RowAsReadBy(d, u)'
    BY <1>c
  <2>1. CASE d = c /\ u = s
    BY <2>0, <2>1, <1>a, <1>b, MovesRow DEF Frame
  <2>2. CASE u # s
    BY <2>0, <2>2, <1>b DEF Frame, RowAsReadBy
  <2>3. CASE d # c /\ u = s
    <3>1. At(d, u, "off") /\ task'[d][u] = task[d][u]
      BY <2>0, <2>3, <1>a DEF Frame, SingleCycle
    <3> QED BY <3>1, PCFacts DEF At, RowAsReadBy
  <2> QED BY <2>1, <2>2, <2>3
<1>6. CASE UNCHANGED vars
  BY <1>6, <1>b, <1>c DEF vars, RowAsReadBy
<1> QED BY <1>1, <1>2, <1>3, <1>4, <1>5, <1>6 DEF Next

LEMMA CycleInit == Init => CycleInv
<1>1. Init => SingleCycle /\ RowAsRead /\ CompletedOnlyThere
  BY PCFacts DEF Init, SingleCycle, RowAsRead, CompletedOnlyThere, At, Off
<1> QED BY <1>1, TypeInit DEF CycleInv

LEMMA CycleCorrect == Spec => []CycleInv
  BY CycleInit, CycleStep, PTL DEF Spec

\* A persisted cursor never moves back.
THEOREM CursorNeverMovesBack == Spec => CursorMonotone
<1>1. CycleInv /\ [Next]_vars =>
        [\A s \in Sources : row[s].cursor <= row'[s].cursor]_vars
  <2> SUFFICES ASSUME CycleInv, Next
               PROVE  \A s \in Sources : row[s].cursor <= row'[s].cursor
    OBVIOUS
  <2>t. /\ TypeOK
        /\ \A s \in Sources : row[s].cursor \in 0 .. MaxTime
    BY DEF CycleInv, TypeOK, Row
  <2>1. CASE UNCHANGED row
    BY <2>1, <2>t, ConstantsAssumption
  <2>2. ASSUME NEW c \in Cycles, NEW s \in Sources, Step(c, s)
        PROVE  \A u \in Sources : row[u].cursor <= row'[u].cursor
    <3>0. Frame(c, s) /\ Moves(c, s) /\ RowAsReadBy(c, s)
      BY <2>2, <2>t, StepMoves, RowAsReadParts DEF CycleInv
    <3>1. row[s].cursor <= row'[s].cursor
      <4> DEFINE t == task[c][s]
      <4>0. t \in Task /\ row[s] \in Row
        BY <2>t DEF TypeOK
      <4>1. CASE MoveEnsure(c, s)
        BY <4>0, <4>1, ConstantsAssumption
          DEF MoveEnsure, BaseCursor, FirstCursor, Row
      <4>2. CASE MovePersist(c, s)
        BY <4>0, <4>2, <3>0, PCFacts
          DEF MovePersist, RowAsReadBy, NextCursor, Row, Task
      <4>3. CASE MoveCountFail(c, s)
        BY <4>0, <4>3 DEF MoveCountFail, AfterFailure, Row
      <4>4. CASE row'[s] = row[s]
        BY <4>0, <4>4 DEF Row
      <4> QED BY <3>0, <4>1, <4>2, <4>3, <4>4
            DEF Moves, MoveQuery, MoveBatch, MovePage, MoveRest, MoveJob,
                MovePc, Quiet
    <3> QED BY <3>0, <3>1, <2>t DEF Frame
  <2> QED BY <2>1, <2>2 DEF Next, Publish, StartCycle, EndCycle, Crash
<1> QED BY <1>1, CycleCorrect, PTL DEF Spec, CursorMonotone

\* A move that is not one of the two ends leaves the count and does not end
\* its task.
LEMMA EndsAre ==
  ASSUME NEW c \in Cycles, NEW s \in Sources, TypeOK, Moves(c, s),
         ~MovePersist(c, s), ~MoveCountFail(c, s)
  PROVE  row'[s].failures = row[s].failures /\ ~Ends(c, s)
<1> DEFINE t == task[c][s]
<1>0. t \in Task /\ row[s] \in Row
  BY DEF TypeOK
<1>1. CASE MoveEnsure(c, s)
  BY <1>0, <1>1 DEF MoveEnsure, Ends, At, Task, Row
<1>2. CASE MoveQuery(c, s)
  BY <1>0, <1>2 DEF MoveQuery, Quiet, Ends, At, Task
<1>3. CASE MoveBatch(c, s)
  BY <1>0, <1>3 DEF MoveBatch, Ends, At, Task
<1>4. CASE MovePage(c, s)
  BY <1>0, <1>4 DEF MovePage, Quiet, Ends, At, Task
<1>5. CASE MoveRest(c, s)
  BY <1>0, <1>5 DEF MoveRest, Ends, At, Task
<1>6. CASE MoveJob(c, s)
  BY <1>0, <1>6 DEF MoveJob, Quiet, Ends, At, Task
<1>7. CASE MovePc(c, s)
  BY <1>0, <1>7 DEF MovePc, Quiet, Ends, At, Task
<1> QED BY <1>1, <1>2, <1>3, <1>4, <1>5, <1>6, <1>7 DEF Moves

\* No failure is lost and none is counted twice: what a task counts is one
\* more than its row says at the time, although the row was read long ago.
THEOREM FailuresCounted == Spec => FailureAccounting
<1> DEFINE Fair(c, s) ==
             Ends(c, s) =>
               \/ At(c, s, "persist") /\ task[c][s].job = "COMPLETED"
                    /\ Cleared(s)
               \/ At(c, s, "countfail") /\ Counted(s)
           Accounted ==
             \A s \in Sources :
               /\ row'[s].failures # row[s].failures =>
                    \E c \in Cycles : Ends(c, s)
               /\ \A c \in Cycles : Fair(c, s)
<1>1. CycleInv /\ [Next]_vars => [Accounted]_vars
  <2> SUFFICES ASSUME CycleInv, Next PROVE Accounted
    OBVIOUS
  <2>t. TypeOK
    BY DEF CycleInv
  <2>1. CASE row' = row /\ \A c \in Cycles, s \in Sources : ~Ends(c, s)
    BY <2>1
  <2>2. ASSUME NEW c \in Cycles, NEW s \in Sources, Step(c, s)
        PROVE  Accounted
    <3>0. Frame(c, s) /\ Moves(c, s) /\ RowAsReadBy(c, s)
      BY <2>2, <2>t, StepMoves, RowAsReadParts DEF CycleInv
    <3> DEFINE t == task[c][s]
    <3>t. t \in Task /\ row[s] \in Row
      BY <2>t DEF TypeOK
    <3>1. CASE MovePersist(c, s)
      <4>1. NextCursor(t) \in Nat /\ row[s].cursor <= NextCursor(t)
        BY <3>1, <3>0, <3>t, PCFacts, ConstantsAssumption
          DEF MovePersist, RowAsReadBy, NextCursor, Row, Task
      <4>2. Cleared(s)
        <5> DEFINE n == NextCursor(t)
        <5>1. row'[s] = [row[s] EXCEPT !.cursor = n, !.failures = 0]
          BY <3>1 DEF MovePersist
        <5> HIDE DEF n
        <5>2. row'[s].cursor = n /\ row'[s].failures = 0
          BY <5>1, <3>t DEF Row
        <5> QED BY <4>1, <5>2 DEF Cleared, n
      <4>3. At(c, s, "persist") /\ t.job = "COMPLETED" /\ Ends(c, s)
        BY <3>1, <3>0, <3>t DEF MovePersist, RowAsReadBy, Ends, At, Task
      <4> QED BY <3>0, <4>2, <4>3 DEF Frame, Ends, At
    <3>2. CASE MoveCountFail(c, s)
      <4>1. t.fails = row[s].failures
        BY <3>0, <3>2, PCFacts DEF MoveCountFail, RowAsReadBy
      <4>2. Counted(s)
        <5>1. row'[s] = [row[s] EXCEPT !.failures = NextFailures(t)]
          BY <3>2 DEF MoveCountFail, AfterFailure
        <5>2. NextFailures(t) = OneMore(row[s].failures)
          <6>1. row[s].failures \in 0 .. FailureCap
            BY <3>t DEF Row
          <6>2. row[s].failures < FailureCap \/ row[s].failures = FailureCap
            BY <6>1, ConstantsAssumption
          <6> QED BY <4>1, <6>2 DEF NextFailures, OneMore
        <5> QED BY <5>1, <5>2 DEF Counted
      <4>3. At(c, s, "countfail") /\ Ends(c, s)
        BY <3>2, <3>t DEF MoveCountFail, Ends, At, Task
      <4> QED BY <3>0, <4>2, <4>3 DEF Frame, Ends, At
    <3>3. CASE ~MovePersist(c, s) /\ ~MoveCountFail(c, s)
      <4>1. row'[s].failures = row[s].failures /\ ~Ends(c, s)
        BY <2>t, <3>0, <3>3, EndsAre
      <4> QED BY <3>0, <4>1 DEF Frame, Ends, At
    <3> QED BY <3>1, <3>2, <3>3
  <2>3. ASSUME NEW c \in Cycles, StartCycle(c) PROVE Accounted
    BY <2>1, <2>3, <2>t DEF StartCycle, Ends, At, TypeOK, Off
  <2>4. ASSUME NEW c \in Cycles, EndCycle(c) PROVE Accounted
    BY <2>1, <2>4, <2>t DEF EndCycle, Ends, At, TypeOK, Off
  <2>5. CASE Crash
    BY <2>1, <2>5 DEF Crash, Ends, At, Off
  <2>6. ASSUME NEW s \in Sources, NEW r \in Recs, NEW k \in Kinds,
               Publish(s, r, k)
        PROVE  Accounted
    BY <2>1, <2>6 DEF Publish, Ends, At
  <2> QED BY <2>2, <2>3, <2>4, <2>5, <2>6 DEF Next
<1> QED BY <1>1, CycleCorrect, PTL DEF Spec, FailureAccounting

-----------------------------------------------------------------------------
(* The cursor covers what was queued, when stamps are distinct.            *)

\* A page that is a prefix in the order of the query, ending at z, holds every
\* selected version with a stamp up to z's.
LEMMA PrefixCovers ==
  ASSUME NEW V, NEW P, NEW z \in P, NEW n, IsPrefix(P, V, n),
         V \subseteq Version,
         \A v, w \in V : v.stamp # 0 /\ v.stamp = w.stamp => v = w
  PROVE  \A v \in V : v.stamp # 0 /\ v.stamp <= z.stamp => v \in P
<1> SUFFICES ASSUME NEW v \in V, v.stamp # 0, v.stamp <= z.stamp, v \notin P
             PROVE  FALSE
  OBVIOUS
<1>1. z \in V /\ NotAfter(z, v)
  BY DEF IsPrefix
<1>2. z.stamp <= v.stamp
  BY <1>1 DEF NotAfter
<1>3. z.stamp \in Int /\ v.stamp \in Int
  BY <1>1 DEF Version
<1>4. z.stamp = v.stamp
  BY <1>2, <1>3
<1> QED BY <1>1, <1>4

\* What a dataset's stamps and its row are, as numbers.
LEMMA SourceNumbers ==
  ASSUME TypeOK, NEW s \in Sources
  PROVE  /\ row[s] \in Row
         /\ clock[s] \in Nat /\ floor[s] \in Nat
         /\ row[s].cursor \in Nat
         /\ pub[s] \subseteq Version
         /\ \A v \in Version : v.stamp \in Nat
<1>1. row[s] \in Row /\ pub[s] \subseteq Version
  BY DEF TypeOK
<1>2. clock[s] \in 0 .. MaxTime /\ floor[s] \in 0 .. MaxTime
  BY DEF TypeOK
<1>3. 0 .. MaxTime \subseteq Nat
  BY ConstantsAssumption
<1>4. row[s].cursor \in 0 .. MaxTime
  BY <1>1 DEF Row
<1>5. \A v \in Version : v.stamp \in 0 .. MaxTime
  BY DEF Version
<1> QED BY <1>1, <1>2, <1>3, <1>4, <1>5

\* The same with the locals of a task.
LEMMA Numbers ==
  ASSUME TypeOK, NEW c \in Cycles, NEW s \in Sources
  PROVE  /\ task[c][s] \in Task
         /\ row[s] \in Row
         /\ clock[s] \in Nat /\ floor[s] \in Nat
         /\ row[s].cursor \in Nat
         /\ task[c][s].base \in Nat
         /\ task[c][s].cur \in Nat
         /\ task[c][s].last \in Nat
         /\ pub[s] \subseteq Version
         /\ \A v \in Version : v.stamp \in Nat
<1>1. task[c][s] \in Task
  BY DEF TypeOK
<1>2. task[c][s].base \in 0 .. MaxTime /\ task[c][s].cur \in 0 .. MaxTime
      /\ task[c][s].last \in 0 .. MaxTime
  BY <1>1 DEF Task
<1>3. 0 .. MaxTime \subseteq Nat
  BY ConstantsAssumption
<1> QED BY <1>1, <1>2, <1>3, SourceNumbers

\* A fetched page keeps what the stream promises of what it has read.
LEMMA QueryStream ==
  ASSUME NEW c \in Cycles, NEW s \in Sources, TypeOK, DatasetOk(s),
         StreamOk(c, s), UNCHANGED <<pub, clock>>, MoveQuery(c, s)
  PROVE  StreamOk(c, s)'
<1> DEFINE t == task[c][s]
           V == Selected(s, t.base, t.cur)
<1>0. t \in Task /\ t.pc = "query" /\ queued'[s] = queued[s]
  BY Numbers DEF MoveQuery, Quiet
<1>1. PICK P \in SUBSET V : \E z \in P :
        /\ IsPrefix(P, V, PageSize)
        /\ \A v \in P : NotAfter(v, z)
        /\ task'[c][s] = [t EXCEPT !.pc = "drain",
                !.page = {v \in P : v.kind # "dead"},
                !.full = Cardinality(P) >= PageSize, !.last = z.stamp]
  BY DEF MoveQuery
<1>2. PICK z \in P :
        /\ IsPrefix(P, V, PageSize)
        /\ \A v \in P : NotAfter(v, z)
        /\ task'[c][s] = [t EXCEPT !.pc = "drain",
                !.page = {v \in P : v.kind # "dead"},
                !.full = Cardinality(P) >= PageSize, !.last = z.stamp]
  BY <1>1
<1> DEFINE u == task'[c][s]
<1>3. /\ u.pc = "drain" /\ u.page = {v \in P : v.kind # "dead"}
      /\ u.last = z.stamp /\ u.base = t.base /\ u.cur = t.cur
      /\ u.batch = t.batch /\ u.job = t.job
  <2> DEFINE q == {v \in P : v.kind # "dead"}
             f == Cardinality(P) >= PageSize
  <2>1. u = [t EXCEPT !.pc = "drain", !.page = q, !.full = f,
                      !.last = z.stamp]
    BY <1>2
  <2> HIDE DEF q, f
  <2>2. /\ u.pc = "drain" /\ u.page = q
        /\ u.last = z.stamp /\ u.base = t.base /\ u.cur = t.cur
        /\ u.batch = t.batch /\ u.job = t.job
    BY <2>1, <1>0 DEF Task
  <2> QED BY <2>2 DEF q
<1>4. /\ z \in pub[s] /\ z.stamp <= clock[s]
      /\ t.cur # 0 => t.cur < z.stamp
  BY DEF Selected, DatasetOk
<1>5. \A v \in V : v.stamp # 0 /\ v.stamp <= z.stamp => v \in P
  <2>1. /\ V \subseteq Version
        /\ \A v, w \in V : v.stamp # 0 /\ v.stamp = w.stamp => v = w
    BY Numbers DEF Selected, DatasetOk
  <2> QED BY <1>2, <2>1, PrefixCovers
<1>6. Read(c, s)' \subseteq queued'[s] \cup u.page \cup u.batch
  <2> SUFFICES ASSUME NEW v \in pub[s], v.kind # "dead",
                      t.base < v.stamp, v.stamp <= z.stamp
               PROVE  v \in queued[s] \cup u.page \cup u.batch
    BY <1>0, <1>3 DEF Read
  <2>0. v.stamp \in Nat /\ v.stamp # 0 /\ t.base \in Nat /\ t.cur \in Nat
    BY Numbers
  <2>1. CASE t.cur < v.stamp
    <3>1. v \in V
      BY <2>1 DEF Selected
    <3> QED BY <1>3, <1>5, <2>0, <3>1
  <2>2. CASE ~(t.cur < v.stamp)
    <3>1. v.stamp <= t.last
      BY <2>2, <1>0, Numbers DEF StreamOk
    <3>2. v \in Read(c, s)
      BY <3>1 DEF Read
    <3> QED BY <3>2, <1>0, <1>3 DEF StreamOk
  <2> QED BY <2>1, <2>2
<1>7. u.cur <= u.last /\ u.last <= clock'[s]
  <2>1. t.cur \in Nat /\ z.stamp \in Nat
    BY <1>4, Numbers
  <2> QED BY <1>3, <1>4, <2>1
<1>8. t.job # "COMPLETED"
  BY <1>0 DEF StreamOk
<1> HIDE DEF V
<1> QED BY <1>3, <1>6, <1>7, <1>8 DEF StreamOk

\* The locals after a move, field by field, for the moves that read nothing.
LEMMA MovesStream ==
  ASSUME NEW c \in Cycles, NEW s \in Sources, TypeOK, DatasetOk(s),
         StreamOk(c, s), UNCHANGED <<pub, clock>>, Moves(c, s)
  PROVE  StreamOk(c, s)'
<1> DEFINE t == task[c][s]
           u == task'[c][s]
<1>0. t \in Task
  BY Numbers
<1>1. CASE MoveEnsure(c, s)
  <2>1. /\ t.pc = "ensure" /\ u.pc = "open" /\ u.cur = t.cur
        /\ u.last = t.last /\ u.page = t.page /\ u.job = t.job
    BY <1>0, <1>1 DEF MoveEnsure, Task
  <2> QED BY <2>1 DEF StreamOk
<1>2. CASE MoveQuery(c, s)
  BY <1>2, QueryStream
<1>3. CASE MoveBatch(c, s)
  <2>1. PICK B \in SUBSET t.page :
          /\ queued'[s] = queued[s] \cup (t.batch \cup B)
          /\ u = [t EXCEPT !.page = @ \ B, !.batch = {}, !.size = 0]
    BY <1>3 DEF MoveBatch
  <2>2. /\ t.pc = "drain" /\ u.pc = "drain" /\ u.cur = t.cur
        /\ u.last = t.last /\ u.base = t.base /\ u.job = t.job
        /\ u.page = t.page \ B /\ u.batch = {}
    BY <1>0, <1>3, <2>1 DEF MoveBatch, Task
  <2>3. Read(c, s)' = Read(c, s)
    BY <2>2 DEF Read
  <2>4. Read(c, s)' \subseteq queued'[s] \cup u.page \cup u.batch
    BY <2>1, <2>2, <2>3 DEF StreamOk
  <2> QED BY <2>2, <2>4 DEF StreamOk
<1>4. CASE MovePage(c, s)
  <2>1. /\ t.pc = "drain" /\ u.pc = (IF t.full THEN "query" ELSE "rest")
        /\ u.cur = CursorAfterPage(t) /\ queued'[s] = queued[s]
        /\ u.last = t.last /\ u.base = t.base /\ u.job = t.job
        /\ u.page = {} /\ u.batch = t.batch \cup t.page
    BY <1>0, <1>4 DEF MovePage, Quiet, Task
  <2>2. Read(c, s)' = Read(c, s)
    BY <2>1 DEF Read
  <2>3. Read(c, s)' \subseteq queued'[s] \cup u.page \cup u.batch
    BY <2>1, <2>2 DEF StreamOk
  <2>4. u.cur \in {t.cur, t.last} /\ (u.pc = "query" => u.cur = t.last)
    BY <2>1 DEF CursorAfterPage
  <2>5. t.job # "COMPLETED" /\ u.cur <= u.last
    BY <2>1, <2>4, Numbers DEF StreamOk
  <2> QED BY <2>1, <2>3, <2>4, <2>5 DEF StreamOk
<1>5. CASE MoveRest(c, s)
  <2>1. /\ t.pc = "rest" /\ u.pc = "close" /\ u.cur = t.cur
        /\ queued'[s] = queued[s] \cup t.batch
        /\ u.last = t.last /\ u.base = t.base /\ u.job = t.job
        /\ u.page = t.page /\ u.batch = {}
    <3>1. CASE u = [t EXCEPT !.pc = "close", !.batch = {}, !.size = 0]
      BY <1>0, <1>5, <3>1 DEF MoveRest, Task
    <3>2. CASE t.batch = {} /\ u = [t EXCEPT !.pc = "close"]
      BY <1>0, <1>5, <3>2 DEF MoveRest, Task
    <3> QED BY <1>5, <3>1, <3>2 DEF MoveRest
  <2>2. Read(c, s)' = Read(c, s)
    BY <2>1 DEF Read
  <2> QED BY <2>1, <2>2 DEF StreamOk
<1>6. ASSUME MovePersist(c, s) \/ MoveCountFail(c, s) PROVE StreamOk(c, s)'
  <2>1. /\ u.pc = "fulfilled" /\ u.cur = t.cur /\ queued'[s] = queued[s]
        /\ u.last = t.last /\ u.base = t.base /\ u.job = t.job
        /\ u.page = t.page /\ u.batch = t.batch
    BY <1>0, <1>6 DEF MovePersist, MoveCountFail, Task
  <2>2. Read(c, s)' = Read(c, s)
    BY <2>1 DEF Read
  <2> QED BY <2>1, <2>2 DEF StreamOk
<1>7. CASE MoveJob(c, s)
  <2>1. /\ u.cur = t.cur /\ queued'[s] = queued[s]
        /\ u.last = t.last /\ u.base = t.base
        /\ u.page = t.page /\ u.batch = t.batch
        /\ \/ t.pc = "open" /\ u.pc = "mark" /\ u.job = "ACCEPTED"
           \/ t.pc = "mark" /\ u.pc = "query" /\ u.job = "PROCESSING"
           \/ t.pc = "close" /\ u.pc = "persist" /\ u.job = "COMPLETED"
           \/ t.pc = "jobfail" /\ u.pc = "countfail" /\ u.job = "FAILED"
    BY <1>0, <1>7 DEF MoveJob, Quiet, Task
  <2>2. Read(c, s)' = Read(c, s)
    BY <2>1 DEF Read
  <2>3. CASE t.pc = "mark"
    <3>1. t.last = 0 /\ t.cur = 0 /\ t.page = {}
      BY <2>3, Numbers DEF StreamOk
    <3>2. Read(c, s) = {}
      BY <3>1, Numbers DEF Read
    <3> QED BY <2>1, <2>2, <2>3, <3>1, <3>2 DEF StreamOk
  <2>4. CASE t.pc # "mark"
    BY <2>1, <2>2, <2>4 DEF StreamOk
  <2> QED BY <2>3, <2>4
<1>8. CASE MovePc(c, s)
  <2>1. PICK pc \in {"rest", "rejected", "countfail", "jobfail"} :
          /\ u = [t EXCEPT !.pc = pc]
          /\ t.pc = "query" \/ pc # "rest"
          /\ t.pc \in {"ensure", "countfail"} <=> pc = "rejected"
          /\ t.pc \in {"open", "jobfail", "persist"} <=> pc = "countfail"
    BY <1>8 DEF MovePc
  <2>2. /\ u.pc = pc /\ u.cur = t.cur /\ queued'[s] = queued[s]
        /\ u.last = t.last /\ u.base = t.base /\ u.job = t.job
        /\ u.page = t.page /\ u.batch = t.batch
    BY <1>0, <1>8, <2>1 DEF MovePc, Quiet, Task
  <2>3. Read(c, s)' = Read(c, s)
    BY <2>2 DEF Read
  <2>4. t.job = "COMPLETED" => pc \in {"countfail", "rejected"}
    BY <1>8, <2>1, PCFacts DEF MovePc, StreamOk
  <2> QED BY <2>1, <2>2, <2>3, <2>4 DEF StreamOk
<1> QED BY <1>1, <1>2, <1>3, <1>4, <1>5, <1>6, <1>7, <1>8 DEF Moves

\* A cursor that is saved covers what its stream has read.
LEMMA MovesDataset ==
  ASSUME NEW c \in Cycles, NEW s \in Sources, TypeOK, DatasetOk(s),
         StreamOk(c, s), RowAsReadBy(c, s), UNCHANGED <<pub, clock>>,
         Moves(c, s)
  PROVE  DatasetOk(s)' /\ queued[s] \subseteq queued'[s]
<1> DEFINE t == task[c][s]
<1>0. queued[s] \subseteq queued'[s]
  BY DEF Moves, MoveEnsure, MoveQuery, MoveBatch, MovePage, MoveRest,
         MovePersist, MoveCountFail, MoveJob, MovePc, Quiet
<1>1. CASE row'[s].cursor = row[s].cursor /\ floor'[s] = floor[s]
  BY <1>0, <1>1 DEF DatasetOk
<1>2. CASE MoveEnsure(c, s)
  <2>1. CASE row[s].cursor = 0
    <3>1. row'[s].cursor = floor'[s] /\ floor'[s] = BaseCursor(s)
      BY <1>2, <2>1 DEF MoveEnsure
    <3>2. BaseCursor(s) \in Nat
      BY <2>1, ConstantsAssumption DEF BaseCursor, FirstCursor
    <3>3. \A v \in pub[s] :
            ~(BaseCursor(s) < v.stamp /\ v.stamp <= BaseCursor(s))
      BY <3>2, Numbers
    <3>4. BaseCursor(s) <= BaseCursor(s)
      BY <3>2
    <3>5. /\ \A v \in pub'[s] : v.stamp <= clock'[s]
          /\ \A v, w \in pub'[s] :
               v.stamp # 0 /\ v.stamp = w.stamp => v = w
      BY DEF DatasetOk
    <3>6. \A v \in pub'[s] :
            ~(floor'[s] < v.stamp /\ v.stamp <= row'[s].cursor)
      BY <3>1, <3>3
    <3>7. floor'[s] <= row'[s].cursor /\ row'[s].cursor = floor'[s]
      BY <3>1, <3>4
    <3> QED BY <1>0, <3>5, <3>6, <3>7 DEF DatasetOk
  <2>2. CASE row[s].cursor # 0
    BY <1>1, <1>2, <2>2 DEF MoveEnsure, BaseCursor
  <2> QED BY <2>1, <2>2
<1>3. CASE MovePersist(c, s)
  <2>1. /\ row'[s].cursor = NextCursor(t) /\ floor'[s] = floor[s]
        /\ t.pc = "persist" /\ t.job = "COMPLETED"
        /\ t.base = row[s].cursor
        /\ t.cur = 0 \/ t.base < t.cur
    BY <1>3, Numbers, PCFacts DEF MovePersist, RowAsReadBy, Row
  <2>2. CASE t.cur = 0
    BY <1>1, <2>1, <2>2 DEF NextCursor
  <2>3. CASE t.cur # 0
    <3>1. row'[s].cursor = t.cur /\ row[s].cursor < t.cur
      BY <2>1, <2>3 DEF NextCursor
    <3>2. t.cur <= t.last /\ t.last <= clock[s]
          /\ Read(c, s) \subseteq queued[s]
      BY <2>1 DEF StreamOk
    <3>3. ASSUME NEW v \in pub[s], v.kind # "dead", floor[s] < v.stamp,
                 v.stamp <= t.cur
          PROVE  v \in queued[s]
      <4>1. CASE v.stamp <= row[s].cursor
        BY <3>3, <4>1 DEF DatasetOk
      <4>2. CASE ~(v.stamp <= row[s].cursor)
        <5>1. t.base < v.stamp /\ v.stamp <= t.last
          BY <2>1, <3>2, <3>3, <4>2, Numbers
        <5> QED BY <3>2, <3>3, <5>1 DEF Read
      <4> QED BY <4>1, <4>2
    <3>4. floor[s] <= t.cur /\ t.cur <= clock[s]
      BY <3>1, <3>2, Numbers DEF DatasetOk
    <3> QED BY <1>0, <2>1, <3>1, <3>3, <3>4 DEF DatasetOk
  <2> QED BY <2>2, <2>3
<1>4. CASE MoveCountFail(c, s)
  <2>1. row'[s].cursor = row[s].cursor
    BY <1>4, Numbers DEF MoveCountFail, AfterFailure, Row
  <2> QED BY <1>1, <1>4, <2>1 DEF MoveCountFail
<1> QED BY <1>0, <1>1, <1>2, <1>3, <1>4
      DEF Moves, MoveQuery, MoveBatch, MovePage, MoveRest, MoveJob, MovePc,
          Quiet

\* What Publish does to the dataset it names, when stamps are distinct: the
\* new version is later than all others, or has no stamp.
LEMMA PublishEffect ==
  ASSUME ~Ties, TypeOK, NEW s \in Sources, NEW r \in Recs, NEW k \in Kinds,
         Publish(s, r, k)
  PROVE  \E new :
           /\ clock'[s] \in Nat /\ clock[s] <= clock'[s]
           /\ \/ new.stamp = 0
              \/ new.stamp = clock'[s] /\ clock[s] < clock'[s]
           /\ pub'[s] \subseteq pub[s] \cup {new}
<1>1. PICK n \in NextStamps(clock[s]) \cup {0} :
        /\ clock' = [clock EXCEPT ![s] = IF n = 0 THEN @ ELSE n]
        /\ pub' = [pub EXCEPT ![s] =
             {v \in @ : v.rec # r} \cup {[rec |-> r, stamp |-> n, kind |-> k]}]
  BY DEF Publish
<1>2. n = 0 \/ (n \in 1 .. MaxTime /\ n > clock[s])
  BY DEF NextStamps
<1>3. pub'[s] \subseteq pub[s] \cup {[rec |-> r, stamp |-> n, kind |-> k]}
  BY <1>1 DEF TypeOK
<1>4. clock'[s] = IF n = 0 THEN clock[s] ELSE n
  BY <1>1 DEF TypeOK
<1>5. /\ clock'[s] \in Nat /\ clock[s] <= clock'[s]
      /\ n = 0 \/ (n = clock'[s] /\ clock[s] < clock'[s])
  BY <1>2, <1>4, SourceNumbers, ConstantsAssumption
<1>6. [rec |-> r, stamp |-> n, kind |-> k].stamp = n
  OBVIOUS
<1> QED BY <1>3, <1>5, <1>6

\* A version that is the latest, or without a stamp, disturbs no promise.
LEMMA PublishDataset ==
  ASSUME ~Ties, TypeOK, NEW u \in Sources, NEW r \in Recs, NEW k \in Kinds,
         Publish(u, r, k), NEW s \in Sources, DatasetOk(s)
  PROVE  DatasetOk(s)'
<1>0. UNCHANGED <<row, task, queued, floor>>
  BY DEF Publish
<1>1. CASE s # u
  <2>1. pub'[s] = pub[s] /\ clock'[s] = clock[s]
    BY <1>1 DEF Publish, TypeOK
  <2> QED BY <1>0, <2>1 DEF DatasetOk
<1>2. CASE s = u
  <2>1. PICK new :
          /\ clock'[s] \in Nat /\ clock[s] <= clock'[s]
          /\ \/ new.stamp = 0
             \/ new.stamp = clock'[s] /\ clock[s] < clock'[s]
          /\ pub'[s] \subseteq pub[s] \cup {new}
    BY <1>2, PublishEffect
  <2>2. \A v \in pub'[s] : v = new \/ (v \in pub[s] /\ v.stamp <= clock[s])
    BY <2>1 DEF DatasetOk
  <2>3. \A v \in pub[s] : v.stamp \in Nat
    BY SourceNumbers
  <2>n. clock[s] \in Nat /\ row[s].cursor \in Nat /\ floor[s] \in Nat
    BY SourceNumbers
  <2>4. \A v \in pub'[s] : v.stamp <= clock'[s]
    <3> SUFFICES ASSUME NEW v \in pub'[s] PROVE v.stamp <= clock'[s]
      OBVIOUS
    <3>1. CASE v = new
      BY <3>1, <2>1, <2>n
    <3>2. CASE v \in pub[s] /\ v.stamp <= clock[s]
      BY <3>2, <2>1, <2>3, <2>n
    <3> QED BY <2>2, <3>1, <3>2
  <2>5. \A v, w \in pub'[s] : v.stamp # 0 /\ v.stamp = w.stamp => v = w
    <3> SUFFICES ASSUME NEW v \in pub'[s], NEW w \in pub'[s],
                        v.stamp # 0, v.stamp = w.stamp
                 PROVE  v = w
      OBVIOUS
    <3>1. CASE v = new /\ w # new
      <4>1. w.stamp = clock'[s] /\ w.stamp <= clock[s] /\ clock[s] < clock'[s]
        BY <3>1, <2>1, <2>2
      <4> QED BY <4>1, <2>1, <2>n
    <3>2. CASE w = new /\ v # new
      <4>1. v.stamp = clock'[s] /\ v.stamp <= clock[s] /\ clock[s] < clock'[s]
        BY <3>2, <2>1, <2>2
      <4> QED BY <4>1, <2>1, <2>n
    <3>3. CASE v # new /\ w # new
      BY <3>3, <2>2 DEF DatasetOk
    <3> QED BY <3>1, <3>2, <3>3
  <2>6. /\ floor'[s] <= row'[s].cursor
        /\ row'[s].cursor <= clock'[s] \/ row'[s].cursor = floor'[s]
    <3>1. /\ floor[s] <= row[s].cursor
          /\ row[s].cursor <= clock[s] \/ row[s].cursor = floor[s]
      BY DEF DatasetOk
    <3> QED BY <1>0, <2>1, <2>n, <3>1
  <2>7. ASSUME NEW v \in pub'[s], v.kind # "dead", floor'[s] < v.stamp,
               v.stamp <= row'[s].cursor
        PROVE  v \in queued'[s]
    <3>1. CASE v = new
      <4>1. floor[s] < v.stamp /\ v.stamp <= row[s].cursor
            /\ (row[s].cursor <= clock[s] \/ row[s].cursor = floor[s])
        BY <1>0, <2>7 DEF DatasetOk
      <4>2. v.stamp = 0 \/ (v.stamp = clock'[s] /\ clock[s] < clock'[s])
        BY <3>1, <2>1
      <4> QED BY <4>1, <4>2, <2>1, <2>n
    <3>2. CASE v \in pub[s]
      BY <3>2, <1>0, <2>7 DEF DatasetOk
    <3> QED BY <2>2, <3>1, <3>2
  <2> QED BY <2>4, <2>5, <2>6, <2>7 DEF DatasetOk
<1> QED BY <1>1, <1>2

LEMMA PublishStream ==
  ASSUME ~Ties, TypeOK, NEW u \in Sources, NEW r \in Recs, NEW k \in Kinds,
         Publish(u, r, k), NEW s \in Sources, NEW c \in Cycles,
         StreamOk(c, s)
  PROVE  StreamOk(c, s)'
<1>0. UNCHANGED <<row, task, queued, floor>>
  BY DEF Publish
<1>1. CASE s # u
  <2>1. pub'[s] = pub[s] /\ clock'[s] = clock[s]
    BY <1>1 DEF Publish, TypeOK
  <2> QED BY <1>0, <2>1 DEF StreamOk, Read
<1>2. CASE s = u
  <2>1. PICK new :
          /\ clock'[s] \in Nat /\ clock[s] <= clock'[s]
          /\ \/ new.stamp = 0
             \/ new.stamp = clock'[s] /\ clock[s] < clock'[s]
          /\ pub'[s] \subseteq pub[s] \cup {new}
    BY <1>2, PublishEffect
  <2>2. task[c][s].last <= clock[s]
    BY DEF StreamOk
  <2>n. clock[s] \in Nat /\ task[c][s].base \in Nat /\ task[c][s].last \in Nat
    BY Numbers
  <2>3. Read(c, s)' \subseteq Read(c, s)
    <3> SUFFICES ASSUME NEW v \in pub'[s], v.kind # "dead",
                        task[c][s].base < v.stamp,
                        v.stamp <= task[c][s].last
                 PROVE  v \in pub[s]
      BY <1>0 DEF Read
    <3>1. v # new
      BY <2>1, <2>2, <2>n
    <3> QED BY <2>1, <3>1
  <2>4. task'[c][s].last <= clock'[s]
    BY <1>0, <2>1, <2>2, <2>n
  <2> QED BY <1>0, <2>3, <2>4 DEF StreamOk
<1> QED BY <1>1, <1>2

\* A task that is off, or that starts, has read nothing.
LEMMA OffStream ==
  ASSUME TypeOK, NEW c \in Cycles, NEW s \in Sources,
         task'[c][s] \in {Off, [Off EXCEPT !.pc = "ensure"]},
         UNCHANGED <<pub, clock, queued>>
  PROVE  StreamOk(c, s)'
<1>1. LET t == task'[c][s]
      IN /\ t.pc \in {"off", "ensure"} /\ t.cur = 0 /\ t.last = 0
         /\ t.page = {} /\ t.batch = {} /\ t.job = "none"
  BY DEF Off
<1>2. clock'[s] \in Nat
  BY Numbers
<1> QED BY <1>1, <1>2 DEF StreamOk

\* FeedInv is inductive.
LEMMA FeedStep ==
  ASSUME ~Ties PROVE FeedInv /\ [Next]_vars => FeedInv'
<1> SUFFICES ASSUME FeedInv, [Next]_vars PROVE FeedInv'
  OBVIOUS
<1>a. CycleInv /\ CycleInv' /\ TypeOK
  BY CycleStep DEF FeedInv, CycleInv
<1>b. /\ \A s \in Sources : DatasetOk(s)
      /\ \A c \in Cycles, s \in Sources : StreamOk(c, s)
      /\ \A c \in Cycles, s \in Sources : RowAsReadBy(c, s)
  BY RowAsReadParts DEF FeedInv, CycleInv
<1>c. ASSUME \A s \in Sources : DatasetOk(s)',
             \A c \in Cycles, s \in Sources : StreamOk(c, s)'
      PROVE  FeedInv'
  BY <1>a, <1>c DEF FeedInv
<1>1. ASSUME NEW s \in Sources, NEW r \in Recs, NEW k \in Kinds,
             Publish(s, r, k)
      PROVE  FeedInv'
  <2>1. ASSUME NEW u \in Sources PROVE DatasetOk(u)'
    BY <1>1, <1>a, <1>b, PublishDataset
  <2>2. ASSUME NEW c \in Cycles, NEW u \in Sources PROVE StreamOk(c, u)'
    BY <1>1, <1>a, <1>b, PublishStream
  <2> QED BY <1>c, <2>1, <2>2
<1>2. ASSUME UNCHANGED <<pub, clock, row, queued, floor>>,
             \A d \in Cycles, s \in Sources :
               task'[d][s] \in {task[d][s], Off, [Off EXCEPT !.pc = "ensure"]}
      PROVE  FeedInv'
  <2>1. ASSUME NEW s \in Sources PROVE DatasetOk(s)'
    BY <1>2, <1>b, <2>1 DEF DatasetOk
  <2>2. ASSUME NEW d \in Cycles, NEW s \in Sources PROVE StreamOk(d, s)'
    <3>1. CASE task'[d][s] = task[d][s]
      BY <1>2, <1>b, <3>1 DEF StreamOk, Read
    <3>2. CASE task'[d][s] # task[d][s]
      BY <1>2, <1>a, <3>2, OffStream
    <3> QED BY <3>1, <3>2
  <2> QED BY <1>c, <2>1, <2>2
<1>3. ASSUME NEW c \in Cycles, StartCycle(c) PROVE FeedInv'
  BY <1>2, <1>3, <1>a DEF StartCycle, TypeOK
<1>4. ASSUME NEW c \in Cycles, EndCycle(c) PROVE FeedInv'
  BY <1>2, <1>4, <1>a DEF EndCycle, TypeOK
<1>5. CASE Crash
  BY <1>2, <1>5 DEF Crash
<1>6. ASSUME NEW c \in Cycles, NEW s \in Sources, Step(c, s)
      PROVE  FeedInv'
  <2>0. Frame(c, s) /\ Moves(c, s) /\ UNCHANGED <<pub, clock>>
    BY <1>6, <1>a, StepMoves DEF Frame
  <2>1. StreamOk(c, s)' /\ DatasetOk(s)' /\ queued[s] \subseteq queued'[s]
    BY <2>0, <1>a, <1>b, MovesStream, MovesDataset
  <2>2. ASSUME NEW u \in Sources PROVE DatasetOk(u)'
    <3>1. CASE u # s
      BY <2>0, <1>b, <3>1 DEF Frame, DatasetOk
    <3> QED BY <2>1, <3>1
  <2>3. ASSUME NEW d \in Cycles, NEW u \in Sources PROVE StreamOk(d, u)'
    <3>1. CASE d # c \/ u # s
      <4>1. task'[d][u] = task[d][u] /\ queued[u] \subseteq queued'[u]
        BY <2>0, <2>1, <3>1 DEF Frame
      <4>2. Read(d, u)' = Read(d, u)
        BY <2>0, <4>1 DEF Read
      <4> QED BY <2>0, <1>b, <4>1, <4>2 DEF StreamOk
    <3> QED BY <2>1, <3>1
  <2> QED BY <1>c, <2>2, <2>3
<1>7. CASE UNCHANGED vars
  BY <1>2, <1>7 DEF vars
<1> QED BY <1>1, <1>3, <1>4, <1>5, <1>6, <1>7 DEF Next

LEMMA FeedInit == Init => FeedInv
<1> SUFFICES ASSUME Init PROVE FeedInv
  OBVIOUS
<1>1. CycleInv
  BY CycleInit
<1>2. \A s \in Sources : DatasetOk(s)
  BY ConstantsAssumption DEF Init, DatasetOk
<1>3. ASSUME NEW c \in Cycles, NEW s \in Sources PROVE StreamOk(c, s)
  BY <1>3 DEF Init, StreamOk, Off
<1> QED BY <1>1, <1>2, <1>3 DEF FeedInv

\* If no dataset stamps two versions alike, a persisted cursor never hides a
\* version that still has to be queued, whatever fails, crashes or restarts.
THEOREM CursorIsSafe ==
  ASSUME ~Ties PROVE Spec => []CursorCovers
<1>1. FeedInv => CursorCovers
  BY DEF FeedInv, DatasetOk, CursorCovers
<1>2. FeedInv /\ [Next]_vars => FeedInv'
  BY FeedStep
<1> QED BY <1>1, <1>2, FeedInit, PTL DEF Spec

\* Under the same assumption a stream's audit row says COMPLETED only when
\* all it fetched is on the queue.
THEOREM CompletedIsHandedOver ==
  ASSUME ~Ties PROVE Spec => []CompletedStreamHandedOver
<1>1. FeedInv => CompletedStreamHandedOver
  <2> SUFFICES ASSUME FeedInv, NEW c \in Cycles, NEW s \in Sources,
                      task[c][s].job = "COMPLETED"
               PROVE  /\ task[c][s].page \cup task[c][s].batch = {}
                      /\ \A v \in Selected(s, task[c][s].base, 0) :
                           (/\ v.kind # "dead"
                            /\ v.stamp \in 1 .. task[c][s].last)
                              => v \in queued[s]
    BY DEF CompletedStreamHandedOver
  <2>1. StreamOk(c, s) /\ task[c][s].base \in Nat
    BY Numbers DEF FeedInv, CycleInv
  <2>2. ASSUME NEW v \in Selected(s, task[c][s].base, 0), v.kind # "dead",
               v.stamp \in 1 .. task[c][s].last
        PROVE  v \in queued[s]
    <3>1. v \in pub[s] /\ v.stamp <= task[c][s].last
      BY <2>2 DEF Selected
    <3>2. task[c][s].base < v.stamp
      <4>1. task[c][s].base # 0 => v.stamp > task[c][s].base
        BY <2>2 DEF Selected
      <4>2. v.stamp \in Int /\ 1 <= v.stamp
        BY <2>2
      <4> QED BY <4>1, <4>2, <2>1
    <3> QED BY <2>1, <2>2, <3>1, <3>2 DEF StreamOk, Read
  <2> QED BY <2>1, <2>2 DEF StreamOk
<1>2. FeedInv /\ [Next]_vars => FeedInv'
  BY FeedStep
<1> QED BY <1>1, <1>2, FeedInit, PTL DEF Spec

-----------------------------------------------------------------------------
(* The ingestion implements the at-least-once feed.                        *)

\* What is on the queue, or on its way there, the dataset has published.
Published(B, s) == \A v \in B : v \in Version /\ v.stamp <= clock[s]

HandsOk(c, s) ==
  Published(task[c][s].page, s) /\ Published(task[c][s].batch, s)

RefineInv ==
  /\ FeedInv
  /\ \A c \in Cycles, s \in Sources : HandsOk(c, s)

LEMMA HandsStep ==
  ASSUME FeedInv, NEW c \in Cycles, NEW s \in Sources, Moves(c, s),
         HandsOk(c, s), UNCHANGED <<pub, clock>>
  PROVE  HandsOk(c, s)'
<1> DEFINE t == task[c][s]
           u == task'[c][s]
<1>0. t \in Task /\ DatasetOk(s)
  BY Numbers DEF FeedInv, CycleInv
<1>1. CASE MoveQuery(c, s)
  <2>1. PICK P \in SUBSET Selected(s, t.base, t.cur) : \E z \in P :
          u = [t EXCEPT !.pc = "drain",
                  !.page = {v \in P : v.kind # "dead"},
                  !.full = Cardinality(P) >= PageSize, !.last = z.stamp]
    BY <1>1 DEF MoveQuery
  <2> DEFINE q == {v \in P : v.kind # "dead"}
             f == Cardinality(P) >= PageSize
  <2>2. \E z \in P : u = [t EXCEPT !.pc = "drain", !.page = q, !.full = f,
                                   !.last = z.stamp]
    BY <2>1
  <2> HIDE DEF q, f
  <2>3. u.page = q /\ u.batch = t.batch
    BY <1>0, <2>2 DEF Task
  <2>4. Published(q, s)
    BY <1>0 DEF q, Selected, Published, DatasetOk, FeedInv, CycleInv, TypeOK
  <2> QED BY <2>3, <2>4 DEF HandsOk, Published
<1>2. CASE MoveBatch(c, s)
  BY <1>0, <1>2 DEF MoveBatch, HandsOk, Published, Task
<1>3. CASE MovePage(c, s)
  BY <1>0, <1>3 DEF MovePage, HandsOk, Published, Task
<1>4. CASE MoveRest(c, s)
  BY <1>0, <1>4 DEF MoveRest, HandsOk, Published, Task
<1>5. CASE u.page = t.page /\ u.batch = t.batch
  BY <1>5 DEF HandsOk, Published
<1>6. CASE MoveEnsure(c, s) \/ MovePersist(c, s) \/ MoveCountFail(c, s)
  BY <1>0, <1>5, <1>6 DEF MoveEnsure, MovePersist, MoveCountFail, Task
<1>7. CASE MoveJob(c, s)
  BY <1>0, <1>5, <1>7 DEF MoveJob, Task
<1>8. CASE MovePc(c, s)
  BY <1>0, <1>5, <1>8 DEF MovePc, Task
<1> QED BY <1>1, <1>2, <1>3, <1>4, <1>6, <1>7, <1>8 DEF Moves

LEMMA RefineStep ==
  ASSUME ~Ties PROVE RefineInv /\ [Next]_vars => RefineInv'
<1> SUFFICES ASSUME RefineInv, [Next]_vars PROVE RefineInv'
  OBVIOUS
<1>a. FeedInv /\ FeedInv' /\ TypeOK
  BY FeedStep DEF RefineInv, FeedInv, CycleInv
<1>b. \A c \in Cycles, s \in Sources : HandsOk(c, s)
  BY DEF RefineInv
<1> SUFFICES ASSUME NEW d \in Cycles, NEW u \in Sources
             PROVE  HandsOk(d, u)'
  BY <1>a DEF RefineInv
<1>1. ASSUME task'[d][u].page \in {task[d][u].page, {}},
             task'[d][u].batch \in {task[d][u].batch, {}},
             clock'[u] \in Nat, clock[u] <= clock'[u]
      PROVE  HandsOk(d, u)'
  BY <1>1, <1>a, <1>b, SourceNumbers DEF HandsOk, Published
<1>k. ASSUME UNCHANGED clock PROVE clock'[u] \in Nat /\ clock[u] <= clock'[u]
  BY <1>a, <1>k, SourceNumbers
<1>2. ASSUME NEW s \in Sources, NEW r \in Recs, NEW k \in Kinds,
             Publish(s, r, k)
      PROVE  HandsOk(d, u)'
  <2>1. clock'[u] \in Nat /\ clock[u] <= clock'[u]
    <3>1. CASE u = s
      BY <1>2, <1>a, <3>1, PublishEffect, SourceNumbers
    <3>2. CASE u # s
      BY <1>2, <1>a, <3>2, SourceNumbers DEF Publish, TypeOK
    <3> QED BY <3>1, <3>2
  <2> QED BY <1>1, <1>2, <2>1 DEF Publish
<1>3. ASSUME UNCHANGED clock,
             task'[d][u] \in {task[d][u], Off, [Off EXCEPT !.pc = "ensure"]}
      PROVE  HandsOk(d, u)'
  BY <1>1, <1>3, <1>k DEF Off
<1>4. ASSUME NEW c \in Cycles, StartCycle(c) PROVE HandsOk(d, u)'
  BY <1>3, <1>4, <1>a DEF StartCycle, TypeOK
<1>5. ASSUME NEW c \in Cycles, EndCycle(c) PROVE HandsOk(d, u)'
  BY <1>3, <1>5, <1>a DEF EndCycle, TypeOK
<1>6. CASE Crash
  BY <1>3, <1>6 DEF Crash
<1>7. ASSUME NEW c \in Cycles, NEW s \in Sources, Step(c, s)
      PROVE  HandsOk(d, u)'
  <2>0. Frame(c, s) /\ Moves(c, s) /\ UNCHANGED <<pub, clock>>
    BY <1>7, <1>a, StepMoves DEF Frame
  <2>1. CASE d = c /\ u = s
    BY <2>0, <2>1, <1>a, <1>b, HandsStep
  <2>2. CASE d # c \/ u # s
    BY <2>0, <2>2, <1>3 DEF Frame
  <2> QED BY <2>1, <2>2
<1>8. CASE UNCHANGED vars
  BY <1>3, <1>8 DEF vars
<1> QED BY <1>2, <1>4, <1>5, <1>6, <1>7, <1>8 DEF Next

LEMMA RefineInit == Init => RefineInv
<1> SUFFICES ASSUME Init PROVE RefineInv
  OBVIOUS
<1>1. FeedInv
  BY FeedInit
<1>2. \A c \in Cycles, s \in Sources : HandsOk(c, s)
  BY DEF Init, HandsOk, Published, Off
<1> QED BY <1>1, <1>2 DEF RefineInv

\* The cursors of the rows, as the feed sees them.
Cursors == [s \in Sources |-> row[s].cursor]

\* A step of one task is a step of the feed or a stutter.
LEMMA FeedMove ==
  ASSUME RefineInv, FeedInv', NEW c \in Cycles, NEW s \in Sources,
         Frame(c, s), Moves(c, s)
  PROVE  [Feed!Next]_(Feed!vars)
<1> DEFINE t == task[c][s]
<1>a. /\ TypeOK /\ TypeOK' /\ UNCHANGED <<pub, clock>>
      /\ DatasetOk(s) /\ DatasetOk(s)' /\ StreamOk(c, s)
      /\ HandsOk(c, s) /\ RowAsReadBy(c, s)
  BY RowAsReadParts DEF RefineInv, FeedInv, CycleInv, Frame
<1>b. \A u \in Sources \ {s} :
        row'[u] = row[u] /\ floor'[u] = floor[u] /\ queued'[u] = queued[u]
  BY DEF Frame
<1>f. ASSUME floor'[s] = floor[s] PROVE UNCHANGED floor
  BY <1>a, <1>b, <1>f DEF TypeOK
<1>q. ASSUME queued'[s] = queued[s] PROVE UNCHANGED queued
  BY <1>a, <1>b, <1>q DEF TypeOK
<1>c. ASSUME row'[s].cursor = row[s].cursor
      PROVE  [u \in Sources |-> row'[u].cursor]
               = [u \in Sources |-> row[u].cursor]
  BY <1>b, <1>c
<1>s. ASSUME row'[s].cursor = row[s].cursor, floor'[s] = floor[s],
             queued'[s] = queued[s]
      PROVE  UNCHANGED Feed!vars
  BY <1>a, <1>c, <1>f, <1>q, <1>s DEF Feed!vars
<1>d. ASSUME NEW B, Published(B, s), queued'[s] = queued[s] \cup B,
             row'[s].cursor = row[s].cursor, floor'[s] = floor[s]
      PROVE  [Feed!Next]_(Feed!vars)
  <2>1. queued' = [queued EXCEPT ![s] = @ \cup queued'[s]]
    BY <1>a, <1>b, <1>d DEF TypeOK
  <2>2. \A v \in queued'[s] \ queued[s] :
          v \in Feed!Version /\ v.stamp <= clock[s]
    BY <1>d DEF Published, Version, Feed!Version
  <2>3. Feed!Deliver(s)
    BY <1>a, <1>c, <1>d, <1>f, <2>1, <2>2 DEF Feed!Deliver
  <2> QED BY <2>3 DEF Feed!Next
<1>e. ASSUME NEW n, row'[s].cursor = n
      PROVE  [u \in Sources |-> row'[u].cursor]
               = [[u \in Sources |-> row[u].cursor] EXCEPT ![s] = n]
  BY <1>b, <1>e
<1>n. row'[s].cursor \in 0 .. MaxTime
  BY <1>a DEF TypeOK, Row
<1>1. CASE MoveEnsure(c, s)
  <2>0. row'[s].cursor = BaseCursor(s) /\ queued'[s] = queued[s]
    BY <1>1 DEF MoveEnsure
  <2>1. CASE row[s].cursor # 0
    <3>1. BaseCursor(s) = row[s].cursor /\ floor'[s] = floor[s]
      BY <1>1, <2>1 DEF MoveEnsure, BaseCursor
    <3> QED BY <1>s, <2>0, <3>1
  <2>2. CASE row[s].cursor = 0 /\ BaseCursor(s) = 0
    <3>1. floor[s] = 0
      BY <1>a, <2>2, Numbers DEF DatasetOk
    <3>2. floor'[s] = 0
      BY <1>1, <2>2 DEF MoveEnsure
    <3> QED BY <1>s, <2>0, <2>2, <3>1, <3>2
  <2>3. CASE row[s].cursor = 0 /\ BaseCursor(s) # 0
    <3>1. PICK n \in 1 .. MaxTime : n = BaseCursor(s)
      BY <1>n, <2>0, <2>3, ConstantsAssumption
    <3>2. floor'[s] = n
      BY <1>1, <2>3, <3>1 DEF MoveEnsure
    <3>3. floor' = [floor EXCEPT ![s] = n]
      BY <1>a, <1>b, <3>2 DEF TypeOK
    <3>4. row'[s].cursor = n
      BY <2>0, <3>1
    <3>5. Feed!Seed(s, n)
      BY <1>a, <1>e, <1>q, <2>0, <2>3, <3>3, <3>4 DEF Feed!Seed
    <3> QED BY <3>5 DEF Feed!Next
  <2> QED BY <2>1, <2>2, <2>3
<1>2. CASE MoveBatch(c, s)
  <2>1. PICK B \in SUBSET t.page : queued'[s] = queued[s] \cup (t.batch \cup B)
    BY <1>2 DEF MoveBatch
  <2>2. Published(t.batch \cup B, s)
    BY <1>a DEF HandsOk, Published
  <2> QED BY <1>2, <1>d, <2>1, <2>2 DEF MoveBatch
<1>3. CASE MoveRest(c, s)
  BY <1>3, <1>a, <1>d DEF MoveRest, HandsOk
<1>4. CASE MovePersist(c, s)
  <2>1. /\ row'[s].cursor = NextCursor(t) /\ t.base = row[s].cursor
        /\ floor'[s] = floor[s] /\ queued'[s] = queued[s]
        /\ t.cur = 0 \/ t.base < t.cur
    BY <1>4, <1>a, Numbers, PCFacts DEF MovePersist, RowAsReadBy, Row
  <2>2. CASE t.cur = 0
    BY <1>s, <2>1, <2>2 DEF NextCursor
  <2>3. CASE t.cur # 0
    <3>1. row'[s].cursor = t.cur /\ row[s].cursor < t.cur
      BY <2>1, <2>3 DEF NextCursor
    <3>2. PICK n \in 1 .. MaxTime : n = t.cur
      BY <1>n, <2>3, <3>1, ConstantsAssumption
    <3>3. Feed!Owed(s, n) \subseteq queued[s]
      BY <1>a, <2>1, <3>1, <3>2 DEF Feed!Owed, DatasetOk
    <3>4. n <= clock[s]
      BY <1>a, <3>2, Numbers DEF StreamOk
    <3>5. Feed!Advance(s, n)
      BY <1>a, <1>e, <1>f, <1>q, <2>1, <3>1, <3>2, <3>3, <3>4
      DEF Feed!Advance
    <3> QED BY <3>5 DEF Feed!Next
  <2> QED BY <2>2, <2>3
<1>5. CASE MoveCountFail(c, s)
  <2>1. row'[s].cursor = row[s].cursor
    BY <1>5, <1>a, Numbers DEF MoveCountFail, AfterFailure, Row
  <2> QED BY <1>5, <1>s, <2>1 DEF MoveCountFail
<1>6. CASE Quiet(s)
  BY <1>6, <1>s DEF Quiet
<1> QED BY <1>1, <1>2, <1>3, <1>4, <1>5, <1>6
      DEF Moves, MoveQuery, MovePage, MoveJob, MovePc

\* Every step of the ingestion is a step of the feed or a stutter.
LEMMA FeedNext ==
  ASSUME ~Ties, RefineInv, [Next]_vars
  PROVE  [Feed!Next]_(Feed!vars)
<1>a. FeedInv /\ FeedInv' /\ TypeOK
  BY FeedStep DEF RefineInv, FeedInv, CycleInv
<1>b. \A s \in Sources : Cursors[s] = row[s].cursor
  BY DEF Cursors
<1>v. ASSUME UNCHANGED <<pub, clock, row, floor, queued>>
      PROVE  UNCHANGED Feed!vars
  BY <1>v DEF Feed!vars
<1>1. ASSUME NEW s \in Sources, NEW r \in Recs, NEW k \in Kinds,
             Publish(s, r, k)
      PROVE  [Feed!Next]_(Feed!vars)
  <2>1. PICK n \in NextStamps(clock[s]) \cup {0} :
          /\ clock' = [clock EXCEPT ![s] = IF n = 0 THEN @ ELSE n]
          /\ pub' = [pub EXCEPT ![s] = {v \in @ : v.rec # r}
                       \cup {[rec |-> r, stamp |-> n, kind |-> k]}]
    BY <1>1 DEF Publish
  <2> DEFINE v == [rec |-> r, stamp |-> n, kind |-> k]
  <2>2. n \in 0 .. MaxTime /\ (n = 0 \/ clock[s] < n)
    BY <1>a, SourceNumbers, ConstantsAssumption DEF NextStamps
  <2>3. v \in Feed!Version /\ v.stamp = n /\ v.rec = r
    BY <2>2 DEF Feed!Version
  <2>4. Feed!Publish(s, v)
    BY <1>1, <2>1, <2>2, <2>3 DEF Publish, Feed!Publish
  <2> QED BY <2>3, <2>4 DEF Feed!Next
<1>2. ASSUME NEW c \in Cycles, NEW s \in Sources, Step(c, s)
      PROVE  [Feed!Next]_(Feed!vars)
  BY <1>2, <1>a, FeedMove, StepMoves DEF RefineInv, FeedInv
<1>3. ASSUME NEW c \in Cycles, StartCycle(c) \/ EndCycle(c)
      PROVE  [Feed!Next]_(Feed!vars)
  BY <1>3, <1>v DEF StartCycle, EndCycle
<1>4. CASE Crash
  BY <1>4, <1>v DEF Crash
<1>5. CASE UNCHANGED vars
  BY <1>5, <1>v DEF vars
<1> QED BY <1>1, <1>2, <1>3, <1>4, <1>5 DEF Next

\* If no dataset stamps two versions alike, the whole of the ingestion, with
\* its cycles, pages, micro-batches, failures and crashes, implements the
\* at-least-once feed.
THEOREM IngestionImplementsFeed ==
  ASSUME ~Ties PROVE Spec => ImplementsFeed
<1>1. Init => Feed!Init
  BY DEF Init, Feed!Init
<1>2. RefineInv /\ [Next]_vars => RefineInv'
  BY RefineStep
<1>3. RefineInv /\ [Next]_vars => [Feed!Next]_(Feed!vars)
  BY FeedNext
<1> QED BY <1>1, <1>2, <1>3, RefineInit, PTL
      DEF Spec, ImplementsFeed, Feed!Spec

-----------------------------------------------------------------------------
(* What CycleEnds rests on: no step of a stream is in vain, except the one *)
(* that StartsOver is about, and while the flag is up some cycle has tasks *)
(* to step or is over.                                                     *)

\* How far along its run a task is.
Stage(pc) ==
  CASE pc = "ensure"    -> 1
    [] pc = "open"      -> 2
    [] pc = "mark"      -> 3
    [] pc = "query"     -> 4
    [] pc = "drain"     -> 5
    [] pc = "rest"      -> 6
    [] pc = "close"     -> 7
    [] pc \in {"persist", "jobfail"} -> 8
    [] pc = "countfail" -> 9
    [] OTHER            -> 10

\* Locals u are further than locals t: by the cursor, then by the stage, then
\* by the records of the page that are left.
Further(u, t) ==
  \/ t.cur < u.cur
  \/ u.cur = t.cur /\ Stage(t.pc) < Stage(u.pc)
  \/ /\ u.cur = t.cur /\ u.pc = t.pc
     /\ u.page \subseteq t.page /\ u.page # t.page

\* The cursor is undefined after a full page (soda-streamer.service.ts:180):
\* its last record has no ordering field, which a query returns only when it
\* has neither base nor cursor.
CursorUndefined(t) ==
  t.pc = "drain" /\ t.full /\ t.last = 0 /\ t.base = 0 /\ t.cur = 0

\* The stream that goes on from t with u asks for its first page again.
AsksAgain(u, t) == CursorUndefined(t) /\ u.pc = "query" /\ u.cur = 0

EveryStepAdvances ==
  [][\A c \in Cycles, s \in Sources :
       Step(c, s) => \/ Further(task'[c][s], task[c][s])
                     \/ AsksAgain(task'[c][s], task[c][s])]_vars

FlagHasTasks ==
  isRunning => \E c \in Cycles : \A s \in Sources : ~At(c, s, "off")

\* What the loop over the pages relies on: the page it drains ends after the
\* cursor, unless there is neither cursor nor base.
LoopOk(t) ==
  t.pc = "drain" =>
    \/ t.cur < t.last
    \/ t.last = 0 /\ t.base = 0 /\ t.cur = 0

LoopInv ==
  /\ TypeOK
  /\ \A c \in Cycles, s \in Sources : LoopOk(task[c][s])

LEMMA StageIs ==
  /\ Stage("ensure") = 1 /\ Stage("open") = 2 /\ Stage("mark") = 3
  /\ Stage("query") = 4 /\ Stage("drain") = 5 /\ Stage("rest") = 6
  /\ Stage("close") = 7 /\ Stage("persist") = 8 /\ Stage("jobfail") = 8
  /\ Stage("countfail") = 9
  /\ Stage("fulfilled") = 10 /\ Stage("rejected") = 10
BY DEF Stage

\* A page is read above the cursor, so its last record is, too, unless it has
\* no ordering field.
LEMMA QueryAdvances ==
  ASSUME LoopInv, NEW c \in Cycles, NEW s \in Sources, MoveQuery(c, s)
  PROVE  /\ LoopOk(task'[c][s])
         /\ Further(task'[c][s], task[c][s])
<1> DEFINE t == task[c][s]
           u == task'[c][s]
<1>1. t \in Task /\ pub[s] \subseteq Version
  BY DEF LoopInv, TypeOK
<1>2. PICK P \in SUBSET Selected(s, t.base, t.cur) : \E z \in P :
        u = [t EXCEPT !.pc = "drain",
                !.page = {v \in P : v.kind # "dead"},
                !.full = Cardinality(P) >= PageSize, !.last = z.stamp]
  BY DEF MoveQuery
<1> DEFINE q == {v \in P : v.kind # "dead"}
           f == Cardinality(P) >= PageSize
<1>3. PICK z \in P : u = [t EXCEPT !.pc = "drain", !.page = q, !.full = f,
                                   !.last = z.stamp]
  BY <1>2
<1>4. /\ t.base # 0 => z.stamp > t.base
      /\ t.cur # 0 => z.stamp > t.cur
  BY DEF Selected
<1>5. z.stamp \in Nat /\ t.base \in Nat /\ t.cur \in Nat
  <2>1. z \in Version
    BY <1>1 DEF Selected
  <2> QED BY <2>1, Numbers DEF LoopInv
<1> HIDE DEF q, f
<1>6. /\ u.pc = "drain" /\ u.base = t.base
      /\ u.cur = t.cur /\ u.last = z.stamp
  BY <1>1, <1>3 DEF Task
<1>7. t.cur < z.stamp \/ (z.stamp = 0 /\ t.base = 0 /\ t.cur = 0)
  BY <1>4, <1>5
<1>8. LoopOk(u)
  BY <1>6, <1>7 DEF LoopOk
<1>9. Further(u, t)
  BY <1>6, StageIs DEF MoveQuery, Further
<1> QED BY <1>8, <1>9

\* A batch takes a record of the page at least, since it had room for one.
LEMMA BatchAdvances ==
  ASSUME LoopInv, NEW c \in Cycles, NEW s \in Sources, MoveBatch(c, s)
  PROVE  /\ LoopOk(task'[c][s])
         /\ Further(task'[c][s], task[c][s])
<1> DEFINE t == task[c][s]
           u == task'[c][s]
<1>1. t \in Task /\ LoopOk(t) /\ t.pc = "drain"
  BY DEF LoopInv, TypeOK, MoveBatch
<1>2. PICK B \in SUBSET t.page :
        /\ Cardinality(B) = Room(t)
        /\ u = [t EXCEPT !.page = @ \ B, !.batch = {}, !.size = 0]
  BY DEF MoveBatch
<1>3. Room(t) \in Nat \ {0}
  <2>1. t.size \in 0 .. BatchSize - 1
    BY <1>1 DEF Task
  <2> QED BY <2>1, ConstantsAssumption DEF Room
<1>4. B # {}
  BY <1>2, <1>3, FS_EmptySet
<1> DEFINE r == t.page \ B
<1>5. r \subseteq t.page /\ r # t.page
  BY <1>4
<1>6. u = [t EXCEPT !.page = r, !.batch = {}, !.size = 0]
  BY <1>2
<1> HIDE DEF r
<1>7. /\ u.page = r /\ u.pc = "drain" /\ u.base = t.base
      /\ u.cur = t.cur /\ u.last = t.last
  BY <1>1, <1>6 DEF Task
<1>8. LoopOk(u)
  BY <1>1, <1>7 DEF LoopOk
<1>9. Further(u, t)
  BY <1>1, <1>5, <1>7 DEF Further
<1> QED BY <1>8, <1>9

\* The end of a page: a full one moves the cursor to its last record, or, if
\* that has no ordering field, leaves it undefined.
LEMMA PageAdvances ==
  ASSUME LoopInv, NEW c \in Cycles, NEW s \in Sources, MovePage(c, s)
  PROVE  /\ LoopOk(task'[c][s])
         /\ \/ Further(task'[c][s], task[c][s])
            \/ AsksAgain(task'[c][s], task[c][s])
<1> DEFINE t == task[c][s]
           u == task'[c][s]
           b == t.batch \cup t.page
           n == CursorAfterPage(t)
           p == IF t.full THEN "query" ELSE "rest"
           m == t.size + Cardinality(t.page)
<1>1. t \in Task /\ LoopOk(t) /\ t.pc = "drain"
  BY DEF LoopInv, TypeOK, MovePage
<1>2. u = [t EXCEPT !.pc = p, !.cur = n, !.page = {}, !.batch = b, !.size = m]
  BY DEF MovePage
<1>3. /\ p # "drain"
      /\ t.full => p = "query" /\ n = t.last
      /\ ~t.full => p = "rest" /\ n = t.cur
  BY DEF CursorAfterPage
<1>4. t.cur < t.last \/ (t.last = 0 /\ t.base = 0 /\ t.cur = 0)
  BY <1>1 DEF LoopOk
<1> HIDE DEF b, n, p, m
<1>5. u.pc = p /\ u.cur = n
  BY <1>1, <1>2 DEF Task
<1>6. LoopOk(u)
  BY <1>3, <1>5 DEF LoopOk
<1>7. CASE ~t.full
  BY <1>1, <1>3, <1>5, <1>6, <1>7, StageIs DEF Further
<1>8. CASE t.full /\ t.cur < t.last
  BY <1>3, <1>5, <1>6, <1>8 DEF Further
<1>9. CASE t.full /\ t.last = 0 /\ t.base = 0 /\ t.cur = 0
  BY <1>1, <1>3, <1>5, <1>6, <1>9 DEF AsksAgain, CursorUndefined
<1> QED BY <1>4, <1>7, <1>8, <1>9

LEMMA MovesAdvance ==
  ASSUME LoopInv, NEW c \in Cycles, NEW s \in Sources, Moves(c, s)
  PROVE  /\ LoopOk(task'[c][s])
         /\ \/ Further(task'[c][s], task[c][s])
            \/ AsksAgain(task'[c][s], task[c][s])
<1> DEFINE t == task[c][s]
           u == task'[c][s]
<1>1. t \in Task /\ LoopOk(t)
  BY DEF LoopInv, TypeOK
<1>2. ASSUME u.cur = t.cur, u.pc # "drain", Stage(t.pc) < Stage(u.pc)
      PROVE  LoopOk(u) /\ Further(u, t)
  BY <1>2 DEF LoopOk, Further
<1>3. CASE MoveEnsure(c, s)
  <2> DEFINE b == BaseCursor(s)
             f == row[s].failures
  <2>1. t.pc = "ensure" /\ u = [t EXCEPT !.pc = "open", !.base = b, !.fails = f]
    BY <1>3 DEF MoveEnsure
  <2> HIDE DEF b, f
  <2>2. u.cur = t.cur /\ u.pc = "open"
    BY <1>1, <2>1 DEF Task
  <2> QED BY <1>2, <2>1, <2>2, StageIs
<1>4. CASE MoveRest(c, s)
  <2>1. /\ t.pc = "rest"
        /\ \/ u = [t EXCEPT !.pc = "close", !.batch = {}, !.size = 0]
           \/ u = [t EXCEPT !.pc = "close"]
    BY <1>4 DEF MoveRest
  <2>2. u.cur = t.cur /\ u.pc = "close"
    BY <1>1, <2>1 DEF Task
  <2> QED BY <1>2, <2>1, <2>2, StageIs
<1>5. CASE MovePersist(c, s) \/ MoveCountFail(c, s)
  <2>1. t.pc \in {"persist", "countfail"} /\ u = [t EXCEPT !.pc = "fulfilled"]
    BY <1>5 DEF MovePersist, MoveCountFail
  <2>2. u.cur = t.cur /\ u.pc = "fulfilled"
    BY <1>1, <2>1 DEF Task
  <2> QED BY <1>2, <2>1, <2>2, StageIs
<1>6. CASE MoveJob(c, s)
  <2>1. PICK m \in {<<"open", "mark", "ACCEPTED">>,
                    <<"mark", "query", "PROCESSING">>,
                    <<"close", "persist", "COMPLETED">>,
                    <<"jobfail", "countfail", "FAILED">>} :
          t.pc = m[1] /\ u = [t EXCEPT !.pc = m[2], !.job = m[3]]
    BY <1>6 DEF MoveJob
  <2>2. u.cur = t.cur /\ u.pc = m[2]
    BY <1>1, <2>1 DEF Task
  <2>3. m[2] # "drain" /\ Stage(m[1]) < Stage(m[2])
    BY StageIs
  <2> QED BY <1>2, <2>1, <2>2, <2>3
<1>7. CASE MovePc(c, s)
  <2>1. PICK pc \in {"rest", "rejected", "countfail", "jobfail"} :
          /\ u = [t EXCEPT !.pc = pc]
          /\ t.pc = "query" \/ pc # "rest"
          /\ t.pc \in {"ensure", "countfail"} <=> pc = "rejected"
          /\ t.pc \in {"open", "jobfail", "persist"} <=> pc = "countfail"
    BY <1>7 DEF MovePc
  <2>2. u.cur = t.cur /\ u.pc = pc
    BY <1>1, <2>1 DEF Task
  <2>3. t.pc \in {"ensure", "open", "mark", "query", "drain", "rest", "close",
                  "persist", "jobfail", "countfail"}
    BY <1>7, PCFacts DEF MovePc
  <2>4. pc # "drain" /\ Stage(t.pc) < Stage(pc)
    BY <2>1, <2>3, StageIs
  <2> QED BY <1>2, <2>2, <2>4
<1> QED BY <1>3, <1>4, <1>5, <1>6, <1>7, QueryAdvances, BatchAdvances,
           PageAdvances DEF Moves

LEMMA LoopStep == LoopInv /\ [Next]_vars => LoopInv'
<1> SUFFICES ASSUME LoopInv, [Next]_vars PROVE LoopInv'
  OBVIOUS
<1>a. TypeOK /\ TypeOK'
  BY TypeStep DEF LoopInv
<1>b. \A c \in Cycles, s \in Sources : LoopOk(task[c][s])
  BY DEF LoopInv
<1>c. ASSUME \A d \in Cycles, u \in Sources :
               \/ task'[d][u] = task[d][u]
               \/ task'[d][u] \in {Off, [Off EXCEPT !.pc = "ensure"]}
               \/ LoopOk(task'[d][u])
      PROVE  LoopInv'
  <2>1. LoopOk(Off) /\ LoopOk([Off EXCEPT !.pc = "ensure"])
    BY DEF Off, LoopOk
  <2>2. \A d \in Cycles, u \in Sources : LoopOk(task'[d][u])
    BY <1>b, <1>c, <2>1
  <2> QED BY <1>a, <2>2 DEF LoopInv
<1>1. ASSUME NEW s \in Sources, NEW r \in Recs, NEW k \in Kinds, Publish(s, r, k)
      PROVE  LoopInv'
  BY <1>1, <1>c DEF Publish
<1>2. ASSUME NEW c \in Cycles, StartCycle(c) \/ EndCycle(c) PROVE LoopInv'
  BY <1>2, <1>a, <1>c DEF StartCycle, EndCycle, TypeOK
<1>3. CASE Crash
  BY <1>3, <1>c DEF Crash
<1>4. ASSUME NEW c \in Cycles, NEW s \in Sources, Step(c, s) PROVE LoopInv'
  <2>1. Frame(c, s) /\ Moves(c, s)
    BY <1>4, <1>a, StepMoves
  <2>2. LoopOk(task'[c][s])
    BY <2>1, MovesAdvance
  <2> QED BY <1>c, <2>1, <2>2 DEF Frame
<1>5. CASE UNCHANGED vars
  BY <1>5, <1>c DEF vars
<1> QED BY <1>1, <1>2, <1>3, <1>4, <1>5 DEF Next

LEMMA LoopInit == Init => LoopInv
<1> SUFFICES ASSUME Init PROVE LoopInv
  OBVIOUS
<1>1. \A c \in Cycles, s \in Sources : LoopOk(task[c][s])
  BY DEF Init, Off, LoopOk
<1> QED BY <1>1, TypeInit DEF LoopInv

\* A stream goes in circles in one case only (soda-streamer.service.ts): each
\* step of a task moves its cursor up or, at the same cursor, takes it to a
\* later stage, and an add of a batch leaves less of the page; or the step is
\* the end of a full page whose last record has no ordering field, and the
\* stream had neither a base nor a cursor.  Also with ties: a page of equal
\* stamps loses records, but does not keep the loop from ending.
THEOREM StreamsAdvance == Spec => EveryStepAdvances
<1> DEFINE A == \A c \in Cycles, s \in Sources :
                  Step(c, s) => \/ Further(task'[c][s], task[c][s])
                                \/ AsksAgain(task'[c][s], task[c][s])
<1>1. LoopInv /\ [Next]_vars => [A]_vars
  <2> SUFFICES ASSUME LoopInv, NEW c \in Cycles, NEW s \in Sources, Step(c, s)
               PROVE  \/ Further(task'[c][s], task[c][s])
                      \/ AsksAgain(task'[c][s], task[c][s])
    OBVIOUS
  <2>1. Moves(c, s)
    BY StepMoves DEF LoopInv
  <2> QED BY <2>1, MovesAdvance
<1> QED BY <1>1, LoopInit, LoopStep, PTL DEF Spec, EveryStepAdvances

\* isRunning is never left up by itself (soda-ingestion.service.ts): while it
\* is, one cycle has a task for each dataset, under way or over.
THEOREM FlagIsHeld == Spec => []FlagHasTasks
<1>1. Init => FlagHasTasks
  BY DEF Init, FlagHasTasks
<1>2. TypeOK /\ SingleCycle /\ FlagHasTasks /\ [Next]_vars => FlagHasTasks'
  <2> SUFFICES ASSUME TypeOK, SingleCycle, FlagHasTasks, [Next]_vars, isRunning'
               PROVE  \E c \in Cycles : \A s \in Sources : ~At(c, s, "off")'
    BY DEF FlagHasTasks
  <2>1. ASSUME NEW c \in Cycles, StartCycle(c)
        PROVE  \A s \in Sources : ~At(c, s, "off")'
    BY <2>1 DEF StartCycle, TypeOK, At, Off
  <2>2. ASSUME NEW c \in Cycles, EndCycle(c) PROVE FALSE
    BY <2>2 DEF EndCycle
  <2>3. CASE Crash
    BY <2>3 DEF Crash
  <2>4. ASSUME NEW c \in Cycles, NEW s \in Sources, Step(c, s)
        PROVE  \E d \in Cycles : \A u \in Sources : ~At(d, u, "off")'
    <3>1. Frame(c, s) /\ ~At(c, s, "off") /\ ~At(c, s, "off")'
      BY <2>4, StepMoves, MovesRunning
    <3>2. PICK d \in Cycles : \A u \in Sources : ~At(d, u, "off")
      BY <3>1 DEF FlagHasTasks, Frame
    <3>3. \A u \in Sources : ~At(d, u, "off")'
      BY <3>1, <3>2 DEF Frame, At
    <3> QED BY <3>3
  <2>5. CASE \/ UNCHANGED vars
             \/ \E s \in Sources, r \in Recs, k \in Kinds : Publish(s, r, k)
    BY <2>5 DEF vars, Publish, FlagHasTasks, At
  <2> QED BY <2>1, <2>2, <2>3, <2>4, <2>5 DEF Next
<1> QED BY <1>1, <1>2, TypeCorrect, OneCycleAtATime, PTL DEF Spec

=============================================================================
