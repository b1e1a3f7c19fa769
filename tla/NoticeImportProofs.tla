-------------------------- MODULE NoticeImportProofs --------------------------
(***************************************************************************)
(* Proofs about NoticeImport, for any number of jobs, messages, workers,   *)
(* records and attempts.                                                   *)
(*                                                                         *)
(* What the row of a bulk job says rests on three things: the job has one  *)
(* message (QueueOk), a message is one chunk, so a run has all or nothing  *)
(* to report (RunOk), and a row holds the last version of its identifier   *)
(* in the message it came by (NewestOk).  That it tells the inserted from  *)
(* the updated rests on what the look-up of the run missed (SeenInv).  The *)
(* order of versions rests on the queue being first in, first out for      *)
(* first runs (OrderInv).                                                  *)
(***************************************************************************)
EXTENDS NoticeImport, FiniteSetTheorems, TLAPS

\* Messages belong to jobs that were saved, and a bulk job has but one.
QueueOk ==
  /\ \A m \in Msgs :
       /\ msg[m].state = "none" => msg[m] = NoMsg
       /\ msg[m].state # "none" =>
            /\ msg[m].job \in Jobs
            /\ phase[msg[m].job] # "idle"
            /\ msg[m].job \in Bulks => phase[msg[m].job] = "done"
       /\ msg[m].pc # "idle" <=> msg[m].state = "active"
  /\ \A m, k \in Msgs :
       (msg[m].job \in Bulks /\ msg[k].job = msg[m].job) => m = k
  /\ \A j \in Jobs : phase[j] = "streaming" => j \in Streams

Fresh(m) == msg[m].created = 0 /\ msg[m].updated = 0 /\ msg[m].failed = 0

\* The run of message m wrote all, or nothing of at least one record.
AllWritten(m) ==
  /\ msg[m].failed = 0
  /\ msg[m].created + msg[m].updated = Cardinality(Named(m))
  /\ \A r \in Named(m) : notice[r].by # 0
AllFailed(m) ==
  /\ msg[m].failed = Cardinality(Named(m)) /\ msg[m].failed > 0
  /\ msg[m].created = 0 /\ msg[m].updated = 0

RunAt(m) ==
  /\ msg[m].state \in {"fresh", "again"} \/ msg[m].pc \in {"mark", "lookup", "upsert"}
       => Fresh(m)
  /\ msg[m].pc \in {"lookup", "upsert"} => msg[m].todo = Named(m)
  /\ msg[m].pc = "upsert" => msg[m].todo # {}
  /\ msg[m].pc \in {"count", "finish", "ack"} =>
       msg[m].todo = {} /\ (AllWritten(m) \/ AllFailed(m))
  /\ (msg[m].pc \in {"lookup", "upsert", "count", "finish"} /\ msg[m].job \in Bulks)
       => job[msg[m].job].status = "PROCESSING"
RunOk == \A m \in Msgs : RunAt(m)

\* What the row of a bulk job says.
SaysAllWritten(m) ==
  LET row == job[msg[m].job]
  IN /\ row.status = "COMPLETED"
     /\ row.failed = 0
     /\ row.created + row.updated = Cardinality(Named(m))
     /\ \A r \in Named(m) : notice[r].by # 0
SaysAllFailed(m) ==
  LET row == job[msg[m].job]
  IN /\ row.status = "FAILED"
     /\ row.failed = Cardinality(Named(m))
     /\ row.created = 0 /\ row.updated = 0

RowAt(m) ==
  msg[m].job \in Bulks =>
    /\ job[msg[m].job].status = "COMPLETED" => SaysAllWritten(m)
    /\ msg[m].pc = "ack" \/ msg[m].state = "completed" =>
         SaysAllWritten(m) \/ SaysAllFailed(m)
RowOk ==
  /\ \A m \in Msgs : RowAt(m)
  /\ \A j \in Bulks : phase[j] = "saved" => job[j].status = "ACCEPTED"

\* No later version of the identifier came by the same message.
NewestOk ==
  \A r \in Recs : notice[r].by # 0 =>
    /\ msg[notice[r].by].state # "none"
    /\ \A i \in DOMAIN msg[notice[r].by].recs :
         i > notice[r].at => msg[notice[r].by].recs[i] # r

ImportInv == TypeOK /\ QueueOk /\ RunOk /\ RowOk /\ NewestOk

-----------------------------------------------------------------------------
(* Sets of numbers, and what a message names.                              *)

LEMMA HasMax ==
  ASSUME NEW n \in Nat, NEW S \in SUBSET (1 .. n), S # {}
  PROVE  Max(S) \in S /\ \A x \in S : x <= Max(S)
<1> DEFINE T == {k \in Nat : n - k \in S}
<1>1. T \subseteq Nat /\ T # {}
  <2>1. PICK x \in S : TRUE
    OBVIOUS
  <2>2. n - x \in Nat /\ n - (n - x) = x
    OBVIOUS
  <2> QED BY <2>1, <2>2
<1>2. PICK k \in T : \A l \in T : ~(<<l, k>> \in OpToRel(<, Nat))
  <2>1. IsWellFoundedOn(OpToRel(<, Nat), Nat)
    BY NatLessThanWellFounded
  <2> QED BY <1>1, <2>1, WFMin
<1>3. \A l \in T : ~(l < k)
  BY <1>1, <1>2 DEF OpToRel
<1>4. \A x \in S : x <= n - k
  <2> SUFFICES ASSUME NEW x \in S PROVE x <= n - k
    OBVIOUS
  <2>1. n - x \in Nat /\ n - (n - x) = x /\ k \in Nat /\ x \in Int
    BY <1>1
  <2>2. n - x \in T
    BY <2>1
  <2>3. ~(n - x < k)
    BY <1>3, <2>2
  <2> QED BY <2>1, <2>3
<1>5. \E x \in S : \A y \in S : x >= y
  BY <1>4
<1> QED BY <1>5 DEF Max

LEMMA RecsType ==
  ASSUME TypeOK, NEW m \in Msgs
  PROVE  \E n \in 0 .. MaxBatch :
           msg[m].recs \in [1 .. n -> Recs] /\ n \in Nat
<1>1. msg[m].recs \in Payloads
  BY DEF TypeOK, Msg
<1> QED BY <1>1, ImportAssumption DEF Payloads

\* What a message names fits in one chunk.
LEMMA NamedIsSmall ==
  ASSUME TypeOK, NEW m \in Msgs
  PROVE  /\ IsFiniteSet(Named(m)) /\ Named(m) \subseteq Recs
         /\ Cardinality(Named(m)) \in Nat /\ Cardinality(Named(m)) <= ChunkSize
<1>1. PICK n \in 0 .. MaxBatch : msg[m].recs \in [1 .. n -> Recs] /\ n \in Nat
  BY RecsType
<1>2. IsFiniteSet(1 .. n) /\ Cardinality(1 .. n) = n
  BY <1>1, FS_Interval
<1>3. Named(m) = {msg[m].recs[i] : i \in 1 .. n} /\ Named(m) \subseteq Recs
  BY <1>1 DEF Named
<1>4. msg[m].recs \in Surjection(1 .. n, Named(m))
  BY <1>1, <1>3 DEF Surjection
<1>5. IsFiniteSet(Named(m)) /\ Cardinality(Named(m)) <= n
  BY <1>2, <1>4, FS_Surjection
<1> QED BY <1>1, <1>3, <1>5, FS_CardinalityType, ImportAssumption

LEMMA PositionIsLast ==
  ASSUME TypeOK, NEW m \in Msgs, NEW r \in Named(m)
  PROVE  /\ Position(m, r) \in 0 .. MaxBatch
         /\ \A i \in DOMAIN msg[m].recs : i > Position(m, r) => msg[m].recs[i] # r
<1> DEFINE S == {i \in DOMAIN msg[m].recs : msg[m].recs[i] = r}
<1>1. PICK n \in 0 .. MaxBatch : msg[m].recs \in [1 .. n -> Recs] /\ n \in Nat
  BY RecsType
<1>2. S \in SUBSET (1 .. n) /\ S # {}
  BY <1>1 DEF Named
<1>3. Max(S) \in S /\ \A x \in S : x <= Max(S)
  BY <1>1, <1>2, HasMax
<1>4. Position(m, r) = Max(S)
  BY DEF Position
<1>5. Position(m, r) \in S /\ \A x \in S : x <= Position(m, r)
  BY <1>3, <1>4
<1>6. Position(m, r) \in 1 .. n
  BY <1>2, <1>5
<1> QED BY <1>1, <1>5, <1>6, ImportAssumption

LEMMA NoMsgType == NoMsg \in Msg
<1>1. <<>> \in Payloads
  <2>1. 0 \in 0 .. MaxBatch /\ <<>> \in [1 .. 0 -> Recs]
    BY ImportAssumption
  <2> QED BY <2>1 DEF Payloads
<1> QED BY <1>1, ImportAssumption DEF NoMsg, Msg

LEMMA InitInv == Init => ImportInv
<1> SUFFICES ASSUME Init PROVE ImportInv OBVIOUS
<1>1. TypeOK
  BY NoMsgType, ImportAssumption
  DEF Init, TypeOK, Phase, JobRow, NoRow, Status, Notice
<1>2. \A m \in Msgs : msg[m] = NoMsg
  BY DEF Init
<1>3. QueueOk
  BY <1>2, ImportAssumption DEF Init, QueueOk, NoMsg, Jobs
<1>4. RunOk
  BY <1>2 DEF RunOk, RunAt, NoMsg
<1>5. RowOk
  BY <1>2, ImportAssumption DEF Init, RowOk, RowAt, NoMsg, Jobs
<1>6. NewestOk
  BY DEF Init, NewestOk
<1> QED BY <1>1, <1>3, <1>4, <1>5, <1>6 DEF ImportInv

-----------------------------------------------------------------------------
(* Steps of the producers.                                                 *)

\* Phases only go on.
Onwards ==
  \A j \in Jobs :
    /\ phase'[j] = "idle" => phase[j] = "idle"
    /\ phase[j] = "done" => phase'[j] = "done"
    /\ phase'[j] = "streaming" => j \in Streams

LEMMA ProducerInv ==
  ASSUME ImportInv, TypeOK', Onwards, UNCHANGED <<msg, notice>>,
         \A m \in Msgs : msg[m].job \in Bulks => job'[msg[m].job] = job[msg[m].job],
         \A j \in Bulks : phase'[j] = "saved" => job'[j].status = "ACCEPTED"
  PROVE  ImportInv'
<1>1. QueueOk'
  BY DEF ImportInv, QueueOk, Onwards
<1>2. \A m \in Msgs : Named(m)' = Named(m)
  BY DEF Named
<1>3. RunOk'
  BY <1>2 DEF ImportInv, RunOk, RunAt, AllWritten, AllFailed, Fresh
<1>4. RowOk'
  BY <1>2 DEF ImportInv, RowOk, RowAt, SaysAllWritten, SaysAllFailed
<1>5. NewestOk'
  BY DEF ImportInv, NewestOk
<1> QED BY <1>1, <1>3, <1>4, <1>5 DEF ImportInv

LEMMA NotNone == ASSUME ImportInv, NEW m \in Msgs, msg[m].job \in Bulks
                 PROVE  /\ msg[m].state # "none" /\ phase[msg[m].job] = "done"
                        /\ msg[m].job \in Jobs
BY ImportAssumption DEF ImportInv, QueueOk, NoMsg, Jobs

LEMMA SaveInv ==
  ASSUME ImportInv, NEW j \in Jobs, Save(j)
  PROVE  ImportInv'
<1>1. TypeOK'
  BY DEF ImportInv, TypeOK, Save, Phase, JobRow, Status
<1>2. Onwards
  BY DEF ImportInv, TypeOK, QueueOk, Onwards, Save
<1>3. \A m \in Msgs : msg[m].job \in Bulks => job'[msg[m].job] = job[msg[m].job]
  BY NotNone DEF ImportInv, TypeOK, Save
<1>4. \A k \in Bulks : phase'[k] = "saved" => job'[k].status = "ACCEPTED"
  BY DEF ImportInv, TypeOK, RowOk, Save, JobRow, Jobs
<1> QED BY <1>1, <1>2, <1>3, <1>4, ProducerInv DEF Save

LEMMA StreamInv ==
  ASSUME ImportInv, NEW j \in Jobs, Begin(j) \/ EndStream(j) \/ FailStream(j)
  PROVE  ImportInv'
<1>1. j \in Streams /\ j \notin Bulks
  BY ImportAssumption DEF ImportInv, QueueOk, Begin, EndStream, FailStream
<1>2. TypeOK'
  <2>1. CASE Begin(j)
    BY <2>1 DEF ImportInv, TypeOK, Begin, Phase, JobRow, Status
  <2>2. CASE EndStream(j)
    <3>1. job[j] \in JobRow /\ total[j] \in Nat
      BY DEF ImportInv, TypeOK
    <3>2. [job[j] EXCEPT !.status = "COMPLETED", !.created = total[j]] \in JobRow
      BY <3>1 DEF JobRow, Status
    <3>3. job' \in [Jobs -> JobRow] /\ phase' \in [Jobs -> Phase]
      BY <2>2, <3>2 DEF ImportInv, TypeOK, EndStream, Phase
    <3> QED BY <2>2, <3>3 DEF ImportInv, TypeOK, EndStream
  <2>3. CASE FailStream(j)
    <3>1. job' \in [Jobs -> JobRow] /\ phase' \in [Jobs -> Phase]
      BY <2>3 DEF ImportInv, TypeOK, FailStream, Phase, JobRow, Status
    <3> QED BY <2>3, <3>1 DEF ImportInv, TypeOK, FailStream
  <2> QED BY <2>1, <2>2, <2>3
<1>3. Onwards
  BY <1>1 DEF ImportInv, TypeOK, QueueOk, Onwards, Begin, EndStream, FailStream
<1>4. \A k \in Jobs \ {j} : job'[k] = job[k] /\ phase'[k] = phase[k]
  BY DEF ImportInv, TypeOK, Begin, EndStream, FailStream
<1>5. UNCHANGED <<msg, notice>>
  BY DEF Begin, EndStream, FailStream
<1>6. \A m \in Msgs : msg[m].job \in Bulks => job'[msg[m].job] = job[msg[m].job]
  BY <1>1, <1>4, NotNone
<1>7. \A k \in Bulks : phase'[k] = "saved" => job'[k].status = "ACCEPTED"
  BY <1>1, <1>4 DEF ImportInv, RowOk, Jobs
<1> QED BY <1>2, <1>3, <1>5, <1>6, <1>7, ProducerInv

LEMMA RefuseBulkInv ==
  ASSUME ImportInv, NEW j \in Jobs, RefuseBulk(j)
  PROVE  ImportInv'
<1>1. TypeOK'
  BY DEF ImportInv, TypeOK, RefuseBulk, Phase
<1>2. Onwards
  BY DEF ImportInv, TypeOK, QueueOk, Onwards, RefuseBulk
<1>3. \A k \in Bulks : phase'[k] = "saved" => job'[k].status = "ACCEPTED"
  BY DEF ImportInv, TypeOK, RowOk, RefuseBulk, Jobs
<1> QED BY <1>1, <1>2, <1>3, ProducerInv DEF RefuseBulk

LEMMA AcceptInv ==
  ASSUME ImportInv, NEW j \in Jobs, NEW B \in Payloads, Accept(j, B),
         UNCHANGED <<job, notice>>, total' \in [Jobs -> Nat],
         phase' \in [Jobs -> Phase], Onwards,
         \A k \in Bulks : phase'[k] = "saved" => phase[k] = "saved",
         phase'[j] # "idle",
         j \in Bulks => phase[j] = "saved" /\ phase'[j] = "done"
  PROVE  ImportInv'
<1> DEFINE new == [NoMsg EXCEPT !.state = "fresh", !.job = j, !.recs = B]
<1>1. PICK m \in Msgs : msg[m].state = "none" /\ msg' = [msg EXCEPT ![m] = new]
  BY DEF Accept
<1>2. /\ new \in Msg /\ new.state = "fresh" /\ new.job = j /\ new.pc = "idle"
      /\ new.created = 0 /\ new.updated = 0 /\ new.failed = 0
  BY NoMsgType DEF NoMsg, Msg
<1> HIDE DEF new
<1>3. TypeOK'
  BY <1>1, <1>2 DEF ImportInv, TypeOK
<1>4. msg'[m] = new /\ \A k \in Msgs \ {m} : msg'[k] = msg[k]
  BY <1>1 DEF ImportInv, TypeOK
<1>5. \A k \in Msgs : msg[k].job = j => j \notin Bulks
  BY NotNone
<1>6. QueueOk'
  <2>1. \A k \in Msgs :
          /\ msg'[k].state = "none" => msg'[k] = NoMsg
          /\ msg'[k].state # "none" =>
               /\ msg'[k].job \in Jobs
               /\ phase'[msg'[k].job] # "idle"
               /\ msg'[k].job \in Bulks => phase'[msg'[k].job] = "done"
          /\ msg'[k].pc # "idle" <=> msg'[k].state = "active"
    BY <1>2, <1>4 DEF ImportInv, QueueOk, Onwards
  <2>2. \A k, l \in Msgs :
          (msg'[k].job \in Bulks /\ msg'[l].job = msg'[k].job) => k = l
    BY <1>2, <1>4, <1>5 DEF ImportInv, QueueOk
  <2> QED BY <2>1, <2>2 DEF QueueOk, Onwards
<1>7. \A k \in Msgs \ {m} : Named(k)' = Named(k)
  BY <1>4 DEF Named
<1>8. RunOk'
  <2> SUFFICES ASSUME NEW k \in Msgs PROVE RunAt(k)'
    BY DEF RunOk
  <2>1. CASE k = m
    BY <1>2, <1>4, <2>1 DEF RunAt, Fresh
  <2>2. CASE k # m
    BY <1>4, <1>7, <2>2 DEF ImportInv, RunOk, RunAt, Fresh, AllWritten, AllFailed
  <2> QED BY <2>1, <2>2
<1>9. RowOk'
  <2>1. ASSUME NEW k \in Msgs PROVE RowAt(k)'
    <3>1. CASE k = m
      BY <1>2, <1>4, <3>1 DEF ImportInv, RowOk, RowAt
    <3>2. CASE k # m
      BY <1>4, <1>7, <3>2 DEF ImportInv, RowOk, RowAt, SaysAllWritten, SaysAllFailed
    <3> QED BY <3>1, <3>2
  <2> QED BY <2>1 DEF ImportInv, RowOk
<1>10. NewestOk'
  BY <1>1, <1>4 DEF ImportInv, NewestOk, TypeOK, Notice, Msgs
<1> QED BY <1>3, <1>6, <1>8, <1>9, <1>10 DEF ImportInv

LEMMA AddInv ==
  ASSUME ImportInv, NEW j \in Jobs, NEW B \in Payloads,
         AddBulk(j, B) \/ AddStream(j, B)
  PROVE  ImportInv'
<1>1. CASE AddBulk(j, B)
  <2>1. /\ phase' = [phase EXCEPT ![j] = "done"] /\ phase[j] = "saved"
        /\ Accept(j, B) /\ UNCHANGED <<total, job, notice>>
    BY <1>1 DEF AddBulk
  <2>2. Onwards /\ phase' \in [Jobs -> Phase] /\ total' \in [Jobs -> Nat]
    BY <2>1 DEF ImportInv, TypeOK, QueueOk, Onwards, Phase
  <2>3. /\ phase'[j] = "done"
        /\ \A k \in Bulks : phase'[k] = "saved" => phase[k] = "saved"
    BY <2>1 DEF ImportInv, TypeOK, Jobs
  <2> QED BY <2>1, <2>2, <2>3, AcceptInv
<1>2. CASE AddStream(j, B)
  <2>1. j \notin Bulks /\ phase[j] = "streaming"
    BY <1>2, ImportAssumption DEF AddStream, ImportInv, QueueOk
  <2>2. Len(B) \in Nat
    <3>1. PICK n \in 0 .. MaxBatch : B \in [1 .. n -> Recs] /\ n \in Nat
      BY ImportAssumption DEF Payloads
    <3>2. B \in Seq(Recs)
      BY <3>1
    <3> QED BY <3>2
  <2>3. total' \in [Jobs -> Nat] /\ phase' = phase
    BY <1>2, <2>2 DEF AddStream, ImportInv, TypeOK
  <2>4. Onwards /\ phase' \in [Jobs -> Phase]
    BY <2>3 DEF ImportInv, TypeOK, QueueOk, Onwards
  <2> QED BY <1>2, <2>1, <2>3, <2>4, AcceptInv DEF AddStream
<1> QED BY <1>1, <1>2

-----------------------------------------------------------------------------
(* Steps of the queue.                                                     *)

\* Message k is as it was, but for its history, or is put back: it is at its
\* beginning or out of the worker.
Kept(k) ==
  \/ msg'[k] = msg[k]
  \/ /\ msg[k].state = "active" /\ msg'[k].state = "active"
     /\ msg'[k].pc = msg[k].pc /\ msg'[k].todo = msg[k].todo
     /\ msg'[k].created = msg[k].created /\ msg'[k].updated = msg[k].updated
     /\ msg'[k].failed = msg[k].failed
PutBack(k) ==
  /\ msg[k].state # "none"
  /\ \/ msg'[k].state = "active" /\ msg'[k].pc = "mark"
     \/ msg'[k].state \in {"again", "failed"} /\ msg'[k].pc = "idle"
  /\ Fresh(k)'

PhasesEnd ==
  \A j \in Jobs : \/ phase'[j] = phase[j]
                  \/ phase'[j] = "done" /\ phase[j] # "idle"
Carried(k) ==
  /\ msg'[k].job = msg[k].job /\ msg'[k].recs = msg[k].recs
  /\ Kept(k) \/ PutBack(k)

LEMMA QueueInv ==
  ASSUME ImportInv, TypeOK', UNCHANGED <<job, notice>>, PhasesEnd,
         \A k \in Msgs : Carried(k)
  PROVE  ImportInv'
<1> USE DEF PhasesEnd, Carried
<1>1. \A k \in Msgs : Named(k)' = Named(k)
  BY DEF Named
<1>2. QueueOk'
  <2>1. \A k \in Msgs :
          /\ msg'[k].state = "none" => msg'[k] = NoMsg
          /\ msg'[k].state # "none" =>
               /\ msg'[k].job \in Jobs
               /\ phase'[msg'[k].job] # "idle"
               /\ msg'[k].job \in Bulks => phase'[msg'[k].job] = "done"
          /\ msg'[k].pc # "idle" <=> msg'[k].state = "active"
    BY DEF ImportInv, QueueOk, Kept, PutBack
  <2> QED BY <2>1 DEF ImportInv, QueueOk
<1>3. RunOk'
  <2> SUFFICES ASSUME NEW k \in Msgs PROVE RunAt(k)'
    BY DEF RunOk
  <2>1. CASE Kept(k)
    BY <1>1, <2>1 DEF Kept, ImportInv, RunOk, RunAt, Fresh, AllWritten, AllFailed
  <2>2. CASE PutBack(k)
    BY <2>2 DEF PutBack, RunAt
  <2> QED BY <2>1, <2>2
<1>4. RowOk'
  <2>1. ASSUME NEW k \in Msgs PROVE RowAt(k)'
    BY <1>1 DEF Kept, PutBack, ImportInv, RowOk, RowAt, SaysAllWritten, SaysAllFailed
  <2>2. \A j \in Bulks : phase'[j] = "saved" => job'[j].status = "ACCEPTED"
    BY DEF ImportInv, RowOk, Jobs
  <2> QED BY <2>1, <2>2 DEF RowOk
<1>5. NewestOk'
  <2> SUFFICES ASSUME NEW r \in Recs, notice[r].by # 0
               PROVE  /\ msg'[notice[r].by].state # "none"
                      /\ \A i \in DOMAIN msg'[notice[r].by].recs :
                           i > notice[r].at => msg'[notice[r].by].recs[i] # r
    BY DEF NewestOk
  <2>1. notice[r].by \in Msgs
    BY ImportAssumption DEF ImportInv, TypeOK, Notice, Msgs
  <2> QED BY <2>1 DEF ImportInv, NewestOk, Kept, PutBack
<1> QED BY <1>2, <1>3, <1>4, <1>5 DEF ImportInv

LEMMA StartInv ==
  ASSUME ImportInv, NEW m \in Msgs, Start(m)
  PROVE  ImportInv'
<1>1. msg[m] \in Msg /\ msg[m].state \in {"again", "fresh"} /\ m \notin Active
  BY DEF ImportInv, TypeOK, Start, Turn, Active
<1> DEFINE P == msg[m].peers \cup Active
<1>2. /\ msg'[m] = [msg[m] EXCEPT !.state = "active", !.pc = "mark", !.peers = P]
      /\ \A k \in Active : msg'[k] = [msg[k] EXCEPT !.peers = msg[k].peers \cup {m}]
      /\ \A k \in Msgs \ Active : k # m => msg'[k] = msg[k]
      /\ msg' = [k \in Msgs |-> msg'[k]]
      /\ UNCHANGED <<phase, total, job, notice>>
  BY <1>1 DEF Start, Active
<1>3. \A k \in Msgs : /\ msg'[k] \in Msg
                      /\ msg'[k].job = msg[k].job /\ msg'[k].recs = msg[k].recs
                      /\ Kept(k) \/ PutBack(k)
  <2> SUFFICES ASSUME NEW k \in Msgs
               PROVE  /\ msg'[k] \in Msg
                      /\ msg'[k].job = msg[k].job /\ msg'[k].recs = msg[k].recs
                      /\ Kept(k) \/ PutBack(k)
    OBVIOUS
  <2>1. msg[k] \in Msg
    BY DEF ImportInv, TypeOK
  <2>2. CASE k = m
    <3>1. Fresh(m)
      BY <1>1 DEF ImportInv, RunOk, RunAt
    <3>2. P \in SUBSET Msgs
      BY <1>1 DEF Active, Msg
    <3> HIDE DEF P
    <3>3. msg'[m] \in Msg /\ msg'[m].state = "active" /\ msg'[m].pc = "mark"
          /\ msg'[m].job = msg[m].job /\ msg'[m].recs = msg[m].recs
          /\ msg'[m].created = msg[m].created /\ msg'[m].updated = msg[m].updated
          /\ msg'[m].failed = msg[m].failed
      BY <1>1, <1>2, <3>2 DEF Msg
    <3> QED BY <1>1, <2>2, <3>1, <3>3 DEF PutBack, Fresh
  <2>3. CASE k \in Active
    BY <1>2, <2>1, <2>3 DEF Msg, Kept, Active
  <2>4. CASE k \notin Active /\ k # m
    BY <1>2, <2>1, <2>4 DEF Kept
  <2> QED BY <2>2, <2>3, <2>4
<1>4. TypeOK'
  <2>1. msg' \in [Msgs -> Msg]
    BY <1>2, <1>3
  <2> QED BY <1>2, <2>1 DEF ImportInv, TypeOK
<1>5. PhasesEnd /\ UNCHANGED <<job, notice>>
  BY <1>2 DEF PhasesEnd
<1>6. \A k \in Msgs : Carried(k)
  BY <1>3 DEF Carried
<1> QED BY <1>4, <1>5, <1>6, QueueInv

\* What becomes of a message that leaves its worker.
LEMMA LeftIs ==
  ASSUME TypeOK, NEW m \in Msgs
  PROVE  /\ Left(m) \in Msg /\ Left(m).pc = "idle"
         /\ Left(m).job = msg[m].job /\ Left(m).recs = msg[m].recs
         /\ Left(m).created = 0 /\ Left(m).updated = 0 /\ Left(m).failed = 0
         /\ Left(m).peers = msg[m].peers /\ Left(m).inserted = msg[m].inserted
         /\ Left(m).attempts = msg[m].attempts /\ Left(m).stalls = msg[m].stalls
<1>1. msg[m] \in Msg
  BY DEF TypeOK
<1> QED BY <1>1 DEF Left, Msg

LEMMA AgainIs ==
  ASSUME TypeOK, NEW m \in Msgs, NEW a \in 0 .. Attempts - 1, NEW s \in 0 .. MaxStalled
  PROVE  LET new == Again(m, a, s)
         IN /\ new \in Msg /\ new.state = "again" /\ new.pc = "idle"
            /\ new.job = msg[m].job /\ new.recs = msg[m].recs
            /\ new.created = 0 /\ new.updated = 0 /\ new.failed = 0
            /\ new.peers = msg[m].peers /\ new.inserted = msg[m].inserted
            /\ new.attempts = a /\ new.stalls = s
<1> DEFINE left == Left(m)
<1>1. /\ left \in Msg /\ left.pc = "idle"
      /\ left.job = msg[m].job /\ left.recs = msg[m].recs
      /\ left.created = 0 /\ left.updated = 0 /\ left.failed = 0
      /\ left.peers = msg[m].peers /\ left.inserted = msg[m].inserted
  BY LeftIs
<1>2. Again(m, a, s) = [left EXCEPT !.state = "again", !.attempts = a, !.stalls = s]
  BY DEF Again
<1> HIDE DEF left
<1> QED BY <1>1, <1>2 DEF Msg

LEMMA OverIs ==
  ASSUME TypeOK, NEW m \in Msgs, NEW state \in {"completed", "failed"}
  PROVE  LET new == Over(m, state)
         IN /\ new \in Msg /\ new.state = state /\ new.pc = "idle"
            /\ new.job = msg[m].job /\ new.recs = msg[m].recs
            /\ new.created = 0 /\ new.updated = 0
            /\ state = "failed" => new.failed = 0
            /\ new.peers = msg[m].peers /\ new.inserted = msg[m].inserted
            /\ new.attempts = msg[m].attempts /\ new.stalls = msg[m].stalls
<1> DEFINE f == IF state = "completed" THEN msg[m].failed ELSE 0
           left == Left(m)
<1>1. msg[m] \in Msg
  BY DEF TypeOK
<1>2. /\ left \in Msg /\ left.pc = "idle"
      /\ left.job = msg[m].job /\ left.recs = msg[m].recs
      /\ left.created = 0 /\ left.updated = 0
      /\ left.peers = msg[m].peers /\ left.inserted = msg[m].inserted
      /\ left.attempts = msg[m].attempts /\ left.stalls = msg[m].stalls
  BY LeftIs
<1>3. f \in Nat /\ (state = "failed" => f = 0)
  BY <1>1 DEF Msg
<1>4. Over(m, state) = [left EXCEPT !.state = state, !.failed = f]
  BY DEF Over
<1> HIDE DEF f, left
<1> QED BY <1>2, <1>3, <1>4 DEF Msg

LEMMA ThrowInv ==
  ASSUME ImportInv, NEW m \in Msgs, Throw(m)
  PROVE  ImportInv'
<1> DEFINE n == NextAttempt(msg[m].attempts)
           new == IF MoreAttempts(n) THEN Again(m, n, msg[m].stalls) ELSE Over(m, "failed")
<1>1. /\ msg[m] \in Msg /\ msg[m].state # "none"
      /\ msg' = [msg EXCEPT ![m] = new] /\ UNCHANGED <<phase, total, job, notice>>
  BY DEF ImportInv, TypeOK, QueueOk, Throw
<1>2. /\ new \in Msg /\ new.state \in {"again", "failed"} /\ new.pc = "idle"
      /\ new.job = msg[m].job /\ new.recs = msg[m].recs
      /\ new.created = 0 /\ new.updated = 0 /\ new.failed = 0
  <2>1. CASE MoreAttempts(n)
    <3>1. n \in 0 .. Attempts - 1 /\ msg[m].stalls \in 0 .. MaxStalled
      BY <1>1, <2>1, ImportAssumption DEF Msg, MoreAttempts, NextAttempt
    <3> HIDE DEF n
    <3> QED BY <2>1, <3>1, AgainIs DEF ImportInv
  <2>2. CASE ~MoreAttempts(n)
    BY <2>2, OverIs DEF ImportInv
  <2> QED BY <2>1, <2>2
<1> HIDE DEF new
<1>3. msg'[m] = new /\ \A k \in Msgs \ {m} : msg'[k] = msg[k]
  BY <1>1 DEF ImportInv, TypeOK
<1>4. TypeOK'
  BY <1>1, <1>2 DEF ImportInv, TypeOK
<1>5. \A k \in Msgs : /\ msg'[k].job = msg[k].job /\ msg'[k].recs = msg[k].recs
                      /\ Kept(k) \/ PutBack(k)
  BY <1>1, <1>2, <1>3 DEF Kept, PutBack, Fresh
<1>6. PhasesEnd /\ UNCHANGED <<job, notice>>
  BY <1>1 DEF PhasesEnd
<1>7. \A k \in Msgs : Carried(k)
  BY <1>5 DEF Carried
<1> QED BY <1>4, <1>6, <1>7, QueueInv

LEMMA CrashInv ==
  ASSUME ImportInv, Crash
  PROVE  ImportInv'
<1>1. /\ \A k \in Msgs : k \notin Active => msg'[k] = msg[k]
      /\ \A k \in Active : msg'[k] = IF msg[k].stalls < MaxStalled
                             THEN Again(k, msg[k].attempts, msg[k].stalls + 1)
                             ELSE Over(k, "failed")
      /\ msg' = [k \in Msgs |-> msg'[k]]
      /\ phase' = [j \in Jobs |-> IF phase[j] \in {"saved", "streaming"}
                                    THEN "done" ELSE phase[j]]
      /\ UNCHANGED <<total, job, notice>>
  BY DEF Crash, Active
<1>2. ASSUME NEW k \in Msgs
      PROVE  /\ msg'[k] \in Msg
             /\ msg'[k].job = msg[k].job /\ msg'[k].recs = msg[k].recs
             /\ Kept(k) \/ PutBack(k)
  <2>1. msg[k] \in Msg
    BY DEF ImportInv, TypeOK
  <2>2. CASE k \notin Active
    BY <1>1, <2>1, <2>2 DEF Kept
  <2>3. CASE k \in Active /\ msg[k].stalls < MaxStalled
    <3>1. msg[k].stalls + 1 \in 0 .. MaxStalled /\ msg[k].attempts \in 0 .. Attempts - 1
      BY <2>1, <2>3, ImportAssumption DEF Msg
    <3>2. msg'[k] = Again(k, msg[k].attempts, msg[k].stalls + 1)
      BY <1>1, <2>3
    <3> QED BY <2>3, <3>1, <3>2, AgainIs DEF ImportInv, PutBack, Fresh, Active
  <2>4. CASE k \in Active /\ ~(msg[k].stalls < MaxStalled)
    <3>1. msg'[k] = Over(k, "failed")
      BY <1>1, <2>4
    <3> QED BY <2>4, <3>1, OverIs DEF ImportInv, PutBack, Fresh, Active
  <2> QED BY <2>2, <2>3, <2>4
<1>3. TypeOK'
  <2>1. msg' \in [Msgs -> Msg] /\ phase' \in [Jobs -> Phase]
    BY <1>1, <1>2 DEF ImportInv, TypeOK, Phase
  <2>2. UNCHANGED <<total, job, notice>>
    BY <1>1
  <2> QED BY <2>1, <2>2 DEF ImportInv, TypeOK
<1>4. PhasesEnd /\ UNCHANGED <<job, notice>>
  BY <1>1 DEF PhasesEnd
<1>5. \A k \in Msgs : Carried(k)
  BY <1>2 DEF Carried
<1> QED BY <1>3, <1>4, <1>5, QueueInv

-----------------------------------------------------------------------------
(* Steps of a processor.                                                   *)

\* The row of r stays at its version, or goes to the one m names last.
Moved(r, m) ==
  \/ notice'[r].by = notice[r].by /\ notice'[r].at = notice[r].at
  \/ r \in Named(m) /\ notice'[r].by = m /\ notice'[r].at = Position(m, r)

LEMMA RunStep ==
  ASSUME ImportInv, NEW m \in Msgs, NEW new \in Msg,
         msg[m].state = "active", msg' = [msg EXCEPT ![m] = new],
         new.job = msg[m].job, new.recs = msg[m].recs, new.state # "none",
         new.pc # "idle" <=> new.state = "active",
         UNCHANGED <<phase, total>>,
         job' \in [Jobs -> JobRow], notice' \in [Recs -> Notice],
         \A j \in Jobs : j # msg[m].job => job'[j] = job[j],
         \A r \in Recs : Moved(r, m),
         RunAt(m)', RowAt(m)'
  PROVE  ImportInv'
<1>1. msg'[m] = new /\ \A k \in Msgs \ {m} : msg'[k] = msg[k]
  BY DEF ImportInv, TypeOK
<1>2. TypeOK'
  BY DEF ImportInv, TypeOK
<1>3. \A k \in Msgs : /\ msg'[k].job = msg[k].job /\ msg'[k].recs = msg[k].recs
                      /\ Named(k)' = Named(k)
  BY <1>1 DEF Named
<1>4. \A r \in Recs : notice[r].by # 0 => notice'[r].by # 0
  BY DEF Moved, Msgs
<1>5. QueueOk'
  <2>1. \A k \in Msgs :
          /\ msg'[k].state = "none" => msg'[k] = NoMsg
          /\ msg'[k].state # "none" =>
               /\ msg'[k].job \in Jobs
               /\ phase'[msg'[k].job] # "idle"
               /\ msg'[k].job \in Bulks => phase'[msg'[k].job] = "done"
          /\ msg'[k].pc # "idle" <=> msg'[k].state = "active"
    BY <1>1 DEF ImportInv, QueueOk
  <2>2. \A k, l \in Msgs :
          (msg'[k].job \in Bulks /\ msg'[l].job = msg'[k].job) => k = l
    BY <1>3 DEF ImportInv, QueueOk
  <2> QED BY <2>1, <2>2 DEF ImportInv, QueueOk
<1>6. ASSUME NEW k \in Msgs, k # m PROVE RunAt(k)' /\ RowAt(k)'
  <2>1. msg'[k] = msg[k] /\ Named(k)' = Named(k) /\ Named(k) \subseteq Recs
    BY <1>1, <1>3, <1>6, NamedIsSmall DEF ImportInv
  <2>2. msg[k].job \in Bulks => job'[msg[k].job] = job[msg[k].job]
    BY <1>6, NotNone DEF ImportInv, QueueOk
  <2>3. \A r \in Named(k) : notice[r].by # 0 => notice'[r].by # 0
    BY <1>4, <2>1
  <2>4. RunAt(k)'
    BY <2>1, <2>2, <2>3 DEF ImportInv, RunOk, RunAt, Fresh, AllWritten, AllFailed
  <2>5. RowAt(k)'
    BY <2>1, <2>2, <2>3 DEF ImportInv, RowOk, RowAt, SaysAllWritten, SaysAllFailed
  <2> QED BY <2>4, <2>5
<1>7. RunOk'
  BY <1>6 DEF RunOk
<1>8. RowOk'
  <2>1. ASSUME NEW j \in Bulks, phase'[j] = "saved" PROVE job'[j].status = "ACCEPTED"
    <3>1. j # msg[m].job
      BY <2>1, NotNone
    <3> QED BY <2>1, <3>1 DEF ImportInv, RowOk, Jobs
  <2> QED BY <1>6, <2>1 DEF RowOk
<1>9. NewestOk'
  <2> SUFFICES ASSUME NEW r \in Recs, notice'[r].by # 0
               PROVE  /\ msg'[notice'[r].by].state # "none"
                      /\ \A i \in DOMAIN msg'[notice'[r].by].recs :
                           i > notice'[r].at => msg'[notice'[r].by].recs[i] # r
    BY DEF NewestOk
  <2>1. CASE notice'[r].by = notice[r].by /\ notice'[r].at = notice[r].at
    <3>1. notice[r].by \in Msgs
      BY <2>1, ImportAssumption DEF ImportInv, TypeOK, Notice, Msgs
    <3>2. /\ msg[notice[r].by].state # "none"
          /\ \A i \in DOMAIN msg[notice[r].by].recs :
               i > notice[r].at => msg[notice[r].by].recs[i] # r
      BY <2>1 DEF ImportInv, NewestOk
    <3>3. msg'[notice[r].by].state # "none"
      BY <1>1, <3>1, <3>2
    <3> QED BY <1>3, <2>1, <3>1, <3>2, <3>3
  <2>2. CASE r \in Named(m) /\ notice'[r].by = m /\ notice'[r].at = Position(m, r)
    <3>1. \A i \in DOMAIN msg[m].recs : i > Position(m, r) => msg[m].recs[i] # r
      BY <2>2, PositionIsLast DEF ImportInv
    <3> QED BY <1>1, <2>2, <3>1
  <2> QED BY <2>1, <2>2 DEF Moved
<1> QED BY <1>2, <1>5, <1>7, <1>8, <1>9 DEF ImportInv

\* What a step of a processor finds.
LEMMA Running ==
  ASSUME ImportInv, NEW m \in Msgs, msg[m].pc # "idle"
  PROVE  /\ msg[m] \in Msg /\ msg[m].state = "active"
         /\ msg[m].job \in Jobs /\ job[msg[m].job] \in JobRow
         /\ job[msg[m].job].status = "COMPLETED" /\ msg[m].job \in Bulks
              => SaysAllWritten(m)
BY DEF ImportInv, TypeOK, QueueOk, RowOk, RowAt

LEMMA MarkInv ==
  ASSUME ImportInv, NEW m \in Msgs, Mark(m)
  PROVE  ImportInv'
<1> DEFINE new == [msg[m] EXCEPT !.pc = "lookup", !.todo = Named(m)]
<1>1. /\ msg[m].pc = "mark" /\ msg' = [msg EXCEPT ![m] = new]
      /\ job' = [job EXCEPT ![msg[m].job].status = "PROCESSING"]
      /\ UNCHANGED <<phase, total, notice>>
  BY DEF Mark, ImportInv, TypeOK
<1>2. msg[m] \in Msg /\ msg[m].state = "active" /\ msg[m].job \in Jobs
  BY <1>1, Running
<1>3. Named(m) \subseteq Recs
  BY NamedIsSmall DEF ImportInv
<1>4. /\ new \in Msg /\ new.state = "active" /\ new.pc = "lookup"
      /\ new.job = msg[m].job /\ new.recs = msg[m].recs /\ new.todo = Named(m)
      /\ new.created = msg[m].created /\ new.updated = msg[m].updated
      /\ new.failed = msg[m].failed
  BY <1>2, <1>3 DEF Msg
<1> HIDE DEF new
<1>5. msg'[m] = new /\ Named(m)' = Named(m)
  BY <1>1, <1>4 DEF ImportInv, TypeOK, Named
<1>6. /\ job' \in [Jobs -> JobRow] /\ job'[msg[m].job].status = "PROCESSING"
      /\ \A j \in Jobs : j # msg[m].job => job'[j] = job[j]
  BY <1>1, <1>2 DEF ImportInv, TypeOK, JobRow, Status
<1>7. Fresh(m)
  BY <1>1 DEF ImportInv, RunOk, RunAt
<1>8. RunAt(m)'
  BY <1>4, <1>5, <1>6, <1>7 DEF RunAt, Fresh
<1>9. RowAt(m)'
  BY <1>4, <1>5, <1>6 DEF RowAt
<1>10. notice' \in [Recs -> Notice] /\ \A r \in Recs : Moved(r, m)
  BY <1>1 DEF ImportInv, TypeOK, Moved
<1> QED BY <1>1, <1>2, <1>4, <1>6, <1>8, <1>9, <1>10, RunStep

LEMMA LookupInv ==
  ASSUME ImportInv, NEW m \in Msgs, Lookup(m)
  PROVE  ImportInv'
<1> DEFINE new == [msg[m] EXCEPT !.existing = Existing(m),
                                 !.pc = AfterChunk(msg[m].todo)]
<1>1. /\ msg[m].pc = "lookup" /\ msg' = [msg EXCEPT ![m] = new]
      /\ UNCHANGED <<phase, total, job, notice>>
  BY DEF Lookup, ImportInv, TypeOK
<1>2. msg[m] \in Msg /\ msg[m].state = "active" /\ msg[m].job \in Jobs
  BY <1>1, Running
<1>3. Existing(m) \subseteq Recs /\ (msg[m].todo = {} => Cardinality(Named(m)) = 0)
      /\ msg[m].todo = Named(m) /\ Fresh(m)
      /\ (msg[m].job \in Bulks => job[msg[m].job].status = "PROCESSING")
  BY <1>1, NamedIsSmall, FS_EmptySet DEF ImportInv, RunOk, RunAt, Existing
<1>4. /\ new \in Msg /\ new.state = "active" /\ new.pc = AfterChunk(msg[m].todo)
      /\ new.job = msg[m].job /\ new.recs = msg[m].recs /\ new.todo = msg[m].todo
      /\ new.created = msg[m].created /\ new.updated = msg[m].updated
      /\ new.failed = msg[m].failed
  BY <1>2, <1>3 DEF Msg, AfterChunk
<1> HIDE DEF new
<1>5. msg'[m] = new /\ Named(m)' = Named(m)
  BY <1>1, <1>4 DEF ImportInv, TypeOK, Named
<1>6. RunAt(m)'
  <2>1. CASE msg[m].todo = {}
    BY <1>1, <1>3, <1>4, <1>5, <2>1 DEF RunAt, Fresh, AllWritten, AfterChunk
  <2>2. CASE msg[m].todo # {}
    BY <1>1, <1>3, <1>4, <1>5, <2>2 DEF RunAt, Fresh, AfterChunk
  <2> QED BY <2>1, <2>2
<1>7. RowAt(m)'
  BY <1>1, <1>3, <1>4, <1>5 DEF RowAt, AfterChunk
<1>8. /\ job' \in [Jobs -> JobRow] /\ notice' \in [Recs -> Notice]
      /\ \A r \in Recs : Moved(r, m)
      /\ \A j \in Jobs : j # msg[m].job => job'[j] = job[j]
  BY <1>1 DEF ImportInv, TypeOK, Moved
<1>9. new.pc # "idle"
  BY <1>4 DEF AfterChunk
<1> QED BY <1>1, <1>2, <1>4, <1>6, <1>7, <1>8, <1>9, RunStep

\* One chunk is all that a message names.
LEMMA ChunkIsAll ==
  ASSUME TypeOK, NEW m \in Msgs, NEW C \in SUBSET Named(m),
         Cardinality(C) = Min({ChunkSize, Cardinality(Named(m))})
  PROVE  C = Named(m)
<1>1. /\ IsFiniteSet(Named(m)) /\ Cardinality(Named(m)) \in Nat
      /\ Cardinality(Named(m)) <= ChunkSize /\ ChunkSize \in Nat
  BY NamedIsSmall, ImportAssumption
<1> DEFINE n == Cardinality(Named(m))
<1>2. \A x \in {ChunkSize, n} :
        (\A y \in {ChunkSize, n} : x <= y) => x = n
  BY <1>1
<1>3. n \in {ChunkSize, n} /\ \A y \in {ChunkSize, n} : n <= y
  BY <1>1
<1>4. Min({ChunkSize, n}) = n
  BY <1>2, <1>3 DEF Min
<1> QED BY <1>1, <1>4, FS_Subset

LEMMA UpsertInv ==
  ASSUME ImportInv, NEW m \in Msgs, Upsert(m)
  PROVE  ImportInv'
<1> DEFINE N == Named(m)
           E == msg[m].existing
           wrote == [msg[m] EXCEPT !.pc = "count", !.todo = @ \ N,
                       !.updated = @ + Cardinality(N \cap E),
                       !.created = @ + Cardinality(N \ E),
                       !.inserted = @ \cup (N \ Stored)]
           lost == [msg[m] EXCEPT !.pc = "count", !.todo = @ \ N,
                       !.failed = @ + Cardinality(N)]
<1>1. msg[m].pc = "upsert" /\ UNCHANGED <<phase, total, job>>
  BY DEF Upsert
<1>2. msg[m] \in Msg /\ msg[m].state = "active" /\ msg[m].job \in Jobs
  BY <1>1, Running
<1>3. /\ msg[m].todo = N /\ N # {} /\ Fresh(m)
      /\ msg[m].job \in Bulks => job[msg[m].job].status = "PROCESSING"
  BY <1>1 DEF ImportInv, RunOk, RunAt
<1>4. /\ IsFiniteSet(N) /\ N \subseteq Recs
      /\ Cardinality(N) \in Nat /\ Cardinality(N) > 0
  BY <1>3, NamedIsSmall, FS_EmptySet DEF ImportInv
<1>5. /\ Cardinality(N \cap E) \in Nat /\ Cardinality(N \ E) \in Nat
      /\ Cardinality(N \ E) + Cardinality(N \cap E) = Cardinality(N)
  <2>1. /\ IsFiniteSet(N \ E)
        /\ Cardinality(N \ E) = Cardinality(N) - Cardinality(N \cap E)
    BY <1>4, FS_Difference
  <2>2. IsFiniteSet(N \cap E)
    BY <1>4, FS_Intersection
  <2>3. Cardinality(N \cap E) \in Nat /\ Cardinality(N \ E) \in Nat
    BY <2>1, <2>2, FS_CardinalityType
  <2> QED BY <1>4, <2>1, <2>3
<1>6. \/ /\ notice' = [r \in Recs |-> IF r \in N THEN Written(r, m) ELSE notice[r]]
         /\ msg' = [msg EXCEPT ![m] = wrote]
      \/ /\ msg' = [msg EXCEPT ![m] = lost]
         /\ notice' = notice
  <2>1. PICK C \in SUBSET msg[m].todo :
          /\ Cardinality(C) = Min({ChunkSize, Cardinality(msg[m].todo)})
          /\ \/ /\ notice' = [r \in Recs |->
                     IF r \in C THEN Written(r, m) ELSE notice[r]]
                /\ msg' = [msg EXCEPT ![m].pc = "count",
                     ![m].todo = @ \ C,
                     ![m].updated = @ + Cardinality(C \cap msg[m].existing),
                     ![m].created = @ + Cardinality(C \ msg[m].existing),
                     ![m].inserted = @ \cup (C \ Stored)]
             \/ /\ msg' = [msg EXCEPT ![m].pc = "count",
                     ![m].todo = @ \ C, ![m].failed = @ + Cardinality(C)]
                /\ UNCHANGED notice
    BY DEF Upsert
  <2>2. C = N
    BY <1>3, <2>1, ChunkIsAll DEF ImportInv
  <2> QED BY <2>1, <2>2 DEF ImportInv, TypeOK
<1>7. /\ job' \in [Jobs -> JobRow]
      /\ \A j \in Jobs : j # msg[m].job => job'[j] = job[j]
  BY <1>1 DEF ImportInv, TypeOK
<1>8. CASE /\ notice' = [r \in Recs |-> IF r \in N THEN Written(r, m) ELSE notice[r]]
           /\ msg' = [msg EXCEPT ![m] = wrote]
  <2>1. /\ wrote \in Msg /\ wrote.state = "active" /\ wrote.pc = "count"
        /\ wrote.job = msg[m].job /\ wrote.recs = msg[m].recs /\ wrote.todo = {}
        /\ wrote.updated = Cardinality(N \cap E)
        /\ wrote.created = Cardinality(N \ E) /\ wrote.failed = 0
    <3> DEFINE c == Cardinality(N \ E)
               u == Cardinality(N \cap E)
               i == msg[m].inserted \cup (N \ Stored)
    <3>1. i \in SUBSET Recs
      BY <1>2, <1>4 DEF Msg
    <3>2. msg[m].todo \ N = {} /\ msg[m].updated + u = u /\ msg[m].created + c = c
          /\ msg[m].failed = 0 /\ u \in Nat /\ c \in Nat
      BY <1>3, <1>5 DEF Fresh
    <3>3. wrote = [msg[m] EXCEPT !.pc = "count", !.todo = {},
                                 !.updated = u, !.created = c, !.inserted = i]
      BY <3>2
    <3> HIDE DEF c, u, i, wrote
    <3> QED BY <1>2, <3>1, <3>2, <3>3 DEF Msg, c, u
  <2> HIDE DEF wrote
  <2>2. msg'[m] = wrote /\ Named(m)' = N
    BY <1>8, <2>1 DEF ImportInv, TypeOK, Named
  <2>3. \A r \in Recs :
          IF r \in N
            THEN /\ notice'[r] \in Notice
                 /\ notice'[r].by = m /\ notice'[r].at = Position(m, r)
            ELSE notice'[r] = notice[r] /\ notice[r] \in Notice
    <3> SUFFICES ASSUME NEW r \in Recs
                 PROVE  IF r \in N
                          THEN /\ notice'[r] \in Notice
                               /\ notice'[r].by = m /\ notice'[r].at = Position(m, r)
                          ELSE notice'[r] = notice[r] /\ notice[r] \in Notice
      OBVIOUS
    <3>1. notice[r] \in Notice
      BY DEF ImportInv, TypeOK
    <3>2. r \in N => Position(m, r) \in 0 .. MaxBatch
      BY PositionIsLast DEF ImportInv
    <3>3. m \in 0 .. MaxMsgs
      BY ImportAssumption DEF Msgs
    <3> HIDE DEF N
    <3> QED BY <1>8, <3>1, <3>2, <3>3 DEF Notice, Written
  <2>4. notice' \in [Recs -> Notice]
    BY <1>8, <2>3
  <2>5. \A r \in Recs : Moved(r, m)
    BY <2>3 DEF Moved
  <2>6. \A r \in N : notice'[r].by # 0
    BY <1>4, <2>3 DEF Msgs
  <2>7. RunAt(m)'
    BY <1>1, <1>3, <1>5, <2>1, <2>2, <2>6 DEF RunAt, AllWritten
  <2>8. RowAt(m)'
    BY <1>1, <1>3, <2>1, <2>2 DEF RowAt
  <2> QED BY <1>1, <1>2, <1>7, <1>8, <2>1, <2>4, <2>5, <2>7, <2>8, RunStep
<1>9. CASE msg' = [msg EXCEPT ![m] = lost] /\ notice' = notice
  <2>1. /\ lost \in Msg /\ lost.state = "active" /\ lost.pc = "count"
        /\ lost.job = msg[m].job /\ lost.recs = msg[m].recs /\ lost.todo = {}
        /\ lost.updated = 0 /\ lost.created = 0 /\ lost.failed = Cardinality(N)
    <3> DEFINE f == Cardinality(N)
    <3>1. msg[m].todo \ N = {} /\ msg[m].failed + f = f /\ f \in Nat
          /\ msg[m].updated = 0 /\ msg[m].created = 0
      BY <1>3, <1>4 DEF Fresh
    <3>2. lost = [msg[m] EXCEPT !.pc = "count", !.todo = {}, !.failed = f]
      BY <3>1
    <3> HIDE DEF f, lost
    <3> QED BY <1>2, <3>1, <3>2 DEF Msg, f
  <2> HIDE DEF lost
  <2>2. msg'[m] = lost /\ Named(m)' = N
    BY <1>9, <2>1 DEF ImportInv, TypeOK, Named
  <2>3. notice' \in [Recs -> Notice] /\ \A r \in Recs : Moved(r, m)
    BY <1>9 DEF ImportInv, TypeOK, Moved
  <2>4. RunAt(m)'
    BY <1>1, <1>3, <1>4, <2>1, <2>2 DEF RunAt, AllFailed
  <2>5. RowAt(m)'
    BY <1>1, <1>3, <2>1, <2>2 DEF RowAt
  <2> QED BY <1>1, <1>2, <1>7, <1>9, <2>1, <2>3, <2>4, <2>5, RunStep
<1> QED BY <1>6, <1>8, <1>9

\* Steps that write the row of a bulk job from what the run has counted.
LEMMA CountInv ==
  ASSUME ImportInv, NEW m \in Msgs, Count(m)
  PROVE  ImportInv'
<1> DEFINE new == [msg[m] EXCEPT !.pc = AfterChunk(msg[m].todo)]
           row == Counted(m, job[msg[m].job].status)
<1>1. msg[m].pc = "count" /\ UNCHANGED <<phase, total, notice>>
  BY DEF Count
<1>2. /\ msg[m] \in Msg /\ msg[m].state = "active" /\ msg[m].job \in Jobs
      /\ job[msg[m].job] \in JobRow
  BY <1>1, Running
<1>3. msg' = [msg EXCEPT ![m] = new] /\ job' = [job EXCEPT ![msg[m].job] = row]
  BY <1>2 DEF Count, ImportInv, TypeOK
<1>4. /\ msg[m].todo = {} /\ (AllWritten(m) \/ AllFailed(m))
      /\ msg[m].job \in Bulks => job[msg[m].job].status = "PROCESSING"
  BY <1>1 DEF ImportInv, RunOk, RunAt
<1>5. row \in JobRow /\ row.status = job[msg[m].job].status
  BY <1>2 DEF Counted, JobRow, Msg
<1>6. /\ new \in Msg /\ new.state = "active" /\ new.pc = "finish"
      /\ new.job = msg[m].job /\ new.recs = msg[m].recs /\ new.todo = {}
      /\ new.updated = msg[m].updated /\ new.created = msg[m].created
      /\ new.failed = msg[m].failed
  BY <1>2, <1>4 DEF Msg, AfterChunk
<1> HIDE DEF new, row
<1>7. msg'[m] = new /\ Named(m)' = Named(m)
  BY <1>3, <1>6 DEF ImportInv, TypeOK, Named
<1>8. /\ job' \in [Jobs -> JobRow] /\ job'[msg[m].job] = row
      /\ \A j \in Jobs : j # msg[m].job => job'[j] = job[j]
  BY <1>2, <1>3, <1>5 DEF ImportInv, TypeOK
<1>9. RunAt(m)'
  BY <1>1, <1>4, <1>5, <1>6, <1>7, <1>8 DEF RunAt, AllWritten, AllFailed
<1>10. RowAt(m)'
  BY <1>4, <1>5, <1>6, <1>7, <1>8 DEF RowAt
<1>11. notice' \in [Recs -> Notice] /\ \A r \in Recs : Moved(r, m)
  BY <1>1 DEF ImportInv, TypeOK, Moved
<1> QED BY <1>1, <1>2, <1>3, <1>6, <1>8, <1>9, <1>10, <1>11, RunStep

LEMMA FinishInv ==
  ASSUME ImportInv, NEW m \in Msgs, Finish(m)
  PROVE  ImportInv'
<1> DEFINE new == [msg[m] EXCEPT !.pc = "ack"]
           row == Counted(m, FinalStatus(m))
<1>1. /\ msg[m].pc = "finish" /\ UNCHANGED <<phase, total, notice>>
      /\ job' = [job EXCEPT ![msg[m].job] = row]
  BY DEF Finish
<1>2. /\ msg[m] \in Msg /\ msg[m].state = "active" /\ msg[m].job \in Jobs
  BY <1>1, Running
<1>3. msg' = [msg EXCEPT ![m] = new]
  BY DEF Finish, ImportInv, TypeOK
<1>4. msg[m].todo = {} /\ (AllWritten(m) \/ AllFailed(m))
  BY <1>1 DEF ImportInv, RunOk, RunAt
<1>5. /\ row \in JobRow /\ row.created = msg[m].created
      /\ row.updated = msg[m].updated /\ row.failed = msg[m].failed
      /\ AllWritten(m) => row.status = "COMPLETED"
      /\ AllFailed(m) => row.status = "FAILED"
  BY <1>2 DEF Counted, FinalStatus, JobRow, Status, Msg, AllWritten, AllFailed
<1>6. /\ new \in Msg /\ new.state = "active" /\ new.pc = "ack"
      /\ new.job = msg[m].job /\ new.recs = msg[m].recs /\ new.todo = {}
      /\ new.updated = msg[m].updated /\ new.created = msg[m].created
      /\ new.failed = msg[m].failed
  BY <1>2, <1>4 DEF Msg
<1> HIDE DEF new, row
<1>7. msg'[m] = new /\ Named(m)' = Named(m)
  BY <1>3, <1>6 DEF ImportInv, TypeOK, Named
<1>8. /\ job' \in [Jobs -> JobRow] /\ job'[msg[m].job] = row
      /\ \A j \in Jobs : j # msg[m].job => job'[j] = job[j]
  BY <1>1, <1>2, <1>5 DEF ImportInv, TypeOK
<1>9. RunAt(m)'
  BY <1>1, <1>4, <1>6, <1>7 DEF RunAt, AllWritten, AllFailed
<1>10. RowAt(m)'
  <2>1. CASE AllWritten(m)
    BY <1>1, <1>5, <1>6, <1>7, <1>8, <2>1 DEF RowAt, SaysAllWritten, AllWritten
  <2>2. CASE AllFailed(m)
    BY <1>1, <1>5, <1>6, <1>7, <1>8, <2>2 DEF RowAt, SaysAllFailed, AllFailed
  <2> QED BY <1>4, <2>1, <2>2
<1>11. notice' \in [Recs -> Notice] /\ \A r \in Recs : Moved(r, m)
  BY <1>1 DEF ImportInv, TypeOK, Moved
<1> QED BY <1>1, <1>2, <1>3, <1>6, <1>8, <1>9, <1>10, <1>11, RunStep

LEMMA AckInv ==
  ASSUME ImportInv, NEW m \in Msgs, Ack(m)
  PROVE  ImportInv'
<1> DEFINE new == Over(m, "completed")
<1>1. /\ msg[m].pc = "ack" /\ msg' = [msg EXCEPT ![m] = new]
      /\ UNCHANGED <<phase, total, job, notice>>
  BY DEF Ack
<1>2. msg[m] \in Msg /\ msg[m].state = "active" /\ msg[m].job \in Jobs
  BY <1>1, Running
<1>3. /\ new \in Msg /\ new.state = "completed" /\ new.pc = "idle"
      /\ new.job = msg[m].job /\ new.recs = msg[m].recs
  BY OverIs DEF ImportInv
<1> HIDE DEF new
<1>4. msg'[m] = new /\ Named(m)' = Named(m)
  BY <1>1, <1>3 DEF ImportInv, TypeOK, Named
<1>5. RunAt(m)'
  BY <1>3, <1>4 DEF RunAt
<1>6. RowAt(m)'
  BY <1>1, <1>3, <1>4
  DEF ImportInv, RowOk, RowAt, SaysAllWritten, SaysAllFailed
<1>7. /\ job' \in [Jobs -> JobRow] /\ notice' \in [Recs -> Notice]
      /\ \A r \in Recs : Moved(r, m)
      /\ \A j \in Jobs : j # msg[m].job => job'[j] = job[j]
  BY <1>1 DEF ImportInv, TypeOK, Moved
<1> QED BY <1>1, <1>2, <1>3, <1>5, <1>6, <1>7, RunStep

LEMMA RemoveInv ==
  ASSUME ImportInv, NEW r \in Recs, Remove(r)
  PROVE  ImportInv'
<1>1. /\ notice' = [notice EXCEPT ![r].deleted = TRUE]
      /\ UNCHANGED <<phase, total, job, msg>>
  BY DEF Remove
<1>2. \A s \in Recs : /\ notice'[s] \in Notice
                      /\ notice'[s].by = notice[s].by /\ notice'[s].at = notice[s].at
  BY <1>1 DEF ImportInv, TypeOK, Notice
<1>3. TypeOK'
  BY <1>1, <1>2 DEF ImportInv, TypeOK
<1>4. \A m \in Msgs : Named(m)' = Named(m) /\ Named(m) \subseteq Recs
  BY <1>1, NamedIsSmall DEF Named, ImportInv
<1>5. QueueOk'
  BY <1>1 DEF ImportInv, QueueOk
<1>6. RunOk'
  <2> SUFFICES ASSUME NEW m \in Msgs PROVE RunAt(m)'
    BY DEF RunOk
  <2>1. \A s \in Named(m) : notice'[s].by = notice[s].by
    BY <1>2, <1>4
  <2> QED BY <1>1, <1>4, <2>1
          DEF ImportInv, RunOk, RunAt, Fresh, AllWritten, AllFailed
<1>7. RowOk'
  <2>1. ASSUME NEW m \in Msgs PROVE RowAt(m)'
    <3>1. \A s \in Named(m) : notice'[s].by = notice[s].by
      BY <1>2, <1>4
    <3> QED BY <1>1, <1>4, <3>1
            DEF ImportInv, RowOk, RowAt, SaysAllWritten, SaysAllFailed
  <2> QED BY <1>1, <2>1 DEF ImportInv, RowOk
<1>8. NewestOk'
  BY <1>1, <1>2 DEF ImportInv, NewestOk
<1> QED BY <1>3, <1>5, <1>6, <1>7, <1>8 DEF ImportInv

LEMMA NextInv == ImportInv /\ [Next]_vars => ImportInv'
<1> SUFFICES ASSUME ImportInv, [Next]_vars PROVE ImportInv'
  OBVIOUS
<1>1. ASSUME NEW j \in Jobs,
             \/ Save(j)
             \/ Begin(j)
             \/ \E B \in Payloads : AddBulk(j, B) \/ AddStream(j, B)
             \/ RefuseBulk(j)
             \/ EndStream(j)
             \/ FailStream(j)
      PROVE  ImportInv'
  BY <1>1, SaveInv, StreamInv, AddInv, RefuseBulkInv
<1>2. ASSUME NEW m \in Msgs, Start(m) \/ Work(m)
      PROVE  ImportInv'
  BY <1>2, StartInv, MarkInv, LookupInv, UpsertInv, CountInv, FinishInv, AckInv,
     ThrowInv DEF Work
<1>3. CASE Crash
  BY <1>3, CrashInv
<1>4. CASE \E r \in Recs : Remove(r)
  BY <1>4, RemoveInv
<1>5. CASE UNCHANGED vars
  <2>1. UNCHANGED <<phase, total, job, msg, notice>>
    BY <1>5 DEF vars
  <2>2. \A m \in Msgs : Named(m)' = Named(m)
    BY <2>1 DEF Named
  <2>3. TypeOK' /\ QueueOk' /\ NewestOk'
    BY <2>1 DEF ImportInv, TypeOK, QueueOk, NewestOk
  <2>4. RunOk'
    BY <2>1, <2>2 DEF ImportInv, RunOk, RunAt, Fresh, AllWritten, AllFailed
  <2>5. RowOk'
    BY <2>1, <2>2 DEF ImportInv, RowOk, RowAt, SaysAllWritten, SaysAllFailed
  <2> QED BY <2>3, <2>4, <2>5 DEF ImportInv
<1> QED BY <1>1, <1>2, <1>3, <1>4, <1>5 DEF Next

\* Only an upsert and a removal write notices.
LEMMA RowWriters ==
  ASSUME [Next]_vars
  PROVE  \/ notice' = notice
         \/ \E m \in Msgs : Upsert(m)
         \/ \E s \in Recs : Remove(s)
<1>1. CASE UNCHANGED vars
  BY <1>1 DEF vars
<1>2. ASSUME NEW j \in Jobs,
             \/ Save(j)
             \/ Begin(j)
             \/ \E B \in Payloads : AddBulk(j, B) \/ AddStream(j, B)
             \/ RefuseBulk(j)
             \/ EndStream(j)
             \/ FailStream(j)
      PROVE  notice' = notice
  BY <1>2 DEF Save, Begin, AddBulk, AddStream, RefuseBulk, EndStream, FailStream
<1>3. ASSUME NEW m \in Msgs, Start(m) \/ Work(m), ~Upsert(m)
      PROVE  notice' = notice
  BY <1>3 DEF Start, Work, Mark, Lookup, Count, Finish, Ack, Throw
<1>4. Crash => notice' = notice
  BY DEF Crash
<1> QED BY <1>1, <1>2, <1>3, <1>4 DEF Next

\* What an upsert does, with its one chunk.
LEMMA UpsertDoes ==
  ASSUME ImportInv, NEW m \in Msgs, Upsert(m)
  PROVE  LET N == Named(m)
             new == msg'[m]
         IN /\ msg[m].pc = "upsert" /\ new.pc = "count" /\ new.state = msg[m].state
            /\ msg[m].state = "active"
            /\ new.job = msg[m].job /\ new.recs = msg[m].recs
            /\ new.peers = msg[m].peers
            /\ new.attempts = msg[m].attempts /\ new.stalls = msg[m].stalls
            /\ \A k \in Msgs \ {m} : msg'[k] = msg[k]
            /\ \/ /\ new.created = Cardinality(N \ msg[m].existing)
                  /\ new.inserted = msg[m].inserted \cup (N \ Stored)
                  /\ notice' = [r \in Recs |-> IF r \in N THEN Written(r, m) ELSE notice[r]]
               \/ /\ new.created = 0 /\ new.inserted = msg[m].inserted
                  /\ notice' = notice
<1> DEFINE N == Named(m)
           E == msg[m].existing
           t == msg[m].todo \ N
           u == msg[m].updated + Cardinality(N \cap E)
           d == msg[m].created + Cardinality(N \ E)
           f == msg[m].failed + Cardinality(N)
           i == msg[m].inserted \cup (N \ Stored)
<1>1. /\ msg[m].pc = "upsert" /\ msg[m].state = "active" /\ msg[m].todo = N
      /\ msg[m].created = 0 /\ msg[m] \in Msg
  BY Running DEF Upsert, ImportInv, RunOk, RunAt, Fresh
<1>2. PICK C \in SUBSET msg[m].todo :
        /\ Cardinality(C) = Min({ChunkSize, Cardinality(msg[m].todo)})
        /\ \/ /\ notice' = [r \in Recs |->
                   IF r \in C THEN Written(r, m) ELSE notice[r]]
              /\ msg' = [msg EXCEPT ![m].pc = "count",
                   ![m].todo = @ \ C,
                   ![m].updated = @ + Cardinality(C \cap msg[m].existing),
                   ![m].created = @ + Cardinality(C \ msg[m].existing),
                   ![m].inserted = @ \cup (C \ Stored)]
           \/ /\ msg' = [msg EXCEPT ![m].pc = "count",
                   ![m].todo = @ \ C, ![m].failed = @ + Cardinality(C)]
              /\ UNCHANGED notice
  BY DEF Upsert
<1>3. C = N
  BY <1>1, <1>2, ChunkIsAll DEF ImportInv
<1>4. /\ \A k \in Msgs \ {m} : msg'[k] = msg[k]
      /\ \/ /\ notice' = [r \in Recs |-> IF r \in N THEN Written(r, m) ELSE notice[r]]
            /\ msg'[m] = [msg[m] EXCEPT !.pc = "count", !.todo = t, !.updated = u,
                                        !.created = d, !.inserted = i]
         \/ /\ msg'[m] = [msg[m] EXCEPT !.pc = "count", !.todo = t, !.failed = f]
            /\ notice' = notice
  BY <1>2, <1>3 DEF ImportInv, TypeOK
<1>5. d = Cardinality(N \ E)
  <2>1. IsFiniteSet(N \ E)
    BY NamedIsSmall, FS_Subset DEF ImportInv
  <2> QED BY <1>1, <2>1, FS_CardinalityType
<1> HIDE DEF t, u, d, f, i
<1>6. /\ msg'[m].pc = "count" /\ msg'[m].state = msg[m].state
      /\ msg'[m].job = msg[m].job /\ msg'[m].recs = msg[m].recs
      /\ msg'[m].peers = msg[m].peers
      /\ msg'[m].attempts = msg[m].attempts /\ msg'[m].stalls = msg[m].stalls
  BY <1>1, <1>4 DEF Msg
<1>7. \/ /\ notice' = [r \in Recs |-> IF r \in N THEN Written(r, m) ELSE notice[r]]
         /\ msg'[m].created = d /\ msg'[m].inserted = i
      \/ /\ msg'[m].created = 0 /\ msg'[m].inserted = msg[m].inserted
         /\ notice' = notice
  BY <1>1, <1>4 DEF Msg
<1> QED BY <1>1, <1>4, <1>5, <1>6, <1>7 DEF i

\* What the start of message m does to it and to those active meanwhile.
LEMMA StartIs ==
  ASSUME ImportInv, NEW m \in Msgs, Start(m)
  PROVE  /\ msg[m] \in Msg /\ msg[m].state \in {"again", "fresh"} /\ m \notin Active
         /\ msg'[m].state = "active" /\ msg'[m].pc = "mark"
         /\ msg'[m].peers = msg[m].peers \cup Active
         /\ msg'[m].attempts = msg[m].attempts /\ msg'[m].stalls = msg[m].stalls
         /\ msg'[m].job = msg[m].job /\ msg'[m].recs = msg[m].recs
         /\ msg'[m].created = msg[m].created /\ msg'[m].inserted = msg[m].inserted
         /\ \A k \in Active : msg'[k] = [msg[k] EXCEPT !.peers = msg[k].peers \cup {m}]
         /\ \A k \in Msgs \ Active : k # m => msg'[k] = msg[k]
<1> DEFINE P == msg[m].peers \cup Active
<1>1. msg[m] \in Msg /\ msg[m].state \in {"again", "fresh"} /\ m \notin Active
  BY DEF ImportInv, TypeOK, Start, Turn, Active
<1>2. /\ msg'[m] = [msg[m] EXCEPT !.state = "active", !.pc = "mark", !.peers = P]
      /\ \A k \in Active : msg'[k] = [msg[k] EXCEPT !.peers = msg[k].peers \cup {m}]
      /\ \A k \in Msgs \ Active : k # m => msg'[k] = msg[k]
  BY <1>1 DEF Start, Active
<1>3. msg'[m].peers = P
  BY <1>1, <1>2 DEF Msg
<1> HIDE DEF P
<1>4. /\ msg'[m].state = "active" /\ msg'[m].pc = "mark"
      /\ msg'[m].attempts = msg[m].attempts /\ msg'[m].stalls = msg[m].stalls
      /\ msg'[m].job = msg[m].job /\ msg'[m].recs = msg[m].recs
      /\ msg'[m].created = msg[m].created /\ msg'[m].inserted = msg[m].inserted
  BY <1>1, <1>2 DEF Msg
<1> QED BY <1>1, <1>2, <1>3, <1>4 DEF P

-----------------------------------------------------------------------------
(* Versions are not replaced by older ones, but for re-runs and neighbours.*)

Begun == {m \in Msgs : msg[m].state \notin {"none", "fresh"}}

\* Whoever was taken after m, though accepted later, is known to a first run
\* of m; the version of a row was written by a message that was taken.
TakenAt(m, k) ==
  /\ msg[m].state = "none" => msg[k].state = "none"
  /\ msg[m].state = "fresh" => k \notin Begun
  /\ (/\ msg[m].state = "active" /\ msg[m].attempts + msg[m].stalls = 0
      /\ k \in Begun) => k \in msg[m].peers
TakenInOrder == \A m, k \in Msgs : k > m => TakenAt(m, k)
AgainOk == \A m \in Msgs : msg[m].state = "again" => msg[m].attempts + msg[m].stalls > 0
VersionAt(r) ==
  notice[r].by # 0 =>
    notice[r].by \in Begun /\ notice[r].at = Position(notice[r].by, r)
OrderInv == TakenInOrder /\ AgainOk /\ \A r \in Recs : VersionAt(r)

LEMMA OrderInit == Init => OrderInv
BY DEF Init, NoMsg, OrderInv, TakenInOrder, TakenAt, Begun, AgainOk, VersionAt

\* Message k keeps its place in the queue, or leaves its worker.
Stays(k) ==
  /\ msg'[k].state = msg[k].state /\ msg'[k].attempts = msg[k].attempts
  /\ msg'[k].stalls = msg[k].stalls /\ msg'[k].peers = msg[k].peers
Leaves(k) ==
  /\ msg[k].state = "active"
  /\ msg'[k].state \in {"again", "completed", "failed"}
  /\ msg'[k].state = "again" => msg'[k].attempts + msg'[k].stalls > 0

LEMMA OrderStep ==
  ASSUME ImportInv, OrderInv,
         \A k \in Msgs : msg'[k].recs = msg[k].recs /\ (Stays(k) \/ Leaves(k)),
         \A r \in Recs : \/ notice'[r].by = notice[r].by /\ notice'[r].at = notice[r].at
                         \/ \E m \in Msgs : msg[m].state = "active" /\ Moved(r, m)
  PROVE  OrderInv'
<1>1. \A k \in Msgs : k \in Begun' <=> k \in Begun
  BY DEF Begun, Stays, Leaves
<1>2. \A m \in Msgs, r \in Recs : Position(m, r)' = Position(m, r)
  BY DEF Position
<1>3. TakenInOrder'
  <2> SUFFICES ASSUME NEW m \in Msgs, NEW k \in Msgs, k > m PROVE TakenAt(m, k)'
    BY DEF TakenInOrder
  <2>1. TakenAt(m, k) /\ (k \in Begun' <=> k \in Begun)
    BY <1>1 DEF OrderInv, TakenInOrder
  <2>2. CASE Stays(m)
    <3>1. msg[k].state = "none" => msg'[k].state = "none"
      BY DEF Stays, Leaves
    <3> QED BY <2>1, <2>2, <3>1 DEF TakenAt, Stays
  <2>3. CASE Leaves(m)
    BY <2>3 DEF TakenAt, Leaves
  <2> QED BY <2>2, <2>3
<1>4. AgainOk'
  BY DEF OrderInv, AgainOk, Stays, Leaves
<1>5. ASSUME NEW r \in Recs PROVE VersionAt(r)'
  <2>1. CASE notice'[r].by = notice[r].by /\ notice'[r].at = notice[r].at
    <3>1. notice[r].by # 0 => notice[r].by \in Msgs
      BY ImportAssumption DEF ImportInv, TypeOK, Notice, Msgs
    <3> QED BY <1>1, <1>2, <2>1, <3>1 DEF OrderInv, VersionAt
  <2>2. ASSUME NEW m \in Msgs, msg[m].state = "active",
               notice'[r].by = m, notice'[r].at = Position(m, r)
        PROVE  VersionAt(r)'
    <3>1. m \in Begun'
      BY <1>1, <2>2 DEF Begun
    <3> QED BY <1>2, <2>2, <3>1 DEF VersionAt
  <2> QED BY <2>1, <2>2 DEF Moved
<1> QED BY <1>3, <1>4, <1>5 DEF OrderInv

LEMMA OrderStart ==
  ASSUME ImportInv, OrderInv, NEW m \in Msgs, Start(m)
  PROVE  OrderInv'
<1>1. /\ msg[m].state \in {"again", "fresh"} /\ m \notin Active
      /\ msg[m].state = "fresh" => \A k \in 1 .. m - 1 : msg[k].state # "fresh"
      /\ UNCHANGED notice
  BY DEF Start, Turn, Active
<1>2. /\ msg'[m].state = "active" /\ msg'[m].attempts = msg[m].attempts
      /\ msg'[m].stalls = msg[m].stalls /\ msg'[m].recs = msg[m].recs
      /\ \A k \in Active : msg'[k] = [msg[k] EXCEPT !.peers = msg[k].peers \cup {m}]
      /\ \A k \in Msgs \ Active : k # m => msg'[k] = msg[k]
  BY StartIs DEF Msg
<1>3. \A k \in Msgs \ {m} : /\ msg'[k].state = msg[k].state
                            /\ msg'[k].attempts = msg[k].attempts
                            /\ msg'[k].stalls = msg[k].stalls
                            /\ msg'[k].recs = msg[k].recs
                            /\ msg[k].peers \subseteq msg'[k].peers
                            /\ msg[k].state = "active" => m \in msg'[k].peers
  <2> SUFFICES ASSUME NEW k \in Msgs \ {m}
               PROVE  /\ msg'[k].state = msg[k].state
                      /\ msg'[k].attempts = msg[k].attempts
                      /\ msg'[k].stalls = msg[k].stalls
                      /\ msg'[k].recs = msg[k].recs
                      /\ msg[k].peers \subseteq msg'[k].peers
                      /\ msg[k].state = "active" => m \in msg'[k].peers
    OBVIOUS
  <2>1. CASE k \in Active
    <3>1. msg[k] \in Msg /\ msg'[k] = [msg[k] EXCEPT !.peers = msg[k].peers \cup {m}]
      BY <1>2, <2>1 DEF ImportInv, TypeOK
    <3> QED BY <3>1 DEF Msg
  <2>2. CASE k \notin Active
    BY <1>2, <2>2 DEF Active
  <2> QED BY <2>1, <2>2
<1>4. Begun' = Begun \cup {m}
  BY <1>1, <1>2, <1>3 DEF Begun
<1>5. TakenInOrder'
  <2> SUFFICES ASSUME NEW i \in Msgs, NEW k \in Msgs, k > i PROVE TakenAt(i, k)'
    BY DEF TakenInOrder
  <2>1. TakenAt(i, k)
    BY DEF OrderInv, TakenInOrder
  <2>2. CASE i = m
    <3>1. msg[m].state = "fresh" => k \notin Begun /\ k # m
      BY <2>1, <2>2 DEF TakenAt, Msgs
    <3>2. msg[m].state = "again" => msg[m].attempts + msg[m].stalls > 0
      BY DEF OrderInv, AgainOk
    <3>3. msg[m].attempts \in Nat /\ msg[m].stalls \in Nat
      BY ImportAssumption DEF ImportInv, TypeOK, Msg
    <3> QED BY <1>1, <1>2, <1>4, <2>2, <3>1, <3>2, <3>3 DEF TakenAt
  <2>3. CASE i # m /\ k = m
    <3>1. msg[i].state \notin {"none", "fresh"}
      <4>1. CASE msg[m].state = "again"
        <5>1. m \in Begun
          BY <4>1 DEF Begun
        <5> QED BY <2>1, <2>3, <4>1, <5>1 DEF TakenAt
      <4>2. CASE msg[m].state = "fresh"
        <5>1. i \in 1 .. m - 1
          BY <2>3 DEF Msgs
        <5> QED BY <1>1, <2>1, <2>3, <4>2, <5>1 DEF TakenAt
      <4> QED BY <1>1, <4>1, <4>2
    <3> QED BY <1>3, <2>3, <3>1 DEF TakenAt
  <2>4. CASE i # m /\ k # m
    BY <1>3, <1>4, <2>1, <2>4 DEF TakenAt
  <2> QED BY <2>2, <2>3, <2>4
<1>6. AgainOk'
  BY <1>2, <1>3 DEF OrderInv, AgainOk
<1>7. ASSUME NEW r \in Recs PROVE VersionAt(r)'
  <2>1. VersionAt(r) /\ notice' = notice
    BY <1>1 DEF OrderInv
  <2>2. notice[r].by # 0 => notice[r].by \in Msgs
    BY ImportAssumption DEF ImportInv, TypeOK, Notice, Msgs
  <2>3. \A k \in Msgs : Position(k, r)' = Position(k, r)
    BY <1>2, <1>3 DEF Position
  <2> QED BY <1>4, <2>1, <2>2, <2>3 DEF VersionAt
<1> QED BY <1>5, <1>6, <1>7 DEF OrderInv

LEMMA OrderAccept ==
  ASSUME ImportInv, OrderInv, NEW j, NEW B, Accept(j, B), UNCHANGED notice
  PROVE  OrderInv'
<1>1. PICK m \in Msgs :
        /\ msg[m].state = "none" /\ \A k \in 1 .. m - 1 : msg[k].state # "none"
        /\ msg' = [msg EXCEPT ![m] =
             [NoMsg EXCEPT !.state = "fresh", !.job = j, !.recs = B]]
  BY DEF Accept
<1>2. msg'[m].state = "fresh" /\ \A k \in Msgs \ {m} : msg'[k] = msg[k]
  BY <1>1 DEF ImportInv, TypeOK, NoMsg
<1>3. Begun' = Begun
  BY <1>1, <1>2 DEF Begun
<1>4. TakenInOrder'
  <2> SUFFICES ASSUME NEW i \in Msgs, NEW k \in Msgs, k > i PROVE TakenAt(i, k)'
    BY DEF TakenInOrder
  <2>1. TakenAt(i, k)
    BY DEF OrderInv, TakenInOrder
  <2>2. CASE i = m
    <3>1. k \notin Begun
      BY <1>1, <2>1, <2>2 DEF TakenAt, Begun
    <3> QED BY <1>2, <1>3, <2>2, <3>1 DEF TakenAt
  <2>3. CASE i # m
    <3>1. k = m => msg[i].state # "none"
      BY <1>1 DEF Msgs
    <3> QED BY <1>2, <1>3, <2>1, <2>3, <3>1 DEF TakenAt
  <2> QED BY <2>2, <2>3
<1>5. AgainOk'
  BY <1>2 DEF OrderInv, AgainOk
<1>6. ASSUME NEW r \in Recs PROVE VersionAt(r)'
  <2>1. VersionAt(r) /\ notice' = notice
    BY DEF OrderInv
  <2>2. \A k \in Begun : Position(k, r)' = Position(k, r)
    <3>1. m \notin Begun
      BY <1>1 DEF Begun
    <3> QED BY <1>2, <3>1 DEF Position, Begun
  <2> QED BY <1>3, <2>1, <2>2 DEF VersionAt
<1> QED BY <1>4, <1>5, <1>6 DEF OrderInv

\* What an upsert does to a row.
LEMMA UpsertMoves ==
  ASSUME ImportInv, NEW m \in Msgs, Upsert(m)
  PROVE  \A r \in Recs : Moved(r, m)
<1>1. msg[m].todo = Named(m)
  BY DEF Upsert, ImportInv, RunOk, RunAt
<1>2. CASE notice' = notice
  BY <1>2 DEF Moved
<1>3. CASE notice' # notice
  <2>1. PICK C \in SUBSET msg[m].todo :
          notice' = [r \in Recs |-> IF r \in C THEN Written(r, m) ELSE notice[r]]
    BY <1>3 DEF Upsert
  <2> SUFFICES ASSUME NEW r \in Recs PROVE Moved(r, m)
    OBVIOUS
  <2>2. notice[r] \in Notice
    BY DEF ImportInv, TypeOK
  <2>3. Written(r, m).by = m /\ Written(r, m).at = Position(m, r)
    BY <2>2 DEF Written, Notice
  <2>4. CASE r \in C
    BY <1>1, <2>1, <2>3, <2>4 DEF Moved
  <2>5. CASE r \notin C
    BY <2>1, <2>5 DEF Moved
  <2> QED BY <2>4, <2>5
<1> QED BY <1>2, <1>3

LEMMA OrderNext == ImportInv /\ OrderInv /\ [Next]_vars => OrderInv'
<1> SUFFICES ASSUME ImportInv, OrderInv, [Next]_vars PROVE OrderInv'
  OBVIOUS
<1> DEFINE Same == \A r \in Recs : notice'[r].by = notice[r].by
                                   /\ notice'[r].at = notice[r].at
<1>1. ASSUME UNCHANGED msg, Same PROVE OrderInv'
  BY <1>1, OrderStep DEF Stays
<1>2. ASSUME NEW m \in Msgs, msg[m].state = "active",
             \A k \in Msgs \ {m} : msg'[k] = msg[k],
             msg'[m].recs = msg[m].recs, Stays(m) \/ Leaves(m),
             Same \/ \A r \in Recs : Moved(r, m)
      PROVE  OrderInv'
  <2>1. \A k \in Msgs : msg'[k].recs = msg[k].recs /\ (Stays(k) \/ Leaves(k))
    BY <1>2 DEF Stays
  <2> QED BY <1>2, <2>1, OrderStep
<1>3. ASSUME NEW j \in Jobs,
             \/ Save(j)
             \/ Begin(j)
             \/ \E B \in Payloads : AddBulk(j, B) \/ AddStream(j, B)
             \/ RefuseBulk(j)
             \/ EndStream(j)
             \/ FailStream(j)
      PROVE  OrderInv'
  <2>1. ASSUME NEW B \in Payloads, AddBulk(j, B) \/ AddStream(j, B)
        PROVE  OrderInv'
    BY <2>1, OrderAccept DEF AddBulk, AddStream
  <2>2. CASE Save(j) \/ Begin(j) \/ RefuseBulk(j) \/ EndStream(j) \/ FailStream(j)
    BY <1>1, <2>2 DEF Save, Begin, RefuseBulk, EndStream, FailStream
  <2> QED BY <1>3, <2>1, <2>2
<1>4. ASSUME NEW m \in Msgs, Work(m)
      PROVE  OrderInv'
  <2>1. msg[m] \in Msg /\ msg[m].state = "active"
    BY <1>4, Running DEF Work, Mark, Lookup, Upsert, Count, Finish, Ack, Throw
  <2>2. CASE Mark(m) \/ Lookup(m) \/ Count(m) \/ Finish(m)
    <3>1. /\ \A k \in Msgs \ {m} : msg'[k] = msg[k]
          /\ msg'[m].recs = msg[m].recs /\ Stays(m) /\ Same
      BY <2>1, <2>2 DEF Mark, Lookup, Count, Finish, Stays, ImportInv, TypeOK, Msg
    <3> QED BY <1>2, <2>1, <3>1
  <2>3. CASE Upsert(m)
    <3>1. /\ \A k \in Msgs \ {m} : msg'[k] = msg[k]
          /\ msg'[m].recs = msg[m].recs /\ Stays(m)
      BY <2>1, <2>3 DEF Upsert, Stays, ImportInv, TypeOK, Msg
    <3>2. \A r \in Recs : Moved(r, m)
      BY <2>3, UpsertMoves
    <3> QED BY <1>2, <2>1, <3>1, <3>2
  <2>4. CASE Ack(m)
    <3>1. \A k \in Msgs \ {m} : msg'[k] = msg[k]
      BY <2>4 DEF Ack, ImportInv, TypeOK
    <3>2. msg'[m] = Over(m, "completed") /\ Same
      BY <2>4 DEF Ack, ImportInv, TypeOK
    <3>3. msg'[m].recs = msg[m].recs /\ Leaves(m)
      BY <2>1, <3>2, OverIs DEF ImportInv, Leaves
    <3> QED BY <1>2, <2>1, <3>1, <3>2, <3>3
  <2>5. CASE Throw(m)
    <3> DEFINE n == NextAttempt(msg[m].attempts)
    <3>1. \A k \in Msgs \ {m} : msg'[k] = msg[k]
      BY <2>5 DEF Throw, ImportInv, TypeOK
    <3>2. /\ msg'[m] = IF MoreAttempts(n) THEN Again(m, n, msg[m].stalls)
                                          ELSE Over(m, "failed")
          /\ Same
      BY <2>5 DEF Throw, ImportInv, TypeOK
    <3>3. msg'[m].recs = msg[m].recs /\ Leaves(m)
      <4>1. CASE MoreAttempts(n)
        <5>1. /\ n \in 0 .. Attempts - 1 /\ n > 0
              /\ msg[m].stalls \in 0 .. MaxStalled /\ msg[m].stalls \in Nat
          BY <2>1, <4>1, ImportAssumption DEF Msg, MoreAttempts, NextAttempt
        <5> HIDE DEF n
        <5> QED BY <2>1, <3>2, <4>1, <5>1, AgainIs DEF Leaves, ImportInv
      <4>2. CASE ~MoreAttempts(n)
        BY <2>1, <3>2, <4>2, OverIs DEF ImportInv, Leaves
      <4> QED BY <4>1, <4>2
    <3> QED BY <1>2, <2>1, <3>1, <3>2, <3>3
  <2> QED BY <1>4, <2>2, <2>3, <2>4, <2>5 DEF Work
<1>5. ASSUME NEW m \in Msgs, Start(m) PROVE OrderInv'
  BY <1>5, OrderStart
<1>6. CASE Crash
  <2>1. ASSUME NEW k \in Msgs
        PROVE  msg'[k].recs = msg[k].recs /\ (Stays(k) \/ Leaves(k))
    <3>1. msg[k] \in Msg
      BY DEF ImportInv, TypeOK
    <3>2. CASE k \notin Active
      BY <1>6, <3>2 DEF Crash, Stays
    <3>3. CASE k \in Active /\ msg[k].stalls < MaxStalled
      <4>1. msg'[k] = Again(k, msg[k].attempts, msg[k].stalls + 1)
        BY <1>6, <3>3 DEF Crash
      <4> DEFINE s == msg[k].stalls + 1
      <4>2. /\ msg[k].attempts \in 0 .. Attempts - 1 /\ msg[k].attempts \in Nat
            /\ s \in 0 .. MaxStalled /\ s > 0
        BY <3>1, <3>3, ImportAssumption DEF Msg
      <4> HIDE DEF s
      <4>3. /\ msg'[k].state = "again" /\ msg'[k].recs = msg[k].recs
            /\ msg'[k].attempts = msg[k].attempts /\ msg'[k].stalls = s
        BY <4>1, <4>2, AgainIs DEF ImportInv, s
      <4> QED BY <3>3, <4>2, <4>3 DEF Leaves, Active
    <3>4. CASE k \in Active /\ ~(msg[k].stalls < MaxStalled)
      <4>1. msg'[k] = Over(k, "failed")
        BY <1>6, <3>4 DEF Crash
      <4> QED BY <3>4, <4>1, OverIs DEF Leaves, Active, ImportInv
    <3> QED BY <3>2, <3>3, <3>4
  <2>2. Same
    BY <1>6 DEF Crash
  <2> QED BY <2>1, <2>2, OrderStep
<1>7. ASSUME NEW r \in Recs, Remove(r) PROVE OrderInv'
  <2>1. Same
    BY <1>7 DEF Remove, ImportInv, TypeOK, Notice
  <2> QED BY <1>1, <1>7, <2>1 DEF Remove
<1>8. CASE UNCHANGED vars
  BY <1>1, <1>8 DEF vars
<1> QED BY <1>3, <1>4, <1>5, <1>6, <1>7, <1>8 DEF Next

-----------------------------------------------------------------------------
(* The counts of a job's row against the rows its message inserted.        *)

\* Messages active together know each other.
PeersKnow ==
  \A m, k \in Msgs :
    (m # k /\ msg[m].state = "active" /\ msg[k].state = "active")
      => k \in msg[m].peers

\* A peer of message m names r too.
Shared(m, r) == \E k \in msg[m].peers : r \in Named(k)

\* Up to its upsert a first run has inserted nothing; what its look-up did not
\* find is not stored, is deleted or is a peer's too; and what it counted
\* since, like what its job's row shows, tells the rows it inserted.
SeenAt(m) ==
  /\ msg[m].inserted \subseteq Named(m)
  /\ (/\ msg[m].attempts + msg[m].stalls = 0
      /\ \/ msg[m].state \in {"none", "fresh"}
         \/ msg[m].pc \in {"mark", "lookup", "upsert"}) => msg[m].inserted = {}
  /\ msg[m].pc = "upsert" =>
       /\ msg[m].existing \subseteq Stored
       /\ \A r \in Named(m) \ msg[m].existing :
            r \notin Stored \/ notice[r].deleted \/ Shared(m, r)
  /\ msg[m].pc \in {"count", "finish", "ack"} => Told(m, msg[m].created)
  /\ (msg[m].job \in Bulks /\ job[msg[m].job].status = "COMPLETED")
       => Told(m, job[msg[m].job].created)
SeenInv == PeersKnow /\ \A m \in Msgs : SeenAt(m)

LEMMA ToldNothing ==
  ASSUME TypeOK, NEW m \in Msgs, msg[m].inserted = {}
  PROVE  Told(m, 0)
<1>1. Cardinality({}) = 0
  BY FS_EmptySet
<1> QED BY <1>1 DEF Told

LEMMA SeenInit == Init => SeenInv
BY DEF Init, NoMsg, NoRow, SeenInv, PeersKnow, SeenAt, Jobs

\* History only grows.
Grows ==
  /\ \A k \in Msgs :
       /\ Named(k) \subseteq Named(k)'
       /\ msg[k].peers \subseteq msg'[k].peers
       /\ msg[k].attempts + msg[k].stalls > 0
            => msg'[k].attempts + msg'[k].stalls > 0
  /\ \A r \in Recs : /\ notice[r].deleted => notice'[r].deleted
                     /\ r \in Stored => r \in Stored'

LEMMA SharedLasts ==
  ASSUME TypeOK, Grows, NEW m \in Msgs, NEW r, Shared(m, r)
  PROVE  Shared(m, r)'
<1>1. PICK k \in msg[m].peers : r \in Named(k)
  BY DEF Shared
<1>2. k \in Msgs
  BY <1>1 DEF TypeOK, Msg
<1> QED BY <1>1, <1>2 DEF Grows, Shared

LEMMA ToldIs ==
  ASSUME NEW m, NEW n
  PROVE  Told(m, n) <=>
           /\ n < Cardinality(msg[m].inserted) => msg[m].attempts + msg[m].stalls > 0
           /\ n > Cardinality(msg[m].inserted) =>
                \E r \in Named(m) : notice[r].deleted \/ Shared(m, r)
BY DEF Told, Shared

LEMMA ToldLasts ==
  ASSUME TypeOK, Grows, NEW m \in Msgs, msg'[m].inserted = msg[m].inserted,
         NEW n, Told(m, n)
  PROVE  Told(m, n)'
<1>1. n < Cardinality(msg'[m].inserted) => msg'[m].attempts + msg'[m].stalls > 0
  BY DEF Told, Grows
<1>2. ASSUME n > Cardinality(msg'[m].inserted)
      PROVE  \E r \in Named(m)' : notice'[r].deleted \/ Shared(m, r)'
  <2>1. PICK r \in Named(m) : notice[r].deleted \/ Shared(m, r)
    BY <1>2, ToldIs
  <2>2. r \in Recs /\ r \in Named(m)'
    BY NamedIsSmall DEF Grows
  <2>3. notice'[r].deleted \/ Shared(m, r)'
    BY <2>1, <2>2, SharedLasts DEF Grows
  <2> QED BY <2>2, <2>3
<1> QED BY <1>1, <1>2 DEF Told, Shared

\* Message k is where it was, is taken, or leaves its worker.
Carries(k) ==
  /\ msg'[k].job = msg[k].job /\ Named(k)' = Named(k)
  /\ msg'[k].inserted = msg[k].inserted
  /\ \/ /\ msg'[k].state = msg[k].state /\ msg'[k].pc = msg[k].pc
        /\ msg'[k].existing = msg[k].existing /\ msg'[k].created = msg[k].created
        /\ msg'[k].attempts = msg[k].attempts /\ msg'[k].stalls = msg[k].stalls
     \/ /\ msg'[k].state = "active" /\ msg'[k].pc = "mark"
        /\ msg'[k].attempts = msg[k].attempts /\ msg'[k].stalls = msg[k].stalls
        /\ msg[k].state = "fresh" \/ msg[k].attempts + msg[k].stalls > 0
     \/ msg'[k].state \in {"again", "completed", "failed"} /\ msg'[k].pc = "idle"

LEMMA SeenKept ==
  ASSUME TypeOK, Grows, NEW m \in Msgs, SeenAt(m), Carries(m),
         msg[m].job \in Bulks => \/ job'[msg[m].job] = job[msg[m].job]
                                 \/ job'[msg[m].job].status # "COMPLETED",
         msg[m].pc = "upsert" =>
           \A r \in Named(m) : r \in Stored' => r \in Stored \/ Shared(m, r)
  PROVE  SeenAt(m)'
<1>1. msg'[m].inserted \subseteq Named(m)'
  BY DEF SeenAt, Carries
<1>2. (/\ msg'[m].attempts + msg'[m].stalls = 0
       /\ \/ msg'[m].state \in {"none", "fresh"}
          \/ msg'[m].pc \in {"mark", "lookup", "upsert"}) => msg'[m].inserted = {}
  <2>1. msg[m].attempts \in Nat /\ msg[m].stalls \in Nat
    BY ImportAssumption DEF TypeOK, Msg
  <2> QED BY <2>1 DEF SeenAt, Carries
<1>3. ASSUME msg'[m].pc = "upsert"
      PROVE  /\ msg'[m].existing \subseteq Stored'
             /\ \A r \in Named(m)' \ msg'[m].existing :
                  r \notin Stored' \/ notice'[r].deleted \/ Shared(m, r)'
  <2>1. msg[m].pc = "upsert" /\ msg'[m].existing = msg[m].existing
    BY <1>3 DEF Carries
  <2>2. msg[m].existing \subseteq Recs
    BY DEF TypeOK, Msg
  <2>3. msg'[m].existing \subseteq Stored'
    BY <2>1, <2>2 DEF SeenAt, Grows
  <2>4. ASSUME NEW r \in Named(m)' \ msg'[m].existing, r \in Stored'
        PROVE  notice'[r].deleted \/ Shared(m, r)'
    <3>1. r \in Named(m) \ msg[m].existing /\ r \in Recs
      BY <2>1, <2>4, NamedIsSmall DEF Carries
    <3>2. notice[r].deleted \/ Shared(m, r)
      BY <2>1, <2>4, <3>1 DEF SeenAt
    <3> QED BY <3>1, <3>2, SharedLasts DEF Grows
  <2> QED BY <2>3, <2>4
<1>4. msg'[m].pc \in {"count", "finish", "ack"} => Told(m, msg[m].created)'
  <2> SUFFICES ASSUME msg'[m].pc \in {"count", "finish", "ack"}
               PROVE  Told(m, msg[m].created)'
    OBVIOUS
  <2>1. PICK n : n = msg[m].created
    OBVIOUS
  <2>2. Told(m, n) /\ msg'[m].created = n
    BY <2>1 DEF SeenAt, Carries
  <2>3. Told(m, n)'
    BY <2>2, ToldLasts DEF Carries
  <2> QED BY <2>2, <2>3 DEF Told
<1>5. (msg'[m].job \in Bulks /\ job'[msg'[m].job].status = "COMPLETED")
        => Told(m, job[msg[m].job].created)'
  <2> SUFFICES ASSUME msg'[m].job \in Bulks, job'[msg'[m].job].status = "COMPLETED"
               PROVE  Told(m, job[msg[m].job].created)'
    OBVIOUS
  <2>1. job'[msg'[m].job] = job[msg[m].job] /\ msg[m].job \in Bulks
    BY DEF Carries
  <2>2. PICK n : n = job[msg[m].job].created
    OBVIOUS
  <2>3. Told(m, n) /\ job'[msg'[m].job].created = n
    BY <2>1, <2>2 DEF SeenAt
  <2>4. Told(m, n)'
    BY <2>3, ToldLasts DEF Carries
  <2> QED BY <2>3, <2>4 DEF Told
<1> QED BY <1>1, <1>2, <1>3, <1>4, <1>5 DEF SeenAt

\* A step of m's processor, which leaves the other messages alone.
LEMMA SeenOwn ==
  ASSUME ImportInv, SeenInv, NEW m \in Msgs, msg[m].state = "active",
         \A k \in Msgs \ {m} : msg'[k] = msg[k],
         msg'[m].state = "active", msg'[m].job = msg[m].job,
         msg'[m].recs = msg[m].recs, msg'[m].peers = msg[m].peers,
         msg'[m].attempts = msg[m].attempts, msg'[m].stalls = msg[m].stalls,
         \A j \in Jobs : j # msg[m].job => job'[j] = job[j],
         \A r \in Recs : /\ notice[r].deleted => notice'[r].deleted
                         /\ r \in Stored => r \in Stored'
                         /\ r \in Stored' => r \in Stored \/ r \in Named(m),
         Grows => SeenAt(m)'
  PROVE  SeenInv'
<1>1. \A k \in Msgs : Named(k)' = Named(k)
  BY DEF Named
<1>2. \A k \in Msgs : msg'[k].peers = msg[k].peers /\ msg'[k].state = msg[k].state
  OBVIOUS
<1>3. Grows
  BY <1>1, <1>2 DEF Grows
<1>4. PeersKnow /\ \A k \in Msgs : SeenAt(k)
  BY DEF SeenInv
<1>5. PeersKnow'
  BY <1>2, <1>4 DEF PeersKnow
<1>6. ASSUME NEW k \in Msgs \ {m} PROVE SeenAt(k)'
  <2>1. Carries(k) /\ SeenAt(k)
    BY <1>1, <1>4 DEF Carries
  <2>2. msg[k].job \in Bulks => job'[msg[k].job] = job[msg[k].job]
    BY NotNone DEF ImportInv, QueueOk
  <2>3. msg[k].pc = "upsert" => Named(m) \in {Named(i) : i \in msg[k].peers}
    <3>1. msg[k].pc = "upsert" => msg[k].state = "active"
      BY Running
    <3> QED BY <1>4, <3>1 DEF PeersKnow
  <2>4. ASSUME msg[k].pc = "upsert", NEW r \in Named(k), r \in Stored'
        PROVE  r \in Stored \/ Shared(k, r)
    <3>1. r \in Recs
      BY NamedIsSmall DEF ImportInv
    <3> QED BY <2>3, <2>4, <3>1 DEF Shared
  <2> QED BY <1>3, <2>1, <2>2, <2>4, SeenKept DEF ImportInv
<1> QED BY <1>3, <1>5, <1>6 DEF SeenInv

LEMMA SeenMark ==
  ASSUME ImportInv, SeenInv, NEW m \in Msgs, Mark(m)
  PROVE  SeenInv'
<1>1. /\ msg[m].pc = "mark" /\ notice' = notice
      /\ msg' = [msg EXCEPT ![m].pc = "lookup", ![m].todo = Named(m)]
      /\ job' = [job EXCEPT ![msg[m].job].status = "PROCESSING"]
  BY DEF Mark
<1>2. msg[m] \in Msg /\ msg[m].state = "active" /\ msg[m].job \in Jobs
  BY <1>1, Running
<1> DEFINE N == Named(m)
<1>3. /\ msg'[m] = [msg[m] EXCEPT !.pc = "lookup", !.todo = N]
      /\ \A k \in Msgs \ {m} : msg'[k] = msg[k]
  BY <1>1 DEF ImportInv, TypeOK
<1> HIDE DEF N
<1>4. /\ msg'[m].pc = "lookup" /\ msg'[m].state = "active"
      /\ msg'[m].job = msg[m].job /\ msg'[m].recs = msg[m].recs
      /\ msg'[m].peers = msg[m].peers /\ msg'[m].inserted = msg[m].inserted
      /\ msg'[m].attempts = msg[m].attempts /\ msg'[m].stalls = msg[m].stalls
  BY <1>2, <1>3 DEF Msg
<1>5. /\ job'[msg[m].job].status # "COMPLETED"
      /\ \A j \in Jobs : j # msg[m].job => job'[j] = job[j]
  BY <1>1, <1>2 DEF ImportInv, TypeOK, JobRow
<1>6. Stored' = Stored
  BY <1>1 DEF Stored
<1>7. SeenAt(m) /\ Named(m)' = Named(m)
  BY <1>4 DEF SeenInv, Named
<1>8. SeenAt(m)'
  BY <1>1, <1>4, <1>5, <1>7 DEF SeenAt
<1> QED BY <1>1, <1>2, <1>3, <1>4, <1>5, <1>6, <1>8, SeenOwn

LEMMA SeenLookup ==
  ASSUME ImportInv, SeenInv, NEW m \in Msgs, Lookup(m)
  PROVE  SeenInv'
<1>1. msg[m].pc = "lookup" /\ notice' = notice /\ job' = job
  BY DEF Lookup
<1>2. msg[m] \in Msg /\ msg[m].state = "active" /\ msg[m].todo = Named(m)
  BY <1>1, Running DEF ImportInv, RunOk, RunAt
<1> DEFINE E == Existing(m)
           p == AfterChunk(msg[m].todo)
<1>3. /\ msg'[m] = [msg[m] EXCEPT !.existing = E, !.pc = p]
      /\ \A k \in Msgs \ {m} : msg'[k] = msg[k]
  BY DEF Lookup, ImportInv, TypeOK
<1>4. /\ p \in {"finish", "upsert"} /\ (p = "finish" => Named(m) = {})
      /\ E \subseteq Stored
      /\ \A r \in Named(m) \ E : r \in Recs /\ (r \notin Stored \/ notice[r].deleted)
  BY <1>2, NamedIsSmall DEF AfterChunk, Existing, Visible, Stored, ImportInv
<1> HIDE DEF E, p
<1>5. /\ msg'[m].pc = p /\ msg'[m].state = "active" /\ msg'[m].existing = E
      /\ msg'[m].job = msg[m].job /\ msg'[m].recs = msg[m].recs
      /\ msg'[m].peers = msg[m].peers /\ msg'[m].inserted = msg[m].inserted
      /\ msg'[m].attempts = msg[m].attempts /\ msg'[m].stalls = msg[m].stalls
      /\ msg'[m].created = msg[m].created
  BY <1>2, <1>3 DEF Msg
<1>6. Stored' = Stored
  BY <1>1 DEF Stored
<1>7. SeenAt(m) /\ Named(m)' = Named(m) /\ msg[m].created = 0
  BY <1>1, <1>5 DEF SeenInv, Named, ImportInv, RunOk, RunAt, Fresh
<1>8. ASSUME Grows PROVE SeenAt(m)'
  <2>1. /\ msg'[m].inserted \subseteq Named(m)'
        /\ msg'[m].attempts + msg'[m].stalls = 0 => msg'[m].inserted = {}
    BY <1>1, <1>5, <1>7 DEF SeenAt
  <2>2. /\ msg'[m].existing \subseteq Stored'
        /\ \A r \in Named(m)' \ msg'[m].existing : r \notin Stored' \/ notice'[r].deleted
    BY <1>1, <1>4, <1>5, <1>6, <1>7
  <2>3. msg'[m].pc \in {"count", "finish", "ack"} => Told(m, msg[m].created)'
    <3> SUFFICES ASSUME p = "finish" PROVE Told(m, msg[m].created)'
      BY <1>4, <1>5
    <3>1. msg[m].inserted = {}
      BY <1>4, <1>7 DEF SeenAt
    <3>2. Told(m, 0)
      BY <3>1, ToldNothing DEF ImportInv
    <3>3. Told(m, 0)'
      BY <1>5, <1>8, <3>2, ToldLasts DEF ImportInv
    <3> QED BY <1>5, <1>7, <3>3 DEF Told
  <2>4. msg'[m].job \in Bulks => job'[msg'[m].job].status # "COMPLETED"
    BY <1>1, <1>5 DEF ImportInv, RunOk, RunAt
  <2> QED BY <2>1, <2>2, <2>3, <2>4 DEF SeenAt
<1> QED BY <1>1, <1>2, <1>3, <1>5, <1>6, <1>8, SeenOwn

LEMMA SeenUpsert ==
  ASSUME ImportInv, SeenInv, NEW m \in Msgs, Upsert(m)
  PROVE  SeenInv'
<1> DEFINE N == Named(m)
           E == msg[m].existing
           c == msg'[m].created
           I == msg'[m].inserted
<1>1. msg[m].pc = "upsert" /\ job' = job
  BY DEF Upsert
<1>2. /\ msg[m] \in Msg /\ msg[m].state = "active" /\ msg[m].todo = N
      /\ msg[m].created = 0
      /\ msg[m].job \in Bulks => job[msg[m].job].status = "PROCESSING"
  BY <1>1, Running DEF ImportInv, RunOk, RunAt, Fresh
<1>3. /\ IsFiniteSet(N) /\ N \subseteq Recs /\ SeenAt(m)
      /\ msg[m].inserted \subseteq N
  BY NamedIsSmall DEF ImportInv, SeenInv, SeenAt
<1>4. /\ msg'[m].pc = "count" /\ msg'[m].state = "active"
      /\ msg'[m].job = msg[m].job /\ msg'[m].recs = msg[m].recs
      /\ msg'[m].peers = msg[m].peers
      /\ msg'[m].attempts = msg[m].attempts /\ msg'[m].stalls = msg[m].stalls
      /\ \A k \in Msgs \ {m} : msg'[k] = msg[k]
      /\ \/ /\ c = Cardinality(N \ E) /\ I = msg[m].inserted \cup (N \ Stored)
            /\ notice' = [r \in Recs |-> IF r \in N THEN Written(r, m) ELSE notice[r]]
         \/ c = 0 /\ I = msg[m].inserted /\ notice' = notice
  BY UpsertDoes
<1>5. Named(m)' = N
  BY <1>4 DEF Named
<1>6. \A r \in Recs : /\ notice'[r].deleted <=> notice[r].deleted
                      /\ r \in Stored => r \in Stored'
                      /\ r \in Stored' => r \in Stored \/ r \in N
  <2> SUFFICES ASSUME NEW r \in Recs
               PROVE  /\ notice'[r].deleted <=> notice[r].deleted
                      /\ notice[r].by # 0 => notice'[r].by # 0
                      /\ notice'[r].by # 0 => notice[r].by # 0 \/ r \in N
    BY DEF Stored
  <2>1. /\ notice[r] \in Notice /\ m # 0
        /\ Written(r, m).by = m /\ Written(r, m).deleted = notice[r].deleted
    BY DEF ImportInv, TypeOK, Notice, Written, Msgs
  <2> HIDE DEF N, c, I
  <2>2. \/ notice'[r] = notice[r]
        \/ r \in N /\ notice'[r] = Written(r, m)
    BY <1>4
  <2> QED BY <2>1, <2>2
<1>7. SeenAt(m)'
  <2>1. I \subseteq N
    BY <1>3, <1>4
  <2>2. /\ IsFiniteSet(I) /\ IsFiniteSet(N \ E)
        /\ Cardinality(I) \in Nat /\ Cardinality(N \ E) \in Nat
        /\ N \ E \subseteq I => Cardinality(N \ E) <= Cardinality(I)
        /\ I \subseteq N \ E => Cardinality(I) <= Cardinality(N \ E)
    <3>1. IsFiniteSet(I) /\ IsFiniteSet(N \ E)
      BY <1>3, <2>1, FS_Subset
    <3> QED BY <3>1, FS_Subset, FS_CardinalityType
  <2>3. /\ msg[m].attempts + msg[m].stalls = 0 => msg[m].inserted = {}
        /\ E \subseteq Stored
        /\ \A r \in N \ E : r \notin Stored \/ notice[r].deleted \/ Shared(m, r)
    BY <1>1, <1>3 DEF SeenAt
  <2>4. c < Cardinality(I) => msg[m].attempts + msg[m].stalls > 0
    <3> SUFFICES ASSUME c < Cardinality(I), ~(msg[m].attempts + msg[m].stalls > 0)
                 PROVE  FALSE
      OBVIOUS
    <3>1. msg[m].inserted = {}
      <4>1. msg[m].attempts \in Nat /\ msg[m].stalls \in Nat
        BY <1>2, ImportAssumption DEF Msg
      <4> QED BY <2>3, <4>1
    <3>2. CASE c = Cardinality(N \ E) /\ I = msg[m].inserted \cup (N \ Stored)
      <4>1. I \subseteq N \ E
        BY <2>3, <3>1, <3>2
      <4> HIDE DEF c, I, N, E
      <4> QED BY <2>2, <3>2, <4>1
    <3>3. CASE c = 0 /\ I = msg[m].inserted
      BY <3>1, <3>3, FS_EmptySet
    <3> QED BY <1>4, <3>2, <3>3
  <2>5. c > Cardinality(I) => \E r \in N : notice[r].deleted \/ Shared(m, r)
    <3> SUFFICES ASSUME c > Cardinality(I) PROVE \E r \in N : notice[r].deleted \/ Shared(m, r)
      OBVIOUS
    <3>1. c = Cardinality(N \ E) /\ I = msg[m].inserted \cup (N \ Stored)
      BY <1>4, <2>2
    <3>2. PICK r \in N \ E : r \notin I
      <4> HIDE DEF c, I, N, E
      <4> QED BY <2>2, <3>1
    <3>3. r \in Stored
      BY <3>1, <3>2
    <3> QED BY <2>3, <3>2, <3>3
  <2>6. \A r \in N : /\ notice'[r].deleted <=> notice[r].deleted
                     /\ Shared(m, r)' <=> Shared(m, r)
    <3>1. \A k \in msg[m].peers : Named(k)' = Named(k)
      <4>1. \A k \in msg[m].peers : msg'[k].recs = msg[k].recs
        BY <1>2, <1>4 DEF Msg
      <4> QED BY <4>1 DEF Named
    <3>2. \A r \in N : Shared(m, r)' <=> Shared(m, r)
      <4> SUFFICES ASSUME NEW r \in N
                   PROVE  (\E k \in msg'[m].peers : r \in Named(k)')
                            <=> \E k \in msg[m].peers : r \in Named(k)
        BY DEF Shared
      <4> QED BY <1>4, <3>1
    <3>3. ASSUME NEW r \in N PROVE notice'[r].deleted <=> notice[r].deleted
      <4>1. r \in Recs
        BY <1>3
      <4> QED BY <1>6, <4>1
    <3> QED BY <3>2, <3>3, Zenon
  <2>7. Told(m, msg[m].created)'
    <3>1. Told(m, msg[m].created)' <=>
            /\ c < Cardinality(I) => msg'[m].attempts + msg'[m].stalls > 0
            /\ c > Cardinality(I) => \E r \in Named(m)' : notice'[r].deleted \/ Shared(m, r)'
      BY DEF Told, Shared
    <3> HIDE DEF c, I, N
    <3> QED BY <1>4, <1>5, <2>4, <2>5, <2>6, <3>1
  <2>8. msg'[m].job \in Bulks => job'[msg'[m].job].status # "COMPLETED"
    BY <1>1, <1>2, <1>4
  <2> QED BY <1>4, <1>5, <2>1, <2>7, <2>8 DEF SeenAt
<1>8. \A j \in Jobs : j # msg[m].job => job'[j] = job[j]
  BY <1>1
<1>9. \A r \in Recs : /\ notice[r].deleted => notice'[r].deleted
                      /\ r \in Stored => r \in Stored'
                      /\ r \in Stored' => r \in Stored \/ r \in Named(m)
  BY <1>6, Zenon
<1>10. /\ msg'[m].state = "active" /\ msg[m].state = "active"
       /\ msg'[m].job = msg[m].job /\ msg'[m].recs = msg[m].recs
       /\ msg'[m].peers = msg[m].peers
       /\ msg'[m].attempts = msg[m].attempts /\ msg'[m].stalls = msg[m].stalls
       /\ \A k \in Msgs \ {m} : msg'[k] = msg[k]
  BY <1>2, <1>4
<1> QED BY <1>7, <1>8, <1>9, <1>10, SeenOwn

LEMMA SeenCount ==
  ASSUME ImportInv, SeenInv, NEW m \in Msgs, Count(m) \/ Finish(m)
  PROVE  SeenInv'
<1>1. msg[m].pc \in {"count", "finish"} /\ notice' = notice
  BY DEF Count, Finish
<1>2. /\ msg[m] \in Msg /\ msg[m].state = "active" /\ msg[m].job \in Jobs
      /\ msg[m].todo = {}
  BY <1>1, Running DEF ImportInv, RunOk, RunAt
<1>3. PICK p \in {"finish", "ack"} :
        /\ msg'[m] = [msg[m] EXCEPT !.pc = p]
        /\ \A k \in Msgs \ {m} : msg'[k] = msg[k]
  BY <1>2 DEF Count, Finish, ImportInv, TypeOK, AfterChunk
<1>4. /\ msg'[m].pc = p /\ msg'[m].state = "active"
      /\ msg'[m].job = msg[m].job /\ msg'[m].recs = msg[m].recs
      /\ msg'[m].peers = msg[m].peers /\ msg'[m].inserted = msg[m].inserted
      /\ msg'[m].attempts = msg[m].attempts /\ msg'[m].stalls = msg[m].stalls
      /\ msg'[m].created = msg[m].created
  BY <1>2, <1>3 DEF Msg
<1>5. /\ job'[msg[m].job].created = msg[m].created
      /\ \A j \in Jobs : j # msg[m].job => job'[j] = job[j]
  BY <1>2 DEF Count, Finish, Counted, ImportInv, TypeOK
<1>6. Stored' = Stored
  BY <1>1 DEF Stored
<1>7. SeenAt(m) /\ Named(m)' = Named(m)
  BY <1>4 DEF SeenInv, Named
<1>8. ASSUME Grows PROVE SeenAt(m)'
  <2>1. PICK n : n = msg[m].created
    OBVIOUS
  <2>2. Told(m, n)
    BY <1>1, <1>7, <2>1 DEF SeenAt
  <2>3. Told(m, n)'
    BY <1>4, <1>8, <2>2, ToldLasts DEF ImportInv
  <2>4. Told(m, msg[m].created)' /\ Told(m, job[msg[m].job].created)'
    BY <1>4, <1>5, <2>1, <2>3 DEF Told
  <2>5. msg'[m].inserted \subseteq Named(m)'
    BY <1>4, <1>7 DEF SeenAt
  <2> QED BY <1>4, <2>4, <2>5 DEF SeenAt
<1> QED BY <1>1, <1>2, <1>3, <1>4, <1>5, <1>6, <1>8, SeenOwn

\* Steps that write no notice but to delete it: messages are carried.
LEMMA SeenCarried ==
  ASSUME ImportInv, SeenInv, Grows, PeersKnow', Stored' = Stored,
         \A k \in Msgs : Carries(k),
         \A k \in Msgs : msg[k].job \in Bulks => job'[msg[k].job] = job[msg[k].job]
  PROVE  SeenInv'
<1> SUFFICES ASSUME NEW k \in Msgs PROVE SeenAt(k)'
  BY DEF SeenInv
<1>1. SeenAt(k) /\ Carries(k) /\ TypeOK
  BY DEF SeenInv, ImportInv
<1>2. \A r \in Named(k) : r \in Stored' => r \in Stored \/ Shared(k, r)
  OBVIOUS
<1> QED BY <1>1, <1>2, SeenKept

\* Messages are left as they are.
LEMMA SeenIdle ==
  ASSUME ImportInv, SeenInv, UNCHANGED msg,
         \A r \in Recs : /\ notice[r].deleted => notice'[r].deleted
                         /\ notice'[r].by = notice[r].by,
         \A k \in Msgs : msg[k].job \in Bulks => job'[msg[k].job] = job[msg[k].job]
  PROVE  SeenInv'
<1>1. \A k \in Msgs : Named(k)' = Named(k)
  BY DEF Named
<1>2. Stored' = Stored
  BY DEF Stored
<1>3. Grows
  BY <1>1, <1>2 DEF Grows
<1>4. \A k \in Msgs : Carries(k)
  BY <1>1 DEF Carries
<1>5. PeersKnow'
  BY DEF SeenInv, PeersKnow
<1> QED BY <1>2, <1>3, <1>4, <1>5, SeenCarried

LEMMA SeenAccept ==
  ASSUME ImportInv, SeenInv, NEW j \in Jobs, NEW B \in Payloads, Accept(j, B),
         UNCHANGED <<job, notice>>, j \in Bulks => phase[j] = "saved"
  PROVE  SeenInv'
<1> DEFINE new == [NoMsg EXCEPT !.state = "fresh", !.job = j, !.recs = B]
<1>1. PICK m \in Msgs : msg[m].state = "none" /\ msg' = [msg EXCEPT ![m] = new]
  BY DEF Accept
<1>2. /\ new.state = "fresh" /\ new.job = j /\ new.pc = "idle"
      /\ new.inserted = {} /\ new.attempts = 0 /\ new.stalls = 0
  BY DEF NoMsg
<1> HIDE DEF new
<1>3. msg'[m] = new /\ \A k \in Msgs \ {m} : msg'[k] = msg[k]
  BY <1>1 DEF ImportInv, TypeOK
<1>4. /\ msg[m] = NoMsg /\ Named(m) = {} /\ msg[m].peers = {}
      /\ msg[m].attempts + msg[m].stalls = 0
  BY <1>1 DEF ImportInv, QueueOk, NoMsg, Named
<1>5. \A k \in Msgs \ {m} : Named(k)' = Named(k)
  BY <1>3 DEF Named
<1>6. Stored' = Stored
  BY DEF Stored
<1>7. Grows
  BY <1>3, <1>4, <1>5, <1>6 DEF Grows
<1>8. PeersKnow'
  BY <1>2, <1>3 DEF SeenInv, PeersKnow
<1>9. SeenAt(m)'
  <2>1. j \in Bulks => job'[j].status = "ACCEPTED"
    BY DEF ImportInv, RowOk
  <2> QED BY <1>2, <1>3, <2>1 DEF SeenAt
<1>10. ASSUME NEW k \in Msgs \ {m} PROVE SeenAt(k)'
  <2>1. SeenAt(k) /\ Carries(k) /\ TypeOK
    BY <1>3, <1>5 DEF SeenInv, ImportInv, Carries
  <2>2. \A r \in Named(k) : r \in Stored' => r \in Stored \/ Shared(k, r)
    BY <1>6
  <2> QED BY <1>7, <2>1, <2>2, SeenKept
<1> QED BY <1>8, <1>9, <1>10 DEF SeenInv

LEMMA SeenStart ==
  ASSUME ImportInv, OrderInv, SeenInv, NEW m \in Msgs, Start(m)
  PROVE  SeenInv'
<1>1. /\ msg[m].state \in {"again", "fresh"} /\ m \notin Active
      /\ msg'[m].state = "active" /\ msg'[m].pc = "mark"
      /\ msg'[m].peers = msg[m].peers \cup Active
      /\ msg'[m].attempts = msg[m].attempts /\ msg'[m].stalls = msg[m].stalls
      /\ msg'[m].job = msg[m].job /\ msg'[m].recs = msg[m].recs
      /\ msg'[m].inserted = msg[m].inserted
      /\ \A k \in Active : msg'[k] = [msg[k] EXCEPT !.peers = msg[k].peers \cup {m}]
      /\ \A k \in Msgs \ Active : k # m => msg'[k] = msg[k]
  BY StartIs
<1>2. job' = job /\ notice' = notice
  BY DEF Start
<1>3. ASSUME NEW k \in Msgs \ {m}
      PROVE  /\ msg'[k].state = msg[k].state /\ msg'[k].pc = msg[k].pc
             /\ msg'[k].existing = msg[k].existing /\ msg'[k].created = msg[k].created
             /\ msg'[k].attempts = msg[k].attempts /\ msg'[k].stalls = msg[k].stalls
             /\ msg'[k].job = msg[k].job /\ msg'[k].recs = msg[k].recs
             /\ msg'[k].inserted = msg[k].inserted
             /\ msg[k].peers \subseteq msg'[k].peers
             /\ k \in Active => m \in msg'[k].peers
  <2>1. CASE k \in Active
    <3> DEFINE P == msg[k].peers \cup {m}
    <3>1. msg[k] \in Msg /\ msg'[k] = [msg[k] EXCEPT !.peers = P]
      BY <1>1, <2>1 DEF ImportInv, TypeOK
    <3>2. msg[k].peers \subseteq P /\ m \in P
      OBVIOUS
    <3> HIDE DEF P
    <3> QED BY <3>1, <3>2 DEF Msg
  <2>2. CASE k \notin Active
    BY <1>1, <2>2
  <2> QED BY <2>1, <2>2
<1>4. \A k \in Msgs : Named(k)' = Named(k)
  BY <1>1, <1>3 DEF Named
<1>5. Stored' = Stored
  BY <1>2 DEF Stored
<1>6. Grows
  BY <1>1, <1>2, <1>3, <1>4, <1>5 DEF Grows
<1>7. PeersKnow'
  BY <1>1, <1>3 DEF SeenInv, PeersKnow, Active
<1>8. \A k \in Msgs : Carries(k)
  <2>1. msg[m].state = "fresh" \/ msg[m].attempts + msg[m].stalls > 0
    BY <1>1 DEF OrderInv, AgainOk
  <2> QED BY <1>1, <1>3, <1>4, <2>1 DEF Carries
<1> QED BY <1>2, <1>5, <1>6, <1>7, <1>8, SeenCarried

\* Messages leave their workers, one by one or all at once.
LEMMA SeenLeave ==
  ASSUME ImportInv, SeenInv, UNCHANGED <<job, notice>>,
         \A k \in Msgs :
           \/ msg'[k] = msg[k]
           \/ /\ msg'[k].state \in {"again", "completed", "failed"}
              /\ msg'[k].pc = "idle" /\ msg'[k].job = msg[k].job
              /\ msg'[k].recs = msg[k].recs /\ msg'[k].peers = msg[k].peers
              /\ msg'[k].inserted = msg[k].inserted
              /\ msg[k].attempts + msg[k].stalls > 0
                   => msg'[k].attempts + msg'[k].stalls > 0
  PROVE  SeenInv'
<1>1. \A k \in Msgs : Named(k)' = Named(k)
  BY DEF Named
<1>2. Stored' = Stored
  BY DEF Stored
<1>3. Grows
  BY <1>1, <1>2 DEF Grows
<1>4. \A k \in Msgs : Carries(k)
  BY <1>1 DEF Carries
<1>5. PeersKnow'
  BY DEF SeenInv, PeersKnow
<1> QED BY <1>2, <1>3, <1>4, <1>5, SeenCarried

LEMMA SeenNext == ImportInv /\ OrderInv /\ SeenInv /\ [Next]_vars => SeenInv'
<1> SUFFICES ASSUME ImportInv, OrderInv, SeenInv, [Next]_vars PROVE SeenInv'
  OBVIOUS
<1>1. ASSUME NEW j \in Jobs,
             \/ Save(j)
             \/ Begin(j)
             \/ \E B \in Payloads : AddBulk(j, B) \/ AddStream(j, B)
             \/ RefuseBulk(j)
             \/ EndStream(j)
             \/ FailStream(j)
      PROVE  SeenInv'
  <2>1. ASSUME NEW B \in Payloads, AddBulk(j, B) \/ AddStream(j, B)
        PROVE  SeenInv'
    <3>1. Accept(j, B) /\ UNCHANGED <<job, notice>> /\ (j \in Bulks => phase[j] = "saved")
      BY <2>1, ImportAssumption DEF AddBulk, AddStream, ImportInv, QueueOk
    <3> QED BY <3>1, SeenAccept
  <2>2. CASE Save(j) \/ Begin(j) \/ RefuseBulk(j) \/ EndStream(j) \/ FailStream(j)
    <3>1. /\ UNCHANGED <<msg, notice>> /\ \A k \in Jobs \ {j} : job'[k] = job[k]
          /\ j \in Bulks => job' = job \/ phase[j] = "idle"
      BY <2>2, ImportAssumption
      DEF Save, Begin, RefuseBulk, EndStream, FailStream, ImportInv, TypeOK, QueueOk
    <3>2. \A k \in Msgs : msg[k].job \in Bulks => job'[msg[k].job] = job[msg[k].job]
      BY <3>1, NotNone
    <3> QED BY <3>1, <3>2, SeenIdle
  <2> QED BY <1>1, <2>1, <2>2
<1>2. ASSUME NEW m \in Msgs, Work(m)
      PROVE  SeenInv'
  <2>1. CASE Ack(m)
    <3> DEFINE new == Over(m, "completed")
    <3>1. msg' = [msg EXCEPT ![m] = new] /\ UNCHANGED <<job, notice>>
      BY <2>1 DEF Ack
    <3>2. /\ new.state = "completed" /\ new.pc = "idle" /\ new.job = msg[m].job
          /\ new.recs = msg[m].recs /\ new.peers = msg[m].peers
          /\ new.inserted = msg[m].inserted
          /\ new.attempts = msg[m].attempts /\ new.stalls = msg[m].stalls
      BY OverIs DEF ImportInv
    <3> HIDE DEF new
    <3>3. msg'[m] = new /\ \A k \in Msgs \ {m} : msg'[k] = msg[k]
      BY <3>1 DEF ImportInv, TypeOK
    <3> QED BY <3>1, <3>2, <3>3, SeenLeave
  <2>2. CASE Throw(m)
    <3> DEFINE n == NextAttempt(msg[m].attempts)
               new == IF MoreAttempts(n) THEN Again(m, n, msg[m].stalls)
                                         ELSE Over(m, "failed")
    <3>1. msg' = [msg EXCEPT ![m] = new] /\ UNCHANGED <<job, notice>>
      BY <2>2 DEF Throw
    <3>2. /\ new.state \in {"again", "failed"} /\ new.pc = "idle"
          /\ new.job = msg[m].job /\ new.recs = msg[m].recs
          /\ new.peers = msg[m].peers /\ new.inserted = msg[m].inserted
          /\ msg[m].attempts + msg[m].stalls > 0 => new.attempts + new.stalls > 0
      <4>1. CASE MoreAttempts(n)
        <5>1. /\ n \in 0 .. Attempts - 1 /\ n > 0
              /\ msg[m].stalls \in 0 .. MaxStalled /\ msg[m].stalls \in Nat
          BY <4>1, ImportAssumption DEF Msg, MoreAttempts, NextAttempt, ImportInv, TypeOK
        <5> HIDE DEF n
        <5>2. new = Again(m, n, msg[m].stalls)
          BY <4>1
        <5> HIDE DEF new
        <5> QED BY <5>1, <5>2, AgainIs DEF ImportInv
      <4>2. CASE ~MoreAttempts(n)
        BY <4>2, OverIs DEF ImportInv
      <4> QED BY <4>1, <4>2
    <3> HIDE DEF new
    <3>3. msg'[m] = new /\ \A k \in Msgs \ {m} : msg'[k] = msg[k]
      BY <3>1 DEF ImportInv, TypeOK
    <3> QED BY <3>1, <3>2, <3>3, SeenLeave
  <2> QED BY <1>2, <2>1, <2>2, SeenMark, SeenLookup, SeenUpsert, SeenCount DEF Work
<1>3. ASSUME NEW m \in Msgs, Start(m) PROVE SeenInv'
  BY <1>3, SeenStart
<1>4. CASE Crash
  <2>1. /\ UNCHANGED <<job, notice>>
        /\ \A k \in Msgs : k \notin Active => msg'[k] = msg[k]
        /\ \A k \in Active : msg'[k] = IF msg[k].stalls < MaxStalled
                               THEN Again(k, msg[k].attempts, msg[k].stalls + 1)
                               ELSE Over(k, "failed")
    BY <1>4 DEF Crash, Active
  <2>2. ASSUME NEW k \in Active
        PROVE  /\ msg'[k].state \in {"again", "completed", "failed"}
               /\ msg'[k].pc = "idle" /\ msg'[k].job = msg[k].job
               /\ msg'[k].recs = msg[k].recs /\ msg'[k].peers = msg[k].peers
               /\ msg'[k].inserted = msg[k].inserted
               /\ msg[k].attempts + msg[k].stalls > 0
                    => msg'[k].attempts + msg'[k].stalls > 0
    <3>1. k \in Msgs /\ msg[k] \in Msg
      BY DEF Active, ImportInv, TypeOK
    <3>2. CASE msg[k].stalls < MaxStalled
      <4> DEFINE s == msg[k].stalls + 1
      <4>1. /\ msg[k].attempts \in 0 .. Attempts - 1 /\ msg[k].attempts \in Nat
            /\ s \in 0 .. MaxStalled /\ s > 0
        BY <3>1, <3>2, ImportAssumption DEF Msg
      <4>2. msg'[k] = Again(k, msg[k].attempts, s)
        BY <2>1, <3>2
      <4> HIDE DEF s
      <4> QED BY <3>1, <4>1, <4>2, AgainIs DEF ImportInv
    <3>3. CASE ~(msg[k].stalls < MaxStalled)
      <4>1. msg'[k] = Over(k, "failed")
        BY <2>1, <3>3
      <4> QED BY <3>1, <4>1, OverIs DEF ImportInv
    <3> QED BY <3>2, <3>3
  <2> QED BY <2>1, <2>2, SeenLeave
<1>5. ASSUME NEW r \in Recs, Remove(r) PROVE SeenInv'
  <2>1. msg' = msg /\ job' = job /\ notice' = [notice EXCEPT ![r].deleted = TRUE]
    BY <1>5 DEF Remove
  <2>2. \A s \in Recs : /\ notice[s].deleted => notice'[s].deleted
                        /\ notice'[s].by = notice[s].by
    BY <2>1 DEF ImportInv, TypeOK, Notice
  <2>3. \A k \in Msgs : msg[k].job \in Bulks => job'[msg[k].job] = job[msg[k].job]
    BY <2>1
  <2> QED BY <2>1, <2>2, <2>3, SeenIdle
<1>6. CASE UNCHANGED vars
  BY <1>6, SeenIdle DEF vars
<1> QED BY <1>1, <1>2, <1>3, <1>4, <1>5, <1>6 DEF Next

-----------------------------------------------------------------------------
(* The theorems.                                                           *)

\* The inductive invariant holds of every reachable state.
LEMMA ImportInvariant == Spec => []ImportInv
BY InitInv, NextInv, PTL DEF Spec

\* Rows, messages and counters have the types of their columns and fields
\* (ingestion-job.entity.ts, import-processor.ts).
THEOREM ImportTypes == Spec => []TypeOK
<1>1. ImportInv => TypeOK
  BY DEF ImportInv
<1> QED BY <1>1, ImportInvariant, PTL

\* Through any retries and crashes, a bulk job shown as COMPLETED by
\* import-processor.ts failed nothing, left each distinct record at no version
\* the request itself replaced, and counted each of them once: as created as
\* many as the message inserted, unless it was run again (too few) or names a
\* deleted row or one that a message beside it names (too many).
THEOREM BulkJobsTellTheTruth == Spec => []BulkJobTruth
<1>1. ImportInv /\ SeenInv => BulkJobTruth
  <2> SUFFICES ASSUME ImportInv, SeenInv, NEW m \in Msgs,
                      msg[m].job \in Bulks, job[msg[m].job].status = "COMPLETED"
               PROVE  LET row == job[msg[m].job]
                      IN /\ row.failed = 0
                         /\ row.created + row.updated = Cardinality(Named(m))
                         /\ Told(m, row.created)
                         /\ \A r \in Named(m) :
                              notice[r].by # 0 /\ ~Superseded(m, r)
    BY DEF BulkJobTruth
  <2>1. SaysAllWritten(m)
    BY DEF ImportInv, RowOk, RowAt
  <2>2. Told(m, job[msg[m].job].created)
    BY DEF SeenInv, SeenAt
  <2>3. Named(m) \subseteq Recs
    BY NamedIsSmall DEF ImportInv
  <2>4. \A r \in Named(m) : notice[r].by # 0 /\ ~Superseded(m, r)
    BY <2>1, <2>3 DEF SaysAllWritten, ImportInv, NewestOk, Superseded
  <2> QED BY <2>1, <2>2, <2>4 DEF SaysAllWritten
<1>2. Spec => []OrderInv
  BY ImportInvariant, OrderInit, OrderNext, PTL DEF Spec
<1>3. Spec => []SeenInv
  BY <1>2, ImportInvariant, SeenInit, SeenNext, PTL DEF Spec
<1> QED BY <1>1, <1>3, ImportInvariant, PTL

\* A bulk message the queue shows as completed left its row at COMPLETED, or
\* at FAILED with every distinct record counted: a message fits in one chunk
\* of import-processor.ts, so PARTIAL is never reached.
THEOREM BulkJobsReport == Spec => []BulkJobReported
<1>1. ImportInv => BulkJobReported
  <2> SUFFICES ASSUME ImportInv, NEW m \in Msgs,
                      msg[m].job \in Bulks, msg[m].state = "completed"
               PROVE  LET row == job[msg[m].job]
                      IN \/ /\ row.status = "COMPLETED"
                            /\ row.failed = 0
                         \/ /\ row.status = "FAILED"
                            /\ row.failed = Cardinality(Named(m))
                            /\ row.created + row.updated = 0
    BY DEF BulkJobReported
  <2>1. SaysAllWritten(m) \/ SaysAllFailed(m)
    BY DEF ImportInv, RowOk, RowAt
  <2> QED BY <2>1 DEF SaysAllWritten, SaysAllFailed
<1> QED BY <1>1, ImportInvariant, PTL

\* The upsert of import-processor.ts does not bring back a notice that
\* ProcurementNoticesService.remove took away.
THEOREM ImportKeepsRemoved == Spec => RemovedStaysRemoved
<1>1. ASSUME ImportInv, [Next]_vars
      PROVE  \A r \in Recs : notice[r].deleted => notice'[r].deleted
  <2> SUFFICES ASSUME NEW r \in Recs, notice[r].deleted PROVE notice'[r].deleted
    OBVIOUS
  <2>1. notice[r] \in Notice /\ notice \in [Recs -> Notice]
    BY <1>1 DEF ImportInv, TypeOK
  <2>2. CASE notice' = notice
    BY <2>2
  <2>3. ASSUME NEW m \in Msgs, Upsert(m), notice' # notice PROVE notice'[r].deleted
    <3>1. PICK C \in SUBSET msg[m].todo :
            notice' = [s \in Recs |-> IF s \in C THEN Written(s, m) ELSE notice[s]]
      BY <2>3 DEF Upsert
    <3>2. Written(r, m).deleted = notice[r].deleted
      BY <2>1 DEF Written, Notice
    <3> QED BY <3>1, <3>2
  <2>4. ASSUME NEW s \in Recs, Remove(s) PROVE notice'[r].deleted
    <3>1. notice' = [notice EXCEPT ![s].deleted = TRUE]
      BY <2>4 DEF Remove
    <3> QED BY <2>1, <3>1 DEF Notice
  <2> QED BY <1>1, <2>2, <2>3, <2>4, RowWriters
<1> QED BY <1>1, ImportInvariant, PTL DEF Spec, RemovedStaysRemoved

\* An older version replaces a newer one only when import-processor.ts runs
\* its message again or beside the newer one's: the first runs of the queue
\* keep the order in which versions were accepted.
THEOREM VersionsKeepTheirOrder == Spec => OrderKept
<1> DEFINE A == \A r \in Recs :
                  Older(notice'[r], notice[r]) =>
                    LET m == msg[notice'[r].by]
                    IN m.attempts + m.stalls > 0 \/ notice[r].by \in m.peers
<1>1. ASSUME ImportInv, OrderInv, [Next]_vars PROVE A
  <2> SUFFICES ASSUME NEW r \in Recs, Older(notice'[r], notice[r])
               PROVE  LET m == msg[notice'[r].by]
                      IN m.attempts + m.stalls > 0 \/ notice[r].by \in m.peers
    OBVIOUS
  <2>1. notice[r] \in Notice
    BY <1>1 DEF ImportInv, TypeOK
  <2>2. ~(notice'[r].by = notice[r].by /\ notice'[r].at = notice[r].at)
    BY <2>1, ImportAssumption DEF Older, Notice
  <2>3. PICK m \in Msgs : Upsert(m)
    <3>1. notice' # notice
      BY <2>2
    <3>2. ASSUME NEW s \in Recs, Remove(s) PROVE FALSE
      BY <1>1, <2>2, <3>2 DEF Remove, ImportInv, TypeOK, Notice
    <3> QED BY <1>1, <3>1, <3>2, RowWriters
  <2>4. notice'[r].by = m /\ notice'[r].at = Position(m, r)
    BY <1>1, <2>2, <2>3, UpsertMoves DEF Moved
  <2>5. msg[m] \in Msg /\ msg[m].state = "active"
    BY <1>1, <2>3, Running DEF Upsert
  <2>6. notice[r].by \in Begun /\ notice[r].by \in Msgs /\ notice[r].by >= m
        /\ notice[r].at = Position(notice[r].by, r)
    <3>1. notice[r].by >= m /\ notice[r].by # 0
      BY <2>1, <2>4, ImportAssumption DEF Older, Notice, Msgs
    <3> QED BY <1>1, <3>1 DEF OrderInv, VersionAt, Begun
  <2>7. notice[r].by > m
    BY <2>1, <2>4, <2>6, ImportAssumption DEF Older, Notice, Msgs
  <2>8. TakenAt(m, notice[r].by)
    BY <1>1, <2>6, <2>7 DEF OrderInv, TakenInOrder
  <2>9. msg[m].attempts \in Nat /\ msg[m].stalls \in Nat
    BY <2>5, ImportAssumption DEF Msg
  <2> QED BY <2>4, <2>5, <2>6, <2>8, <2>9 DEF TakenAt
<1>2. Spec => []OrderInv
  BY ImportInvariant, OrderInit, OrderNext, PTL DEF Spec
<1> QED BY <1>1, <1>2, ImportInvariant, PTL DEF Spec, OrderKept

-----------------------------------------------------------------------------
(* What EveryMessageSettles rests on: a message has a budget of steps, its *)
(* own steps spend it, nothing gives any of it back, and as long as some   *)
(* message has not settled one of them can take a step.                    *)

\* Steps that a message has ahead of it in one run, the start included.
StepsAhead(pc) ==
  CASE pc = "mark"   -> 6
    [] pc = "lookup" -> 5
    [] pc = "upsert" -> 4
    [] pc = "count"  -> 3
    [] pc = "finish" -> 2
    [] pc = "ack"    -> 1
    [] OTHER         -> 7

Unsettled(m) == msg[m].state \in {"fresh", "again", "active"}

\* Attempts and re-runs the queue would still grant it after this one.
RunsLeft(m) == (Attempts - 1 - msg[m].attempts) + (MaxStalled - msg[m].stalls)

StepsLeft(m) ==
  IF Unsettled(m) THEN 7 * RunsLeft(m) + StepsAhead(msg[m].pc) ELSE 0

StepsBounded ==
  \A m \in Msgs :
    /\ StepsLeft(m) \in Nat /\ StepsLeft(m) <= 7 * (Attempts + MaxStalled)
    /\ Unsettled(m) => StepsLeft(m) > 0

StepsSpent ==
  [][\A m \in Msgs :
       /\ Start(m) \/ Work(m) => StepsLeft(m)' < StepsLeft(m)
       /\ msg[m].state # "none" => StepsLeft(m)' <= StepsLeft(m)]_vars

NoMessageStuck ==
  (\E m \in Msgs : Unsettled(m)) =>
    \/ \E m \in Msgs : msg[m].pc # "idle"
    \/ Cardinality(Active) < Concurrency /\ \E m \in Msgs : Turn(m)

LEMMA StepsAheadIs ==
  /\ StepsAhead("mark") = 6 /\ StepsAhead("lookup") = 5
  /\ StepsAhead("upsert") = 4 /\ StepsAhead("count") = 3
  /\ StepsAhead("finish") = 2 /\ StepsAhead("ack") = 1
  /\ StepsAhead("idle") = 7
BY DEF StepsAhead

LEMMA StepsLeftIs ==
  ASSUME TypeOK, NEW m \in Msgs
  PROVE  /\ RunsLeft(m) \in Nat /\ RunsLeft(m) <= Attempts + MaxStalled - 1
         /\ StepsAhead(msg[m].pc) \in Nat
         /\ 1 <= StepsAhead(msg[m].pc) /\ StepsAhead(msg[m].pc) <= 7
         /\ StepsLeft(m) \in Nat /\ StepsLeft(m) <= 7 * (Attempts + MaxStalled)
         /\ Unsettled(m) => StepsLeft(m) > 0
<1>1. /\ msg[m].attempts \in Nat /\ msg[m].attempts <= Attempts - 1
      /\ msg[m].stalls \in Nat /\ msg[m].stalls <= MaxStalled
      /\ Attempts \in Nat \ {0} /\ MaxStalled \in Nat
  BY ImportAssumption DEF TypeOK, Msg
<1>2. RunsLeft(m) \in Nat /\ RunsLeft(m) <= Attempts + MaxStalled - 1
  BY <1>1 DEF RunsLeft
<1>3. msg[m].pc \in {"idle", "mark", "lookup", "upsert", "count", "finish", "ack"}
  BY DEF TypeOK, Msg
<1>4. /\ StepsAhead(msg[m].pc) \in Nat
      /\ 1 <= StepsAhead(msg[m].pc) /\ StepsAhead(msg[m].pc) <= 7
  BY <1>3, StepsAheadIs
<1> QED BY <1>1, <1>2, <1>4 DEF StepsLeft

\* The three ways in which a message spends: it goes on, it is put back for
\* another run, or it settles.
LEMMA GoingOnSpends ==
  ASSUME TypeOK, NEW m \in Msgs, Unsettled(m),
         msg'[m].state = "active", msg'[m].attempts = msg[m].attempts,
         msg'[m].stalls = msg[m].stalls,
         StepsAhead(msg'[m].pc) \in Nat,
         StepsAhead(msg'[m].pc) < StepsAhead(msg[m].pc)
  PROVE  StepsLeft(m)' < StepsLeft(m) /\ StepsLeft(m)' \in Int
<1>1. RunsLeft(m)' = RunsLeft(m) /\ RunsLeft(m) \in Nat
  BY StepsLeftIs DEF RunsLeft
<1>2. StepsLeft(m)' = 7 * RunsLeft(m) + StepsAhead(msg'[m].pc)
  BY <1>1 DEF StepsLeft, Unsettled
<1>3. StepsLeft(m) = 7 * RunsLeft(m) + StepsAhead(msg[m].pc)
  BY DEF StepsLeft
<1>4. StepsAhead(msg[m].pc) \in Nat
  BY StepsLeftIs
<1> QED BY <1>1, <1>2, <1>3, <1>4

LEMMA RunningAgainSpends ==
  ASSUME TypeOK, NEW m \in Msgs, Unsettled(m),
         msg'[m].state = "again", msg'[m].pc = "idle",
         \/ /\ msg'[m].attempts = msg[m].attempts + 1
            /\ msg'[m].stalls = msg[m].stalls
         \/ /\ msg'[m].attempts = msg[m].attempts
            /\ msg'[m].stalls = msg[m].stalls + 1
  PROVE  StepsLeft(m)' < StepsLeft(m) /\ StepsLeft(m)' \in Int
<1>1. /\ msg[m].attempts \in Nat /\ msg[m].stalls \in Nat
      /\ Attempts \in Nat /\ MaxStalled \in Nat
  BY ImportAssumption DEF TypeOK, Msg
<1>2. RunsLeft(m)' = RunsLeft(m) - 1
  BY <1>1 DEF RunsLeft
<1>3. StepsLeft(m)' = 7 * (RunsLeft(m) - 1) + 7
  BY <1>2, StepsAheadIs DEF StepsLeft, Unsettled
<1>4. StepsLeft(m) = 7 * RunsLeft(m) + StepsAhead(msg[m].pc)
  BY DEF StepsLeft
<1>5. RunsLeft(m) \in Nat /\ StepsAhead(msg[m].pc) \in Nat /\ StepsAhead(msg[m].pc) >= 1
  BY StepsLeftIs
<1> QED BY <1>3, <1>4, <1>5

LEMMA SettlingSpends ==
  ASSUME TypeOK, NEW m \in Msgs, Unsettled(m),
         msg'[m].state \in {"completed", "failed"}
  PROVE  StepsLeft(m)' < StepsLeft(m) /\ StepsLeft(m)' \in Int
<1>1. StepsLeft(m)' = 0
  BY DEF StepsLeft, Unsettled
<1> QED BY <1>1, StepsLeftIs

LEMMA SameSteps ==
  ASSUME NEW m, msg'[m].state = msg[m].state, msg'[m].pc = msg[m].pc,
         msg'[m].attempts = msg[m].attempts, msg'[m].stalls = msg[m].stalls
  PROVE  StepsLeft(m)' = StepsLeft(m)
BY DEF StepsLeft, Unsettled, RunsLeft

\* A step of m spends of m's budget and leaves that of any other.
LEMMA StartSpends ==
  ASSUME ImportInv, NEW m \in Msgs, Start(m)
  PROVE  /\ StepsLeft(m)' < StepsLeft(m) /\ StepsLeft(m)' \in Int
         /\ \A k \in Msgs \ {m} : StepsLeft(k)' = StepsLeft(k)
<1>1. msg[m] \in Msg /\ msg[m].state \in {"again", "fresh"} /\ m \notin Active
  BY StartIs
<1>2. msg[m].pc = "idle"
  BY <1>1 DEF ImportInv, QueueOk
<1>3. /\ \A k \in Active : msg'[k] = [msg[k] EXCEPT !.peers = msg[k].peers \cup {m}]
      /\ \A k \in Msgs \ Active : k # m => msg'[k] = msg[k]
  BY StartIs
<1>4. StepsLeft(m)' < StepsLeft(m) /\ StepsLeft(m)' \in Int
  <2>1. /\ msg'[m].state = "active" /\ msg'[m].pc = "mark"
        /\ msg'[m].attempts = msg[m].attempts /\ msg'[m].stalls = msg[m].stalls
    BY StartIs
  <2>2. Unsettled(m) /\ TypeOK
    BY <1>1 DEF ImportInv, Unsettled
  <2> QED BY <1>2, <2>1, <2>2, StepsAheadIs, GoingOnSpends
<1>5. ASSUME NEW k \in Msgs \ {m} PROVE StepsLeft(k)' = StepsLeft(k)
  <2>1. msg[k] \in Msg
    BY DEF ImportInv, TypeOK
  <2>2. /\ msg'[k].state = msg[k].state /\ msg'[k].pc = msg[k].pc
        /\ msg'[k].attempts = msg[k].attempts /\ msg'[k].stalls = msg[k].stalls
    <3>1. CASE k \in Active
      <4> DEFINE P == msg[k].peers \cup {m}
      <4>1. msg'[k] = [msg[k] EXCEPT !.peers = P]
        BY <1>3, <3>1
      <4> HIDE DEF P
      <4> QED BY <2>1, <4>1 DEF Msg
    <3>2. CASE k \notin Active
      BY <1>3, <3>2
    <3> QED BY <3>1, <3>2
  <2> QED BY <2>2, SameSteps
<1> QED BY <1>4, <1>5

LEMMA WorkSpends ==
  ASSUME ImportInv, NEW m \in Msgs, Work(m)
  PROVE  /\ StepsLeft(m)' < StepsLeft(m) /\ StepsLeft(m)' \in Int
         /\ \A k \in Msgs \ {m} : StepsLeft(k)' = StepsLeft(k)
<1>1. msg[m] \in Msg /\ msg[m].state = "active" /\ Unsettled(m) /\ TypeOK
  <2>1. msg[m].pc \in {"mark", "lookup", "upsert", "count", "finish", "ack"}
    BY DEF Work, Mark, Lookup, Upsert, Count, Finish, Ack, Throw
  <2>2. msg[m].pc # "idle"
    BY <2>1
  <2> QED BY <2>2, Running DEF Unsettled, ImportInv
<1>2. msg \in [Msgs -> Msg]
  BY <1>1 DEF TypeOK
<1>3. ASSUME Mark(m) \/ Lookup(m) \/ Upsert(m) \/ Count(m) \/ Finish(m)
      PROVE  /\ StepsLeft(m)' < StepsLeft(m) /\ StepsLeft(m)' \in Int
             /\ \A k \in Msgs \ {m} : msg'[k] = msg[k]
  <2>1. /\ msg'[m].state = msg[m].state
        /\ msg'[m].attempts = msg[m].attempts /\ msg'[m].stalls = msg[m].stalls
        /\ \/ msg[m].pc = "mark" /\ msg'[m].pc = "lookup"
           \/ msg[m].pc = "lookup" /\ msg'[m].pc = AfterChunk(msg[m].todo)
           \/ msg[m].pc = "upsert" /\ msg'[m].pc = "count"
           \/ msg[m].pc = "count" /\ msg'[m].pc = AfterChunk(msg[m].todo)
           \/ msg[m].pc = "finish" /\ msg'[m].pc = "ack"
        /\ \A k \in Msgs \ {m} : msg'[k] = msg[k]
    <3>1. CASE Mark(m)
      BY <1>1, <1>2, <3>1 DEF Mark, Msg
    <3>2. CASE Lookup(m)
      BY <1>1, <1>2, <3>2 DEF Lookup, Msg
    <3>3. CASE Upsert(m)
      BY <3>3, UpsertDoes DEF Upsert
    <3>4. CASE Count(m)
      BY <1>1, <1>2, <3>4 DEF Count, Msg
    <3>5. CASE Finish(m)
      BY <1>1, <1>2, <3>5 DEF Finish, Msg
    <3> QED BY <1>3, <3>1, <3>2, <3>3, <3>4, <3>5
  <2>2. msg[m].pc = "count" => msg[m].todo = {}   \* a message is one chunk
    BY DEF ImportInv, RunOk, RunAt
  <2>3. /\ StepsAhead(msg'[m].pc) < StepsAhead(msg[m].pc)
        /\ StepsAhead(msg'[m].pc) \in Nat
    BY <2>1, <2>2, StepsAheadIs DEF AfterChunk
  <2> QED BY <1>1, <2>1, <2>3, GoingOnSpends
<1>4. ASSUME Ack(m)
      PROVE  /\ StepsLeft(m)' < StepsLeft(m) /\ StepsLeft(m)' \in Int
             /\ \A k \in Msgs \ {m} : msg'[k] = msg[k]
  <2>1. msg' = [msg EXCEPT ![m] = Over(m, "completed")]
    BY <1>4 DEF Ack
  <2>2. Over(m, "completed").state = "completed"
    BY <1>1, OverIs
  <2>3. msg'[m].state = "completed" /\ \A k \in Msgs \ {m} : msg'[k] = msg[k]
    BY <1>2, <2>1, <2>2
  <2> QED BY <1>1, <2>3, SettlingSpends
<1>5. ASSUME Throw(m)
      PROVE  /\ StepsLeft(m)' < StepsLeft(m) /\ StepsLeft(m)' \in Int
             /\ \A k \in Msgs \ {m} : msg'[k] = msg[k]
  <2> DEFINE n == NextAttempt(msg[m].attempts)
             new == IF MoreAttempts(n) THEN Again(m, n, msg[m].stalls)
                                       ELSE Over(m, "failed")
  <2>1. msg' = [msg EXCEPT ![m] = new]
    BY <1>5 DEF Throw
  <2>2. new = IF MoreAttempts(n) THEN Again(m, n, msg[m].stalls) ELSE Over(m, "failed")
    OBVIOUS
  <2> HIDE DEF new
  <2>3. msg'[m] = new /\ \A k \in Msgs \ {m} : msg'[k] = msg[k]
    BY <1>2, <2>1
  <2>4. CASE MoreAttempts(n)
    <3>1. /\ n \in 0 .. Attempts - 1 /\ msg[m].stalls \in 0 .. MaxStalled
          /\ n = msg[m].attempts + 1
      BY <1>1, <2>4, ImportAssumption DEF Msg, MoreAttempts, NextAttempt
    <3> HIDE DEF n
    <3>2. /\ new.state = "again" /\ new.pc = "idle"
          /\ new.attempts = n /\ new.stalls = msg[m].stalls
      BY <1>1, <2>2, <2>4, <3>1, AgainIs
    <3> QED BY <1>1, <2>3, <3>1, <3>2, RunningAgainSpends
  <2>5. CASE ~MoreAttempts(n)
    <3>1. new.state = "failed"
      BY <1>1, <2>2, <2>5, OverIs
    <3> QED BY <1>1, <2>3, <3>1, SettlingSpends
  <2> QED BY <2>3, <2>4, <2>5
<1>6. StepsLeft(m)' < StepsLeft(m) /\ StepsLeft(m)' \in Int /\ \A k \in Msgs \ {m} : msg'[k] = msg[k]
  BY <1>3, <1>4, <1>5 DEF Work
<1>7. \A k \in Msgs \ {m} : StepsLeft(k)' = StepsLeft(k)
  BY <1>6, SameSteps
<1> QED BY <1>6, <1>7

LEMMA CrashSpends ==
  ASSUME ImportInv, Crash, NEW k \in Msgs
  PROVE  StepsLeft(k)' <= StepsLeft(k)
<1>1. TypeOK /\ msg[k] \in Msg
  BY DEF ImportInv, TypeOK
<1>2. msg'[k] = IF k \notin Active THEN msg[k]
                ELSE IF msg[k].stalls < MaxStalled
                  THEN Again(k, msg[k].attempts, msg[k].stalls + 1)
                  ELSE Over(k, "failed")
  BY DEF Crash
<1>3. StepsLeft(k) \in Nat
  BY <1>1, StepsLeftIs
<1>4. CASE k \notin Active
  BY <1>2, <1>3, <1>4, SameSteps
<1>5. CASE k \in Active
  <2>1. Unsettled(k)
    BY <1>5 DEF Active, Unsettled
  <2>2. StepsLeft(k)' < StepsLeft(k) /\ StepsLeft(k)' \in Int
    <3>1. CASE msg[k].stalls < MaxStalled
      <4> DEFINE s == msg[k].stalls + 1
      <4>1. msg[k].attempts \in 0 .. Attempts - 1 /\ s \in 0 .. MaxStalled
        BY <1>1, <3>1, ImportAssumption DEF Msg
      <4>2. msg'[k] = Again(k, msg[k].attempts, s) /\ s = msg[k].stalls + 1
        BY <1>2, <1>5, <3>1
      <4> HIDE DEF s
      <4>3. /\ msg'[k].state = "again" /\ msg'[k].pc = "idle"
            /\ msg'[k].attempts = msg[k].attempts /\ msg'[k].stalls = s
        BY <1>1, <4>1, <4>2, AgainIs
      <4> QED BY <1>1, <2>1, <4>2, <4>3, RunningAgainSpends
    <3>2. CASE ~(msg[k].stalls < MaxStalled)
      <4>1. msg'[k].state = "failed"
        BY <1>1, <1>2, <1>5, <3>2, OverIs
      <4> QED BY <1>1, <2>1, <4>1, SettlingSpends
    <3> QED BY <3>1, <3>2
  <2> QED BY <1>3, <2>2
<1> QED BY <1>4, <1>5

\* What the producers, the endpoint and the removals leave of the budgets: an
\* added message had none, and nothing else touches the queue.
LEMMA OthersSpendNothing ==
  ASSUME ImportInv, NEW k \in Msgs, msg[k].state # "none",
         \/ \E j \in Jobs :
              \/ Save(j)
              \/ Begin(j)
              \/ \E B \in Payloads : AddBulk(j, B) \/ AddStream(j, B)
              \/ RefuseBulk(j)
              \/ EndStream(j)
              \/ FailStream(j)
         \/ \E r \in Recs : Remove(r)
         \/ UNCHANGED vars
  PROVE  msg'[k] = msg[k]
<1>1. msg \in [Msgs -> Msg]
  BY DEF ImportInv, TypeOK
<1>2. ASSUME NEW j \in Jobs, NEW B \in Payloads, AddBulk(j, B) \/ AddStream(j, B)
      PROVE  msg'[k] = msg[k]
  <2>1. Accept(j, B)
    BY <1>2 DEF AddBulk, AddStream
  <2>2. PICK m \in Msgs :
          /\ msg[m].state = "none"
          /\ msg' = [msg EXCEPT ![m] =
               [NoMsg EXCEPT !.state = "fresh", !.job = j, !.recs = B]]
    BY <2>1 DEF Accept
  <2>3. k # m
    BY <2>2
  <2> QED BY <1>1, <2>2, <2>3
<1>3. ASSUME NEW j \in Jobs,
             Save(j) \/ Begin(j) \/ RefuseBulk(j) \/ EndStream(j) \/ FailStream(j)
      PROVE  msg'[k] = msg[k]
  BY <1>3 DEF Save, Begin, RefuseBulk, EndStream, FailStream
<1>4. ASSUME NEW r \in Recs, Remove(r) PROVE msg'[k] = msg[k]
  BY <1>4 DEF Remove
<1> QED BY <1>2, <1>3, <1>4 DEF vars

LEMMA BudgetKept ==
  ASSUME ImportInv, [Next]_vars, NEW k \in Msgs, msg[k].state # "none"
  PROVE  StepsLeft(k)' <= StepsLeft(k)
<1>1. StepsLeft(k) \in Nat
  BY StepsLeftIs DEF ImportInv
<1>2. ASSUME NEW m \in Msgs, Start(m) \/ Work(m)
      PROVE  StepsLeft(k)' <= StepsLeft(k)
  <2>1. CASE k = m
    <3>1. StepsLeft(k)' < StepsLeft(k) /\ StepsLeft(k)' \in Int
      BY <1>2, <2>1, StartSpends, WorkSpends
    <3> QED BY <1>1, <3>1
  <2>2. CASE k # m
    BY <1>1, <1>2, <2>2, StartSpends, WorkSpends
  <2> QED BY <2>1, <2>2
<1>3. CASE Crash
  BY <1>3, CrashSpends
<1>4. ASSUME msg'[k] = msg[k] PROVE StepsLeft(k)' <= StepsLeft(k)
  BY <1>1, <1>4, SameSteps
<1> QED BY <1>2, <1>3, <1>4, OthersSpendNothing DEF Next

\* Retries and re-runs of import-processor.ts end (queues.module.ts grants
\* Attempts of them, the worker MaxStalled): each step of a message's own run
\* takes one from what is left of its budget, and no crash, other message,
\* producer or removal gives any back.
THEOREM MessagesRunOut == Spec => []StepsBounded /\ StepsSpent
<1>1. ImportInv => StepsBounded
  BY StepsLeftIs DEF ImportInv, StepsBounded
<1> DEFINE A == \A m \in Msgs :
                  /\ Start(m) \/ Work(m) => StepsLeft(m)' < StepsLeft(m)
                  /\ msg[m].state # "none" => StepsLeft(m)' <= StepsLeft(m)
<1>2. ImportInv /\ [Next]_vars => [A]_vars
  <2> SUFFICES ASSUME ImportInv, [Next]_vars PROVE A
    OBVIOUS
  <2> QED BY StartSpends, WorkSpends, BudgetKept
<1> QED BY <1>1, <1>2, ImportInvariant, PTL DEF Spec, StepsSpent

\* The queue of base-queue.producer.ts never stalls: while a message waits or
\* runs, some worker is inside a run, whose awaits settle one way or the
\* other, or a worker is free and some message has its turn.
THEOREM QueueNeverStalls == Spec => []NoMessageStuck
<1>1. ImportInv => NoMessageStuck
  <2> SUFFICES ASSUME ImportInv, NEW k \in Msgs, Unsettled(k),
                      \A m \in Msgs : msg[m].pc = "idle"
               PROVE  Cardinality(Active) < Concurrency /\ \E m \in Msgs : Turn(m)
    BY DEF NoMessageStuck
  <2>1. \A m \in Msgs : msg[m].state # "active"
    BY DEF ImportInv, QueueOk
  <2>2. Cardinality(Active) < Concurrency
    <3>1. Active = {}
      BY <2>1 DEF Active
    <3> QED BY <3>1, FS_EmptySet, ImportAssumption
  <2>3. \E m \in Msgs : Turn(m)
    <3>1. CASE msg[k].state = "again"
      BY <3>1 DEF Turn
    <3>2. CASE msg[k].state # "again"
      <4> DEFINE F == {m \in Msgs : msg[m].state = "fresh"}
      <4>1. F \subseteq Nat /\ k \in F
        BY <2>1, <3>2 DEF Unsettled, Msgs
      <4>2. PICK m \in F : \A l \in F : m <= l
        <5> HIDE DEF F
        <5>1. F # {}
          BY <4>1
        <5>2. IsWellFoundedOn(OpToRel(<, Nat), Nat)
          BY NatLessThanWellFounded
        <5>3. PICK m \in F : \A l \in F : ~(<<l, m>> \in OpToRel(<, Nat))
          BY <4>1, <5>1, <5>2, WFMin
        <5>4. ASSUME NEW l \in F PROVE m <= l
          <6>1. l \in Nat /\ m \in Nat
            BY <4>1
          <6>2. ~(l < m)
            BY <5>3, <6>1 DEF OpToRel
          <6> QED BY <6>1, <6>2
        <5> QED BY <5>3, <5>4
      <4>3. ASSUME NEW l \in 1 .. m - 1 PROVE msg[l].state # "fresh"
        <5>1. l \in Msgs /\ ~(m <= l)
          BY ImportAssumption DEF Msgs
        <5> QED BY <4>2, <5>1
      <4> QED BY <4>2, <4>3 DEF Turn
    <3> QED BY <3>1, <3>2
  <2> QED BY <2>2, <2>3
<1> QED BY <1>1, ImportInvariant, PTL

=============================================================================
