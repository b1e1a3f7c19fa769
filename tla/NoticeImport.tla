---------------------------- MODULE NoticeImport ----------------------------
(***************************************************************************)
(* The ingestion queue and the import processor                            *)
(* (ingestion.service.ts, base-queue.producer.ts, queues.module.ts,        *)
(* import-processor.ts), with the part of soda-streamer.service.ts that    *)
(* writes the same ingestion_jobs row as the processor.                    *)
(*                                                                         *)
(* A bulk request saves a job row and adds one message; a stream saves a   *)
(* job row, adds any number of messages and writes the row again when it   *)
(* ends.  Up to Concurrency sandboxed workers each take a message, mark    *)
(* the row, look up which notices exist, upsert chunk by chunk, count and  *)
(* write the final status.  Every await is a step; a rejected one makes    *)
(* the queue run the message again, except inside the upsert's try.        *)
(*                                                                         *)
(* External, modelled from how the code uses it: BullMQ (first in, first   *)
(* out, attempts with backoff, one re-run of a message whose worker died)  *)
(* and the two tables.                                                     *)
(***************************************************************************)
EXTENDS Naturals, Sequences, FiniteSets, FiniteSetsExt

CONSTANTS
  Bulks,        \* jobs opened by POST /procurement-notices/bulk
  Streams,      \* jobs opened by the SODA streamer
  Recs,         \* SECOP identifiers
  Broken,       \* records the table refuses: no status, so null in a
                \*   NOT NULL column
  MaxBatch,     \* the producer's limit on the records of a message
  ChunkSize,    \* CHUNK_SIZE
  Concurrency,  \* messages processed at once
  Attempts,     \* attempts of a message
  MaxStalled,   \* re-runs after a crash (maxStalledCount)
  MaxMsgs       \* bound: messages accepted in a run

ASSUME ImportAssumption ==
  /\ Bulks \cap Streams = {}
  /\ "none" \notin Bulks \cup Streams
  /\ Broken \subseteq Recs
  /\ MaxBatch \in Nat \ {0}
  /\ ChunkSize \in Nat \ {0}
  /\ MaxBatch <= ChunkSize   \* 1000 and 5000
  /\ Concurrency \in Nat \ {0}
  /\ Attempts \in Nat \ {0}
  /\ MaxStalled \in Nat
  /\ MaxMsgs \in Nat

VARIABLES
  phase,   \* phase[j]: how far the producer of job j is
  total,   \* total[j]: totalEnqueued, the records it has added so far
  job,     \* job[j]: the ingestion_jobs row of j
  msg,     \* msg[m]: the m-th message accepted, and the run of its processor
  notice   \* notice[r]: the procurement_notices row of r

vars == <<phase, total, job, msg, notice>>

Jobs == Bulks \cup Streams
Msgs == 1 .. MaxMsgs

Phase == {"idle", "saved", "streaming", "done"}
Status == {"none", "ACCEPTED", "PROCESSING", "COMPLETED", "PARTIAL", "FAILED"}

\* "none" stands for no row.  The errors column is left out.
JobRow == [status : Status, created : Nat, updated : Nat, failed : Nat]

NoRow == [status |-> "none", created |-> 0, updated |-> 0, failed |-> 0]

\* Versions are named by where they were accepted: message by, position at.
\* by = 0 stands for no row.
Notice == [by : 0 .. MaxMsgs, at : 0 .. MaxBatch, deleted : BOOLEAN]

Payloads == UNION {[1 .. n -> Recs] : n \in 0 .. MaxBatch}

Msg ==
  [state    : {"none", "fresh", "active", "again", "completed", "failed"},
   job      : Jobs \cup {"none"},
   recs     : Payloads,
   attempts : 0 .. Attempts - 1,   \* attempts that threw and were followed
   stalls   : 0 .. MaxStalled,     \* runs cut short by a crash
   pc       : {"idle", "mark", "lookup", "upsert", "count", "finish", "ack"},
   todo     : SUBSET Recs,         \* deduplicated records not yet upserted
   existing : SUBSET Recs,         \* existingSet
   created  : Nat, updated : Nat, failed : Nat,    \* result
   peers    : SUBSET Msgs,         \* history: messages active meanwhile
   inserted : SUBSET Recs]         \* history: rows it was the first to write

NoMsg ==
  [state |-> "none", job |-> "none", recs |-> <<>>, attempts |-> 0,
   stalls |-> 0, pc |-> "idle", todo |-> {}, existing |-> {},
   created |-> 0, updated |-> 0, failed |-> 0, peers |-> {}, inserted |-> {}]

Init ==
  /\ phase = [j \in Jobs |-> "idle"]
  /\ total = [j \in Jobs |-> 0]
  /\ job = [j \in Jobs |-> NoRow]
  /\ msg = [m \in Msgs |-> NoMsg]
  /\ notice = [r \in Recs |-> [by |-> 0, at |-> 0, deleted |-> FALSE]]

-----------------------------------------------------------------------------
(* The producers.                                                          *)

\* save() of the job row.
Save(j) ==
  /\ phase[j] = "idle"
  /\ phase' = [phase EXCEPT ![j] = "saved"]
  /\ job' = [job EXCEPT ![j].status = "ACCEPTED"]
  /\ UNCHANGED <<total, msg, notice>>

\* The streamer marks its row before it fetches.
Begin(j) ==
  /\ j \in Streams
  /\ phase[j] = "saved"
  /\ phase' = [phase EXCEPT ![j] = "streaming"]
  /\ job' = [job EXCEPT ![j].status = "PROCESSING"]
  /\ UNCHANGED <<total, msg, notice>>

\* The queue takes B as its next message.
Accept(j, B) ==
  \E m \in Msgs :
    /\ msg[m].state = "none"
    /\ \A k \in 1 .. m - 1 : msg[k].state # "none"
    /\ msg' = [msg EXCEPT ![m] =
         [NoMsg EXCEPT !.state = "fresh", !.job = j, !.recs = B]]

AddBulk(j, B) ==
  /\ j \in Bulks
  /\ phase[j] = "saved"
  /\ Accept(j, B)
  /\ phase' = [phase EXCEPT ![j] = "done"]
  /\ UNCHANGED <<total, job, notice>>

\* The add is refused after the row was saved: the row stays ACCEPTED.
RefuseBulk(j) ==
  /\ j \in Bulks
  /\ phase[j] = "saved"
  /\ phase' = [phase EXCEPT ![j] = "done"]
  /\ UNCHANGED <<total, job, msg, notice>>

AddStream(j, B) ==
  /\ phase[j] = "streaming"
  /\ B # <<>>
  /\ Accept(j, B)
  /\ total' = [total EXCEPT ![j] = @ + Len(B)]
  /\ UNCHANGED <<phase, job, notice>>

EndStream(j) ==
  /\ phase[j] = "streaming"
  /\ phase' = [phase EXCEPT ![j] = "done"]
  /\ job' = [job EXCEPT ![j].status = "COMPLETED", ![j].created = total[j]]
  /\ UNCHANGED <<total, msg, notice>>

\* A stream that throws, before or after it was marked.  Its catch may fail
\* to write the row.
FailStream(j) ==
  /\ j \in Streams
  /\ phase[j] \in {"saved", "streaming"}
  /\ phase' = [phase EXCEPT ![j] = "done"]
  /\ job' \in {job, [job EXCEPT ![j].status = "FAILED"]}
  /\ UNCHANGED <<total, msg, notice>>

-----------------------------------------------------------------------------
(* The queue.                                                              *)

Active == {m \in Msgs : msg[m].state = "active"}

TurnLifo(m) ==
  \/ msg[m].state = "again"
  \/ msg[m].state = "fresh" /\ \A k \in Msgs : k > m => msg[k].state # "fresh"
\* Messages are taken in the order they were added; one that waits for a
\* re-run comes back at any time after its backoff.
Turn(m) ==
  \/ msg[m].state = "again"
  \/ msg[m].state = "fresh" /\ \A k \in 1 .. m - 1 : msg[k].state # "fresh"

Start(m) ==
  /\ Cardinality(Active) < Concurrency
  /\ Turn(m)
  /\ msg' = [k \in Msgs |->
       CASE k = m -> [msg[m] EXCEPT !.state = "active", !.pc = "mark",
                                    !.peers = @ \cup Active]
         [] k \in Active -> [msg[k] EXCEPT !.peers = @ \cup {m}]
         [] OTHER -> msg[k]]
  /\ UNCHANGED <<phase, total, job, notice>>

\* Message m leaves its worker, whose locals are gone: it waits for another
\* run, or the queue is done with it and keeps what the processor returned.
Left(m) ==
  [msg[m] EXCEPT !.pc = "idle", !.todo = {}, !.existing = {},
                 !.created = 0, !.updated = 0, !.failed = 0]
Again(m, attempts, stalls) ==
  [Left(m) EXCEPT !.state = "again", !.attempts = attempts, !.stalls = stalls]
Over(m, state) ==
  [Left(m) EXCEPT !.state = state,
                  !.failed = IF state = "completed" THEN msg[m].failed ELSE 0]

NextAttemptForgotten(a) == a
NextAttempt(a) == a + 1

MoreAttemptsOffByOne(n) == n <= Attempts
MoreAttempts(n) == n < Attempts

\* An awaited call of the processor rejects outside the upsert's try.
Throw(m) ==
  /\ msg[m].pc \in {"mark", "lookup", "count", "finish"}
  /\ LET n == NextAttempt(msg[m].attempts)
     IN msg' = [msg EXCEPT ![m] = IF MoreAttempts(n)
          THEN Again(m, n, msg[m].stalls) ELSE Over(m, "failed")]
  /\ UNCHANGED <<phase, total, job, notice>>

\* The process dies and starts again: producers and workers lose their
\* locals, the queue re-runs what was active, once too often not.
Crash ==
  /\ Active # {} \/ \E j \in Jobs : phase[j] \in {"saved", "streaming"}
  /\ msg' = [m \in Msgs |->
       IF m \notin Active THEN msg[m]
       ELSE IF msg[m].stalls < MaxStalled
         THEN Again(m, msg[m].attempts, msg[m].stalls + 1)
         ELSE Over(m, "failed")]
  /\ phase' = [j \in Jobs |-> IF phase[j] \in {"saved", "streaming"}
                                THEN "done" ELSE phase[j]]
  /\ UNCHANGED <<total, job, notice>>

-----------------------------------------------------------------------------
(* importProcessor.                                                        *)

\* The identifiers deduplicateRecords keeps.
Named(m) == {msg[m].recs[i] : i \in DOMAIN msg[m].recs}

\* deduplicateRecords: the last record of an identifier wins.
Position(m, r) == Max({i \in DOMAIN msg[m].recs : msg[m].recs[i] = r})

Mark(m) ==
  /\ msg[m].pc = "mark"
  /\ job' = [job EXCEPT ![msg[m].job].status = "PROCESSING"]
  /\ msg' = [msg EXCEPT ![m].pc = "lookup", ![m].todo = Named(m)]
  /\ UNCHANGED <<phase, total, notice>>

Stored == {r \in Recs : notice[r].by # 0}
\* find() does not see soft-deleted rows.
Visible == {r \in Stored : ~notice[r].deleted}

ExistingByReference(m) == {}
\* existingSet
Existing(m) == Named(m) \cap Visible

AfterChunk(todo) == IF todo = {} THEN "finish" ELSE "upsert"

Lookup(m) ==
  /\ msg[m].pc = "lookup"
  /\ msg' = [msg EXCEPT ![m].existing = Existing(m),
                        ![m].pc = AfterChunk(msg[m].todo)]
  /\ UNCHANGED <<phase, total, job, notice>>

WrittenUndeleted(r, m) ==
  [by |-> m, at |-> Position(m, r), deleted |-> FALSE]
\* The row of r after the upsert: deletedAt is not among its columns.
Written(r, m) == [notice[r] EXCEPT !.by = m, !.at = Position(m, r)]

\* One chunk.  A refused record fails it as a whole; so does the database.
Upsert(m) ==
  /\ msg[m].pc = "upsert"
  /\ \E C \in SUBSET msg[m].todo :
       /\ Cardinality(C) = Min({ChunkSize, Cardinality(msg[m].todo)})
       /\ \/ /\ C \cap Broken = {}
             /\ notice' = [r \in Recs |->
                  IF r \in C THEN Written(r, m) ELSE notice[r]]
             /\ msg' = [msg EXCEPT ![m].pc = "count",
                  ![m].todo = @ \ C,
                  ![m].updated = @ + Cardinality(C \cap msg[m].existing),
                  ![m].created = @ + Cardinality(C \ msg[m].existing),
                  ![m].inserted = @ \cup (C \ Stored)]
          \/ /\ msg' = [msg EXCEPT ![m].pc = "count",
                  ![m].todo = @ \ C, ![m].failed = @ + Cardinality(C)]
             /\ UNCHANGED notice
  /\ UNCHANGED <<phase, total, job>>

\* The row of job j with the result of message m so far.
Counted(m, status) ==
  [status |-> status, created |-> msg[m].created,
   updated |-> msg[m].updated, failed |-> msg[m].failed]

Count(m) ==
  /\ msg[m].pc = "count"
  /\ job' = [job EXCEPT ![msg[m].job] = Counted(m, @.status)]
  /\ msg' = [msg EXCEPT ![m].pc = AfterChunk(msg[m].todo)]
  /\ UNCHANGED <<phase, total, notice>>

FinalStatusAlwaysDone(m) == "COMPLETED"
FinalStatus(m) ==
  IF msg[m].failed = 0 THEN "COMPLETED"
  ELSE IF msg[m].created > 0 \/ msg[m].updated > 0 THEN "PARTIAL"
  ELSE "FAILED"

Finish(m) ==
  /\ msg[m].pc = "finish"
  /\ job' = [job EXCEPT ![msg[m].job] = Counted(m, FinalStatus(m))]
  /\ msg' = [msg EXCEPT ![m].pc = "ack"]
  /\ UNCHANGED <<phase, total, notice>>

\* The processor returned and the queue keeps its result.
Ack(m) ==
  /\ msg[m].pc = "ack"
  /\ msg' = [msg EXCEPT ![m] = Over(m, "completed")]
  /\ UNCHANGED <<phase, total, job, notice>>

-----------------------------------------------------------------------------
\* ProcurementNoticesService.remove: a soft delete.
Remove(r) ==
  /\ r \in Visible
  /\ notice' = [notice EXCEPT ![r].deleted = TRUE]
  /\ UNCHANGED <<phase, total, job, msg>>

Work(m) ==
  \/ Mark(m)
  \/ Lookup(m)
  \/ Upsert(m)
  \/ Count(m)
  \/ Finish(m)
  \/ Ack(m)
  \/ Throw(m)

Next ==
  \/ \E j \in Jobs :
       \/ Save(j)
       \/ Begin(j)
       \/ \E B \in Payloads : AddBulk(j, B) \/ AddStream(j, B)
       \/ RefuseBulk(j)
       \/ EndStream(j)
       \/ FailStream(j)
  \/ \E m \in Msgs : Start(m) \/ Work(m)
  \/ Crash
  \/ \E r \in Recs : Remove(r)

Spec == Init /\ [][Next]_vars

\* Workers take what waits and their awaits settle one way or the other.
FairSpec ==
  /\ Spec
  /\ \A m \in Msgs : WF_vars(Start(m)) /\ WF_vars(Work(m))

-----------------------------------------------------------------------------
(* Properties.                                                             *)

TypeOK ==
  /\ phase \in [Jobs -> Phase]
  /\ total \in [Jobs -> Nat]
  /\ job \in [Jobs -> JobRow]
  /\ msg \in [Msgs -> Msg]
  /\ notice \in [Recs -> Notice]

\* A row at a version that message m carried and itself replaced.
Superseded(m, r) ==
  /\ notice[r].by = m
  /\ \E i \in DOMAIN msg[m].recs : i > notice[r].at /\ msg[m].recs[i] = r

\* Count n tells how many rows message m inserted.  It is too low only if m
\* was run again, when it finds the rows of its earlier run; and too high only
\* if m names a row that is soft-deleted, or that a message active meanwhile
\* names too.
Told(m, n) ==
  /\ n < Cardinality(msg[m].inserted) => msg[m].attempts + msg[m].stalls > 0
  /\ n > Cardinality(msg[m].inserted) =>
       \E r \in Named(m) :
         notice[r].deleted \/ \E k \in msg[m].peers : r \in Named(k)

\* What the row of a bulk job says, through retries and crashes: a job shown
\* as COMPLETED failed nothing; its counts add up to its distinct records and
\* tell the inserted from the updated, but for the cases that Told names; and
\* each record has a row, at no version the request itself replaced.
BulkJobTruth ==
  \A m \in Msgs :
    (msg[m].job \in Bulks /\ job[msg[m].job].status = "COMPLETED") =>
      LET row == job[msg[m].job]
      IN /\ row.failed = 0
         /\ row.created + row.updated = Cardinality(Named(m))
         /\ Told(m, row.created)
         /\ \A r \in Named(m) : notice[r].by # 0 /\ ~Superseded(m, r)

\* A message the queue shows as completed has told its outcome: the row of
\* its bulk job is COMPLETED, or FAILED with every distinct record counted.
\* PARTIAL is out of reach, since a message fits in one chunk.
BulkJobReported ==
  \A m \in Msgs :
    (msg[m].job \in Bulks /\ msg[m].state = "completed") =>
      LET row == job[msg[m].job]
      IN \/ /\ row.status = "COMPLETED"
            /\ row.failed = 0
         \/ /\ row.status = "FAILED"
            /\ row.failed = Cardinality(Named(m))
            /\ row.created + row.updated = 0

\* The version a row holds, in the order of acceptance.
Older(a, b) == a.by < b.by \/ (a.by = b.by /\ a.at < b.at)

\* An older version replaces a newer one only if its message was run again
\* or shared the workers with the newer one's.
OrderKept ==
  [][\A r \in Recs :
       Older(notice'[r], notice[r]) =>
         LET m == msg[notice'[r].by]
         IN m.attempts + m.stalls > 0 \/ notice[r].by \in m.peers]_vars

\* A notice an analyst removed does not come back by import.
RemovedStaysRemoved ==
  [][\A r \in Recs : notice[r].deleted => notice'[r].deleted]_vars

\* Every message accepted is completed or given up: the retries and re-runs of
\* one message never keep the next in the queue waiting for good.
EveryMessageSettles ==
  \A m \in Msgs :
    msg[m].state = "fresh" ~> msg[m].state \in {"completed", "failed"}

\* async-job-queues/spec.md:129 of a message with a bad record: "unaffected
\* records can still complete under same job".
UnaffectedComplete ==
  \A m \in Msgs :
    (msg[m].state = "completed" /\ Named(m) \cap Broken # {}) =>
      \A r \in Named(m) \ Broken : notice[r].by # 0

=============================================================================
