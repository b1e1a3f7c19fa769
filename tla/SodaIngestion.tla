--------------------------- MODULE SodaIngestion ---------------------------
(***************************************************************************)
(* The SODA ingestion scheduler and its streamer                           *)
(* (soda-ingestion.service.ts, soda-streamer.service.ts,                   *)
(* soda-client.service.ts, base-queue.producer.ts).                        *)
(*                                                                         *)
(* A cycle, started by the bootstrap hook or the cron, runs one            *)
(* fetchAndIngest per dataset concurrently.  Each reads its                *)
(* ingestion_state row, streams the dataset page by page into micro-       *)
(* batches on the queue and then persists the cursor.  Every await is a    *)
(* step of its own; every awaited call may fail; the process may die       *)
(* between any two steps.                                                  *)
(*                                                                         *)
(* External, modelled from how the code uses it: the dataset (a set of     *)
(* record versions, stamped or not), the SoQL query, the database calls,   *)
(* and the queue's add, which keeps what it was given.                     *)
(***************************************************************************)
EXTENDS Integers, FiniteSets

CONSTANTS
  Sources,     \* the datasets: SECOP_I, SECOP_II
  Recs,        \* identifiers of the records in a dataset
  Kinds,       \* version kinds: "live", "dead" (cancelled or rejected),
               \*   "invalid" (its DTO fails validation)
  Cycles,      \* invocations of runIngestionCycle that can overlap
  PageSize,    \* SODA_PAGE_SIZE
  BatchSize,   \* MICRO_BATCH_SIZE
  Since,       \* SODA_SINCE, 0 when unset
  MaxNotice,   \* MAX(source_last_updated_at) before the first run, or 0
  Ties,        \* whether a dataset may stamp two versions alike
  Undated,     \* the records that may lack the ordering field at first
  MaxTime,     \* bound: the last stamp a dataset gives
  MaxFaults,   \* bound: failed calls and crashes in a run
  FailureCap   \* bound: consecutiveFailures counts up to it; the code tells
               \*   counts apart only by the log level it picks from 3 on

ASSUME ConstantsAssumption ==
  /\ PageSize \in Nat \ {0}
  /\ BatchSize \in Nat \ {0}
  /\ MaxTime \in Nat
  /\ Since \in 0 .. MaxTime
  /\ MaxNotice \in 0 .. MaxTime
  /\ Ties \in BOOLEAN
  /\ IsFiniteSet(Recs) /\ Undated \subseteq Recs
  /\ MaxFaults \in Nat
  /\ FailureCap \in Nat \ {0}
  /\ Kinds \subseteq {"live", "dead", "invalid"}

VARIABLES
  pub,         \* pub[s]: the versions dataset s holds, one per record
  clock,       \* clock[s]: the last stamp dataset s has given
  row,         \* row[s]: the ingestion_state row of s
  isRunning,   \* SodaIngestionService.isRunning
  task,        \* task[c][s]: the locals of fetchAndIngest and streamToQueue
  queued,      \* queued[s]: the versions handed to the ingestion queue
  floor,       \* history: floor[s], the stamp the cursor was seeded with
  faults       \* failures injected so far

vars == <<pub, clock, row, isRunning, task, queued, floor, faults>>

\* Stamp 0: a record without the ordering field, which is optional.
Version == [rec : Recs, stamp : 0 .. MaxTime, kind : Kinds]

\* A cursor of 0 stands for null, and for undefined.
Row == [exists : BOOLEAN, cursor : 0 .. MaxTime, failures : 0 .. FailureCap]

Settled == {"fulfilled", "rejected"}
Streaming == {"mark", "query", "drain", "rest", "close", "jobfail"}
Active == Streaming \cup {"open", "persist", "countfail"}
PC == Active \cup Settled \cup {"off", "ensure"}

JobStatus == {"none", "ACCEPTED", "PROCESSING", "COMPLETED", "FAILED"}

Task ==
  [pc    : PC,
   base  : 0 .. MaxTime,     \* state.lastCursorValue, as read
   fails : 0 .. FailureCap,  \* state.consecutiveFailures, as read
   cur   : 0 .. MaxTime,     \* cursorValue
   last  : 0 .. MaxTime,     \* ordering field of the last record fetched
   full  : BOOLEAN,          \* the page had pageSize records
   page  : SUBSET Version,   \* mapped records of the page not yet batched
   batch : SUBSET Version,   \* microBatch, which may hold a record twice
   size  : 0 .. BatchSize - 1,   \* microBatch.length
   job   : JobStatus]        \* status of the stream's IngestionJob row

Off ==
  [pc |-> "off", base |-> 0, fails |-> 0, cur |-> 0, last |-> 0,
   full |-> FALSE, page |-> {}, batch |-> {}, size |-> 0, job |-> "none"]

Init ==
  /\ pub = [s \in Sources |-> {}]
  /\ clock = [s \in Sources |-> 0]
  \* An earlier deployment may have left a row without a cursor.
  /\ row \in [Sources -> {[exists |-> e, cursor |-> 0, failures |-> 0] :
                            e \in BOOLEAN}]
  /\ isRunning = FALSE
  /\ task = [c \in Cycles |-> [s \in Sources |-> Off]]
  /\ queued = [s \in Sources |-> {}]
  /\ floor = [s \in Sources |-> 0]
  /\ faults = 0

-----------------------------------------------------------------------------
(* Steps of one task, and faults.                                          *)

At(c, s, pc) == task[c][s].pc = pc

\* The task of c for s continues with locals t.
Becomes(c, s, t) == task' = [task EXCEPT ![c][s] = t]

Goto(c, s, pc) == Becomes(c, s, [task[c][s] EXCEPT !.pc = pc])

Fault == faults < MaxFaults /\ faults' = faults + 1

\* The task waits for a call that succeeds, or fails and diverts to pc.
Fails(c, s, pc) == Fault /\ Goto(c, s, pc)

-----------------------------------------------------------------------------
(* The dataset.                                                            *)

\* A stamp is later than every earlier one, or, with Ties, as late: the
\* ordering fields are dates that many records share.
NextStamps(now) == {t \in {now, now + 1} \cap 1 .. MaxTime : Ties \/ t > now}

\* The field is optional: a record may be there before it has one.
MayLackStamp(s, r) == r \in Undated /\ \A v \in pub[s] : v.rec # r

Publish(s, r, k) ==
  /\ \E t \in NextStamps(clock[s]) \cup {0} :
       /\ t = 0 => MayLackStamp(s, r)
       /\ clock' = [clock EXCEPT ![s] = IF t = 0 THEN @ ELSE t]
       /\ pub' = [pub EXCEPT ![s] =
            {v \in @ : v.rec # r} \cup {[rec |-> r, stamp |-> t, kind |-> k]}]
  /\ UNCHANGED <<row, isRunning, task, queued, floor, faults>>

\* WHERE (field > base) AND field > cursor, each if there is one.
Selected(s, base, cur) ==
  {v \in pub[s] : /\ base # 0 => v.stamp > base
                  /\ cur # 0 => v.stamp > cur}

\* ORDER BY field ASC: what lacks the field comes last.  The order among
\* equal stamps is not specified.
NotAfter(v, w) == w.stamp = 0 \/ (v.stamp # 0 /\ v.stamp <= w.stamp)

\* B holds the n first elements of V in that order.
IsPrefix(B, V, n) ==
  /\ B \subseteq V
  /\ \A v \in B, w \in V \ B : NotAfter(v, w)
  /\ IF Cardinality(V) <= n THEN B = V ELSE Cardinality(B) = n

-----------------------------------------------------------------------------
(* runIngestionCycle.                                                      *)

MayStartAnyway == TRUE
MayStart == ~isRunning

\* The check and the assignment of isRunning run without an await between.
StartCycle(c) ==
  /\ MayStart
  /\ \A s \in Sources : At(c, s, "off")
  /\ isRunning' = TRUE
  /\ task' = [task EXCEPT ![c] =
       [s \in Sources |-> [Off EXCEPT !.pc = "ensure"]]]
  /\ UNCHANGED <<pub, clock, row, queued, floor, faults>>

CycleDoneAtFirstRejection(c) ==
  \/ \A s \in Sources : task[c][s].pc \in Settled
  \/ \E s \in Sources : At(c, s, "rejected")
CycleDone(c) == \A s \in Sources : task[c][s].pc \in Settled

EndCycle(c) ==
  /\ CycleDone(c)
  /\ isRunning' = FALSE
  /\ task' = [task EXCEPT ![c] =
       [s \in Sources |-> IF task[c][s].pc \in Settled
                            THEN Off ELSE task[c][s]]]
  /\ UNCHANGED <<pub, clock, row, queued, floor, faults>>

-----------------------------------------------------------------------------
(* fetchAndIngest: ensureIngestionState.                                   *)

FirstCursor == IF Since # 0 THEN Since ELSE MaxNotice

\* The cursor the cycle starts from: the row's, else the configured one,
\* else on the very first run the newest notice's.
BaseCursor(s) ==
  IF row[s].cursor # 0 THEN row[s].cursor
  ELSE IF row[s].exists THEN Since ELSE FirstCursor

Ensure(c, s) ==
  /\ At(c, s, "ensure")
  /\ \/ /\ row' = [row EXCEPT ![s] =
             [exists |-> TRUE, cursor |-> BaseCursor(s),
              failures |-> row[s].failures]]
        /\ floor' = [floor EXCEPT ![s] =
             IF row[s].cursor = 0 THEN BaseCursor(s) ELSE @]
        /\ Becomes(c, s, [task[c][s] EXCEPT !.pc = "open",
             !.base = BaseCursor(s), !.fails = row[s].failures])
        /\ UNCHANGED faults
     \/ /\ Fails(c, s, "rejected")   \* outside fetchAndIngest's try
        /\ UNCHANGED <<row, floor>>
  /\ UNCHANGED <<pub, clock, isRunning, queued>>

-----------------------------------------------------------------------------
(* streamToQueue.                                                          *)

StreamUnchanged == UNCHANGED <<pub, clock, row, isRunning, queued, floor>>

\* save() of the IngestionJob, outside the streamer's try.
Open(c, s) ==
  /\ At(c, s, "open")
  /\ \/ /\ Becomes(c, s, [task[c][s] EXCEPT !.pc = "mark", !.job = "ACCEPTED"])
        /\ UNCHANGED faults
     \/ Fails(c, s, "countfail")
  /\ StreamUnchanged

Mark(c, s) ==
  /\ At(c, s, "mark")
  /\ \/ /\ Becomes(c, s, [task[c][s] EXCEPT !.pc = "query",
                            !.job = "PROCESSING"])
        /\ UNCHANGED faults
     \/ Fails(c, s, "jobfail")
  /\ StreamUnchanged

\* One page.  It may fail after the client's attempts, and a payload of an
\* unexpected shape reads as an empty page.
Query(c, s) ==
  /\ At(c, s, "query")
  /\ LET t == task[c][s]
         V == Selected(s, t.base, t.cur)
     IN \/ /\ V = {}
           /\ Goto(c, s, "rest")
           /\ UNCHANGED faults
        \/ \E P \in SUBSET V : \E z \in P :   \* z: the last record
             /\ IsPrefix(P, V, PageSize)
             /\ \A v \in P : NotAfter(v, z)
             /\ Becomes(c, s, [t EXCEPT !.pc = "drain",
                  !.page = {v \in P : v.kind # "dead"},
                  !.full = Cardinality(P) >= PageSize,
                  !.last = z.stamp])
             /\ UNCHANGED faults
        \/ Fails(c, s, "rest")
        \/ Fails(c, s, "jobfail")
  /\ StreamUnchanged

\* producer.add(B): refused as a whole if one record is invalid.
Enqueue(c, s, B, t) ==
  \/ /\ \A v \in B : v.kind # "invalid"
     /\ queued' = [queued EXCEPT ![s] = @ \cup B]
     /\ Becomes(c, s, t)
     /\ UNCHANGED faults
  \/ /\ \E v \in B : v.kind = "invalid"
     /\ Goto(c, s, "jobfail")
     /\ UNCHANGED <<queued, faults>>
  \/ Fails(c, s, "jobfail") /\ UNCHANGED queued

CursorNever(t) == t.cur
\* cursorValue after a page: a page that was not full ends the loop first,
\* and a last record without the ordering field leaves it undefined.
CursorAfterPage(t) == IF t.full THEN t.last ELSE t.cur

RoomForOneMore(t) == BatchSize + 1 - t.size
\* How many records the microBatch still takes.
Room(t) == BatchSize - t.size

\* Push the page's records; each time the batch is full, await its add.
Drain(c, s) ==
  /\ At(c, s, "drain")
  /\ LET t == task[c][s]
         room == Room(t)
     IN \/ \E B \in SUBSET t.page :
             /\ Cardinality(B) = room
             /\ IsPrefix(B, t.page, room)
             /\ Enqueue(c, s, t.batch \cup B,
                  [t EXCEPT !.page = @ \ B, !.batch = {}, !.size = 0])
        \/ /\ Cardinality(t.page) < room
           /\ Becomes(c, s, [t EXCEPT
                !.pc = IF t.full THEN "query" ELSE "rest",
                !.cur = CursorAfterPage(t),
                !.page = {}, !.batch = @ \cup t.page,
                !.size = @ + Cardinality(t.page)])
           /\ UNCHANGED <<queued, faults>>
  /\ UNCHANGED <<pub, clock, row, isRunning, floor>>

RestDropped(c, s) == Goto(c, s, "close") /\ UNCHANGED <<queued, faults>>
\* The final partial batch.
FlushRest(c, s) ==
  LET t == task[c][s]
  IN \/ /\ t.batch = {}
        /\ Goto(c, s, "close")
        /\ UNCHANGED <<queued, faults>>
     \/ /\ t.batch # {}
        /\ Enqueue(c, s, t.batch,
             [t EXCEPT !.pc = "close", !.batch = {}, !.size = 0])

Rest(c, s) ==
  /\ At(c, s, "rest")
  /\ FlushRest(c, s)
  /\ UNCHANGED <<pub, clock, row, isRunning, floor>>

Close(c, s) ==
  /\ At(c, s, "close")
  /\ \/ /\ Becomes(c, s, [task[c][s] EXCEPT !.pc = "persist",
                            !.job = "COMPLETED"])
        /\ UNCHANGED faults
     \/ Fails(c, s, "jobfail")
  /\ StreamUnchanged

\* The streamer's catch: whether or not the row can be written, it throws.
JobFail(c, s) ==
  /\ At(c, s, "jobfail")
  /\ \/ /\ Becomes(c, s, [task[c][s] EXCEPT !.pc = "countfail",
                            !.job = "FAILED"])
        /\ UNCHANGED faults
     \/ Fails(c, s, "countfail")
  /\ StreamUnchanged

-----------------------------------------------------------------------------
(* fetchAndIngest: the end of the try, and the catch.                      *)

NextCursorLatest(t) == t.cur
\* result.lastCursorValue ?? state.lastCursorValue
NextCursor(t) == IF t.cur # 0 THEN t.cur ELSE t.base

Persist(c, s) ==
  /\ At(c, s, "persist")
  /\ \/ /\ row' = [row EXCEPT ![s] =
             [@ EXCEPT !.cursor = NextCursor(task[c][s]), !.failures = 0]]
        /\ Goto(c, s, "fulfilled")
        /\ UNCHANGED faults
     \/ Fails(c, s, "countfail") /\ UNCHANGED row
  /\ UNCHANGED <<pub, clock, isRunning, queued, floor>>

NextFailures(t) == IF t.fails < FailureCap THEN t.fails + 1 ELSE FailureCap

AfterFailureWithProgress(r, t) ==
  [r EXCEPT !.cursor = NextCursor(t), !.failures = NextFailures(t)]
\* The row after a failed stream.
AfterFailure(r, t) == [r EXCEPT !.failures = NextFailures(t)]

CountFail(c, s) ==
  /\ At(c, s, "countfail")
  /\ \/ /\ row' = [row EXCEPT ![s] = AfterFailure(@, task[c][s])]
        /\ Goto(c, s, "fulfilled")
        /\ UNCHANGED faults
     \/ Fails(c, s, "rejected") /\ UNCHANGED row
  /\ UNCHANGED <<pub, clock, isRunning, queued, floor>>

-----------------------------------------------------------------------------
\* The process dies and starts again: the row, the queue and the dataset
\* survive; the flag and every local do not.
Crash ==
  /\ isRunning
  /\ Fault
  /\ isRunning' = FALSE
  /\ task' = [c \in Cycles |-> [s \in Sources |-> Off]]
  /\ UNCHANGED <<pub, clock, row, queued, floor>>

Step(c, s) ==
  \/ Ensure(c, s)
  \/ Open(c, s)
  \/ Mark(c, s)
  \/ Query(c, s)
  \/ Drain(c, s)
  \/ Rest(c, s)
  \/ Close(c, s)
  \/ JobFail(c, s)
  \/ Persist(c, s)
  \/ CountFail(c, s)

Next ==
  \/ \E s \in Sources, r \in Recs, k \in Kinds : Publish(s, r, k)
  \/ \E c \in Cycles : StartCycle(c) \/ EndCycle(c)
  \/ \E c \in Cycles, s \in Sources : Step(c, s)
  \/ Crash

Spec == Init /\ [][Next]_vars

\* The cron keeps firing, awaits settle (requests and statements time out),
\* and the event loop runs every settled promise.  Nothing forces the
\* dataset to change or a call to fail.
Fairness ==
  /\ WF_vars(\E c \in Cycles : StartCycle(c))
  /\ \A c \in Cycles :
       /\ WF_vars(EndCycle(c))
       /\ \A s \in Sources : WF_vars(Step(c, s))

FairSpec == Spec /\ Fairness

-----------------------------------------------------------------------------
(* Properties.                                                             *)

\* Every variable, and every local of a task, keeps its type.
TypeOK ==
  /\ pub \in [Sources -> SUBSET Version]
  /\ clock \in [Sources -> 0 .. MaxTime]
  /\ row \in [Sources -> Row]
  /\ isRunning \in BOOLEAN
  /\ task \in [Cycles -> [Sources -> Task]]
  /\ queued \in [Sources -> SUBSET Version]
  /\ floor \in [Sources -> 0 .. MaxTime]
  /\ faults \in 0 .. MaxFaults

\* Two overlapping triggers (bootstrap hook and cron) never stream at the
\* same time: while a task of one cycle is not off, no other cycle has one,
\* and the flag says so.  Everything else rests on this, since a task reads
\* its row once and writes it back at the end.
SingleCycle ==
  \A c \in Cycles : (\E s \in Sources : ~At(c, s, "off")) =>
    /\ isRunning
    /\ \A d \in Cycles \ {c}, s \in Sources : At(d, s, "off")

\* The persisted cursor never hides a version that still has to be queued:
\* what the dataset holds above the seed and at or below the cursor, dead
\* versions apart, has been handed to the queue.  Needs distinct stamps.
CursorCovers ==
  \A s \in Sources : \A v \in pub[s] :
    (v.kind # "dead" /\ floor[s] < v.stamp /\ v.stamp <= row[s].cursor)
      => v \in queued[s]

\* A cursor, once persisted, never moves back, whatever fails or restarts.
CursorMonotone ==
  [][\A s \in Sources : row[s].cursor <= row'[s].cursor]_vars

\* A task ends by writing its row, in this step.
Ends(c, s) == ~At(c, s, "fulfilled") /\ At(c, s, "fulfilled")'

\* The row after one more failure, and after a success.
OneMore(n) == IF n < FailureCap THEN n + 1 ELSE n
Counted(s) ==
  row'[s] = [row[s] EXCEPT !.failures = OneMore(row[s].failures)]
Cleared(s) ==
  row'[s].failures = 0 /\ row[s].cursor <= row'[s].cursor

\* No failure is lost and none is counted twice: a task that ends its try
\* clears the count, after a stream whose audit row says COMPLETED; one that
\* ends its catch adds exactly one to what the row says at that moment,
\* however long ago the task read it, and leaves the cursor; and nothing
\* else changes the count.  A failure whose own write fails is not counted.
FailureAccounting ==
  [][\A s \in Sources :
       /\ row'[s].failures # row[s].failures => \E c \in Cycles : Ends(c, s)
       /\ \A c \in Cycles : Ends(c, s) =>
            \/ At(c, s, "persist") /\ task[c][s].job = "COMPLETED" /\ Cleared(s)
            \/ At(c, s, "countfail") /\ Counted(s)]_vars

\* The audit row of a stream says COMPLETED only when nothing is left in the
\* stream's hands and every stamped record up to the last one fetched, dead
\* ones apart, is on the queue.
CompletedStreamHandedOver ==
  \A c \in Cycles, s \in Sources :
    task[c][s].job = "COMPLETED" =>
      /\ task[c][s].page \cup task[c][s].batch = {}
      /\ \A v \in Selected(s, task[c][s].base, 0) :
           (v.kind # "dead" /\ v.stamp \in 1 .. task[c][s].last)
             => v \in queued[s]

\* The first page of a stream without a cursor is full and ends in a record
\* without the ordering field: the cursor is undefined, and the next page is
\* the first one again.
StartsOver(s) ==
  /\ row[s].cursor = 0
  /\ Cardinality({v \in pub[s] : v.stamp # 0}) < PageSize
  /\ PageSize <= Cardinality(pub[s])

\* Every cycle ends, so the flag never stays up and the cron is never
\* skipped for good, unless a dataset makes its stream start over.
CycleEnds == isRunning ~> (~isRunning \/ \E s \in Sources : StartsOver(s))

\* The cycle runs every six hours: it does not stop for good.
CycleRunsAgain == isRunning ~> ~isRunning

\* The batch that v is in when a stream reads s from its cursor.
BatchOf(s, v) ==
  Cardinality({u \in Selected(s, row[s].cursor, 0) :
                 u.kind # "dead" /\ ~NotAfter(v, u)}) \div BatchSize

\* A record that fails validation refuses the batch it is in and ends the
\* stream, in every cycle: nothing from that batch on is queued.
Blocked(s, v) ==
  \E w \in Selected(s, row[s].cursor, 0) :
    w.kind = "invalid" /\ BatchOf(s, w) <= BatchOf(s, v)

\* What keeps a version from being queued: it is older than the seed; it
\* lacks the ordering field, by which every query with a cursor selects; or
\* it is in or behind a batch that is refused.
KeptOut(s, v) ==
  \/ v.stamp # 0 /\ v.stamp <= floor[s]
  \/ v.stamp = 0 /\ (row[s].cursor # 0 \/ StartsOver(s))
  \/ Blocked(s, v)

\* Every live version a dataset publishes is queued, or replaced by a newer
\* one, or kept out for one of three reasons: nothing else, neither a fault
\* nor a crash, loses it for good.
EventuallyQueued ==
  \A s \in Sources : \A v \in {w \in Version : w.kind = "live"} :
    v \in pub[s] ~> (v \in queued[s] \/ v \notin pub[s] \/ KeptOut(s, v))

\* Refinement: with distinct stamps this is an at-least-once change feed.
Feed == INSTANCE ChangeFeed WITH
  cursor <- [s \in Sources |-> row[s].cursor], delivered <- queued
ImplementsFeed == Feed!Spec

=============================================================================
