--------------------------- MODULE ScoringDispatch ---------------------------
(***************************************************************************)
(* The scoring queue, its worker, what it writes and who reads it          *)
(* (scoring.module.ts, scoring.controller.ts, scoring.worker.ts,           *)
(* scoring-persistence.service.ts, scoring-query.service.ts), over the     *)
(* companies table of module Companies.                                    *)
(*                                                                         *)
(* A dispatch job scores one notice against every company, a batch job one *)
(* company against the notices it names.  The worker reads them once per   *)
(* attempt and then, pair by pair, looks for the row of the pair, saves it *)
(* and appends to its log: three awaits, with no transaction around them   *)
(* and no unique index on the pair.  Any await can reject, and then the    *)
(* queue runs the whole job again.                                         *)
(*                                                                         *)
(* External, modelled from how the code uses it: BullMQ (first in, first   *)
(* out, attempts with backoff, one re-run of a job whose worker died) and  *)
(* the foreign keys with ON DELETE CASCADE.  A find that names a pair joins *)
(* the notice, and a join leaves soft-deleted rows out.                    *)
(***************************************************************************)
EXTENDS Companies, Sequences, FiniteSets

CONSTANTS
  Notices,     \* notices
  MaxJobs,     \* bound: jobs added in a run
  Attempts,    \* attempts of a job
  MaxStalled,  \* re-runs after a crash (maxStalledCount)
  MaxFaults    \* bound: awaits that reject and crashes in a run

ASSUME ScoringAssumption ==
  /\ MaxJobs \in Nat
  /\ Attempts \in Nat \ {0}
  /\ MaxStalled \in Nat
  /\ MaxFaults \in Nat

VARIABLES
  shown,     \* notices that are not soft-deleted
  job,       \* job[j]: a job and the attempt at it
  result,    \* result[p]: the matching_results rows of pair p
  log,       \* log[p]: its score_logs rows, oldest first
  query,     \* a GET between its two reads
  readings,  \* history: the jobs whose attempts read companies and notices
  owed,      \* history: what a job read, less what was removed since
  faults     \* history: faults so far

scoringVars == <<shown, job, result, log, query, readings, owed, faults>>
vars == <<row, call, shown, job, result, log, query, readings, owed, faults>>

Jobs == 1 .. MaxJobs
Pairs == Companies \X Notices
NoPair == <<>>

\* An evaluation is named by the reading it was computed from: the profile,
\* the contracts and the notice as they were then.  0 stands for none.
Reading == 0 .. Len(readings)

\* at is the pair being evaluated, found the row that was looked up for it.
Job ==
  [state    : {"none", "fresh", "active", "again", "completed", "failed"},
   company  : Companies \cup {"every"},   \* "every" in a dispatch job
   notices  : SUBSET Notices,
   attempts : 0 .. Attempts - 1,
   stalls   : 0 .. MaxStalled,
   pc       : {"idle", "find", "list", "lookup", "save", "append"},
   left     : SUBSET Pairs, at : Pairs \cup {NoPair}, found : SUBSET Reading,
   reading  : Reading]

NoJob ==
  [state |-> "none", company |-> "every", notices |-> {}, attempts |-> 0,
   stalls |-> 0, pc |-> "idle", left |-> {}, at |-> NoPair, found |-> {},
   reading |-> 0]

NoQuery == [pc |-> "idle", pair |-> NoPair, score |-> 0]

Init ==
  /\ CompaniesInit
  /\ shown = Notices
  /\ job = [j \in Jobs |-> NoJob]
  /\ result = [p \in Pairs |-> {}]
  /\ log = [p \in Pairs |-> <<>>]
  /\ query = NoQuery
  /\ readings = <<>>
  /\ owed = [j \in Jobs |-> {}]
  /\ faults = 0

-----------------------------------------------------------------------------
(* What happens around the worker.                                         *)

\* A request on companies.  The rows of a company that goes, go with it.
CompanyStep ==
  /\ CompaniesNext
  /\ LET Gone == {c \in Companies : row[c].state = "here"
                                    /\ row'[c].state = "gone"}
         Lost == Gone \X Notices
     IN /\ result' = [p \in Pairs |-> IF p \in Lost THEN {} ELSE result[p]]
        /\ log' = [p \in Pairs |-> IF p \in Lost THEN <<>> ELSE log[p]]
        /\ owed' = [j \in Jobs |-> owed[j] \ Lost]
  /\ UNCHANGED <<shown, job, query, readings, faults>>

\* ProcurementNoticesService.remove: the row stays, but no find shows it.
RemoveNotice(n) ==
  /\ n \in shown
  /\ shown' = shown \ {n}
  /\ UNCHANGED <<row, call, job, result, log, query, readings, owed, faults>>

\* The queue takes a job.
Add(j, c, ns) ==
  /\ job[j].state = "none"
  /\ \A k \in 1 .. j - 1 : job[k].state # "none"
  /\ job' = [job EXCEPT ![j] =
       [NoJob EXCEPT !.state = "fresh", !.company = c, !.notices = ns]]
  /\ UNCHANGED <<row, call, shown, result, log, query, readings, owed, faults>>

\* ScoringDispatchListener.handle, for an event that names its notice.
Dispatch(j, n) == Add(j, "every", {n})
\* ScoringController.enqueueBatch: nothing checks that the company exists.
EnqueueBatch(j, c, ns) == ns # {} /\ Add(j, c, ns)

-----------------------------------------------------------------------------
(* The queue.                                                              *)

FreeAlways == TRUE
\* The worker has BullMQ's default concurrency of one.
Free == \A j \in Jobs : job[j].state # "active"

\* Jobs are taken in the order they were added; one that waits for a re-run
\* comes back at any time after its backoff.
Turn(j) ==
  \/ job[j].state = "again"
  \/ job[j].state = "fresh" /\ \A k \in 1 .. j - 1 : job[k].state # "fresh"

Start(j) ==
  /\ Turn(j)
  /\ Free
  /\ job' = [job EXCEPT ![j].state = "active", ![j].pc = "find"]
  /\ UNCHANGED <<row, call, shown, result, log, query, readings, owed, faults>>

\* Job j leaves the worker, whose locals are gone: it waits for another run,
\* or the queue is done with it.
Again(j, attempts, stalls) ==
  [NoJob EXCEPT !.state = "again", !.company = job[j].company,
                !.notices = job[j].notices, !.attempts = attempts,
                !.stalls = stalls]
Completed(reading) == [NoJob EXCEPT !.state = "completed", !.reading = reading]
GivenUp == [NoJob EXCEPT !.state = "failed"]

MoreAttemptsOffByOne(n) == n <= Attempts
MoreAttempts(n) == n < Attempts

\* The handler threw: another attempt, or none.
Failed(j) ==
  LET n == job[j].attempts + 1
  IN IF MoreAttempts(n) THEN Again(j, n, job[j].stalls) ELSE GivenUp

\* The attempt is over and its job is sent back or given up.
ThrowSwallowed(j) ==
  /\ job' = [job EXCEPT ![j].left = @ \ {job[j].at},
                        ![j].pc = IF job[j].left = {} THEN "list" ELSE "lookup"]
  /\ UNCHANGED <<row, call, shown, result, log, query, readings, owed>>
Throw(j) ==
  /\ job' = [job EXCEPT ![j] = Failed(j)]
  /\ UNCHANGED <<row, call, shown, result, log, query, readings, owed>>

\* An awaited call of the attempt rejects.
Reject(j) ==
  /\ job[j].state = "active"
  /\ faults < MaxFaults
  /\ faults' = faults + 1
  /\ Throw(j)

\* The process dies and starts again: requests and locals are gone, the queue
\* runs the job that was active once more, but not twice.
Crash ==
  /\ ~Free
  /\ faults < MaxFaults
  /\ faults' = faults + 1
  /\ call' = [q \in Calls |-> Idle]
  /\ query' = NoQuery
  /\ job' = [j \in Jobs |->
       IF job[j].state # "active" THEN job[j]
       ELSE IF job[j].stalls < MaxStalled
         THEN Again(j, job[j].attempts, job[j].stalls + 1)
         ELSE GivenUp]
  /\ UNCHANGED <<row, shown, result, log, readings, owed>>

-----------------------------------------------------------------------------
(* The handlers.                                                           *)

\* The target of the job: the notice of a dispatch, which is saved as SCORING
\* (module NoticeLifecycle), or the company of a batch.
TargetFound(j) ==
  IF job[j].company = "every" THEN job[j].notices \subseteq shown
                              ELSE Here(job[j].company)

FindTarget(j) ==
  /\ job[j].pc = "find"
  /\ IF TargetFound(j)
       THEN /\ job' = [job EXCEPT ![j].pc = "list"]
            /\ UNCHANGED <<row, call, shown, result, log, query, readings, owed>>
       ELSE Throw(j)
  /\ UNCHANGED faults

\* Every company there is against the notice, or the company against those of
\* its notices that are found; the others are left out without a word.
Listed(j) ==
  IF job[j].company = "every"
    THEN {c \in Companies : Here(c)} \X job[j].notices
    ELSE {job[j].company} \X (job[j].notices \cap shown)

\* The attempt goes on with the pairs that are left, or the job is done.
Continue(j, left, reading) ==
  IF left = {} THEN Completed(reading)
  ELSE [job[j] EXCEPT !.pc = "lookup", !.left = left, !.found = {},
                      !.at = NoPair, !.reading = reading]

List(j) ==
  /\ job[j].pc = "list"
  /\ readings' = Append(readings, j)
  /\ owed' = [owed EXCEPT ![j] = Listed(j)]
  /\ job' = [job EXCEPT ![j] = Continue(j, Listed(j), Len(readings) + 1)]
  /\ UNCHANGED <<row, call, shown, result, log, query, faults>>

-----------------------------------------------------------------------------
(* evaluateAndPersist.                                                     *)

\* The rows a find sees.
Seen(p) == IF p[2] \in shown THEN result[p] ELSE {}

ExistingForgotten(p) == {}
\* findOne: a row of the pair, if it sees one.
Existing(p) == IF Seen(p) = {} THEN {} ELSE {CHOOSE r \in Seen(p) : TRUE}

\* Filters, engine and explanation change no state (module Matching); the
\* model that explains may time out, which the code catches.
Lookup(j, p) ==
  /\ job[j].pc = "lookup"
  /\ p \in job[j].left
  /\ job' = [job EXCEPT ![j].pc = "save", ![j].at = p, ![j].found = Existing(p)]
  /\ UNCHANGED <<row, call, shown, result, log, query, readings, owed, faults>>

\* A foreign key refuses rows of a company that is gone.
Refused(j) == ~Here(job[j].at[1])

\* The row that was found is written over; otherwise there is a new one.
SaveResult(j) ==
  /\ job[j].pc = "save"
  /\ IF Refused(j) THEN Throw(j)
     ELSE /\ result' = [result EXCEPT ![job[j].at] =
                          (@ \ job[j].found) \cup {job[j].reading}]
          /\ job' = [job EXCEPT ![j].pc = "append"]
          /\ UNCHANGED <<row, call, shown, log, query, readings, owed>>
  /\ UNCHANGED faults

AppendLog(j) ==
  /\ job[j].pc = "append"
  /\ IF Refused(j) THEN Throw(j)
     ELSE /\ log' = [log EXCEPT ![job[j].at] = Append(@, job[j].reading)]
          /\ job' = [job EXCEPT ![j] =
               Continue(j, job[j].left \ {job[j].at}, job[j].reading)]
          /\ UNCHANGED <<row, call, shown, result, query, readings, owed>>
  /\ UNCHANGED faults

-----------------------------------------------------------------------------
(* GET /scoring/:companyId/:noticeId.                                      *)

OldestLog(p) == IF log[p] = <<>> THEN 0 ELSE Head(log[p])
\* The log of p created last, or none.
LatestLog(p) == IF log[p] = <<>> THEN 0 ELSE log[p][Len(log[p])]

\* getLatestResult; where there is no row the request ends.
ReadResult(p) ==
  /\ query.pc = "idle"
  /\ \E r \in Seen(p) : query' = [pc |-> "half", pair |-> p, score |-> r]
  /\ UNCHANGED <<row, call, shown, job, result, log, readings, owed, faults>>

\* getLatestScoreLog, and the end of the request.
ReadLog ==
  /\ query.pc = "half"
  /\ query' = NoQuery
  /\ UNCHANGED <<row, call, shown, job, result, log, readings, owed, faults>>

\* What it answers: score and status of the row, category and explanation of
\* the log, or null where the find sees none.
Response ==
  [score |-> query.score,
   category |-> IF query.pair[2] \in shown THEN LatestLog(query.pair) ELSE 0]

-----------------------------------------------------------------------------
Work(j) ==
  \/ FindTarget(j)
  \/ List(j)
  \/ \E p \in Pairs : Lookup(j, p)
  \/ SaveResult(j)
  \/ AppendLog(j)
  \/ Reject(j)

Next ==
  \/ CompanyStep
  \/ \E n \in Notices : RemoveNotice(n)
  \/ \E j \in Jobs :
       \/ \E n \in Notices : Dispatch(j, n)
       \/ \E c \in Companies, ns \in SUBSET Notices : EnqueueBatch(j, c, ns)
       \/ Start(j)
       \/ Work(j)
  \/ Crash
  \/ \E p \in Pairs : ReadResult(p)
  \/ ReadLog

Spec == Init /\ [][Next]_vars

-----------------------------------------------------------------------------
(* Properties.                                                             *)

TypeOK ==
  /\ CompaniesTypeOK
  /\ shown \subseteq Notices
  /\ job \in [Jobs -> Job]
  /\ result \in [Pairs -> SUBSET Reading]
  /\ log \in [Pairs -> Seq(Reading)]
  /\ query \in [pc : {"idle", "half"}, pair : Pairs \cup {NoPair}, score : Reading]
  /\ readings \in Seq(Jobs)
  /\ owed \in [Jobs -> SUBSET Pairs]
  /\ faults \in 0 .. MaxFaults

\* A pair has one result, although nothing but the order of the worker's
\* awaits keeps two jobs from both finding none.  A notice removed during a
\* job gets a second one, which no request shows.
OneResultPerPair ==
  \A p \in Pairs : Cardinality(Seen(p)) <= 1

\* Neither a retry nor another job puts an older evaluation over a newer one.
ResultsMoveForward ==
  [][\A p \in Pairs :
       \A new \in result'[p] \ result[p], old \in result[p] : new > old]_vars

\* A completed job has scored and logged all it read, save what was removed.
CompletedMeansScored ==
  \A j \in Jobs : job[j].state = "completed" =>
    \A p \in owed[j] :
      /\ \E r \in result[p] : r >= job[j].reading
      /\ LatestLog(p) >= job[j].reading

\* The log of a pair is never ahead of its result, and it lags behind only
\* while the job that saved the result is not completed.
LogAgrees ==
  \A p \in Pairs : \A r \in Seen(p) :
    LatestLog(p) # r =>
      LatestLog(p) < r /\ job[readings[r]].state # "completed"

\* Score and category of a response belong to one evaluation, unless the job
\* of that one is not completed, another evaluation replaced it during the
\* request, or the notice was removed during the request.
AnswerCoherent ==
  [][query.pc = "half" /\ query'.pc = "idle" =>
       \/ Response.category = Response.score
       \/ Response.score \notin Seen(query.pair)
       \/ /\ Response.category < Response.score
          /\ job[readings[Response.score]].state # "completed"]_vars

=============================================================================
