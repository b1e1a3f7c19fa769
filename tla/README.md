# secop-agent: verification project

This directory holds TLA+ models of secop-agent, a NestJS service that ingests
Colombian procurement notices from open data (SODA), stores them, and matches
them to companies. It says what is modelled, which properties TLC checks on
small instances, and which theorems TLAPS proves for every value of the
constants. Source paths below are relative to
`src/apps/nest/src/modules/` unless they start with `src/`.

## 1. Inventory of the system

| Component | State | Operations | Talks to |
|---|---|---|---|
| SODA scheduler, `soda-ingestion/services/soda-ingestion.service.ts` | `isRunning` in memory; one `ingestion_state` row per dataset (cursor, consecutive failures) | `onApplicationBootstrap`, `handleCron`, `runIngestionCycle`, `fetchAndIngest`, `ensureIngestionState` | streamer, database |
| SODA streamer, `soda-streamer.service.ts` | locals of a stream (cursor, page, micro-batch); one `ingestion_jobs` row per stream | `streamToQueue` | SODA client, queue producer, database |
| SODA client and mappers | none | `queryDataset` (3 attempts), `mapSecopI`, `mapSecopII` | datos.gov.co |
| Queue producers, `queues/producers/` | none | `add`: validate, then enqueue with 3 attempts and backoff | BullMQ |
| Ingestion queue, `queues/queues.module.ts` | BullMQ jobs | five sandboxed workers | import processor |
| Import processor, `queues/processors/import-processor.ts` | locals of a run; `ingestion_jobs` and `procurement_notices` rows | `importProcessor` with sector classifier and enrichment | database |
| Bulk endpoint, `procurement-notices/services/ingestion.service.ts` | `ingestion_jobs` row | `enqueueBulkIngestion` | producer |
| Notices service, `procurement-notices.service.ts` | `procurement_notices` rows, soft deletes, lifecycle status | create, update, remove, `transitionLifecycle`, `classifyNotice`, search | database |
| Scoring dispatch and worker, `scoring/scoring.module.ts`, `controllers/scoring.controller.ts`, `workers/scoring.worker.ts` | BullMQ jobs; locals of an attempt; notice status | event listener, batch endpoint, the two handlers of the worker | BullMQ, persistence, database |
| Scoring persistence and queries, `scoring/services/scoring-persistence.service.ts`, `scoring-query.service.ts` | `matching_results`, `score_logs` | `evaluateAndPersist`; the reads behind `GET /scoring` | engine, database |
| Scoring engine and hard filters, `scoring-engine.service.ts`, `hard-filters.service.ts`, `utils/` | none | `evaluate`, `computeScore`, TF-IDF cosine | profile, contracts, notice, clock |
| Companies, `companies/` | `companies` rows with a unique NIT; contracts that no request writes | create, update, remove, find | database |
| Auth, LLM, health, web, empty stubs | rows or none | plain requests | database |

What is hard here:

* **Interleaving.** Bootstrap hook and cron; two datasets in one cycle; five
  workers on one table; the streamer and the workers on one job row; requests
  that read an entity, change it and save it; a look-up and a save with no
  index between them; a response put together from two reads.
* **Failure.** Every await can reject; a page, a batch, a chunk, one pair of a
  scoring job or the final write can be the one that fails; the queue retries
  some of these and not others.
* **Crash and restart.** Locals and `isRunning` vanish; rows, queued messages
  and job rows stay. BullMQ runs a stalled message again.
* **Ordering.** The cursor against the batches it answers for; versions of one
  record processed out of order; evaluations of one pair by different jobs;
  final statuses overwriting each other.
* **Boundaries.** Full and short pages, equal ordering values, partial batches;
  deadlines, anniversaries, the ends of a contract, codes shorter than the
  prefix they are compared by.

`PROJECT.json` lists every hazard at its line, with the properties that would
catch it.

What makes each component correct:

* scheduler: one cycle at a time; cycles end; a cursor never moves back and
  never passes something that was not queued; each failure is
  counted once;
* streamer: COMPLETED means that everything fetched was queued;
* queue and processor: every message settles; what a job row says is true; an
  older version replaces a newer one only for a reason; removed stays removed;
* notices service: no stage is skipped, and a decision is replaced only by those
  the code lets;
* scoring: one result per company and notice, never replaced by an older
  evaluation, with a log that agrees once the job is done, and a response that
  tells of one evaluation;
* filters and engine: they read codes and departments alike, components stay
  within their maxima, and a change for the better never costs a notice;
* companies: no two share a NIT, and a removed one stays removed but for an
  update that had found it.

## 2. Modules

| Module | Models | State and actions against the code |
|---|---|---|
| `ChangeFeed` | what ingestion promises, abstractly | `cursor`, `delivered`, `floor`; `Publish`, `Seed`, `Deliver`, `Advance` |
| `SodaIngestion` | scheduler, streamer, client, producer | `row` is `ingestion_state`; `isRunning` is the flag; `task[c][s]` holds the locals of `fetchAndIngest` and `streamToQueue` of cycle `c` for dataset `s`, with a control point per await; `queued` is what `add` accepted |
| `NoticeImport` | job rows, queue, workers, import processor, soft delete | `job` is `ingestion_jobs`; `msg[m]` is a queue message and the run of its processor; `notice` is `procurement_notices`; `phase` and `total` are how far the producer of a job is and its `totalEnqueued` |
| `NoticeLifecycle` | the notices service, the scoring worker's status change and an import, on one row | `row` is the row; `call[q]` a request or worker between its `findOne` and the end of its `save`; `held`, `given` are history |
| `Companies` | the companies service on its table | `row[c]` is existence and NIT of a row; `call[q]` a request and what it has read |
| `ScoringDispatch` | both kinds of scoring job, the worker, persistence, the reading request; EXTENDS `Companies` | `job[j]` is a queue job and the attempt at it; `result[p]`, `log[p]` are the rows of a pair; `query` is a request between its two reads; an evaluation is named by the reading it was computed from (`readings`) |
| `HardFilters`, `TextSimilarity`, `ScoringEngine` | filters, cosine and score as operators | one operator per validation and per component of the score |
| `SectorClassifier`, `SourceMapping` | keyword scoring; both mappers, enrichment and `toEntityShape` | operators from a record to a row |
| `Matching` | one pair while all that an evaluation reads changes; composes the five modules above | `now`, `company`, `signed`, `settled`, `notice`, `keywords`; an action per import, request, contract change and tick |
| `MC...` | instances for TLC of the module named | |
| `SodaIngestionProofs`, `ChangeFeedProofs`, `NoticeImportProofs`, `NoticeLifecycleProofs`, `CompaniesProofs`, `ScoringDispatchProofs`, `MatchingProofs` | theorems about the module named | |
| `SumFacts` | nothing: lemmas on sums, maxima, products and quotients that `MatchingProofs` rests on | |

Each action is the code between two awaits. `Ensure` is
`ensureIngestionState`; `Open`, `Mark`, `Query`, `Drain`, `Rest`, `Close` and
`JobFail` are the awaits of `streamToQueue` in order; `Persist` and `CountFail`
are the end of the `try` and the `catch` of `fetchAndIngest`. In `NoticeImport`,
`Mark`, `Lookup`, `Upsert`, `Count`, `Finish` and `Ack` are the awaits of
`importProcessor`; `Throw` is one of them rejecting outside the upsert's `try`.
In `NoticeLifecycle`, `Read` is the `findOne` of `update`,
`transitionLifecycle`, `classifyNotice` or `fetchAndTransitionNotice` with the
check that follows it, `Compare` and `Save` the two statements of `save()`. In
`ScoringDispatch`, `FindTarget` and `List` are the reads at the start of an
attempt, `Lookup`, `SaveResult` and `AppendLog` the three awaits of
`evaluateAndPersist` for one pair, `Reject` any of them rejecting, `ReadResult`
and `ReadLog` the two queries of a response.

How the modules meet: `SodaIngestion` ends where a batch is accepted by the
queue and `NoticeImport` starts there, with any payload the producer takes;
`NoticeLifecycle` has an import and a scoring worker as callers among others;
`ScoringDispatch` runs over the steps of `Companies`, whose removals take
results and logs along; `Matching` says what an evaluation would answer, where
`ScoringDispatch` says when it is written and by whom it is read.

### Abstractions

* A record version in `SodaIngestion` is its identifier, its stamp (the ordering
  field, 0 when it has none: the field is optional in
  `soda-ingestion.types.ts:24,48`) and its kind: live, dead (status cancelled or rejected, which the
  streamer drops) or invalid (its DTO fails validation, which rejects the batch
  it is in). In `NoticeImport` a version is named by message and position.
* A call that fails has no effect. A call whose effect happened although the
  caller saw an error is left out.
* The find and the write of `ensureIngestionState` are one step: within a
  cycle nothing else writes that row, and cycles do not overlap (`SingleCycle`).
* A page is read in one instant. A payload of unexpected shape reads as an
  empty page, as in `queryDataset`.
* The backoff is "at any later time". BullMQ takes waiting messages in order,
  re-runs a stalled message once, and keeps the processor's result.
* `save()` of a loaded entity (TypeORM, external) reads the row again,
  soft-deleted or not, and updates the columns in which the entity differs from
  that reading; a row that is not there any more it inserts. `title` stands for
  the columns other than status and deletion; `classify` changes only `sector`,
  so in `NoticeLifecycle` it saves what it read.
* `Matching` makes `update` and `classifyNotice` one step each: their
  interleaving is the subject of `NoticeLifecycle`.
* The scoring worker's classes are injected through `import type`
  (`scoring/scoring.module.ts:6`, `workers/scoring.worker.ts:13`). The models
  assume that the container resolves them.
* Numbers in the engine are integers: points in hundredths, a cosine in
  hundredths rounded down, a deviation in percent rounded up, weights in tenths.
  The rounding of floating-point numbers is not modelled. A UNSPSC code is its
  groups of two digits, a name a word and whether it is padded, a date an
  instant. Empty codes and names are among the inputs and are treated as the
  code treats an empty string.
* `NotANumber` is JavaScript's NaN. `InheritedWords` are the words that a plain
  object has as properties before anything is counted in it; of the names of
  `Object.prototype` only "constructor" is in lower case, as tokens are.
* Left out: the `errors` column, progress reports, truncation, currency,
  coordinates, value per day, process links, explanations, logging.

## 3. Runs

All runs finish in at most about two and a half minutes on two cores.

| Run | Instance | Shows |
|---|---|---|
| `soda_cycles` | 2 datasets, 2 triggers, 1 record with 2 versions, live or invalid, page 1, batch 2, one fault or crash | `SingleCycle`, `CursorMonotone`, `FailureAccounting` |
| `soda_stream` | 1 dataset, 2 records of all kinds, one of which may lack its stamp, 3 stamps, page 2, batch 2, one fault or crash, seeded at 0 or 1; fair | `TypeOK`, `CursorCovers`, `CompletedStreamHandedOver`, refinement `ImplementsFeed`, `CycleEnds`, `EventuallyQueued` |
| `soda_ties` | stamps may repeat | violated: `CursorCovers` |
| `soda_endless` | one record without a stamp, page 1, no fault; fair | violated: `CycleRunsAgain` |
| `import_race` | bulk job and stream write one record, 2 messages, 2 workers, 1 attempt, 1 re-run, removal | `TypeOK`, `BulkJobReported`, `OrderKept`, `RemovedStaysRemoved` |
| `import_retry` | two bulk requests of up to 2 records, one record refused by the table, 1 worker, 2 attempts and 1 re-run each, removal; fair | `BulkJobTruth`, `EveryMessageSettles` |
| `import_unaffected` | one bulk request with a refused record beside a sound one | violated: `UnaffectedComplete` |
| `lifecycle` | two calls of every kind in flight, imports and creates that bring PENDING, removal, 1 title | `TypeOK`, `StagesInOrder`, `DecisionStands` |
| `lifecycle_final` | two lifecycle requests, nothing else | violated: `TerminalIsFinal` |
| `companies` | 2 companies, 2 NITs, 3 requests; requests are symmetric | `CompaniesTypeOK`, `UniqueNit`, `ConflictOnlyWithAnother`, `ReturnsOnlyByUpdate` |
| `scoring` | 1 company with 1 request at a time, 2 notices, 2 jobs, 2 attempts, 1 re-run, 1 rejection or crash; notices are symmetric | `TypeOK`, `OneResultPerPair`, `CompletedMeansScored`, `LogAgrees`, `ResultsMoveForward`, `AnswerCoherent` |
| `matching` | 6 profiles, 6 contracts, 9 records, 1 upload, 3 keywords, 7 instants of half a day | `TypeOK`, `FilterAgreesWithScore`, `ScoreInBounds`, `ObligationsInBounds`, `SimilarityIsCosine`, `DeadOnlyByRequest`, `WinnerIsStable`, `WaitingOnlyExpires`, `SettlingNeverHurts`, `SigningNeverUnblocks`, `PostponingNeverHurts`, `WideningNeverExcludes` |

**Why the bounds are enough.** Page and batch sizes of one and two give full,
short and empty pages, a batch that spans pages and a partial last batch: two
records fill a page, a dead one among them leaves room in the batch, and what is
published meanwhile makes the next page. Three stamps let a record change after
it was read. A page of two whose last record has no stamp makes a stream start
over; with a seeded cursor the same record is never selected. One fault can hit
every await in turn. Two triggers are all that can
overlap (the hook and the cron); two datasets are what the code has. Two
messages and two workers are what it takes to reorder two versions; two messages
and one worker to have one wait behind the retries of the other. Two calls
in flight are what it takes to overwrite one another, and a freed call is used
again, so any number follow each other; three requests on companies let a NIT
change hands and be taken again while a third looks. Two scoring jobs are what
it takes to evaluate a pair twice, two notices to leave one pair done and the
next one not; either kind of job, and a retry of each, fits in. The matching
instance takes each input to both sides of each of its boundaries: a deadline
before, at and after the clock, an anniversary within the week, a contract not
begun, under way and over, codes longer and shorter than the sectors they are
compared with, values under and over a limit, texts that share no word, some
words and all, and one that cannot be counted; codes, modalities and NITs that
are empty; durations missing, of no day, shorter and longer than the 30 days
that the flow is raised to (a deadline at instant 80 is 40 days away), and a
PATCH that shortens such a deadline and leaves its duration. The theorems have
no bound. `MaxBatch` is at most `ChunkSize`, as 1000
and 5000 in the code, so a message is one chunk and PARTIAL is out of its
reach. `FailureCap` caps a counter whose value only picks a log level;
`MaxTime`, `MaxFaults`, `MaxMsgs` and `MaxJobs` bound the environment.

Deadlock is checked in the SODA runs, where the next cycle can always start,
and in `lifecycle`, `companies` and `matching`, where a request always can. The
import runs and `scoring` switch it off: with every message settled, nothing is
left to do. So does `lifecycle_final`, since a decided notice takes no more
requests.

**Fairness.** `SodaIngestion!Fairness`: the cron fires again and again; an
await settles, because requests time out after 30 s (`queryDataset`) and
statements end; the event loop runs a settled promise. Each is weak fairness of
one action of one task. Nothing forces a dataset to change, a call to fail or a
call to succeed: a step is fair, its outcome is not, and faults are bounded. In
`NoticeImport`, workers take what waits and their awaits settle; nothing is
assumed of producers or crashes. The other specifications state safety only.

### Divergences found

With a run that shows them:

1. Records that share an ordering value across a page boundary are skipped for
   good (`soda_ties`): strict `>` in `buildCursorQuery`, against
   `src/openspec/specs/soda-scheduler/spec.md:48`.
2. A record without the ordering field at the end of a full first page makes
   the cursor undefined (`soda-streamer.service.ts:180`). The next query is the
   first one again, the stream never ends, `isRunning` stays up, and no cycle
   runs any more (`soda_endless`), against
   `src/openspec/specs/soda-scheduler/spec.md:24`. `CycleEnds` shows that a
   dataset can keep a cycle from ending in no other way.
3. One refused record makes the sound ones in its chunk fail with it, without a
   retry (`import_unaffected`), against
   `src/openspec/specs/async-job-queues/spec.md:129`.
4. Two concurrent lifecycle requests are both accepted, and the second replaces
   the first one's decision (`lifecycle_final`), against
   `procurement-notices/procurement-notice.types.ts:16`. An import replaces a
   decision as well; `DecisionStands` says exactly who can.

Met while modelling, without a run of their own:

* The cursor stays at the last full page, not at the last record processed as
  the comment at `soda-streamer.service.ts:27` has it. It costs a re-read, never
  a loss.
* A record without the ordering field is selected by no query that has a
  cursor, so after the first run it is never fetched
  (`src/openspec/specs/soda-scheduler/spec.md:48` wants all available records).
  `EventuallyQueued` names this case, the records older than the seed, and
  those in or behind a batch that one invalid record has refused
  (`base-queue.producer.ts:16`), which is refused again in every cycle.
* `src/openspec/specs/hybrid-ingestion/spec.md:54,66` wants created and updated
  told apart. What a first attempt inserted, a retry counts as updated, and a
  soft-deleted row that the upsert writes counts as created. `Told` in
  `BulkJobTruth` names both, and a third case: two messages active at once can
  both count the record they share as created.
* Status and counts of a stream's job row are written by the streamer and by
  every message of the stream, each overwriting the last. No document claims
  anything of these rows; the reporting of `hybrid-ingestion/spec.md` is for
  accepted bulk requests.
* The ordinary word "constructor" in the description of a notice or in the name
  of a company makes the cosine NaN: `text-similarity.utils.ts:41` counts in a
  plain object, where the word is a function before it is counted. Technical
  fit and total are NaN with it, where `scoring-engine.service.ts:59` says
  "0-40 points" and `text-similarity.utils.ts:139` a number between 0 and 1. In
  the description of a contract it only loses the comparison with that contract.
* `update` of a notice writes back columns it did not provide, against
  `procurement-notices.service.ts:129`, and undoes a removal that came between
  its read and its save.
* Nothing emits the event the dispatch listener waits for, although
  `src/openspec/specs/scoring-dispatch/spec.md:28` has imports emit it. The
  model lets it come at any time.
* A keyword matches inside a word, against "whole-word" at
  `sector-classifier.utils.ts:37`, and an empty one matches every title.
* A notice removed while a job runs gets a second row of results
  (`scoring-persistence.service.ts:97` says "Upserts"): the look-up joins the
  notice, and a join leaves soft-deleted rows out. No request shows it.
* Two requests that race for a NIT end in the index's error, which is answered
  with 500 where `src/openspec/specs/company-profile/spec.md:15` has 409; an
  update can conflict with an earlier change to its own row; an update re-inserts
  a company that was removed since it was found.
* `getDepartmentCode` of the filters accepts codes as well as names, the
  import's geocoding only names.
* No DTO has a field for the target ticket, working capital, revenue, the
  exclusions or the UNSPSC policy, and no request writes contracts: filters and
  engine read them, other means must write them.
* No filter looks at the status of a notice. A contract type that a bulk request
  pads with blanks ("obra ") escapes the residual-capacity check.
* A PATCH of the deadline (`procurement-notices.service.ts:137`) leaves the
  execution duration that was computed from the old one. A later import with a
  still later deadline computes it anew, and if the old one was longer the
  notice loses points although its deadline moved back. `PostponingNeverHurts`
  therefore speaks of points only where the duration is that of the deadline
  (`DurationIsCurrent`).
* `value` of a notice is bounded by `@IsNumber` alone and the working capital by
  nothing. With both negative a longer flow makes the daily burden smaller and
  the score with it; `FlowHelps` keeps that case apart.

## 4. Proofs

Every theorem holds for any value of the constants that meets the module's
assumption; the assumptions are what the code's own constants and identifiers
meet (sizes are positive, a message fits in a chunk, names are distinct), and
TLC evaluates them in the runs.

**`SodaIngestionProofs`, `ChangeFeedProofs`.** The argument has four layers.

1. **Types** (`TypeCorrect`).
2. **One cycle at a time** (`OneCycleAtATime`), from types. `SingleCycle` says
   that every task of another cycle is off, so a row has one writer. That makes
   `CycleInv` inductive: types, `SingleCycle`, `RowAsRead` (base and failure
   count of a task still equal its row's) and `CompletedOnlyThere`. From it
   follow `CursorNeverMovesBack` and `FailuresCounted`: without `RowAsRead` a
   task would write back a stale count or cursor. `FailureAccounting` compares
   what a task writes with what its row says at that moment, so a lost update, a
   failure counted twice, and a count cleared by a stream that did not complete
   would all break it.
3. **The cursor covers** (`CursorIsSafe`, `CompletedIsHandedOver`), under
   `~Ties`. `CursorCovers` is not inductive: it says nothing of a stream under
   way. `FeedInv` adds, per dataset, that stamps are distinct (records without
   one apart) and that the
   cursor is a stamp given or the seed (`DatasetOk`), and, per stream, that what
   was read above the base is queued or still in page or batch and that
   `cursorValue` never runs ahead of it (`StreamOk`). A page that is a prefix in
   stamp order, records without a stamp last, leaves nothing behind only if
   stamps are distinct: here the
   assumption is needed, and `soda_ties` shows what happens without it.
4. **Refinement** (`IngestionImplementsFeed`), under `~Ties`: with `HandsOk`,
   every step is a `Publish`, `Seed`, `Deliver` or `Advance` of `ChangeFeed`, or
   a stutter. `PromiseKept` shows that the feed keeps its promise.

To keep the steps small, `StepMoves` first proves, from types alone, what a step
of a task may change (`Moves`, `Frame`); later layers reason about that.

**`NoticeImportProofs`.** `BulkJobTruth` and `BulkJobReported` say something of
a row only once it is final. `ImportInv` says what leads there: a bulk job has
one message and is written by nobody else (`QueueOk`); a message fits in one
chunk, so once its upsert is over a run has written all its distinct records or
failed all of them, and before that nothing (`RunOk`); the row says one of the
two from the final write on, and COMPLETED only with the former (`RowOk`); a
row of the table holds the last version of its identifier in the message it
came by (`NewestOk`). That survives retries and crashes because a run that is
put back starts from nothing and can only write the same versions again. That
the counts add up rests on the cardinality of what a message names. Which of it
is counted as created rests on `SeenInv`: a first run has inserted nothing up to
its upsert, and what its look-up did not find is not stored, is soft-deleted, or
belongs to a message that is active beside it. Three lemmas carry the steps: `ProducerInv` for those that
touch no message, `QueueInv` for those that put messages back, `RunStep` for
those of a processor. `VersionsKeepTheirOrder` needs `OrderInv` besides: the
queue is first in, first out for first runs, so a later message that was taken
while an earlier one still runs its first attempt is among its neighbours.

**`NoticeLifecycleProofs`.** `StagesInOrder` is not inductive: a call could save
a status nobody checked. `LifecycleInv` adds `CallOk`: a call that is not over
read a status the row has held, and what it asks for was allowed from there.
That survives every overwriting, because what was held stays held;
`StagesStep` is the step on histories. `DecisionsStand` uses `CallOk` again: a
call that read the decided status itself can ask for nothing, since no
transition leaves it.

**`CompaniesProofs`.** `NitsAreUnique` follows from the index alone: the look-ups
before it prove nothing, since any number of requests can pass them. Who
revives a company and why a request fails (`OnlyUpdatesRevive`,
`ConflictsAreWithAnother`) follows from `CallInv`, what a request has found by
the time it gets to each of its steps.

**`ScoringDispatchProofs`.** The worker takes one job at a time (`StateOk`), and
that alone keeps two evaluations of a pair apart. `DispatchInv` says what a job
at work knows: its reading is the latest and it has scored what it is done with
(`WorkOk`); what it found for the current pair is still all there is, but for
what was removed (`PairOk`); a completed job has scored and logged what it owes
(`DoneOk`); all results that a request sees of a pair are one (`ResultOk`); a log
behind its result belongs to a job that will come back to the pair or has
failed (`LagOk`). `AsideInv` is the step of everything that writes neither
table: starts, retries and crashes only put jobs aside. The theorems on results,
logs and answers read off `DispatchInv`; `ResultsOnlyMoveForward` because the
latest reading is greater than any other.

**`MatchingProofs`, `SumFacts`.** All twelve properties of the `matching` run, for
any profiles, contracts, records, uploads, keywords, texts and clock.

* *Types* (`TypeCorrect`) are inductive as they stand: both mappers, enrichment,
  `create`, the upsert and a PATCH leave a row whose columns are of their types.
  Everything below rests on it.
* *Sums and maxima.* Weights of keywords, obligations, products of vectors are
  sums over sets; similarities are maxima. The library's induction cannot be
  instantiated here, so `SumFacts` proves what is needed by least
  counterexample: of the sets for which a claim fails take one that contains no
  smaller one, remove an element, and the claim holds for what is left. First that a sum
  over a finite set satisfies its recursion (the fold of the library is a
  `CHOOSE` of a function that has to be shown to exist), then that sums add up
  element by element, are monotone, bounded and natural, and the inequality of Cauchy and Schwarz,
  which the cosines need.
* *Cosines* (`CosinesAreCosines`). Two texts have a cosine at all exactly if every word
  of both has a count (`Countable`, `CountlessIs`). Then symmetry is a swap of
  the two vectors; 0 without
  a common word since every product vanishes; below 100 with different words
  because a word that one text lacks adds to the length of the other's vector
  and nothing to the product, and the rest obeys that inequality.
* *Bounds* (`PointsInBounds`, `ObligationsAreBounded`). Each contract owes between 0
  and its value, each component is a minimum or a quotient of something smaller
  by something larger. The technical fit, and the total with it (`ScoreIs`), is
  no number exactly if description and company name have no cosine.
* *Winners* (`WinnersAreStable`). One keyword more changes one sector's sum
  (`OneKeywordMore`), and `classify` takes the first sector of the largest sum.
* *Changes for the better* compare two evaluations and rest on monotony: of the
  obligations in contracts and in time (`SceGrows`, `OwedFalls`), of the points
  in experience (`PointsGrow`) and in the flow (`FlowGrows`), of coverage in
  sectors, regions and policy (`CoverageWidens`, `PrefixShorter`), of the
  residual capacity in both (`ResidualGrows`). From them follow `SettlingHelps`,
  `SigningBlocksOnly`, `TimeOnlyExpires`, `PostponingKeeps` and
  `WiderKeepsNotices`. `FilterMeansScore` needs types and the
  mappings only.
* *Dead notices* (`DeadIsNeverImported`). A row after a step is one from before,
  perhaps with another deadline or sector (`RevisedIs`), or what the import or
  the request of this step has written (`DeadStep`), and the filter lets no
  import write a cancelled or rejected one.

`MatchingAssumption` asks for columns of their types, for finitely many contracts
and keywords, and for two things the schema does not enforce: no contract is
worth less than nothing, and a contract is not settled when it is signed. No
code writes contracts, so nothing in the code decides either. `EngineAssumption`
says of the table that stands for the exponential only that its values are at
most 1500.

Two proof attempts of `PostponingKeeps` failed for a reason. The property then had
no condition, and TLC had accepted it because no duration of the instance
exceeded 30 days and no value was negative; both cases are counterexamples, and
both are in section 3 under what was met while modelling. The first is within
the instance now.

**What ends, and why.** TLAPS cannot prove that something happens under fairness.
It can prove the argument such a property rests on, and does so for the three
places where work is retried.

* *A stream* (`StreamsAdvance`, `FlagIsHeld`): each step of a task moves its cursor
  up or, at the same cursor, takes it to a later stage, or leaves less of the page
  it drains; and while the flag is up one cycle has a task for each dataset.
  The one exception is `AsksAgain`: the end of a full page whose last record has
  no ordering field, in a stream with neither base nor cursor, which
  `soda_endless` shows. `LoopInv` adds that the page being drained otherwise ends
  after the cursor. This needs no distinct stamps: ties lose records, as
  `soda_ties` shows, but never keep the loop over the pages from ending.
* *An import* (`MessagesRunOut`, `QueueNeverStalls`): a message has a budget of at
  most seven steps for each run the queue grants it, a step of its own takes one
  from it, nothing gives any back, and while a message has not settled some
  worker is inside a run or a free one has a message to take.
* *A scoring job* (`JobsRunOut`, `ScoringNeverStalls`): the same, with three steps
  for each pair and four more in each run, for finitely many companies and notices.

What is left to TLC is that fairness makes such a step happen: that the steps the
theorems point at are enabled, and that a fair step which is enabled is taken.

`CompaniesHoldUnderScoring` carries the three theorems on companies over to the
system in which the scoring worker writes beside the requests and a crash drops
all of them at once, which no step of `Companies` alone does.

**Model-checked only.** The three liveness properties, `CycleEnds`,
`EventuallyQueued` and `EveryMessageSettles`. Every other property of the passing
runs is a theorem.

## 5. Not modelled, and why

* Liveness of the scoring queue under fairness: with faults and two jobs the
  behaviours are too many for a liveness check in reasonable time. `JobsRunOut` and
  `ScoringNeverStalls` prove what it would rest on.
* The composition of `SodaIngestion` with `NoticeImport`: their product is out
  of TLC's reach. They meet at the queue, where the first shows what was accepted
  and the second takes any payload.
* Search and the other reads of the notices service, which change nothing; the
  synchronous `bulkIngest` and `paginateDataset`, which have no caller.
* Authentication and roles, LLM provider and health: single calls without a
  protocol. The example queue: a sample. Configuration and migrations: run once
  before the system starts; the constraints they create are in the models. The
  web application and the alerts, audit, competitors, documents and rag modules:
  placeholders.
