------------------------ MODULE ScoringDispatchProofs ------------------------
(***************************************************************************)
(* Proofs about ScoringDispatch, for any number of companies, notices,     *)
(* jobs, attempts and faults.                                              *)
(*                                                                         *)
(* One job is active at a time, so what it knows of the tables stays true  *)
(* but for what is removed: DispatchInv says what that is at each of its   *)
(* steps, and of a result whose log lags behind that its job will come     *)
(* back to it or has failed.                                               *)
(***************************************************************************)
EXTENDS ScoringDispatch, CompaniesProofs, FiniteSetTheorems

Working == {"lookup", "save", "append"}

\* The pairs that job j names.
Named(j) ==
  {p \in Pairs : job[j].company \in {"every", p[1]} /\ p[2] \in job[j].notices}

Scored(p, n) ==
  /\ \E r \in result[p] : r >= n
  /\ LatestLog(p) >= n

\* Job j has still to evaluate pair p, or has failed.
Pending(j, p) ==
  \/ job[j].state = "failed"
  \/ /\ job[j].state \in {"again", "active"}
     /\ p \in Named(j)
     /\ job[j].pc \in Working => p \in job[j].left

StateOk ==
  /\ \A j \in Jobs : job[j].pc = "idle" <=> job[j].state # "active"
  /\ \A j, k \in Jobs :
       job[j].state = "active" /\ job[k].state = "active" => j = k

\* A job at work holds the latest reading, and has scored what it is done with.
WorkOk ==
  \A j \in Jobs : job[j].pc \in Working =>
    /\ Len(readings) > 0
    /\ job[j].reading = Len(readings)
    /\ readings[Len(readings)] = j
    /\ job[j].left \subseteq Named(j)
    /\ \A p \in owed[j] \ job[j].left : Scored(p, job[j].reading)

\* What was found is still all there is, and what was saved is all there is.
PairOk ==
  \A j \in Jobs :
    /\ job[j].pc \in {"save", "append"} => job[j].at \in job[j].left
    /\ (job[j].pc = "save" /\ job[j].at[2] \in shown) =>
         result[job[j].at] \subseteq job[j].found
    /\ job[j].pc = "append" =>
         /\ Seen(job[j].at) \subseteq {job[j].reading}
         /\ job[j].at \in owed[j] => job[j].reading \in result[job[j].at]

DoneOk ==
  \A j \in Jobs : job[j].state = "completed" =>
    \A p \in owed[j] : Scored(p, job[j].reading)

ResultOk ==
  \A p \in Pairs :
    /\ \A r \in result[p] : r > 0 /\ Here(p[1])
    /\ \A r, s \in Seen(p) : r = s

LagOk ==
  \A p \in Pairs : \A r \in Seen(p) :
    LatestLog(p) # r => LatestLog(p) < r /\ Pending(readings[r], p)

QueryOk == query.pc = "half" => query.pair \in Pairs

DispatchInv ==
  /\ CompaniesInv /\ TypeOK /\ StateOk /\ WorkOk /\ PairOk /\ DoneOk
  /\ ResultOk /\ LagOk /\ QueryOk

-----------------------------------------------------------------------------
(* Types.                                                                  *)

LEMMA NoJobType == NoJob \in Job
BY ScoringAssumption DEF NoJob, Job, Reading, NoPair

LEMMA LatestLogType ==
  ASSUME TypeOK, NEW p \in Pairs
  PROVE  LatestLog(p) \in Reading
BY DEF TypeOK, LatestLog, Reading

LEMMA InitDispatch == Init => DispatchInv
<1> SUFFICES ASSUME Init PROVE DispatchInv OBVIOUS
<1>1. CompaniesInv
  BY InitInv DEF Init
<1>2. TypeOK
  BY <1>1, NoJobType, ScoringAssumption
  DEF Init, TypeOK, CompaniesInv, Reading, NoQuery, Pairs, Jobs
<1>3. \A j \in Jobs : job[j] = NoJob /\ owed[j] = {}
  BY DEF Init
<1>4. StateOk /\ WorkOk /\ PairOk /\ DoneOk
  BY <1>3 DEF StateOk, WorkOk, PairOk, DoneOk, NoJob, Working
<1>5. ResultOk /\ LagOk /\ QueryOk
  BY DEF Init, ResultOk, LagOk, QueryOk, Seen, NoQuery
<1> QED BY <1>1, <1>2, <1>4, <1>5 DEF DispatchInv

-----------------------------------------------------------------------------
(* Steps that write neither results nor logs.                              *)

\* Job j is put aside: it is not at work afterwards, and if it was under way
\* it still names what it named, or has failed.
Aside(j) ==
  /\ job'[j].pc \notin Working
  /\ job'[j].state # "completed"
  /\ job[j].state # "failed"
  /\ job[j].state \in {"again", "active"} =>
       \/ job'[j].state = "failed"
       \/ /\ job'[j].state \in {"again", "active"}
          /\ job'[j].company = job[j].company
          /\ job'[j].notices = job[j].notices

LEMMA AsideInv ==
  ASSUME DispatchInv, CompaniesInv', TypeOK', StateOk', QueryOk',
         UNCHANGED <<row, result, log, readings, owed>>, shown' \subseteq shown,
         \A j \in Jobs : job'[j] = job[j] \/ Aside(j)
  PROVE  DispatchInv'
<1>1. \A p \in Pairs : /\ Seen(p)' \subseteq Seen(p)
                       /\ LatestLog(p)' = LatestLog(p)
                       /\ \A n : Scored(p, n)' <=> Scored(p, n)
  BY DEF Seen, LatestLog, Scored
<1>2. \A j \in Jobs, p \in Pairs : Pending(j, p) => Pending(j, p)'
  BY DEF Pending, Named, Aside
<1>3. \A j \in Jobs : job[j] = job'[j] => Named(j)' = Named(j)
  BY DEF Named
<1>4. \A j \in Jobs : owed[j] \subseteq Pairs
  BY DEF DispatchInv, TypeOK
<1>5. WorkOk'
  <2> SUFFICES ASSUME NEW j \in Jobs, job'[j].pc \in Working
               PROVE  /\ Len(readings)' > 0
                      /\ job'[j].reading = Len(readings)'
                      /\ readings'[Len(readings)'] = j
                      /\ job'[j].left \subseteq Named(j)'
                      /\ \A p \in owed'[j] \ job'[j].left :
                           Scored(p, job[j].reading)'
    BY DEF WorkOk
  <2>1. job'[j] = job[j]
    BY DEF Aside
  <2> QED BY <2>1, <1>1, <1>3, <1>4 DEF DispatchInv, WorkOk, Scored
<1>6. PairOk'
  <2> SUFFICES ASSUME NEW j \in Jobs, job'[j].pc \in {"save", "append"}
               PROVE  /\ job'[j].at \in job'[j].left
                      /\ (job'[j].pc = "save" /\ job'[j].at[2] \in shown') =>
                           result'[job'[j].at] \subseteq job'[j].found
                      /\ job'[j].pc = "append" =>
                           /\ Seen(job[j].at)' \subseteq {job'[j].reading}
                           /\ job'[j].at \in owed'[j] =>
                                job'[j].reading \in result'[job'[j].at]
    BY DEF PairOk
  <2>1. job'[j] = job[j]
    BY DEF Aside, Working
  <2>2. job[j].at \in Pairs
    BY <2>1 DEF DispatchInv, PairOk, WorkOk, Working, Named
  <2> QED BY <2>1, <2>2 DEF DispatchInv, PairOk, Seen
<1>7. DoneOk'
  BY <1>1, <1>4 DEF DispatchInv, DoneOk, Aside, Scored
<1>8. ResultOk'
  BY <1>1 DEF DispatchInv, ResultOk, Here
<1>9. LagOk'
  <2> SUFFICES ASSUME NEW p \in Pairs, NEW r \in Seen(p)', LatestLog(p)' # r
               PROVE  LatestLog(p)' < r /\ Pending(readings[r], p)'
    BY DEF LagOk
  <2>1. LatestLog(p) < r /\ Pending(readings[r], p)
    BY <1>1 DEF DispatchInv, LagOk
  <2>2. readings[r] \in Jobs
    BY <1>1 DEF DispatchInv, TypeOK, ResultOk, Seen, Reading
  <2>3. readings' = readings
    OBVIOUS
  <2> QED BY <2>1, <2>2, <2>3, <1>1, <1>2 DEF Pending, Named
<1> QED BY <1>5, <1>6, <1>7, <1>8, <1>9 DEF DispatchInv

\* The requests on companies that are not over stay as they are.
LEMMA SameCompanies ==
  ASSUME CompaniesInv, UNCHANGED <<row, call>>
  PROVE  CompaniesInv'
BY NextInv DEF companyVars

LEMMA RemoveNoticeInv ==
  ASSUME DispatchInv, NEW n \in Notices, RemoveNotice(n)
  PROVE  DispatchInv'
<1>1. CompaniesInv'
  BY SameCompanies DEF DispatchInv, RemoveNotice
<1>2. TypeOK'
  BY <1>1 DEF DispatchInv, CompaniesInv, TypeOK, RemoveNotice, Job, Reading
<1>3. StateOk' /\ QueryOk'
  BY DEF DispatchInv, StateOk, QueryOk, RemoveNotice
<1> QED BY <1>1, <1>2, <1>3, AsideInv DEF RemoveNotice

LEMMA AddInv ==
  ASSUME DispatchInv, NEW j \in Jobs, NEW c \in Companies \cup {"every"},
         NEW ns \in SUBSET Notices, Add(j, c, ns)
  PROVE  DispatchInv'
<1> DEFINE new == [NoJob EXCEPT !.state = "fresh", !.company = c, !.notices = ns]
<1>1. CompaniesInv'
  BY SameCompanies DEF DispatchInv, Add
<1>2. /\ new \in Job /\ new.state = "fresh" /\ new.pc = "idle"
      /\ job' = [job EXCEPT ![j] = new] /\ job[j].state = "none"
      /\ UNCHANGED <<row, call, shown, result, log, query, readings, owed, faults>>
  BY NoJobType DEF Add, NoJob, Job
<1> HIDE DEF new
<1>3. TypeOK'
  BY <1>1, <1>2 DEF DispatchInv, CompaniesInv, TypeOK, Job, Reading
<1>4. StateOk'
  BY <1>2 DEF DispatchInv, TypeOK, StateOk
<1>5. QueryOk'
  BY DEF DispatchInv, QueryOk, Add
<1>6. \A k \in Jobs : job'[k] = job[k] \/ Aside(k)
  BY <1>2 DEF DispatchInv, TypeOK, Aside, Working
<1> QED BY <1>1, <1>3, <1>4, <1>5, <1>6, AsideInv DEF Add

LEMMA StartInv ==
  ASSUME DispatchInv, NEW j \in Jobs, Start(j)
  PROVE  DispatchInv'
<1> DEFINE new == [job[j] EXCEPT !.state = "active", !.pc = "find"]
<1>1. CompaniesInv'
  BY SameCompanies DEF DispatchInv, Start
<1>2. job[j] \in Job /\ job[j].state \in {"again", "fresh"}
  BY DEF DispatchInv, TypeOK, Start, Turn
<1>3. /\ new \in Job /\ new.state = "active" /\ new.pc = "find"
      /\ new.company = job[j].company /\ new.notices = job[j].notices
      /\ job' = [job EXCEPT ![j] = new]
      /\ UNCHANGED <<row, call, shown, result, log, query, readings, owed, faults>>
  BY <1>2 DEF Start, Job
<1> HIDE DEF new
<1>4. TypeOK'
  BY <1>1, <1>3 DEF DispatchInv, CompaniesInv, TypeOK, Job, Reading
<1>5. StateOk'
  BY <1>3 DEF DispatchInv, TypeOK, StateOk, Start, Free
<1>6. QueryOk'
  BY DEF DispatchInv, QueryOk, Start
<1>7. \A k \in Jobs : job'[k] = job[k] \/ Aside(k)
  BY <1>2, <1>3 DEF DispatchInv, TypeOK, Aside, Working
<1> QED BY <1>1, <1>4, <1>5, <1>6, <1>7, AsideInv DEF Start

\* Where a job goes that is thrown out of the worker.
LEMMA FailedType ==
  ASSUME TypeOK, NEW j \in Jobs
  PROVE  /\ Failed(j) \in Job
         /\ Failed(j).state \in {"again", "failed"} /\ Failed(j).pc = "idle"
         /\ Failed(j).state = "again" =>
              /\ Failed(j).company = job[j].company
              /\ Failed(j).notices = job[j].notices
<1>1. job[j] \in Job
  BY DEF TypeOK
<1>2. CASE MoreAttempts(job[j].attempts + 1)
  <2>1. Failed(j) = Again(j, job[j].attempts + 1, job[j].stalls)
    BY <1>2 DEF Failed
  <2>2. job[j].attempts + 1 \in 0 .. Attempts - 1 /\ job[j].stalls \in 0 .. MaxStalled
    BY <1>1, <1>2, ScoringAssumption DEF MoreAttempts, Job
  <2> QED BY <1>1, <2>1, <2>2, NoJobType DEF Again, Job, NoJob
<1>3. CASE ~MoreAttempts(job[j].attempts + 1)
  <2>1. Failed(j) = GivenUp
    BY <1>3 DEF Failed
  <2> QED BY <2>1, NoJobType DEF GivenUp, Job, NoJob
<1> QED BY <1>2, <1>3

LEMMA ThrowInv ==
  ASSUME DispatchInv, NEW j \in Jobs, job[j].state = "active", Throw(j),
         faults' \in 0 .. MaxFaults
  PROVE  DispatchInv'
<1>1. CompaniesInv'
  BY SameCompanies DEF DispatchInv, Throw
<1>2. /\ Failed(j) \in Job
      /\ Failed(j).state \in {"again", "failed"} /\ Failed(j).pc = "idle"
      /\ Failed(j).state = "again" =>
           /\ Failed(j).company = job[j].company
           /\ Failed(j).notices = job[j].notices
      /\ job' = [job EXCEPT ![j] = Failed(j)]
  BY FailedType DEF DispatchInv, Throw
<1>3. TypeOK'
  BY <1>1, <1>2 DEF DispatchInv, CompaniesInv, TypeOK, Throw, Job, Reading
<1>4. StateOk'
  BY <1>2 DEF DispatchInv, TypeOK, StateOk
<1>5. QueryOk'
  BY DEF DispatchInv, QueryOk, Throw
<1>6. \A k \in Jobs : job'[k] = job[k] \/ Aside(k)
  BY <1>2 DEF DispatchInv, TypeOK, Aside, Working
<1> QED BY <1>1, <1>3, <1>4, <1>5, <1>6, AsideInv DEF Throw

LEMMA RejectInv ==
  ASSUME DispatchInv, NEW j \in Jobs, Reject(j)
  PROVE  DispatchInv'
<1>1. faults' \in 0 .. MaxFaults
  BY ScoringAssumption DEF DispatchInv, TypeOK, Reject
<1> QED BY <1>1, ThrowInv DEF Reject

LEMMA FindTargetInv ==
  ASSUME DispatchInv, NEW j \in Jobs, FindTarget(j)
  PROVE  DispatchInv'
<1>1. job[j] \in Job /\ job[j].pc = "find" /\ job[j].state = "active"
  BY DEF DispatchInv, TypeOK, StateOk, FindTarget
<1>2. CASE Throw(j)
  BY <1>1, <1>2, ThrowInv DEF FindTarget, DispatchInv, TypeOK
<1>3. CASE ~Throw(j)
  <2> DEFINE new == [job[j] EXCEPT !.pc = "list"]
  <2>1. /\ new \in Job /\ new.state = "active" /\ new.pc = "list"
        /\ new.company = job[j].company /\ new.notices = job[j].notices
        /\ job' = [job EXCEPT ![j] = new]
        /\ UNCHANGED <<row, call, shown, result, log, query, readings, owed, faults>>
    BY <1>1, <1>3 DEF FindTarget, Job
  <2> HIDE DEF new
  <2>2. CompaniesInv'
    BY <2>1, SameCompanies DEF DispatchInv
  <2>3. TypeOK'
    BY <2>1, <2>2 DEF DispatchInv, CompaniesInv, TypeOK, Job, Reading
  <2>4. StateOk'
    BY <1>1, <2>1 DEF DispatchInv, TypeOK, StateOk
  <2>5. QueryOk'
    BY <2>1 DEF DispatchInv, QueryOk
  <2>6. \A k \in Jobs : job'[k] = job[k] \/ Aside(k)
    BY <1>1, <2>1 DEF DispatchInv, TypeOK, Aside, Working
  <2> QED BY <2>1, <2>2, <2>3, <2>4, <2>5, <2>6, AsideInv
<1> QED BY <1>2, <1>3

LEMMA CrashInv ==
  ASSUME DispatchInv, Crash
  PROVE  DispatchInv'
<1>1. CompaniesInv'
  <2>1. row' = row /\ call' = [q \in Calls |-> Idle]
    BY DEF Crash
  <2>2. CompaniesTypeOK' /\ UniqueNit'
    BY <2>1, IdleType DEF DispatchInv, CompaniesInv, CompaniesTypeOK, UniqueNit, Here
  <2>3. CallInv'
    BY <2>1 DEF CallInv, Idle
  <2> QED BY <2>2, <2>3 DEF CompaniesInv
<1>2. ASSUME NEW j \in Jobs, job[j].state = "active"
      PROVE  /\ job'[j] \in Job
             /\ job'[j].state \in {"again", "failed"} /\ job'[j].pc = "idle"
             /\ job'[j].state = "again" =>
                  /\ job'[j].company = job[j].company
                  /\ job'[j].notices = job[j].notices
  <2>1. job[j] \in Job
    BY DEF DispatchInv, TypeOK
  <2>2. CASE job[j].stalls < MaxStalled
    <3>1. job'[j] = Again(j, job[j].attempts, job[j].stalls + 1)
      BY <1>2, <2>2 DEF Crash
    <3>2. job[j].stalls + 1 \in 0 .. MaxStalled
      BY <2>1, <2>2, ScoringAssumption DEF Job
    <3> QED BY <2>1, <3>1, <3>2, NoJobType DEF Again, Job, NoJob
  <2>3. CASE ~(job[j].stalls < MaxStalled)
    <3>1. job'[j] = GivenUp
      BY <1>2, <2>3 DEF Crash
    <3> QED BY <3>1, NoJobType DEF GivenUp, Job, NoJob
  <2> QED BY <2>2, <2>3
<1>3. /\ \A j \in Jobs : job[j].state # "active" => job'[j] = job[j]
      /\ DOMAIN job' = Jobs /\ job' = [j \in Jobs |-> job'[j]]
      /\ query' = NoQuery /\ faults' = faults + 1 /\ faults < MaxFaults
      /\ UNCHANGED <<row, shown, result, log, readings, owed>>
  BY DEF Crash
<1>4. TypeOK'
  <2>1. job' \in [Jobs -> Job]
    BY <1>2, <1>3 DEF DispatchInv, TypeOK
  <2>2. Job' = Job /\ Reading' = Reading
    BY <1>3 DEF Job, Reading
  <2>3. NoQuery \in [pc : {"idle", "half"}, pair : Pairs \cup {NoPair}, score : Reading]
    BY DEF NoQuery, Reading, DispatchInv, TypeOK
  <2>4. faults' \in 0 .. MaxFaults
    BY <1>3, ScoringAssumption DEF DispatchInv, TypeOK
  <2> QED BY <1>1, <1>3, <2>1, <2>2, <2>3, <2>4 DEF DispatchInv, CompaniesInv, TypeOK
<1>5. StateOk'
  BY <1>2, <1>3 DEF DispatchInv, StateOk
<1>6. QueryOk'
  BY <1>3 DEF QueryOk, NoQuery
<1>7. \A j \in Jobs : job'[j] = job[j] \/ Aside(j)
  BY <1>2, <1>3 DEF Aside, Working
<1> QED BY <1>1, <1>3, <1>4, <1>5, <1>6, <1>7, AsideInv

LEMMA ReadInv ==
  ASSUME DispatchInv, ReadLog \/ \E p \in Pairs : ReadResult(p)
  PROVE  DispatchInv'
<1>1. UNCHANGED <<row, call, shown, job, result, log, readings, owed, faults>>
  BY DEF ReadLog, ReadResult
<1>2. CompaniesInv'
  BY <1>1, SameCompanies DEF DispatchInv
<1>3. /\ query' \in [pc : {"idle", "half"}, pair : Pairs \cup {NoPair}, score : Reading]
      /\ QueryOk'
  BY DEF DispatchInv, TypeOK, QueryOk, ReadLog, ReadResult, NoQuery, Seen, Reading
<1>4. TypeOK'
  BY <1>1, <1>2, <1>3 DEF DispatchInv, CompaniesInv, TypeOK, Job, Reading
<1>5. StateOk'
  BY <1>1 DEF DispatchInv, StateOk
<1> QED BY <1>1, <1>2, <1>3, <1>4, <1>5, AsideInv

-----------------------------------------------------------------------------
(* A company that goes takes its rows with it.                             *)

LEMMA HereOrGone ==
  ASSUME CompaniesInv, CompaniesNext, NEW c \in Companies, Here(c)
  PROVE  Here(c)' \/ row'[c].state = "gone"
<1>1. PICK q \in Calls :
        \/ \E op \in Ops, d \in Companies, n \in Nits \cup {"keep"} :
             Request(q, op, d, n)
        \/ Find(q) \/ Check(q) \/ Insert(q) \/ Select(q)
        \/ Update(q) \/ Reinsert(q) \/ Delete(q) \/ Drop(q)
  BY DEF CompaniesNext
<1>2. CASE row' = row
  BY <1>2 DEF Here
<1>3. CASE row' # row
  <2>1. Insert(q) \/ Update(q) \/ Reinsert(q) \/ Delete(q)
    BY <1>1, <1>3 DEF Request, Find, Check, Select, Drop
  <2>2. CASE Delete(q)
    BY <2>2 DEF Delete, NoRow, Here, CompaniesInv, CompaniesTypeOK
  <2>3. CASE Insert(q) \/ Update(q) \/ Reinsert(q)
    <3>1. PICK d \in Companies, n \in Nits :
            row' = [row EXCEPT ![d] = [state |-> "here", nit |-> n]]
      <4>1. call[q].pc = "insert" => call[q].nit \in Nits
        BY DEF CompaniesInv, CallInv, CompaniesTypeOK, Call
      <4> QED
        BY <1>3, <2>3, <4>1, WantedIsNit
        DEF Insert, Update, Reinsert, Put, CompaniesInv
    <3> QED BY <3>1 DEF Here, CompaniesInv, CompaniesTypeOK
  <2> QED BY <2>1, <2>2, <2>3
<1> QED BY <1>2, <1>3

LEMMA CompanyStepInv ==
  ASSUME DispatchInv, CompanyStep
  PROVE  DispatchInv'
<1> DEFINE Gone == {c \in Companies : row[c].state = "here"
                                      /\ row'[c].state = "gone"}
           Lost == Gone \X Notices
<1>1. CompaniesInv'
  BY NextInv DEF DispatchInv, CompanyStep
<1>2. /\ result' = [p \in Pairs |-> IF p \in Lost THEN {} ELSE result[p]]
      /\ log' = [p \in Pairs |-> IF p \in Lost THEN <<>> ELSE log[p]]
      /\ owed' = [j \in Jobs |-> owed[j] \ Lost]
      /\ UNCHANGED <<shown, job, query, readings, faults>>
  BY DEF CompanyStep
<1>3. \A p \in Pairs \ Lost : Here(p[1]) => Here(p[1])'
  <2> SUFFICES ASSUME NEW p \in Pairs \ Lost, Here(p[1]) PROVE Here(p[1])'
    OBVIOUS
  <2>1. p[1] \in Companies /\ p[2] \in Notices /\ p = <<p[1], p[2]>>
    BY DEF Pairs
  <2>2. p[1] \notin Gone
    BY <2>1
  <2> QED BY <2>1, <2>2, HereOrGone DEF DispatchInv, CompanyStep, Here
<1> HIDE DEF Gone, Lost
<1>4. TypeOK'
  <2>1. result' \in [Pairs -> SUBSET Reading] /\ log' \in [Pairs -> Seq(Reading)]
        /\ owed' \in [Jobs -> SUBSET Pairs]
    BY <1>2 DEF DispatchInv, TypeOK
  <2> QED BY <1>1, <1>2, <2>1 DEF DispatchInv, CompaniesInv, TypeOK, Job, Reading
<1>5. StateOk' /\ QueryOk'
  BY <1>2 DEF DispatchInv, StateOk, QueryOk
<1>6. \A p \in Pairs \ Lost : /\ result'[p] = result[p] /\ Seen(p)' = Seen(p)
                              /\ LatestLog(p)' = LatestLog(p)
                              /\ \A n : Scored(p, n)' <=> Scored(p, n)
  BY <1>2 DEF Seen, LatestLog, Scored
<1>7. \A p \in Lost : p \in Pairs => result'[p] = {} /\ Seen(p)' = {}
  BY <1>2 DEF Seen
<1>8. \A j \in Jobs : owed[j] \subseteq Pairs /\ owed'[j] = owed[j] \ Lost
  BY <1>2 DEF DispatchInv, TypeOK
<1>9. \A j \in Jobs : Named(j)' = Named(j)
  BY <1>2 DEF Named
<1>10. WorkOk'
  <2> SUFFICES ASSUME NEW j \in Jobs, job[j].pc \in Working
               PROVE  /\ job[j].left \subseteq Named(j)'
                      /\ \A p \in owed'[j] \ job[j].left :
                           Scored(p, job[j].reading)'
    BY <1>2 DEF DispatchInv, WorkOk
  <2> QED BY <1>2, <1>6, <1>8, <1>9 DEF DispatchInv, WorkOk, Scored
<1>11. PairOk'
  <2> SUFFICES ASSUME NEW j \in Jobs, job[j].pc \in {"save", "append"}
               PROVE  /\ job[j].at \in job[j].left
                      /\ (job[j].pc = "save" /\ job[j].at[2] \in shown) =>
                           result'[job[j].at] \subseteq job[j].found
                      /\ job[j].pc = "append" =>
                           /\ Seen(job[j].at)' \subseteq {job[j].reading}
                           /\ job[j].at \in owed'[j] =>
                                job[j].reading \in result'[job[j].at]
    BY <1>2 DEF PairOk
  <2>1. job[j].at \in Pairs
    BY DEF DispatchInv, PairOk, WorkOk, Working, Named
  <2> QED BY <2>1, <1>2, <1>6, <1>7, <1>8 DEF DispatchInv, PairOk, Seen
<1>12. DoneOk'
  BY <1>2, <1>6, <1>8 DEF DispatchInv, DoneOk, Scored
<1>13. ResultOk'
  BY <1>3, <1>6, <1>7 DEF DispatchInv, ResultOk
<1>14. LagOk'
  <2> SUFFICES ASSUME NEW p \in Pairs, NEW r \in Seen(p)', LatestLog(p)' # r
               PROVE  LatestLog(p)' < r /\ Pending(readings[r], p)'
    BY <1>2 DEF LagOk
  <2>1. p \notin Lost
    BY <1>7
  <2>2. LatestLog(p) < r /\ Pending(readings[r], p)
    BY <1>6, <2>1 DEF DispatchInv, LagOk
  <2>3. readings[r] \in Jobs
    BY <1>6, <2>1 DEF DispatchInv, TypeOK, ResultOk, Seen, Reading
  <2> QED BY <1>2, <1>6, <2>1, <2>2, <2>3 DEF Pending, Named
<1> QED BY <1>1, <1>4, <1>5, <1>10, <1>11, <1>12, <1>13, <1>14 DEF DispatchInv

-----------------------------------------------------------------------------
(* The steps of the worker.                                                *)

\* Where a job is that goes on, or is done.
LEMMA ContinueIs ==
  ASSUME TypeOK, NEW j \in Jobs, job[j].state = "active",
         NEW left \in SUBSET Pairs, NEW n \in Reading'
  PROVE  /\ left = {} => /\ Continue(j, left, n).state = "completed"
                         /\ Continue(j, left, n).pc = "idle"
                         /\ Continue(j, left, n).reading = n
         /\ left # {} => /\ Continue(j, left, n).state = "active"
                         /\ Continue(j, left, n).pc = "lookup"
                         /\ Continue(j, left, n).left = left
                         /\ Continue(j, left, n).reading = n
                         /\ Continue(j, left, n).company = job[j].company
                         /\ Continue(j, left, n).notices = job[j].notices
         /\ Continue(j, left, n) \in Job'
<1>1. job[j] \in Job
  BY DEF TypeOK
<1>2. CASE left = {}
  <2>1. Continue(j, left, n) = Completed(n)
    BY <1>2 DEF Continue
  <2>2. NoJob \in Job /\ NoJob.pc = "idle" /\ NoJob.found = {}
    BY NoJobType DEF NoJob
  <2> QED BY <1>2, <2>1, <2>2 DEF Completed, Job
<1>3. CASE left # {}
  <2>1. Continue(j, left, n) =
          [job[j] EXCEPT !.pc = "lookup", !.left = left, !.found = {},
                         !.at = NoPair, !.reading = n]
    BY <1>3 DEF Continue
  <2> QED BY <1>1, <1>3, <2>1 DEF Job
<1> QED BY <1>2, <1>3

LEMMA ListInv ==
  ASSUME DispatchInv, NEW j \in Jobs, List(j)
  PROVE  DispatchInv'
<1> DEFINE n == Len(readings) + 1
           new == Continue(j, Listed(j), n)
<1>1. /\ job[j] \in Job /\ job[j].pc = "list" /\ job[j].state = "active"
      /\ readings \in Seq(Jobs)
  BY DEF DispatchInv, TypeOK, StateOk, List
<1>2. /\ readings' = Append(readings, j)
      /\ owed' = [owed EXCEPT ![j] = Listed(j)]
      /\ job' = [job EXCEPT ![j] = new]
      /\ UNCHANGED <<row, call, shown, result, log, query, faults>>
  BY DEF List
<1>3. Listed(j) \subseteq Named(j) /\ Named(j) \subseteq Pairs
  <2>1. job[j].company \in Companies \cup {"every"} /\ job[j].notices \subseteq Notices
    BY <1>1 DEF Job
  <2>2. CASE job[j].company = "every"
    BY <2>1, <2>2 DEF Listed, Named, Pairs
  <2>3. CASE job[j].company # "every"
    BY <2>1, <2>3 DEF Listed, Named, Pairs
  <2> QED BY <2>2, <2>3 DEF Named
<1>4. /\ n \in Nat /\ Len(readings') = n /\ readings'[n] = j /\ n > 0
      /\ \A r \in 1 .. Len(readings) : readings'[r] = readings[r]
      /\ readings' \in Seq(Jobs)
  BY <1>1, <1>2
<1>5. n \in Reading' /\ Reading \subseteq Reading'
  BY <1>1, <1>4 DEF Reading
<1>6. /\ new \in Job'
      /\ Listed(j) = {} => new.state = "completed" /\ new.pc = "idle"
      /\ Listed(j) # {} => /\ new.state = "active" /\ new.pc = "lookup"
                           /\ new.left = Listed(j) /\ new.reading = n
                           /\ new.company = job[j].company
                           /\ new.notices = job[j].notices
  BY <1>1, <1>3, <1>5, ContinueIs DEF DispatchInv
<1> HIDE DEF n, new
<1>7. CompaniesInv'
  BY <1>2, SameCompanies DEF DispatchInv
<1>8. TypeOK'
  <2>1. Job \subseteq Job'
    BY <1>5 DEF Job
  <2>2. job' \in [Jobs -> Job']
    BY <1>2, <1>6, <2>1 DEF DispatchInv, TypeOK
  <2>3. owed' \in [Jobs -> SUBSET Pairs]
    BY <1>2, <1>3 DEF DispatchInv, TypeOK
  <2>4. result' \in [Pairs -> SUBSET Reading']
    BY <1>2, <1>5 DEF DispatchInv, TypeOK
  <2>5. log' \in [Pairs -> Seq(Reading')]
    <3>1. Seq(Reading) \subseteq Seq(Reading')
      BY <1>5
    <3> QED BY <1>2, <3>1 DEF DispatchInv, TypeOK
  <2>6. query' \in [pc : {"idle", "half"}, pair : Pairs \cup {NoPair}, score : Reading']
    BY <1>2, <1>5 DEF DispatchInv, TypeOK
  <2> QED BY <1>2, <1>4, <1>7, <2>2, <2>3, <2>4, <2>5, <2>6
          DEF DispatchInv, CompaniesInv, TypeOK
<1>9. StateOk'
  BY <1>1, <1>2, <1>6 DEF DispatchInv, TypeOK, StateOk
<1>10. \A k \in Jobs \ {j} : job'[k] = job[k] /\ job'[k].pc \notin Working
  BY <1>1, <1>2 DEF DispatchInv, TypeOK, StateOk, Working
<1>11. job'[j] = new /\ owed'[j] = Listed(j)
  BY <1>2 DEF DispatchInv, TypeOK
<1>12. WorkOk'
  <2> SUFFICES ASSUME NEW k \in Jobs, job'[k].pc \in Working
               PROVE  /\ Len(readings)' > 0
                      /\ job'[k].reading = Len(readings)'
                      /\ readings'[Len(readings)'] = k
                      /\ job'[k].left \subseteq Named(k)'
                      /\ owed'[k] \ job'[k].left = {}
    BY DEF WorkOk
  <2>1. k = j /\ Listed(j) # {}
    BY <1>6, <1>10, <1>11 DEF Working
  <2>2. Named(j)' = Named(j)
    BY <1>6, <1>11, <2>1 DEF Named
  <2> QED BY <1>3, <1>4, <1>6, <1>11, <2>1, <2>2
<1>13. PairOk'
  BY <1>6, <1>10, <1>11 DEF PairOk, Working
<1>14. \A p \in Pairs : Seen(p)' = Seen(p) /\ LatestLog(p)' = LatestLog(p)
  BY <1>2 DEF Seen, LatestLog
<1>15. DoneOk'
  <2> SUFFICES ASSUME NEW k \in Jobs, job'[k].state = "completed", NEW p \in owed'[k]
               PROVE  Scored(p, job[k].reading)'
    BY DEF DoneOk
  <2>1. k # j
    BY <1>6, <1>11
  <2>2. owed'[k] = owed[k] /\ job'[k] = job[k]
    BY <1>2, <1>10, <2>1 DEF DispatchInv, TypeOK
  <2> QED BY <1>2, <2>2 DEF DispatchInv, DoneOk, Scored, LatestLog
<1>16. ResultOk'
  BY <1>2, <1>14 DEF DispatchInv, ResultOk, Here
<1>17. LagOk'
  <2> SUFFICES ASSUME NEW p \in Pairs, NEW r \in Seen(p)', LatestLog(p)' # r
               PROVE  LatestLog(p)' < r /\ Pending(readings[r], p)'
    BY DEF LagOk
  <2>1. LatestLog(p) < r /\ Pending(readings[r], p) /\ r \in Seen(p)
    BY <1>14 DEF DispatchInv, LagOk
  <2>2. /\ r \in 1 .. Len(readings) /\ readings[r] \in Jobs
        /\ p[2] \in shown /\ Here(p[1])
    BY <1>1, <2>1 DEF DispatchInv, TypeOK, ResultOk, Seen, Reading
  <2>3. readings'[r] = readings[r]
    BY <1>4, <2>2
  <2>4. CASE readings[r] # j
    <3>1. job'[readings[r]] = job[readings[r]]
      BY <1>10, <2>2, <2>4
    <3> QED BY <1>14, <2>1, <2>3, <3>1 DEF Pending, Named
  <2>5. CASE readings[r] = j
    <3>1. p \in Named(j)
      BY <1>1, <2>1, <2>5 DEF Pending
    <3>2. p \in Listed(j)
      <4>1. /\ p \in Companies \X Notices /\ p[1] \in Companies
            /\ p[2] \in job[j].notices /\ job[j].company \in {"every", p[1]}
            /\ p = <<p[1], p[2]>>
        BY <3>1 DEF Named, Pairs
      <4> QED BY <2>2, <4>1 DEF Listed
    <3>3. p \in Named(j)' /\ job'[j].state = "active" /\ job'[j].left = Listed(j)
      BY <1>6, <1>11, <3>1, <3>2 DEF Named
    <3> QED BY <1>14, <2>1, <2>3, <2>5, <3>2, <3>3 DEF Pending
  <2> QED BY <2>4, <2>5
<1>18. QueryOk'
  BY <1>2 DEF DispatchInv, QueryOk
<1> QED BY <1>7, <1>8, <1>9, <1>12, <1>13, <1>15, <1>16, <1>17, <1>18 DEF DispatchInv

\* What the steps of one pair leave of the invariant: the other jobs are not
\* at work, and the table is as it was but for that pair.
LEMMA OthersIdle ==
  ASSUME DispatchInv, NEW j \in Jobs, job[j].pc # "idle"
  PROVE  /\ job[j] \in Job /\ job[j].state = "active"
         /\ \A k \in Jobs \ {j} : job[k].pc = "idle"
BY DEF DispatchInv, TypeOK, StateOk

LEMMA LookupInv ==
  ASSUME DispatchInv, NEW j \in Jobs, NEW p \in Pairs, Lookup(j, p)
  PROVE  DispatchInv'
<1> DEFINE new == [job[j] EXCEPT !.pc = "save", !.at = p, !.found = Existing(p)]
<1>1. /\ job[j] \in Job /\ job[j].pc = "lookup" /\ job[j].state = "active"
      /\ p \in job[j].left /\ \A k \in Jobs \ {j} : job[k].pc = "idle"
  BY OthersIdle DEF Lookup
<1>2. /\ result[p] \in SUBSET Reading /\ Seen(p) \subseteq result[p]
      /\ p[2] \in shown => Seen(p) = result[p]
  BY DEF DispatchInv, TypeOK, Seen
<1>3. Existing(p) \in SUBSET Reading /\ Seen(p) \subseteq Existing(p)
  BY <1>2 DEF DispatchInv, ResultOk, Existing
<1>4. /\ new \in Job /\ new.state = "active" /\ new.pc = "save" /\ new.at = p
      /\ new.found = Existing(p) /\ new.left = job[j].left
      /\ new.reading = job[j].reading /\ new.company = job[j].company
      /\ new.notices = job[j].notices
      /\ job' = [job EXCEPT ![j] = new]
      /\ UNCHANGED <<row, call, shown, result, log, query, readings, owed, faults>>
  BY <1>1, <1>3 DEF Lookup, Job
<1> HIDE DEF new
<1>5. CompaniesInv'
  BY <1>4, SameCompanies DEF DispatchInv
<1>6. TypeOK'
  BY <1>4, <1>5 DEF DispatchInv, CompaniesInv, TypeOK, Job, Reading
<1>7. StateOk'
  BY <1>1, <1>4 DEF DispatchInv, TypeOK, StateOk
<1>8. job'[j] = new /\ \A k \in Jobs \ {j} : job'[k] = job[k]
  BY <1>4 DEF DispatchInv, TypeOK
<1>9. /\ \A q \in Pairs : /\ Seen(q)' = Seen(q) /\ LatestLog(q)' = LatestLog(q)
                          /\ \A n : Scored(q, n)' <=> Scored(q, n)
      /\ \A k \in Jobs : Named(k)' = Named(k) /\ owed[k] \subseteq Pairs
  BY <1>4, <1>8 DEF Seen, LatestLog, Scored, Named, DispatchInv, TypeOK
<1>10. WorkOk'
  <2> SUFFICES ASSUME NEW k \in Jobs, job'[k].pc \in Working
               PROVE  /\ Len(readings)' > 0
                      /\ job'[k].reading = Len(readings)'
                      /\ readings'[Len(readings)'] = k
                      /\ job'[k].left \subseteq Named(k)'
                      /\ \A q \in owed'[k] \ job'[k].left :
                           Scored(q, job[k].reading)'
    BY DEF WorkOk
  <2>1. k = j
    BY <1>1, <1>8 DEF Working
  <2>2. /\ Len(readings) > 0 /\ job[j].reading = Len(readings)
        /\ readings[Len(readings)] = j /\ job[j].left \subseteq Named(j)
        /\ \A q \in owed[j] \ job[j].left : Scored(q, job[j].reading)
    BY <1>1 DEF DispatchInv, WorkOk, Working
  <2> QED BY <1>4, <1>8, <1>9, <2>1, <2>2 DEF Scored
<1>11. PairOk'
  BY <1>1, <1>2, <1>3, <1>4, <1>8 DEF PairOk
<1>12. DoneOk'
  BY <1>1, <1>4, <1>8, <1>9 DEF DispatchInv, DoneOk, Scored
<1>13. ResultOk'
  BY <1>4, <1>9 DEF DispatchInv, ResultOk, Here
<1>14. LagOk'
  <2> SUFFICES ASSUME NEW q \in Pairs, NEW r \in Seen(q)', LatestLog(q)' # r
               PROVE  LatestLog(q)' < r /\ Pending(readings[r], q)'
    BY DEF LagOk
  <2>1. LatestLog(q) < r /\ Pending(readings[r], q) /\ readings[r] \in Jobs
    BY <1>9 DEF DispatchInv, LagOk, TypeOK, ResultOk, Seen, Reading
  <2> QED BY <1>1, <1>4, <1>8, <1>9, <2>1 DEF Pending, Named, Working
<1>15. QueryOk'
  BY <1>4 DEF DispatchInv, QueryOk
<1> QED BY <1>5, <1>6, <1>7, <1>10, <1>11, <1>12, <1>13, <1>14, <1>15 DEF DispatchInv
LEMMA SaveResultInv ==
  ASSUME DispatchInv, NEW j \in Jobs, SaveResult(j)
  PROVE  DispatchInv'
<1> DEFINE new == [job[j] EXCEPT !.pc = "append"]
           rows == (result[job[j].at] \ job[j].found) \cup {job[j].reading}
<1>1. /\ job[j] \in Job /\ job[j].pc = "save" /\ job[j].state = "active"
      /\ \A k \in Jobs \ {j} : job[k].pc = "idle"
  BY OthersIdle DEF SaveResult
<1>2. CASE Refused(j)
  <2>1. faults' \in 0 .. MaxFaults
    BY DEF DispatchInv, TypeOK, SaveResult
  <2> QED BY <1>1, <1>2, <2>1, ThrowInv DEF SaveResult
<1>3. CASE ~Refused(j)
  <2>0. PICK p \in Pairs, n \in Reading : p = job[j].at /\ n = job[j].reading
    BY <1>1 DEF DispatchInv, WorkOk, PairOk, Working, Named, Job
  <2>1. /\ Len(readings) > 0 /\ n = Len(readings) /\ readings[n] = j
        /\ job[j].left \subseteq Named(j)
        /\ \A q \in owed[j] \ job[j].left : Scored(q, n)
        /\ p \in job[j].left
        /\ p[2] \in shown => result[p] \subseteq job[j].found
        /\ p \in Named(j) /\ Here(p[1]) /\ n > 0
    BY <1>1, <1>3, <2>0 DEF DispatchInv, WorkOk, PairOk, Working, Refused
  <2>2. /\ new \in Job /\ new.state = "active" /\ new.pc = "append" /\ new.at = p
        /\ new.left = job[j].left /\ new.reading = n
        /\ new.company = job[j].company /\ new.notices = job[j].notices
        /\ job' = [job EXCEPT ![j] = new]
        /\ result' = [result EXCEPT ![p] = rows]
        /\ UNCHANGED <<row, call, shown, log, query, readings, owed, faults>>
    BY <1>1, <1>3, <2>0 DEF SaveResult, Job
  <2>3. /\ rows \in SUBSET Reading /\ n \in rows
        /\ p[2] \in shown => rows = {n}
        /\ \A r \in rows : r > 0
    <3>1. rows = (result[p] \ job[j].found) \cup {n} /\ result[p] \in SUBSET Reading
      BY <2>0 DEF DispatchInv, TypeOK
    <3>2. \A r \in result[p] : r > 0
      BY DEF DispatchInv, ResultOk
    <3> HIDE DEF rows
    <3> QED BY <2>1, <3>1, <3>2
  <2> HIDE DEF new, rows
  <2>4. CompaniesInv'
    BY <2>2, SameCompanies DEF DispatchInv
  <2>5. TypeOK'
    <3>1. result' \in [Pairs -> SUBSET Reading] /\ job' \in [Jobs -> Job]
      BY <2>1, <2>2, <2>3 DEF DispatchInv, TypeOK
    <3> QED BY <2>2, <2>4, <3>1 DEF DispatchInv, CompaniesInv, TypeOK, Job, Reading
  <2>6. StateOk'
    BY <1>1, <2>2 DEF DispatchInv, TypeOK, StateOk
  <2>7. /\ job'[j] = new /\ \A k \in Jobs \ {j} : job'[k] = job[k]
        /\ result'[p] = rows
        /\ \A q \in Pairs \ {p} : result'[q] = result[q] /\ Seen(q)' = Seen(q)
        /\ Seen(p)' \subseteq {n}
    BY <2>1, <2>2, <2>3 DEF DispatchInv, TypeOK, Seen
  <2>8. \A q \in Pairs : LatestLog(q)' = LatestLog(q) /\ LatestLog(q) \in Reading
    BY <2>2, LatestLogType DEF LatestLog, DispatchInv
  <2>9. \A k \in Jobs : Named(k)' = Named(k) /\ owed[k] \subseteq Pairs
    BY <2>2, <2>7 DEF Named, DispatchInv, TypeOK
  <2>10. \A q \in Pairs, m \in Reading : Scored(q, m) => Scored(q, m)'
    <3> SUFFICES ASSUME NEW q \in Pairs, NEW m \in Reading, Scored(q, m)
                 PROVE  Scored(q, m)'
      OBVIOUS
    <3>1. \E r \in result'[q] : r >= m
      <4>1. CASE q = p
        BY <2>1, <2>3, <2>7, <4>1 DEF Reading, DispatchInv, TypeOK
      <4>2. CASE q # p
        BY <2>7, <4>2 DEF Scored
      <4> QED BY <4>1, <4>2
    <3> QED BY <2>8, <3>1 DEF Scored
  <2>11. WorkOk'
    <3> SUFFICES ASSUME NEW k \in Jobs, job'[k].pc \in Working
                 PROVE  /\ Len(readings)' > 0
                        /\ job'[k].reading = Len(readings)'
                        /\ readings'[Len(readings)'] = k
                        /\ job'[k].left \subseteq Named(k)'
                        /\ \A q \in owed'[k] \ job'[k].left :
                             Scored(q, job[k].reading)'
      BY DEF WorkOk
    <3>1. k = j
      BY <1>1, <2>7 DEF Working
    <3> QED BY <2>1, <2>2, <2>7, <2>9, <2>10, <3>1 DEF Scored
  <2>12. PairOk'
    BY <1>1, <2>1, <2>2, <2>3, <2>7 DEF PairOk, Seen
  <2>13. DoneOk'
    <3> SUFFICES ASSUME NEW k \in Jobs, job'[k].state = "completed",
                        NEW q \in owed'[k]
                 PROVE  Scored(q, job[k].reading)'
      BY DEF DoneOk
    <3>1. k # j /\ job'[k] = job[k] /\ owed'[k] = owed[k]
      BY <2>2, <2>7
    <3>2. job[k].reading \in Reading /\ q \in Pairs
      BY <2>9, <3>1 DEF DispatchInv, TypeOK, Job
    <3>3. Scored(q, job[k].reading)
      BY <3>1 DEF DispatchInv, DoneOk
    <3> QED BY <2>10, <3>1, <3>2, <3>3 DEF Scored
  <2>14. ResultOk'
    <3> SUFFICES ASSUME NEW q \in Pairs
                 PROVE  /\ \A r \in result'[q] : r > 0 /\ Here(q[1])
                        /\ \A r, s \in Seen(q)' : r = s
      BY <2>2 DEF ResultOk, Here
    <3>1. CASE q = p
      BY <2>1, <2>3, <2>7, <3>1
    <3>2. CASE q # p
      BY <2>7, <3>2 DEF DispatchInv, ResultOk
    <3> QED BY <3>1, <3>2
  <2>15. LagOk'
    <3> SUFFICES ASSUME NEW q \in Pairs, NEW r \in Seen(q)', LatestLog(q)' # r
                 PROVE  LatestLog(q)' < r /\ Pending(readings[r], q)'
      BY DEF LagOk
    <3>1. CASE q = p
      <4>1. r = n
        BY <2>7, <3>1
      <4>2. Pending(j, p)'
        BY <2>1, <2>2, <2>7, <2>9 DEF Pending
      <4>3. LatestLog(q) < n
        BY <2>1, <2>8, <4>1 DEF Reading, DispatchInv, TypeOK
      <4> QED BY <2>1, <2>2, <2>8, <3>1, <4>1, <4>2, <4>3 DEF Pending, Named
    <3>2. CASE q # p
      <4>1. LatestLog(q) < r /\ Pending(readings[r], q) /\ readings[r] \in Jobs
        BY <2>7, <2>8, <3>2 DEF DispatchInv, LagOk, TypeOK, ResultOk, Seen, Reading
      <4> QED BY <1>1, <2>2, <2>7, <2>8, <4>1 DEF Pending, Named, Working
    <3> QED BY <3>1, <3>2
  <2>16. QueryOk'
    BY <2>2 DEF DispatchInv, QueryOk
  <2> QED BY <2>4, <2>5, <2>6, <2>11, <2>12, <2>13, <2>14, <2>15, <2>16 DEF DispatchInv
<1> QED BY <1>2, <1>3

LEMMA AppendLogInv ==
  ASSUME DispatchInv, NEW j \in Jobs, AppendLog(j)
  PROVE  DispatchInv'
<1> DEFINE left == job[j].left \ {job[j].at}
           new == Continue(j, left, job[j].reading)
<1>1. /\ job[j] \in Job /\ job[j].pc = "append" /\ job[j].state = "active"
      /\ \A k \in Jobs \ {j} : job[k].pc = "idle"
  BY OthersIdle DEF AppendLog
<1>2. CASE Refused(j)
  <2>1. faults' \in 0 .. MaxFaults
    BY DEF DispatchInv, TypeOK, AppendLog
  <2> QED BY <1>1, <1>2, <2>1, ThrowInv DEF AppendLog
<1>3. CASE ~Refused(j)
  <2>1. PICK p \in Pairs, n \in Reading : p = job[j].at /\ n = job[j].reading
    BY <1>1 DEF DispatchInv, WorkOk, PairOk, Working, Named, Job
  <2>2. /\ Len(readings) > 0 /\ n = Len(readings) /\ readings[n] = j
        /\ job[j].left \subseteq Named(j) /\ job[j].left \in SUBSET Pairs
        /\ \A q \in owed[j] \ job[j].left : Scored(q, n)
        /\ p \in job[j].left /\ Seen(p) \subseteq {n}
        /\ p \in owed[j] => n \in result[p]
        /\ left = job[j].left \ {p}
    BY <1>1, <2>1 DEF DispatchInv, WorkOk, PairOk, Working, Job
  <2>3. /\ job' = [job EXCEPT ![j] = new]
        /\ log' = [log EXCEPT ![p] = Append(log[p], n)]
        /\ UNCHANGED <<row, call, shown, result, query, readings, owed, faults>>
    BY <1>3, <2>1 DEF AppendLog
  <2>4. /\ new \in Job
        /\ left = {} => new.state = "completed" /\ new.pc = "idle" /\ new.reading = n
        /\ left # {} => /\ new.state = "active" /\ new.pc = "lookup"
                        /\ new.left = left /\ new.reading = n
                        /\ new.company = job[j].company
                        /\ new.notices = job[j].notices
    <3>1. Reading' = Reading /\ Job' = Job
      BY <2>3 DEF Reading, Job
    <3> QED BY <1>1, <2>1, <2>2, <3>1, ContinueIs DEF DispatchInv
  <2> HIDE DEF new, left
  <2>5. CompaniesInv'
    BY <2>3, SameCompanies DEF DispatchInv
  <2>6. log[p] \in Seq(Reading)
    BY DEF DispatchInv, TypeOK
  <2>7. TypeOK'
    <3>1. job' \in [Jobs -> Job]
      BY <2>3, <2>4 DEF DispatchInv, TypeOK
    <3>2. log' \in [Pairs -> Seq(Reading)]
      BY <2>3, <2>6 DEF DispatchInv, TypeOK
    <3> QED BY <2>3, <2>5, <3>1, <3>2 DEF DispatchInv, CompaniesInv, TypeOK, Job, Reading
  <2>8. StateOk'
    BY <1>1, <2>3, <2>4 DEF DispatchInv, TypeOK, StateOk
  <2>9. /\ job'[j] = new /\ \A k \in Jobs \ {j} : job'[k] = job[k]
        /\ \A q \in Pairs : Seen(q)' = Seen(q)
    BY <2>3 DEF DispatchInv, TypeOK, Seen
  <2>10. LatestLog(p)' = n
    <3>1. log'[p] = Append(log[p], n)
      BY <2>3 DEF DispatchInv, TypeOK
    <3> QED BY <2>6, <3>1 DEF LatestLog
  <2>11. \A q \in Pairs \ {p} : LatestLog(q)' = LatestLog(q)
    BY <2>3 DEF DispatchInv, TypeOK, LatestLog
  <2>12. \A q \in Pairs, m \in Reading : Scored(q, m) => Scored(q, m)'
    <3> SUFFICES ASSUME NEW q \in Pairs, NEW m \in Reading, Scored(q, m)
                 PROVE  Scored(q, m)'
      OBVIOUS
    <3>1. CASE q = p
      BY <2>2, <2>3, <2>10, <3>1 DEF Scored, Reading, DispatchInv, TypeOK
    <3>2. CASE q # p
      BY <2>3, <2>11, <3>2 DEF Scored
    <3> QED BY <3>1, <3>2
  <2>13. \A k \in Jobs : owed[k] \subseteq Pairs
    BY DEF DispatchInv, TypeOK
  <2>14. \A q \in owed[j] \ left : Scored(q, n)'
    <3> SUFFICES ASSUME NEW q \in owed[j] \ left PROVE Scored(q, n)'
      OBVIOUS
    <3>1. CASE q = p
      BY <2>2, <2>3, <2>10, <3>1 DEF Scored, Reading
    <3>2. CASE q # p
      BY <2>2, <2>12, <2>13, <3>2
    <3> QED BY <3>1, <3>2
  <2>15. WorkOk'
    <3> SUFFICES ASSUME NEW k \in Jobs, job'[k].pc \in Working
                 PROVE  /\ Len(readings)' > 0
                        /\ job'[k].reading = Len(readings)'
                        /\ readings'[Len(readings)'] = k
                        /\ job'[k].left \subseteq Named(k)'
                        /\ \A q \in owed'[k] \ job'[k].left :
                             Scored(q, job[k].reading)'
      BY DEF WorkOk
    <3>1. k = j /\ left # {}
      BY <1>1, <2>4, <2>9 DEF Working
    <3>2. Named(j)' = Named(j)
      BY <2>4, <2>9, <3>1 DEF Named
    <3> QED BY <2>2, <2>3, <2>4, <2>9, <2>14, <3>1, <3>2 DEF Scored
  <2>16. PairOk'
    BY <1>1, <2>4, <2>9 DEF PairOk
  <2>17. DoneOk'
    <3> SUFFICES ASSUME NEW k \in Jobs, job'[k].state = "completed",
                        NEW q \in owed'[k]
                 PROVE  Scored(q, job[k].reading)'
      BY DEF DoneOk
    <3>1. CASE k = j
      <4>1. left = {} /\ new.reading = n
        BY <2>4, <2>9, <3>1
      <4> QED BY <2>3, <2>9, <2>14, <3>1, <4>1 DEF Scored
    <3>2. CASE k # j
      <4>1. job'[k] = job[k] /\ owed'[k] = owed[k]
        BY <2>3, <2>9, <3>2
      <4>2. job[k].reading \in Reading /\ q \in Pairs
        BY <2>13, <4>1 DEF DispatchInv, TypeOK, Job
      <4>3. Scored(q, job[k].reading)
        BY <4>1 DEF DispatchInv, DoneOk
      <4> QED BY <2>12, <4>1, <4>2, <4>3 DEF Scored
    <3> QED BY <3>1, <3>2
  <2>18. ResultOk'
    BY <2>3, <2>9 DEF DispatchInv, ResultOk, Here
  <2>19. LagOk'
    <3> SUFFICES ASSUME NEW q \in Pairs, NEW r \in Seen(q)', LatestLog(q)' # r
                 PROVE  LatestLog(q)' < r /\ Pending(readings[r], q)'
      BY DEF LagOk
    <3>1. q # p
      BY <2>2, <2>9, <2>10
    <3>2. LatestLog(q) < r /\ Pending(readings[r], q) /\ readings[r] \in Jobs
      BY <2>9, <2>11, <3>1 DEF DispatchInv, LagOk, TypeOK, ResultOk, Seen, Reading
    <3>3. readings' = readings /\ LatestLog(q)' < r
      BY <2>3, <2>11, <3>1, <3>2
    <3>4. CASE readings[r] # j
      BY <2>9, <3>2, <3>3, <3>4 DEF Pending, Named
    <3>5. CASE readings[r] = j
      <4>1. q \in Named(j) /\ q \in left
        BY <1>1, <2>2, <3>1, <3>2, <3>5 DEF Pending, Working
      <4>2. /\ job'[j].state = "active" /\ job'[j].left = left
            /\ Named(j)' = Named(j)
        BY <2>4, <2>9, <4>1 DEF Named
      <4> QED BY <3>3, <3>5, <4>1, <4>2 DEF Pending, Named
    <3> QED BY <3>4, <3>5
  <2>20. QueryOk'
    BY <2>3 DEF DispatchInv, QueryOk
  <2> QED BY <2>5, <2>7, <2>8, <2>15, <2>16, <2>17, <2>18, <2>19, <2>20 DEF DispatchInv
<1> QED BY <1>2, <1>3

-----------------------------------------------------------------------------

LEMMA DispatchNext == DispatchInv /\ [Next]_vars => DispatchInv'
<1> SUFFICES ASSUME DispatchInv, [Next]_vars PROVE DispatchInv' OBVIOUS
<1>1. CASE UNCHANGED vars
  <2>1. UNCHANGED <<row, call, shown, job, result, log, query, readings, owed, faults>>
    BY <1>1 DEF vars
  <2>2. CompaniesInv'
    BY <2>1, SameCompanies DEF DispatchInv
  <2>3. TypeOK' /\ StateOk' /\ QueryOk'
    BY <2>1, <2>2 DEF DispatchInv, CompaniesInv, TypeOK, Job, Reading, StateOk, QueryOk
  <2> QED BY <2>1, <2>2, <2>3, AsideInv
<1>2. CASE CompanyStep
  BY <1>2, CompanyStepInv
<1>3. ASSUME NEW n \in Notices, RemoveNotice(n) PROVE DispatchInv'
  BY <1>3, RemoveNoticeInv
<1>4. ASSUME NEW j \in Jobs, NEW n \in Notices, Dispatch(j, n) PROVE DispatchInv'
  BY <1>4, AddInv DEF Dispatch
<1>5. ASSUME NEW j \in Jobs, NEW c \in Companies, NEW ns \in SUBSET Notices,
             EnqueueBatch(j, c, ns)
      PROVE  DispatchInv'
  BY <1>5, AddInv DEF EnqueueBatch
<1>6. ASSUME NEW j \in Jobs, Start(j) PROVE DispatchInv'
  BY <1>6, StartInv
<1>7. ASSUME NEW j \in Jobs, Work(j) PROVE DispatchInv'
  BY <1>7, FindTargetInv, ListInv, LookupInv, SaveResultInv, AppendLogInv, RejectInv
  DEF Work
<1>8. CASE Crash
  BY <1>8, CrashInv
<1>9. CASE ReadLog \/ \E p \in Pairs : ReadResult(p)
  BY <1>9, ReadInv
<1> QED BY <1>1, <1>2, <1>3, <1>4, <1>5, <1>6, <1>7, <1>8, <1>9 DEF Next

LEMMA DispatchInvariance == Spec => []DispatchInv
BY InitDispatch, DispatchNext, PTL DEF Spec

\* Types of the queue, the tables and a request (scoring.worker.ts,
\* scoring-persistence.service.ts).
THEOREM ScoringTypes == Spec => []TypeOK
<1>1. DispatchInv => TypeOK
  BY DEF DispatchInv
<1> QED BY <1>1, DispatchInvariance, PTL

\* However many jobs name a pair, and however often they are run again, it
\* has one result that a request sees (scoring-persistence.service.ts).
THEOREM PairsHaveOneResult == Spec => []OneResultPerPair
<1>1. DispatchInv => OneResultPerPair
  <2> SUFFICES ASSUME DispatchInv, NEW p \in Pairs PROVE Cardinality(Seen(p)) <= 1
    BY DEF OneResultPerPair
  <2>1. CASE Seen(p) = {}
    BY <2>1, FS_EmptySet
  <2>2. CASE Seen(p) # {}
    <3>1. PICK r : r \in Seen(p)
      BY <2>2
    <3>2. Seen(p) = {r}
      BY <3>1 DEF DispatchInv, ResultOk
    <3>3. Cardinality({r}) = 1
      BY FS_Singleton
    <3> QED BY <3>2, <3>3
  <2> QED BY <2>1, <2>2
<1> QED BY <1>1, DispatchInvariance, PTL

\* What the worker saves is newer than all it saves it over or beside
\* (scoring-persistence.service.ts, upsertMatchingResult).
THEOREM ResultsOnlyMoveForward == Spec => ResultsMoveForward
<1> DEFINE A == \A p \in Pairs :
                  \A new \in result'[p] \ result[p], old \in result[p] : new > old
<1>1. DispatchInv /\ [Next]_vars => [A]_vars
  <2> SUFFICES ASSUME DispatchInv, Next, NEW p \in Pairs,
                      NEW new \in result'[p] \ result[p], NEW old \in result[p]
               PROVE  new > old
    OBVIOUS
  <2>1. ~CompanyStep
    BY DEF CompanyStep
  <2>2. result' # result
    OBVIOUS
  <2>3. PICK j \in Jobs : SaveResult(j)
    BY <2>1, <2>2
    DEF Next, RemoveNotice, Dispatch, EnqueueBatch, Add, Start, Work, FindTarget,
        List, Lookup, AppendLog, Reject, Throw, Crash, ReadResult, ReadLog
  <2>4. job[j].pc = "save" /\ ~Throw(j)
    BY <2>2, <2>3 DEF SaveResult, Throw
  <2>5. result' = [result EXCEPT ![job[j].at] =
                     (result[job[j].at] \ job[j].found) \cup {job[j].reading}]
    BY <2>3, <2>4 DEF SaveResult
  <2>6. new = job[j].reading /\ job[j].reading = Len(readings)
    BY <2>4, <2>5 DEF DispatchInv, TypeOK, WorkOk, Working
  <2>7. old \in Reading /\ old # new /\ Len(readings) \in Nat
    BY DEF DispatchInv, TypeOK
  <2> QED BY <2>6, <2>7 DEF Reading
<1> QED BY <1>1, DispatchInvariance, PTL DEF Spec, ResultsMoveForward

\* A job that is done has scored and logged all it read that is still there,
\* whatever attempts, crashes and removals came between (scoring.worker.ts,
\* processScoringDispatch and processCompanyBatchScoring).
THEOREM CompletedJobsScored == Spec => []CompletedMeansScored
<1>1. DispatchInv => CompletedMeansScored
  BY DEF DispatchInv, DoneOk, Scored, CompletedMeansScored
<1> QED BY <1>1, DispatchInvariance, PTL

\* A log lags behind its result only while the job that owes it is not done
\* (scoring-persistence.service.ts, evaluateAndPersist).
THEOREM LogsAgree == Spec => []LogAgrees
<1>1. DispatchInv => LogAgrees
  BY DEF DispatchInv, LagOk, LogAgrees, Pending
<1> QED BY <1>1, DispatchInvariance, PTL

\* Score and category of one response are of one evaluation, with the three
\* exceptions named (scoring-query.service.ts, getScore).
THEOREM AnswersCohere == Spec => AnswerCoherent
<1> DEFINE A == query.pc = "half" /\ query'.pc = "idle" =>
                  \/ Response.category = Response.score
                  \/ Response.score \notin Seen(query.pair)
                  \/ /\ Response.category < Response.score
                     /\ job[readings[Response.score]].state # "completed"
<1>1. DispatchInv => A
  <2> SUFFICES ASSUME DispatchInv, query.pc = "half",
                      Response.category # Response.score,
                      Response.score \in Seen(query.pair)
               PROVE  /\ Response.category < Response.score
                      /\ job[readings[Response.score]].state # "completed"
    OBVIOUS
  <2>1. query.pair \in Pairs
    BY DEF DispatchInv, QueryOk
  <2>2. Response.score = query.score /\ query.pair[2] \in shown
    BY DEF Response, Seen
  <2>3. Response.category = LatestLog(query.pair)
    BY <2>2 DEF Response
  <2> QED BY <2>1, <2>3 DEF DispatchInv, LagOk, Pending
<1>2. DispatchInv /\ [Next]_vars => [A]_vars
  BY <1>1
<1> QED BY <1>2, DispatchInvariance, PTL DEF Spec, AnswerCoherent

\* What holds of companies by themselves holds with the worker beside them
\* and a process that dies at any time (companies.service.ts under
\* scoring.worker.ts): unique NITs, conflicts only with another company, and
\* no way back for a removed company but an update that had found it.
THEOREM CompaniesHoldUnderScoring ==
  Spec => []UniqueNit /\ []ConflictOnlyWithAnother /\ ReturnsOnlyByUpdate
<1>1. DispatchInv => CompaniesInv /\ UniqueNit /\ ConflictOnlyWithAnother
  BY ConflictInv DEF DispatchInv, CompaniesInv
<1> DEFINE A == \A c \in Companies :
                  (row[c].state = "gone" /\ row'[c].state = "here") =>
                    \E q \in Calls :
                      /\ call[q].op = "update" /\ call[q].id = c
                      /\ call[q].copy.state = "here"
<1>2. DispatchInv /\ [Next]_vars => [A]_companyVars
  <2> SUFFICES ASSUME DispatchInv, [Next]_vars, NEW c \in Companies,
                      row[c].state = "gone", row'[c].state = "here"
               PROVE  \E q \in Calls :
                        /\ call[q].op = "update" /\ call[q].id = c
                        /\ call[q].copy.state = "here"
    OBVIOUS
  <2>1. row' # row
    OBVIOUS
  <2>2. CompaniesNext
    BY <2>1 DEF Next, vars, CompanyStep, RemoveNotice, Dispatch, EnqueueBatch,
       Add, Start, Work, FindTarget, List, Lookup, SaveResult, AppendLog,
       Reject, Throw, Crash, ReadResult, ReadLog
  <2> QED BY <1>1, <2>2, RevivalIsUpdate
<1> QED BY <1>1, <1>2, DispatchInvariance, PTL DEF Spec, ReturnsOnlyByUpdate

-----------------------------------------------------------------------------
(* A job has a budget of steps.  An attempt takes three for each pair it   *)
(* reads, and the queue grants a bounded number of attempts and re-runs;   *)
(* the job's own steps spend the budget, and nothing gives any of it back. *)

LapSize == 3 * Cardinality(Pairs) + 4

\* Steps that job j has ahead of it in one run, the start included.
StepsAhead(j) ==
  CASE job[j].pc = "find"   -> LapSize - 1
    [] job[j].pc = "list"   -> LapSize - 2
    [] job[j].pc = "lookup" -> 3 * Cardinality(job[j].left) + 1
    [] job[j].pc = "save"   -> 3 * Cardinality(job[j].left)
    [] job[j].pc = "append" -> 3 * Cardinality(job[j].left) - 1
    [] OTHER                -> LapSize

Unsettled(j) == job[j].state \in {"fresh", "again", "active"}

\* Attempts and re-runs the queue would still grant it after this one.
RunsLeft(j) == (Attempts - 1 - job[j].attempts) + (MaxStalled - job[j].stalls)

StepsLeft(j) ==
  IF Unsettled(j) THEN LapSize * RunsLeft(j) + StepsAhead(j) ELSE 0

StepsBounded ==
  \A j \in Jobs :
    /\ StepsLeft(j) \in Nat /\ StepsLeft(j) <= LapSize * (Attempts + MaxStalled)
    /\ Unsettled(j) => StepsLeft(j) > 0

StepsSpent ==
  [][\A j \in Jobs :
       /\ Start(j) \/ Work(j) => StepsLeft(j)' < StepsLeft(j)
       /\ job[j].state # "none" => StepsLeft(j)' <= StepsLeft(j)]_vars

\* The part of a stall that DispatchInv does not rule out: a job that looks
\* for pairs has some left.
LeftOk == \A j \in Jobs : job[j].pc = "lookup" => job[j].left # {}

NoJobStuck ==
  (\E j \in Jobs : Unsettled(j)) =>
    \/ \E j \in Jobs :
         /\ job[j].state = "active" /\ job[j].pc # "idle"
         /\ job[j].pc = "lookup" => job[j].left # {}
    \/ Free /\ \E j \in Jobs : Turn(j)

LEMMA LeftSize ==
  ASSUME IsFiniteSet(Pairs), NEW L \in SUBSET Pairs
  PROVE  /\ IsFiniteSet(L)
         /\ Cardinality(L) \in Nat /\ Cardinality(Pairs) \in Nat
         /\ Cardinality(L) <= Cardinality(Pairs)
         /\ L # {} => Cardinality(L) >= 1
<1>1. IsFiniteSet(L) /\ Cardinality(L) <= Cardinality(Pairs)
  BY FS_Subset
<1>2. Cardinality(L) \in Nat /\ Cardinality(Pairs) \in Nat
  BY <1>1, FS_CardinalityType
<1>3. L # {} => Cardinality(L) # 0
  BY <1>1, FS_EmptySet
<1> QED BY <1>1, <1>2, <1>3

LEMMA LapSizeIs ==
  ASSUME IsFiniteSet(Pairs)
  PROVE  /\ Cardinality(Pairs) \in Nat /\ LapSize = 3 * Cardinality(Pairs) + 4
         /\ LapSize \in Nat /\ LapSize >= 4
BY FS_CardinalityType DEF LapSize

\* StepsAhead of a job that is where the queue or the worker left it.
LEMMA StepsAheadIs ==
  ASSUME NEW j
  PROVE  /\ job[j].pc = "idle" => StepsAhead(j) = LapSize
         /\ job[j].pc = "find" => StepsAhead(j) = LapSize - 1
         /\ job[j].pc = "list" => StepsAhead(j) = LapSize - 2
         /\ job[j].pc = "lookup" => StepsAhead(j) = 3 * Cardinality(job[j].left) + 1
         /\ job[j].pc = "save" => StepsAhead(j) = 3 * Cardinality(job[j].left)
         /\ job[j].pc = "append" => StepsAhead(j) = 3 * Cardinality(job[j].left) - 1
BY DEF StepsAhead

LEMMA StepsAheadNext ==
  ASSUME NEW j
  PROVE  /\ job'[j].pc = "idle" => StepsAhead(j)' = LapSize
         /\ job'[j].pc = "find" => StepsAhead(j)' = LapSize - 1
         /\ job'[j].pc = "list" => StepsAhead(j)' = LapSize - 2
         /\ job'[j].pc = "lookup" => StepsAhead(j)' = 3 * Cardinality(job'[j].left) + 1
         /\ job'[j].pc = "save" => StepsAhead(j)' = 3 * Cardinality(job'[j].left)
         /\ job'[j].pc = "append" => StepsAhead(j)' = 3 * Cardinality(job'[j].left) - 1
BY DEF StepsAhead, LapSize, Pairs

LEMMA StepsLeftIs ==
  ASSUME DispatchInv, IsFiniteSet(Pairs), NEW j \in Jobs
  PROVE  /\ RunsLeft(j) \in Nat /\ RunsLeft(j) <= Attempts + MaxStalled - 1
         /\ StepsAhead(j) \in Nat
         /\ 1 <= StepsAhead(j) /\ StepsAhead(j) <= LapSize
         /\ StepsLeft(j) \in Nat /\ StepsLeft(j) <= LapSize * (Attempts + MaxStalled)
         /\ Unsettled(j) => StepsLeft(j) > 0
<1>1. job[j] \in Job
  BY DEF DispatchInv, TypeOK
<1>2. /\ job[j].attempts \in Nat /\ job[j].attempts <= Attempts - 1
      /\ job[j].stalls \in Nat /\ job[j].stalls <= MaxStalled
      /\ Attempts \in Nat \ {0} /\ MaxStalled \in Nat
  BY <1>1, ScoringAssumption DEF Job
<1>3. RunsLeft(j) \in Nat /\ RunsLeft(j) <= Attempts + MaxStalled - 1
  BY <1>2 DEF RunsLeft
<1>4. job[j].pc \in {"idle", "find", "list", "lookup", "save", "append"}
      /\ job[j].left \in SUBSET Pairs
  BY <1>1 DEF Job
<1>5. job[j].pc \in {"save", "append"} => job[j].left # {}
  BY DEF DispatchInv, PairOk
<1>6. /\ StepsAhead(j) \in Nat
      /\ 1 <= StepsAhead(j) /\ StepsAhead(j) <= LapSize
  BY <1>4, <1>5, StepsAheadIs, LapSizeIs, LeftSize
<1>7. LapSize \in Nat
  BY LapSizeIs
<1>8. /\ LapSize * RunsLeft(j) \in Nat
      /\ LapSize * RunsLeft(j) + LapSize <= LapSize * (Attempts + MaxStalled)
  BY <1>2, <1>3, <1>7
<1> QED BY <1>2, <1>3, <1>6, <1>7, <1>8 DEF StepsLeft

\* The three ways in which a job spends: it goes on, it is put back for
\* another run, or it settles.
LEMMA GoingOnSpends ==
  ASSUME DispatchInv, IsFiniteSet(Pairs), NEW j \in Jobs, Unsettled(j),
         job'[j].state = "active", job'[j].attempts = job[j].attempts,
         job'[j].stalls = job[j].stalls,
         StepsAhead(j)' \in Nat, StepsAhead(j)' < StepsAhead(j)
  PROVE  StepsLeft(j)' < StepsLeft(j) /\ StepsLeft(j)' \in Int
<1>1. RunsLeft(j)' = RunsLeft(j)
  BY DEF RunsLeft
<1>2. StepsLeft(j)' = LapSize * RunsLeft(j) + StepsAhead(j)'
  BY <1>1 DEF StepsLeft, Unsettled, LapSize, Pairs
<1>3. StepsLeft(j) = LapSize * RunsLeft(j) + StepsAhead(j)
  BY DEF StepsLeft
<1>4. LapSize * RunsLeft(j) \in Nat /\ StepsAhead(j) \in Nat
  BY StepsLeftIs, LapSizeIs
<1> QED BY <1>2, <1>3, <1>4

LEMMA RunningAgainSpends ==
  ASSUME DispatchInv, IsFiniteSet(Pairs), NEW j \in Jobs, Unsettled(j),
         job'[j].state = "again", job'[j].pc = "idle",
         \/ /\ job'[j].attempts = job[j].attempts + 1
            /\ job'[j].stalls = job[j].stalls
         \/ /\ job'[j].attempts = job[j].attempts
            /\ job'[j].stalls = job[j].stalls + 1
  PROVE  StepsLeft(j)' < StepsLeft(j) /\ StepsLeft(j)' \in Int
<1>1. /\ job[j].attempts \in Nat /\ job[j].stalls \in Nat
      /\ Attempts \in Nat /\ MaxStalled \in Nat
  BY ScoringAssumption DEF DispatchInv, TypeOK, Job
<1>2. RunsLeft(j)' = RunsLeft(j) - 1
  BY <1>1 DEF RunsLeft
<1>3. StepsLeft(j)' = LapSize * (RunsLeft(j) - 1) + LapSize
  BY <1>2, StepsAheadNext DEF StepsLeft, Unsettled, LapSize, Pairs
<1>4. StepsLeft(j) = LapSize * RunsLeft(j) + StepsAhead(j)
  BY DEF StepsLeft
<1>5. /\ RunsLeft(j) \in Nat /\ LapSize \in Nat
      /\ StepsAhead(j) \in Nat /\ StepsAhead(j) >= 1
  BY StepsLeftIs, LapSizeIs
<1>6. LapSize * (RunsLeft(j) - 1) + LapSize = LapSize * RunsLeft(j)
      /\ LapSize * RunsLeft(j) \in Nat
  BY <1>5
<1> QED BY <1>3, <1>4, <1>5, <1>6

LEMMA SettlingSpends ==
  ASSUME DispatchInv, IsFiniteSet(Pairs), NEW j \in Jobs, Unsettled(j),
         job'[j].state \in {"completed", "failed"}
  PROVE  StepsLeft(j)' < StepsLeft(j) /\ StepsLeft(j)' \in Int
<1>1. StepsLeft(j)' = 0
  BY DEF StepsLeft, Unsettled
<1> QED BY <1>1, StepsLeftIs

LEMMA SameSteps ==
  ASSUME NEW j, job'[j] = job[j]
  PROVE  StepsLeft(j)' = StepsLeft(j)
BY DEF StepsLeft, StepsAhead, Unsettled, RunsLeft, LapSize, Pairs

LEMMA AgainRuns ==
  ASSUME TypeOK, NEW j \in Jobs, NEW a \in 0 .. Attempts - 1, NEW s \in 0 .. MaxStalled
  PROVE  /\ Again(j, a, s).state = "again" /\ Again(j, a, s).pc = "idle"
         /\ Again(j, a, s).attempts = a /\ Again(j, a, s).stalls = s
<1>1. Again(j, a, s) =
        [NoJob EXCEPT !.state = "again", !.company = job[j].company,
                      !.notices = job[j].notices, !.attempts = a, !.stalls = s]
  BY DEF Again
<1>2. NoJob \in Job /\ NoJob.pc = "idle"
  BY NoJobType DEF NoJob
<1> QED BY <1>1, <1>2 DEF Job

LEMMA GivenUpIs == GivenUp.state = "failed" /\ GivenUp.pc = "idle"
<1>1. NoJob \in Job /\ NoJob.pc = "idle"
  BY NoJobType DEF NoJob
<1> QED BY <1>1 DEF GivenUp, Job

\* What a step of job j leaves: less of its budget, the other jobs as they
\* were, and a pair to look for if it is to look for one.
Spends(j) ==
  /\ StepsLeft(j)' < StepsLeft(j) /\ StepsLeft(j)' \in Int
  /\ \A k \in Jobs \ {j} : job'[k] = job[k]
  /\ job'[j].pc = "lookup" => job'[j].left # {}

LEMMA StartSpends ==
  ASSUME DispatchInv, IsFiniteSet(Pairs), NEW j \in Jobs, Start(j)
  PROVE  Spends(j)
<1>1. job \in [Jobs -> Job] /\ job[j] \in Job
  BY DEF DispatchInv, TypeOK
<1>2. job[j].state \in {"again", "fresh"} /\ job[j].pc = "idle" /\ Unsettled(j)
  BY <1>1 DEF DispatchInv, StateOk, Start, Turn, Unsettled
<1>3. /\ job'[j] = [job[j] EXCEPT !.state = "active", !.pc = "find"]
      /\ \A k \in Jobs \ {j} : job'[k] = job[k]
  BY <1>1 DEF Start
<1>4. /\ job'[j].state = "active" /\ job'[j].pc = "find"
      /\ job'[j].attempts = job[j].attempts /\ job'[j].stalls = job[j].stalls
  BY <1>1, <1>3 DEF Job
<1>5. StepsAhead(j)' \in Nat /\ StepsAhead(j)' < StepsAhead(j)
  BY <1>2, <1>4, StepsAheadIs, StepsAheadNext, LapSizeIs
<1> QED BY <1>2, <1>3, <1>4, <1>5, GoingOnSpends DEF Spends

LEMMA ThrowSpends ==
  ASSUME DispatchInv, IsFiniteSet(Pairs), NEW j \in Jobs,
         job[j].state = "active", Throw(j)
  PROVE  Spends(j)
<1>1. job \in [Jobs -> Job] /\ job[j] \in Job /\ TypeOK /\ Unsettled(j)
  BY DEF DispatchInv, TypeOK, Unsettled
<1>2. job'[j] = Failed(j) /\ \A k \in Jobs \ {j} : job'[k] = job[k]
  BY <1>1 DEF Throw
<1> DEFINE n == job[j].attempts + 1
<1>3. CASE MoreAttempts(n)
  <2>1. n \in 0 .. Attempts - 1 /\ job[j].stalls \in 0 .. MaxStalled
    BY <1>1, <1>3, ScoringAssumption DEF Job, MoreAttempts
  <2>2. job'[j] = Again(j, n, job[j].stalls)
    BY <1>2, <1>3 DEF Failed
  <2> HIDE DEF n
  <2>3. /\ job'[j].state = "again" /\ job'[j].pc = "idle"
        /\ job'[j].attempts = n /\ job'[j].stalls = job[j].stalls
    BY <1>1, <2>1, <2>2, AgainRuns
  <2> QED BY <1>1, <1>2, <2>3, RunningAgainSpends DEF Spends, n
<1>4. CASE ~MoreAttempts(n)
  <2>1. job'[j].state = "failed" /\ job'[j].pc = "idle"
    BY <1>2, <1>4, GivenUpIs DEF Failed
  <2> QED BY <1>1, <1>2, <2>1, SettlingSpends DEF Spends
<1> QED BY <1>3, <1>4

LEMMA ContinueRuns ==
  ASSUME TypeOK, NEW j \in Jobs, NEW L \in SUBSET Pairs, NEW n \in Reading', L # {}
  PROVE  /\ Continue(j, L, n).attempts = job[j].attempts
         /\ Continue(j, L, n).stalls = job[j].stalls
<1>1. job[j] \in Job
  BY DEF TypeOK
<1>2. Continue(j, L, n) =
        [job[j] EXCEPT !.pc = "lookup", !.left = L, !.found = {},
                       !.at = NoPair, !.reading = n]
  BY DEF Continue
<1> QED BY <1>1, <1>2 DEF Job

\* The attempt goes on with fewer pairs than it had steps for, or completes.
LEMMA ContinueSpends ==
  ASSUME DispatchInv, IsFiniteSet(Pairs), NEW j \in Jobs,
         job[j].state = "active", NEW L \in SUBSET Pairs, NEW n \in Reading',
         job' = [job EXCEPT ![j] = Continue(j, L, n)],
         3 * Cardinality(L) + 1 < StepsAhead(j)
  PROVE  Spends(j)
<1>1. job \in [Jobs -> Job] /\ TypeOK /\ Unsettled(j)
  BY DEF DispatchInv, TypeOK, Unsettled
<1>2. job'[j] = Continue(j, L, n) /\ \A k \in Jobs \ {j} : job'[k] = job[k]
  BY <1>1
<1>3. CASE L = {}
  <2>1. job'[j].state = "completed" /\ job'[j].pc = "idle"
    BY <1>1, <1>2, <1>3, ContinueIs
  <2> QED BY <1>1, <1>2, <2>1, SettlingSpends DEF Spends
<1>4. CASE L # {}
  <2>1. /\ job'[j].state = "active" /\ job'[j].pc = "lookup" /\ job'[j].left = L
        /\ job'[j].attempts = job[j].attempts /\ job'[j].stalls = job[j].stalls
    BY <1>1, <1>2, <1>4, ContinueIs, ContinueRuns
  <2>2. StepsAhead(j)' \in Nat /\ StepsAhead(j)' < StepsAhead(j)
    BY <2>1, StepsAheadNext, LeftSize
  <2> QED BY <1>1, <1>2, <1>4, <2>1, <2>2, GoingOnSpends DEF Spends
<1> QED BY <1>3, <1>4

LEMMA WorkSpends ==
  ASSUME DispatchInv, IsFiniteSet(Pairs), NEW j \in Jobs, Work(j)
  PROVE  Spends(j)
<1>1. /\ job \in [Jobs -> Job] /\ job[j] \in Job /\ TypeOK
      /\ job[j].left \in SUBSET Pairs
  BY DEF DispatchInv, TypeOK, Job
<1>2. job[j].pc # "idle" => job[j].state = "active"
  BY DEF DispatchInv, StateOk
<1>3. CASE FindTarget(j)
  <2>1. job[j].pc = "find" /\ job[j].state = "active" /\ Unsettled(j)
    BY <1>2, <1>3 DEF FindTarget, Unsettled
  <2>2. CASE Throw(j)
    BY <2>1, <2>2, ThrowSpends
  <2>3. CASE ~Throw(j)
    <3>1. /\ job'[j] = [job[j] EXCEPT !.pc = "list"]
          /\ \A k \in Jobs \ {j} : job'[k] = job[k]
      BY <1>1, <1>3, <2>3 DEF FindTarget
    <3>2. /\ job'[j].state = "active" /\ job'[j].pc = "list"
          /\ job'[j].attempts = job[j].attempts /\ job'[j].stalls = job[j].stalls
      BY <1>1, <2>1, <3>1 DEF Job
    <3>3. StepsAhead(j)' \in Nat /\ StepsAhead(j)' < StepsAhead(j)
      BY <2>1, <3>2, StepsAheadIs, StepsAheadNext, LapSizeIs
    <3> QED BY <2>1, <3>1, <3>2, <3>3, GoingOnSpends DEF Spends
  <2> QED BY <2>2, <2>3
<1>4. CASE List(j)
  <2> DEFINE L == Listed(j)
             n == Len(readings) + 1
  <2>1. job[j].pc = "list" /\ job[j].state = "active"
    BY <1>2, <1>4 DEF List
  <2>2. L \in SUBSET Pairs
    BY <1>1 DEF Listed, Pairs, Job
  <2>3. n \in Reading' /\ job' = [job EXCEPT ![j] = Continue(j, L, n)]
    BY <1>1, <1>4 DEF List, Reading, TypeOK
  <2> HIDE DEF L, n
  <2>4. 3 * Cardinality(L) + 1 < StepsAhead(j)
    BY <2>1, <2>2, LeftSize, LapSizeIs, StepsAheadIs
  <2> QED BY <2>1, <2>2, <2>3, <2>4, ContinueSpends
<1>5. ASSUME NEW p \in Pairs, Lookup(j, p) PROVE Spends(j)
  <2>1. /\ job[j].pc = "lookup" /\ job[j].state = "active" /\ Unsettled(j)
        /\ job[j].left # {}
    BY <1>2, <1>5 DEF Lookup, Unsettled
  <2> DEFINE E == Existing(p)
  <2>2. /\ job'[j] = [job[j] EXCEPT !.pc = "save", !.at = p, !.found = E]
        /\ \A k \in Jobs \ {j} : job'[k] = job[k]
    BY <1>1, <1>5 DEF Lookup
  <2> HIDE DEF E
  <2>3. /\ job'[j].state = "active" /\ job'[j].pc = "save"
        /\ job'[j].left = job[j].left
        /\ job'[j].attempts = job[j].attempts /\ job'[j].stalls = job[j].stalls
    BY <1>1, <2>1, <2>2 DEF Job
  <2>4. StepsAhead(j)' \in Nat /\ StepsAhead(j)' < StepsAhead(j)
    BY <1>1, <2>1, <2>3, StepsAheadIs, StepsAheadNext, LeftSize
  <2> QED BY <2>1, <2>2, <2>3, <2>4, GoingOnSpends DEF Spends
<1>6. CASE SaveResult(j)
  <2>1. /\ job[j].pc = "save" /\ job[j].state = "active" /\ Unsettled(j)
        /\ job[j].left # {}
    BY <1>2, <1>6 DEF SaveResult, Unsettled, DispatchInv, PairOk
  <2>2. CASE Throw(j)
    BY <2>1, <2>2, ThrowSpends
  <2>3. CASE ~Throw(j)
    <3>1. /\ job'[j] = [job[j] EXCEPT !.pc = "append"]
          /\ \A k \in Jobs \ {j} : job'[k] = job[k]
      BY <1>1, <1>6, <2>3 DEF SaveResult
    <3>2. /\ job'[j].state = "active" /\ job'[j].pc = "append"
          /\ job'[j].left = job[j].left
          /\ job'[j].attempts = job[j].attempts /\ job'[j].stalls = job[j].stalls
      BY <1>1, <2>1, <3>1 DEF Job
    <3>3. StepsAhead(j)' \in Nat /\ StepsAhead(j)' < StepsAhead(j)
      BY <1>1, <2>1, <3>2, StepsAheadIs, StepsAheadNext, LeftSize
    <3> QED BY <2>1, <3>1, <3>2, <3>3, GoingOnSpends DEF Spends
  <2> QED BY <2>2, <2>3
<1>7. CASE AppendLog(j)
  <2>1. /\ job[j].pc = "append" /\ job[j].state = "active"
        /\ job[j].at \in job[j].left
    BY <1>2, <1>7 DEF AppendLog, DispatchInv, PairOk
  <2>2. CASE Throw(j)
    BY <2>1, <2>2, ThrowSpends
  <2>3. CASE ~Throw(j)
    <3> DEFINE L == job[j].left \ {job[j].at}
               n == job[j].reading
    <3>1. L \in SUBSET Pairs
      BY <1>1
    <3>2. job' = [job EXCEPT ![j] = Continue(j, L, n)] /\ readings' = readings
      BY <1>7, <2>3 DEF AppendLog
    <3>3. n \in Reading'
      BY <1>1, <3>2 DEF Job, Reading
    <3>4. Cardinality(L) = Cardinality(job[j].left) - 1
      BY <1>1, <2>1, LeftSize, FS_RemoveElement
    <3>5. 3 * Cardinality(L) + 1 < StepsAhead(j)
      BY <1>1, <2>1, <3>4, LeftSize, StepsAheadIs
    <3> HIDE DEF L, n
    <3> QED BY <2>1, <3>1, <3>2, <3>3, <3>5, ContinueSpends
  <2> QED BY <2>2, <2>3
<1>8. CASE Reject(j)
  BY <1>8, ThrowSpends DEF Reject
<1> QED BY <1>3, <1>4, <1>5, <1>6, <1>7, <1>8 DEF Work

LEMMA CrashSpends ==
  ASSUME DispatchInv, IsFiniteSet(Pairs), Crash, NEW k \in Jobs
  PROVE  /\ StepsLeft(k)' <= StepsLeft(k)
         /\ job'[k] = job[k] \/ job'[k].pc = "idle"
<1>1. TypeOK /\ job[k] \in Job
  BY DEF DispatchInv, TypeOK
<1>2. job'[k] = IF job[k].state # "active" THEN job[k]
                ELSE IF job[k].stalls < MaxStalled
                  THEN Again(k, job[k].attempts, job[k].stalls + 1)
                  ELSE GivenUp
  BY DEF Crash
<1>3. StepsLeft(k) \in Nat
  BY StepsLeftIs
<1>4. CASE job[k].state # "active"
  BY <1>2, <1>3, <1>4, SameSteps
<1>5. CASE job[k].state = "active"
  <2>1. Unsettled(k)
    BY <1>5 DEF Unsettled
  <2>2. CASE job[k].stalls < MaxStalled
    <3> DEFINE s == job[k].stalls + 1
    <3>1. job[k].attempts \in 0 .. Attempts - 1 /\ s \in 0 .. MaxStalled
      BY <1>1, <2>2, ScoringAssumption DEF Job
    <3>2. job'[k] = Again(k, job[k].attempts, s) /\ s = job[k].stalls + 1
      BY <1>2, <1>5, <2>2
    <3> HIDE DEF s
    <3>3. /\ job'[k].state = "again" /\ job'[k].pc = "idle"
          /\ job'[k].attempts = job[k].attempts /\ job'[k].stalls = s
      BY <1>1, <3>1, <3>2, AgainRuns
    <3>4. StepsLeft(k)' < StepsLeft(k) /\ StepsLeft(k)' \in Int
      BY <2>1, <3>2, <3>3, RunningAgainSpends
    <3> QED BY <1>3, <3>3, <3>4
  <2>3. CASE ~(job[k].stalls < MaxStalled)
    <3>1. job'[k].state = "failed" /\ job'[k].pc = "idle"
      BY <1>2, <1>5, <2>3, GivenUpIs
    <3>2. StepsLeft(k)' < StepsLeft(k) /\ StepsLeft(k)' \in Int
      BY <2>1, <3>1, SettlingSpends
    <3> QED BY <1>3, <3>1, <3>2
  <2> QED BY <2>2, <2>3
<1> QED BY <1>4, <1>5

\* A job that is added had no budget; companies, notices and readers leave
\* the jobs alone.
LEMMA OthersSpendNothing ==
  ASSUME DispatchInv, NEW k \in Jobs,
         \/ CompanyStep
         \/ \E n \in Notices : RemoveNotice(n)
         \/ \E j \in Jobs :
              \/ \E n \in Notices : Dispatch(j, n)
              \/ \E c \in Companies, ns \in SUBSET Notices : EnqueueBatch(j, c, ns)
         \/ \E p \in Pairs : ReadResult(p)
         \/ ReadLog
         \/ UNCHANGED vars
  PROVE  \/ job'[k] = job[k]
         \/ job[k].state = "none" /\ job'[k].pc = "idle"
<1>1. job \in [Jobs -> Job]
  BY DEF DispatchInv, TypeOK
<1>2. ASSUME NEW j \in Jobs, NEW c, NEW ns, Add(j, c, ns)
      PROVE  \/ job'[k] = job[k]
             \/ job[k].state = "none" /\ job'[k].pc = "idle"
  <2> DEFINE new == [NoJob EXCEPT !.state = "fresh", !.company = c, !.notices = ns]
  <2>1. new.pc = "idle"
    BY DEF NoJob
  <2>2. job' = [job EXCEPT ![j] = new] /\ job[j].state = "none"
    BY <1>2 DEF Add
  <2> HIDE DEF new
  <2> QED BY <1>1, <2>1, <2>2
<1>3. ASSUME job' = job PROVE job'[k] = job[k]
  BY <1>3
<1> QED BY <1>2, <1>3 DEF CompanyStep, RemoveNotice, Dispatch, EnqueueBatch,
       ReadResult, ReadLog, vars

LEMMA BudgetKept ==
  ASSUME DispatchInv, IsFiniteSet(Pairs), [Next]_vars, NEW k \in Jobs
  PROVE  /\ job[k].state # "none" => StepsLeft(k)' <= StepsLeft(k)
         /\ \/ job'[k] = job[k]
            \/ job'[k].pc = "lookup" => job'[k].left # {}
<1>1. StepsLeft(k) \in Nat
  BY StepsLeftIs
<1>2. ASSUME NEW j \in Jobs, Start(j) \/ Work(j)
      PROVE  /\ StepsLeft(k)' <= StepsLeft(k)
             /\ \/ job'[k] = job[k]
                \/ job'[k].pc = "lookup" => job'[k].left # {}
  <2>1. Spends(j)
    BY <1>2, StartSpends, WorkSpends
  <2>2. CASE k = j
    BY <1>1, <2>1, <2>2 DEF Spends
  <2>3. CASE k # j
    <3>1. job'[k] = job[k]
      BY <2>1, <2>3 DEF Spends
    <3> QED BY <1>1, <3>1, SameSteps
  <2> QED BY <2>2, <2>3
<1>3. CASE Crash
  BY <1>3, CrashSpends
<1>4. ASSUME \/ job'[k] = job[k]
             \/ job[k].state = "none" /\ job'[k].pc = "idle"
      PROVE  /\ job[k].state # "none" => StepsLeft(k)' <= StepsLeft(k)
             /\ \/ job'[k] = job[k]
                \/ job'[k].pc = "lookup" => job'[k].left # {}
  BY <1>1, <1>4, SameSteps
<1> QED BY <1>2, <1>3, <1>4, OthersSpendNothing DEF Next

\* Scoring ends (scoring.worker.ts): a job takes at most three steps for each
\* pair of a company and a notice, and four more, in each of the runs the
\* queue grants it; each step of its own takes one from what is left, and no
\* crash, request or other job gives any back.
THEOREM JobsRunOut ==
  ASSUME IsFiniteSet(Pairs)
  PROVE  Spec => []StepsBounded /\ StepsSpent
<1>1. DispatchInv => StepsBounded
  BY StepsLeftIs DEF StepsBounded
<1> DEFINE A == \A j \in Jobs :
                  /\ Start(j) \/ Work(j) => StepsLeft(j)' < StepsLeft(j)
                  /\ job[j].state # "none" => StepsLeft(j)' <= StepsLeft(j)
<1>2. DispatchInv /\ [Next]_vars => [A]_vars
  <2> SUFFICES ASSUME DispatchInv, [Next]_vars PROVE A
    OBVIOUS
  <2> QED BY StartSpends, WorkSpends, BudgetKept DEF Spends
<1> QED BY <1>1, <1>2, DispatchInvariance, PTL DEF Spec, StepsSpent

\* The scoring queue never stalls: while a job waits or runs, the active one
\* has its next await to make, or the worker is free and a job has its turn.
THEOREM ScoringNeverStalls ==
  ASSUME IsFiniteSet(Pairs)
  PROVE  Spec => []NoJobStuck
<1>1. Init => LeftOk
  BY DEF Init, LeftOk, NoJob
<1>2. DispatchInv /\ LeftOk /\ [Next]_vars => LeftOk'
  <2> SUFFICES ASSUME DispatchInv, LeftOk, [Next]_vars, NEW j \in Jobs,
                      job'[j].pc = "lookup"
               PROVE  job'[j].left # {}
    BY DEF LeftOk, Jobs
  <2> QED BY BudgetKept DEF LeftOk
<1>3. DispatchInv /\ LeftOk => NoJobStuck
  <2> SUFFICES ASSUME DispatchInv, LeftOk, NEW k \in Jobs, Unsettled(k),
                      \A j \in Jobs : job[j].state # "active"
               PROVE  Free /\ \E j \in Jobs : Turn(j)
    BY DEF NoJobStuck, LeftOk, DispatchInv, StateOk
  <2>1. Free
    BY DEF Free
  <2>2. CASE job[k].state = "again"
    BY <2>1, <2>2 DEF Turn
  <2>3. CASE job[k].state # "again"
    <3> DEFINE F == {j \in Jobs : job[j].state = "fresh"}
    <3>1. F \subseteq Nat /\ k \in F
      BY <2>3 DEF Unsettled, Jobs
    <3>2. PICK j \in F : \A l \in F : j <= l
      <4> HIDE DEF F
      <4>1. F # {}
        BY <3>1
      <4>2. IsWellFoundedOn(OpToRel(<, Nat), Nat)
        BY NatLessThanWellFounded
      <4>3. PICK j \in F : \A l \in F : ~(<<l, j>> \in OpToRel(<, Nat))
        BY <3>1, <4>1, <4>2, WFMin
      <4>4. ASSUME NEW l \in F PROVE j <= l
        <5>1. l \in Nat /\ j \in Nat
          BY <3>1
        <5>2. ~(l < j)
          BY <4>3, <5>1 DEF OpToRel
        <5> QED BY <5>1, <5>2
      <4> QED BY <4>3, <4>4
    <3>3. ASSUME NEW l \in 1 .. j - 1 PROVE job[l].state # "fresh"
      <4>1. l \in Jobs /\ ~(j <= l)
        BY ScoringAssumption DEF Jobs
      <4> QED BY <3>2, <4>1
    <3> QED BY <2>1, <3>2, <3>3 DEF Turn
  <2> QED BY <2>2, <2>3
<1> QED BY <1>1, <1>2, <1>3, DispatchInvariance, PTL DEF Spec

=============================================================================
