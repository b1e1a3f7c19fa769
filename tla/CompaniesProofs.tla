--------------------------- MODULE CompaniesProofs ---------------------------
(***************************************************************************)
(* Proofs about Companies, for any number of rows, tax numbers and         *)
(* requests in flight.                                                     *)
(*                                                                         *)
(* The index alone keeps tax numbers apart.  What a request may do to a    *)
(* row that is gone, and why it fails, follows from CallInv: what a        *)
(* request has found by the time it gets to each of its steps.             *)
(***************************************************************************)
EXTENDS Companies, TLAPS

\* What holds of a request at each step.
CallInv ==
  \A q \in Calls :
    /\ call[q].pc = "find" => call[q].op \in {"update", "remove"}
    /\ call[q].pc = "check" => /\ call[q].nit # "keep"
                               /\ call[q].op \in {"create", "update"}
    /\ call[q].pc = "insert" => call[q].op = "create" /\ call[q].nit # "keep"
    /\ call[q].pc \in {"select", "write"} => call[q].op = "update"
    /\ (call[q].op = "update" /\ call[q].pc \in {"check", "select", "write"})
         => call[q].copy.state = "here"
    /\ (call[q].op = "update" /\ call[q].pc = "check")
         => call[q].nit # call[q].copy.nit

CompaniesInv == CompaniesTypeOK /\ UniqueNit /\ CallInv

LEMMA IdleType == Idle \in Call /\ NoRow \in Row
<1>1. AnyNit \in Nits /\ AnyId \in Companies
  BY CompaniesAssumption DEF AnyNit, AnyId
<1> QED BY <1>1 DEF Idle, NoRow, Call, Row, Ops

LEMMA InitInv == CompaniesInit => CompaniesInv
<1> SUFFICES ASSUME CompaniesInit PROVE CompaniesInv OBVIOUS
<1>1. CompaniesTypeOK
  BY IdleType DEF CompaniesInit, CompaniesTypeOK
<1>2. UniqueNit
  BY DEF CompaniesInit, UniqueNit, Here, NoRow
<1>3. CallInv
  BY DEF CompaniesInit, CallInv, Idle
<1> QED BY <1>1, <1>2, <1>3 DEF CompaniesInv

\* One lemma for each step a request takes.
LEMMA AnswerInv ==
  ASSUME CompaniesInv, NEW q \in Calls, Answer(q), row' = row
  PROVE  CompaniesInv'
<1>1. CompaniesTypeOK'
  BY IdleType DEF CompaniesInv, CompaniesTypeOK, Answer
<1>2. UniqueNit'
  BY DEF CompaniesInv, UniqueNit, Here
<1>3. CallInv'
  BY DEF CompaniesInv, CallInv, CompaniesTypeOK, Answer, Idle
<1> QED BY <1>1, <1>2, <1>3 DEF CompaniesInv

LEMMA RequestInv ==
  ASSUME CompaniesInv, NEW q \in Calls, NEW op \in Ops, NEW c \in Companies,
         NEW n \in Nits \cup {"keep"}, Request(q, op, c, n)
  PROVE  CompaniesInv'
<1>1. CompaniesTypeOK'
  BY IdleType DEF CompaniesInv, CompaniesTypeOK, Request, Call, Ops, Idle
<1>2. UniqueNit'
  BY DEF CompaniesInv, UniqueNit, Here, Request
<1>3. CallInv'
  BY DEF CompaniesInv, CallInv, CompaniesTypeOK, Request, Idle, Ops
<1> QED BY <1>1, <1>2, <1>3 DEF CompaniesInv

LEMMA FindInv ==
  ASSUME CompaniesInv, NEW q \in Calls, Find(q)
  PROVE  CompaniesInv'
<1>1. CASE ~Found(q) /\ Answer(q) /\ row' = row
  BY <1>1, AnswerInv
<1>2. CASE Found(q) /\ call[q].op = "remove"
  <2>1. /\ call' = [call EXCEPT ![q].pc = "delete", ![q].copy = row[call[q].id]]
        /\ row' = row
    BY <1>2 DEF Find
  <2>5. row[call[q].id] \in Row
    BY DEF CompaniesInv, CompaniesTypeOK, Call
  <2>2. CompaniesTypeOK'
    BY <2>1, <2>5 DEF CompaniesInv, CompaniesTypeOK, Call
  <2>3. UniqueNit'
    BY <2>1 DEF CompaniesInv, UniqueNit, Here
  <2>4. CallInv'
    BY <2>1, <1>2 DEF CompaniesInv, CallInv, CompaniesTypeOK
  <2> QED BY <2>2, <2>3, <2>4 DEF CompaniesInv
<1>3. CASE Found(q) /\ call[q].op # "remove"
  <2> DEFINE copy == row[call[q].id]
             next == IF Renamed(q, copy) THEN "check" ELSE "select"
  <2>1. /\ call' = [call EXCEPT ![q].pc = next, ![q].copy = copy]
        /\ row' = row
    BY <1>3 DEF Find
  <2>2. /\ copy \in Row /\ copy.state = "here"
        /\ next = "check" => call[q].nit # "keep" /\ call[q].nit # copy.nit
        /\ next \in {"check", "select"}
    BY <1>3 DEF CompaniesInv, CompaniesTypeOK, Call, Found, Here, Renamed
  <2> HIDE DEF copy, next
  <2>3. CompaniesTypeOK'
    BY <2>1, <2>2 DEF CompaniesInv, CompaniesTypeOK, Call
  <2>4. UniqueNit'
    BY <2>1 DEF CompaniesInv, UniqueNit, Here
  <2>5. CallInv'
    <3>1. call[q].op = "update"
      BY <1>3 DEF Find, CompaniesInv, CallInv
    <3> QED BY <2>1, <2>2, <3>1 DEF CompaniesInv, CallInv, CompaniesTypeOK
  <2> QED BY <2>3, <2>4, <2>5 DEF CompaniesInv
<1> QED BY <1>1, <1>2, <1>3 DEF Find

LEMMA CheckInv ==
  ASSUME CompaniesInv, NEW q \in Calls, Check(q)
  PROVE  CompaniesInv'
<1>1. CASE Answer(q)
  BY <1>1, AnswerInv DEF Check
<1>2. CASE ~Answer(q)
  <2> DEFINE next == IF call[q].op = "create" THEN "insert" ELSE "select"
  <2>1. call' = [call EXCEPT ![q].pc = next] /\ row' = row
    BY <1>2 DEF Check, Go
  <2>2. /\ call[q].nit # "keep"
        /\ next = "insert" => call[q].op = "create"
        /\ next = "select" => call[q].op = "update"
        /\ next \in {"insert", "select"}
        /\ call[q].op = "update" => call[q].copy.state = "here"
    BY DEF Check, CompaniesInv, CallInv
  <2> HIDE DEF next
  <2>3. CompaniesTypeOK'
    BY <2>1, <2>2 DEF CompaniesInv, CompaniesTypeOK, Call
  <2>4. UniqueNit'
    BY <2>1 DEF CompaniesInv, UniqueNit, Here
  <2>5. CallInv'
    BY <2>1, <2>2 DEF CompaniesInv, CallInv, CompaniesTypeOK
  <2> QED BY <2>3, <2>4, <2>5 DEF CompaniesInv
<1> QED BY <1>1, <1>2

\* A row takes a NIT only by leave of the index.
LEMMA PutInv ==
  ASSUME CompaniesInv, NEW q \in Calls, NEW c \in Companies, NEW n \in Nits, Put(q, c, n)
  PROVE  CompaniesInv'
<1>1. CASE row' = row
  BY <1>1, AnswerInv DEF Put
<1>2. CASE row' # row
  <2>1. /\ IndexAllows(c, n)
        /\ row' = [row EXCEPT ![c] = [state |-> "here", nit |-> n]]
        /\ Answer(q)
    BY <1>2 DEF Put
  <2>2. CompaniesTypeOK'
    BY <2>1, IdleType DEF CompaniesInv, CompaniesTypeOK, Answer, Row
  <2>3. UniqueNit'
    BY <2>1 DEF CompaniesInv, CompaniesTypeOK, UniqueNit, Here, IndexAllows
  <2>4. CallInv'
    BY <2>1 DEF CompaniesInv, CallInv, CompaniesTypeOK, Answer, Idle
  <2> QED BY <2>2, <2>3, <2>4 DEF CompaniesInv
<1> QED BY <1>1, <1>2

LEMMA SelectInv ==
  ASSUME CompaniesInv, NEW q \in Calls, Select(q)
  PROVE  CompaniesInv'
<1>1. call[q].id \in Companies
  BY DEF CompaniesInv, CompaniesTypeOK, Call
<1>2. CompaniesTypeOK'
  BY <1>1 DEF CompaniesInv, CompaniesTypeOK, Select, Call
<1>3. UniqueNit'
  BY DEF CompaniesInv, UniqueNit, Here, Select
<1>4. CallInv'
  BY DEF CompaniesInv, CallInv, CompaniesTypeOK, Select
<1> QED BY <1>2, <1>3, <1>4 DEF CompaniesInv

LEMMA DeleteInv ==
  ASSUME CompaniesInv, NEW q \in Calls, Delete(q)
  PROVE  CompaniesInv'
<1>1. CompaniesTypeOK'
  BY IdleType DEF CompaniesInv, CompaniesTypeOK, Delete, Answer, Row
<1>2. UniqueNit'
  BY DEF CompaniesInv, CompaniesTypeOK, UniqueNit, Here, Delete
<1>3. CallInv'
  BY DEF CompaniesInv, CallInv, CompaniesTypeOK, Delete, Answer, Idle
<1> QED BY <1>1, <1>2, <1>3 DEF CompaniesInv

\* What an update saves is a tax number.
LEMMA WantedIsNit ==
  ASSUME CompaniesTypeOK, NEW q \in Calls
  PROVE  Wanted(q) \in Nits /\ call[q].id \in Companies
BY DEF CompaniesTypeOK, Call, Row, Wanted

LEMMA NextInv == CompaniesInv /\ [CompaniesNext]_companyVars => CompaniesInv'
<1> SUFFICES ASSUME CompaniesInv, [CompaniesNext]_companyVars PROVE CompaniesInv' OBVIOUS
<1>1. CASE UNCHANGED companyVars
  BY <1>1 DEF companyVars, CompaniesInv, CompaniesTypeOK, UniqueNit, CallInv, Here
<1>2. ASSUME NEW q \in Calls, NEW op \in Ops, NEW c \in Companies,
             NEW n \in Nits \cup {"keep"}, Request(q, op, c, n)
      PROVE  CompaniesInv'
  BY <1>2, RequestInv
<1>3. ASSUME NEW q \in Calls, Find(q) PROVE CompaniesInv'
  BY <1>3, FindInv
<1>4. ASSUME NEW q \in Calls, Check(q) PROVE CompaniesInv'
  BY <1>4, CheckInv
<1>5. ASSUME NEW q \in Calls, Insert(q) PROVE CompaniesInv'
  <2>1. call[q].nit \in Nits
    BY <1>5 DEF Insert, CompaniesInv, CallInv, CompaniesTypeOK, Call
  <2> QED BY <1>5, <2>1, PutInv DEF Insert
<1>6. ASSUME NEW q \in Calls, Select(q) PROVE CompaniesInv'
  BY <1>6, SelectInv
<1>7. ASSUME NEW q \in Calls, Update(q) \/ Reinsert(q) PROVE CompaniesInv'
  BY <1>7, WantedIsNit, PutInv, AnswerInv DEF Update, Reinsert, CompaniesInv
<1>8. ASSUME NEW q \in Calls, Delete(q) PROVE CompaniesInv'
  BY <1>8, DeleteInv
<1>9. ASSUME NEW q \in Calls, Drop(q) PROVE CompaniesInv'
  BY <1>9, AnswerInv DEF Drop
<1> QED
  BY <1>1, <1>2, <1>3, <1>4, <1>5, <1>6, <1>7, <1>8, <1>9 DEF CompaniesNext

LEMMA Invariance == CompaniesSpec => []CompaniesInv
BY InitInv, NextInv, PTL DEF CompaniesSpec

-----------------------------------------------------------------------------

\* Types of rows and requests (company.entity.ts, companies.service.ts).
THEOREM CompanyTypes == CompaniesSpec => []CompaniesTypeOK
<1>1. CompaniesInv => CompaniesTypeOK
  BY DEF CompaniesInv
<1> QED BY <1>1, Invariance, PTL

\* No two companies share a NIT, however many requests race
\* (UQ_companies_nit in company.entity.ts).
THEOREM NitsAreUnique == CompaniesSpec => []UniqueNit
<1>1. CompaniesInv => UniqueNit
  BY DEF CompaniesInv
<1> QED BY <1>1, Invariance, PTL

LEMMA RevivalIsUpdate ==
  ASSUME CompaniesInv, CompaniesNext, NEW c \in Companies,
         row[c].state = "gone", row'[c].state = "here"
  PROVE  \E q \in Calls :
           /\ call[q].op = "update" /\ call[q].id = c
           /\ call[q].copy.state = "here"
<1>1. PICK q \in Calls :
        \/ \E op \in Ops, d \in Companies, n \in Nits \cup {"keep"} :
             Request(q, op, d, n)
        \/ Find(q) \/ Check(q) \/ Insert(q) \/ Select(q)
        \/ Update(q) \/ Reinsert(q) \/ Delete(q) \/ Drop(q)
  BY DEF CompaniesNext
<1>2. row' # row
  OBVIOUS
<1>3. Insert(q) \/ Update(q) \/ Reinsert(q) \/ Delete(q)
  BY <1>1, <1>2 DEF Request, Find, Check, Select, Drop
<1>4. ~Insert(q)
  BY DEF Insert, Put, CompaniesInv, CompaniesTypeOK
<1>5. ~Delete(q)
  BY DEF Delete, NoRow, CompaniesInv, CompaniesTypeOK
<1>6. call[q].id = c
  BY <1>3, <1>4, <1>5 DEF Update, Reinsert, Put, CompaniesInv, CompaniesTypeOK
<1>7. call[q].op = "update" /\ call[q].copy.state = "here"
  BY <1>3, <1>4, <1>5 DEF Update, Reinsert, CompaniesInv, CallInv
<1> QED BY <1>6, <1>7

\* Only an update that had found the row brings a removed company back
\* (companies.service.ts, update).
THEOREM OnlyUpdatesRevive == CompaniesSpec => ReturnsOnlyByUpdate
<1> DEFINE A == \A c \in Companies :
                  (row[c].state = "gone" /\ row'[c].state = "here") =>
                    \E q \in Calls :
                      /\ call[q].op = "update" /\ call[q].id = c
                      /\ call[q].copy.state = "here"
<1>1. CompaniesInv /\ [CompaniesNext]_companyVars => [A]_companyVars
  BY RevivalIsUpdate
<1> QED BY <1>1, Invariance, PTL DEF CompaniesSpec, ReturnsOnlyByUpdate

LEMMA ConflictInv == CompaniesInv => ConflictOnlyWithAnother
<1> SUFFICES ASSUME CompaniesInv, NEW q \in Calls, Conflicts(q)
             PROVE  \/ \E d \in Companies :
                         /\ Here(d) /\ row[d].nit = Wanted(q)
                         /\ d # call[q].id \/ call[q].op = "create"
                    \/ /\ call[q].op = "update"
                       /\ row[call[q].id] # call[q].copy
  BY DEF ConflictOnlyWithAnother
<1>1. CASE call[q].pc = "check" /\ Held(call[q].nit)
  BY <1>1 DEF CompaniesInv, CallInv, Held, Wanted
<1>2. CASE call[q].pc = "insert" /\ Held(call[q].nit)
  BY <1>2 DEF CompaniesInv, CallInv, Held, Wanted
<1>3. CASE call[q].pc = "write" /\ ~IndexAllows(call[q].id, Wanted(q))
  BY <1>3 DEF IndexAllows
<1> QED BY <1>1, <1>2, <1>3 DEF Conflicts

\* A request fails over its NIT because of another company, or because its
\* own row changed since it was found (companies.service.ts, update).
THEOREM ConflictsAreWithAnother == CompaniesSpec => []ConflictOnlyWithAnother
BY ConflictInv, Invariance, PTL

=============================================================================
