------------------------------ MODULE Matching ------------------------------
(***************************************************************************)
(* One company and one notice, and what an evaluation of the pair would    *)
(* answer as everything it reads changes: the clock, the profile, the      *)
(* contracts of the company, the record at the source and the keywords.    *)
(* An evaluation changes none of it (module ScoringDispatch writes its     *)
(* result), so it is a function of the state.                              *)
(*                                                                         *)
(* External: contracts, keywords and the part of the profile that the API  *)
(* has no fields for are written by other means than this code.            *)
(***************************************************************************)
EXTENDS ScoringEngine, SectorClassifier

CONSTANTS
  Profiles,   \* profiles of the company
  Contracts,  \* its contracts as they are signed, with distinct identifiers
  History,    \* those of them that are settled from the start
  Records,    \* versions of the record at the source
  Uploads,    \* DTOs of the notice that the API may take
  Deadlines,  \* deadlines that a PATCH may set
  Catalogue,  \* rows that sector_keywords may have, with distinct identifiers
  MaxTime     \* bound: instants

Sources == {"SECOP_I", "SECOP_II"}
Statuses ==
  {"PENDING", "ENRICHING", "SCORING", "AWARDED", "REJECTED", "CANCELLED"}
Names == [word : STRING, padded : BOOLEAN]
Codes == Seq(Nat)
Titles == Seq(STRING)

\* Columns of companies.
CompanyRows ==
  [name : Texts, createdAt : Int, sectors : SUBSET Codes,
   regions : SUBSET STRING, contractingCapacity : Int, targetTicket : Int,
   workingCapital : Int, annualRevenue : Int, unspscMatchPolicy : STRING,
   excludedModalities : SUBSET Names, excludedContractTypes : SUBSET Names]

\* "EJECUCION" stands for every status but "LIQUIDADO".
ContractStatuses == {"EJECUCION", "LIQUIDADO"}

\* Columns of company_contracts.  No contract is worth less than nothing.
ContractRows ==
  [id : Int, status : ContractStatuses, startDate : Maybe(Int), endDate : Maybe(Int),
   value : Nat, unspscCode : Codes, clientNit : Names,
   description : Maybe(Texts)]

\* Columns of sector_keywords.
KeywordRows == [id : Int, sector : STRING, keyword : Titles, weight : Int]

\* Fields of a record at the source.
SourceRecords ==
  [dataset : STRING, id : Titles, estado : Maybe(STRING),
   title : Maybe(Titles), description : Maybe(Texts \cup {<<>>}),
   entityNit : Maybe(Names), value : Maybe([kind : STRING, n : Int]),
   publicationDate : Maybe(Int), deadlineDate : Maybe(Int),
   contractingModality : Maybe(Names), contractType : Maybe(Names),
   unspscCode : Maybe(Codes), department : Maybe(Names)]

\* Fields of CreateProcurementNoticeDto.
NoticeDtos ==
  [source : Sources, status : Statuses, title : Titles,
   description : Maybe(Texts), entityNit : Maybe(Names), value : Maybe(Int),
   publicationDate : Maybe(Int), deadlineDate : Maybe(Int),
   contractingModality : Maybe(Names), contractType : Maybe(Names),
   unspscCode : Maybe(Codes), department : Maybe(Names)]

SectorNames == {Sectors[i] : i \in DOMAIN Sectors} \cup {"Otros", "none"}

\* Columns of procurement_notices.
NoticeRows ==
  [source : Sources, status : Statuses, title : Titles,
   description : Maybe(Texts), entityNit : Maybe(STRING), value : Maybe(Int),
   publicationDate : Maybe(Int), deadlineDate : Maybe(Int),
   contractingModality : Maybe(Names), contractType : Maybe(Names),
   unspscCode : Maybe(Codes), department : Maybe(Names),
   sector : SectorNames, executionDurationDays : Maybe(Nat)]

ASSUME MatchingAssumption ==
  /\ Profiles \subseteq CompanyRows /\ Profiles # {}
  /\ Contracts \subseteq ContractRows /\ IsFiniteSet(Contracts)
  /\ \A k \in Contracts : k.status # "LIQUIDADO"
  /\ History \subseteq Contracts
  /\ Records \subseteq SourceRecords
  /\ Uploads \subseteq NoticeDtos
  /\ Deadlines \subseteq Int
  /\ Catalogue \subseteq KeywordRows /\ IsFiniteSet(Catalogue)
  /\ Sectors \in Seq(STRING)
  /\ MaxTime \in Nat

VARIABLES
  now,       \* the clock
  company,   \* the profile
  signed,    \* contracts the company has
  settled,   \* those that are LIQUIDADO
  notice,    \* the row of the notice, if there is one
  keywords   \* the rows of sector_keywords

vars == <<now, company, signed, settled, notice, keywords>>

Mapping == INSTANCE SourceMapping

Init ==
  /\ now = 0
  /\ company \in Profiles
  /\ signed = History
  /\ settled = History
  /\ notice = {}
  /\ keywords = {}

Tick ==
  /\ now < MaxTime
  /\ now' = now + 1
  /\ UNCHANGED <<company, signed, settled, notice, keywords>>

UpdateProfile(p) ==
  /\ company' = p
  /\ UNCHANGED <<now, signed, settled, notice, keywords>>

Sign(k) ==
  /\ k \notin signed
  /\ signed' = signed \cup {k}
  /\ UNCHANGED <<now, company, settled, notice, keywords>>

Settle(k) ==
  /\ k \in signed \ settled
  /\ settled' = settled \cup {k}
  /\ UNCHANGED <<now, company, signed, notice, keywords>>

AddKeyword(k) ==
  /\ k \notin keywords
  /\ keywords' = keywords \cup {k}
  /\ UNCHANGED <<now, company, signed, settled, notice>>

\* A version of the record is streamed and upserted, unless it is filtered.
Import(raw) ==
  LET dto == Mapping!mapRecord(raw)
  IN /\ dto.status \notin Mapping!SkippableStatuses
     /\ notice' = {Mapping!toEntityShape(dto, keywords)}
     /\ UNCHANGED <<now, company, signed, settled, keywords>>

\* POST /procurement-notices saves the DTO as it is; the bulk request brings
\* it to the import processor.
Create(dto) ==
  /\ notice = {}
  /\ notice' = {Mapping!entityOf(dto)}
  /\ UNCHANGED <<now, company, signed, settled, keywords>>

Bulk(dto) ==
  /\ notice' = {Mapping!toEntityShape(dto, keywords)}
  /\ UNCHANGED <<now, company, signed, settled, keywords>>

\* PATCH with a deadline: what was derived from the old one stays.
UpdateDeadline(d) ==
  /\ notice # {}
  /\ notice' = {[n EXCEPT !.deadlineDate = {d}] : n \in notice}
  /\ UNCHANGED <<now, company, signed, settled, keywords>>

\* classifyNotice: the sector by the keywords of today.
Classify ==
  /\ notice # {}
  /\ notice' = {[n EXCEPT !.sector = classify(n.title, keywords)] : n \in notice}
  /\ UNCHANGED <<now, company, signed, settled, keywords>>

Next ==
  \/ Tick
  \/ \E p \in Profiles : UpdateProfile(p)
  \/ \E k \in Contracts : Sign(k) \/ Settle(k)
  \/ \E k \in Catalogue : AddKeyword(k)
  \/ \E raw \in Records : Import(raw)
  \/ \E dto \in Uploads : Create(dto) \/ Bulk(dto)
  \/ \E d \in Deadlines : UpdateDeadline(d)
  \/ Classify

Spec == Init /\ [][Next]_vars

\* The rows of company_contracts.
Rows ==
  {IF k \in settled THEN [k EXCEPT !.status = "LIQUIDADO"] ELSE k : k \in signed}

Passed(n) == Passes(company, n, Rows, now)
Points(n) == ComputeScore(company, n, Rows)

-----------------------------------------------------------------------------
(* Properties.                                                             *)

TypeOK ==
  /\ now \in 0 .. MaxTime
  /\ company \in Profiles
  /\ signed \subseteq Contracts
  /\ settled \subseteq signed
  /\ keywords \subseteq Catalogue
  /\ notice \in Maybe(NoticeRows)

\* The filters and the engine read codes and departments alike: what passes
\* has the points of the level its policy asks for, and those of presence.
FilterAgreesWithScore ==
  \A n \in notice : Passed(n) =>
    /\ company.sectors # {} /\ UnspscCode(n) # {} =>
         UnspscMatch(company, n) >=
           IF company.unspscMatchPolicy = "flexible" THEN 1500 ELSE 2000
    /\ company.regions # {} => GeographicPresence(company, n) = 500

\* Texts that the engine cannot compare: both have words, and one of these
\* is a name that every object has.
Incomparable(a, b) ==
  LET wa == WordsOf(tokenize(a))
      wb == WordsOf(tokenize(b))
  IN wa # {} /\ wb # {} /\ (wa \cup wb) \cap InheritedWords # {}

\* No component exceeds the maximum that its comment states, but for a notice
\* that cannot be compared with the company's name: its technical fit, and
\* its score with it, is no number.
ScoreInBounds ==
  \A n \in notice :
    /\ IF \E d \in n.description : Incomparable(d, company.name)
         THEN Points(n) = NotANumber
         ELSE TechnicalFit(company, n) \in 0 .. 4000 /\ Points(n) \in 0 .. 10000
    /\ EconomicFit(company, n) \in 0 .. 2500
    /\ ExperienceMatch(n, Rows) \in 0 .. 2000
    /\ AffinityGeographical(company, n, Rows) \in 0 .. 1500

\* Contracts in execution never owe more than they are worth together.
ObligationsInBounds ==
  /\ Sce(Rows, now) >= 0
  /\ Sce(Rows, now) <=
       SumFunction([k \in {c \in Rows : InExecution(c, now)} |-> k.value])

\* Cosines are symmetric, 0 for texts without a common word, and 100 only
\* for texts with the same words; they are none, whatever the other words,
\* exactly where a name that every object has is one of them.
SimilarityIsCosine ==
  \A n \in notice : \A a \in n.description :
    \A b \in {a, company.name} \cup UNION {k.description : k \in Rows} :
      LET s == Cosine[a][b]
          wa == WordsOf(tokenize(a))
          wb == WordsOf(tokenize(b))
      IN /\ s = Cosine[b][a]
         /\ s = NotANumber <=> Incomparable(a, b)
         /\ s # NotANumber /\ wa \cap wb = {} => s = 0
         /\ s = 100 => wa = wb
         /\ s # NotANumber /\ a = b /\ wa # {} => s = 100

\* More weight for the sector that wins never lets another one win.
WinnerIsStable ==
  \A n \in notice : \A k \in Catalogue \ keywords :
    (k.weight > 0 /\ k.sector = classify(n.title, keywords)) =>
      classify(n.title, keywords \cup {k}) = k.sector

\* m is n, patched or classified again.
Revised(n, m) ==
  m = [n EXCEPT !.deadlineDate = m.deadlineDate, !.sector = m.sector]

\* What is dead at the source never comes from there: only a request with
\* that status makes a row of the table cancelled or rejected.
DeadOnlyByRequest ==
  [][\A m \in notice' :
       (m.status \in {"CANCELLED", "REJECTED"} /\ ~\E n \in notice : Revised(n, m)) =>
         \E dto \in Uploads : dto.status = m.status /\ (Create(dto) \/ Bulk(dto))]_vars

\* Time alone excludes a notice only by its deadline, or on the company's
\* second anniversary, when its revenue takes the place of its capital.
WaitingOnlyExpires ==
  [][\A n \in notice :
       (now' # now /\ Passed(n) /\ ~Passed(n)') =>
         \/ Reason(company, n, Rows, now)' = "DEADLINE_EXPIRED"
         \/ Fcc(company, now)' < Fcc(company, now)]_vars

\* Settling a contract never costs the company a notice or a point.
SettlingNeverHurts ==
  [][\A n \in notice : settled' # settled =>
       /\ Passed(n) => Passed(n)'
       /\ Points(n)' >= Points(n)]_vars

\* Signing a contract never admits a notice that was excluded.
SigningNeverUnblocks ==
  [][\A n \in notice : signed' # signed =>
       /\ Passed(n)' => Passed(n)
       /\ Points(n)' = Points(n)]_vars

\* m is n with a later deadline.
Postponed(n, m) ==
  /\ m = [n EXCEPT !.deadlineDate = m.deadlineDate,
                   !.executionDurationDays = m.executionDurationDays]
  /\ \E d \in n.deadlineDate, e \in m.deadlineDate : d < e

\* The duration of n, if it has one, is that of its deadline: no PATCH has
\* left it the one of another.
DurationIsCurrent(n) ==
  n.executionDurationDays \in
    {{}, Mapping!executionDurationDays(n.publicationDate, n.deadlineDate)}

\* A longer flow of a negative value is no less of a burden only where there
\* is capital: the DTO bounds no value, and no code writes the capital.
FlowHelps(n) == company.workingCapital >= 0 \/ Value(n) >= 0

\* A notice whose deadline is postponed never loses its place, and no points
\* either if its duration was that of its deadline.
PostponingNeverHurts ==
  [][\A n \in notice, m \in notice' : Postponed(n, m) =>
       /\ Passed(n) => Passes(company, m, Rows, now)
       /\ DurationIsCurrent(n) /\ FlowHelps(n) => Points(m) >= Points(n)]_vars

\* Profile q forbids nothing that p allows.
AsWide(p, q) ==
  /\ q.sectors = {} \/ (p.sectors # {} /\ p.sectors \subseteq q.sectors)
  /\ q.regions = {} \/ (p.regions # {} /\ p.regions \subseteq q.regions)
  /\ q.excludedModalities \subseteq p.excludedModalities
  /\ q.excludedContractTypes \subseteq p.excludedContractTypes
  /\ q.contractingCapacity >= p.contractingCapacity
  /\ Fcc(q, now) >= Fcc(p, now)
  /\ q.unspscMatchPolicy \in {p.unspscMatchPolicy, "flexible"}

\* A profile that only gets wider never loses a notice.
WideningNeverExcludes ==
  [][\A n \in notice :
       (company' # company /\ AsWide(company, company') /\ Passed(n)) =>
         Passed(n)']_vars

=============================================================================
