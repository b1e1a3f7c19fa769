---------------------------- MODULE ScoringEngine ----------------------------
(***************************************************************************)
(* The affinity score of a notice for a company                            *)
(* (scoring-engine.service.ts), in hundredths of a point, and the category *)
(* the persistence service derives from it.                                *)
(***************************************************************************)
EXTENDS HardFilters, TextSimilarity

CONSTANTS
  Day,        \* instants in a day
  Decay       \* Decay[d] = 1500 * exp(-3 * (d - 15) / 100), d = 15 .. 50

ASSUME EngineAssumption ==
  /\ Day \in Nat \ {0}
  /\ \A d \in 15 .. 50 : Decay[d] \in Nat /\ Decay[d] <= 1500

-----------------------------------------------------------------------------
(* computeTechnicalFit: at most 40 points.                                 *)

\* The class, the family or the segment of the notice is among the sectors.
UnspscMatch(company, notice) ==
  LET AtLevel(k) == \E code \in UnspscCode(notice) : MatchesSector(company, code, k)
  IN CASE AtLevel(3) -> 2000
       [] AtLevel(2) /\ ~AtLevel(3) -> 1500
       [] AtLevel(1) /\ ~AtLevel(2) /\ ~AtLevel(3) -> 1000
       [] OTHER -> 0

\* The best cosine of the description and one of texts: NaN exceeds nothing.
BestSimilarity(notice, texts) ==
  Max({0} \cup {Cosine[d][t] : d \in notice.description, t \in texts})

\* The cosine with the company's name is taken as it is.
TechnicalFit(company, notice) ==
  IF \E d \in notice.description : Cosine[d][company.name] = NotANumber THEN NotANumber
  ELSE UnspscMatch(company, notice) + 20 * BestSimilarity(notice, {company.name})

-----------------------------------------------------------------------------
(* computeEconomicFit: at most 25 points.                                  *)

Value(notice) == IF notice.value = {} THEN 0 ELSE The(notice.value)

\* |value - ticket| / ticket in percent, rounded up.
Deviation(value, ticket) ==
  LET gap == IF value > ticket THEN value - ticket ELSE ticket - value
  IN (100 * gap + ticket - 1) \div ticket

TicketDeviation(company, notice) ==
  LET v == Value(notice)
      t == company.targetTicket
  IN IF t <= 0 \/ v <= 0 \/ Deviation(v, t) > 50 THEN 0
     ELSE IF Deviation(v, t) <= 15 THEN 1500
     ELSE Decay[Deviation(v, t)]

\* A duration of 0 is read as none.
DurationDays(notice) ==
  IF notice.executionDurationDays \in {{}, {0}} THEN 30
  ELSE The(notice.executionDurationDays)

FlowDaysShort(notice) == DurationDays(notice)
\* 30 * durationMonths: never less than a month.
FlowDays(notice) == Max({30, DurationDays(notice)})

\* Working capital of three months' flow, or of one and a half.
CashFlowCapacity(company, notice) ==
  LET capital == company.workingCapital * FlowDays(notice)
  IN CASE capital >= 90 * Value(notice) -> 1000
       [] capital < 90 * Value(notice) /\ capital >= 45 * Value(notice) -> 500
       [] OTHER -> 0

EconomicFit(company, notice) ==
  TicketDeviation(company, notice) + CashFlowCapacity(company, notice)

-----------------------------------------------------------------------------
(* computeExperienceMatch: at most 20 points.                              *)

ExperienceUnsettled(contracts) == {k \in contracts : ~Liquidado(k)}
\* liquidContracts
Experience(contracts) == {k \in contracts : Liquidado(k)}

DensityUncapped(n) == 200 * n
\* Two points for each contract, ten at most.
Density(n) == Min({1000, 200 * n})

UnspscDensity(notice, contracts) ==
  Density(Cardinality(
    {k \in Experience(contracts) :
       \E code \in UnspscCode(notice) : Prefix(k.unspscCode, 3) = Prefix(code, 3)}))

ExperienceMatch(notice, contracts) ==
  10 * BestSimilarity(notice, UNION {k.description : k \in Experience(contracts)})
    + UnspscDensity(notice, contracts)

-----------------------------------------------------------------------------
(* computeGeographicAffinity: at most 15 points.                           *)

\* The NITs are compared without punctuation; an empty one is none.
ClientAffinity(notice, contracts) ==
  IF \E k \in Experience(contracts) :
       k.clientNit # EmptyName /\ k.clientNit.word \in notice.entityNit
    THEN 1000 ELSE 0

\* Presence by past contracts is not implemented: that filter is always empty.
GeographicPresence(company, notice) ==
  IF getDepartmentCode(notice.department) \cap company.regions # {}
    THEN 500 ELSE 0

AffinityGeographical(company, notice, contracts) ==
  ClientAffinity(notice, contracts) + GeographicPresence(company, notice)

-----------------------------------------------------------------------------
\* A sum with what is no number is none either.
ComputeScore(company, notice, contracts) ==
  IF TechnicalFit(company, notice) = NotANumber THEN NotANumber
  ELSE TechnicalFit(company, notice) + EconomicFit(company, notice)
         + ExperienceMatch(notice, contracts)
         + AffinityGeographical(company, notice, contracts)

\* evaluateAndPersist: an excluded notice scores nothing.
Score(company, notice, contracts, now) ==
  IF Passes(company, notice, contracts, now)
    THEN ComputeScore(company, notice, contracts) ELSE 0

\* NaN reaches no threshold.
Category(company, notice, contracts, now) ==
  LET score == Score(company, notice, contracts, now)
  IN IF ~Passes(company, notice, contracts, now) THEN "EXCLUIDO"
     ELSE IF score >= 7000 THEN "VIABLE"
     ELSE IF score >= 4000 THEN "REVISAR"
     ELSE "BAJA_PRIORIDAD"

=============================================================================
