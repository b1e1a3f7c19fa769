----------------------------- MODULE HardFilters -----------------------------
(***************************************************************************)
(* The filters that exclude a notice for a company                         *)
(* (hard-filters.service.ts, divipola.utils.ts).                           *)
(*                                                                         *)
(* A field that may be null is a set of at most one value.  Names are      *)
(* compared without case, so a name is a word and whether it is padded     *)
(* with blanks.  A UNSPSC code is a sequence of groups of two digits:      *)
(* segment, family, class, product.  Empty names and codes count as none.  *)
(***************************************************************************)
EXTENDS Integers, Sequences, FiniteSets, FiniteSetsExt

CONSTANTS
  DivipolaCodes,  \* DIVIPOLA_CODES: the code of each department's name
  TwoYears        \* two years in instants of the model

The(S) == CHOOSE x \in S : TRUE

\* What a field of values in T that may be null holds.
Maybe(T) == {S \in SUBSET T : \A x, y \in S : x = y}

EmptyName == [word |-> "", padded |-> FALSE]

UnspscCode(notice) == notice.unspscCode \ {<<>>}

\* A code is given as it is, a name is looked up without blanks and accents.
getDepartmentCode(department) ==
  LET codes == {DivipolaCodes[d] : d \in DOMAIN DivipolaCodes}
  IN {d.word : d \in {e \in department : e.word \in codes}}
     \cup {DivipolaCodes[d.word] :
             d \in {e \in department : e.word \in DOMAIN DivipolaCodes}}

DeadlineOpen(notice, now) ==
  notice.source = "SECOP_II" => \A d \in notice.deadlineDate : now <= d

\* Blanks around either side do not count.
NotExcluded(names, excluded) ==
  \A m \in names \ {EmptyName} : \A e \in excluded : m.word # e.word

FinancialCapacity(company, notice) ==
  \A v \in notice.value : v <= company.contractingCapacity

\* No regions are no restriction.
GeographicCoverage(company, notice) ==
  company.regions # {} =>
    getDepartmentCode(notice.department) \cap company.regions # {}

\* substring(0, 2 * k)
Prefix(code, k) == SubSeq(code, 1, Min({k, Len(code)}))

MatchesSector(company, code, k) ==
  \E s \in company.sectors : Prefix(s, k) = Prefix(code, k)

MatchLengthSwapped(policy) == IF policy = "flexible" THEN 3 ELSE 2
\* Four digits of a flexible policy, six of any other.
MatchLength(policy) == IF policy = "flexible" THEN 2 ELSE 3

UnspscHierarchy(company, notice) ==
  company.sectors # {} =>
    \A code \in UnspscCode(notice) :
      MatchesSector(company, code, MatchLength(company.unspscMatchPolicy))

-----------------------------------------------------------------------------
(* Residual capacity of civil works.                                       *)

\* Blanks around the type do count here.
IsObra(notice) ==
  \E t \in notice.contractType : t.word = "obra" /\ ~t.padded

Liquidado(contract) == contract.status = "LIQUIDADO"

InExecution(contract, now) ==
  /\ ~Liquidado(contract)
  /\ \E start \in contract.startDate, end \in contract.endDate :
       start < end /\ now < end

RemainingElapsed(contract, now) ==
  IF now < The(contract.startDate) THEN 0 ELSE now - The(contract.startDate)
RemainingUncapped(contract, now) == The(contract.endDate) - now
\* What is left of a contract in execution, all of it before it starts.
Remaining(contract, now) ==
  IF now < The(contract.startDate)
    THEN The(contract.endDate) - The(contract.startDate)
    ELSE The(contract.endDate) - now

\* The part of its value that a contract in execution has still to deliver.
Balance(contract, now) ==
  (contract.value * Remaining(contract, now))
    \div (The(contract.endDate) - The(contract.startDate))

\* sce: saldo de contratos en ejecucion.
Sce(contracts, now) ==
  SumFunction([k \in {c \in contracts : InExecution(c, now)} |-> Balance(k, now)])

\* fcc: a young company, or one without revenue, counts its working capital.
Fcc(company, now) ==
  IF now - company.createdAt < TwoYears \/ company.annualRevenue = 0
    THEN company.workingCapital
    ELSE company.annualRevenue

ResidualAdded(company, contracts, now) ==
  Fcc(company, now) + Sce(contracts, now)
\* kr
Residual(company, contracts, now) ==
  Fcc(company, now) - Sce(contracts, now)

ResidualCapacity(company, notice, contracts, now) ==
  IsObra(notice) =>
    \A v \in notice.value : v <= Residual(company, contracts, now)

-----------------------------------------------------------------------------
(* evaluate.                                                               *)

\* The validations in the order they are run, each with what a failure says.
Validations(company, notice, contracts, now) ==
  << [reason |-> "DEADLINE_EXPIRED",
      passed |-> DeadlineOpen(notice, now)],
     [reason |-> "MODALITY_EXCLUSION",
      passed |-> NotExcluded(notice.contractingModality,
                             company.excludedModalities)],
     [reason |-> "CONTRACT_TYPE_EXCLUSION",
      passed |-> NotExcluded(notice.contractType,
                             company.excludedContractTypes)],
     [reason |-> "FINANCIAL_CAPACITY",
      passed |-> FinancialCapacity(company, notice)],
     [reason |-> "GEOGRAPHIC_MISMATCH",
      passed |-> GeographicCoverage(company, notice)],
     [reason |-> "UNSPSC_MISMATCH",
      passed |-> UnspscHierarchy(company, notice)],
     [reason |-> "RESIDUAL_CAPACITY",
      passed |-> ResidualCapacity(company, notice, contracts, now)] >>

\* The positions of the validations that fail.
Failures(company, notice, contracts, now) ==
  LET v == Validations(company, notice, contracts, now)
  IN {i \in DOMAIN v : ~v[i].passed}

Passes(company, notice, contracts, now) ==
  Failures(company, notice, contracts, now) = {}

\* The first of them is the answer.
Reason(company, notice, contracts, now) ==
  IF Passes(company, notice, contracts, now) THEN "PASSED"
  ELSE Validations(company, notice, contracts, now)
         [Min(Failures(company, notice, contracts, now))].reason

=============================================================================
