---------------------------- MODULE SourceMapping ----------------------------
(***************************************************************************)
(* From a record of a SECOP dataset to a row of procurement_notices        *)
(* (secop-i.mapper.ts, secop-ii.mapper.ts, the filter of the streamer,     *)
(* enrichment.utils.ts, toEntityShape of import-processor.ts).             *)
(*                                                                         *)
(* Of a record the model keeps the fields that filters and score read.  A  *)
(* field that may be missing is a set of at most one value.  A name is a   *)
(* word, "" if blank, and whether it is padded with blanks or, in a NIT,   *)
(* punctuation.  Titles and descriptions are sequences, <<>> if blank, and *)
(* dates are instants.                                                     *)
(***************************************************************************)
EXTENDS SectorClassifier

CONSTANT Day   \* instants in a day

The(S) == CHOOSE x \in S : TRUE

\* Numbers come as numbers or as text; a text may be no number.
toNumber(v) == {x.n : x \in {y \in v : y.kind \in {"number", "text"}}}

\* Trimmed, and missing if blank.
safeString(v) ==
  {[word |-> t.word, padded |-> FALSE] : t \in {u \in v : u.word # ""}}

\* Upper case, trimmed; "DESCARTADO" and "TERMINADO ANORMALMENTE" stand for
\* every status that starts so.
NormalizeStatusI(estado) ==
  CASE estado \in {{}, {"BORRADOR"}} -> "PENDING"
    [] estado = {"DESCARTADO"} -> "REJECTED"
    [] estado = {"TERMINADO ANORMALMENTE"} -> "CANCELLED"
    [] OTHER -> "AWARDED"

NormalizeStatusII(estado) ==
  CASE estado \in {{}, {"BORRADOR"}} -> "PENDING"
    [] estado \in {{"PUBLICADO"}, {"ABIERTO"}, {"CONVOCADO"}} -> "ENRICHING"
    [] estado \in {{"APROBADO"}, {"ADJUDICADO"}, {"CELEBRADO"}} -> "AWARDED"
    [] estado \in {{"CANCELADO"}, {"SUSPENDIDO"}, {"DESCARTADO"}} -> "CANCELLED"
    [] OTHER -> "SCORING"   \* in evaluation, or unknown

\* What both mappers make of the fields that both datasets have.
Dto(raw, source, status, deadlineDate) ==
  [source |-> source,
   status |-> status,
   title |-> IF raw.title \in {{}, {<<>>}} THEN raw.id ELSE The(raw.title),
   description |-> raw.description \ {<<>>},
   entityNit |-> safeString(raw.entityNit),
   value |-> toNumber(raw.value),
   publicationDate |-> raw.publicationDate,
   deadlineDate |-> deadlineDate,
   contractingModality |-> safeString(raw.contractingModality),
   contractType |-> safeString(raw.contractType),
   unspscCode |-> raw.unspscCode \ {<<>>},
   department |-> safeString(raw.department)]

\* SECOP I has awarded contracts, which have no deadline.
mapSecopI(raw) ==
  Dto(raw, "SECOP_I", NormalizeStatusI(raw.estado), {})
mapSecopII(raw) ==
  Dto(raw, "SECOP_II", NormalizeStatusII(raw.estado), raw.deadlineDate)

mapRecord(raw) ==
  IF raw.dataset = "SECOP_I" THEN mapSecopI(raw) ELSE mapSecopII(raw)

CancelledStatuses == {"CANCELLED"}
\* SKIPPABLE_STATUSES: such records never leave the streamer.
SkippableStatuses == {"CANCELLED", "REJECTED"}

-----------------------------------------------------------------------------
(* enrichRecord.                                                           *)

\* Letters and digits only, and missing if none is left.
cleanNit(nit) == {t.word : t \in nit} \ {""}

executionDurationDaysSigned(publicationDate, deadlineDate) ==
  {-((p - q) \div Day) : p \in publicationDate, q \in deadlineDate}
\* calculateMetrics: whole days from publication to deadline, rounded up,
\* and none if that is negative.
executionDurationDays(publicationDate, deadlineDate) ==
  {d \in {-((p - q) \div Day) : p \in publicationDate, q \in deadlineDate} :
     d >= 0}

\* A row: the DTO, and what is derived from it.
Row(dto, entityNit, sector, days) ==
  [source |-> dto.source,
   status |-> dto.status,
   title |-> dto.title,
   description |-> dto.description,
   entityNit |-> entityNit,
   value |-> dto.value,
   publicationDate |-> dto.publicationDate,
   deadlineDate |-> dto.deadlineDate,
   contractingModality |-> dto.contractingModality,
   contractType |-> dto.contractType,
   unspscCode |-> dto.unspscCode,
   department |-> dto.department,
   sector |-> sector,
   executionDurationDays |-> days]

toEntityShape(dto, keywords) ==
  Row(dto, cleanNit(dto.entityNit), classify(dto.title, keywords),
      executionDurationDays(dto.publicationDate, dto.deadlineDate))

\* create: nothing is enriched.  The NIT keeps its punctuation, which no
\* reader looks at, so "" is one that has nothing else.
entityOf(dto) ==
  Row(dto, {t.word : t \in {u \in dto.entityNit : u.word # "" \/ u.padded}},
      "none", {})

=============================================================================
