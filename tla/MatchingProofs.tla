---------------------------- MODULE MatchingProofs ----------------------------
(***************************************************************************)
(* Proofs about Matching, for any profiles, contracts, records, requests,  *)
(* keywords and clock: every property that its run checks.                 *)
(*                                                                         *)
(* The types are inductive, and no other invariant is needed: what an      *)
(* evaluation answers is a function of the state, so an invariant is a     *)
(* fact about the operators for values of their types, and an action       *)
(* property says in which of its arguments each operator is monotone.      *)
(***************************************************************************)
EXTENDS Matching, SumFacts, TLAPS

-----------------------------------------------------------------------------
(* The types of all that is read.                                          *)

\* A field that may be null and has the value x.
LEMMA MaybeOf ==
  ASSUME NEW T, NEW M \in Maybe(T), NEW x \in M
  PROVE  M = {x} /\ The(M) = x /\ x \in T
BY DEF Maybe, The

\* A sector is one of the sectors or the one for the others.
LEMMA ClassifyType ==
  ASSUME NEW title, NEW ks
  PROVE  /\ classify(title, ks) \in SectorNames
         /\ Mapping!classify(title, ks) \in SectorNames
<1>1. ASSUME NEW W \in SUBSET DOMAIN Sectors
      PROVE  (IF W = {} THEN "Otros" ELSE Sectors[Min(W)]) \in SectorNames
  <2>1. CASE W = {}
    BY <2>1 DEF SectorNames
  <2>2. CASE W # {}
    <3>1. DOMAIN Sectors \subseteq Nat
      BY MatchingAssumption
    <3>2. Min(W) \in W
      BY <2>2, <3>1, HasMin
    <3> QED BY <2>2, <3>2 DEF SectorNames
  <2> QED BY <2>1, <2>2
<1>2. classify(title, ks) \in SectorNames
  BY <1>1 DEF classify
<1>3. Mapping!classify(title, ks) \in SectorNames
  <2>1. \A W : Mapping!Min(W) = Min(W)
    BY DEF Mapping!Min, Min
  <2> QED BY <1>1, <2>1 DEF Mapping!classify
<1> QED BY <1>2, <1>3

\* A duration is at most one natural number.
LEMMA DurationType ==
  ASSUME NEW P \in Maybe(Int), NEW Q \in Maybe(Int)
  PROVE  Mapping!executionDurationDays(P, Q) \in Maybe(Nat)
<1>1. ASSUME NEW p \in Int, NEW q \in Int PROVE -((p - q) \div Day) \in Int
  BY EngineAssumption
<1> DEFINE D == {-((p - q) \div Day) : p \in P, q \in Q}
<1>2. D \subseteq Int /\ \A x, y \in D : x = y
  <2>1. P \subseteq Int /\ Q \subseteq Int /\ (\A x, y \in P : x = y)
        /\ (\A x, y \in Q : x = y)
    BY DEF Maybe
  <2>2. \A d \in D : \E p \in P, q \in Q : d = -((p - q) \div Day)
    OBVIOUS
  <2>3. ASSUME NEW d \in D PROVE d \in Int
    <3>1. PICK p \in P, q \in Q : d = -((p - q) \div Day)
      BY <2>2
    <3>2. p \in Int /\ q \in Int
      BY <2>1
    <3> QED BY <1>1, <3>1, <3>2
  <2>4. ASSUME NEW x \in D, NEW y \in D PROVE x = y
    <3>1. PICK p \in P, q \in Q : x = -((p - q) \div Day)
      BY <2>2
    <3>2. PICK r \in P, s \in Q : y = -((r - s) \div Day)
      BY <2>2
    <3>3. p = r /\ q = s
      BY <2>1
    <3> QED BY <3>1, <3>2, <3>3
  <2> QED BY <2>3, <2>4
<1>3. Mapping!executionDurationDays(P, Q) = {d \in D : d >= 0}
  BY DEF Mapping!executionDurationDays
<1> HIDE DEF D
<1>4. {d \in D : d >= 0} \subseteq Nat
  <2> SUFFICES ASSUME NEW d \in D, d >= 0 PROVE d \in Nat
    OBVIOUS
  <2>1. d \in Int
    BY <1>2
  <2> QED BY <2>1
<1>5. \A x, y \in {d \in D : d >= 0} : x = y
  BY <1>2
<1> QED BY <1>3, <1>4, <1>5 DEF Maybe

\* What the helpers of the mappers make of a field that may be null.
LEMMA SafeStringType ==
  ASSUME NEW V \in Maybe(Names)
  PROVE  Mapping!safeString(V) \in Maybe(Names)
<1> DEFINE T == {[word |-> t.word, padded |-> FALSE] : t \in {u \in V : u.word # ""}}
<1>1. V \subseteq Names /\ \A x, y \in V : x = y
  BY DEF Maybe
<1>2. \A x \in T : \E t \in V : x = [word |-> t.word, padded |-> FALSE]
  OBVIOUS
<1>3. T \subseteq Names
  <2>1. \A t \in V : [word |-> t.word, padded |-> FALSE] \in Names
    BY <1>1 DEF Names
  <2> QED BY <1>2, <2>1
<1>4. \A x, y \in T : x = y
  BY <1>1, <1>2
<1>5. Mapping!safeString(V) = T
  BY DEF Mapping!safeString
<1> HIDE DEF T
<1> QED BY <1>3, <1>4, <1>5 DEF Maybe

LEMMA ToNumberType ==
  ASSUME NEW V \in Maybe([kind : STRING, n : Int])
  PROVE  Mapping!toNumber(V) \in Maybe(Int)
BY DEF Maybe, Mapping!toNumber

LEMMA CleanNitType ==
  ASSUME NEW V \in Maybe(Names)
  PROVE  Mapping!cleanNit(V) \in Maybe(STRING)
<1>1. V \subseteq Names /\ \A x, y \in V : x = y
  BY DEF Maybe
<1>2. \A w \in Mapping!cleanNit(V) : \E t \in V : w = t.word
  BY DEF Mapping!cleanNit
<1>3. Mapping!cleanNit(V) \subseteq STRING
  BY <1>1, <1>2 DEF Names
<1>4. \A x, y \in Mapping!cleanNit(V) : x = y
  BY <1>1, <1>2
<1> QED BY <1>3, <1>4 DEF Maybe

\* Both mappings give what a DTO may be.
LEMMA MappedType ==
  ASSUME NEW raw \in SourceRecords
  PROVE  Mapping!mapRecord(raw) \in NoticeDtos
<1>1. ASSUME NEW source \in Sources, NEW status \in Statuses,
             NEW deadline \in Maybe(Int)
      PROVE  Mapping!Dto(raw, source, status, deadline) \in NoticeDtos
  <2>1. (IF raw.title \in {{}, {<<>>}} THEN raw.id ELSE Mapping!The(raw.title)) \in Titles
    BY DEF SourceRecords, Maybe, Mapping!The
  <2>2. /\ raw.description \ {<<>>} \in Maybe(Texts)
        /\ raw.unspscCode \ {<<>>} \in Maybe(Codes)
        /\ raw.publicationDate \in Maybe(Int)
    BY DEF SourceRecords, Maybe
  <2>3. /\ Mapping!safeString(raw.entityNit) \in Maybe(Names)
        /\ Mapping!safeString(raw.contractingModality) \in Maybe(Names)
        /\ Mapping!safeString(raw.contractType) \in Maybe(Names)
        /\ Mapping!safeString(raw.department) \in Maybe(Names)
        /\ Mapping!toNumber(raw.value) \in Maybe(Int)
    BY SafeStringType, ToNumberType DEF SourceRecords
  <2> QED BY <2>1, <2>2, <2>3 DEF Mapping!Dto, NoticeDtos
<1>2. {} \in Maybe(Int) /\ raw.deadlineDate \in Maybe(Int)
  BY DEF Maybe, SourceRecords
<1>3. /\ Mapping!NormalizeStatusI(raw.estado) \in Statuses
      /\ Mapping!NormalizeStatusII(raw.estado) \in Statuses
  BY DEF Mapping!NormalizeStatusI, Mapping!NormalizeStatusII, Statuses
<1>4. Mapping!mapSecopI(raw) \in NoticeDtos /\ Mapping!mapSecopII(raw) \in NoticeDtos
  <2>1. "SECOP_I" \in Sources /\ "SECOP_II" \in Sources
    BY DEF Sources
  <2>2. Mapping!Dto(raw, "SECOP_I", Mapping!NormalizeStatusI(raw.estado), {})
          \in NoticeDtos
    BY <1>1, <1>2, <1>3, <2>1
  <2>3. Mapping!Dto(raw, "SECOP_II", Mapping!NormalizeStatusII(raw.estado),
                    raw.deadlineDate) \in NoticeDtos
    BY <1>1, <1>2, <1>3, <2>1
  <2> QED BY <2>2, <2>3 DEF Mapping!mapSecopI, Mapping!mapSecopII
<1> QED BY <1>4 DEF Mapping!mapRecord

\* Both ways to a row give one.
LEMMA ShapeType ==
  ASSUME NEW dto \in NoticeDtos, NEW ks
  PROVE  /\ Mapping!toEntityShape(dto, ks) \in NoticeRows
         /\ Mapping!entityOf(dto) \in NoticeRows
<1>1. ASSUME NEW nit \in Maybe(STRING), NEW sector \in SectorNames,
             NEW days \in Maybe(Nat)
      PROVE  Mapping!Row(dto, nit, sector, days) \in NoticeRows
  BY <1>1 DEF Mapping!Row, NoticeRows, NoticeDtos
<1>2. dto.entityNit \in Maybe(Names) /\ dto.publicationDate \in Maybe(Int)
      /\ dto.deadlineDate \in Maybe(Int)
  BY DEF NoticeDtos
<1>3. Mapping!cleanNit(dto.entityNit) \in Maybe(STRING)
  BY <1>2, CleanNitType
<1>4. Mapping!classify(dto.title, ks) \in SectorNames
  BY ClassifyType
<1>5. Mapping!executionDurationDays(dto.publicationDate, dto.deadlineDate)
        \in Maybe(Nat)
  BY <1>2, DurationType
<1>6. {t.word : t \in {u \in dto.entityNit : u.word # "" \/ u.padded}}
        \in Maybe(STRING)
  BY <1>2 DEF Maybe, Names
<1>7. "none" \in SectorNames /\ {} \in Maybe(Nat)
  BY DEF SectorNames, Maybe
<1>8. Mapping!toEntityShape(dto, ks) \in NoticeRows
  BY <1>1, <1>3, <1>4, <1>5 DEF Mapping!toEntityShape
<1>9. Mapping!entityOf(dto) \in NoticeRows
  BY <1>1, <1>6, <1>7 DEF Mapping!entityOf
<1> QED BY <1>8, <1>9

LEMMA OneRow == \A n \in NoticeRows : {n} \in Maybe(NoticeRows)
BY DEF Maybe

\* The types are inductive.
LEMMA TypeStep == TypeOK /\ [Next]_vars => TypeOK'
<1> SUFFICES ASSUME TypeOK, [Next]_vars PROVE TypeOK' OBVIOUS
<1> USE DEF TypeOK
<1>1. CASE UNCHANGED vars
  BY <1>1 DEF vars
<1>2. CASE Tick
  BY <1>2, MatchingAssumption DEF Tick
<1>3. ASSUME NEW p \in Profiles, UpdateProfile(p) PROVE TypeOK'
  BY <1>3 DEF UpdateProfile
<1>4. ASSUME NEW k \in Contracts, Sign(k) \/ Settle(k) PROVE TypeOK'
  BY <1>4 DEF Sign, Settle
<1>5. ASSUME NEW k \in Catalogue, AddKeyword(k) PROVE TypeOK'
  BY <1>5 DEF AddKeyword
<1>6. ASSUME NEW raw \in Records, Import(raw) PROVE TypeOK'
  <2>1. Mapping!toEntityShape(Mapping!mapRecord(raw), keywords) \in NoticeRows
    BY MatchingAssumption, MappedType, ShapeType
  <2>2. notice' = {Mapping!toEntityShape(Mapping!mapRecord(raw), keywords)}
    BY <1>6 DEF Import
  <2>3. notice' \in Maybe(NoticeRows)
    BY <2>1, <2>2, OneRow
  <2> QED BY <1>6, <2>3 DEF Import
<1>7. ASSUME NEW dto \in Uploads, Create(dto) \/ Bulk(dto) PROVE TypeOK'
  <2>1. /\ Mapping!toEntityShape(dto, keywords) \in NoticeRows
        /\ Mapping!entityOf(dto) \in NoticeRows
    BY MatchingAssumption, ShapeType
  <2>2. notice' \in Maybe(NoticeRows)
    BY <1>7, <2>1, OneRow DEF Create, Bulk
  <2> QED BY <1>7, <2>2 DEF Create, Bulk
<1>8. ASSUME NEW d \in Deadlines, UpdateDeadline(d) PROVE TypeOK'
  <2>1. {d} \in Maybe(Int)
    BY MatchingAssumption DEF Maybe
  <2>2. \A n \in NoticeRows : [n EXCEPT !.deadlineDate = {d}] \in NoticeRows
    BY <2>1 DEF NoticeRows
  <2>3. notice' = {[n EXCEPT !.deadlineDate = {d}] : n \in notice}
    BY <1>8 DEF UpdateDeadline
  <2>4. notice' \in Maybe(NoticeRows)
    BY <2>2, <2>3 DEF Maybe
  <2> QED BY <1>8, <2>4 DEF UpdateDeadline
<1>9. CASE Classify
  <2>1. \A n \in NoticeRows :
          [n EXCEPT !.sector = classify(n.title, keywords)] \in NoticeRows
    BY ClassifyType DEF NoticeRows
  <2>2. notice' = {[n EXCEPT !.sector = classify(n.title, keywords)] : n \in notice}
    BY <1>9 DEF Classify
  <2>3. notice' \in Maybe(NoticeRows)
    BY <2>1, <2>2 DEF Maybe
  <2> QED BY <1>9, <2>3 DEF Classify
<1> QED BY <1>1, <1>2, <1>3, <1>4, <1>5, <1>6, <1>7, <1>8, <1>9 DEF Next

\* Whatever is streamed, uploaded, patched or classified, the row of a notice
\* and all that it is evaluated against keep their types, and a field that may
\* be null holds at most one value (procurement-notice.entity.ts, the mappers,
\* toEntityShape).
THEOREM TypeCorrect == Spec => []TypeOK
<1>1. Init => TypeOK
  BY MatchingAssumption DEF Init, TypeOK, Maybe
<1> QED BY <1>1, TypeStep, PTL DEF Spec

-----------------------------------------------------------------------------
(* What is dead at the source.                                             *)

LEMMA RowStatus ==
  ASSUME NEW dto, NEW nit, NEW sector, NEW days
  PROVE  /\ "status" \in DOMAIN Mapping!Row(dto, nit, sector, days)
         /\ Mapping!Row(dto, nit, sector, days).status = dto.status
BY DEF Mapping!Row

\* Neither mapping changes a status.
LEMMA ShapeStatus ==
  ASSUME NEW dto
  PROVE  /\ "status" \in DOMAIN Mapping!toEntityShape(dto, keywords)
         /\ Mapping!toEntityShape(dto, keywords).status = dto.status
         /\ "status" \in DOMAIN Mapping!entityOf(dto)
         /\ Mapping!entityOf(dto).status = dto.status
<1>1. \E nit, sector, days :
        Mapping!toEntityShape(dto, keywords) = Mapping!Row(dto, nit, sector, days)
  BY DEF Mapping!toEntityShape
<1>2. \E nit, sector, days :
        Mapping!entityOf(dto) = Mapping!Row(dto, nit, sector, days)
  BY DEF Mapping!entityOf
<1> QED BY <1>1, <1>2, RowStatus

\* A row whose status is kept and one that a patch or a classification leaves.
LEMMA RevisedIs ==
  ASSUME NEW n \in NoticeRows
  PROVE  /\ Revised(n, n)
         /\ \A d : Revised(n, [n EXCEPT !.deadlineDate = d])
         /\ \A s : Revised(n, [n EXCEPT !.sector = s])
BY DEF Revised, NoticeRows

\* A step that leaves a row dead leaves one that it revised, or is a request
\* for it (soda-streamer.service.ts, SKIPPABLE_STATUSES).
LEMMA DeadStep ==
  ASSUME TypeOK, [Next]_vars, NEW m \in notice',
         m.status \in {"CANCELLED", "REJECTED"}, ~\E n \in notice : Revised(n, m)
  PROVE  \E dto \in Uploads : dto.status = m.status /\ (Create(dto) \/ Bulk(dto))
<1>1. notice \subseteq NoticeRows
  BY DEF TypeOK, Maybe
<1>2. CASE notice' = notice
  BY <1>1, <1>2, RevisedIs
<1>3. ASSUME NEW raw \in Records, Import(raw) PROVE FALSE
  <2>1. PICK dto : /\ dto.status \notin {"CANCELLED", "REJECTED"}
                   /\ notice' = {Mapping!toEntityShape(dto, keywords)}
    BY <1>3 DEF Import, Mapping!SkippableStatuses
  <2> QED BY <2>1, ShapeStatus
<1>4. ASSUME NEW dto \in Uploads, Create(dto) \/ Bulk(dto)
      PROVE  dto.status = m.status
  BY <1>4, ShapeStatus DEF Create, Bulk
<1>5. ASSUME NEW d \in Deadlines, UpdateDeadline(d) PROVE FALSE
  <2>1. PICK n \in notice : m = [n EXCEPT !.deadlineDate = {d}]
    BY <1>5 DEF UpdateDeadline
  <2> QED BY <1>1, <2>1, RevisedIs
<1>6. CASE Classify
  <2>1. PICK n \in notice :
          m = [n EXCEPT !.sector = classify(n.title, keywords)]
    BY <1>6 DEF Classify
  <2> QED BY <1>1, <2>1, RevisedIs
<1> QED
  BY <1>2, <1>3, <1>4, <1>5, <1>6
  DEF Next, vars, Tick, UpdateProfile, Sign, Settle, AddKeyword

\* A notice that is dead at the source is never taken from there: the row of
\* the table becomes cancelled or rejected only in the step of a request for
\* that status (soda-streamer.service.ts, SKIPPABLE_STATUSES).
THEOREM DeadIsNeverImported == Spec => DeadOnlyByRequest
<1> DEFINE A ==
      \A m \in notice' :
        (m.status \in {"CANCELLED", "REJECTED"}
           /\ ~\E n \in notice : Revised(n, m)) =>
          \E dto \in Uploads : dto.status = m.status /\ (Create(dto) \/ Bulk(dto))
<1>1. TypeOK /\ [Next]_vars => [A]_vars
  BY DeadStep
<1> QED BY <1>1, TypeCorrect, PTL DEF Spec, DeadOnlyByRequest

-----------------------------------------------------------------------------
(* Words and cosines.                                                      *)

\* A sequence of tokens, gaps allowed.
IsTokens(a) == IsFiniteSet(DOMAIN a) /\ a = [i \in DOMAIN a |-> a[i]]

\* What is left of a text is a sequence of tokens.
LEMMA TokenizeType ==
  ASSUME NEW t \in Texts
  PROVE  IsTokens(tokenize(t))
<1>1. t \in Seq(STRING)
  BY TextsAssumption
<1>2. IsFiniteSet(DOMAIN t)
  <2>1. DOMAIN t = 1 .. Len(t) /\ Len(t) \in Nat
    BY <1>1
  <2> QED BY <2>1, FS_Interval
<1>3. DOMAIN tokenize(t) \in SUBSET DOMAIN t
  BY DEF tokenize
<1>4. IsFiniteSet(DOMAIN tokenize(t))
  BY <1>2, <1>3, FS_Subset
<1>5. tokenize(t) = [i \in DOMAIN tokenize(t) |-> tokenize(t)[i]]
  BY DEF tokenize
<1> QED BY <1>4, <1>5 DEF IsTokens

\* A sequence of tokens has finitely many words.
LEMMA WordsFinite ==
  ASSUME NEW a, IsTokens(a)
  PROVE  /\ IsFiniteSet(WordsOf(a))
         /\ WordsOf(a) = {} <=> DOMAIN a = {}
<1>1. a \in Surjection(DOMAIN a, WordsOf(a))
  BY DEF IsTokens, WordsOf, Surjection
<1>2. IsFiniteSet(WordsOf(a))
  BY <1>1, FS_Surjection DEF IsTokens
<1>3. WordsOf(a) = {} <=> DOMAIN a = {}
  BY DEF WordsOf
<1> QED BY <1>2, <1>3

\* No word of two texts is the name of something that every object has.
Countable(a, b) == (WordsOf(a) \cup WordsOf(b)) \cap InheritedWords = {}

\* A word of a text occurs in it.
LEMMA FrequencyType ==
  ASSUME NEW a, IsTokens(a), NEW w, w \notin InheritedWords
  PROVE  /\ calculateTermFrequency(a, w) \in Nat
         /\ calculateTermFrequency(a, w) = 0 <=> w \notin WordsOf(a)
<1> DEFINE I == {i \in DOMAIN a : a[i] = w}
<1>1. IsFiniteSet(I) /\ Cardinality(I) \in Nat
  BY FS_Subset, FS_CardinalityType DEF IsTokens
<1>2. Cardinality(I) = 0 <=> I = {}
  BY <1>1, FS_EmptySet
<1>3. I = {} <=> w \notin WordsOf(a)
  BY DEF WordsOf
<1> QED BY <1>1, <1>2, <1>3 DEF calculateTermFrequency

\* Texts without such a word are those that have all their counts.
LEMMA CountlessIs ==
  ASSUME NEW a, IsTokens(a), NEW b
  PROVE  Countless(a, b) <=> ~Countable(a, b)
<1>1. ASSUME NEW w \in InheritedWords PROVE calculateTermFrequency(a, w) = NotANumber
  BY DEF calculateTermFrequency
<1>2. ASSUME NEW w, w \notin InheritedWords
      PROVE  calculateTermFrequency(a, w) # NotANumber
  <2>1. calculateTermFrequency(a, w) \in Nat
    BY <1>2, FrequencyType
  <2> QED BY <2>1 DEF NotANumber
<1> QED BY <1>1, <1>2 DEF Countless, Countable

Dots(a, b) ==
  [w \in WordsOf(a) \cup WordsOf(b) |->
     IdfSquared(a, b, w) * calculateTermFrequency(a, w)
       * calculateTermFrequency(b, w)]
Lengths(a, b) ==
  [w \in WordsOf(a) \cup WordsOf(b) |->
     IdfSquared(a, b, w) * calculateTermFrequency(a, w)
       * calculateTermFrequency(a, w)]

\* What the dot product and the lengths are sums of.
LEMMA SumsAre ==
  ASSUME NEW a, NEW b
  PROVE  /\ DotProduct(a, b) =
              SumFunctionOnSet(Dots(a, b), WordsOf(a) \cup WordsOf(b))
         /\ LengthOf(a, b) =
              SumFunctionOnSet(Lengths(a, b), WordsOf(a) \cup WordsOf(b))
BY DEF DotProduct, LengthOf, SumFunction, Dots, Lengths

\* The arithmetic of one summand.
LEMMA SummandFacts ==
  ASSUME NEW i \in {10, 20}, NEW x \in Nat, NEW y \in Nat
  PROVE  /\ i * x * y \in Nat /\ i * x * x \in Nat
         /\ i * x * y = i * y * x
         /\ (i * x * y) * (i * x * y) <= (i * x * x) * (i * y * y)
         /\ x = 0 => i * x * y = 0 /\ i * x * x = 0
         /\ y = 0 => i * x * y = 0
         /\ x # 0 => i * x * x > 0
<1>1. x * y \in Nat /\ x * x \in Nat /\ x * y = y * x
  OBVIOUS
<1>2. x # 0 => x * x > 0
  OBVIOUS
<1>3. (i * x * y) * (i * x * y) = (i * x * x) * (i * y * y)
  OBVIOUS
<1>4. /\ i * x * y = i * (x * y) /\ i * x * x = i * (x * x)
      /\ i * y * x = i * (y * x)
  OBVIOUS
<1>5. i * (x * y) \in Nat /\ i * (x * x) \in Nat
  BY <1>1
<1>6. x # 0 => i * (x * x) > 0
  BY <1>1, <1>2
<1>7. (i * x * y) * (i * x * y) \in Nat
  BY <1>4, <1>5
<1> QED BY <1>1, <1>3, <1>4, <1>5, <1>6, <1>7

\* The summands of one word.
LEMMA Summands ==
  ASSUME NEW a, IsTokens(a), NEW b, IsTokens(b), Countable(a, b),
         NEW w \in WordsOf(a) \cup WordsOf(b)
  PROVE  /\ Dots(a, b)[w] \in Nat /\ Dots(a, b)[w] = Dots(b, a)[w]
         /\ Lengths(a, b)[w] \in Nat /\ Lengths(b, a)[w] \in Nat
         /\ Dots(a, b)[w] * Dots(a, b)[w] <= Lengths(a, b)[w] * Lengths(b, a)[w]
         /\ w \notin WordsOf(a) => Lengths(a, b)[w] = 0
         /\ w \notin WordsOf(a) \cap WordsOf(b) => Dots(a, b)[w] = 0
         /\ w \in WordsOf(a) => Lengths(a, b)[w] > 0
<1> DEFINE i == IdfSquared(a, b, w)
           x == calculateTermFrequency(a, w)
           y == calculateTermFrequency(b, w)
<1>1. i \in {10, 20} /\ IdfSquared(b, a, w) = i
  BY DEF IdfSquared
<1>2. /\ x \in Nat /\ y \in Nat
      /\ x = 0 <=> w \notin WordsOf(a)
      /\ y = 0 <=> w \notin WordsOf(b)
  <2>1. w \notin InheritedWords
    BY DEF Countable
  <2> QED BY <2>1, FrequencyType
<1>3. /\ Dots(a, b)[w] = i * x * y /\ Dots(b, a)[w] = i * y * x
      /\ Lengths(a, b)[w] = i * x * x /\ Lengths(b, a)[w] = i * y * y
  BY <1>1 DEF Dots, Lengths
<1> HIDE DEF i, x, y
<1>4. /\ i * x * y \in Nat /\ i * x * x \in Nat /\ i * y * y \in Nat
      /\ i * x * y = i * y * x
      /\ (i * x * y) * (i * x * y) <= (i * x * x) * (i * y * y)
      /\ x = 0 => i * x * y = 0 /\ i * x * x = 0
      /\ y = 0 => i * x * y = 0
      /\ x # 0 => i * x * x > 0
  BY <1>1, <1>2, SummandFacts
<1> QED BY <1>2, <1>3, <1>4

\* The numbers a cosine is made of.
LEMMA VectorFacts ==
  ASSUME NEW a, IsTokens(a), NEW b, IsTokens(b), DOMAIN a # {}, DOMAIN b # {},
         Countable(a, b)
  PROVE  /\ DotProduct(a, b) \in Nat /\ DotProduct(a, b) = DotProduct(b, a)
         /\ LengthOf(a, b) \in Nat /\ LengthOf(a, b) > 0
         /\ LengthOf(b, a) \in Nat /\ LengthOf(b, a) > 0
         /\ WordsOf(a) \cap WordsOf(b) = {} => DotProduct(a, b) = 0
         /\ WordsOf(a) \ WordsOf(b) # {} =>
              DotProduct(a, b) * DotProduct(a, b) < LengthOf(a, b) * LengthOf(b, a)
         /\ a = b => DotProduct(a, b) = LengthOf(a, b)
<1> DEFINE W == WordsOf(a) \cup WordsOf(b)
           Sum(f) == SumFunctionOnSet(f, W)
<1>1. IsFiniteSet(W)
  BY WordsFinite, FS_Union
<1>2. /\ DotProduct(a, b) = Sum(Dots(a, b)) /\ DotProduct(b, a) = Sum(Dots(b, a))
      /\ LengthOf(a, b) = Sum(Lengths(a, b)) /\ LengthOf(b, a) = Sum(Lengths(b, a))
  <2>1. WordsOf(b) \cup WordsOf(a) = W
    OBVIOUS
  <2> QED BY <2>1, SumsAre
<1>3. \A w \in W :
         /\ Dots(a, b)[w] \in Nat /\ Dots(a, b)[w] = Dots(b, a)[w]
         /\ Lengths(a, b)[w] \in Nat /\ Lengths(b, a)[w] \in Nat
         /\ Dots(a, b)[w] * Dots(a, b)[w] <= Lengths(a, b)[w] * Lengths(b, a)[w]
         /\ w \notin WordsOf(a) => Lengths(a, b)[w] = 0
         /\ w \notin WordsOf(b) => Lengths(b, a)[w] = 0
         /\ w \notin WordsOf(a) \cap WordsOf(b) => Dots(a, b)[w] = 0
         /\ w \in WordsOf(a) => Lengths(a, b)[w] > 0
         /\ w \in WordsOf(b) => Lengths(b, a)[w] > 0
  <2>1. Countable(b, a)
    BY DEF Countable
  <2> QED BY <2>1, Summands
<1> HIDE DEF W
<1>4. Sum(Dots(a, b)) \in Nat
  BY <1>1, <1>3, SumNat
<1>5. Sum(Dots(a, b)) = Sum(Dots(b, a))
  BY <1>1, <1>3, SumSame
<1>6. /\ Sum(Lengths(a, b)) \in Nat /\ Sum(Lengths(a, b)) > 0
      /\ Sum(Lengths(b, a)) \in Nat /\ Sum(Lengths(b, a)) > 0
  <2>1. ASSUME NEW f, \A w \in W : f[w] \in Nat, NEW v \in W, f[v] > 0
        PROVE  Sum(f) \in Nat /\ Sum(f) > 0
    <3>1. Sum(f) = f[v] + SumFunctionOnSet(f, W \ {v})
      BY <1>1, <2>1, SumTakesOut
    <3>2. SumFunctionOnSet(f, W \ {v}) \in Nat
      BY <1>1, <2>1, FS_RemoveElement, SumNat
    <3>3. f[v] \in Nat /\ f[v] > 0
      BY <2>1
    <3> QED BY <3>1, <3>2, <3>3
  <2>2. PICK v \in WordsOf(a) : TRUE
    BY WordsFinite
  <2>3. PICK u \in WordsOf(b) : TRUE
    BY WordsFinite
  <2>4. u \in W /\ v \in W
    BY <2>2, <2>3 DEF W
  <2>5. Lengths(a, b)[v] > 0 /\ Lengths(b, a)[u] > 0
    BY <1>3, <2>2, <2>3, <2>4
  <2> HIDE DEF Sum
  <2>6. Sum(Lengths(a, b)) \in Nat /\ Sum(Lengths(a, b)) > 0
    BY <1>3, <2>1, <2>4, <2>5
  <2>7. Sum(Lengths(b, a)) \in Nat /\ Sum(Lengths(b, a)) > 0
    BY <1>3, <2>1, <2>4, <2>5
  <2> QED BY <2>6, <2>7
<1>7. WordsOf(a) \cap WordsOf(b) = {} => Sum(Dots(a, b)) = 0
  BY <1>1, <1>3, SumOfZeros
<1>8. ASSUME NEW v \in WordsOf(a), v \notin WordsOf(b)
      PROVE  Sum(Dots(a, b)) * Sum(Dots(a, b))
               < Sum(Lengths(a, b)) * Sum(Lengths(b, a))
  <2> DEFINE R == W \ {v}
             P == SumFunctionOnSet(Dots(a, b), R)
             A == SumFunctionOnSet(Lengths(a, b), R)
             B == SumFunctionOnSet(Lengths(b, a), R)
             d == Lengths(a, b)[v]
  <2>1. v \in W
    BY DEF W
  <2>2. /\ Sum(Dots(a, b)) = Dots(a, b)[v] + P
        /\ Sum(Lengths(a, b)) = d + A
        /\ Sum(Lengths(b, a)) = Lengths(b, a)[v] + B
    <3>1. ASSUME NEW f, \A w \in W : f[w] \in Int
          PROVE  Sum(f) = f[v] + SumFunctionOnSet(f, R)
      BY <1>1, <2>1, <3>1, SumTakesOut
    <3>2. \A w \in W : /\ Dots(a, b)[w] \in Int
                       /\ Lengths(a, b)[w] \in Int /\ Lengths(b, a)[w] \in Int
      BY <1>3
    <3> HIDE DEF Sum, R
    <3> QED BY <3>1, <3>2
  <2>3. Dots(a, b)[v] = 0 /\ Lengths(b, a)[v] = 0 /\ d \in Nat /\ d > 0
    BY <1>3, <1>8, <2>1
  <2>4. IsFiniteSet(R)
    BY <1>1, FS_RemoveElement
  <2>5. P \in Nat /\ A \in Nat /\ B \in Nat
    BY <1>3, <2>4, SumNat
  <2>6. P * P <= A * B
    BY <1>3, <2>4, CauchySchwarz
  <2>7. /\ Sum(Dots(a, b)) = P /\ Sum(Lengths(a, b)) = d + A
        /\ Sum(Lengths(b, a)) = B
    <3> HIDE DEF P, A, B, d, Sum
    <3> QED BY <2>2, <2>3, <2>5
  <2>8. B > 0
    BY <1>6, <2>7
  <2> HIDE DEF P, A, B, d, Sum
  <2>9. (d + A) * B = d * B + A * B
    BY <2>3, <2>5
  <2>10. d * B \in Nat /\ d * B > 0 /\ A * B \in Nat /\ P * P \in Nat
    BY <2>3, <2>5, <2>8
  <2>11. P * P < (d + A) * B
    BY <2>6, <2>9, <2>10
  <2> QED BY <2>7, <2>11
<1>9. a = b => Dots(a, b) = Lengths(a, b)
  BY DEF Dots, Lengths
<1> HIDE DEF Sum
<1>10. WordsOf(a) \ WordsOf(b) # {} =>
         Sum(Dots(a, b)) * Sum(Dots(a, b))
           < Sum(Lengths(a, b)) * Sum(Lengths(b, a))
  BY <1>8
<1> QED BY <1>2, <1>4, <1>5, <1>6, <1>7, <1>9, <1>10

\* What the proofs use of a cosine s of the vectors of a and b.
LEMMA VectorCosine ==
  ASSUME NEW a, IsTokens(a), NEW b, IsTokens(b), DOMAIN a # {}, DOMAIN b # {},
         Countable(a, b)
  PROVE  LET s == calculateCosineSimilarityFromVectors(a, b)
         IN /\ s \in 0 .. 100
            /\ s = calculateCosineSimilarityFromVectors(b, a)
            /\ WordsOf(a) \cap WordsOf(b) = {} => s = 0
            /\ s = 100 => WordsOf(a) = WordsOf(b)
            /\ a = b => s = 100
<1> DEFINE D == DotProduct(a, b)
           A == LengthOf(a, b)
           B == LengthOf(b, a)
           T == {s \in 0 .. 100 : s * s * (A * B) <= (100 * D) * (100 * D)}
           s == calculateCosineSimilarityFromVectors(a, b)
<1>1. /\ D \in Nat /\ D = DotProduct(b, a)
      /\ A \in Nat /\ A > 0 /\ B \in Nat /\ B > 0
      /\ WordsOf(a) \cap WordsOf(b) = {} => D = 0
      /\ WordsOf(a) # WordsOf(b) => D * D < A * B
      /\ a = b => D = A /\ D = B
  <2>1. WordsOf(b) \ WordsOf(a) # {} => D * D < A * B
    <3>1. WordsOf(b) \ WordsOf(a) # {} =>
            DotProduct(b, a) * DotProduct(b, a) < LengthOf(b, a) * LengthOf(a, b)
      <4>1. Countable(b, a)
        BY DEF Countable
      <4> QED BY <4>1, VectorFacts
    <3>2. D = DotProduct(b, a) /\ A \in Nat /\ B \in Nat
      BY VectorFacts
    <3>3. A * B = B * A
      BY <3>2
    <3> QED BY <3>1, <3>2, <3>3
  <2>2. WordsOf(a) # WordsOf(b) =>
          WordsOf(a) \ WordsOf(b) # {} \/ WordsOf(b) \ WordsOf(a) # {}
    OBVIOUS
  <2> QED BY <2>1, <2>2, VectorFacts
<1>2. s = Max(T)
  BY DEF calculateCosineSimilarityFromVectors
<1>3. calculateCosineSimilarityFromVectors(b, a) = s
  <2>1. B * A = A * B
    BY <1>1
  <2> QED BY <1>1, <2>1 DEF calculateCosineSimilarityFromVectors
<1> HIDE DEF D, A, B, s
<1>4. 0 \in T
  <2>1. 0 * 0 * (A * B) = 0 /\ (100 * D) * (100 * D) >= 0
    BY <1>1
  <2> QED BY <2>1
<1>5. s \in T /\ \A x \in T : x <= s
  <2>1. T \in SUBSET (0 .. 100) /\ T # {}
    BY <1>4
  <2> HIDE DEF T
  <2> QED BY <1>2, <2>1, HasMax
<1>6. ASSUME WordsOf(a) \cap WordsOf(b) = {} PROVE s = 0
  <2>1. D = 0 /\ s \in Nat /\ s * s * (A * B) <= (100 * D) * (100 * D)
    BY <1>1, <1>5, <1>6
  <2>2. s * s * (A * B) <= 0
    BY <2>1
  <2>3. A * B \in Nat /\ A * B > 0
    BY <1>1
  <2> DEFINE L == A * B
  <2> HIDE DEF L
  <2>4. ASSUME s # 0 PROVE s * s * L > 0
    <3>1. s * s \in Nat /\ s * s > 0 /\ L \in Nat /\ L > 0
      BY <2>1, <2>3, <2>4 DEF L
    <3> QED BY <3>1
  <2>5. s * s * L <= 0
    BY <2>2 DEF L
  <2>6. s * s * L \in Int
    BY <2>1, <2>3 DEF L
  <2> QED BY <2>1, <2>4, <2>5, <2>6
<1>7. ASSUME s = 100, WordsOf(a) # WordsOf(b) PROVE FALSE
  <2>1. 100 * 100 * (A * B) <= (100 * D) * (100 * D)
    BY <1>5, <1>7
  <2>2. (100 * D) * (100 * D) = 10000 * (D * D)
    BY <1>1
  <2>3. A * B \in Nat /\ D * D \in Nat
    BY <1>1
  <2> QED BY <1>1, <1>7, <2>1, <2>2, <2>3
<1>8. ASSUME a = b PROVE s = 100
  <2>1. A * B = D * D
    BY <1>1, <1>8
  <2>2. 100 * 100 * (D * D) = (100 * D) * (100 * D)
    BY <1>1
  <2>3. 100 \in T
    <3>1. (100 * D) * (100 * D) \in Int
      BY <1>1
    <3> QED BY <2>1, <2>2, <3>1
  <2>4. 100 <= s /\ s \in 0 .. 100
    BY <1>5, <2>3
  <2> QED BY <2>4
<1>9. s \in 0 .. 100
  BY <1>5
<1> QED BY <1>3, <1>6, <1>7, <1>8, <1>9 DEF s

\* What the proofs use of the cosine of two texts.
LEMMA CosineFacts ==
  ASSUME NEW x \in Texts, NEW y \in Texts
  PROVE  LET wx == WordsOf(tokenize(x))
             wy == WordsOf(tokenize(y))
         IN /\ Cosine[x][y] = NotANumber <=> Incomparable(x, y)
            /\ Cosine[x][y] # NotANumber => Cosine[x][y] \in 0 .. 100
            /\ Cosine[x][y] = Cosine[y][x]
            /\ Cosine[x][y] # NotANumber /\ wx \cap wy = {} => Cosine[x][y] = 0
            /\ Cosine[x][y] = 100 => wx = wy
            /\ Cosine[x][y] # NotANumber /\ x = y /\ wx # {} => Cosine[x][y] = 100
<1> DEFINE a == tokenize(x)
           b == tokenize(y)
<1>1. Cosine[x][y] = cosineSimilarity(x, y) /\ Cosine[y][x] = cosineSimilarity(y, x)
  BY DEF Cosine
<1>2. /\ cosineSimilarity(x, y) = IF DOMAIN a = {} \/ DOMAIN b = {} THEN 0
           ELSE IF Countless(a, b) THEN NotANumber
           ELSE calculateCosineSimilarityFromVectors(a, b)
      /\ cosineSimilarity(y, x) = IF DOMAIN b = {} \/ DOMAIN a = {} THEN 0
           ELSE IF Countless(b, a) THEN NotANumber
           ELSE calculateCosineSimilarityFromVectors(b, a)
  BY DEF cosineSimilarity
<1>3. IsTokens(a) /\ IsTokens(b)
  BY TokenizeType
<1>4. x = y => a = b
  OBVIOUS
<1>5. /\ WordsOf(a) = {} <=> DOMAIN a = {}
      /\ WordsOf(b) = {} <=> DOMAIN b = {}
  BY <1>3, WordsFinite
<1>8. /\ Countless(a, b) <=> ~Countable(a, b)
      /\ Countless(b, a) <=> ~Countable(a, b)
  BY <1>3, CountlessIs DEF Countable
<1>9. Incomparable(x, y) <=> DOMAIN a # {} /\ DOMAIN b # {} /\ ~Countable(a, b)
  BY <1>5 DEF Incomparable, Countable
<1>10. NotANumber = -1
  BY DEF NotANumber
<1> HIDE DEF a, b
<1>6. CASE DOMAIN a = {} \/ DOMAIN b = {}
  <2>1. Cosine[x][y] = 0 /\ Cosine[y][x] = 0
    BY <1>1, <1>2, <1>6
  <2>2. WordsOf(a) = {} \/ WordsOf(b) = {}
    BY <1>5, <1>6
  <2>3. x = y => WordsOf(a) = {}
    BY <1>4, <2>2
  <2> QED BY <1>6, <1>9, <1>10, <2>1, <2>3 DEF a, b
<1>11. CASE DOMAIN a # {} /\ DOMAIN b # {} /\ ~Countable(a, b)
  <2>1. Cosine[x][y] = NotANumber /\ Cosine[y][x] = NotANumber
    BY <1>1, <1>2, <1>8, <1>11
  <2> QED BY <1>9, <1>10, <1>11, <2>1
<1>7. CASE DOMAIN a # {} /\ DOMAIN b # {} /\ Countable(a, b)
  <2> DEFINE s == calculateCosineSimilarityFromVectors(a, b)
  <2>1. Cosine[x][y] = s /\ Cosine[y][x] = calculateCosineSimilarityFromVectors(b, a)
    BY <1>1, <1>2, <1>7, <1>8
  <2>2. /\ s \in 0 .. 100
        /\ s = calculateCosineSimilarityFromVectors(b, a)
        /\ WordsOf(a) \cap WordsOf(b) = {} => s = 0
        /\ s = 100 => WordsOf(a) = WordsOf(b)
        /\ a = b => s = 100
    BY <1>3, <1>7, VectorCosine
  <2> HIDE DEF s
  <2> QED BY <1>4, <1>7, <1>9, <1>10, <2>1, <2>2 DEF a, b
<1> QED BY <1>6, <1>7, <1>11

-----------------------------------------------------------------------------
(* The contracts.                                                          *)

\* The contracts of ks in execution.
Running(ks, t) == {k \in ks : InExecution(k, t)}

\* The rows of company_contracts, for S signed and T settled.
RowsOf(S, T) ==
  {IF k \in T THEN [k EXCEPT !.status = "LIQUIDADO"] ELSE k : k \in S}

\* Those of T as they are settled, and those of S in execution that are not.
SettledRows(T) == {[k EXCEPT !.status = "LIQUIDADO"] : k \in T}
OpenRows(S, T, t) == {k \in S \ T : InExecution(k, t)}

LEMMA RowsAre ==
  ASSUME NEW S \in SUBSET Contracts, NEW T \in SUBSET S
  PROVE  /\ IsFiniteSet(RowsOf(S, T)) /\ RowsOf(S, T) \subseteq ContractRows
         /\ Experience(RowsOf(S, T)) = SettledRows(T)
         /\ \A t : Running(RowsOf(S, T), t) = OpenRows(S, T, t)
<1> DEFINE row(k) == IF k \in T THEN [k EXCEPT !.status = "LIQUIDADO"] ELSE k
           f == [k \in S |-> row(k)]
<1>1. /\ IsFiniteSet(S) /\ S \subseteq ContractRows
      /\ \A k \in S : k.status # "LIQUIDADO"
  BY MatchingAssumption, FS_Subset
<1>2. \A k \in ContractRows : /\ [k EXCEPT !.status = "LIQUIDADO"] \in ContractRows
                              /\ [k EXCEPT !.status = "LIQUIDADO"].status = "LIQUIDADO"
  BY DEF ContractRows, ContractStatuses
<1>3. IsFiniteSet(RowsOf(S, T))
  <2>1. f \in Surjection(S, RowsOf(S, T))
    BY DEF Surjection, RowsOf
  <2> HIDE DEF f
  <2> QED BY <1>1, <2>1, FS_Surjection
<1>4. RowsOf(S, T) \subseteq ContractRows
  BY <1>1, <1>2 DEF RowsOf
<1>5. Experience(RowsOf(S, T)) = SettledRows(T)
  <2>1. ASSUME NEW e \in Experience(RowsOf(S, T))
        PROVE  \E k \in T : e = [k EXCEPT !.status = "LIQUIDADO"]
    <3>1. PICK k \in S : e = row(k)
      BY DEF Experience, RowsOf
    <3>2. e.status = "LIQUIDADO"
      BY DEF Experience, Liquidado
    <3>3. k \in T
      BY <1>1, <3>1, <3>2
    <3> QED BY <3>1, <3>3
  <2>2. ASSUME NEW k \in T
        PROVE  [k EXCEPT !.status = "LIQUIDADO"] \in Experience(RowsOf(S, T))
    <3> DEFINE e == [k EXCEPT !.status = "LIQUIDADO"]
    <3>1. e \in RowsOf(S, T)
      BY DEF RowsOf
    <3>2. e.status = "LIQUIDADO"
      BY <1>1, <1>2
    <3> HIDE DEF e
    <3>3. e \in Experience(RowsOf(S, T))
      BY <3>1, <3>2 DEF Experience, Liquidado
    <3> QED BY <3>3 DEF e
  <2> QED BY <2>1, <2>2 DEF SettledRows
<1>6. ASSUME NEW t PROVE Running(RowsOf(S, T), t) = OpenRows(S, T, t)
  <2>1. ASSUME NEW k \in RowsOf(S, T), InExecution(k, t) PROVE k \in S \ T
    BY <1>1, <1>2, <2>1 DEF RowsOf, InExecution, Liquidado
  <2>2. ASSUME NEW k \in S \ T PROVE k \in RowsOf(S, T)
    BY DEF RowsOf
  <2> QED BY <2>1, <2>2 DEF Running, OpenRows
<1> QED BY <1>3, <1>4, <1>5, <1>6

\* The rows as they are.
LEMMA RowsType ==
  ASSUME TypeOK
  PROVE  IsFiniteSet(Rows) /\ Rows \subseteq ContractRows
<1>1. signed \in SUBSET Contracts /\ settled \in SUBSET signed
  BY DEF TypeOK
<1>2. Rows = RowsOf(signed, settled)
  BY DEF Rows, RowsOf
<1> QED BY <1>1, <1>2, RowsAre

\* The texts that are compared.
LEMMA RowTexts ==
  ASSUME TypeOK
  PROVE  /\ \A n \in notice : n \in NoticeRows /\ n.description \subseteq Texts
         /\ company \in CompanyRows /\ company.name \in Texts
         /\ UNION {k.description : k \in Rows} \subseteq Texts
<1>1. \A n \in NoticeRows : n.description \subseteq Texts
  BY DEF NoticeRows, Maybe
<1>2. \A k \in ContractRows : k.description \subseteq Texts
  BY DEF ContractRows, Maybe
<1>3. notice \subseteq NoticeRows
  BY DEF TypeOK, Maybe
<1>4. company \in CompanyRows /\ company.name \in Texts
  BY MatchingAssumption DEF TypeOK, CompanyRows
<1>5. UNION {k.description : k \in Rows} \subseteq Texts
  BY <1>2, RowsType
<1> QED BY <1>1, <1>3, <1>4, <1>5

\* A cosine in hundredths, rounded down, is what a cosine is: symmetric, 0
\* for texts without a common word, 100 only for texts of the same words
\* (text-similarity.utils.ts).  That is the inequality of Cauchy and Schwarz.
\* There is none exactly where one of the words names a property that every
\* object has.
THEOREM CosinesAreCosines == Spec => []SimilarityIsCosine
<1>1. ASSUME TypeOK PROVE SimilarityIsCosine
  <2> SUFFICES ASSUME NEW n \in notice, NEW a \in n.description,
                      NEW b \in {a, company.name} \cup UNION {k.description : k \in Rows}
               PROVE  LET s == Cosine[a][b]
                          wa == WordsOf(tokenize(a))
                          wb == WordsOf(tokenize(b))
                      IN /\ s = Cosine[b][a]
                         /\ s = NotANumber <=> Incomparable(a, b)
                         /\ s # NotANumber /\ wa \cap wb = {} => s = 0
                         /\ s = 100 => wa = wb
                         /\ s # NotANumber /\ a = b /\ wa # {} => s = 100
    BY DEF SimilarityIsCosine
  <2>1. a \in Texts /\ b \in Texts
    BY <1>1, RowTexts
  <2> QED BY <2>1, CosineFacts
<1> QED BY <1>1, TypeCorrect, PTL

-----------------------------------------------------------------------------
(* Points.                                                                 *)

\* The best cosine is one, and more texts make it no worse.
LEMMA BestType ==
  ASSUME NEW n, n.description \subseteq Texts, NEW S \in SUBSET Texts
  PROVE  /\ BestSimilarity(n, S) \in 0 .. 100
         /\ \A T \in SUBSET S : BestSimilarity(n, T) <= BestSimilarity(n, S)
<1> DEFINE C(T) == {0} \cup {Cosine[d][t] : d \in n.description, t \in T}
<1>1. ASSUME NEW T \in SUBSET Texts
      PROVE  /\ BestSimilarity(n, T) \in C(T) /\ C(T) \subseteq -1 .. 100
             /\ \A x \in C(T) : x <= BestSimilarity(n, T)
             /\ 0 \in C(T)
  <2>1. \A d \in n.description, t \in T : Cosine[d][t] \in -1 .. 100
    <3>1. ASSUME NEW d \in Texts, NEW t \in Texts PROVE Cosine[d][t] \in -1 .. 100
      <4>1. Cosine[d][t] = NotANumber \/ Cosine[d][t] \in 0 .. 100
        BY CosineFacts
      <4>2. NotANumber = -1
        BY DEF NotANumber
      <4> QED BY <4>1, <4>2
    <3> QED BY <3>1
  <2>2. C(T) \in SUBSET (-1 .. 100) /\ 0 \in C(T)
    BY <2>1
  <2>3. BestSimilarity(n, T) = Max(C(T))
    BY DEF BestSimilarity
  <2> HIDE DEF C
  <2>4. C(T) \in SUBSET Int /\ (\A x \in C(T) : x <= 100) /\ C(T) # {}
    BY <2>2
  <2>5. Max(C(T)) \in C(T) /\ \A x \in C(T) : x <= Max(C(T))
    <3>1. ASSUME NEW m \in Int, \A x \in C(T) : x <= m
          PROVE  Max(C(T)) \in C(T) /\ \A x \in C(T) : x <= Max(C(T))
      BY <2>4, <3>1, HasGreatest
    <3> QED BY <2>4, <3>1
  <2> QED BY <2>2, <2>3, <2>5
<1>2. BestSimilarity(n, S) \in 0 .. 100
  <2> HIDE DEF C
  <2>1. /\ BestSimilarity(n, S) \in -1 .. 100
        /\ 0 <= BestSimilarity(n, S)
    BY <1>1
  <2> QED BY <2>1
<1>3. ASSUME NEW T \in SUBSET S
      PROVE  BestSimilarity(n, T) <= BestSimilarity(n, S)
  <2>1. C(T) \subseteq C(S)
    OBVIOUS
  <2>2. T \in SUBSET Texts
    OBVIOUS
  <2> HIDE DEF C
  <2> QED BY <1>1, <2>1, <2>2
<1> QED BY <1>2, <1>3

\* Two points for each contract, ten at most.
LEMMA DensityIs ==
  ASSUME NEW i \in Nat
  PROVE  /\ Density(i) = IF 200 * i < 1000 THEN 200 * i ELSE 1000
         /\ Density(i) \in 0 .. 1000
BY DEF Density, Min

LEMMA DensityGrows ==
  ASSUME NEW i \in Nat, NEW j \in Nat, i <= j
  PROVE  Density(i) <= Density(j)
BY DensityIs

\* The deviation of a value from a ticket is a percentage.
LEMMA DeviationType ==
  ASSUME NEW v \in Int, NEW t \in Int, v > 0, t > 0
  PROVE  Deviation(v, t) \in Nat
<1> DEFINE gap == IF v > t THEN v - t ELSE t - v
<1>1. 100 * gap + t - 1 \in Nat
  OBVIOUS
<1> HIDE DEF gap
<1>2. (100 * gap + t - 1) \div t \in Nat
  BY <1>1
<1> QED BY <1>2 DEF Deviation, gap

LEMMA ValueType ==
  ASSUME NEW n \in NoticeRows
  PROVE  Value(n) \in Int
BY DEF NoticeRows, Maybe, Value, The

\* The two parts of the economic fit.
LEMMA EconomicBounds ==
  ASSUME NEW c \in CompanyRows, NEW n \in NoticeRows
  PROVE  /\ TicketDeviation(c, n) \in 0 .. 1500
         /\ CashFlowCapacity(c, n) \in {0, 500, 1000}
<1>1. Value(n) \in Int /\ c.targetTicket \in Int
  BY ValueType DEF CompanyRows
<1>2. TicketDeviation(c, n) \in 0 .. 1500
  <2> DEFINE d == Deviation(Value(n), c.targetTicket)
  <2>1. CASE c.targetTicket <= 0 \/ Value(n) <= 0 \/ d > 50
    BY <2>1 DEF TicketDeviation
  <2>2. CASE ~(c.targetTicket <= 0 \/ Value(n) <= 0 \/ d > 50)
    <3>1. d \in Nat /\ d <= 50
      BY <1>1, <2>2, DeviationType
    <3>2. CASE d <= 15
      BY <2>2, <3>2 DEF TicketDeviation
    <3>3. CASE ~(d <= 15)
      <4>1. d \in 15 .. 50
        BY <3>1, <3>3
      <4>2. Decay[d] \in 0 .. 1500
        <5>1. ASSUME NEW e, e \in 15 .. 50 PROVE Decay[e] \in 0 .. 1500
          <6>1. Decay[e] \in Nat /\ Decay[e] <= 1500
            BY <5>1, EngineAssumption
          <6>2. ASSUME NEW x, x \in Nat, x <= 1500 PROVE x \in 0 .. 1500
            BY <6>2
          <6> QED BY <6>1, <6>2
        <5> HIDE DEF d
        <5> QED BY <4>1, <5>1
      <4> QED BY <2>2, <3>3, <4>2 DEF TicketDeviation
    <3> QED BY <3>2, <3>3
  <2> QED BY <2>1, <2>2
<1>3. CashFlowCapacity(c, n) \in {0, 500, 1000}
  BY DEF CashFlowCapacity
<1> QED BY <1>2, <1>3

\* The settled contracts of a class of the notice.
OfClass(n, ks) ==
  {k \in Experience(ks) :
     \E code \in UnspscCode(n) : Prefix(k.unspscCode, 3) = Prefix(code, 3)}

LEMMA DensityType ==
  ASSUME NEW n, NEW ks, IsFiniteSet(ks)
  PROVE  /\ UnspscDensity(n, ks) = Density(Cardinality(OfClass(n, ks)))
         /\ IsFiniteSet(OfClass(n, ks)) /\ Cardinality(OfClass(n, ks)) \in Nat
<1>1. OfClass(n, ks) \in SUBSET ks
  BY DEF OfClass, Experience
<1>2. IsFiniteSet(OfClass(n, ks)) /\ Cardinality(OfClass(n, ks)) \in Nat
  BY <1>1, FS_Subset, FS_CardinalityType
<1> QED BY <1>2 DEF UnspscDensity, OfClass

\* The score is no number exactly where the technical fit is none: the other
\* components are never negative.
LEMMA ScoreIs ==
  ASSUME NEW c, NEW n, NEW ks
  PROVE  /\ TechnicalFit(c, n) = NotANumber => ComputeScore(c, n, ks) = NotANumber
         /\ TechnicalFit(c, n) # NotANumber =>
              ComputeScore(c, n, ks) =
                TechnicalFit(c, n) + EconomicFit(c, n) + ExperienceMatch(n, ks)
                  + AffinityGeographical(c, n, ks)
BY DEF ComputeScore

\* The technical fit, with a name that can be compared and with one that cannot.
LEMMA TechnicalIs ==
  ASSUME NEW c, c.name \in Texts, NEW n, n.description \subseteq Texts
  PROVE  /\ (\E d \in n.description : Incomparable(d, c.name)) =>
              TechnicalFit(c, n) = NotANumber
         /\ ~(\E d \in n.description : Incomparable(d, c.name)) =>
              TechnicalFit(c, n) \in 0 .. 4000
<1>1. \A d \in n.description : Cosine[d][c.name] = NotANumber <=> Incomparable(d, c.name)
  BY CosineFacts
<1>2. CASE \E d \in n.description : Incomparable(d, c.name)
  BY <1>1, <1>2 DEF TechnicalFit
<1>3. CASE ~\E d \in n.description : Incomparable(d, c.name)
  <2>1. BestSimilarity(n, {c.name}) \in 0 .. 100
    BY BestType
  <2>2. UnspscMatch(c, n) \in {0, 1000, 1500, 2000}
    BY DEF UnspscMatch
  <2>3. TechnicalFit(c, n) = UnspscMatch(c, n) + 20 * BestSimilarity(n, {c.name})
    BY <1>1, <1>3 DEF TechnicalFit
  <2>4. TechnicalFit(c, n) \in 0 .. 4000
    BY <2>1, <2>2, <2>3
  <2> QED BY <1>3, <2>4
<1> QED BY <1>2, <1>3

\* No component of the score exceeds the maximum that its comment states, and
\* the total is at most 100 points (scoring-engine.service.ts), but for a
\* notice whose description, or the company's name, has a word that every
\* object has a property for (text-similarity.utils.ts): its score is NaN.
THEOREM PointsInBounds == Spec => []ScoreInBounds
<1>1. ASSUME TypeOK PROVE ScoreInBounds
  <2> SUFFICES ASSUME NEW n \in notice
               PROVE  /\ IF \E d \in n.description : Incomparable(d, company.name)
                           THEN Points(n) = NotANumber
                           ELSE /\ TechnicalFit(company, n) \in 0 .. 4000
                                /\ Points(n) \in 0 .. 10000
                      /\ EconomicFit(company, n) \in 0 .. 2500
                      /\ ExperienceMatch(n, Rows) \in 0 .. 2000
                      /\ AffinityGeographical(company, n, Rows) \in 0 .. 1500
    BY DEF ScoreInBounds
  <2>1. n \in NoticeRows /\ n.description \subseteq Texts /\ company \in CompanyRows
    BY <1>1, RowTexts
  <2>2. /\ (\E d \in n.description : Incomparable(d, company.name)) =>
              TechnicalFit(company, n) = NotANumber
        /\ ~(\E d \in n.description : Incomparable(d, company.name)) =>
              TechnicalFit(company, n) \in 0 .. 4000
    BY <1>1, <2>1, RowTexts, TechnicalIs
  <2>3. EconomicFit(company, n) \in 0 .. 2500
    <3>1. /\ TicketDeviation(company, n) \in 0 .. 1500
          /\ CashFlowCapacity(company, n) \in {0, 500, 1000}
      BY <2>1, EconomicBounds
    <3> DEFINE t == TicketDeviation(company, n)
               f == CashFlowCapacity(company, n)
    <3>2. EconomicFit(company, n) = t + f
      BY DEF EconomicFit
    <3>3. t \in 0 .. 1500 /\ f \in 0 .. 1000
      BY <3>1
    <3> HIDE DEF t, f
    <3> QED BY <3>2, <3>3
  <2>4. ExperienceMatch(n, Rows) \in 0 .. 2000
    <3> DEFINE D == UNION {k.description : k \in Experience(Rows)}
    <3>1. D \subseteq Texts
      BY <1>1, RowTexts DEF Experience
    <3>2. BestSimilarity(n, D) \in 0 .. 100
      BY <2>1, <3>1, BestType
    <3>3. UnspscDensity(n, Rows) \in 0 .. 1000
      BY <1>1, RowsType, DensityType, DensityIs
    <3> DEFINE s == BestSimilarity(n, D)
               u == UnspscDensity(n, Rows)
    <3>4. ExperienceMatch(n, Rows) = 10 * s + u
      BY DEF ExperienceMatch
    <3>5. s \in 0 .. 100 /\ u \in 0 .. 1000
      BY <3>2, <3>3
    <3> HIDE DEF s, u
    <3> QED BY <3>4, <3>5
  <2>5. AffinityGeographical(company, n, Rows) \in 0 .. 1500
    BY DEF AffinityGeographical, ClientAffinity, GeographicPresence
  <2>6. ASSUME \E d \in n.description : Incomparable(d, company.name)
        PROVE  Points(n) = NotANumber
    BY <2>2, <2>6, ScoreIs DEF Points
  <2>7. ASSUME ~(\E d \in n.description : Incomparable(d, company.name))
        PROVE  TechnicalFit(company, n) \in 0 .. 4000 /\ Points(n) \in 0 .. 10000
    <3> DEFINE t == TechnicalFit(company, n)
               e == EconomicFit(company, n)
               x == ExperienceMatch(n, Rows)
               g == AffinityGeographical(company, n, Rows)
    <3>1. t \in 0 .. 4000 /\ t # NotANumber
      <4>1. t \in 0 .. 4000
        BY <2>2, <2>7
      <4> HIDE DEF t
      <4> QED BY <4>1 DEF NotANumber
    <3>2. Points(n) = t + e + x + g
      BY <3>1, ScoreIs DEF Points
    <3>3. e \in 0 .. 2500 /\ x \in 0 .. 2000 /\ g \in 0 .. 1500
      BY <2>3, <2>4, <2>5
    <3> HIDE DEF t, e, x, g
    <3>4. t + e + x + g \in 0 .. 10000
      BY <3>1, <3>3
    <3>5. Points(n) \in 0 .. 10000
      BY <3>2, <3>4
    <3>6. TechnicalFit(company, n) \in 0 .. 4000
      BY <3>1 DEF t
    <3> QED BY <2>7, <3>5, <3>6
  <2>8. IF \E d \in n.description : Incomparable(d, company.name)
          THEN Points(n) = NotANumber
          ELSE /\ TechnicalFit(company, n) \in 0 .. 4000
               /\ Points(n) \in 0 .. 10000
    BY <2>6, <2>7
  <2> QED BY <2>3, <2>4, <2>5, <2>8
<1> QED BY <1>1, TypeCorrect, PTL

-----------------------------------------------------------------------------
(* Obligations.                                                            *)

\* What each contract in execution owes.
\* A contract in execution: it owes no more than its value, and owed no less
\* at any time before.
LEMMA BalanceFacts ==
  ASSUME NEW k \in ContractRows, NEW t \in Int, InExecution(k, t)
  PROVE  /\ Balance(k, t) \in 0 .. k.value
         /\ \A u \in Int : u <= t => InExecution(k, u) /\ Balance(k, t) <= Balance(k, u)
<1>1. PICK s \in k.startDate, e \in k.endDate : s < e /\ t < e
  BY DEF InExecution
<1>2. /\ k.startDate \in Maybe(Int) /\ k.endDate \in Maybe(Int) /\ k.value \in Nat
  BY DEF ContractRows
<1>3. /\ The(k.startDate) = s /\ The(k.endDate) = e /\ s \in Int /\ e \in Int
  BY <1>1, <1>2, MaybeOf
<1> DEFINE left(u) == IF u < s THEN e - s ELSE e - u
           owed(u) == (k.value * left(u)) \div (e - s)
<1>4. \A u : Balance(k, u) = owed(u)
  BY <1>3 DEF Balance, Remaining
<1>5. e - s \in Nat /\ e - s > 0
  BY <1>1, <1>3
<1>6. ASSUME NEW u \in Int, u <= t
      PROVE  left(u) \in 0 .. (e - s) /\ left(t) <= left(u)
  BY <1>1, <1>3, <1>6
<1>7. owed(t) \in 0 .. k.value
  BY <1>2, <1>5, <1>6, PartOf
<1>8. ASSUME NEW u \in Int, u <= t
      PROVE  InExecution(k, u) /\ owed(t) <= owed(u)
  <2>1. u < e
    BY <1>1, <1>3, <1>8
  <2>2. InExecution(k, u)
    BY <1>1, <2>1 DEF InExecution
  <2> DEFINE x == left(t)
             y == left(u)
             l == e - s
  <2>3. x \in Int /\ y \in Int /\ x <= y
    BY <1>3, <1>6, <1>8
  <2>4. k.value * x <= k.value * y /\ k.value * x \in Int /\ k.value * y \in Int
    <3> HIDE DEF x, y
    <3> QED BY <1>2, <2>3, TimesGrows
  <2>5. (k.value * x) \div l <= (k.value * y) \div l
    <3> HIDE DEF x, y, l
    <3>1. l \in Nat /\ l > 0
      BY <1>5 DEF l
    <3> QED BY <2>4, <3>1, DivGrows
  <2> QED BY <2>2, <2>5
<1> HIDE DEF owed
<1> QED BY <1>4, <1>7, <1>8

Owed(ks, t) == [k \in Running(ks, t) |-> Balance(k, t)]

LEMMA SceIs ==
  ASSUME NEW ks, NEW t
  PROVE  Sce(ks, t) = SumFunctionOnSet(Owed(ks, t), Running(ks, t))
BY DEF Sce, SumFunction, Owed, Running

\* What a contract in execution owes is at most its value.
LEMMA OwedType ==
  ASSUME NEW ks, IsFiniteSet(ks), ks \subseteq ContractRows, NEW t \in Int
  PROVE  /\ IsFiniteSet(Running(ks, t))
         /\ \A k \in Running(ks, t) :
              /\ k \in ContractRows /\ InExecution(k, t)
              /\ Owed(ks, t)[k] = Balance(k, t)
              /\ Owed(ks, t)[k] \in Nat /\ Owed(ks, t)[k] <= k.value /\ k.value \in Nat
<1>1. Running(ks, t) \in SUBSET ks
  BY DEF Running
<1>2. IsFiniteSet(Running(ks, t))
  BY <1>1, FS_Subset
<1>3. ASSUME NEW k \in Running(ks, t)
      PROVE  /\ k \in ContractRows /\ InExecution(k, t) /\ k.value \in Nat
             /\ Owed(ks, t)[k] = Balance(k, t)
  BY DEF Running, Owed, ContractRows
<1>4. ASSUME NEW k \in Running(ks, t)
      PROVE  Balance(k, t) \in Nat /\ Balance(k, t) <= k.value
  <2>1. Balance(k, t) \in 0 .. k.value /\ k.value \in Nat
    BY <1>3, BalanceFacts
  <2> QED BY <2>1
<1> QED BY <1>2, <1>3, <1>4

\* What a company still has to deliver is never less than nothing.
LEMMA SceType ==
  ASSUME NEW ks, IsFiniteSet(ks), ks \subseteq ContractRows, NEW t \in Int
  PROVE  Sce(ks, t) \in Nat
BY SceIs, OwedType, SumNat

\* What a company owes grows with its contracts in execution and with what
\* each of them owes.
LEMMA SceGrows ==
  ASSUME NEW ks, IsFiniteSet(ks), ks \subseteq ContractRows, NEW t \in Int,
         NEW ls, IsFiniteSet(ls), ls \subseteq ContractRows, NEW u \in Int,
         Running(ks, t) \subseteq Running(ls, u), u <= t
  PROVE  Sce(ks, t) <= Sce(ls, u)
<1> DEFINE K == Running(ks, t)
           L == Running(ls, u)
           f == Owed(ks, t)
           g == Owed(ls, u)
<1>1. IsFiniteSet(K) /\ IsFiniteSet(L) /\ K \in SUBSET L
  BY OwedType
<1>2. \A k \in K : f[k] \in Nat /\ f[k] = Balance(k, t) /\ k \in ContractRows
                   /\ InExecution(k, t)
  BY OwedType
<1>3. \A k \in L : g[k] \in Nat /\ g[k] = Balance(k, u)
  BY OwedType
<1>4. \A k \in K : f[k] <= g[k]
  BY <1>1, <1>2, <1>3, BalanceFacts
<1>5. SumFunctionOnSet(f, K) <= SumFunctionOnSet(g, K)
  <2>1. \A k \in K : f[k] \in Int /\ g[k] \in Int /\ f[k] <= g[k]
    BY <1>1, <1>2, <1>3, <1>4
  <2> HIDE DEF f, g, K
  <2> QED BY <1>1, <2>1, SumGrowsWithSummands
<1>6. SumFunctionOnSet(g, K) <= SumFunctionOnSet(g, L)
  <2> HIDE DEF g, K, L
  <2> QED BY <1>1, <1>3, SumGrowsWithSet
<1>7. Sce(ks, t) = SumFunctionOnSet(f, K) /\ Sce(ls, u) = SumFunctionOnSet(g, L)
  BY SceIs
<1>8. SumFunctionOnSet(f, K) \in Nat /\ SumFunctionOnSet(g, K) \in Nat /\ SumFunctionOnSet(g, L) \in Nat
  <2>1. \A k \in K : f[k] \in Nat /\ g[k] \in Nat
    BY <1>1, <1>2, <1>3
  <2> HIDE DEF f, g, K, L
  <2> QED BY <1>1, <1>3, <2>1, SumNat
<1> HIDE DEF f, g, K, L
<1> QED BY <1>5, <1>6, <1>7, <1>8

\* Contracts in execution owe something between nothing and what they are
\* worth together (validateResidualCapacity of hard-filters.service.ts).
THEOREM ObligationsAreBounded == Spec => []ObligationsInBounds
<1>1. ASSUME TypeOK PROVE ObligationsInBounds
  <2> DEFINE K == Running(Rows, now)
             f == Owed(Rows, now)
             g == [k \in K |-> k.value]
  <2>1. IsFiniteSet(Rows) /\ Rows \subseteq ContractRows /\ now \in Int
    BY <1>1, RowsType, MatchingAssumption DEF TypeOK
  <2>2. IsFiniteSet(K) /\ \A k \in K : f[k] \in Int /\ g[k] \in Int /\ f[k] <= g[k]
    BY <2>1, OwedType
  <2>3. SumFunctionOnSet(f, K) <= SumFunctionOnSet(g, K)
    <3> HIDE DEF f, g, K
    <3> QED BY <2>2, SumGrowsWithSummands
  <2>4. SumFunction(g) = SumFunctionOnSet(g, K)
    BY DEF SumFunction
  <2>5. Sce(Rows, now) = SumFunctionOnSet(f, K)
    BY SceIs
  <2>6. Sce(Rows, now) >= 0
    BY <2>1, SceType
  <2>7. Sce(Rows, now) <= SumFunction(g)
    BY <2>3, <2>4, <2>5
  <2> QED BY <2>6, <2>7 DEF ObligationsInBounds, Running
<1> QED BY <1>1, TypeCorrect, PTL

-----------------------------------------------------------------------------
(* Keywords.                                                               *)

\* A keyword more, of weight above 0, is more for its own sector, or the same
\* if the title does not include it, and changes no other sector.
LEMMA OneKeywordMore ==
  ASSUME NEW title, NEW ks, IsFiniteSet(ks), ks \subseteq KeywordRows,
         NEW k \in KeywordRows, k \notin ks, k.weight > 0, NEW s
  PROVE  LET ls == ks \cup {k}
         IN /\ Hits(title, ks, s) \subseteq Hits(title, ls, s)
            /\ SectorScore(title, ks, s) \in Int /\ SectorScore(title, ls, s) \in Int
            /\ SectorScore(title, ks, s) <= SectorScore(title, ls, s)
            /\ s # k.sector =>
                 /\ Hits(title, ks, s) = Hits(title, ls, s)
                 /\ SectorScore(title, ks, s) = SectorScore(title, ls, s)
<1> DEFINE ls == ks \cup {k}
           H == Hits(title, ks, s)
           L == Hits(title, ls, s)
           f == [x \in H |-> x.weight]
           g == [x \in L |-> x.weight]
<1>1. SectorScore(title, ks, s) = SumFunctionOnSet(f, H)
      /\ SectorScore(title, ls, s) = SumFunctionOnSet(g, L)
  BY DEF SectorScore, SumFunction
<1>2. H \in SUBSET ks /\ L \in SUBSET ls /\ IsFiniteSet(H) /\ IsFiniteSet(L)
  <2>1. H \in SUBSET ks /\ L \in SUBSET ls
    BY DEF Hits
  <2>2. IsFiniteSet(ls)
    BY FS_AddElement
  <2> HIDE DEF H, L, ls
  <2> QED BY <2>1, <2>2, FS_Subset
<1>3. (\A x \in H : f[x] = x.weight /\ f[x] \in Int)
      /\ (\A x \in L : g[x] = x.weight /\ g[x] \in Int)
  <2>1. \A x \in KeywordRows : x.weight \in Int
    BY DEF KeywordRows
  <2>2. H \subseteq KeywordRows /\ L \subseteq KeywordRows
    BY <1>2
  <2> QED BY <2>1, <2>2
<1>4. H \subseteq L /\ (L = H \/ (L = H \cup {k} /\ k \notin H /\ k.sector = s))
  BY <1>2 DEF Hits
<1>5. SumFunctionOnSet(f, H) \in Int /\ SumFunctionOnSet(g, L) \in Int
      /\ SumFunctionOnSet(g, H) \in Int /\ SumFunctionOnSet(f, H) = SumFunctionOnSet(g, H)
  <2> HIDE DEF f, g, H, L
  <2> QED BY <1>2, <1>3, <1>4, SumInt, SumSame
<1>6. CASE L = H
  <2>1. SumFunctionOnSet(g, L) = SumFunctionOnSet(g, H)
    BY <1>6
  <2> HIDE DEF f, g
  <2> QED BY <1>1, <1>5, <1>6, <2>1
<1>7. CASE L = H \cup {k} /\ k \notin H /\ k.sector = s
  <2>1. SumFunctionOnSet(g, H \cup {k}) = g[k] + SumFunctionOnSet(g, H)
    <3>1. \A x \in H \cup {k} : g[x] \in Int
      BY <1>3, <1>7
    <3> HIDE DEF f, g, H, L
    <3> QED BY <1>2, <1>7, <3>1, SumAdds
  <2>2. SumFunctionOnSet(g, L) = SumFunctionOnSet(g, H \cup {k})
    BY <1>7
  <2>3. g[k] = k.weight /\ g[k] \in Int
    BY <1>3, <1>7
  <2> HIDE DEF f, g
  <2>4. SumFunctionOnSet(f, H) <= SumFunctionOnSet(g, L)
    BY <1>5, <2>1, <2>2, <2>3
  <2> QED BY <1>1, <1>4, <1>5, <1>7, <2>4
<1> QED BY <1>4, <1>6, <1>7

\* The sectors that win, as positions.
Scored(title, ks) == {i \in DOMAIN Sectors : Hits(title, ks, Sectors[i]) # {}}
Winners(title, ks) ==
  {i \in Scored(title, ks) :
     /\ SectorScore(title, ks, Sectors[i]) > 0
     /\ \A j \in Scored(title, ks) :
          SectorScore(title, ks, Sectors[j]) <= SectorScore(title, ks, Sectors[i])}

\* The sector is that of the first winner.
LEMMA ClassifyIs ==
  ASSUME NEW title, NEW ks
  PROVE  classify(title, ks) =
           IF Winners(title, ks) = {} THEN "Otros" ELSE Sectors[Min(Winners(title, ks))]
BY DEF classify, Winners, Scored

\* There is a first winner if there is a winner.
LEMMA WinnersFirst ==
  ASSUME NEW title, NEW ks, Winners(title, ks) # {}
  PROVE  /\ Min(Winners(title, ks)) \in Winners(title, ks)
         /\ Min(Winners(title, ks)) \in Nat
         /\ \A i \in Winners(title, ks) : i \in Nat /\ Min(Winners(title, ks)) <= i
<1>1. DOMAIN Sectors \subseteq Nat
  BY MatchingAssumption
<1>2. Winners(title, ks) \in SUBSET Nat
  BY <1>1 DEF Winners, Scored
<1> QED BY <1>2, HasMin

\* A keyword more of the sector that won lets no other sector win.
LEMMA MoreOfTheWinner ==
  ASSUME NEW title, NEW ks, IsFiniteSet(ks), ks \subseteq KeywordRows,
         NEW k \in KeywordRows, k \notin ks, k.weight > 0,
         k.sector = classify(title, ks)
  PROVE  classify(title, ks \cup {k}) = k.sector
<1> DEFINE ls == ks \cup {k}
           A == Winners(title, ks)
           B == Winners(title, ls)
           old(i) == SectorScore(title, ks, Sectors[i])
           new(i) == SectorScore(title, ls, Sectors[i])
           S == Scored(title, ks)
           T == Scored(title, ls)
<1>1. /\ \A i \in A : i \in S /\ old(i) > 0 /\ \A j \in S : old(j) <= old(i)
      /\ \A i \in S : old(i) > 0 /\ (\A j \in S : old(j) <= old(i)) => i \in A
      /\ \A i \in B : i \in T /\ new(i) > 0 /\ \A j \in T : new(j) <= new(i)
      /\ \A i \in T : new(i) > 0 /\ (\A j \in T : new(j) <= new(i)) => i \in B
  BY DEF Winners
<1>2. \A i : /\ old(i) \in Int /\ new(i) \in Int /\ old(i) <= new(i)
             /\ Sectors[i] # k.sector => old(i) = new(i)
  BY OneKeywordMore
<1>3. /\ S \subseteq T
      /\ \A i \in T : Sectors[i] # k.sector => i \in S
  <2>1. \A s : /\ Hits(title, ks, s) \subseteq Hits(title, ls, s)
               /\ s # k.sector => Hits(title, ks, s) = Hits(title, ls, s)
    BY OneKeywordMore
  <2> QED BY <2>1 DEF Scored
<1>4. \A i, j : Sectors[i] = Sectors[j] => new(i) = new(j)
  OBVIOUS
<1>5. /\ classify(title, ks) = IF A = {} THEN "Otros" ELSE Sectors[Min(A)]
      /\ classify(title, ls) = IF B = {} THEN "Otros" ELSE Sectors[Min(B)]
  BY ClassifyIs
<1>6. /\ A # {} => Min(A) \in A /\ Min(A) \in Nat /\ \A i \in A : i \in Nat /\ Min(A) <= i
      /\ B # {} => Min(B) \in B /\ Min(B) \in Nat /\ \A i \in B : i \in Nat /\ Min(B) <= i
  BY WinnersFirst
<1> HIDE DEF A, B, S, T, old, new
\* Another sector that wins now had won before.
<1>7. ASSUME NEW i \in B, Sectors[i] # k.sector PROVE i \in A
  <2>1. i \in S /\ old(i) = new(i) /\ old(i) > 0
    BY <1>1, <1>2, <1>3, <1>7
  <2>2. ASSUME NEW j \in S PROVE old(j) <= old(i)
    <3>1. new(j) <= new(i)
      BY <1>1, <1>3, <1>7
    <3>2. old(j) <= new(j) /\ old(j) \in Int /\ new(j) \in Int /\ new(i) \in Int
      BY <1>2
    <3> QED BY <2>1, <3>1, <3>2
  <2> QED BY <1>1, <2>1, <2>2
<1>8. CASE A = {}
  <2>1. \A i \in B : Sectors[i] = k.sector
    BY <1>7, <1>8
  <2> QED BY <1>5, <1>6, <1>8, <2>1 DEF ls
<1>9. CASE A # {}
  <2> DEFINE m == Min(A)
  <2>1. m \in A /\ Sectors[m] = k.sector /\ m \in Nat
    BY <1>5, <1>6, <1>9
  <2> HIDE DEF m
  <2>2. m \in T /\ new(m) > 0
    <3>1. m \in S /\ old(m) > 0 /\ old(m) <= new(m) /\ old(m) \in Int /\ new(m) \in Int
      BY <1>1, <1>2, <2>1
    <3> QED BY <1>3, <3>1
  <2>3. ASSUME NEW j \in T PROVE new(j) <= new(m)
    <3>1. CASE Sectors[j] = k.sector
      <4>1. new(j) = new(m) /\ new(j) \in Int
        BY <1>2, <1>4, <2>1, <3>1
      <4> QED BY <4>1
    <3>2. CASE Sectors[j] # k.sector
      <4>1. j \in S /\ old(j) = new(j)
        BY <1>2, <1>3, <3>2
      <4>2. old(j) <= old(m) /\ old(m) <= new(m)
        BY <1>1, <1>2, <2>1, <4>1
      <4>3. old(j) \in Int /\ old(m) \in Int /\ new(m) \in Int
        BY <1>2
      <4> QED BY <4>1, <4>2, <4>3
    <3> QED BY <3>1, <3>2
  <2>4. m \in B
    BY <1>1, <2>2, <2>3
  <2>5. Min(B) \in B /\ Min(B) <= m /\ Min(B) \in Nat
    BY <1>6, <2>4
  <2>6. Sectors[Min(B)] = k.sector
    <3> SUFFICES ASSUME Sectors[Min(B)] # k.sector PROVE FALSE
      OBVIOUS
    <3>1. Min(B) \in A
      BY <1>7, <2>5
    <3>2. m <= Min(B)
      BY <1>6, <1>9, <3>1 DEF m
    <3>3. Min(B) = m
      BY <2>1, <2>5, <3>2
    <3> QED BY <2>1, <3>3
  <2> QED BY <1>5, <2>4, <2>6 DEF ls
<1> QED BY <1>8, <1>9

\* More weight for the sector that wins never lets another one win
\* (classify of sector-classifier.utils.ts).
THEOREM WinnersAreStable == Spec => []WinnerIsStable
<1>1. ASSUME TypeOK PROVE WinnerIsStable
  <2> SUFFICES ASSUME NEW n \in notice, NEW k \in Catalogue \ keywords, k.weight > 0,
                      k.sector = classify(n.title, keywords)
               PROVE  classify(n.title, keywords \cup {k}) = k.sector
    BY DEF WinnerIsStable
  <2>1. IsFiniteSet(keywords) /\ keywords \subseteq KeywordRows /\ k \in KeywordRows
    BY <1>1, MatchingAssumption, FS_Subset DEF TypeOK
  <2> QED BY <2>1, MoreOfTheWinner
<1> QED BY <1>1, TypeCorrect, PTL

-----------------------------------------------------------------------------
(* The filters.                                                            *)

\* A notice passes if each of the seven validations does.
LEMMA PassesIs ==
  ASSUME NEW c, NEW n, NEW ks, NEW t
  PROVE  Passes(c, n, ks, t) <=>
           /\ DeadlineOpen(n, t)
           /\ NotExcluded(n.contractingModality, c.excludedModalities)
           /\ NotExcluded(n.contractType, c.excludedContractTypes)
           /\ FinancialCapacity(c, n)
           /\ GeographicCoverage(c, n)
           /\ UnspscHierarchy(c, n)
           /\ ResidualCapacity(c, n, ks, t)
<1> DEFINE v == Validations(c, n, ks, t)
<1>1. /\ DOMAIN v = 1 .. 7
      /\ v[1].passed = DeadlineOpen(n, t)
      /\ v[2].passed = NotExcluded(n.contractingModality, c.excludedModalities)
      /\ v[3].passed = NotExcluded(n.contractType, c.excludedContractTypes)
      /\ v[4].passed = FinancialCapacity(c, n)
      /\ v[5].passed = GeographicCoverage(c, n)
      /\ v[6].passed = UnspscHierarchy(c, n)
      /\ v[7].passed = ResidualCapacity(c, n, ks, t)
  BY DEF Validations
<1>2. Passes(c, n, ks, t) <=> \A i \in DOMAIN v : v[i].passed
  BY DEF Passes, Failures
<1> HIDE DEF v
<1>3. 1 .. 7 = {1, 2, 3, 4, 5, 6, 7}
  OBVIOUS
<1> QED BY <1>1, <1>2, <1>3

\* What passes the filters has the points of the level its policy asks for,
\* and those of presence, although filters and engine look codes and
\* departments up each on their own (hard-filters.service.ts,
\* scoring-engine.service.ts).
THEOREM FilterMeansScore == Spec => []FilterAgreesWithScore
<1>1. FilterAgreesWithScore
  <2> SUFFICES ASSUME NEW n \in notice, Passed(n)
               PROVE  /\ company.sectors # {} /\ UnspscCode(n) # {} =>
                           UnspscMatch(company, n) >=
                             IF company.unspscMatchPolicy = "flexible"
                               THEN 1500 ELSE 2000
                      /\ company.regions # {} => GeographicPresence(company, n) = 500
    BY DEF FilterAgreesWithScore
  <2>1. GeographicCoverage(company, n) /\ UnspscHierarchy(company, n)
    BY PassesIs DEF Passed
  <2>2. company.regions # {} => GeographicPresence(company, n) = 500
    BY <2>1 DEF GeographicCoverage, GeographicPresence
  <2>3. ASSUME company.sectors # {}, UnspscCode(n) # {}
        PROVE  UnspscMatch(company, n) >=
                 IF company.unspscMatchPolicy = "flexible" THEN 1500 ELSE 2000
    <3>1. \E code \in UnspscCode(n) :
            MatchesSector(company, code, MatchLength(company.unspscMatchPolicy))
      BY <2>1, <2>3 DEF UnspscHierarchy
    <3>2. CASE company.unspscMatchPolicy = "flexible"
      BY <3>1, <3>2 DEF UnspscMatch, MatchLength
    <3>3. CASE company.unspscMatchPolicy # "flexible"
      BY <3>1, <3>3 DEF UnspscMatch, MatchLength
    <3> QED BY <3>2, <3>3
  <2> QED BY <2>2, <2>3
<1> QED BY <1>1, PTL

\* Equal classes are of one family.
LEMMA PrefixShorter ==
  ASSUME NEW a \in Codes, NEW b \in Codes, Prefix(a, 3) = Prefix(b, 3)
  PROVE  Prefix(a, 2) = Prefix(b, 2)
<1>1. ASSUME NEW s \in Codes, NEW k \in Nat
      PROVE  LET m == IF k <= Len(s) THEN k ELSE Len(s)
             IN /\ Prefix(s, k) \in Seq(Nat)
                /\ Len(Prefix(s, k)) = m
                /\ \A i \in 1 .. m : Prefix(s, k)[i] = s[i]
  <2> DEFINE m == IF k <= Len(s) THEN k ELSE Len(s)
  <2>1. Min({k, Len(s)}) = m
    BY DEF Min, Codes
  <2>2. Prefix(s, k) = SubSeq(s, 1, m)
    BY <2>1 DEF Prefix
  <2>3. m \in 0 .. Len(s) /\ s \in Seq(Nat)
    BY DEF Codes
  <2> HIDE DEF m
  <2>4. SubSeq(s, 1, m) \in Seq(Nat) /\ Len(SubSeq(s, 1, m)) = m
        /\ \A i \in 1 .. m : SubSeq(s, 1, m)[i] = s[i]
    BY <2>3
  <2> QED BY <2>2, <2>4 DEF m
<1> DEFINE la == IF 2 <= Len(a) THEN 2 ELSE Len(a)
           lb == IF 2 <= Len(b) THEN 2 ELSE Len(b)
           ka == IF 3 <= Len(a) THEN 3 ELSE Len(a)
           kb == IF 3 <= Len(b) THEN 3 ELSE Len(b)
<1>2. /\ Prefix(a, 3) \in Seq(Nat) /\ Len(Prefix(a, 3)) = ka
      /\ \A i \in 1 .. ka : Prefix(a, 3)[i] = a[i]
      /\ Len(Prefix(b, 3)) = kb
      /\ \A i \in 1 .. kb : Prefix(b, 3)[i] = b[i]
  BY <1>1
<1>3. /\ Prefix(a, 2) \in Seq(Nat) /\ Len(Prefix(a, 2)) = la
      /\ \A i \in 1 .. la : Prefix(a, 2)[i] = a[i]
      /\ Prefix(b, 2) \in Seq(Nat) /\ Len(Prefix(b, 2)) = lb
      /\ \A i \in 1 .. lb : Prefix(b, 2)[i] = b[i]
  BY <1>1
<1>4. ka = kb
  BY <1>2
<1>5. la = lb /\ la \in Nat /\ la <= ka
  BY <1>4 DEF Codes
<1>6. \A i \in 1 .. la : Prefix(a, 2)[i] = Prefix(b, 2)[i]
  <2> SUFFICES ASSUME NEW i \in 1 .. la PROVE Prefix(a, 2)[i] = Prefix(b, 2)[i]
    OBVIOUS
  <2>1. i \in 1 .. ka
    BY <1>5 DEF Codes
  <2> HIDE DEF la, lb, ka, kb
  <2>2. Prefix(a, 3)[i] = a[i] /\ Prefix(b, 3)[i] = b[i]
    BY <1>2, <1>4, <2>1
  <2> QED BY <1>3, <1>5, <2>2
<1> HIDE DEF la, lb, ka, kb
<1>7. ASSUME NEW x \in Seq(Nat), NEW y \in Seq(Nat), Len(x) = Len(y),
             \A i \in 1 .. Len(x) : x[i] = y[i]
      PROVE  x = y
  <2>1. x = [i \in 1 .. Len(x) |-> x[i]] /\ y = [i \in 1 .. Len(y) |-> y[i]]
    OBVIOUS
  <2> QED BY <1>7, <2>1
<1> QED BY <1>3, <1>5, <1>6, <1>7

\* More sectors and a more flexible policy cover no fewer notices.
LEMMA CoverageWidens ==
  ASSUME NEW p \in CompanyRows, NEW q \in CompanyRows, NEW n \in NoticeRows,
         q.sectors = {} \/ (p.sectors # {} /\ p.sectors \subseteq q.sectors),
         q.unspscMatchPolicy \in {p.unspscMatchPolicy, "flexible"},
         UnspscHierarchy(p, n)
  PROVE  UnspscHierarchy(q, n)
<1> SUFFICES ASSUME q.sectors # {}, NEW code \in UnspscCode(n)
             PROVE  MatchesSector(q, code, MatchLength(q.unspscMatchPolicy))
  BY DEF UnspscHierarchy
<1>1. code \in Codes
  BY DEF NoticeRows, Maybe, UnspscCode
<1>2. PICK s \in p.sectors : Prefix(s, MatchLength(p.unspscMatchPolicy))
                               = Prefix(code, MatchLength(p.unspscMatchPolicy))
  <2>1. MatchesSector(p, code, MatchLength(p.unspscMatchPolicy))
    BY DEF UnspscHierarchy
  <2> QED BY <2>1 DEF MatchesSector
<1>3. s \in q.sectors /\ s \in Codes
  BY DEF CompanyRows
<1>4. CASE MatchLength(q.unspscMatchPolicy) = MatchLength(p.unspscMatchPolicy)
  BY <1>2, <1>3, <1>4 DEF MatchesSector
<1>5. CASE MatchLength(q.unspscMatchPolicy) # MatchLength(p.unspscMatchPolicy)
  <2>1. MatchLength(p.unspscMatchPolicy) = 3 /\ MatchLength(q.unspscMatchPolicy) = 2
    BY <1>5 DEF MatchLength
  <2>2. Prefix(s, 2) = Prefix(code, 2)
    BY <1>1, <1>2, <1>3, <2>1, PrefixShorter
  <2> QED BY <1>3, <2>1, <2>2 DEF MatchesSector
<1> QED BY <1>4, <1>5

\* The capacity for contracting is a number.
LEMMA FccType ==
  ASSUME NEW c \in CompanyRows, NEW t
  PROVE  Fcc(c, t) \in Int
BY DEF Fcc, CompanyRows

\* What is left of the capacity grows with it and with less that is owed.
LEMMA ResidualGrows ==
  ASSUME NEW p, NEW q, NEW n \in NoticeRows, NEW ks, NEW ls, NEW t, NEW u,
         Fcc(p, t) \in Int, Fcc(q, u) \in Int, Sce(ks, t) \in Int, Sce(ls, u) \in Int,
         Fcc(p, t) <= Fcc(q, u), Sce(ls, u) <= Sce(ks, t),
         ResidualCapacity(p, n, ks, t)
  PROVE  ResidualCapacity(q, n, ls, u)
<1>1. \A v \in n.value : v \in Int
  BY DEF NoticeRows, Maybe
<1>2. Residual(p, ks, t) <= Residual(q, ls, u)
      /\ Residual(p, ks, t) \in Int /\ Residual(q, ls, u) \in Int
  BY DEF Residual
<1> SUFFICES ASSUME IsObra(n), NEW v \in n.value PROVE v <= Residual(q, ls, u)
  BY DEF ResidualCapacity
<1>3. v <= Residual(p, ks, t)
  BY DEF ResidualCapacity
<1> QED BY <1>1, <1>2, <1>3

\* Saving a wider profile never excludes a notice (UPDATE of companies,
\* hard-filters.service.ts).
THEOREM WiderKeepsNotices == Spec => WideningNeverExcludes
<1> DEFINE Kept == \A n \in notice :
                     (company' # company /\ AsWide(company, company') /\ Passed(n)) =>
                        Passed(n)'
<1>1. ASSUME TypeOK, TypeOK', [Next]_vars PROVE Kept
  <2> SUFFICES ASSUME NEW n \in notice, company' # company,
                      AsWide(company, company'), Passed(n)
               PROVE  Passed(n)'
    OBVIOUS
  <2>1. UNCHANGED <<now, signed, settled>>
    BY <1>1 DEF Next, vars, Tick, Sign, Settle, AddKeyword, Import, Create, Bulk,
                UpdateDeadline, Classify, UpdateProfile
  <2>2. Rows' = Rows
    BY <2>1 DEF Rows
  <2> DEFINE p == company
             q == company'
             ks == Rows
             t == now
  <2>3. /\ p \in CompanyRows /\ q \in CompanyRows /\ n \in NoticeRows
        /\ IsFiniteSet(ks) /\ ks \subseteq ContractRows /\ t \in Int
    BY <1>1, RowsType, MatchingAssumption DEF TypeOK, Maybe
  <2>4. /\ q.sectors = {} \/ (p.sectors # {} /\ p.sectors \subseteq q.sectors)
        /\ q.regions = {} \/ (p.regions # {} /\ p.regions \subseteq q.regions)
        /\ q.excludedModalities \subseteq p.excludedModalities
        /\ q.excludedContractTypes \subseteq p.excludedContractTypes
        /\ q.contractingCapacity >= p.contractingCapacity
        /\ Fcc(q, t) >= Fcc(p, t)
        /\ q.unspscMatchPolicy \in {p.unspscMatchPolicy, "flexible"}
    BY DEF AsWide
  <2>5. Passes(p, n, ks, t)
    BY DEF Passed
  <2>6. Passed(n)' <=> Passes(q, n, ks, t)
    BY <2>1, <2>2 DEF Passed
  <2> HIDE DEF p, q, ks, t
  <2>7. NotExcluded(n.contractingModality, q.excludedModalities)
        /\ NotExcluded(n.contractType, q.excludedContractTypes)
    BY <2>4, <2>5, PassesIs DEF NotExcluded
  <2>8. FinancialCapacity(q, n)
    <3>1. \A v \in n.value : v \in Int
      BY <2>3 DEF NoticeRows, Maybe
    <3>2. p.contractingCapacity \in Int /\ q.contractingCapacity \in Int
      BY <2>3 DEF CompanyRows
    <3>3. FinancialCapacity(p, n)
      BY <2>5, PassesIs
    <3> QED BY <2>4, <3>1, <3>2, <3>3 DEF FinancialCapacity
  <2>9. GeographicCoverage(q, n)
    <3>1. GeographicCoverage(p, n)
      BY <2>5, PassesIs
    <3> QED BY <2>4, <3>1 DEF GeographicCoverage
  <2>10. UnspscHierarchy(q, n)
    BY <2>3, <2>4, <2>5, PassesIs, CoverageWidens
  <2>11. ResidualCapacity(q, n, ks, t)
    <3>1. Fcc(p, t) \in Int /\ Fcc(q, t) \in Int /\ Sce(ks, t) \in Int
      BY <2>3, FccType, SceType
    <3>2. ResidualCapacity(p, n, ks, t)
      BY <2>5, PassesIs
    <3>3. Fcc(p, t) <= Fcc(q, t) /\ Sce(ks, t) <= Sce(ks, t)
      BY <2>4, <3>1
    <3> QED BY <2>3, <3>1, <3>2, <3>3, ResidualGrows
  <2>12. DeadlineOpen(n, t)
    BY <2>5, PassesIs
  <2> QED BY <2>6, <2>7, <2>8, <2>9, <2>10, <2>11, <2>12, PassesIs
<1>2. TypeOK /\ TypeOK' /\ [Next]_vars => [Kept]_vars
  BY <1>1
<1> QED BY <1>2, TypeCorrect, PTL DEF Spec, WideningNeverExcludes

-----------------------------------------------------------------------------
(* What a contract changes.                                                *)

\* The score reads no contract but the settled ones, and grows with them.
LEMMA PointsOfExperience ==
  ASSUME NEW c, NEW n, NEW ks, NEW ls, Experience(ks) = Experience(ls)
  PROVE  ComputeScore(c, n, ks) = ComputeScore(c, n, ls)
<1>1. ExperienceMatch(n, ks) = ExperienceMatch(n, ls)
  BY DEF ExperienceMatch, UnspscDensity
<1>2. AffinityGeographical(c, n, ks) = AffinityGeographical(c, n, ls)
  BY DEF AffinityGeographical, ClientAffinity
<1> QED BY <1>1, <1>2 DEF ComputeScore

\* The parts of the score.
LEMMA PartsType ==
  ASSUME NEW c \in CompanyRows, NEW n \in NoticeRows,
         NEW ks, IsFiniteSet(ks), ks \subseteq ContractRows
  PROVE  /\ TechnicalFit(c, n) \in Int /\ EconomicFit(c, n) \in Int
         /\ TicketDeviation(c, n) \in Int /\ CashFlowCapacity(c, n) \in Int
         /\ BestSimilarity(n, UNION {k.description : k \in Experience(ks)}) \in Int
         /\ UnspscDensity(n, ks) \in Int
         /\ ClientAffinity(n, ks) \in Int /\ GeographicPresence(c, n) \in Int
<1>1. n.description \subseteq Texts /\ {c.name} \subseteq Texts
  BY DEF NoticeRows, CompanyRows, Maybe
<1>2. UNION {k.description : k \in Experience(ks)} \subseteq Texts
  BY DEF Experience, ContractRows, Maybe
<1>3. TechnicalFit(c, n) \in Int
  <2>1. TechnicalFit(c, n) = NotANumber \/ TechnicalFit(c, n) \in 0 .. 4000
    BY <1>1, TechnicalIs
  <2> DEFINE t == TechnicalFit(c, n)
  <2> HIDE DEF t
  <2>2. ASSUME t = NotANumber PROVE t \in Int
    BY <2>2 DEF NotANumber
  <2>3. ASSUME t \in 0 .. 4000 PROVE t \in Int
    BY <2>3
  <2>4. t \in Int
    BY <2>1, <2>2, <2>3 DEF t
  <2> QED BY <2>4 DEF t
<1>4. TicketDeviation(c, n) \in Int /\ CashFlowCapacity(c, n) \in Int
  <2>1. TicketDeviation(c, n) \in 0 .. 1500 /\ CashFlowCapacity(c, n) \in {0, 500, 1000}
    BY EconomicBounds
  <2> QED BY <2>1
<1>5. EconomicFit(c, n) \in Int
  BY <1>4 DEF EconomicFit
<1>6. BestSimilarity(n, UNION {k.description : k \in Experience(ks)}) \in Int
  <2> DEFINE b == BestSimilarity(n, UNION {k.description : k \in Experience(ks)})
  <2>1. b \in 0 .. 100
    BY <1>1, <1>2, BestType
  <2> HIDE DEF b
  <2>2. b \in Int
    BY <2>1
  <2> QED BY <2>2 DEF b
<1>7. UnspscDensity(n, ks) \in Int
  <2>1. UnspscDensity(n, ks) \in 0 .. 1000
    BY DensityType, DensityIs
  <2> QED BY <2>1
<1>8. ClientAffinity(n, ks) \in Int /\ GeographicPresence(c, n) \in Int
  BY DEF ClientAffinity, GeographicPresence
<1> QED BY <1>3, <1>4, <1>5, <1>6, <1>7, <1>8

LEMMA PointsGrow ==
  ASSUME NEW c \in CompanyRows, NEW n \in NoticeRows,
         NEW ks, IsFiniteSet(ks), ks \subseteq ContractRows,
         NEW ls, IsFiniteSet(ls), ls \subseteq ContractRows,
         Experience(ks) \subseteq Experience(ls)
  PROVE  ComputeScore(c, n, ks) <= ComputeScore(c, n, ls)
<1> DEFINE D(rs) == UNION {k.description : k \in Experience(rs)}
           best(rs) == BestSimilarity(n, D(rs))
           dens(rs) == UnspscDensity(n, rs)
           client(rs) == ClientAffinity(n, rs)
           tech == TechnicalFit(c, n)
           econ == EconomicFit(c, n)
           pres == GeographicPresence(c, n)
<1>1. best(ks) <= best(ls)
  <2>1. D(ks) \in SUBSET D(ls)
    OBVIOUS
  <2>2. D(ls) \in SUBSET Texts /\ n.description \subseteq Texts
    BY DEF Experience, ContractRows, NoticeRows, Maybe
  <2> HIDE DEF D
  <2> QED BY <2>1, <2>2, BestType
<1>2. dens(ks) <= dens(ls)
  <2>1. OfClass(n, ks) \subseteq OfClass(n, ls)
    BY DEF OfClass
  <2>2. IsFiniteSet(OfClass(n, ls)) /\ Cardinality(OfClass(n, ls)) \in Nat
        /\ Cardinality(OfClass(n, ks)) \in Nat
    BY DensityType
  <2>3. Cardinality(OfClass(n, ks)) <= Cardinality(OfClass(n, ls))
    BY <2>1, <2>2, FS_Subset
  <2> QED BY <2>2, <2>3, DensityType, DensityGrows
<1>3. client(ks) <= client(ls)
  BY DEF ClientAffinity
<1>4. ASSUME tech # NotANumber
      PROVE  /\ ComputeScore(c, n, ks) = tech + econ + (10 * best(ks) + dens(ks)) + (client(ks) + pres)
             /\ ComputeScore(c, n, ls) = tech + econ + (10 * best(ls) + dens(ls)) + (client(ls) + pres)
  BY <1>4, ScoreIs DEF ExperienceMatch, AffinityGeographical
<1>6. ASSUME tech = NotANumber
      PROVE  ComputeScore(c, n, ks) = -1 /\ ComputeScore(c, n, ls) = -1
  BY <1>6, ScoreIs DEF NotANumber
<1>5. /\ tech \in Int /\ econ \in Int /\ pres \in Int
      /\ best(ks) \in Int /\ best(ls) \in Int /\ dens(ks) \in Int /\ dens(ls) \in Int
      /\ client(ks) \in Int /\ client(ls) \in Int
  BY PartsType
<1> HIDE DEF best, dens, client, tech, econ, pres
<1> QED BY <1>1, <1>2, <1>3, <1>4, <1>5, <1>6

\* What the filters say of a company that owes less.
LEMMA OwingLess ==
  ASSUME NEW c \in CompanyRows, NEW n \in NoticeRows, NEW t \in Int,
         NEW ks, IsFiniteSet(ks), ks \subseteq ContractRows,
         NEW ls, IsFiniteSet(ls), ls \subseteq ContractRows,
         Running(ls, t) \subseteq Running(ks, t), Passes(c, n, ks, t)
  PROVE  Passes(c, n, ls, t)
<1>1. Sce(ls, t) <= Sce(ks, t) /\ Sce(ls, t) \in Int /\ Sce(ks, t) \in Int
  BY SceGrows, SceType
<1>2. Fcc(c, t) \in Int /\ Fcc(c, t) <= Fcc(c, t)
  BY FccType
<1>3. ResidualCapacity(c, n, ks, t)
  BY PassesIs
<1>4. ResidualCapacity(c, n, ls, t)
  BY <1>1, <1>2, <1>3, ResidualGrows
<1> QED BY <1>4, PassesIs

\* A contract that is settled frees capacity and adds experience: it never
\* costs a notice or a point (validateResidualCapacity,
\* computeExperienceMatch).
THEOREM SettlingHelps == Spec => SettlingNeverHurts
<1> DEFINE Kept == \A n \in notice : settled' # settled =>
                     /\ Passed(n) => Passed(n)'
                     /\ Points(n)' >= Points(n)
<1>1. ASSUME TypeOK, TypeOK', [Next]_vars PROVE Kept
  <2> SUFFICES ASSUME NEW n \in notice, settled' # settled
               PROVE  /\ Passed(n) => Passed(n)'
                      /\ Points(n)' >= Points(n)
    OBVIOUS
  <2>1. PICK k \in Contracts : Settle(k)
    BY <1>1 DEF Next, vars, Tick, Sign, UpdateProfile, AddKeyword, Import, Create, Bulk,
                UpdateDeadline, Classify
  <2>2. /\ UNCHANGED <<now, company, signed, notice>>
        /\ settled \in SUBSET settled' /\ settled' \in SUBSET signed
        /\ signed \in SUBSET Contracts
    BY <1>1, <2>1 DEF Settle, TypeOK
  <2> DEFINE ks == RowsOf(signed, settled)
             ls == RowsOf(signed, settled')
             c == company
             t == now
  <2>3. Rows = ks /\ Rows' = ls
    BY <2>2 DEF Rows, RowsOf
  <2>4. c \in CompanyRows /\ n \in NoticeRows /\ t \in Int
    BY <1>1, MatchingAssumption DEF TypeOK, Maybe
  <2>5. /\ IsFiniteSet(ks) /\ ks \subseteq ContractRows
        /\ IsFiniteSet(ls) /\ ls \subseteq ContractRows
        /\ Experience(ks) \subseteq Experience(ls)
        /\ Running(ls, t) \subseteq Running(ks, t)
    <3>1. settled \in SUBSET signed
      BY <2>2
    <3> QED BY <2>2, <3>1, RowsAre DEF SettledRows, OpenRows
  <2>6. /\ Passed(n) <=> Passes(c, n, ks, t)
        /\ Passed(n)' <=> Passes(c, n, ls, t)
        /\ Points(n) = ComputeScore(c, n, ks)
        /\ Points(n)' = ComputeScore(c, n, ls)
    BY <2>2, <2>3 DEF Passed, Points
  <2> HIDE DEF ks, ls, c, t
  <2>7. Passes(c, n, ks, t) => Passes(c, n, ls, t)
    BY <2>4, <2>5, OwingLess
  <2>8. ComputeScore(c, n, ks) <= ComputeScore(c, n, ls)
    BY <2>4, <2>5, PointsGrow
  <2> QED BY <2>6, <2>7, <2>8
<1>2. TypeOK /\ TypeOK' /\ [Next]_vars => [Kept]_vars
  BY <1>1
<1> QED BY <1>2, TypeCorrect, PTL DEF Spec, SettlingNeverHurts

\* A contract that is signed takes capacity and is no experience yet: it never
\* admits a notice and changes no point (validateResidualCapacity,
\* computeExperienceMatch).
THEOREM SigningBlocksOnly == Spec => SigningNeverUnblocks
<1> DEFINE Kept == \A n \in notice : signed' # signed =>
                     /\ Passed(n)' => Passed(n)
                     /\ Points(n)' = Points(n)
<1>1. ASSUME TypeOK, TypeOK', [Next]_vars PROVE Kept
  <2> SUFFICES ASSUME NEW n \in notice, signed' # signed
               PROVE  /\ Passed(n)' => Passed(n)
                      /\ Points(n)' = Points(n)
    OBVIOUS
  <2>1. PICK k \in Contracts : Sign(k)
    BY <1>1 DEF Next, vars, Tick, Settle, UpdateProfile, AddKeyword, Import, Create, Bulk,
                UpdateDeadline, Classify
  <2>2. /\ UNCHANGED <<now, company, settled, notice>>
        /\ settled \in SUBSET signed /\ signed \in SUBSET signed'
        /\ signed' \in SUBSET Contracts
    BY <1>1, <2>1 DEF Sign, TypeOK
  <2> DEFINE ks == RowsOf(signed, settled)
             ls == RowsOf(signed', settled)
             c == company
             t == now
  <2>3. Rows = ks /\ Rows' = ls
    BY <2>2 DEF Rows, RowsOf
  <2>4. c \in CompanyRows /\ n \in NoticeRows /\ t \in Int
    BY <1>1, MatchingAssumption DEF TypeOK, Maybe
  <2>5. /\ IsFiniteSet(ks) /\ ks \subseteq ContractRows
        /\ IsFiniteSet(ls) /\ ls \subseteq ContractRows
        /\ Experience(ks) = Experience(ls)
        /\ Running(ks, t) \subseteq Running(ls, t)
    <3>1. signed \in SUBSET Contracts /\ settled \in SUBSET signed'
      BY <2>2
    <3>2. /\ IsFiniteSet(ks) /\ ks \subseteq ContractRows
          /\ Experience(ks) = SettledRows(settled)
          /\ Running(ks, t) = OpenRows(signed, settled, t)
      BY <2>2, RowsAre
    <3>3. /\ IsFiniteSet(ls) /\ ls \subseteq ContractRows
          /\ Experience(ls) = SettledRows(settled)
          /\ Running(ls, t) = OpenRows(signed', settled, t)
      BY <2>2, <3>1, RowsAre
    <3>4. OpenRows(signed, settled, t) \subseteq OpenRows(signed', settled, t)
      BY <2>2 DEF OpenRows
    <3> HIDE DEF ks, ls
    <3> QED BY <3>2, <3>3, <3>4
  <2>6. /\ Passed(n) <=> Passes(c, n, ks, t)
        /\ Passed(n)' <=> Passes(c, n, ls, t)
        /\ Points(n) = ComputeScore(c, n, ks)
        /\ Points(n)' = ComputeScore(c, n, ls)
    BY <2>2, <2>3 DEF Passed, Points
  <2> HIDE DEF ks, ls, c, t
  <2>7. Passes(c, n, ls, t) => Passes(c, n, ks, t)
    BY <2>4, <2>5, OwingLess
  <2>8. ComputeScore(c, n, ks) = ComputeScore(c, n, ls)
    BY <2>5, PointsOfExperience
  <2> QED BY <2>6, <2>7, <2>8
<1>2. TypeOK /\ TypeOK' /\ [Next]_vars => [Kept]_vars
  BY <1>1
<1> QED BY <1>2, TypeCorrect, PTL DEF Spec, SigningNeverUnblocks

-----------------------------------------------------------------------------
(* What time changes.                                                      *)

\* While only time goes by, a company never owes more.
LEMMA OwedFalls ==
  ASSUME NEW ks, IsFiniteSet(ks), ks \subseteq ContractRows,
         NEW t \in Int, NEW u \in Int, t <= u
  PROVE  Sce(ks, u) <= Sce(ks, t)
<1>1. Running(ks, u) \subseteq Running(ks, t)
  <2>1. \A k \in Running(ks, u) : k \in ks /\ k \in ContractRows /\ InExecution(k, u)
    BY DEF Running
  <2>2. \A k \in Running(ks, u) : InExecution(k, t)
    BY <2>1, BalanceFacts
  <2> QED BY <2>1, <2>2 DEF Running
<1> QED BY <1>1, SceGrows

\* The deadline is the first of the validations.
LEMMA DeadlineIsFirst ==
  ASSUME NEW c, NEW n, NEW ks, NEW t, ~DeadlineOpen(n, t)
  PROVE  Reason(c, n, ks, t) = "DEADLINE_EXPIRED"
<1> DEFINE v == Validations(c, n, ks, t)
           F == Failures(c, n, ks, t)
<1>1. DOMAIN v = 1 .. 7 /\ v[1].passed = DeadlineOpen(n, t)
      /\ v[1].reason = "DEADLINE_EXPIRED"
  BY DEF Validations
<1>2. F \in SUBSET (1 .. 7) /\ 1 \in F
  <2>1. F = {i \in DOMAIN v : ~v[i].passed}
    BY DEF Failures
  <2> HIDE DEF v
  <2>2. 1 \in 1 .. 7
    OBVIOUS
  <2> QED BY <1>1, <2>1, <2>2
<1>3. ~Passes(c, n, ks, t)
  BY <1>2 DEF Passes
<1>4. Reason(c, n, ks, t) = v[Min(F)].reason
  BY <1>3 DEF Reason
<1> HIDE DEF v, F
<1>5. Min(F) = 1
  <2>1. F \in SUBSET Nat /\ F # {}
    BY <1>2
  <2>2. Min(F) \in F /\ Min(F) <= 1
    BY <1>2, <2>1, HasMin
  <2>3. ASSUME NEW x \in 1 .. 7, x <= 1 PROVE x = 1
    BY <2>3
  <2>4. Min(F) \in 1 .. 7
    BY <1>2, <2>2
  <2> QED BY <2>2, <2>3, <2>4
<1> QED BY <1>1, <1>4, <1>5

\* As time goes by a notice is lost by its deadline or by the company's
\* second anniversary (validateDeadline, validateResidualCapacity).
THEOREM TimeOnlyExpires == Spec => WaitingOnlyExpires
<1> DEFINE Kept == \A n \in notice :
                     (now' # now /\ Passed(n) /\ ~Passed(n)') =>
                       \/ Reason(company, n, Rows, now)' = "DEADLINE_EXPIRED"
                       \/ Fcc(company, now)' < Fcc(company, now)
<1>1. ASSUME TypeOK, TypeOK', [Next]_vars PROVE Kept
  <2> SUFFICES ASSUME NEW n \in notice, now' # now, Passed(n), ~Passed(n)'
               PROVE  \/ Reason(company, n, Rows, now)' = "DEADLINE_EXPIRED"
                      \/ Fcc(company, now)' < Fcc(company, now)
    OBVIOUS
  <2>1. now' = now + 1 /\ UNCHANGED <<company, signed, settled, notice>>
    BY <1>1 DEF Next, vars, Tick, Sign, Settle, UpdateProfile, AddKeyword, Import,
                Create, Bulk, UpdateDeadline, Classify
  <2>2. Rows' = Rows
    BY <2>1 DEF Rows
  <2> DEFINE c == company
             ks == Rows
             t == now
             u == now'
  <2>3. /\ c \in CompanyRows /\ n \in NoticeRows /\ t \in Int /\ u \in Int /\ t <= u
        /\ IsFiniteSet(ks) /\ ks \subseteq ContractRows
    BY <1>1, <2>1, RowsType, MatchingAssumption DEF TypeOK, Maybe
  <2>4. /\ Passes(c, n, ks, t) /\ ~Passes(c, n, ks, u)
        /\ Reason(company, n, Rows, now)' = Reason(c, n, ks, u)
        /\ Fcc(company, now)' = Fcc(c, u) /\ Fcc(company, now) = Fcc(c, t)
    BY <2>1, <2>2 DEF Passed
  <2> HIDE DEF c, ks, t, u
  <2>5. CASE ~DeadlineOpen(n, u)
    BY <2>4, <2>5, DeadlineIsFirst
  <2>6. CASE DeadlineOpen(n, u)
    <3> SUFFICES ASSUME ~(Fcc(c, u) < Fcc(c, t)) PROVE FALSE
      BY <2>4
    <3>1. ~ResidualCapacity(c, n, ks, u) /\ ResidualCapacity(c, n, ks, t)
      BY <2>4, <2>6, PassesIs
    <3>2. /\ Fcc(c, t) \in Int /\ Fcc(c, u) \in Int
          /\ Sce(ks, t) \in Int /\ Sce(ks, u) \in Int
      BY <2>3, FccType, SceType
    <3>3. Fcc(c, t) <= Fcc(c, u) /\ Sce(ks, u) <= Sce(ks, t)
      BY <2>3, <3>2, OwedFalls
    <3> QED BY <2>3, <3>1, <3>2, <3>3, ResidualGrows
  <2> QED BY <2>5, <2>6
<1>2. TypeOK /\ TypeOK' /\ [Next]_vars => [Kept]_vars
  BY <1>1
<1> QED BY <1>2, TypeCorrect, PTL DEF Spec, WaitingOnlyExpires

-----------------------------------------------------------------------------
(* What a later deadline changes.                                          *)

\* A notice that gets another deadline keeps its duration (PATCH) or gets that
\* of the deadline (import).
LEMMA DurationStep ==
  ASSUME TypeOK, [Next]_vars, NEW n \in notice, NEW m \in notice',
         n.deadlineDate # m.deadlineDate
  PROVE  \/ m.executionDurationDays = n.executionDurationDays
         \/ m.executionDurationDays =
              Mapping!executionDurationDays(m.publicationDate, m.deadlineDate)
<1>0. n \in NoticeRows /\ notice = {n}
  BY DEF TypeOK, Maybe
<1>1. ASSUME NEW dto, notice' = {Mapping!toEntityShape(dto, keywords)}
      PROVE  m.executionDurationDays =
               Mapping!executionDurationDays(m.publicationDate, m.deadlineDate)
  BY <1>1 DEF Mapping!toEntityShape, Mapping!Row
<1>2. CASE notice' = notice
  BY <1>0, <1>2
<1>3. ASSUME NEW raw \in Records, Import(raw)
      PROVE  m.executionDurationDays =
               Mapping!executionDurationDays(m.publicationDate, m.deadlineDate)
  <2>1. \E dto : notice' = {Mapping!toEntityShape(dto, keywords)}
    BY <1>3 DEF Import
  <2> QED BY <1>1, <2>1
<1>4. ASSUME NEW dto \in Uploads, Bulk(dto)
      PROVE  m.executionDurationDays =
               Mapping!executionDurationDays(m.publicationDate, m.deadlineDate)
  BY <1>1, <1>4 DEF Bulk
<1>5. ASSUME NEW dto \in Uploads, Create(dto) PROVE FALSE
  BY <1>5 DEF Create
<1>6. ASSUME NEW d \in Deadlines, UpdateDeadline(d)
      PROVE  m.executionDurationDays = n.executionDurationDays
  BY <1>0, <1>6 DEF UpdateDeadline, NoticeRows
<1>7. ASSUME Classify PROVE m.deadlineDate = n.deadlineDate
  BY <1>0, <1>7 DEF Classify, NoticeRows
<1> QED
  BY <1>2, <1>3, <1>4, <1>5, <1>6, <1>7
  DEF Next, vars, Tick, UpdateProfile, Sign, Settle, AddKeyword

\* A later deadline makes a duration no shorter.
LEMMA DurationIs ==
  ASSUME NEW P \in Maybe(Int), NEW d \in Int, NEW e \in Int, d <= e
  PROVE  \A x \in Mapping!executionDurationDays(P, {d}) :
           \E y \in Mapping!executionDurationDays(P, {e}) : x \in Nat /\ y \in Nat /\ x <= y
<1>1. CASE P = {}
  BY <1>1 DEF Mapping!executionDurationDays
<1>2. ASSUME NEW p \in P
      PROVE  \A x \in Mapping!executionDurationDays(P, {d}) :
               \E y \in Mapping!executionDurationDays(P, {e}) :
                 x \in Nat /\ y \in Nat /\ x <= y
  <2>1. P = {p} /\ p \in Int
    BY MaybeOf
  <2> DEFINE days(q) == -((p - q) \div Day)
  <2>2. ASSUME NEW q
        PROVE  Mapping!executionDurationDays(P, {q}) = {x \in {days(q)} : x >= 0}
    BY <2>1 DEF Mapping!executionDurationDays
  <2>3. days(d) \in Int /\ days(e) \in Int /\ days(d) <= days(e)
    <3>1. (p - e) \div Day <= (p - d) \div Day
      BY <2>1, EngineAssumption, DivGrows
    <3>2. (p - e) \div Day \in Int /\ (p - d) \div Day \in Int
      BY <2>1, EngineAssumption
    <3> QED BY <3>1, <3>2
  <2> HIDE DEF days
  <2>4. CASE days(d) >= 0
    <3>1. days(d) \in Nat /\ days(e) \in Nat
      BY <2>3, <2>4
    <3>2. Mapping!executionDurationDays(P, {d}) = {days(d)}
          /\ Mapping!executionDurationDays(P, {e}) = {days(e)}
      <4>1. ASSUME NEW z \in Nat PROVE {x \in {z} : x >= 0} = {z}
        OBVIOUS
      <4> QED BY <2>2, <3>1, <4>1
    <3> QED BY <2>3, <3>1, <3>2
  <2>5. CASE ~(days(d) >= 0)
    BY <2>2, <2>5
  <2> QED BY <2>4, <2>5
<1> QED BY <1>1, <1>2

\* The days that a value flows over: never less than a month.
LEMMA FlowIs ==
  ASSUME NEW n, n.executionDurationDays \in Maybe(Nat)
  PROVE  /\ FlowDays(n) \in Nat /\ FlowDays(n) >= 30
         /\ n.executionDurationDays = {} => FlowDays(n) = 30
         /\ \A x \in n.executionDurationDays :
              FlowDays(n) = IF x <= 30 THEN 30 ELSE x
<1>1. ASSUME NEW y \in Nat PROVE Max({30, y}) = IF y <= 30 THEN 30 ELSE y
  BY DEF Max
<1>2. CASE n.executionDurationDays = {}
  <2>1. DurationDays(n) = 30
    BY <1>2 DEF DurationDays
  <2>2. FlowDays(n) = 30
    BY <1>1, <2>1 DEF FlowDays
  <2> QED BY <1>2, <2>2
<1>3. ASSUME NEW x \in n.executionDurationDays
      PROVE  FlowDays(n) = IF x <= 30 THEN 30 ELSE x
  <2>1. n.executionDurationDays = {x} /\ The(n.executionDurationDays) = x /\ x \in Nat
    BY MaybeOf
  <2>2. DurationDays(n) = IF x = 0 THEN 30 ELSE x
    BY <2>1 DEF DurationDays
  <2>3. DurationDays(n) \in Nat
    BY <2>1, <2>2
  <2>4. FlowDays(n) = IF DurationDays(n) <= 30 THEN 30 ELSE DurationDays(n)
    BY <1>1, <2>3 DEF FlowDays
  <2> QED BY <2>1, <2>2, <2>4
<1>4. \A x \in n.executionDurationDays : x \in Nat
  BY DEF Maybe
<1> QED BY <1>2, <1>3, <1>4

\* A value that flows over more days asks for no more capital.
LEMMA FlowGrows ==
  ASSUME NEW c \in CompanyRows, NEW n \in NoticeRows, NEW m \in NoticeRows,
         m.value = n.value, FlowDays(n) <= FlowDays(m),
         FlowDays(n) \in Nat, FlowDays(m) \in Nat, 30 <= FlowDays(n),
         c.workingCapital >= 0 \/ Value(n) >= 0
  PROVE  CashFlowCapacity(c, n) <= CashFlowCapacity(c, m)
<1> DEFINE w == c.workingCapital
           f == FlowDays(n)
           g == FlowDays(m)
           v == Value(n)
<1>1. w \in Int /\ v \in Int /\ Value(m) = v
  BY ValueType DEF CompanyRows, Value
<1>2. /\ CashFlowCapacity(c, n) = CASE w * f >= 90 * v -> 1000
            [] w * f < 90 * v /\ w * f >= 45 * v -> 500 [] OTHER -> 0
      /\ CashFlowCapacity(c, m) = CASE w * g >= 90 * v -> 1000
            [] w * g < 90 * v /\ w * g >= 45 * v -> 500 [] OTHER -> 0
  BY <1>1 DEF CashFlowCapacity
<1>3. f \in Nat /\ g \in Nat /\ f <= g /\ 30 <= f
  OBVIOUS
<1>4. w >= 0 \/ v >= 0
  OBVIOUS
<1> HIDE DEF w, f, g, v
<1> DEFINE a == w * f
           b == w * g
<1>5. a \in Int /\ b \in Int
  BY <1>1, <1>3
<1>6. CASE w >= 0
  <2>1. a <= b
    BY <1>1, <1>3, <1>6, TimesGrows
  <2> HIDE DEF a, b
  <2> QED BY <1>1, <1>2, <1>5, <2>1 DEF a, b
<1>7. CASE w < 0 /\ v >= 0
  <2>1. a < 0 /\ b < 0
    BY <1>1, <1>3, <1>7
  <2> HIDE DEF a, b
  <2>2. ~(a >= 90 * v) /\ ~(a >= 45 * v)
    BY <1>1, <1>5, <1>7, <2>1
  <2>3. ~(b >= 90 * v) /\ ~(b >= 45 * v)
    BY <1>1, <1>5, <1>7, <2>1
  <2> QED BY <1>2, <2>2, <2>3 DEF a, b
<1> QED BY <1>1, <1>4, <1>6, <1>7

\* A later deadline never costs a notice its place, nor points where its
\* duration was that of the deadline (validateDeadline, computeEconomicFit).
THEOREM PostponingKeeps == Spec => PostponingNeverHurts
<1> DEFINE Kept == \A n \in notice, m \in notice' : Postponed(n, m) =>
                     /\ Passed(n) => Passes(company, m, Rows, now)
                     /\ DurationIsCurrent(n) /\ FlowHelps(n) => Points(m) >= Points(n)
<1>1. ASSUME TypeOK, TypeOK', [Next]_vars PROVE Kept
  <2> SUFFICES ASSUME NEW n \in notice, NEW m \in notice', Postponed(n, m)
               PROVE  /\ Passed(n) => Passes(company, m, Rows, now)
                      /\ DurationIsCurrent(n) /\ FlowHelps(n) => Points(m) >= Points(n)
    OBVIOUS
  <2>1. /\ company \in CompanyRows /\ n \in NoticeRows /\ m \in NoticeRows /\ now \in Int
        /\ IsFiniteSet(Rows) /\ Rows \subseteq ContractRows
    BY <1>1, RowsType, MatchingAssumption DEF TypeOK, Maybe
  <2>2. PICK d \in n.deadlineDate : \E e \in m.deadlineDate : d < e
    BY DEF Postponed
  <2>3. PICK e \in m.deadlineDate : d < e
    BY <2>2
  <2>4. /\ n.deadlineDate = {d} /\ m.deadlineDate = {e} /\ d \in Int /\ e \in Int
    <3>1. n.deadlineDate \in Maybe(Int) /\ m.deadlineDate \in Maybe(Int)
      BY <2>1 DEF NoticeRows
    <3> QED BY <2>2, <2>3, <3>1, MaybeOf
  <2>5. /\ m.source = n.source /\ m.description = n.description
        /\ m.entityNit = n.entityNit /\ m.value = n.value
        /\ m.publicationDate = n.publicationDate
        /\ m.contractingModality = n.contractingModality
        /\ m.contractType = n.contractType /\ m.unspscCode = n.unspscCode
        /\ m.department = n.department
    <3> DEFINE x == m.deadlineDate
               y == m.executionDurationDays
    <3>1. m = [n EXCEPT !.deadlineDate = x, !.executionDurationDays = y]
      BY DEF Postponed
    <3> HIDE DEF x, y
    <3> QED BY <2>1, <3>1 DEF NoticeRows
  <2>6. Passed(n) => Passes(company, m, Rows, now)
    <3> SUFFICES ASSUME Passes(company, n, Rows, now)
                 PROVE  Passes(company, m, Rows, now)
      BY DEF Passed
    <3>1. DeadlineOpen(n, now)
      BY PassesIs
    <3>2. DeadlineOpen(m, now)
      BY <2>1, <2>3, <2>4, <2>5, <3>1 DEF DeadlineOpen
    <3>3. /\ NotExcluded(m.contractingModality, company.excludedModalities)
          /\ NotExcluded(m.contractType, company.excludedContractTypes)
      BY <2>5, PassesIs
    <3>4. FinancialCapacity(company, m)
      BY <2>5, PassesIs DEF FinancialCapacity
    <3>5. GeographicCoverage(company, m)
      BY <2>5, PassesIs DEF GeographicCoverage
    <3>6. UnspscHierarchy(company, m)
      BY <2>5, PassesIs DEF UnspscHierarchy, UnspscCode
    <3>7. ResidualCapacity(company, m, Rows, now)
      BY <2>5, PassesIs DEF ResidualCapacity, IsObra
    <3> QED BY <3>2, <3>3, <3>4, <3>5, <3>6, <3>7, PassesIs
  <2>7. ASSUME DurationIsCurrent(n), FlowHelps(n)
        PROVE  Points(m) >= Points(n)
    <3>1. FlowDays(n) <= FlowDays(m) /\ FlowDays(n) \in Nat /\ FlowDays(m) \in Nat
          /\ 30 <= FlowDays(n)
      <4>1. n.executionDurationDays \in Maybe(Nat) /\ m.executionDurationDays \in Maybe(Nat)
            /\ n.publicationDate \in Maybe(Int)
        BY <2>1 DEF NoticeRows
      <4>2. /\ FlowDays(n) \in Nat /\ FlowDays(m) \in Nat
            /\ 30 <= FlowDays(n) /\ 30 <= FlowDays(m)
            /\ n.executionDurationDays = {} => FlowDays(n) = 30
            /\ \A x \in n.executionDurationDays :
                 FlowDays(n) = IF x <= 30 THEN 30 ELSE x
            /\ \A x \in m.executionDurationDays :
                 FlowDays(m) = IF x <= 30 THEN 30 ELSE x
        BY <4>1, FlowIs
      <4> DEFINE D == Mapping!executionDurationDays(n.publicationDate, {d})
                 E == Mapping!executionDurationDays(n.publicationDate, {e})
      <4>3. \A x \in D : \E y \in E : x \in Nat /\ y \in Nat /\ x <= y
        <5>1. d \in Int /\ e \in Int /\ d <= e
          BY <2>3, <2>4
        <5>2. n.publicationDate \in Maybe(Int)
          BY <4>1
        <5> QED BY <5>1, <5>2, DurationIs
      <4>4. n.executionDurationDays \in {{}, D}
        BY <2>4, <2>7 DEF DurationIsCurrent
      <4>5. m.executionDurationDays = n.executionDurationDays \/ m.executionDurationDays = E
        <5>1. n.deadlineDate # m.deadlineDate
          BY <2>3, <2>4
        <5> QED BY <1>1, <2>4, <2>5, <5>1, DurationStep
      <4> HIDE DEF D, E
      <4>6. CASE n.executionDurationDays = {}
        BY <4>2, <4>6
      <4>7. CASE m.executionDurationDays = n.executionDurationDays
                 /\ n.executionDurationDays # {}
        <5>1. PICK x \in n.executionDurationDays : TRUE
          BY <4>7
        <5>2. FlowDays(n) = (IF x <= 30 THEN 30 ELSE x)
              /\ FlowDays(m) = (IF x <= 30 THEN 30 ELSE x)
          BY <4>2, <4>7, <5>1
        <5> QED BY <4>2, <5>2
      <4>8. CASE m.executionDurationDays = E /\ n.executionDurationDays # {}
        <5>1. PICK x \in n.executionDurationDays : \E y \in E : x \in Nat /\ y \in Nat /\ x <= y
          BY <4>3, <4>4, <4>8
        <5>3. PICK y \in E : x \in Nat /\ y \in Nat /\ x <= y
          BY <5>1
        <5>2. FlowDays(n) = (IF x <= 30 THEN 30 ELSE x)
              /\ FlowDays(m) = (IF y <= 30 THEN 30 ELSE y)
          BY <4>2, <4>8, <5>1, <5>3
        <5> QED BY <5>2, <5>3
      <4> QED BY <4>5, <4>6, <4>7, <4>8
    <3>2. CashFlowCapacity(company, n) <= CashFlowCapacity(company, m)
      BY <2>1, <2>5, <2>7, <3>1, FlowGrows DEF FlowHelps
    <3>3. TicketDeviation(company, m) = TicketDeviation(company, n)
      BY <2>5 DEF TicketDeviation, Value
    <3>4. /\ TechnicalFit(company, m) = TechnicalFit(company, n)
          /\ ExperienceMatch(m, Rows) = ExperienceMatch(n, Rows)
          /\ AffinityGeographical(company, m, Rows) = AffinityGeographical(company, n, Rows)
      BY <2>5 DEF TechnicalFit, UnspscMatch, UnspscCode, BestSimilarity, ExperienceMatch,
                  UnspscDensity, AffinityGeographical, ClientAffinity, GeographicPresence
    <3> DEFINE t == TechnicalFit(company, n)
               v == TicketDeviation(company, n)
               f == CashFlowCapacity(company, n)
               g == CashFlowCapacity(company, m)
               x == ExperienceMatch(n, Rows)
               a == AffinityGeographical(company, n, Rows)
    <3>5. ASSUME t # NotANumber
          PROVE  /\ Points(n) = t + (v + f) + x + a
                 /\ Points(m) = t + (v + g) + x + a
      BY <3>3, <3>4, <3>5, ScoreIs DEF Points, EconomicFit
    <3>8. ASSUME t = NotANumber PROVE Points(n) = -1 /\ Points(m) = -1
      BY <3>4, <3>8, ScoreIs DEF Points, NotANumber
    <3>6. /\ t \in Int /\ v \in Int /\ f \in Int /\ g \in Int /\ x \in Int /\ a \in Int
      <4>1. /\ t \in Int /\ v \in Int /\ f \in Int /\ g \in Int
        BY <2>1, PartsType
      <4>2. x \in Int /\ a \in Int
        BY <2>1, PartsType DEF ExperienceMatch, AffinityGeographical
      <4> QED BY <4>1, <4>2
    <3>7. f <= g
      BY <3>2
    <3> HIDE DEF t, v, f, g, x, a
    <3> QED BY <3>5, <3>6, <3>7, <3>8
  <2> QED BY <2>6, <2>7
<1>2. TypeOK /\ TypeOK' /\ [Next]_vars => [Kept]_vars
  BY <1>1
<1> QED BY <1>2, TypeCorrect, PTL DEF Spec, PostponingNeverHurts

=============================================================================
