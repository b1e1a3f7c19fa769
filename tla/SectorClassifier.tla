--------------------------- MODULE SectorClassifier ---------------------------
(***************************************************************************)
(* Keyword scoring of a title (sector-classifier.utils.ts).                *)
(*                                                                         *)
(* Titles and keywords are normalised, and are sequences of symbols; a     *)
(* keyword may be empty.  Weights are in tenths.                           *)
(***************************************************************************)
EXTENDS Integers, Sequences, FiniteSets, FiniteSetsExt

CONSTANT Sectors   \* the sectors in alphabetical order

\* String.includes: anywhere in the title, inside a word too, and the empty
\* keyword everywhere.
Includes(title, keyword) ==
  \E i \in 0 .. Len(title) - Len(keyword) :
    SubSeq(title, i + 1, i + Len(keyword)) = keyword

\* The rows of a sector whose keyword the title includes.
Hits(title, keywords, sector) ==
  {k \in keywords : k.sector = sector /\ Includes(title, k.keyword)}

SectorScoreOverwritten(title, keywords, sector) ==
  (CHOOSE k \in Hits(title, keywords, sector) :
     \A l \in Hits(title, keywords, sector) : l.id <= k.id).weight
\* The score of a sector that has hits.
SectorScore(title, keywords, sector) ==
  SumFunction([k \in Hits(title, keywords, sector) |-> k.weight])

\* The first sector of the highest score, if that is positive.
classify(title, keywords) ==
  LET scored == {i \in DOMAIN Sectors : Hits(title, keywords, Sectors[i]) # {}}
      score(i) == SectorScore(title, keywords, Sectors[i])
      winners == {i \in scored : /\ score(i) > 0
                                 /\ \A j \in scored : score(j) <= score(i)}
  IN IF winners = {} THEN "Otros" ELSE Sectors[Min(winners)]

=============================================================================
