--------------------------- MODULE TextSimilarity ---------------------------
(***************************************************************************)
(* The TF-IDF cosine of two texts (text-similarity.utils.ts).              *)
(*                                                                         *)
(* A text is a sequence of words in lower case and without accents.  The   *)
(* two texts are the whole corpus, so a word is in one of them or in both, *)
(* and its weight has two values.  The cosine is kept in hundredths,       *)
(* rounded down.                                                           *)
(*                                                                         *)
(* Words are counted in a plain object, which has the names of its         *)
(* prototype before anything is counted: the count of such a word is a     *)
(* text or a function, and all that is computed from it is no number.  Of  *)
(* those names only "constructor" is a word in lower case.                 *)
(***************************************************************************)
EXTENDS Integers, Sequences, FiniteSets, FiniteSetsExt

CONSTANTS
  StopWords,  \* words that tokenize drops
  InheritedWords,  \* words that are names of Object.prototype
  Texts       \* names and descriptions

ASSUME TextsAssumption == Texts \subseteq Seq(STRING)

\* NaN: no count, cosine or score is negative.
NotANumber == -1

\* The words that are kept, where they stand in the text: nothing that reads
\* them minds the gaps.
tokenize(text) ==
  [i \in {j \in DOMAIN text : text[j] \notin StopWords} |-> text[i]]

WordsOf(tokens) == {tokens[i] : i \in DOMAIN tokens}

\* (tf[w] || 0) + 1 for each w, and tf[w] of a text without it, which is 0
\* unless the object has it from its prototype.
calculateTermFrequency(tokens, w) ==
  IF w \in InheritedWords THEN NotANumber
  ELSE Cardinality({i \in DOMAIN tokens : tokens[i] = w})

\* The square of idf = ln(3 / (1 + df)) + 1, in tenths: df is 2 for a word of
\* both texts and 1 for a word of one.
IdfSquared(a, b, w) ==
  IF w \in WordsOf(a) \cap WordsOf(b) THEN 10 ELSE 20

DotProduct(a, b) ==
  SumFunction([w \in WordsOf(a) \cup WordsOf(b) |->
    IdfSquared(a, b, w) * calculateTermFrequency(a, w)
      * calculateTermFrequency(b, w)])

LengthOfFlatTf(a, b) ==
  SumFunction([w \in WordsOf(a) \cup WordsOf(b) |->
    IdfSquared(a, b, w) * calculateTermFrequency(a, w)])
\* The square of the length of the vector of a, next to b.
LengthOf(a, b) ==
  SumFunction([w \in WordsOf(a) \cup WordsOf(b) |->
    IdfSquared(a, b, w) * calculateTermFrequency(a, w)
      * calculateTermFrequency(a, w)])

\* Both vectors have every word of both texts, so one of them without a
\* count is enough for both lengths to be none.
Countless(a, b) ==
  \E w \in WordsOf(a) \cup WordsOf(b) : calculateTermFrequency(a, w) = NotANumber

\* similarity = dot / (|a| |b|), clamped to 0 .. 1, which keeps NaN.
calculateCosineSimilarityFromVectors(a, b) ==
  LET dot == 100 * DotProduct(a, b)
      lengths == LengthOf(a, b) * LengthOf(b, a)
  IN Max({s \in 0 .. 100 : s * s * lengths <= dot * dot})

cosineSimilarity(text1, text2) ==
  LET a == tokenize(text1)
      b == tokenize(text2)
  IN IF DOMAIN a = {} \/ DOMAIN b = {} THEN 0
     ELSE IF Countless(a, b) THEN NotANumber
     ELSE calculateCosineSimilarityFromVectors(a, b)

Cosine == [a \in Texts |-> [b \in Texts |-> cosineSimilarity(a, b)]]

=============================================================================
