-------------------------- MODULE ChangeFeedProofs --------------------------
(***************************************************************************)
(* The change feed keeps its promise.  SodaIngestionProofs shows that the  *)
(* ingestion implements the feed, so the ingestion keeps it too.           *)
(***************************************************************************)
EXTENDS ChangeFeed, TLAPS

\* Cursors and clocks are stamps, and a cursor is no later than its clock
\* unless the operator put it there: only what lies below the floor can
\* still be published at or below the cursor.
FeedOk(s) ==
  /\ clock[s] \in Nat /\ cursor[s] \in Nat /\ floor[s] \in Nat
  /\ pub[s] \subseteq Version
  /\ cursor[s] <= clock[s] \/ cursor[s] = floor[s]
  /\ Owed(s, cursor[s]) \subseteq delivered[s]

Shape ==
  /\ clock = [s \in Sources |-> clock[s]]
  /\ cursor = [s \in Sources |-> cursor[s]]
  /\ floor = [s \in Sources |-> floor[s]]
  /\ pub = [s \in Sources |-> pub[s]]
  /\ delivered = [s \in Sources |-> delivered[s]]

PromiseInv == Shape /\ \A s \in Sources : FeedOk(s)

LEMMA StampNat ==
  ASSUME MaxTime \in Nat, NEW v \in Version
  PROVE  v.stamp \in Nat
  BY DEF Version

LEMMA PromiseInit == Init => PromiseInv
<1> SUFFICES ASSUME Init PROVE PromiseInv
  OBVIOUS
<1>1. Shape
  BY DEF Init, Shape
<1>2. ASSUME NEW s \in Sources PROVE FeedOk(s)
  BY DEF Init, FeedOk, Owed
<1> QED BY <1>1, <1>2 DEF PromiseInv

LEMMA PromiseStep ==
  ASSUME MaxTime \in Nat PROVE PromiseInv /\ [Next]_vars => PromiseInv'
<1> SUFFICES ASSUME PromiseInv, [Next]_vars PROVE PromiseInv'
  OBVIOUS
<1>a. Shape /\ \A s \in Sources : FeedOk(s)
  BY DEF PromiseInv
<1>1. ASSUME NEW u \in Sources, NEW v \in Version, Publish(u, v)
      PROVE  PromiseInv'
  <2>1. Shape'
    BY <1>1, <1>a DEF Publish, Shape
  <2>2. ASSUME NEW s \in Sources PROVE FeedOk(s)'
    <3>1. CASE s # u
      BY <1>1, <1>a, <3>1 DEF Publish, Shape, FeedOk, Owed
    <3>2. CASE s = u
      <4>1. /\ \/ v.stamp = 0 /\ clock'[s] = clock[s]
               \/ clock'[s] = v.stamp /\ clock[s] < v.stamp
            /\ cursor'[s] = cursor[s] /\ floor'[s] = floor[s]
            /\ delivered'[s] = delivered[s]
            /\ pub'[s] \subseteq pub[s] \cup {v}
        <5>1. pub' = [pub EXCEPT ![s] = {w \in @ : w.rec # v.rec} \cup {v}]
          BY <1>1, <3>2 DEF Publish
        <5>2. pub'[s] \subseteq pub[s] \cup {v}
          BY <1>a, <5>1 DEF Shape
        <5>3. clock'[s] = IF v.stamp = 0 THEN clock[s] ELSE v.stamp
          BY <1>1, <1>a, <3>2 DEF Publish, Shape
        <5> QED BY <1>1, <1>a, <3>2, <5>2, <5>3 DEF Publish, Shape
      <4>2. v.stamp \in Nat /\ FeedOk(s)
        BY <1>a, StampNat
      <4>3. v \notin Owed(s, cursor[s])'
        BY <4>1, <4>2 DEF FeedOk, Owed
      <4>4. Owed(s, cursor[s])' \subseteq Owed(s, cursor[s])
        BY <4>1, <4>3 DEF Owed
      <4>5. cursor'[s] <= clock'[s] \/ cursor'[s] = floor'[s]
        BY <4>1, <4>2 DEF FeedOk
      <4> QED BY <4>1, <4>2, <4>4, <4>5 DEF FeedOk
    <3> QED BY <3>1, <3>2
  <2> QED BY <2>1, <2>2 DEF PromiseInv
<1>2. ASSUME NEW u \in Sources, NEW t \in 1 .. MaxTime, Seed(u, t)
      PROVE  PromiseInv'
  <2>1. Shape'
    BY <1>2, <1>a DEF Seed, Shape
  <2>2. ASSUME NEW s \in Sources PROVE FeedOk(s)'
    <3>1. CASE s # u
      BY <1>2, <1>a, <3>1 DEF Seed, Shape, FeedOk, Owed
    <3>2. CASE s = u
      <4>1. /\ cursor'[s] = t /\ floor'[s] = t
            /\ UNCHANGED <<pub, clock, delivered>>
        BY <1>2, <1>a, <3>2 DEF Seed, Shape
      <4>2. Owed(s, cursor[s])' = {}
        BY <1>a, <4>1, StampNat DEF Owed, FeedOk
      <4> QED BY <1>a, <4>1, <4>2 DEF FeedOk
    <3> QED BY <3>1, <3>2
  <2> QED BY <2>1, <2>2 DEF PromiseInv
<1>3. ASSUME NEW u \in Sources, NEW t \in 1 .. MaxTime, Advance(u, t)
      PROVE  PromiseInv'
  <2>1. Shape'
    BY <1>3, <1>a DEF Advance, Shape
  <2>2. ASSUME NEW s \in Sources PROVE FeedOk(s)'
    <3>1. CASE s # u
      BY <1>3, <1>a, <3>1 DEF Advance, Shape, FeedOk, Owed
    <3>2. CASE s = u
      <4>1. /\ cursor'[s] = t /\ t <= clock[s]
            /\ Owed(s, t) \subseteq delivered[s]
            /\ UNCHANGED <<pub, clock, floor, delivered>>
        BY <1>3, <1>a, <3>2 DEF Advance, Shape
      <4> QED BY <1>a, <4>1 DEF FeedOk, Owed
    <3> QED BY <3>1, <3>2
  <2> QED BY <2>1, <2>2 DEF PromiseInv
<1>4. ASSUME NEW u \in Sources, Deliver(u)
      PROVE  PromiseInv'
  BY <1>4, <1>a DEF Deliver, Shape, FeedOk, Owed, PromiseInv
<1>5. CASE UNCHANGED vars
  BY <1>5, <1>a DEF vars, Shape, FeedOk, Owed, PromiseInv
<1> QED BY <1>1, <1>2, <1>3, <1>4, <1>5 DEF Next

\* Whatever a dataset holds above the operator's seed and at or below the
\* cursor has been handed over: nobody has to look below the cursor again.
THEOREM PromiseKept ==
  ASSUME MaxTime \in Nat PROVE Spec => []Promise
<1>1. PromiseInv => Promise
  BY DEF PromiseInv, FeedOk, Promise
<1>2. PromiseInv /\ [Next]_vars => PromiseInv'
  BY PromiseStep
<1> QED BY <1>1, <1>2, PromiseInit, PTL DEF Spec

=============================================================================
