----------------------------- MODULE ChangeFeed -----------------------------
(***************************************************************************)
(* What incremental ingestion of the open-data datasets promises, without  *)
(* cycles, pages, micro-batches or failures: an at-least-once feed.        *)
(*                                                                         *)
(* A dataset holds the current version of each record, stamped with the    *)
(* value of its ordering field.  The feed hands versions over, in any      *)
(* order and any number of times, and keeps one cursor per dataset.  The   *)
(* cursor is a promise: whatever the dataset still holds at or below it    *)
(* has been handed over, so nobody has to look there again.                *)
(***************************************************************************)
EXTENDS Naturals

CONSTANTS
  Sources,     \* the datasets
  Recs,        \* record identifiers
  Kinds,       \* what a version is: see SodaIngestion
  MaxTime      \* the last stamp a dataset can give

VARIABLES
  pub,         \* pub[s]: the versions dataset s holds, one per record
  clock,       \* clock[s]: the last stamp dataset s has given
  cursor,      \* cursor[s]: the promise, 0 when nothing is promised
  floor,       \* floor[s]: what the operator asked to skip
  delivered    \* delivered[s]: the versions handed over

vars == <<pub, clock, cursor, floor, delivered>>

\* Stamp 0: no value of the ordering field.
Version == [rec : Recs, stamp : 0 .. MaxTime, kind : Kinds]

\* The versions a cursor at t answers for.  Dead ones are never wanted, and
\* for those without a stamp no cursor answers.
Owed(s, t) ==
  {v \in pub[s] : v.kind # "dead" /\ floor[s] < v.stamp /\ v.stamp <= t}

Init ==
  /\ pub = [s \in Sources |-> {}]
  /\ clock = [s \in Sources |-> 0]
  /\ cursor = [s \in Sources |-> 0]
  /\ floor = [s \in Sources |-> 0]
  /\ delivered = [s \in Sources |-> {}]

\* The dataset stamps a new version of a record later than all others, or
\* not at all.
Publish(s, v) ==
  /\ v \in Version
  /\ clock[s] < v.stamp \/ v.stamp = 0
  /\ clock' = [clock EXCEPT ![s] = IF v.stamp = 0 THEN @ ELSE v.stamp]
  /\ pub' = [pub EXCEPT ![s] = {w \in @ : w.rec # v.rec} \cup {v}]
  /\ UNCHANGED <<cursor, floor, delivered>>

\* The operator starts the feed at t: what lies at or below it is not owed.
Seed(s, t) ==
  /\ cursor[s] = 0
  /\ cursor' = [cursor EXCEPT ![s] = t]
  /\ floor' = [floor EXCEPT ![s] = t]
  /\ UNCHANGED <<pub, clock, delivered>>

\* Versions the dataset has published, current or meanwhile replaced.
Deliver(s) ==
  /\ \A v \in delivered'[s] \ delivered[s] :
       v \in Version /\ v.stamp <= clock[s]
  /\ delivered' = [delivered EXCEPT ![s] = @ \cup delivered'[s]]
  /\ UNCHANGED <<pub, clock, cursor, floor>>

\* Nothing is promised of stamps the dataset has not given yet.
Advance(s, t) ==
  /\ cursor[s] < t
  /\ t <= clock[s]
  /\ Owed(s, t) \subseteq delivered[s]
  /\ cursor' = [cursor EXCEPT ![s] = t]
  /\ UNCHANGED <<pub, clock, floor, delivered>>

Next ==
  \E s \in Sources :
    \/ \E v \in Version : Publish(s, v)
    \/ \E t \in 1 .. MaxTime : Seed(s, t) \/ Advance(s, t)
    \/ Deliver(s)

Spec == Init /\ [][Next]_vars

-----------------------------------------------------------------------------
\* The promise itself: nothing a dataset holds between the floor and the
\* cursor is still owed.  SodaIngestion!CursorCovers is this promise, read
\* off the ingestion_state rows.
Promise == \A s \in Sources : Owed(s, cursor[s]) \subseteq delivered[s]

=============================================================================
