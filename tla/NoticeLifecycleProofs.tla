------------------------ MODULE NoticeLifecycleProofs ------------------------
(***************************************************************************)
(* Theorems about NoticeLifecycle for any number of calls in flight, any   *)
(* operations enabled and any statuses given.                              *)
(*                                                                         *)
(* What makes the argument work although calls overwrite each other: the   *)
(* status a call has read is one the row has held, and the check was made  *)
(* against that status.                                                    *)
(***************************************************************************)
EXTENDS NoticeLifecycle, TLAPS

\* A call that is not over read a status the row has held, and what it
\* asks for was allowed from there; the scoring worker asks for SCORING.
CallOk(q) ==
  call[q].pc # "idle" =>
    LET a == call[q].ask
    IN /\ row.exists
       /\ call[q].copy.status \in held
       /\ a.op = "dispatch" => a.status = "SCORING"
       /\ (a.op # "dispatch" /\ a.status # "keep")
            => CanTransition(call[q].copy.status, a.status)

LifecycleInv ==
  /\ TypeOK
  /\ row.exists => row.status \in held
  /\ StagesInOrder
  /\ \A q \in Calls : CallOk(q)

-----------------------------------------------------------------------------
(* Types.                                                                  *)

LEMMA AsksType == Asks \subseteq Ask
  BY DEF Asks, Ask, AllOps, Statuses

LEMMA IdleType == NoRow \in Row /\ Idle \in Call
<1> USE LifecycleAssumption
<1>1. NoRow \in Row
  BY DEF NoRow, Row, Statuses
<1>2. [op |-> "update", status |-> "keep", title |-> "keep"] \in Ask
  BY DEF Ask, AllOps
<1> QED BY <1>1, <1>2 DEF Idle, Call

LEMMA TypeInit == Init => TypeOK
  BY IdleType DEF Init, TypeOK

\* What a call saves is a row, with a status it read or asked for.
LEMMA EntityType ==
  ASSUME TypeOK, NEW q \in Calls
  PROVE  /\ Entity(q) \in Row
         /\ Entity(q).status = Or(call[q].copy.status, call[q].ask.status)
<1>1. call[q] \in Call
  BY DEF TypeOK
<1> QED BY <1>1 DEF Entity, Or, Call, Ask, Row

\* What a save leaves in the row: a row, whose status is the one it had or
\* the one of the entity.
LEMMA SaveType ==
  ASSUME TypeOK, NEW q \in Calls, Save(q)
  PROVE  /\ row' \in Row
         /\ row'.exists = row.exists
         /\ row'.status = row.status \/ row'.status = Entity(q).status
<1> DEFINE e == Entity(q)
           was == call[q].seen
           s == Column(row.status, was.status, e.status)
           t == Column(row.title, was.title, e.title)
           d == Column(row.deleted, was.deleted, e.deleted)
<1>1. /\ row \in Row /\ e \in Row
  BY EntityType DEF TypeOK
<1>2. /\ s \in Statuses /\ t \in Titles /\ d \in BOOLEAN
      /\ s = row.status \/ s = e.status
  BY <1>1 DEF Column, Row
<1>3. row' = [row EXCEPT !.status = s, !.title = t, !.deleted = d]
  BY DEF Save
<1>4. row' = [exists |-> row.exists, status |-> s, title |-> t, deleted |-> d]
  <2> HIDE DEF s, t, d
  <2> QED BY <1>1, <1>3 DEF Row
<1> HIDE DEF s, t, d
<1> QED BY <1>1, <1>2, <1>4 DEF Row

LEMMA TypeStep == TypeOK /\ [Next]_vars => TypeOK'
<1> SUFFICES ASSUME TypeOK, [Next]_vars PROVE TypeOK'
  OBVIOUS
<1> USE LifecycleAssumption
<1>1. ASSUME NEW s \in Given, NEW t \in Titles, Create(s, t)
      PROVE  TypeOK'
  BY <1>1 DEF Create, Give, TypeOK, Row
<1>2. ASSUME NEW s \in Given, NEW t \in Titles, Import(s, t)
      PROVE  TypeOK'
  BY <1>2 DEF Import, Give, TypeOK, Row
<1>3. CASE Remove
  BY <1>3 DEF Remove, TypeOK, Row
<1>4. ASSUME NEW q \in Calls, NEW a \in Asks, Read(q, a)
      PROVE  TypeOK'
  BY <1>4, AsksType, IdleType DEF Read, TypeOK, Call
<1>5. ASSUME NEW q \in Calls, Compare(q)
      PROVE  TypeOK'
  BY <1>5 DEF Compare, TypeOK, Call
<1>6. ASSUME NEW q \in Calls, Save(q)
      PROVE  TypeOK'
  <2>1. row' \in Row
    BY <1>6, SaveType
  <2>2. call' \in [Calls -> Call]
    BY <1>6, IdleType DEF Save, TypeOK
  <2>3. held' \subseteq Statuses
    BY <1>6, <2>1 DEF Save, TypeOK, Row
  <2>4. given' \subseteq Statuses
    BY <1>6 DEF Save, TypeOK, Statuses
  <2> QED BY <2>1, <2>2, <2>3, <2>4 DEF TypeOK
<1>7. ASSUME NEW q \in Calls, Drop(q)
      PROVE  TypeOK'
  BY <1>7, IdleType DEF Drop, TypeOK
<1>8. CASE UNCHANGED vars
  BY <1>8 DEF vars, TypeOK
<1> QED BY <1>1, <1>2, <1>3, <1>4, <1>5, <1>6, <1>7, <1>8 DEF Next

-----------------------------------------------------------------------------
(* The lifecycle.                                                          *)

\* Where each status leads from, read off the table.
LEMMA Successors ==
  ASSUME NEW c \in Statuses, NEW s, CanTransition(c, s)
  PROVE  /\ s = "ENRICHING" => c = "PENDING"
         /\ s = "SCORING" => c = "ENRICHING"
         /\ s \in Decided => c = "SCORING"
         /\ s \in {"ENRICHING", "SCORING"} \cup Decided
         /\ c \notin Decided
<1>1. s \in Transitions[c]
  BY DEF CanTransition
<1>2. CASE c = "PENDING"
  <2>1. Transitions[c] = {"ENRICHING"}
    BY <1>2 DEF Transitions
  <2> QED BY <1>1, <1>2, <2>1 DEF Decided
<1>3. CASE c = "ENRICHING"
  <2>1. Transitions[c] = {"SCORING"}
    BY <1>3 DEF Transitions
  <2> QED BY <1>1, <1>3, <2>1 DEF Decided
<1>4. CASE c = "SCORING"
  <2>1. Transitions[c] = Decided
    BY <1>4 DEF Transitions
  <2> QED BY <1>1, <1>4, <2>1 DEF Decided
<1>5. CASE c \in Decided
  <2>1. Transitions[c] = {}
    BY <1>5 DEF Transitions, Decided
  <2> QED BY <1>1, <2>1
<1> QED BY <1>2, <1>3, <1>4, <1>5 DEF Statuses, Decided

\* A status added to held keeps the stages in order if it is added to given
\* too, or was held, or follows a held status by a legal transition.
LEMMA StagesStep ==
  ASSUME StagesInOrder, held \subseteq Statuses, given \subseteq given',
         NEW s, held' = held \cup {s},
         \/ s \in held
         \/ s \in given'
         \/ \E c \in held : CanTransition(c, s)
  PROVE  StagesInOrder'
<1>1. CASE s \in held \/ s \in given'
  <2>1. held' \ given' \subseteq held \ given
    BY <1>1
  <2> QED BY <2>1 DEF StagesInOrder, Decided
<1>2. CASE \E c \in held : CanTransition(c, s)
  <2>1. PICK c \in held : CanTransition(c, s)
    BY <1>2
  <2>2. /\ s = "ENRICHING" => "PENDING" \in held
        /\ s = "SCORING" => "ENRICHING" \in held
        /\ s \in Decided => "SCORING" \in held
    BY <2>1, Successors
  <2>3. \A x \in held' \ given' : x = s \/ x \in held \ given
    OBVIOUS
  <2> QED BY <2>2, <2>3 DEF StagesInOrder, Decided
<1> QED BY <1>1, <1>2

LEMMA InvInit == Init => LifecycleInv
<1> SUFFICES ASSUME Init PROVE LifecycleInv
  OBVIOUS
<1>1. \A q \in Calls : CallOk(q)
  BY DEF Init, CallOk, Idle
<1> QED BY <1>1, TypeInit DEF LifecycleInv, Init, NoRow, StagesInOrder

LEMMA InvStep == LifecycleInv /\ [Next]_vars => LifecycleInv'
<1> SUFFICES ASSUME LifecycleInv, [Next]_vars PROVE LifecycleInv'
  OBVIOUS
<1> USE LifecycleAssumption
<1>0. TypeOK /\ TypeOK'
  BY TypeStep DEF LifecycleInv
<1>1. ASSUME held \subseteq held', row.exists => row'.exists, UNCHANGED call
      PROVE  \A q \in Calls : CallOk(q)'
  BY <1>1 DEF LifecycleInv, CallOk
<1>2. ASSUME NEW s \in Given, NEW t \in Titles, Create(s, t) \/ Import(s, t)
      PROVE  LifecycleInv'
  <2>1. Give(s) /\ UNCHANGED call /\ row'.status = s /\ row'.exists
    <3>1. CASE Create(s, t)
      BY <3>1 DEF Create
    <3>2. CASE Import(s, t)
      BY <1>0, <3>2 DEF Import, TypeOK, Row
    <3> QED BY <1>2, <3>1, <3>2
  <2>2. held' = held \cup {s} /\ s \in given' /\ given \subseteq given'
    BY <2>1 DEF Give
  <2>3. StagesInOrder'
    BY <1>0, <2>2, StagesStep DEF LifecycleInv, TypeOK
  <2>4. \A q \in Calls : CallOk(q)'
    BY <1>1, <2>1, <2>2
  <2> QED BY <1>0, <2>1, <2>2, <2>3, <2>4 DEF LifecycleInv
<1>3. CASE Remove
  <2>1. /\ held' = held /\ given' = given /\ UNCHANGED call
        /\ row'.status = row.status /\ row'.exists = row.exists
    BY <1>0, <1>3 DEF Remove, TypeOK, Row
  <2>2. StagesInOrder'
    BY <2>1 DEF LifecycleInv, StagesInOrder
  <2> QED BY <1>0, <1>1, <2>1, <2>2 DEF LifecycleInv
<1>4. ASSUME NEW q \in Calls, NEW a \in Asks, Read(q, a)
      PROVE  LifecycleInv'
  <2>1. UNCHANGED <<row, held, given>>
    BY <1>4 DEF Read
  <2>2. ASSUME NEW p \in Calls PROVE CallOk(p)'
    <3>1. CASE p = q
      <4>1. call'[q].ask = a /\ call'[q].copy = row
        BY <1>0, <1>4 DEF Read, TypeOK
      <4>2. row.exists /\ row.status \in held /\ Allowed(a)
        BY <1>4 DEF Read, Visible, LifecycleInv
      <4>3. a.op = "dispatch" => a.status = "SCORING"
        BY DEF Asks
      <4> QED BY <2>1, <3>1, <4>1, <4>2, <4>3 DEF CallOk, Allowed
    <3>2. CASE p # q
      <4>1. call'[p] = call[p]
        BY <1>0, <1>4, <3>2 DEF Read, TypeOK
      <4> QED BY <2>1, <4>1 DEF LifecycleInv, CallOk
    <3> QED BY <3>1, <3>2
  <2>3. StagesInOrder'
    BY <2>1 DEF LifecycleInv, StagesInOrder
  <2> QED BY <1>0, <2>1, <2>2, <2>3 DEF LifecycleInv
<1>5. ASSUME NEW q \in Calls, Compare(q)
      PROVE  LifecycleInv'
  <2>1. UNCHANGED <<row, held, given>>
    BY <1>5 DEF Compare
  <2>2. ASSUME NEW p \in Calls PROVE CallOk(p)'
    <3>1. /\ call'[p].ask = call[p].ask /\ call'[p].copy = call[p].copy
          /\ call'[p].pc # "idle" => call[p].pc # "idle"
      BY <1>0, <1>5 DEF Compare, TypeOK, Call
    <3> QED BY <2>1, <3>1 DEF LifecycleInv, CallOk
  <2>3. StagesInOrder'
    BY <2>1 DEF LifecycleInv, StagesInOrder
  <2> QED BY <1>0, <2>1, <2>2, <2>3 DEF LifecycleInv
<1>6. ASSUME NEW q \in Calls, Save(q)
      PROVE  LifecycleInv'
  <2> DEFINE c == call[q].copy.status
             a == call[q].ask
             s == row'.status
  <2>1. /\ c \in held
        /\ a.op = "dispatch" => a.status = "SCORING"
        /\ (a.op # "dispatch" /\ a.status # "keep")
             => CanTransition(c, a.status)
    BY <1>6 DEF Save, LifecycleInv, CallOk
  <2>2. s = row.status \/ s = Or(c, a.status)
    BY <1>0, <1>6, EntityType, SaveType
  <2>3. /\ held' = held \cup {s}
        /\ given \subseteq given'
        /\ a.op = "dispatch" => "SCORING" \in given'
    BY <1>6 DEF Save
  <2>4. \/ s = row.status
        \/ s \in held
        \/ s \in given'
        \/ \E x \in held : CanTransition(x, s)
    <3>1. CASE a.status = "keep"
      BY <2>1, <2>2, <3>1 DEF Or
    <3>2. CASE a.status # "keep" /\ a.op = "dispatch"
      BY <2>1, <2>2, <2>3, <3>2 DEF Or
    <3>3. CASE a.status # "keep" /\ a.op # "dispatch"
      BY <2>1, <2>2, <3>3 DEF Or
    <3> QED BY <3>1, <3>2, <3>3
  <2>5. row.exists => row.status \in held
    BY DEF LifecycleInv
  <2>6. row.exists
    BY <1>6 DEF LifecycleInv, CallOk, Save
  <2>7. StagesInOrder'
    <3> HIDE DEF s
    <3> QED BY <1>0, <2>3, <2>4, <2>5, <2>6, StagesStep DEF LifecycleInv, TypeOK
  <2>8. ASSUME NEW p \in Calls PROVE CallOk(p)'
    <3>1. call'[p] = Idle \/ call'[p] = call[p]
      BY <1>0, <1>6 DEF Save, TypeOK
    <3>2. row'.exists = row.exists
      BY <1>0, <1>6, SaveType
    <3> QED BY <2>3, <3>1, <3>2 DEF LifecycleInv, CallOk, Idle
  <2> QED BY <1>0, <2>3, <2>7, <2>8 DEF LifecycleInv
<1>7. ASSUME NEW q \in Calls, Drop(q)
      PROVE  LifecycleInv'
  <2>1. UNCHANGED <<row, held, given>>
    BY <1>7 DEF Drop
  <2>2. ASSUME NEW p \in Calls PROVE CallOk(p)'
    <3>1. call'[p] = Idle \/ call'[p] = call[p]
      BY <1>0, <1>7 DEF Drop, TypeOK
    <3> QED BY <2>1, <3>1 DEF LifecycleInv, CallOk, Idle
  <2>3. StagesInOrder'
    BY <2>1 DEF LifecycleInv, StagesInOrder
  <2> QED BY <1>0, <2>1, <2>2, <2>3 DEF LifecycleInv
<1>8. CASE UNCHANGED vars
  <2>1. UNCHANGED <<row, call, held, given>>
    BY <1>8 DEF vars
  <2>2. StagesInOrder'
    BY <2>1 DEF LifecycleInv, StagesInOrder
  <2> QED BY <1>0, <1>1, <2>1, <2>2 DEF LifecycleInv
<1> QED BY <1>2, <1>3, <1>4, <1>5, <1>6, <1>7, <1>8 DEF Next

LEMMA Invariance == Spec => []LifecycleInv
  BY InvInit, InvStep, PTL DEF Spec

\* The types of every variable, for any number of calls in flight.
THEOREM TypeCorrect == Spec => []TypeOK
<1>1. LifecycleInv => TypeOK
  BY DEF LifecycleInv
<1> QED BY <1>1, Invariance, PTL

\* No stage of the lifecycle is skipped, however the calls that read, check
\* and save a notice overwrite each other.
THEOREM StagesAreInOrder == Spec => []StagesInOrder
<1>1. LifecycleInv => StagesInOrder
  BY DEF LifecycleInv
<1> QED BY <1>1, Invariance, PTL

\* Only an import, the scoring worker or a call that read the row before the
\* decision replaces AWARDED, REJECTED or CANCELLED.
THEOREM DecisionsStand == Spec => DecisionStands
<1> DEFINE Kept ==
      (row.exists /\ row.status \in Decided /\ row'.status # row.status) =>
         \/ row'.status \in Given /\ UNCHANGED call
         \/ \E q \in Calls :
              /\ Saves(q)
              /\ \/ call[q].ask.op = "dispatch"
                 \/ call[q].copy.status # row.status
<1>1. ASSUME LifecycleInv, [Next]_vars PROVE Kept
  <2> SUFFICES ASSUME row.exists, row.status \in Decided,
                      row'.status # row.status
               PROVE  \/ row'.status \in Given /\ UNCHANGED call
                      \/ \E q \in Calls :
                           /\ Saves(q)
                           /\ \/ call[q].ask.op = "dispatch"
                              \/ call[q].copy.status # row.status
    OBVIOUS
  <2>0. TypeOK
    BY <1>1 DEF LifecycleInv
  <2>1. ASSUME NEW s \in Given, NEW t \in Titles, Create(s, t) \/ Import(s, t)
        PROVE  row'.status \in Given /\ UNCHANGED call
    BY <2>0, <2>1 DEF Create, Import, TypeOK, Row
  <2>2. ASSUME Remove \/ row' = row
        PROVE  FALSE
    BY <2>0, <2>2 DEF Remove, TypeOK, Row
  <2>3. ASSUME NEW q \in Calls, Save(q)
        PROVE  /\ Saves(q)
               /\ \/ call[q].ask.op = "dispatch"
                  \/ call[q].copy.status # row.status
    <3>1. Saves(q)
      BY <2>0, <2>3 DEF Save, Saves, TypeOK, Idle
    <3>2. row'.status = Or(call[q].copy.status, call[q].ask.status)
      BY <2>0, <2>3, EntityType, SaveType
    <3>3. SUFFICES ASSUME call[q].copy.status = row.status,
                          call[q].ask.op # "dispatch"
                   PROVE  FALSE
      BY <3>1
    <3>4. call[q].ask.status # "keep"
      BY <3>2, <3>3 DEF Or
    <3>5. CanTransition(row.status, call[q].ask.status)
      BY <1>1, <2>3, <3>3, <3>4 DEF LifecycleInv, CallOk, Save
    <3>6. row.status \in Statuses
      BY <2>0 DEF TypeOK, Row
    <3> QED BY <3>5, <3>6, Successors
  <2>4. \/ \E s \in Given, t \in Titles : Create(s, t) \/ Import(s, t)
        \/ Remove \/ row' = row
        \/ \E q \in Calls : Save(q)
    BY <1>1 DEF Next, Read, Compare, Drop, vars
  <2> QED BY <2>1, <2>2, <2>3, <2>4
<1>2. [Kept]_vars <=> Kept \/ UNCHANGED vars
  OBVIOUS
<1>3. LifecycleInv /\ [Next]_vars => [Kept]_vars
  BY <1>1
<1> QED BY <1>3, Invariance, PTL DEF Spec, DecisionStands

=============================================================================
