--------------------------- MODULE NoticeLifecycle ---------------------------
(***************************************************************************)
(* One procurement_notices row and everything that writes it               *)
(* (procurement-notices.service.ts, procurement-notice.types.ts,           *)
(* fetchAndTransitionNotice of scoring.worker.ts, the upsert of            *)
(* import-processor.ts).                                                   *)
(*                                                                         *)
(* update, transitionLifecycle, classifyNotice and the scoring worker read *)
(* the entity, await, and save it.  The check of a transition is made on   *)
(* the entity that was read, in the same step.  create, remove and the     *)
(* upsert are one statement each.                                          *)
(*                                                                         *)
(* External, modelled from how the code uses it: save() of a loaded entity *)
(* reads the row again, soft-deleted or not, and then writes the columns   *)
(* in which the entity differs from that second reading: two statements.   *)
(***************************************************************************)
EXTENDS Naturals

CONSTANTS
  Calls,    \* calls that can be in flight at once
  Ops,      \* operations enabled, a subset of AllOps
  Given,    \* statuses an import or a create brings
  Titles    \* titles a notice can have, standing for its other columns

Statuses ==
  {"PENDING", "ENRICHING", "SCORING", "AWARDED", "REJECTED", "CANCELLED"}
AllOps == {"update", "transition", "classify", "dispatch", "import", "remove"}

ASSUME LifecycleAssumption ==
  /\ Given \subseteq Statuses
  /\ Ops \subseteq AllOps
  /\ Titles # {} /\ "keep" \notin Titles

VARIABLES
  row,     \* the row of the notice
  call,    \* call[q]: a call between its read and its save
  held,    \* history: statuses the row has held
  given    \* history: the ones that came without a check

vars == <<row, call, held, given>>

Row == [exists : BOOLEAN, status : Statuses, title : Titles,
        deleted : BOOLEAN]

\* What a call asks for; "keep" where it does not say.
Ask == [op : AllOps, status : Statuses \cup {"keep"},
        title : Titles \cup {"keep"}]

\* pc = "save": the entity was read as copy and, if it had to be, checked.
\* pc = "write": save() has read the row again, as seen.
Call == [pc : {"idle", "save", "write"}, ask : Ask, copy : Row, seen : Row]

NoRow == [exists |-> FALSE, status |-> "PENDING", deleted |-> FALSE,
          title |-> CHOOSE t \in Titles : TRUE]

Idle == [pc |-> "idle", copy |-> NoRow, seen |-> NoRow,
         ask |-> [op |-> "update", status |-> "keep", title |-> "keep"]]

Init ==
  /\ row = NoRow
  /\ call = [q \in Calls |-> Idle]
  /\ held = {}
  /\ given = {}

-----------------------------------------------------------------------------
(* The lifecycle.                                                          *)

Decided == {"AWARDED", "REJECTED", "CANCELLED"}

Transitions ==
  [s \in Statuses |->
     CASE s = "PENDING" -> {"ENRICHING"}
       [] s = "ENRICHING" -> {"SCORING"}
       [] s = "SCORING" -> Decided
       [] OTHER -> {}]

CanTransitionUnlessSame(current, target) ==
  current # target /\ (target \in Transitions[current] \/ current \in Decided)
CanTransition(current, target) ==
  current # target /\ target \in Transitions[current]

-----------------------------------------------------------------------------
(* Statements that need no earlier read.                                   *)

\* The row takes status s without a check.
Give(s) == given' = given \cup {s} /\ held' = held \cup {s}

\* A create is refused while a row has the identifier, even a deleted one.
Create(s, t) ==
  /\ ~row.exists
  /\ row' = [exists |-> TRUE, status |-> s, title |-> t, deleted |-> FALSE]
  /\ Give(s)
  /\ UNCHANGED call

\* The upsert of an import: inserts, or overwrites all but deletedAt.
Import(s, t) ==
  /\ "import" \in Ops
  /\ row' = [row EXCEPT !.exists = TRUE, !.status = s, !.title = t]
  /\ Give(s)
  /\ UNCHANGED call

\* findOne sees no deleted row.
Visible == row.exists /\ ~row.deleted

Remove ==
  /\ "remove" \in Ops
  /\ Visible
  /\ row' = [row EXCEPT !.deleted = TRUE]
  /\ UNCHANGED <<call, held, given>>

-----------------------------------------------------------------------------
(* Read, check, save.                                                      *)

Asks ==
  {[op |-> "update", status |-> s, title |-> t] :
     s \in Statuses \cup {"keep"}, t \in Titles \cup {"keep"}}
  \cup {[op |-> "transition", status |-> s, title |-> "keep"] : s \in Statuses}
  \cup {[op |-> "classify", status |-> "keep", title |-> "keep"]}
  \cup {[op |-> "dispatch", status |-> "SCORING", title |-> "keep"]}

AllowedUncheckedUpdate(a) ==
  a.op = "transition" => CanTransition(row.status, a.status)
\* A status that is provided is checked; the scoring worker checks nothing.
Allowed(a) ==
  (a.op # "dispatch" /\ a.status # "keep") => CanTransition(row.status, a.status)

Read(q, a) ==
  /\ call[q].pc = "idle"
  /\ a.op \in Ops
  /\ Visible
  /\ Allowed(a)
  /\ call' = [call EXCEPT ![q] =
                 [pc |-> "save", ask |-> a, copy |-> row, seen |-> NoRow]]
  /\ UNCHANGED <<row, held, given>>

OrAsAsked(value, asked) == asked
Or(value, asked) == IF asked = "keep" THEN value ELSE asked

\* The entity a call saves.
Entity(q) ==
  [call[q].copy EXCEPT !.status = Or(@, call[q].ask.status),
                       !.title = Or(@, call[q].ask.title)]

\* save() reads the row again.
Compare(q) ==
  /\ call[q].pc = "save"
  /\ call' = [call EXCEPT ![q].pc = "write", ![q].seen = row]
  /\ UNCHANGED <<row, held, given>>

\* A column of value now, last seen as was, once wanted is saved.
Column(now, was, wanted) == IF wanted = was THEN now ELSE wanted

Save(q) ==
  /\ call[q].pc = "write"
  /\ LET e == Entity(q)
         was == call[q].seen
     IN row' = [row EXCEPT !.status = Column(@, was.status, e.status),
                           !.title = Column(@, was.title, e.title),
                           !.deleted = Column(@, was.deleted, e.deleted)]
  /\ call' = [call EXCEPT ![q] = Idle]
  /\ held' = held \cup {row'.status}
  /\ given' = IF call[q].ask.op = "dispatch" THEN given \cup {"SCORING"}
                                             ELSE given

\* An await after the read rejects, or the process dies.
Drop(q) ==
  /\ call[q].pc \in {"save", "write"}
  /\ call' = [call EXCEPT ![q] = Idle]
  /\ UNCHANGED <<row, held, given>>

Next ==
  \/ \E s \in Given, t \in Titles : Create(s, t) \/ Import(s, t)
  \/ Remove
  \/ \E q \in Calls :
       (\E a \in Asks : Read(q, a)) \/ Compare(q) \/ Save(q) \/ Drop(q)

Spec == Init /\ [][Next]_vars

-----------------------------------------------------------------------------
(* Properties.                                                             *)

TypeOK ==
  /\ row \in Row
  /\ call \in [Calls -> Call]
  /\ held \subseteq Statuses
  /\ given \subseteq Statuses

\* No stage is skipped, not by calls that overwrite each other either: a
\* status that did not come from an import, a create or the scoring worker
\* follows one the row has held.
StagesInOrder ==
  /\ "ENRICHING" \in held \ given => "PENDING" \in held
  /\ "SCORING" \in held \ given => "ENRICHING" \in held
  /\ \A s \in Decided : s \in held \ given => "SCORING" \in held

Saves(q) == call[q].pc = "write" /\ call'[q].pc = "idle"

\* A decision is overruled only by an import, by the scoring worker, or by a
\* call that had read the row before it was decided so.
DecisionStands ==
  [][(row.exists /\ row.status \in Decided /\ row'.status # row.status) =>
       \/ row'.status \in Given /\ UNCHANGED call
       \/ \E q \in Calls :
            /\ Saves(q)
            /\ \/ call[q].ask.op = "dispatch"
               \/ call[q].copy.status # row.status]_vars

\* procurement-notice.types.ts:16: "Terminal states (`AWARDED`, `REJECTED`,
\* `CANCELLED`) have no outgoing transitions."
TerminalIsFinal ==
  [][(row.exists /\ row.status \in Decided) => row'.status = row.status]_vars

=============================================================================
