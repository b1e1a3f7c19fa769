------------------------------ MODULE Companies ------------------------------
(***************************************************************************)
(* The companies table and the service that writes it                      *)
(* (companies.service.ts, company.entity.ts).                              *)
(*                                                                         *)
(* Of a row the model keeps whether it exists and its NIT, the tax number, *)
(* which a unique index keeps apart.  create and update look a NIT up      *)
(* before they save; update and remove find the row first.  Every await is *)
(* a step, so calls interleave between the look-up and the write.          *)
(*                                                                         *)
(* External, modelled from how the code uses it: save() of a loaded entity *)
(* reads the row again and then updates the columns that differ, or        *)
(* inserts the entity as it is when the row is no longer there.            *)
(***************************************************************************)
EXTENDS Naturals

CONSTANTS
  Companies,  \* identifiers of rows
  Nits,       \* tax numbers, normalised by the DTO
  Calls       \* requests that can be in flight at once

ASSUME CompaniesAssumption ==
  /\ Companies # {}
  /\ Nits # {}
  /\ "keep" \notin Nits

VARIABLES
  row,   \* row[c]: the row of c
  call   \* call[q]: a request and what it has read

companyVars == <<row, call>>

\* An identifier is generated once: after "gone" no create brings it back.
Row == [state : {"unused", "here", "gone"}, nit : Nits]

\* What each request asks for; "keep" where it gives no NIT.
Ops == {"create", "update", "remove"}

\* copy is the entity found, seen what save() read again.
Call ==
  [pc     : {"idle", "find", "check", "insert", "select", "write", "delete"},
   op     : Ops, id : Companies, nit : Nits \cup {"keep"},
   copy   : Row, seen : Row]

AnyNit == CHOOSE n \in Nits : TRUE
AnyId == CHOOSE c \in Companies : TRUE
NoRow == [state |-> "unused", nit |-> AnyNit]
Idle == [pc |-> "idle", op |-> "create", id |-> AnyId, nit |-> "keep",
         copy |-> NoRow, seen |-> NoRow]

CompaniesInit ==
  /\ row = [c \in Companies |-> NoRow]
  /\ call = [q \in Calls |-> Idle]

Here(c) == row[c].state = "here"
\* findOne({ where: { nit } })
Held(n) == \E c \in Companies : Here(c) /\ row[c].nit = n

\* The request is answered, one way or the other, and its locals are gone.
Answer(q) == call' = [call EXCEPT ![q] = Idle]

Go(q, pc) == call' = [call EXCEPT ![q].pc = pc]

\* A request arrives.
Request(q, op, c, n) ==
  /\ call[q].pc = "idle"
  /\ op = "create" => n # "keep" /\ c = AnyId
  /\ op = "remove" => n = "keep"
  /\ call' = [call EXCEPT ![q] = [Idle EXCEPT
       !.pc = IF op = "create" THEN "check" ELSE "find",
       !.op = op, !.id = c, !.nit = n]]
  /\ UNCHANGED row

FoundAlways(q) == TRUE
Found(q) == Here(call[q].id)

\* The update names a NIT other than the one the entity has.
RenamedIfNamed(q, copy) == call[q].nit # "keep"
Renamed(q, copy) == call[q].nit # "keep" /\ call[q].nit # copy.nit

Find(q) ==
  /\ call[q].pc = "find"
  /\ \/ /\ Found(q)
        /\ LET copy == row[call[q].id]
               next == IF call[q].op = "remove" THEN "delete"
                       ELSE IF Renamed(q, copy) THEN "check" ELSE "select"
           IN call' = [call EXCEPT ![q].pc = next, ![q].copy = copy]
     \/ ~Found(q) /\ Answer(q)   \* 404
  /\ UNCHANGED row

\* The look-up of the NIT, which nothing locks.
Check(q) ==
  /\ call[q].pc = "check"
  /\ \/ Held(call[q].nit) /\ Answer(q)   \* 409
     \/ ~Held(call[q].nit)
        /\ Go(q, IF call[q].op = "create" THEN "insert" ELSE "select")
  /\ UNCHANGED row

IndexMissing(c, n) == TRUE
\* UQ_companies_nit: row c may take NIT n.
IndexAllows(c, n) == \A d \in Companies \ {c} : Here(d) => row[d].nit # n

\* Row c takes NIT n, or the index refuses the statement.
Put(q, c, n) ==
  \/ /\ IndexAllows(c, n)
     /\ row' = [row EXCEPT ![c] = [state |-> "here", nit |-> n]]
     /\ Answer(q)
  \/ /\ ~IndexAllows(c, n)
     /\ Answer(q)
     /\ UNCHANGED row

\* save() of a new entity: the table gives it an identifier.
Insert(q) ==
  /\ call[q].pc = "insert"
  /\ \E c \in Companies : row[c].state = "unused" /\ Put(q, c, call[q].nit)

WantedAsGiven(q) == call[q].nit
\* The NIT of the entity an update saves.
Wanted(q) == IF call[q].nit = "keep" THEN call[q].copy.nit ELSE call[q].nit

\* save() of a loaded entity reads the row again.
Select(q) ==
  /\ call[q].pc = "select"
  /\ call' = [call EXCEPT ![q].pc = "write", ![q].seen = row[call[q].id]]
  /\ UNCHANGED row

\* The row was there: its NIT is written if the entity's differs from what
\* was seen, and if the row is there still.
Update(q) ==
  /\ call[q].pc = "write"
  /\ call[q].seen.state = "here"
  /\ IF Here(call[q].id) /\ Wanted(q) # call[q].seen.nit
       THEN Put(q, call[q].id, Wanted(q))
       ELSE Answer(q) /\ UNCHANGED row

\* The row was gone: the entity is inserted with its old identifier, unless
\* another request has just done so.
Reinsert(q) ==
  /\ call[q].pc = "write"
  /\ call[q].seen.state # "here"
  /\ IF Here(call[q].id)
       THEN Answer(q) /\ UNCHANGED row
       ELSE Put(q, call[q].id, Wanted(q))

Delete(q) ==
  /\ call[q].pc = "delete"
  /\ row' = [row EXCEPT ![call[q].id] = [NoRow EXCEPT !.state = "gone"]]
  /\ Answer(q)

\* An awaited call rejects, or the process ends.
Drop(q) ==
  /\ call[q].pc # "idle"
  /\ Answer(q)
  /\ UNCHANGED row

CompaniesNext ==
  \E q \in Calls :
    \/ \E op \in Ops, c \in Companies, n \in Nits \cup {"keep"} :
         Request(q, op, c, n)
    \/ Find(q) \/ Check(q) \/ Insert(q) \/ Select(q)
    \/ Update(q) \/ Reinsert(q) \/ Delete(q) \/ Drop(q)

CompaniesSpec == CompaniesInit /\ [][CompaniesNext]_companyVars

-----------------------------------------------------------------------------
(* Properties.                                                             *)

CompaniesTypeOK ==
  /\ row \in [Companies -> Row]
  /\ call \in [Calls -> Call]

\* No two companies share a NIT, although the look-up before a save proves
\* nothing by the time of the save.
UniqueNit ==
  \A c, d \in Companies :
    (Here(c) /\ Here(d) /\ row[c].nit = row[d].nit) => c = d

\* A company that was removed comes back only by an update that had found it
\* before: no other request revives a row.
ReturnsOnlyByUpdate ==
  [][\A c \in Companies : (row[c].state = "gone" /\ row'[c].state = "here") =>
       \E q \in Calls :
         /\ call[q].op = "update" /\ call[q].id = c
         /\ call[q].copy.state = "here"]_companyVars

\* What makes the request fail over its NIT as things stand: the look-up, or
\* the index.
Conflicts(q) ==
  \/ call[q].pc = "check" /\ Held(call[q].nit)
  \/ call[q].pc = "insert" /\ Held(call[q].nit)
  \/ call[q].pc = "write" /\ ~IndexAllows(call[q].id, Wanted(q))

\* A request fails over its NIT only because another company holds it, or
\* because its own row changed after it was found: an update that repeats its
\* company's NIT does not collide with itself.
ConflictOnlyWithAnother ==
  \A q \in Calls : Conflicts(q) =>
    \/ \E d \in Companies :
         /\ Here(d) /\ row[d].nit = Wanted(q)
         /\ d # call[q].id \/ call[q].op = "create"
    \/ call[q].op = "update" /\ row[call[q].id] # call[q].copy

=============================================================================
