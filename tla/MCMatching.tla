------------------------------ MODULE MCMatching ------------------------------
(* Small instances of Matching for TLC.                                    *)
EXTENDS Matching, TLC

Plain(w) == [word |-> w, padded |-> FALSE]
Padded(w) == [word |-> w, padded |-> TRUE]

MCSectors == <<"SALUD", "TI">>
MCDivipolaCodes == [ANTIOQUIA |-> "05", BOGOTA |-> "11"]
MCDecay == [d \in 15 .. 50 |-> 1500 - 25 * (d - 15)]

\* Two keywords of one sector, one of another, one inside the other's word,
\* and one that is empty once normalised.
MCCatalogue ==
  {[id |-> 1, sector |-> "TI", keyword |-> <<"s", "o", "f", "t">>, weight |-> 10],
   [id |-> 2, sector |-> "SALUD", keyword |-> <<"o", "f">>, weight |-> 8],
   [id |-> 3, sector |-> "TI", keyword |-> <<>>, weight |-> 3]}

Profile ==
  [name |-> <<"vias", "de", "obra">>, createdAt |-> 0,
   sectors |-> {<<80, 11, 16>>}, regions |-> {"05"},
   contractingCapacity |-> 100, targetTicket |-> 40, workingCapital |-> 60,
   annualRevenue |-> 0, unspscMatchPolicy |-> "strict",
   excludedModalities |-> {}, excludedContractTypes |-> {}]
MCProfiles ==
  {Profile,
   [Profile EXCEPT !.unspscMatchPolicy = "flexible"],
   [Profile EXCEPT !.annualRevenue = 45, !.regions = {"05", "11"}],
   [Profile EXCEPT !.sectors = {<<80>>, <<80, 11, 20>>}, !.regions = {}],
   [Profile EXCEPT !.sectors = {}, !.workingCapital = 300],
   [Profile EXCEPT !.excludedModalities = {Padded("directa"), Padded("")},
                   !.excludedContractTypes = {Plain("suministro")}]}

Contract ==
  [id |-> 0, status |-> "EJECUCION", startDate |-> {2}, endDate |-> {6},
   value |-> 40, unspscCode |-> <<80, 11, 16, 1>>, clientNit |-> Padded("900"),
   description |-> {<<"obra", "obra", "de", "puentes">>}]
MCHistory ==
  {[Contract EXCEPT !.id = i, !.description = {<<"constructor", "de", "obra">>},
                    !.clientNit = Plain("")] : i \in 1 .. 4}
MCContracts ==
  MCHistory \cup
  {[Contract EXCEPT !.id = 5],
   [Contract EXCEPT !.id = 6, !.description = {<<"obra", "obra", "vias">>},
                    !.startDate = {0}, !.endDate = {4}]}

Record ==
  [dataset |-> "SECOP_II", id |-> <<"c", "o">>, estado |-> {"PUBLICADO"},
   title |-> {<<"s", "o", "f", "t">>},
   description |-> {<<"obra", "obra", "vias">>}, entityNit |-> {Padded("900")},
   value |-> {[kind |-> "number", n |-> 46]},
   publicationDate |-> {0}, deadlineDate |-> {5},
   contractingModality |-> {Plain("licitacion")},
   contractType |-> {Padded("obra")}, unspscCode |-> {<<80, 11, 16, 1>>},
   department |-> {Padded("ANTIOQUIA")}]
MCRecords ==
  {Record,
   [Record EXCEPT !.deadlineDate = {80}],
   [Record EXCEPT !.deadlineDate = {0}],
   [Record EXCEPT !.publicationDate = {3}, !.deadlineDate = {0}],
   [Record EXCEPT !.estado = {"SUSPENDIDO"}],
   [Record EXCEPT !.dataset = "SECOP_I", !.estado = {"DESCARTADO"}],
   [Record EXCEPT !.dataset = "SECOP_I", !.estado = {"LIQUIDADO"},
                  !.unspscCode = {<<80, 11>>}, !.title = {<<>>}],
   [Record EXCEPT !.unspscCode = {<<80, 11, 20, 1>>},
                  !.description = {<<"vias", "constructor">>},
                  !.value = {[kind |-> "text", n |-> 56]}],
   [Record EXCEPT !.value = {[kind |-> "junk", n |-> 0]},
                  !.department = {Plain("11")}, !.description = {<<>>},
                  !.contractingModality = {Plain("directa")}]}

MCUploads ==
  {[source |-> "SECOP_II", status |-> "CANCELLED", title |-> <<"o", "f">>,
    description |-> {<<"de">>}, entityNit |-> {Padded("900")}, value |-> {40},
    publicationDate |-> {0}, deadlineDate |-> {6},
    contractingModality |-> {Plain("")}, contractType |-> {Plain("obra")},
    unspscCode |-> {<<>>}, department |-> {Plain("BOGOTA")}]}

MCTexts ==
  {p.name : p \in MCProfiles}
    \cup UNION {x.description : x \in MCContracts \cup MCRecords \cup MCUploads}

=============================================================================
