--------------------------- MODULE MCValidationGate ---------------------------
(***************************************************************************)
(* Instances of ValidationGate for TLC.  Each family of cases varies what  *)
(* one of the checks depends on and keeps the rest.                        *)
(***************************************************************************)
EXTENDS ValidationGate, TLC

CONSTANTS c1, c2

MCContainers == {c1, c2}
MCNames == {"or.ders", "or_ders", "orders", "sales", "_default", "default"}

\* Invalid characters become "_"; leading ones are stripped.
MCSanitize == [n \in MCNames |-> CASE n = "or.ders" -> "or_ders"
                                   [] n = "_default" -> "default"
                                   [] OTHER -> n]
MCNameOf == (c1 :> "or.ders") @@ (c2 :> "or_ders")
MCCounts == {128, 1024}

Plain == [include |-> TRUE, scope |-> None, collection |-> None]

Usual == [native |-> FALSE, capella |-> FALSE, strategy |-> "full_load",
          sourceUp |-> TRUE, apiUp |-> TRUE, destUp |-> TRUE, tls |-> TRUE,
          database |-> None, specs |-> (c1 :> Plain) @@ (c2 :> Plain),
          large |-> {}, streamed |-> MCContainers,
          wanted |-> "cutover", workers |-> 1,
          reported |-> [size |-> 100, largest |-> 60, count |-> 2, cdc |-> TRUE],
          sourceV |-> 1024, bucketV |-> 1024, legible |-> {"source", "bucket"},
          newV |-> 1024, provisions |-> TRUE]

\* The same case where only the containers in S have change capture.
Streamed(case1, S) == [case1 EXCEPT !.streamed = S, !.reported.cdc = S # {}]
AllOrNone == {{}, MCContainers}

-------------------------------------------------------------------------------

Reachability ==
    {Streamed([Usual EXCEPT !.native = native, !.capella = capella, !.strategy = strategy,
                            !.sourceUp = up[1], !.apiUp = up[2], !.destUp = up[3],
                            !.tls = up[4], !.large = large], streamed) :
        native \in BOOLEAN, capella \in BOOLEAN, strategy \in Strategies,
        up \in BOOLEAN \X BOOLEAN \X BOOLEAN \X BOOLEAN, large \in {{}, {c1}},
        streamed \in AllOrNone}

\* DynamoDB: streams are enabled table by table.
PartStreams ==
    {Streamed([Usual EXCEPT !.strategy = strategy, !.specs = [c \in S |-> Plain]], streamed) :
        strategy \in Strategies, S \in SUBSET MCContainers, streamed \in SUBSET MCContainers}

Specs == [include : BOOLEAN, scope : {None, "sales", "_default"},
          collection : {None, "or_ders", "orders"}]

Naming ==
    {[Usual EXCEPT !.database = database, !.specs = specs] :
        database \in {None, "sales"},
        specs \in UNION {[S -> Specs] : S \in SUBSET MCContainers}}

Buckets ==
    {[Usual EXCEPT !.native = TRUE, !.strategy = strategy, !.capella = capella,
                   !.sourceV = sourceV, !.bucketV = bucketV, !.legible = legible,
                   !.newV = newV, !.provisions = provisions] :
        strategy \in ContinuousStrategies, capella \in BOOLEAN, sourceV \in MCCounts,
        bucketV \in MCCounts \cup {Absent}, legible \in SUBSET {"source", "bucket"},
        newV \in MCCounts, provisions \in BOOLEAN}

\* One and sixteen workers fill the window with 21600 and 345600 MiB.
Advice ==
    {Streamed([Usual EXCEPT !.strategy = strategy, !.wanted = wanted, !.workers = workers,
                            !.reported.size = size], streamed) :
        strategy \in Strategies, wanted \in {"cutover", "phased"}, workers \in {1, 15, 16, 17, 64},
        size \in {Unknown, 0, 21599, 21600, 345599, 345600}, streamed \in AllOrNone}

MCCases == Reachability \cup PartStreams \cup Naming \cup Buckets \cup Advice
================================================================================
