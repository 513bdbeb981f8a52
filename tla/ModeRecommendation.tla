-------------------------- MODULE ModeRecommendation --------------------------
(***************************************************************************)
(* The advice of the wizard's "Destination & Mode" step:                   *)
(* recommend_replication_mode (backend/app/core/recommendation.py), a      *)
(* function of the answer to one question and of what the source reported. *)
(* Sizes are in MiB, durations are compared by cross-multiplication.       *)
(***************************************************************************)
EXTENDS Integers

Unknown == -1     \* a size the source did not report

\* A source as introspected: its size, the size of its largest container, how many
\* containers it has, and whether it supports change capture.
Topology == [size : Nat \cup {Unknown}, largest : Nat, count : Nat, cdc : BOOLEAN]

\* An absent total counts as nothing.
Total(topology) == IF topology.size = Unknown THEN 0 ELSE topology.size

MbPerSecondPerWorker == 3
MaxWorkers == 16
ShortWindow == 7200
SmallSource == 50
ManyContainers == 15

Workers(concurrency) ==
    IF concurrency > MaxWorkers THEN MaxWorkers ELSE IF concurrency < 1 THEN 1 ELSE concurrency

\* Does the full load take less than ShortWindow seconds?
FitsWindow(topology, concurrency) ==
    Total(topology) < ShortWindow * MbPerSecondPerWorker * Workers(concurrency)

\* Mutant of Advised: the answer "phased" outweighs what the source can do.
AdvisedRegardless(cutover, topology, concurrency) ==
    IF cutover = "phased" \/ (topology.cdc /\ ~FitsWindow(topology, concurrency))
    THEN "full_load_and_cdc"
    ELSE "full_load"

\* recommended_strategy.
Advised(cutover, topology, concurrency) ==
    IF topology.cdc /\ (cutover = "phased" \/ ~FitsWindow(topology, concurrency))
    THEN "full_load_and_cdc"
    ELSE "full_load"

\* considerations, by what they are about.
Considerations(cutover, topology, concurrency) ==
    LET strategy == Advised(cutover, topology, concurrency)
    IN  {note \in {"no_cdc", "dominant", "many", "small", "together"} :
           CASE note = "no_cdc" -> ~topology.cdc
             [] note = "dominant" -> /\ topology.count > 0 /\ Total(topology) > 0
                                     /\ 10 * topology.largest >= 6 * Total(topology)
             [] note = "many" -> topology.count > ManyContainers
             [] note = "small" -> /\ cutover = "phased" /\ strategy = "full_load_and_cdc"
                                  /\ Total(topology) \in 1..(SmallSource - 1)
             [] note = "together" -> cutover = "cutover" /\ strategy = "full_load_and_cdc"}
================================================================================
