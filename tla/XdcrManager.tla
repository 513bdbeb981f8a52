------------------------------ MODULE XdcrManager ------------------------------
(***************************************************************************)
(* Several migrations that replicate from one source cluster: XdcrManager  *)
(* (backend/app/core/couchbase_native.py) with _start_xdcr,                *)
(* _teardown_xdcr and _monitor_xdcr of core/migration_engine.py.           *)
(*                                                                         *)
(* Each HTTP request to the source cluster is one action, because the      *)
(* requests of other migrations, made from other threads, come in between. *)
(* A remote-cluster reference is named after the migration it was made     *)
(* for, a replication after the reference it uses.  What the cluster does  *)
(* with a request is outside the repository and taken from what the code   *)
(* and its comments expect: one reference per destination host, none       *)
(* deleted while a replication uses it.                                    *)
(***************************************************************************)
EXTENDS Naturals, FiniteSets

CONSTANTS
    Migrations,   \* migrations of this installation
    Former,       \* migrations of an earlier one whose records are gone
    Manual,       \* references an administrator registered under names of their own
    Hosts,        \* destination hosts
    Attempts,     \* max_attempts of _start_xdcr
    Lag           \* how many lookups a new reference may miss (a bound)

ASSUME XdcrAssumption ==
    /\ Attempts \in Nat /\ Lag \in Nat
    /\ Lag < Attempts
    /\ Migrations \cap Former = {} /\ Migrations \cap Manual = {} /\ Former \cap Manual = {}

Names == Migrations \cup Former \cup Manual

VARIABLES
    hostOf,     \* Names -> Hosts, which never changes
    faulty,     \* may requests fail or their answers get lost?
    refs,       \* references registered on the source cluster
    links,      \* replications running there
    known,      \* migrations whose checkpoint holds the ids of both
    stage,      \* Migrations -> Stages
    stale,      \* Migrations -> references still to be deleted by it
    cleared,    \* migrations whose "removed" is True
    tries,      \* Migrations -> failed attempts to create the replication
    crashed     \* has the backend been restarted? (bound: once)

vars == <<hostOf, faulty, refs, links, known, stage, stale, cleared, tries, crashed>>

\* The request a migration is about to make, or where it rests.
SetUp == {"register", "list", "liststale", "delete", "retry", "link", "linked"}
TearDown == {"unlink", "unref"}
Stages == {"idle", "replicating", "failed", "stopped"} \cup SetUp \cup TearDown

At(m, s) == stage[m] = s
Goto(m, s) == stage' = [stage EXCEPT ![m] = s]

\* The next request follows, unless the answer of this one is lost.
Answered(m, s) == Goto(m, s) \/ (faulty /\ Goto(m, "failed"))

SameHost(m, n) == hostOf[m] = hostOf[n]

\* The cluster takes a reference only if neither name nor host is registered.
Taken(m) == \E n \in refs : n = m \/ SameHost(m, n)

-------------------------------------------------------------------------------
(* create_remote_cluster_ref *)

\* A run reaches _start_xdcr.
Begin(m) ==
    /\ At(m, "idle")
    /\ Goto(m, "register")
    /\ tries' = [tries EXCEPT ![m] = 0]
    /\ UNCHANGED <<hostOf, faulty, refs, links, known, stale, cleared, crashed>>

\* Mutant of Register: "already exists" means that there is nothing to do.
RegisterMasked(m) ==
    /\ At(m, "register")
    /\ refs' = IF Taken(m) THEN refs ELSE refs \cup {m}
    /\ Answered(m, "link")
    /\ UNCHANGED <<hostOf, faulty, links, known, stale, cleared, tries, crashed>>

Register(m) ==
    /\ At(m, "register")
    /\ \/ Taken(m) /\ Answered(m, "list") /\ UNCHANGED refs
       \/ ~Taken(m) /\ Answered(m, "link") /\ refs' = refs \cup {m}
    /\ UNCHANGED <<hostOf, faulty, links, known, stale, cleared, tries, crashed>>

\* Is it this name that exists already?
List(m) ==
    /\ At(m, "list")
    /\ Answered(m, IF m \in refs THEN "link" ELSE "liststale")
    /\ UNCHANGED <<hostOf, faulty, refs, links, known, stale, cleared, tries, crashed>>

\* What _remove_stale_refs_for_host returns decides between one retry and an error.
AfterRemoval(m) == IF m \in cleared' THEN "retry" ELSE "failed"

\* Whose references carry the prefix "onboarding-agent-".
Ours == Migrations \cup Former

\* _remove_stale_refs_for_host lists again.  An exception in it, here or at a
\* deletion, ends the removal and not the set-up.
ListStale(m) ==
    /\ At(m, "liststale")
    /\ cleared' = cleared \ {m}
    /\ \/ /\ stale' = [stale EXCEPT ![m] = {n \in refs \cap Ours : n # m /\ SameHost(m, n)}]
          /\ Goto(m, IF stale'[m] = {} THEN AfterRemoval(m) ELSE "delete")
       \/ /\ faulty
          /\ Goto(m, AfterRemoval(m))
          /\ UNCHANGED stale
    /\ UNCHANGED <<hostOf, faulty, refs, links, known, tries, crashed>>

\* One DELETE.  A reference that is gone counts as removed; one in use is refused
\* and the loop goes on.
DeleteStale(m, n) ==
    /\ At(m, "delete") /\ n \in stale[m]
    /\ stale' = [stale EXCEPT ![m] = @ \ {n}]
    /\ \/ /\ n \notin links
          /\ refs' = refs \ {n}
          /\ cleared' = cleared \cup {m}
       \/ /\ n \in links \/ faulty
          /\ UNCHANGED <<refs, cleared>>
    /\ Goto(m, IF stale'[m] = {} THEN AfterRemoval(m) ELSE "delete")
    /\ UNCHANGED <<hostOf, faulty, links, known, tries, crashed>>

\* The DELETE, served or not, raises.
DeleteRaises(m, n) ==
    /\ At(m, "delete") /\ n \in stale[m] /\ faulty
    /\ refs' \in {refs} \cup (IF n \in links THEN {} ELSE {refs \ {n}})
    /\ stale' = [stale EXCEPT ![m] = {}]
    /\ UNCHANGED cleared
    /\ Goto(m, AfterRemoval(m))
    /\ UNCHANGED <<hostOf, faulty, links, known, tries, crashed>>

Retry(m) ==
    /\ At(m, "retry")
    /\ \/ Taken(m) /\ Goto(m, "failed") /\ UNCHANGED refs
       \/ ~Taken(m) /\ Answered(m, "link") /\ refs' = refs \cup {m}
    /\ UNCHANGED <<hostOf, faulty, links, known, stale, cleared, tries, crashed>>

-------------------------------------------------------------------------------
(* _start_xdcr: the replication *)

CreateReplication(m) ==
    /\ At(m, "link") /\ m \in refs \ links
    /\ links' = links \cup {m}
    /\ Answered(m, "linked")
    /\ UNCHANGED <<hostOf, faulty, refs, known, stale, cleared, tries, crashed>>

\* The answer is an error that speaks of a "remote cluster": the reference is gone
\* or not visible yet, or there is a replication to that cluster already.
Unfound(m) == m \notin refs \/ m \in links \/ tries[m] < Lag

\* Mutants of NotVisible: one attempt too many; the last error is not raised.
NotVisibleOffByOne(m) ==
    /\ At(m, "link") /\ Unfound(m)
    /\ tries' = [tries EXCEPT ![m] = @ + 1]
    /\ Goto(m, IF tries'[m] > Attempts THEN "failed" ELSE "link")
    /\ UNCHANGED <<hostOf, faulty, refs, links, known, stale, cleared, crashed>>

NotVisibleIgnored(m) ==
    /\ At(m, "link") /\ Unfound(m)
    /\ tries' = [tries EXCEPT ![m] = @ + 1]
    /\ Goto(m, IF tries'[m] = Attempts THEN "linked" ELSE "link")
    /\ UNCHANGED <<hostOf, faulty, refs, links, known, stale, cleared, crashed>>

\* Two seconds later once more, up to Attempts.
NotVisible(m) ==
    /\ At(m, "link") /\ Unfound(m)
    /\ tries' = [tries EXCEPT ![m] = @ + 1]
    /\ Goto(m, IF tries'[m] = Attempts THEN "failed" ELSE "link")
    /\ UNCHANGED <<hostOf, faulty, refs, links, known, stale, cleared, crashed>>

\* The thread returns: both ids go into the checkpoint, and the phase is saved.
Record(m) ==
    /\ At(m, "linked")
    /\ known' = known \cup {m}
    /\ Goto(m, "replicating")
    /\ UNCHANGED <<hostOf, faulty, refs, links, stale, cleared, tries, crashed>>

\* A request of the set-up fails before the cluster serves it.
SetUpRaises(m) ==
    /\ faulty
    /\ stage[m] \in {"register", "list", "retry", "link"}
    /\ Goto(m, "failed")
    /\ UNCHANGED <<hostOf, faulty, refs, links, known, stale, cleared, tries, crashed>>

-------------------------------------------------------------------------------
(* stop_replication, rollback and _teardown_xdcr *)

Stop(m) ==
    /\ At(m, "replicating")
    /\ Goto(m, "unlink")
    /\ UNCHANGED <<hostOf, faulty, refs, links, known, stale, cleared, tries, crashed>>

\* A rollback tears down what the checkpoint knows of.
Rollback(m) ==
    /\ At(m, "failed")
    /\ Goto(m, IF m \in known THEN "unlink" ELSE "stopped")
    /\ UNCHANGED <<hostOf, faulty, refs, links, known, stale, cleared, tries, crashed>>

\* Mutant of RemoveReplication: the reference is left to itself.
RemoveReplicationOnly(m) ==
    /\ At(m, "unlink")
    /\ links' = links \ {m}
    /\ Goto(m, "stopped")
    /\ UNCHANGED <<hostOf, faulty, refs, known, stale, cleared, tries, crashed>>

\* An error status is logged; an exception skips the reference and is logged.
RemoveReplication(m) ==
    /\ At(m, "unlink")
    /\ \/ links' = links \ {m} /\ (Goto(m, "unref") \/ (faulty /\ Goto(m, "stopped")))
       \/ faulty /\ UNCHANGED links /\ (Goto(m, "unref") \/ Goto(m, "stopped"))
    /\ UNCHANGED <<hostOf, faulty, refs, known, stale, cleared, tries, crashed>>

RemoveRef(m) ==
    /\ At(m, "unref")
    /\ \/ m \notin links /\ refs' = refs \ {m}
       \/ (m \in links \/ faulty) /\ UNCHANGED refs
    /\ Goto(m, "stopped")
    /\ UNCHANGED <<hostOf, faulty, links, known, stale, cleared, tries, crashed>>

\* A restart: what was being set up, replicated or torn down is FAILED, but for the
\* set-up of a migration without a load, which is still APPROVED and can be started
\* again.
Restart ==
    /\ ~crashed /\ crashed' = TRUE
    /\ \E unloaded \in SUBSET {m \in Migrations : stage[m] \in SetUp} :
          stage' = [m \in Migrations |->
                       IF m \in unloaded THEN "idle"
                       ELSE IF stage[m] \in SetUp \cup TearDown \cup {"replicating"} THEN "failed"
                       ELSE stage[m]]
    /\ UNCHANGED <<hostOf, faulty, refs, links, known, stale, cleared, tries>>

-------------------------------------------------------------------------------
(* The specification *)

\* What is left on the source cluster of earlier installations, and by hand.
Leftover == {r \in SUBSET (Former \cup Manual) : \A m, n \in r : SameHost(m, n) => m = n}

Init ==
    /\ hostOf \in [Names -> Hosts]
    /\ faulty \in BOOLEAN
    /\ refs \in Leftover
    /\ links \in SUBSET refs
    /\ known = {}
    /\ stage = [m \in Migrations |-> "idle"]
    /\ stale = [m \in Migrations |-> {}]
    /\ cleared = {}
    /\ tries = [m \in Migrations |-> 0]
    /\ crashed = FALSE

\* What the run or the handler of migration m does next.
Step(m) ==
    \/ Register(m) \/ List(m) \/ ListStale(m) \/ Retry(m)
    \/ \E n \in stale[m] : DeleteStale(m, n) \/ DeleteRaises(m, n)
    \/ CreateReplication(m) \/ NotVisible(m) \/ Record(m) \/ SetUpRaises(m)
    \/ RemoveReplication(m) \/ RemoveRef(m)

Request(m) == Begin(m) \/ Stop(m) \/ Rollback(m)

Next == (\E m \in Migrations : Step(m) \/ Request(m)) \/ Restart

Spec == Init /\ [][Next]_vars

\* Requests to the cluster are answered or time out; operators owe nothing.
FairSpec == Spec /\ \A m \in Migrations : WF_vars(Step(m))

-------------------------------------------------------------------------------
(* Properties *)

\* Every variable holds values of its kind.
TypeOK ==
    /\ hostOf \in [Names -> Hosts]
    /\ faulty \in BOOLEAN /\ crashed \in BOOLEAN
    /\ refs \in SUBSET Names /\ links \in SUBSET Names
    /\ known \in SUBSET Migrations /\ cleared \in SUBSET Migrations
    /\ stage \in [Migrations -> Stages]
    /\ stale \in [Migrations -> SUBSET Names]
    /\ tries \in [Migrations -> 0..Attempts]

\* A migration shown as REPLICATING has its reference and its replication on the
\* source cluster and their ids in its checkpoint, whatever other migrations set up
\* or clear away there.
ReplicatingIsReplicated ==
    \A m \in Migrations : At(m, "replicating") => m \in refs \cap links \cap known

\* Where requests do not fail, a stop or a rollback leaves neither replication nor
\* reference of a migration that replicated, also if a restart interrupts it.
StopLeavesNothing ==
    \A m \in Migrations :
        At(m, "stopped") /\ m \in known /\ ~faulty => m \notin refs \cup links

\* What may be in the way on m's host: references no replication uses, of earlier
\* installations or of migrations that have ended and will not remove them
\* themselves at this very moment.
Abandoned(n) ==
    \/ n \in Former \ links
    \/ n \in Migrations \ (links \cup known) /\ stage[n] \in {"failed", "stopped"}

NothingInUse(m) ==
    /\ \A n \in refs \ {m} : SameHost(m, n) => Abandoned(n)
    /\ \A n \in Migrations \ {m} : SameHost(m, n) => Abandoned(n)

\* README: "self-healing".  References left over on the destination host, and a
\* cluster that is slow to see a new one, do not keep a migration from replicating.
StaleNeverBlocks ==
    \A m \in Migrations :
        At(m, "register") /\ ~faulty /\ NothingInUse(m) ~> At(m, "replicating") \/ crashed

\* README: "it removes that stale reference".  No reference is deleted on which a
\* migration that is setting up or replicating relies.
OnlyStaleRemoved ==
    [][\A m \in refs \ refs' : m \in Migrations =>
           stage[m] \notin {"link", "linked", "replicating"}]_vars
================================================================================
