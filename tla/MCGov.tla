------------------------------- MODULE MCGov -------------------------------
(* Small instances of Gov for TLC.                                         *)
EXTENDS Gov, TLC

\* What the proposals do when they pass.
UpgradeAndParams == [p \in Proposal |-> IF p = 1 THEN "upgrade" ELSE "params"]
Cancel == [p \in Proposal |-> "cancel"]

\* Proposals are submitted in the order of their ids, as on the chain.
InIdOrder ==
    chain # << >> =>
        \A p, q \in Proposal :
            p < q /\ PhasesAt(Len(chain))[p] = "absent"
                => PhasesAt(Len(chain))[q] = "absent"

\* The indexer follows the chain: at most one block waits in its queue.
Following == Len(chain) <= next

WorkerSymmetry == Permutations(Worker)

Bounds == InIdOrder /\ Following
=============================================================================
