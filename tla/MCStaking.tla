------------------------------ MODULE MCStaking ------------------------------
EXTENDS Staking, TLC

CONSTANTS v1, v2, w

VARIABLE part       \* what this history is about

MCValidator == {v1, v2, w}

\* v1 and v2 are keys of one operator, one after the other.
MCOperator == v1 :> "o1" @@ v2 :> "o1" @@ w :> "o2"

States(s1, s2, s3) == v1 :> s1 @@ v2 :> s2 @@ w :> s3

MCChainState == {States("bonded", "absent", "bonded"),
                 States("bonded", "absent", "absent"),
                 States("unbonded", "absent", "bonded"),
                 States("absent", "bonded", "bonded")}

V(who, b, h) == [by |-> who, block |-> b, height |-> h]

\* v1 votes for a block and for nil at height 1 and again at height 2.
MCVote == {V(v1, "b1", 1), V(v1, "nil", 1), V(v1, "nil", 2), V(v1, "b2", 2),
           V(w, "b1", 1), V(w, "c1", 1)}

MCEvidence == << << >>,
                 <<[a |-> V(v1, "b1", 1), b |-> V(v1, "nil", 1)]>>,
                 <<[a |-> V(w, "b1", 1), b |-> V(w, "c1", 1)],
                   [a |-> V(v1, "nil", 2), b |-> V(v1, "b2", 2)]>> >>

PartInit == Init /\ part \in {"infos", "statuses", "evidence"}

\* Where the part is not about it, a goroutine that saves evidences runs to its end
\* before anything else happens.
EvidenceRuns == \E r \in Routine : routine[r] # NoRoutine

\* What the histories of each part have in them: the kinds of handlers, the chain
\* and the faults.
PartNext ==
    /\ Next
    /\ UNCHANGED part
    /\ Len(chain') > 0 => chain'[1] = States("bonded", "absent", "bonded")
    /\ part # "evidence" /\ EvidenceRuns => UNCHANGED <<chain, block, op, failures, pruned>>
    /\ CASE part = "infos" ->
              /\ \A p \in Proc : op'[p].kind # "statuses"
              /\ Len(chain') <= 2 /\ failures' = 0 /\ pruned' = 0
         [] part = "statuses" ->
              /\ \A p \in Proc : op'[p].kind # "refresh"
              /\ \A p \in Proc : op'[p].kind = "block" => op'[p].height = 2
              /\ Cardinality({p \in Proc : op'[p].kind = "block"}) <= 1
              /\ Len(chain') <= 2 /\ failures' + pruned' <= 1
              /\ \A h \in DOMAIN chain' : chain'[h][v1] # "unbonded" /\ chain'[h][w] = "bonded"
              /\ \/ failures' + pruned' = 0
                 \/ /\ handled' = {} /\ \A p \in Proc : op'[p].kind # "block"
                    /\ \A h \in DOMAIN chain' : chain'[h] = chain'[1]
         [] part = "evidence" ->
              /\ \A h \in DOMAIN chain' : chain'[h] = chain'[1]
              /\ \A p \in Proc : /\ op'[p].kind \in {"idle", "block"}
                                 /\ op'[p].height \in {0, 2, 3}
              /\ Cardinality({p \in Proc : op'[p] # Idle}) <= 1

PartSpec == PartInit /\ [][PartNext]_<<vars, part>>

Interchangeable == Permutations(Proc) \cup Permutations(Routine)
=============================================================================
