---------------------------- MODULE MCFeeGrant ----------------------------
(* Small instances of FeeGrant for TLC.                                    *)
EXTENDS FeeGrant, TLC, FiniteSetsExt

\* Pairs are interchangeable.
Symmetry == Permutations(Pair)

\* Messages on the whole chain, in blocks of up to MaxMsgs.
FewMessages == MapThenSumSet(LAMBDA h : Len(chain[h].msgs), DOMAIN chain) <= 3

\* The indexer follows the chain: at most one block waits in its queue.
Follows == Len(chain) <= next

Bounds == FewMessages /\ Follows
=============================================================================
