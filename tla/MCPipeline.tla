---------------------------- MODULE MCPipeline ----------------------------
(* Small instances of Pipeline for TLC.                                    *)
EXTENDS Pipeline, TLC

\* One block of the chain has a message: blocks meet in the queue and in the tables
\* of blocks, not in those of messages.
OneMessage == Cardinality({h \in DOMAIN chain : chain[h].msgs # << >>}) <= 1
=============================================================================
