-------------------------- MODULE MCChainSnapshots --------------------------
(* Small instances of ChainSnapshots for TLC.  Tables share nothing but the  *)
(* block table and the pruning call, so a history of all of them is explored *)
(* as one history for each of them.                                          *)
EXTENDS ChainSnapshots, TLC

VARIABLE table      \* the table this history is about

EveryTable == AllTables

OnlyTable == {table, "none"}

OneTableInit == Init /\ table \in Tables

OneTableNext ==
    /\ Next
    /\ \A p \in Proc : op'[p].table \in OnlyTable
    /\ UNCHANGED table

\* The fairness of ChainSnapshots for the one table that is refreshed.
OneTableFairness ==
    \A p \in Proc :
        /\ SF_vars(StartPeriodic(p, table))
        /\ \A h \in 0..MaxHeight :
              SF_vars(/\ table \in PeriodicTables
                      /\ op[p].table = table /\ op[p].height = h
                      /\ QueryAnswered(p))
        /\ WF_vars(RefreshEnd(p))

OneTableSpec ==
    OneTableInit /\ [][OneTableNext]_<<vars, table>> /\ OneTableFairness

\* PeriodicTablesCatchUp for the one table: once a block is stored, a table that is
\* refreshed periodically eventually reaches it, although queries fail and the
\* process restarts.
PeriodicTableCatchesUp ==
    \A h \in 1..MaxHeight :
        (table \in PeriodicTables /\ h \in block)
            ~> (row[table] # NoRow /\ row[table].height >= h)
=============================================================================
