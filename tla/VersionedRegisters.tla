------------------------- MODULE VersionedRegisters -------------------------
(***************************************************************************)
(* What the height-guarded tables of the indexer promise their readers: a  *)
(* register per key that is empty or holds a value stamped with the block  *)
(* height it belongs to.  A write never replaces a newer value by an older *)
(* one; pruning may empty registers.                                       *)
(***************************************************************************)
EXTENDS Integers

CONSTANTS Key,      \* the registers
          NoRow     \* content of an empty register

VARIABLE reg        \* for each key, NoRow or a record with a field height

Init == reg = [k \in Key |-> NoRow]

\* A write installs a value at least as recent as the one it replaces.
Write(k) ==
    /\ reg'[k] # NoRow
    /\ reg[k] # NoRow => reg[k].height <= reg'[k].height

\* Pruning removes the value.
Clear(k) == reg'[k] = NoRow

Next == \A k \in Key : reg'[k] = reg[k] \/ Write(k) \/ Clear(k)

Spec == Init /\ [][Next]_reg
=============================================================================
