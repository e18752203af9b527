----------------------------- MODULE MCCatFile ------------------------------
(* CatFile with a message of two octets, an empty tree, and a name that is   *)
(* not there.                                                                *)
EXTENDS CatFile, TLC

CONSTANTS r1, r2

TwoReaders == {r1, r2}
MCSpecs == {"mail", "dir", "gone"}
MCRepository == "mail" :> [kind |-> "blob", size |-> 2] @@ "dir" :> [kind |-> "tree", size |-> 0]
Symmetry == Permutations(Readers)
=============================================================================
