------------------------------ MODULE MCRamfs ------------------------------
(* Instances of Ramfs for TLC. *)
EXTENDS Ramfs, TLC

CONSTANT Dir    \* the name of the directory that longer paths go through

ShortPaths == {<<>>} \union {<<m>> : m \in Name} \union {<<Dir, m>> : m \in Name}

Symmetry == Permutations(Node \ {Root}) \union Permutations(Handle) \union Permutations(Task)
=============================================================================
