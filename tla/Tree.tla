-------------------------------- MODULE Tree --------------------------------
(***************************************************************************)
(* What a file system promises of its directories, and the VFS of the file *)
(* systems mounted in one another: they are a tree.  A node comes below a  *)
(* node that is there and stays below it, whatever it is called, and goes  *)
(* when nothing is below it.                                               *)
(***************************************************************************)

CONSTANTS
    Node,
    Nothing     \* what is above the root, and above what is not there

VARIABLES
    nodes,      \* the nodes that are there
    above       \* the node that a node is below

vars == <<nodes, above>>

TypeOK ==
    /\ nodes \in SUBSET Node
    /\ above \in [Node -> Node \union {Nothing}]

Below(n) == {m \in nodes : above[m] = n}

(* There is a root, or nothing yet. *)
Init ==
    /\ nodes = {} \/ \E r \in Node : nodes = {r}
    /\ above = [n \in Node |-> Nothing]

Plant(r) ==
    /\ nodes = {}
    /\ nodes' = {r}
    /\ UNCHANGED above

Grow(n, p) ==
    /\ n \notin nodes /\ p \in nodes
    /\ nodes' = nodes \union {n}
    /\ above' = [above EXCEPT ![n] = p]

Prune(n) ==
    /\ n \in nodes
    /\ Below(n) = {}
    /\ nodes' = nodes \ {n}
    /\ above' = [above EXCEPT ![n] = Nothing]

Next ==
    \E n \in Node : Plant(n) \/ Prune(n) \/ \E p \in Node : Grow(n, p)

Spec == Init /\ [][Next]_vars
-----------------------------------------------------------------------------
(* What follows: there is one root, and going up from any node leads to    *)
(* it.  A set of nodes without a way out, as a directory that is below     *)
(* itself, or one whose own directory is gone, does not exist.             *)
OneRoot == \A m, n \in nodes : above[m] = Nothing /\ above[n] = Nothing => m = n

LeadsUp ==
    \A S \in SUBSET nodes : S # {} =>
        \E n \in S : above[n] \notin S /\ above[n] \in nodes \union {Nothing}
=============================================================================
