-------------------------------- MODULE MCVfs --------------------------------
(* Instances of Vfs for TLC. *)
EXTENDS Vfs, TLC

Mnt == <<"mnt">>
Sda == <<"mnt", "sda">>
Sdb == <<"mnt", "sdb">>
Dev == <<"dev">>

(* The root, two directories, and two directories of one of them. *)
MCPoints == {Root, Mnt, Sda, Sdb, Dev}
MCFiles  == {<<"tmp">>, <<"dev", "tty0">>, <<"mnt", "x">>, <<"mnt", "sda", "x">>,
             <<"mnt", "sdc", "x">>}

Instances == Permutations(FS) \union Permutations(Task)
=============================================================================
