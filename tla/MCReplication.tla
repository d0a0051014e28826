--------------------------- MODULE MCReplication ---------------------------
(* Small instances of Replication; see the cfg files. *)
EXTENDS Replication, TLC

AppenderSymmetry == Permutations(Appenders)
(* SET k a, SET k bb, DEL k. *)
MCCommands ==
  SubSeq(<<[cmd |-> SET, key |-> <<107>>, value |-> <<97>>],
           [cmd |-> SET, key |-> <<107>>, value |-> <<98, 98>>],
           [cmd |-> DEL, key |-> <<107>>, value |-> <<>>]>>, 1, MaxAppends)
=============================================================================
