------------------------------ MODULE MCService ------------------------------
(* Small instances of Service; see the cfg files. *)
EXTENDS Service

CONSTANTS va, vb

MCThreads == Conns \cup {Replicator}
MCValues == {<<va>>, <<vb, Empty, 2>>}
MCSeconds == {-2, 1}
=============================================================================
