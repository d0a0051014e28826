-------------------------------- MODULE MCAof --------------------------------
(* Small instances of Aof; see the cfg files. *)
EXTENDS Aof, TLC

(* Appenders are interchangeable: nothing compares or orders them. *)
AppenderSymmetry == Permutations(Appenders)
=============================================================================
