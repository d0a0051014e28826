------------------------------- MODULE MCStore -------------------------------
(* Small instances of Store; see the cfg files. *)
EXTENDS Store

CONSTANTS va, vb

(* A plain string, and one with two tabs: "vb\t\t2". *)
MCValues == {<<va>>, <<vb, Empty, 2>>}
MCOneValue == {<<va>>}
MCSeconds == {-2, 1}
=============================================================================
