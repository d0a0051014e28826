-------------------------------- MODULE MCBlp --------------------------------
(* A small instance of Blp; see the cfg file. *)
EXTENDS Blp

CONSTANTS va, junk

MCThreads == Conns \cup {Replicator}
MCValues == {<<va>>}

Setting(k, v) == [ignored |-> FALSE, key |-> k, value |-> v]

(* No settings; a replicate, with a port beyond int16_t that is set twice  *)
(* and a name that is not registered; a model that is unknown; a number    *)
(* that is none.                                                           *)
MCFiles ==
  {<<>>,
   <<[ignored |-> TRUE, key |-> <<"model">>, value |-> <<"other">>],
     Setting(<<"replica_port", Blank>>, <<7000>>),
     Setting(<<"replicate_port">>, <<7001>>),
     Setting(<<"replica_port", Blank>>, <<Blank, 40000>>),
     Setting(<<"model">>, <<Blank, "replicate", Blank>>)>>,
   <<Setting(<<"model">>, <<"other">>)>>,
   <<Setting(<<"port">>, <<junk>>)>>}
==============================================================================
