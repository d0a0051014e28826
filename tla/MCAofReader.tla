----------------------------- MODULE MCAofReader -----------------------------
(* Small instances of AofReader; see the cfg files. *)
EXTENDS AofReader

(* A DEL, and a SET of an empty key to a value that looks like the end of  *)
(* one bulk string and the beginning of another.                           *)
MCDel == << <<"d">>, <<"k">> >>
MCSet == << <<"s">>, <<>>, <<CR, LF, "$", "1">> >>
MCChars == {"d", "k", "s", CR, LF, "$", "1"}
MCCommands == {MCDel, MCSet}
=============================================================================
