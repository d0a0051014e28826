-------------------------------- MODULE Config --------------------------------
(***************************************************************************)
(* Reading of conf/blp.conf, src/src/common/config.{h,cpp}: the registered *)
(* fields with their defaults, and what init makes of a line of the file.  *)
(* A text is a sequence of tokens: numbers, words and Blank, a space or a  *)
(* tab.  A line has a text on each side of its first '='; ignored is TRUE  *)
(* for an empty line, a comment and a line without '='.                    *)
(***************************************************************************)
EXTENDS Integers, Sequences
LOCAL INSTANCE SequencesExt

CONSTANT Blank

U16 == 65536
IntMax == 2147483647

(* The DEFINE_ lines: the names in the map of Register, and the values its *)
(* constructor gives them.                                                 *)
Int16Fields  == {"port", "replica_port"}
StringFields == {"replicate_host", "model"}
Registered   == Int16Fields \cup StringFields
Defaults ==
  [port |-> 6479, replica_port |-> 6480, replicate_host |-> <<"127.0.0.1">>,
   model |-> <<"master">>]

(* Mutant: a number that does not fit becomes the largest that does. *)
Int16Clamped(n) == IF n < U16 \div 2 THEN n ELSE U16 \div 2 - 1

(* Mutant: the field is as wide as an int. *)
Int16Wide(n) == n

(* An int as an int16_t. *)
Int16(n) == ((n + U16 \div 2) % U16) - U16 \div 2

(* trim: the text without the blanks at its ends. *)
Trim(text) ==
  LET solid == {i \in 1 .. Len(text) : text[i] # Blank}
  IN  IF solid = {} THEN <<>> ELSE SubSeq(text, Min(solid), Max(solid))

(* std::stoi takes the number at the start of a text, or throws. *)
Numeric(text) ==
  /\ text # <<>> /\ text[1] \in Int
  /\ -IntMax - 1 <= text[1] /\ text[1] <= IntMax

(* Field::set_value throws, or sets the field. *)
Refused(name, text) == name \in Int16Fields /\ ~Numeric(text)
SetValue(conf, name, text) ==
  [conf EXCEPT ![name] = IF name \in StringFields THEN text ELSE Int16(text[1])]

(* The field that a line is for, if any: a name that is not registered is  *)
(* skipped.                                                                *)
Names(line) == {name \in Registered : ~line.ignored /\ Trim(line.key) = <<name>>}
===============================================================================
