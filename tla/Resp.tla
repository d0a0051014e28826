-------------------------------- MODULE Resp --------------------------------
(***************************************************************************)
(* The frames of the append-only file: what serializeToRESP puts together  *)
(* and what tryParseRESPArray and findCRLF of src/src/common/aof.cpp make  *)
(* of it, a piece at a time.  A string is a sequence of characters; only   *)
(* those that the parser tells apart have a name, and a part of a command  *)
(* may hold any of them.                                                   *)
(***************************************************************************)
EXTENDS Integers, Sequences, FiniteSetsExt

CR == "cr"
LF == "lf"
CRLF == <<CR, LF>>
Numerals == <<"0", "1", "2", "3", "4", "5", "6", "7", "8", "9">>
Digit(c) == CHOOSE d \in 0 .. 9 : Numerals[d + 1] = c
IsDigit(c) == \E d \in 0 .. 9 : Numerals[d + 1] = c

(* std::to_string of the numbers below Huge. *)
Huge == 100
Decimal(n) == IF n < 10 THEN <<Numerals[n + 1]>>
               ELSE <<Numerals[n \div 10 + 1], Numerals[(n % 10) + 1]>>

(* The number that the digits of s from first to last make; Huge stands    *)
(* for itself and for all that are larger.                                 *)
Number(s, first, last) ==
  IF first = last THEN Digit(s[first])
  ELSE IF \E i \in first .. last - 2 : Digit(s[i]) # 0 THEN Huge
  ELSE 10 * Digit(s[last - 1]) + Digit(s[last])

(* std::stoi and std::stol: the number s starts with, <<>> when they throw. *)
(* The blanks or the plus sign that they would skip before it are left     *)
(* out, and so are numbers out of their range.                             *)
Stol(s) ==
  LET negative == s # <<>> /\ s[1] = "-"
      first == IF negative THEN 2 ELSE 1
      ends  == {n \in first .. Len(s) : \A i \in first .. n : IsDigit(s[i])}
      value == Number(s, first, Max(ends))
  IN  IF ends = {} THEN <<>> ELSE <<IF negative THEN 0 - value ELSE value>>

(* serializeToRESP: the first line of a frame, and one of its parts. *)
RESPLine(mark, n) == <<mark>> \o Decimal(n) \o CRLF
RESPBulk(p) == RESPLine("$", Len(p)) \o p \o CRLF

(* The first line end of buf at or after start, 0 for npos. *)
FindCRLF(buf, start) ==
  LET found == {i \in start .. Len(buf) - 1 : buf[i] = CR /\ buf[i + 1] = LF}
  IN  IF found = {} THEN 0 ELSE Min(found)

Incomplete == [ok |-> FALSE]

(* The number in the line "<mark><number>\r\n" of buf at pos, and the      *)
(* position behind the line.                                               *)
Line(buf, pos, mark) ==
  LET rn == IF pos <= Len(buf) /\ buf[pos] = mark
            THEN FindCRLF(buf, pos + 1) ELSE 0
      number == IF rn = 0 THEN <<>> ELSE Stol(SubSeq(buf, pos + 1, rn - 1))
  IN  IF number = <<>> THEN Incomplete
      ELSE [ok |-> TRUE, number |-> number[1], pos |-> rn + 2]

(* Mutant: the data ends at the first line end, not after its length. *)
BulkToLineEnd(buf, pos) ==
  LET line == Line(buf, pos, "$")
      end  == IF line.ok THEN FindCRLF(buf, line.pos) ELSE 0
  IN  IF end = 0 THEN Incomplete
      ELSE [ok |-> TRUE, pos |-> end + 2, data |-> SubSeq(buf, line.pos, end - 1)]

(* The bulk string of buf at pos, and the position behind it.  A negative  *)
(* length is an empty string.                                              *)
Bulk(buf, pos) ==
  LET line == Line(buf, pos, "$")
      end  == line.pos + line.number
  IN  IF ~line.ok THEN Incomplete
      ELSE IF line.number < 0
      THEN [ok |-> TRUE, pos |-> line.pos, data |-> <<>>]
      ELSE IF end + 1 > Len(buf) \/ SubSeq(buf, end, end + 1) # CRLF
      THEN Incomplete
      ELSE [ok |-> TRUE, pos |-> end + 2, data |-> SubSeq(buf, line.pos, end - 1)]
=============================================================================
