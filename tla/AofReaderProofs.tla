--------------------------- MODULE AofReaderProofs ---------------------------
(***************************************************************************)
(* Theorems about AofReader: what the readers of the append-only file make *)
(* of any file of frames, in chunks of any size, for any commands.         *)
(***************************************************************************)
EXTENDS AofReader, SequenceTheorems, WellFoundedInduction, TLAPS

(* What the bytes of a file may be. *)
Signs    == {"0", "1", "2", "3", "4", "5", "6", "7", "8", "9"}
Alphabet == Chars \cup Signs \cup {CR, LF, "*", "$", "-"}

(* Every set of natural numbers has a least element. *)
LEMMA Least ==
  ASSUME NEW T \in SUBSET Nat, T # {}
  PROVE  Min(T) \in T /\ \A y \in T : Min(T) <= y
<1> DEFINE R == OpToRel(<, Nat)
<1>1. IsWellFoundedOn(R, Nat)
  BY NatLessThanWellFounded
<1>2. \A x, y \in Nat : <<y, x>> \in R <=> y < x
  BY DEF OpToRel
<1> HIDE DEF R
<1>3. PICK x \in T : \A y \in T : ~(<<y, x>> \in R)
  BY <1>1, WFMin
<1>4. ASSUME NEW y \in T PROVE x <= y
  <2>1. x \in Nat /\ y \in Nat
    OBVIOUS
  <2>2. ~(y < x)
    BY <1>2, <1>3, <2>1, Zenon
  <2>3. QED
    BY <2>1, <2>2
<1>5. QED
  BY <1>4 DEF Min

(* A bounded one has a greatest. *)
LEMMA Greatest ==
  ASSUME NEW n \in Nat, NEW T \in SUBSET (0 .. n), T # {}
  PROVE  Max(T) \in T /\ \A y \in T : Max(T) >= y
<1> DEFINE U == {n - x : x \in T}
<1>1. U \in SUBSET Nat /\ U # {}
  <2>1. \A x \in T : n - x \in Nat
    OBVIOUS
  <2>2. QED
    BY <2>1, Zenon
<1>2. Min(U) \in U /\ \A y \in U : Min(U) <= y
  BY <1>1, Least
<1>3. PICK x \in T : Min(U) = n - x
  BY <1>2
<1>4. ASSUME NEW y \in T PROVE x >= y
  <2>1. n - y \in U
    OBVIOUS
  <2>2. n - x <= n - y
    BY <1>2, <1>3, <2>1
  <2>3. QED
    BY <2>2
<1>5. QED
  BY <1>4 DEF Max

-----------------------------------------------------------------------------
(* Numbers and lines. *)

(* The ten digits differ from each other and from the other characters     *)
(* that the parser knows.                                                  *)
LEMMA NumeralFacts ==
  ASSUME NEW d \in 0 .. 9
  PROVE  /\ Numerals[d + 1] \in Alphabet /\ Numerals[d + 1] \notin {CR, LF, "-"}
         /\ IsDigit(Numerals[d + 1]) /\ Digit(Numerals[d + 1]) = d
<1>1. \A a \in 0 .. 9 : Numerals[a + 1] \in Alphabet /\ Numerals[a + 1] \notin {CR, LF, "-"}
  <2>1. ASSUME NEW a \in 0 .. 9
        PROVE  Numerals[a + 1] \in Signs
    BY DEF Numerals, Signs
  <2>2. \A c \in Signs : c \in Alphabet /\ c \notin {CR, LF, "-"}
    BY DEF CR, LF, Signs, Alphabet
  <2>3. QED
    BY <2>1, <2>2
<1>2. \A a \in 0 .. 9 : Numerals[a + 1] = Numerals[d + 1] => a = d
  BY DEF Numerals
<1>3. IsDigit(Numerals[d + 1])
  BY DEF IsDigit
<1>4. Digit(Numerals[d + 1]) = d
  BY <1>2 DEF Digit
<1>5. QED
  BY <1>1, <1>3, <1>4

(* A digit has a value. *)
LEMMA DigitRange ==
  ASSUME NEW c, IsDigit(c)
  PROVE  Digit(c) \in 0 .. 9
BY DEF IsDigit, Digit

(* What to_string writes has one or two characters, all of them digits. *)
LEMMA DecimalFacts ==
  ASSUME NEW n \in 0 .. Huge - 1
  PROVE  /\ Decimal(n) \in Seq(Alphabet) /\ Len(Decimal(n)) \in {1, 2}
         /\ \A i \in 1 .. Len(Decimal(n)) :
              /\ Decimal(n)[i] \notin {CR, LF, "-"} /\ IsDigit(Decimal(n)[i])
         /\ Len(Decimal(n)) = 1 => Digit(Decimal(n)[1]) = n
         /\ Len(Decimal(n)) = 2 => 10 * Digit(Decimal(n)[1]) + Digit(Decimal(n)[2]) = n
<1>1. n \in 0 .. 99
  BY DEF Huge
<1>2. CASE n < 10
  <2>1. n \in 0 .. 9 /\ Decimal(n) = <<Numerals[n + 1]>>
    BY <1>1, <1>2 DEF Decimal
  <2>2. PICK c \in Alphabet : /\ c = Numerals[n + 1] /\ c \notin {CR, LF, "-"}
                            /\ IsDigit(c) /\ Digit(c) = n
    BY <2>1, NumeralFacts
  <2>3. Decimal(n) = <<c>>
    BY <2>1, <2>2
  <2>4. QED
    BY <2>2, <2>3
<1>3. CASE n >= 10
  <2>1. n \div 10 \in 0 .. 9 /\ n % 10 \in 0 .. 9 /\ 10 * (n \div 10) + (n % 10) = n
    BY <1>1
  <2>2. Decimal(n) = <<Numerals[n \div 10 + 1], Numerals[(n % 10) + 1]>>
    BY <1>1, <1>3 DEF Decimal
  <2>3. PICK c \in Alphabet : /\ c = Numerals[n \div 10 + 1] /\ c \notin {CR, LF, "-"}
                            /\ IsDigit(c) /\ Digit(c) = n \div 10
    BY <2>1, NumeralFacts
  <2>4. PICK d \in Alphabet : /\ d = Numerals[(n % 10) + 1] /\ d \notin {CR, LF, "-"}
                            /\ IsDigit(d) /\ Digit(d) = n % 10
    BY <2>1, NumeralFacts
  <2>5. Decimal(n) = <<c, d>>
    BY <2>2, <2>3, <2>4
  <2>6. 10 * Digit(c) + Digit(d) = n
    BY <2>1, <2>3, <2>4
  <2>7. QED
    BY <2>3, <2>4, <2>5, <2>6
<1>4. QED
  BY <1>1, <1>2, <1>3

(* stol reads what to_string wrote. *)
LEMMA StolDecimal ==
  ASSUME NEW n \in 0 .. Huge - 1
  PROVE  Stol(Decimal(n)) = <<n>>
<1> DEFINE s == Decimal(n)
           negative == s # <<>> /\ s[1] = "-"
           first0 == IF negative THEN 2 ELSE 1
           ends == {m \in first0 .. Len(s) : \A i \in first0 .. m : IsDigit(s[i])}
           value == Number(s, first0, Max(ends))
<1>1. Stol(s) = IF ends = {} THEN <<>> ELSE <<IF negative THEN 0 - value ELSE value>>
  BY DEF Stol
<1>2. s \in Seq(Alphabet) /\ Len(s) \in {1, 2} /\ s[1] # "-"
      /\ \A i \in 1 .. Len(s) : IsDigit(s[i])
  BY DecimalFacts
<1>3. ~negative /\ first0 = 1
  BY <1>2
<1>4. ends = 1 .. Len(s)
  BY <1>2, <1>3
<1>5. Max(ends) = Len(s)
  BY <1>2, <1>4 DEF Max
<1>6. value = n
  <2>1. value = Number(s, 1, Len(s))
    BY <1>3, <1>5
  <2>2. CASE Len(s) = 1
    BY <2>1, <2>2, DecimalFacts DEF Number
  <2>3. CASE Len(s) = 2
    BY <2>1, <2>3, DecimalFacts, SMTT(30) DEF Number
  <2>4. QED
    BY <1>2, <2>2, <2>3
<1> HIDE DEF value, ends, negative
<1>7. QED
  BY <1>1, <1>2, <1>3, <1>4, <1>6

(* stol returns a number, whatever it is given. *)
LEMMA StolRange ==
  ASSUME NEW s \in Seq(Alphabet), Stol(s) # <<>>
  PROVE  Stol(s)[1] \in Int
<1> DEFINE negative == s # <<>> /\ s[1] = "-"
           first0 == IF negative THEN 2 ELSE 1
           ends == {m \in first0 .. Len(s) : \A i \in first0 .. m : IsDigit(s[i])}
           value == Number(s, first0, Max(ends))
<1>1. Stol(s) = IF ends = {} THEN <<>> ELSE <<IF negative THEN 0 - value ELSE value>>
  BY DEF Stol
<1>2. ends # {} /\ first0 \in {1, 2} /\ Len(s) \in Nat
  BY <1>1, LenProperties
<1>3. ends \in SUBSET (0 .. Len(s))
  BY <1>2
<1>4. Max(ends) \in ends
  BY <1>2, <1>3, Greatest
<1>5. PICK last \in Nat : last = Max(ends) /\ last >= first0
                          /\ \A i \in first0 .. last : IsDigit(s[i])
  <2>1. \A m \in ends : m \in Nat /\ m >= first0 /\ \A i \in first0 .. m : IsDigit(s[i])
    BY <1>2
  <2> HIDE DEF ends, first0
  <2>2. QED
    BY <1>4, <2>1
<1> HIDE DEF ends, first0
<1>6. value \in Int
  <2>1. value = Number(s, first0, last)
    BY <1>5
  <2>2. \A i \in first0 .. last : Digit(s[i]) \in 0 .. 9
    BY <1>5, DigitRange
  <2>3. CASE first0 = last
    BY <1>2, <2>1, <2>2, <2>3 DEF Number
  <2>4. CASE first0 # last
    <3>1. last - 1 \in first0 .. last /\ last \in first0 .. last
      BY <1>2, <1>5, <2>4
    <3>2. 10 * Digit(s[last - 1]) + Digit(s[last]) \in Int
      BY <2>2, <3>1, SMTT(30)
    <3>3. QED
      BY <2>1, <2>4, <3>2 DEF Number, Huge
  <2>5. QED
    BY <2>3, <2>4
<1> HIDE DEF value, negative
<1>7. Stol(s) = <<0 - value>> \/ Stol(s) = <<value>>
  BY <1>1, <1>2
<1>8. QED
  BY <1>6, <1>7

(* The line that the serialiser writes. *)
LEMMA LineText ==
  ASSUME NEW mark \in {"*", "$"}, NEW n \in 0 .. Huge - 1
  PROVE  /\ RESPLine(mark, n) \in Seq(Alphabet)
         /\ Len(RESPLine(mark, n)) = Len(Decimal(n)) + 3
         /\ RESPLine(mark, n)[1] = mark
         /\ \A i \in 1 .. Len(Decimal(n)) : RESPLine(mark, n)[i + 1] = Decimal(n)[i]
         /\ RESPLine(mark, n)[Len(Decimal(n)) + 2] = CR
         /\ RESPLine(mark, n)[Len(Decimal(n)) + 3] = LF
<1>1. PICK d \in Seq(Alphabet) : d = Decimal(n) /\ Len(d) \in {1, 2}
  BY DecimalFacts
<1>2. <<mark>> \in Seq(Alphabet) /\ Len(<<mark>>) = 1 /\ <<mark>>[1] = mark
      /\ CRLF \in Seq(Alphabet) /\ Len(CRLF) = 2 /\ CRLF[1] = CR /\ CRLF[2] = LF
  BY DEF CRLF, Alphabet
<1>3. PICK a \in Seq(Alphabet) : a = <<mark>> \o d
  BY <1>1, <1>2, ConcatProperties
<1>4. Len(a) = Len(d) + 1 /\ a[1] = mark /\ \A i \in 1 .. Len(d) : a[i + 1] = d[i]
  BY <1>1, <1>2, <1>3, ConcatProperties
<1>5. RESPLine(mark, n) = a \o CRLF
  BY <1>1, <1>3 DEF RESPLine
<1>6. /\ a \o CRLF \in Seq(Alphabet) /\ Len(a \o CRLF) = Len(d) + 3
      /\ \A i \in 1 .. Len(d) + 1 : (a \o CRLF)[i] = a[i]
      /\ (a \o CRLF)[Len(d) + 2] = CR /\ (a \o CRLF)[Len(d) + 3] = LF
  <2>0. PICK e \in Seq(Alphabet) : e = CRLF /\ Len(e) = 2
    BY <1>2
  <2>1. /\ a \o CRLF \in Seq(Alphabet) /\ Len(a \o CRLF) = Len(a) + 2
        /\ \A i \in 1 .. Len(a) + 2 :
             (a \o CRLF)[i] = IF i <= Len(a) THEN a[i] ELSE CRLF[i - Len(a)]
    <3>1. /\ a \o e \in Seq(Alphabet) /\ Len(a \o e) = Len(a) + Len(e)
          /\ \A i \in 1 .. Len(a) + Len(e) :
               (a \o e)[i] = IF i <= Len(a) THEN a[i] ELSE e[i - Len(a)]
      BY ConcatProperties
    <3>2. QED
      BY <2>0, <3>1
  <2>2. PICK k \in {1, 2} : k = Len(d) /\ Len(a) = k + 1
    BY <1>1, <1>4
  <2>3. \A i \in 1 .. k + 1 : (a \o CRLF)[i] = a[i]
    BY <2>1, <2>2
  <2>4. (a \o CRLF)[k + 2] = CRLF[1]
    <3>1. k + 2 \in 1 .. Len(a) + 2 /\ ~(k + 2 <= Len(a)) /\ k + 2 - Len(a) = 1
      BY <2>2
    <3>2. QED
      BY <2>1, <3>1
  <2>5. (a \o CRLF)[k + 3] = CRLF[2]
    <3>1. k + 3 \in 1 .. Len(a) + 2 /\ ~(k + 3 <= Len(a)) /\ k + 3 - Len(a) = 2
      BY <2>2
    <3>2. QED
      BY <2>1, <3>1
  <2>6. QED
    BY <1>2, <2>1, <2>2, <2>3, <2>4, <2>5
<1>7. QED
  BY <1>1, <1>4, <1>5, <1>6

(* What findCRLF finds. *)
LEMMA FindFacts ==
  ASSUME NEW buf \in Seq(Alphabet), NEW start \in Nat \ {0},
         NEW r, r = FindCRLF(buf, start)
  PROVE  /\ r \in Nat
         /\ r = 0 => \A i \in start .. Len(buf) - 1 : buf[i] # CR \/ buf[i + 1] # LF
         /\ r # 0 => /\ r \in start .. Len(buf) - 1 /\ buf[r] = CR /\ buf[r + 1] = LF
                     /\ \A i \in start .. r - 1 : buf[i] # CR \/ buf[i + 1] # LF
<1> DEFINE found == {i \in start .. Len(buf) - 1 : buf[i] = CR /\ buf[i + 1] = LF}
<1>1. r = IF found = {} THEN 0 ELSE Min(found)
  BY DEF FindCRLF
<1>2. Len(buf) \in Nat
  BY LenProperties
<1>3. CASE found = {}
  <2>1. \A i \in start .. Len(buf) - 1 : buf[i] # CR \/ buf[i + 1] # LF
    BY <1>3
  <2>2. r = 0
    BY <1>1, <1>3
  <2>3. QED
    BY <2>1, <2>2
<1>4. CASE found # {}
  <2>1. found \in SUBSET Nat
    BY <1>2
  <2>2. PICK m : m = Min(found) /\ m \in found /\ \A y \in found : m <= y
    <3> HIDE DEF found
    <3> QED BY <1>4, <2>1, Least
  <2>3. m \in start .. Len(buf) - 1 /\ buf[m] = CR /\ buf[m + 1] = LF
    BY <2>2
  <2>4. ASSUME NEW i \in start .. m - 1 PROVE buf[i] # CR \/ buf[i + 1] # LF
    <3>1. i \in start .. Len(buf) - 1 /\ ~(m <= i)
      BY <1>2, <2>3
    <3>2. i \notin found
      BY <2>2, <3>1
    <3>3. QED
      BY <3>1, <3>2
  <2>5. r = m /\ m # 0 /\ m \in Nat
    BY <1>1, <1>2, <1>4, <2>2, <2>3, SMTT(30)
  <2> HIDE DEF found
  <2>6. QED
    BY <1>2, <2>3, <2>4, <2>5
<1>5. QED
  BY <1>3, <1>4

(* buf holds text from pos on, as far as it goes. *)
Shows(buf, pos, text) ==
  \A i \in 1 .. Len(text) : pos + i - 1 <= Len(buf) => buf[pos + i - 1] = text[i]

(* A line is read when it is there to its end, and not before: its digits  *)
(* alone do not count.                                                     *)
LEMMA LineRead ==
  ASSUME NEW buf \in Seq(Alphabet), NEW pos \in Nat \ {0},
         NEW mark \in {"*", "$"}, NEW n \in 0 .. Huge - 1,
         Shows(buf, pos, RESPLine(mark, n))
  PROVE  /\ pos + Len(RESPLine(mark, n)) - 1 <= Len(buf) =>
              Line(buf, pos, mark) = [ok |-> TRUE, number |-> n,
                                      pos |-> pos + Len(RESPLine(mark, n))]
         /\ pos + Len(RESPLine(mark, n)) - 1 > Len(buf) => ~Line(buf, pos, mark).ok
<1> DEFINE rn == IF pos <= Len(buf) /\ buf[pos] = mark
                 THEN FindCRLF(buf, pos + 1) ELSE 0
           number == IF rn = 0 THEN <<>> ELSE Stol(SubSeq(buf, pos + 1, rn - 1))
<1>1. Line(buf, pos, mark) = IF number = <<>> THEN Incomplete
                             ELSE [ok |-> TRUE, number |-> number[1], pos |-> rn + 2]
  BY DEF Line
<1>2. PICK d \in Seq(Alphabet) : d = Decimal(n) /\ Len(d) \in {1, 2}
                              /\ \A i \in 1 .. Len(d) : d[i] # CR
  BY DecimalFacts
<1>3. PICK k \in {1, 2} : k = Len(d)
  BY <1>2
<1>4. PICK b \in Nat : b = Len(buf)
  BY LenProperties
<1>5. /\ Len(RESPLine(mark, n)) = k + 3
      /\ pos <= b => buf[pos] = mark
      /\ \A i \in 1 .. k : pos + i <= b => buf[pos + i] = d[i]
      /\ pos + k + 1 <= b => buf[pos + k + 1] = CR
      /\ pos + k + 2 <= b => buf[pos + k + 2] = LF
  <2> DEFINE t == RESPLine(mark, n)
  <2>1. /\ Len(t) = k + 3 /\ t[1] = mark /\ t[k + 2] = CR /\ t[k + 3] = LF
        /\ \A i \in 1 .. k : t[i + 1] = d[i]
    BY <1>2, <1>3, LineText
  <2>2. \A i \in 1 .. Len(t) : pos + i - 1 <= b => buf[pos + i - 1] = t[i]
    BY <1>4 DEF Shows
  <2> HIDE DEF t
  <2>3. \A i \in 1 .. k + 3 : pos + i - 1 <= b => buf[pos + i - 1] = t[i]
    BY <2>1, <2>2
  <2>4. pos <= b => buf[pos] = mark
    <3>1. 1 \in 1 .. k + 3 /\ pos + 1 - 1 = pos
      BY <1>3
    <3>2. QED
      BY <2>1, <2>3, <3>1
  <2>5. ASSUME NEW i \in 1 .. k, pos + i <= b PROVE buf[pos + i] = d[i]
    <3>1. i + 1 \in 1 .. k + 3 /\ pos + (i + 1) - 1 = pos + i
      BY <1>3
    <3>2. QED
      BY <2>1, <2>3, <2>5, <3>1
  <2>6. pos + k + 1 <= b => buf[pos + k + 1] = CR
    <3>1. k + 2 \in 1 .. k + 3 /\ pos + (k + 2) - 1 = pos + k + 1
      BY <1>3
    <3>2. QED
      BY <2>1, <2>3, <3>1
  <2>7. pos + k + 2 <= b => buf[pos + k + 2] = LF
    <3>1. k + 3 \in 1 .. k + 3 /\ pos + (k + 3) - 1 = pos + k + 2
      BY <1>3
    <3>2. QED
      BY <2>1, <2>3, <3>1
  <2>8. QED
    BY <2>1, <2>4, <2>5, <2>6, <2>7 DEF t
<1>6. \A i \in pos + 1 .. pos + k : i <= b => buf[i] # CR
  <2> SUFFICES ASSUME NEW i \in pos + 1 .. pos + k, i <= b PROVE buf[i] # CR
    OBVIOUS
  <2>1. i - pos \in 1 .. k /\ pos + (i - pos) = i
    BY <1>3
  <2>2. PICK j \in 1 .. k : j = i - pos
    BY <2>1
  <2>3. buf[pos + j] = d[j]
    BY <1>3, <1>5, <2>2
  <2>4. d[j] # CR
    BY <1>2, <1>3
  <2>5. QED
    BY <2>1, <2>2, <2>3, <2>4
<1>7. ASSUME pos + k + 2 <= b
      PROVE  Line(buf, pos, mark) = [ok |-> TRUE, number |-> n, pos |-> pos + k + 3]
  <2>1. rn = FindCRLF(buf, pos + 1)
    BY <1>3, <1>4, <1>5, <1>7
  <2>2. FindCRLF(buf, pos + 1) = pos + k + 1
    <3>1. PICK r : r = FindCRLF(buf, pos + 1)
      OBVIOUS
    <3>0. pos + 1 \in Nat \ {0}
      OBVIOUS
    <3>2. pos + k + 1 \in pos + 1 .. b - 1 /\ buf[pos + k + 1] = CR
          /\ buf[pos + k + 1 + 1] = LF
      BY <1>3, <1>5, <1>7
    <3>3. r # 0
      BY <1>4, <3>0, <3>1, <3>2, FindFacts
    <3>4. /\ r \in pos + 1 .. b - 1 /\ buf[r] = CR
          /\ \A i \in pos + 1 .. r - 1 : buf[i] # CR \/ buf[i + 1] # LF
      BY <1>4, <3>0, <3>1, <3>3, FindFacts
    <3>5. ~(r \in pos + 1 .. pos + k)
      BY <1>6, <3>4
    <3>6. ~(pos + k + 1 \in pos + 1 .. r - 1)
      BY <3>2, <3>4
    <3>7. r \in Nat /\ r >= pos + k + 1
      BY <1>3, <3>4, <3>5
    <3>8. ~(pos + k + 1 <= r - 1)
      BY <1>3, <3>6, <3>7
    <3>9. QED
      BY <1>3, <3>1, <3>7, <3>8
  <2>3. SubSeq(buf, pos + 1, pos + k) = d
    <3>1. /\ SubSeq(buf, pos + 1, pos + k) \in Seq(Alphabet)
          /\ Len(SubSeq(buf, pos + 1, pos + k)) = k
          /\ \A i \in 1 .. k : SubSeq(buf, pos + 1, pos + k)[i] = buf[pos + i]
      BY <1>3, <1>4, <1>7, SubSeqProperties
    <3>2. \A i \in 1 .. k : SubSeq(buf, pos + 1, pos + k)[i] = d[i]
      BY <1>3, <1>5, <1>7, <3>1
    <3>3. QED
      BY <1>2, <1>3, <3>1, <3>2, SeqEqual
  <2>4. number = <<n>>
    <3>1. pos + k + 1 # 0 /\ pos + k + 1 - 1 = pos + k
      BY <1>3
    <3>2. rn # 0 /\ rn - 1 = pos + k
      BY <2>1, <2>2, <3>1
    <3>3. number = Stol(SubSeq(buf, pos + 1, rn - 1))
      BY <3>2
    <3> HIDE DEF number, rn
    <3>4. number = Stol(d)
      BY <2>3, <3>2, <3>3
    <3>5. QED
      BY <1>2, <3>4, StolDecimal
  <2>5. pos + k + 1 + 2 = pos + k + 3
    BY <1>3
  <2> HIDE DEF number, rn
  <2>6. QED
    BY <1>1, <2>1, <2>2, <2>4, <2>5
<1>8. ASSUME pos + k + 2 > b
      PROVE  ~Line(buf, pos, mark).ok
  <2>1. FindCRLF(buf, pos + 1) = 0
    <3>1. PICK r : r = FindCRLF(buf, pos + 1)
      OBVIOUS
    <3>0. pos + 1 \in Nat \ {0}
      OBVIOUS
    <3>2. r # 0 => r \in pos + 1 .. b - 1 /\ buf[r] = CR
      BY <1>4, <3>0, <3>1, FindFacts
    <3>3. r # 0 => r \in pos + 1 .. pos + k /\ r <= b
      BY <1>3, <1>8, <3>2
    <3>4. QED
      BY <1>6, <3>1, <3>2, <3>3
  <2>2. number = <<>>
    BY <2>1
  <2>3. QED
    BY <1>1, <2>2 DEF Incomplete
<1>9. QED
  BY <1>3, <1>4, <1>5, <1>7, <1>8

(* What is taken for a line lies within the buffer, and has a number. *)
LEMMA LineRange ==
  ASSUME NEW buf \in Seq(Alphabet), NEW pos \in Nat \ {0}, NEW mark,
         Line(buf, pos, mark).ok
  PROVE  /\ Line(buf, pos, mark).number \in Int
         /\ Line(buf, pos, mark).pos \in pos + 1 .. Len(buf) + 1
<1> DEFINE rn == IF pos <= Len(buf) /\ buf[pos] = mark
                 THEN FindCRLF(buf, pos + 1) ELSE 0
           number == IF rn = 0 THEN <<>> ELSE Stol(SubSeq(buf, pos + 1, rn - 1))
<1>1. Line(buf, pos, mark) = IF number = <<>> THEN Incomplete
                             ELSE [ok |-> TRUE, number |-> number[1], pos |-> rn + 2]
  BY DEF Line
<1>2. number # <<>>
  BY <1>1 DEF Incomplete
<1>3. rn # 0 /\ rn = FindCRLF(buf, pos + 1) /\ Len(buf) \in Nat
  BY <1>2, LenProperties
<1>4. rn \in pos + 1 .. Len(buf) - 1
  <2>1. pos + 1 \in Nat \ {0}
    OBVIOUS
  <2> HIDE DEF rn
  <2>2. QED
    BY <1>3, <2>1, FindFacts
<1>5. SubSeq(buf, pos + 1, rn - 1) \in Seq(Alphabet)
  <2>1. \A i \in pos + 1 .. rn - 1 : buf[i] \in Alphabet
    BY <1>3, <1>4
  <2> HIDE DEF rn
  <2>2. QED
    BY <1>3, <1>4, <2>1, SubSeqProperties
<1>6. number[1] \in Int
  BY <1>2, <1>3, <1>5, StolRange
<1> HIDE DEF number, rn
<1>7. QED
  BY <1>1, <1>2, <1>3, <1>4, <1>6

(* One text behind another. *)
LEMMA Behind ==
  ASSUME NEW a \in Seq(Alphabet), NEW e \in Seq(Alphabet)
  PROVE  /\ a \o e \in Seq(Alphabet) /\ Len(a \o e) = Len(a) + Len(e)
         /\ \A i \in 1 .. Len(a) : (a \o e)[i] = a[i]
         /\ \A i \in 1 .. Len(e) : (a \o e)[Len(a) + i] = e[i]
<1>1. /\ a \o e \in Seq(Alphabet) /\ Len(a \o e) = Len(a) + Len(e)
      /\ \A i \in 1 .. Len(a) + Len(e) :
           (a \o e)[i] = IF i <= Len(a) THEN a[i] ELSE e[i - Len(a)]
  BY ConcatProperties
<1>2. Len(a) \in Nat /\ Len(e) \in Nat
  BY LenProperties
<1>3. ASSUME NEW i \in 1 .. Len(a) PROVE (a \o e)[i] = a[i]
  BY <1>1, <1>2
<1>4. ASSUME NEW i \in 1 .. Len(e) PROVE (a \o e)[Len(a) + i] = e[i]
  <2>1. Len(a) + i \in 1 .. Len(a) + Len(e) /\ ~(Len(a) + i <= Len(a))
        /\ Len(a) + i - Len(a) = i
    BY <1>2
  <2>2. QED
    BY <1>1, <2>1
<1>5. QED
  BY <1>1, <1>3, <1>4

(* A piece of a text. *)
LEMMA Piece ==
  ASSUME NEW s \in Seq(Alphabet), NEW first0 \in Nat \ {0}, NEW last \in Int,
         first0 <= last + 1, last <= Len(s),
         NEW t, t = SubSeq(s, first0, last)
  PROVE  /\ t \in Seq(Alphabet) /\ Len(t) = last + 1 - first0
         /\ \A i \in 1 .. last + 1 - first0 : t[i] = s[first0 + i - 1]
<1>1. Len(s) \in Nat /\ \A i \in 1 .. Len(s) : s[i] \in Alphabet
  BY LenProperties
<1>2. \A i \in first0 .. last : s[i] \in Alphabet
  BY <1>1
<1>3. /\ SubSeq(s, first0, last) \in Seq(Alphabet)
      /\ Len(SubSeq(s, first0, last)) = IF first0 <= last THEN last - first0 + 1 ELSE 0
      /\ \A i \in 1 .. last - first0 + 1 :
           SubSeq(s, first0, last)[i] = s[first0 + i - 1]
  BY <1>2, SubSeqProperties
<1>4. (IF first0 <= last THEN last - first0 + 1 ELSE 0) = last + 1 - first0
      /\ last - first0 + 1 = last + 1 - first0
  OBVIOUS
<1>5. QED
  BY <1>3, <1>4

(* The line end. *)
LEMMA LineEnd ==
  \E e \in Seq(Alphabet) : e = CRLF /\ Len(e) = 2 /\ e[1] = CR /\ e[2] = LF
<1>1. CRLF \in Seq(Alphabet) /\ Len(CRLF) = 2 /\ CRLF[1] = CR /\ CRLF[2] = LF
  BY DEF CRLF, Alphabet
<1>2. QED
  BY <1>1, Zenon

(* The part of a command that the serialiser writes. *)
LEMMA BulkText ==
  ASSUME NEW p \in Seq(Alphabet), Len(p) < Huge,
         NEW l, l = RESPLine("$", Len(p))
  PROVE  /\ RESPBulk(p) \in Seq(Alphabet)
         /\ Len(RESPBulk(p)) = Len(l) + Len(p) + 2
         /\ \A i \in 1 .. Len(l) : RESPBulk(p)[i] = l[i]
         /\ \A i \in 1 .. Len(p) : RESPBulk(p)[Len(l) + i] = p[i]
         /\ RESPBulk(p)[Len(l) + Len(p) + 1] = CR
         /\ RESPBulk(p)[Len(l) + Len(p) + 2] = LF
<1>1. Len(p) \in 0 .. Huge - 1
  <2>1. Len(p) \in Nat /\ Huge \in Nat
    BY LenProperties DEF Huge
  <2>2. QED
    BY <2>1
<1>2. l \in Seq(Alphabet)
  BY <1>1, LineText
<1>3. PICK e \in Seq(Alphabet) : e = CRLF /\ Len(e) = 2 /\ e[1] = CR /\ e[2] = LF
  BY LineEnd
<1>4. PICK a \in Seq(Alphabet) : a = l \o p
  BY <1>2, Behind
<1>5. /\ Len(a) = Len(l) + Len(p) /\ \A i \in 1 .. Len(l) : a[i] = l[i]
      /\ \A i \in 1 .. Len(p) : a[Len(l) + i] = p[i]
  BY <1>2, <1>4, Behind
<1>6. RESPBulk(p) = a \o e
  BY <1>3, <1>4 DEF RESPBulk
<1>7. /\ a \o e \in Seq(Alphabet) /\ Len(a \o e) = Len(a) + Len(e)
      /\ \A i \in 1 .. Len(a) : (a \o e)[i] = a[i]
      /\ \A i \in 1 .. Len(e) : (a \o e)[Len(a) + i] = e[i]
  BY Behind
<1>8. PICK m \in Nat, n \in Nat : m = Len(l) /\ n = Len(p)
  BY <1>2, LenProperties
<1>9. \A i \in 1 .. m : (a \o e)[i] = l[i]
  BY <1>5, <1>7, <1>8
<1>10. ASSUME NEW i \in 1 .. n PROVE (a \o e)[m + i] = p[i]
  <2>1. m + i \in 1 .. Len(a)
    BY <1>5, <1>8
  <2>2. QED
    BY <1>5, <1>7, <1>8, <2>1
<1>11. (a \o e)[m + n + 1] = CR /\ (a \o e)[m + n + 2] = LF
  <2>1. 1 \in 1 .. Len(e) /\ 2 \in 1 .. Len(e) /\ Len(a) = m + n
    BY <1>3, <1>5, <1>8
  <2>2. (a \o e)[Len(a) + 1] = CR /\ (a \o e)[Len(a) + 2] = LF
    BY <1>3, <1>7, <2>1
  <2>3. QED
    BY <2>1, <2>2
<1>12. QED
  BY <1>3, <1>5, <1>6, <1>7, <1>8, <1>9, <1>10, <1>11

(* A part is read when it is there to its last byte, and not before,       *)
(* whatever it holds: its length decides, not what looks like its end.     *)
LEMMA BulkRead ==
  ASSUME NEW buf \in Seq(Alphabet), NEW pos \in Nat \ {0},
         NEW p \in Seq(Alphabet), Len(p) < Huge,
         Shows(buf, pos, RESPBulk(p))
  PROVE  /\ pos + Len(RESPBulk(p)) - 1 <= Len(buf) =>
              Bulk(buf, pos) = [ok |-> TRUE, pos |-> pos + Len(RESPBulk(p)), data |-> p]
         /\ pos + Len(RESPBulk(p)) - 1 > Len(buf) => ~Bulk(buf, pos).ok
<1> DEFINE line == Line(buf, pos, "$")
           end  == line.pos + line.number
           text == RESPBulk(p)
<1>1. Bulk(buf, pos) =
        IF ~line.ok THEN Incomplete
        ELSE IF line.number < 0
        THEN [ok |-> TRUE, pos |-> line.pos, data |-> <<>>]
        ELSE IF end + 1 > Len(buf) \/ SubSeq(buf, end, end + 1) # CRLF
        THEN Incomplete
        ELSE [ok |-> TRUE, pos |-> end + 2, data |-> SubSeq(buf, line.pos, end - 1)]
  BY DEF Bulk
<1>2. PICK n \in 0 .. Huge - 1 : n = Len(p) /\ n \in Nat
  <2>1. Len(p) \in Nat /\ Huge \in Nat
    BY LenProperties DEF Huge
  <2>2. QED
    BY <2>1
<1>3. PICK l : l = RESPLine("$", n) /\ l \in Seq(Alphabet)
  BY <1>2, LineText
<1>4. PICK m \in Nat, b \in Nat : m = Len(l) /\ b = Len(buf)
  BY <1>3, LenProperties
<1>5. /\ Len(text) = m + n + 2
      /\ \A i \in 1 .. m : text[i] = l[i]
      /\ \A i \in 1 .. n : text[m + i] = p[i]
      /\ text[m + n + 1] = CR /\ text[m + n + 2] = LF
  <2>1. l = RESPLine("$", Len(p))
    BY <1>2, <1>3
  <2>2. /\ Len(text) = Len(l) + Len(p) + 2
        /\ \A i \in 1 .. Len(l) : text[i] = l[i]
        /\ \A i \in 1 .. Len(p) : text[Len(l) + i] = p[i]
        /\ text[Len(l) + Len(p) + 1] = CR /\ text[Len(l) + Len(p) + 2] = LF
    <3>1. p \in Seq(Alphabet) /\ Len(p) < Huge
      OBVIOUS
    <3>2. QED
      BY <2>1, <3>1, BulkText, ZenonT(60)
  <2> HIDE DEF text
  <2>3. QED
    BY <1>2, <1>4, <2>2
<1>6. \A i \in 1 .. m + n + 2 : pos + i - 1 <= b => buf[pos + i - 1] = text[i]
  BY <1>4, <1>5 DEF Shows
<1> HIDE DEF text
<1>7. Shows(buf, pos, l)
  BY <1>2, <1>4, <1>5, <1>6 DEF Shows
<1>8. /\ pos + m - 1 <= b => line = [ok |-> TRUE, number |-> n, pos |-> pos + m]
      /\ pos + m - 1 > b => ~line.ok
  BY <1>3, <1>4, <1>7, LineRead
<1> HIDE DEF line
<1>9. CASE pos + m - 1 > b
  <2>1. ~Bulk(buf, pos).ok
    BY <1>1, <1>8, <1>9 DEF Incomplete
  <2>2. pos + (m + n + 2) - 1 > b
    BY <1>2, <1>4, <1>9
  <2>3. QED
    BY <1>4, <1>5, <2>1, <2>2 DEF text
<1>10. CASE pos + m - 1 <= b
  <2>1. line.ok /\ line.number = n /\ line.pos = pos + m /\ end = pos + m + n
        /\ ~(line.number < 0)
    BY <1>2, <1>4, <1>8, <1>10, SMTT(30)
  <2> HIDE DEF end
  <2>2. CASE pos + m + n + 1 > b
    <3>1. Bulk(buf, pos) = Incomplete
      BY <1>1, <1>4, <2>1, <2>2
    <3>2. pos + (m + n + 2) - 1 > b
      BY <1>2, <1>4, <2>2
    <3>3. QED
      BY <1>4, <1>5, <3>1, <3>2 DEF Incomplete, text
  <2>3. CASE pos + m + n + 1 <= b
    <3>1. /\ buf[pos + m + n] = CR /\ buf[pos + m + n + 1] = LF
          /\ \A i \in 1 .. n : buf[pos + m + i - 1] = p[i]
      <4>1. m + n + 1 \in 1 .. m + n + 2 /\ m + n + 2 \in 1 .. m + n + 2
            /\ pos + (m + n + 1) - 1 = pos + m + n
            /\ pos + (m + n + 2) - 1 = pos + m + n + 1
        BY <1>2, <1>4
      <4>2. ASSUME NEW i \in 1 .. n PROVE buf[pos + m + i - 1] = p[i]
        <5>1. m + i \in 1 .. m + n + 2 /\ pos + (m + i) - 1 = pos + m + i - 1
              /\ pos + (m + i) - 1 <= b
          BY <1>2, <1>4, <2>3
        <5>2. QED
          BY <1>5, <1>6, <5>1
      <4>3. pos + m + n <= b /\ pos + m + n + 1 <= b
        BY <1>2, <1>4, <2>3
      <4>4. QED
        BY <1>5, <1>6, <4>1, <4>2, <4>3
    <3>2. SubSeq(buf, end, end + 1) = CRLF
      <4>1. /\ Len(SubSeq(buf, end, end + 1)) = 2
            /\ SubSeq(buf, end, end + 1)[1] = buf[end]
            /\ SubSeq(buf, end, end + 1)[2] = buf[end + 1]
            /\ SubSeq(buf, end, end + 1) \in Seq(Alphabet)
        <5>1. end \in 1 .. b /\ end + 1 \in 1 .. b
          BY <1>2, <1>4, <2>1, <2>3
        <5>2. end \in Nat \ {0} /\ end + 1 \in Int /\ end <= end + 1 + 1
              /\ end + 1 <= Len(buf)
          BY <1>4, <5>1
        <5>3. /\ SubSeq(buf, end, end + 1) \in Seq(Alphabet)
              /\ Len(SubSeq(buf, end, end + 1)) = end + 1 + 1 - end
              /\ \A i \in 1 .. end + 1 + 1 - end :
                   SubSeq(buf, end, end + 1)[i] = buf[end + i - 1]
          BY <5>2, Piece
        <5>4. end + 1 + 1 - end = 2 /\ end + 1 - 1 = end /\ end + 2 - 1 = end + 1
              /\ 1 \in 1 .. 2 /\ 2 \in 1 .. 2
          BY <5>1
        <5>5. QED
          BY <5>3, <5>4
      <4>2. PICK e \in Seq(Alphabet) : e = CRLF /\ Len(e) = 2 /\ e[1] = CR /\ e[2] = LF
        BY LineEnd
      <4>3. \A i \in 1 .. 2 : SubSeq(buf, end, end + 1)[i] = e[i]
        BY <2>1, <3>1, <4>1, <4>2
      <4>4. QED
        BY <4>1, <4>2, <4>3, SeqEqual
    <3>3. SubSeq(buf, pos + m, end - 1) = p
      <4>1. /\ SubSeq(buf, pos + m, end - 1) \in Seq(Alphabet)
            /\ Len(SubSeq(buf, pos + m, end - 1)) = n
            /\ \A i \in 1 .. n : SubSeq(buf, pos + m, end - 1)[i] = buf[pos + m + i - 1]
        <5>1. pos + m \in Nat \ {0} /\ end - 1 \in Int /\ pos + m <= end - 1 + 1
              /\ end - 1 <= Len(buf) /\ end - 1 + 1 - (pos + m) = n
          BY <1>2, <1>4, <2>1, <2>3
        <5>2. PICK x \in Nat \ {0}, y \in Int : x = pos + m /\ y = end - 1
          BY <5>1
        <5>3. /\ SubSeq(buf, x, y) \in Seq(Alphabet)
              /\ Len(SubSeq(buf, x, y)) = y + 1 - x
              /\ \A i \in 1 .. y + 1 - x : SubSeq(buf, x, y)[i] = buf[x + i - 1]
          BY <5>1, <5>2, Piece
        <5>4. y + 1 - x = n
          BY <5>1, <5>2
        <5>5. QED
          BY <5>2, <5>3, <5>4
      <4>2. \A i \in 1 .. n : SubSeq(buf, pos + m, end - 1)[i] = p[i]
        BY <3>1, <4>1
      <4>3. QED
        BY <1>2, <4>1, <4>2, SeqEqual
    <3>4. Bulk(buf, pos) = [ok |-> TRUE, pos |-> end + 2, data |-> p]
      <4>1. ~(end + 1 > Len(buf))
        BY <1>2, <1>4, <2>1, <2>3
      <4>2. SubSeq(buf, line.pos, end - 1) = p
        BY <2>1, <3>3
      <4>3. QED
        BY <1>1, <2>1, <3>2, <4>1, <4>2
    <3>5. end + 2 = pos + (m + n + 2) /\ pos + (m + n + 2) - 1 <= b
      BY <1>2, <1>4, <2>1, <2>3
    <3>6. Len(RESPBulk(p)) = m + n + 2
      BY <1>5 DEF text
    <3>7. Bulk(buf, pos) = [ok |-> TRUE, pos |-> pos + Len(RESPBulk(p)), data |-> p]
      BY <3>4, <3>5, <3>6
    <3>8. ~(pos + Len(RESPBulk(p)) - 1 > Len(buf))
      BY <1>4, <3>5, <3>6
    <3>9. QED
      BY <3>7, <3>8
  <2>4. QED
    BY <1>2, <1>4, <2>2, <2>3
<1>11. QED
  BY <1>4, <1>9, <1>10

(* What is taken for a part lies within the buffer. *)
LEMMA BulkRange ==
  ASSUME NEW buf \in Seq(Alphabet), NEW pos \in Nat \ {0}, Bulk(buf, pos).ok
  PROVE  /\ Bulk(buf, pos).pos \in pos + 1 .. Len(buf) + 1
         /\ Bulk(buf, pos).data \in Seq(Alphabet)
<1> DEFINE line == Line(buf, pos, "$")
           end  == line.pos + line.number
<1>1. Bulk(buf, pos) =
        IF ~line.ok THEN Incomplete
        ELSE IF line.number < 0
        THEN [ok |-> TRUE, pos |-> line.pos, data |-> <<>>]
        ELSE IF end + 1 > Len(buf) \/ SubSeq(buf, end, end + 1) # CRLF
        THEN Incomplete
        ELSE [ok |-> TRUE, pos |-> end + 2, data |-> SubSeq(buf, line.pos, end - 1)]
  BY DEF Bulk
<1>2. line.ok
  BY <1>1 DEF Incomplete
<1>3. line.number \in Int /\ line.pos \in pos + 1 .. Len(buf) + 1
  BY <1>2, LineRange
<1> HIDE DEF line
<1>4. CASE line.number < 0
  BY <1>1, <1>2, <1>3, <1>4
<1>5. CASE ~(line.number < 0)
  <2>1. Bulk(buf, pos) = [ok |-> TRUE, pos |-> end + 2, data |-> SubSeq(buf, line.pos, end - 1)]
        /\ ~(end + 1 > Len(buf))
    BY <1>1, <1>2, <1>5 DEF Incomplete
  <2>2. end \in Nat /\ end >= line.pos /\ Len(buf) \in Nat /\ end + 1 <= Len(buf)
    BY <1>3, <1>5, <2>1, LenProperties
  <2>3. \A i \in line.pos .. end - 1 : buf[i] \in Alphabet
    BY <1>3, <2>2
  <2>4. line.pos \in Nat /\ end - 1 \in Int
    BY <1>3, <2>2
  <2>5. SubSeq(buf, line.pos, end - 1) \in Seq(Alphabet)
    <3> HIDE DEF end
    <3> QED BY <1>3, <2>2, <2>3, <2>4, SubSeqProperties
  <2>6. end + 2 \in pos + 1 .. Len(buf) + 1
    BY <1>3, <2>2
  <2> HIDE DEF end
  <2>7. QED
    BY <2>1, <2>5, <2>6
<1>6. QED
  BY <1>4, <1>5

-----------------------------------------------------------------------------
(* The layout of the file. *)

(* text lies in bytes behind the first h of them. *)
TextAt(bytes, h, text) ==
  /\ h + Len(text) <= Len(bytes)
  /\ \A i \in 1 .. Len(text) : bytes[h + i] = text[i]

(* The lines and parts of frame f lie in bytes one behind the other. *)
Laid(bytes, f) ==
  /\ TextAt(bytes, f.from, RESPLine("*", Len(f.cmd)))
  /\ f.cuts[1] = f.from + Len(RESPLine("*", Len(f.cmd)))
  /\ \A j \in 1 .. Len(f.cuts) - 1 :
       /\ TextAt(bytes, f.cuts[j], RESPBulk(f.cmd[j]))
       /\ f.cuts[j + 1] = f.cuts[j] + Len(RESPBulk(f.cmd[j]))
  /\ \A j \in 1 .. Len(f.cuts) : f.cuts[j] <= f.cuts[Len(f.cuts)]

Frames == [cmd : Commands, from : Nat, cuts : Seq(Nat), whole : BOOLEAN]

(* End, of any file and frames. *)
EndOf(bytes, fs, k) == IF k < Len(fs) THEN fs[k + 1].from ELSE Len(bytes)

(* Every part of the frame was appended. *)
Complete(f) == Len(f.cuts) = Len(f.cmd) + 1

(* All frames but the last are complete; those that are not torn are laid  *)
(* out up to where the next one starts; none is empty.                     *)
Layout(bytes, fs) ==
  /\ bytes \in Seq(Alphabet) /\ fs \in Seq(Frames)
  /\ \A k \in 1 .. Len(fs) :
       /\ Len(fs[k].cuts) >= 1 /\ Len(fs[k].cuts) <= Len(fs[k].cmd) + 1
       /\ k < Len(fs) \/ ~fs[k].whole => Complete(fs[k])
       /\ fs[k].whole => /\ Laid(bytes, fs[k])
                         /\ fs[k].cuts[Len(fs[k].cuts)] = EndOf(bytes, fs, k)
  /\ \A k \in 0 .. Len(fs) :
       /\ EndOf(bytes, fs, k) <= Len(bytes)
       /\ \A j \in 0 .. k - 1 : EndOf(bytes, fs, j) < EndOf(bytes, fs, k)

(* What may be appended. *)
LEMMA CommandText ==
  ASSUME NEW c \in Commands
  PROVE  /\ c \in Seq(Seq(Alphabet)) /\ Len(c) \in 0 .. Huge - 1
         /\ \A i \in 1 .. Len(c) : c[i] \in Seq(Alphabet) /\ Len(c[i]) < Huge
<1>1. c \in Seq(Seq(Chars)) /\ Len(c) < Huge
      /\ \A i \in DOMAIN c : Len(c[i]) < Huge
  BY ReaderAssumption
<1>2. Len(c) \in Nat /\ DOMAIN c = 1 .. Len(c)
  BY <1>1, LenProperties
<1>3. \A s \in Seq(Chars) : s \in Seq(Alphabet)
  <2>1. Chars \subseteq Alphabet
    BY DEF Alphabet
  <2>2. QED
    BY <2>1, SeqMonotonic
<1>4. Seq(Chars) \subseteq Seq(Alphabet)
  BY <1>3, Zenon
<1>5. c \in Seq(Seq(Alphabet))
  BY <1>1, <1>4, SeqMonotonic
<1>6. ASSUME NEW i \in 1 .. Len(c) PROVE c[i] \in Seq(Alphabet)
  BY <1>5, ElementOfSeq
<1>7. Huge \in Nat
  BY DEF Huge
<1>8. Len(c) \in 0 .. Huge - 1
  BY <1>1, <1>2, <1>7
<1>9. QED
  BY <1>1, <1>2, <1>5, <1>6, <1>8

(* What is written before the parts of a command. *)
LEMMA HeaderText ==
  ASSUME NEW c \in Commands
  PROVE  /\ RESPLine("*", Len(c)) \in Seq(Alphabet)
         /\ Len(RESPLine("*", Len(c))) \in Nat \ {0}
<1>1. Len(c) \in 0 .. Huge - 1
  BY CommandText
<1>2. RESPLine("*", Len(c)) \in Seq(Alphabet)
      /\ Len(RESPLine("*", Len(c))) = Len(Decimal(Len(c))) + 3
  BY <1>1, LineText
<1>3. Len(Decimal(Len(c))) \in {1, 2}
  BY <1>1, DecimalFacts
<1>4. QED
  BY <1>2, <1>3

(* What is written of one of them. *)
LEMMA PartText ==
  ASSUME NEW c \in Commands, NEW i \in 1 .. Len(c)
  PROVE  /\ c[i] \in Seq(Alphabet) /\ Len(c[i]) < Huge
         /\ RESPBulk(c[i]) \in Seq(Alphabet)
         /\ Len(RESPBulk(c[i])) \in Nat \ {0}
<1>1. PICK p \in Seq(Alphabet) : p = c[i] /\ Len(p) < Huge
  BY CommandText
<1>2. PICK l : l = RESPLine("$", Len(p))
  OBVIOUS
<1>3. RESPBulk(p) \in Seq(Alphabet) /\ Len(RESPBulk(p)) = Len(l) + Len(p) + 2
  BY <1>1, <1>2, BulkText
<1>4. l \in Seq(Alphabet)
  <2>1. Len(p) \in Nat /\ Huge \in Nat
    BY LenProperties DEF Huge
  <2>2. Len(p) \in 0 .. Huge - 1
    BY <1>1, <2>1
  <2>3. QED
    BY <1>2, <2>2, LineText
<1>5. Len(l) \in Nat /\ Len(p) \in Nat
  BY <1>4, LenProperties
<1>6. QED
  BY <1>1, <1>3, <1>5

(* What lies in a file stays where it is when the file changes behind it. *)
LEMMA TextStays ==
  ASSUME NEW bytes, NEW b2, NEW h \in Nat, NEW text, Len(text) \in Nat,
         NEW e \in Nat, h + Len(text) <= e, Len(b2) \in Nat, e <= Len(b2),
         \A i \in 1 .. e : b2[i] = bytes[i],
         TextAt(bytes, h, text)
  PROVE  TextAt(b2, h, text)
<1>1. h + Len(text) <= Len(b2)
  OBVIOUS
<1>2. ASSUME NEW i \in 1 .. Len(text) PROVE b2[h + i] = text[i]
  <2>1. h + i \in 1 .. e
    OBVIOUS
  <2>2. bytes[h + i] = text[i]
    BY DEF TextAt
  <2>3. QED
    BY <2>1, <2>2
<1>3. QED
  BY <1>1, <1>2 DEF TextAt

(* So does a frame. *)
LEMMA LaidStays ==
  ASSUME NEW bytes, NEW b2, NEW f \in Frames,
         Len(f.cuts) >= 1, Len(f.cuts) <= Len(f.cmd) + 1,
         NEW e \in Nat, e = f.cuts[Len(f.cuts)], Len(b2) \in Nat, e <= Len(b2),
         \A i \in 1 .. e : b2[i] = bytes[i],
         Laid(bytes, f)
  PROVE  Laid(b2, f)
<1>1. f.cmd \in Commands /\ f.from \in Nat /\ f.cuts \in Seq(Nat)
  BY DEF Frames
<1>2. Len(f.cuts) \in Nat /\ \A j \in 1 .. Len(f.cuts) : f.cuts[j] \in Nat
  BY <1>1, LenProperties, ElementOfSeq
<1>3. Len(f.cmd) \in Nat
  BY <1>1, CommandText, LenProperties
<1>4. TextAt(b2, f.from, RESPLine("*", Len(f.cmd)))
  <2>1. PICK text : text = RESPLine("*", Len(f.cmd)) /\ Len(text) \in Nat
    BY <1>1, HeaderText
  <2>2. PICK h \in Nat : h = f.from
    BY <1>1
  <2>3. TextAt(bytes, h, text) /\ f.cuts[1] = h + Len(text)
    BY <2>1, <2>2 DEF Laid
  <2>4. f.cuts[1] <= e
    BY <1>2 DEF Laid
  <2>5. h + Len(text) <= e
    BY <2>3, <2>4
  <2>6. TextAt(b2, h, text)
    BY <2>1, <2>3, <2>5, TextStays
  <2>7. QED
    BY <2>1, <2>2, <2>6
<1>5. ASSUME NEW j \in 1 .. Len(f.cuts) - 1
      PROVE  TextAt(b2, f.cuts[j], RESPBulk(f.cmd[j]))
  <2>1. j \in 1 .. Len(f.cmd) /\ j \in 1 .. Len(f.cuts) /\ j + 1 \in 1 .. Len(f.cuts)
    BY <1>2, <1>3
  <2>2. PICK text : text = RESPBulk(f.cmd[j]) /\ Len(text) \in Nat
    BY <1>1, <2>1, PartText
  <2>3. PICK h \in Nat : h = f.cuts[j]
    BY <1>2, <2>1
  <2>4. TextAt(bytes, h, text) /\ f.cuts[j + 1] = h + Len(text)
    BY <2>2, <2>3 DEF Laid
  <2>5. f.cuts[j + 1] <= e
    BY <2>1 DEF Laid
  <2>6. h + Len(text) <= e
    BY <2>4, <2>5
  <2>7. TextAt(b2, h, text)
    BY <2>2, <2>4, <2>6, TextStays
  <2>8. QED
    BY <2>2, <2>3, <2>7
<1>6. QED
  BY <1>4, <1>5 DEF Laid

(* The ends of the frames. *)
LEMMA EndFacts ==
  ASSUME NEW bytes, NEW fs, Layout(bytes, fs)
  PROVE  /\ bytes \in Seq(Alphabet) /\ Len(bytes) \in Nat
         /\ fs \in Seq(Frames) /\ Len(fs) \in Nat
         /\ \A k \in 1 .. Len(fs) : fs[k] \in Frames
         /\ \A k \in Nat : EndOf(bytes, fs, k) \in Nat
         /\ \A k \in 0 .. Len(fs) : EndOf(bytes, fs, k) <= Len(bytes)
         /\ \A k \in 0 .. Len(fs) : \A j \in 0 .. k - 1 :
              EndOf(bytes, fs, j) < EndOf(bytes, fs, k)
         /\ \A k \in 1 .. Len(fs) : fs[k].from = EndOf(bytes, fs, k - 1)
         /\ EndOf(bytes, fs, Len(fs)) = Len(bytes)
<1>1. /\ bytes \in Seq(Alphabet) /\ Len(bytes) \in Nat
      /\ fs \in Seq(Frames) /\ Len(fs) \in Nat
  BY LenProperties DEF Layout
<1>2. \A k \in 1 .. Len(fs) : fs[k] \in Frames
  BY <1>1, ElementOfSeq
<1>3. \A k \in 1 .. Len(fs) : fs[k].from \in Nat
  BY <1>2 DEF Frames
<1>4. ASSUME NEW k \in Nat PROVE EndOf(bytes, fs, k) \in Nat
  <2>1. k < Len(fs) => k + 1 \in 1 .. Len(fs)
    BY <1>1
  <2>2. QED
    BY <1>1, <1>3, <2>1 DEF EndOf
<1>5. ASSUME NEW k \in 1 .. Len(fs) PROVE fs[k].from = EndOf(bytes, fs, k - 1)
  <2>1. k - 1 < Len(fs) /\ k - 1 + 1 = k
    BY <1>1
  <2>2. QED
    BY <2>1 DEF EndOf
<1>6. EndOf(bytes, fs, Len(fs)) = Len(bytes)
  BY <1>1 DEF EndOf
<1>7. QED
  BY <1>1, <1>2, <1>4, <1>5, <1>6 DEF Layout

AllComplete(fs) == \A k \in 1 .. Len(fs) : Complete(fs[k])

(* StartFrame, AddPart and Tear, of any file and frames. *)
Starts(c, bytes, fs, b2, fs2) ==
  /\ b2 = bytes \o RESPLine("*", Len(c))
  /\ fs2 = Append(fs, [cmd |-> c, from |-> Len(bytes),
                       cuts |-> <<Len(b2)>>, whole |-> TRUE])
Adds(bytes, fs, b2, fs2) ==
  /\ b2 = bytes \o RESPBulk(fs[Len(fs)].cmd[Len(fs[Len(fs)].cuts)])
  /\ fs2 = [fs EXCEPT ![Len(fs)].cuts = Append(@, Len(b2))]
Tears(n, bytes, fs, b2, fs2) ==
  /\ b2 = SubSeq(bytes, 1, n)
  /\ fs2 = [fs EXCEPT ![Len(fs)].whole = FALSE]

(* A new frame lies behind the others. *)
LEMMA LayoutStart ==
  ASSUME NEW bytes, NEW fs, NEW b2, NEW fs2, Layout(bytes, fs), AllComplete(fs),
         NEW c \in Commands, Starts(c, bytes, fs, b2, fs2)
  PROVE  Layout(b2, fs2)
<1>1. PICK b \in Nat, m \in Nat : b = Len(bytes) /\ m = Len(fs)
  BY EndFacts
<1>2. PICK l \in Seq(Alphabet) : l = RESPLine("*", Len(c)) /\ Len(l) \in Nat \ {0}
  BY HeaderText
<1>3. bytes \in Seq(Alphabet) /\ fs \in Seq(Frames) /\ \A k \in 1 .. m : fs[k] \in Frames
  BY <1>1, EndFacts
<1>4. /\ b2 \in Seq(Alphabet) /\ Len(b2) = b + Len(l)
      /\ \A i \in 1 .. b : b2[i] = bytes[i]
      /\ \A i \in 1 .. Len(l) : b2[b + i] = l[i]
  <2>1. /\ bytes \o l \in Seq(Alphabet) /\ Len(bytes \o l) = Len(bytes) + Len(l)
        /\ \A i \in 1 .. Len(bytes) : (bytes \o l)[i] = bytes[i]
        /\ \A i \in 1 .. Len(l) : (bytes \o l)[Len(bytes) + i] = l[i]
    BY <1>3, Behind
  <2>2. b2 = bytes \o l
    BY <1>2 DEF Starts
  <2>3. QED
    BY <1>1, <2>1, <2>2
<1>5. PICK n \in Nat : n = Len(b2) /\ n = b + Len(l) /\ b < n
  BY <1>2, <1>4
<1>0. PICK f2 : f2 = [cmd |-> c, from |-> b, cuts |-> <<n>>, whole |-> TRUE]
  OBVIOUS
<1>6. /\ f2 \in Frames /\ f2.cmd = c /\ f2.from = b /\ f2.whole = TRUE
      /\ f2.cuts = <<n>> /\ Len(f2.cuts) = 1 /\ f2.cuts[1] = n
  BY <1>0 DEF Frames
<1>7. /\ fs2 \in Seq(Frames) /\ Len(fs2) = m + 1 /\ fs2[m + 1] = f2
      /\ \A i \in 1 .. m : fs2[i] = fs[i]
  <2>1. fs2 = Append(fs, f2)
    BY <1>0, <1>1, <1>5 DEF Starts
  <2>2. QED
    BY <1>1, <1>3, <1>6, <2>1, AppendProperties
<1>8. \A k \in 0 .. m : EndOf(b2, fs2, k) = EndOf(bytes, fs, k)
  <2> SUFFICES ASSUME NEW k \in 0 .. m
               PROVE  EndOf(b2, fs2, k) = EndOf(bytes, fs, k)
    OBVIOUS
  <2>1. EndOf(b2, fs2, k) = fs2[k + 1].from
    BY <1>7 DEF EndOf
  <2>2. CASE k < m
    <3>1. k + 1 \in 1 .. m
      BY <2>2
    <3>2. QED
      BY <1>1, <1>7, <2>1, <2>2, <3>1 DEF EndOf
  <2>3. CASE k = m
    BY <1>1, <1>6, <1>7, <2>1, <2>3 DEF EndOf
  <2>4. QED
    BY <2>2, <2>3
<1>9. EndOf(b2, fs2, m + 1) = n
  BY <1>5, <1>7 DEF EndOf
<1>10. /\ \A k \in 0 .. m : EndOf(bytes, fs, k) \in Nat /\ EndOf(bytes, fs, k) <= b
       /\ \A k \in 0 .. m : \A j \in 0 .. k - 1 : EndOf(bytes, fs, j) < EndOf(bytes, fs, k)
  <2>1. \A k \in 0 .. m : k \in Nat
    OBVIOUS
  <2>2. QED
    BY <1>1, <2>1, EndFacts
<1>11. ASSUME NEW k \in 0 .. m + 1
       PROVE  /\ EndOf(b2, fs2, k) <= n
              /\ \A j \in 0 .. k - 1 : EndOf(b2, fs2, j) < EndOf(b2, fs2, k)
  <2>1. ASSUME NEW i \in 0 .. m
        PROVE  EndOf(b2, fs2, i) \in Nat /\ EndOf(b2, fs2, i) <= b
    <3>1. EndOf(bytes, fs, i) \in Nat /\ EndOf(bytes, fs, i) <= b
      BY <1>10
    <3>2. EndOf(b2, fs2, i) = EndOf(bytes, fs, i)
      BY <1>8
    <3>3. QED
      BY <3>1, <3>2
  <2>2. CASE k \in 0 .. m
    <3>1. EndOf(b2, fs2, k) <= n
      <4>1. PICK e \in Nat : e = EndOf(b2, fs2, k) /\ e <= b
        BY <2>1, <2>2
      <4>2. e <= n
        BY <1>5, <4>1
      <4>3. QED
        BY <4>1, <4>2
    <3>2. ASSUME NEW j \in 0 .. k - 1 PROVE EndOf(b2, fs2, j) < EndOf(b2, fs2, k)
      <4>1. j \in 0 .. m
        BY <2>2
      <4>2. EndOf(bytes, fs, j) < EndOf(bytes, fs, k)
        BY <1>10, <2>2
      <4>3. QED
        BY <1>8, <2>2, <4>1, <4>2
    <3>3. QED
      BY <3>1, <3>2
  <2>3. CASE k = m + 1
    <3>1. ASSUME NEW j \in 0 .. k - 1 PROVE EndOf(b2, fs2, j) < n
      <4>1. j \in 0 .. m
        BY <2>3
      <4>2. PICK e \in Nat : e = EndOf(b2, fs2, j) /\ e <= b
        BY <2>1, <4>1
      <4>3. e < n
        BY <1>5, <4>2
      <4>4. QED
        BY <4>2, <4>3
    <3>2. EndOf(b2, fs2, k) = n
      BY <1>9, <2>3
    <3>3. QED
      BY <3>1, <3>2
  <2>4. QED
    BY <2>2, <2>3
<1>12. ASSUME NEW k \in 1 .. m
       PROVE  /\ Len(fs2[k].cuts) >= 1 /\ Len(fs2[k].cuts) <= Len(fs2[k].cmd) + 1
              /\ Complete(fs2[k])
              /\ fs2[k].whole => /\ Laid(b2, fs2[k])
                                 /\ fs2[k].cuts[Len(fs2[k].cuts)] = EndOf(b2, fs2, k)
  <2>1. PICK f \in Frames : f = fs[k] /\ f = fs2[k]
    BY <1>3, <1>7
  <2>2. /\ Len(f.cuts) >= 1 /\ Len(f.cuts) <= Len(f.cmd) + 1 /\ Complete(f)
        /\ f.whole => Laid(bytes, f) /\ f.cuts[Len(f.cuts)] = EndOf(bytes, fs, k)
    BY <1>1, <2>1 DEF Layout, AllComplete
  <2>3. PICK e \in Nat : e = EndOf(bytes, fs, k) /\ e <= b
    BY <1>10
  <2>4. f.whole => Laid(b2, f)
    <3> SUFFICES ASSUME f.whole PROVE Laid(b2, f)
      OBVIOUS
    <3>1. e = f.cuts[Len(f.cuts)] /\ Laid(bytes, f)
      BY <2>2, <2>3
    <3>2. Len(b2) \in Nat /\ e <= Len(b2)
      <4>1. e <= n
        BY <1>5, <2>3
      <4>2. QED
        BY <1>5, <4>1
    <3>3. \A i \in 1 .. e : b2[i] = bytes[i]
      BY <1>4, <2>3
    <3>4. QED
      BY <2>1, <2>2, <3>1, <3>2, <3>3, LaidStays
  <2>5. k \in 0 .. m
    OBVIOUS
  <2>6. QED
    BY <1>8, <2>1, <2>2, <2>3, <2>4, <2>5
<1>13. Laid(b2, f2)
  <2>1. TextAt(b2, b, l)
    BY <1>4, <1>5 DEF TextAt
  <2>2. TextAt(b2, f2.from, RESPLine("*", Len(f2.cmd)))
        /\ f2.cuts[1] = f2.from + Len(RESPLine("*", Len(f2.cmd)))
    BY <1>2, <1>5, <1>6, <2>1
  <2>3. \A j \in 1 .. Len(f2.cuts) : f2.cuts[j] <= f2.cuts[Len(f2.cuts)]
    BY <1>5, <1>6
  <2>4. \A j \in 1 .. Len(f2.cuts) - 1 : FALSE
    BY <1>6
  <2>5. QED
    BY <2>2, <2>3, <2>4 DEF Laid
<1>14. ASSUME NEW k \in 1 .. m + 1
       PROVE  /\ Len(fs2[k].cuts) >= 1 /\ Len(fs2[k].cuts) <= Len(fs2[k].cmd) + 1
              /\ k < m + 1 \/ ~fs2[k].whole => Complete(fs2[k])
              /\ fs2[k].whole => /\ Laid(b2, fs2[k])
                                 /\ fs2[k].cuts[Len(fs2[k].cuts)] = EndOf(b2, fs2, k)
  <2>1. CASE k \in 1 .. m
    BY <1>12, <2>1
  <2>2. CASE k = m + 1
    <3>1. Len(c) \in Nat
      BY CommandText, LenProperties
    <3>2. Len(f2.cuts) >= 1 /\ Len(f2.cuts) <= Len(f2.cmd) + 1
      BY <1>6, <3>1
    <3>3. f2.cuts[Len(f2.cuts)] = EndOf(b2, fs2, m + 1)
      BY <1>6, <1>9
    <3>4. ~(k < m + 1) /\ fs2[k] = f2 /\ f2.whole = TRUE
      BY <1>6, <1>7, <2>2
    <3>5. QED
      BY <1>13, <2>2, <3>2, <3>3, <3>4, Zenon
  <2>3. QED
    BY <2>1, <2>2
<1>15. QED
  BY <1>4, <1>5, <1>7, <1>11, <1>14 DEF Layout

(* The file and the frames differ in the last frame only, which f becomes. *)
LastBecomes(f, bytes, fs, b2, fs2) ==
  /\ b2 \in Seq(Alphabet) /\ fs2 \in Seq(Frames)
  /\ Len(fs) # 0 /\ Len(fs2) = Len(fs)
  /\ \A k \in 1 .. Len(fs) - 1 : fs2[k] = fs[k]
  /\ fs2[Len(fs)] = f /\ f \in Frames
  /\ f.from = fs[Len(fs)].from /\ f.from < Len(b2)
  /\ \A i \in 1 .. f.from : b2[i] = bytes[i]

(* The other frames stay as they are then. *)
LEMMA LayoutLast ==
  ASSUME NEW bytes, NEW fs, NEW b2, NEW fs2, NEW f, Layout(bytes, fs),
         LastBecomes(f, bytes, fs, b2, fs2),
         Len(f.cuts) >= 1, Len(f.cuts) <= Len(f.cmd) + 1,
         ~f.whole => Complete(f),
         f.whole => Laid(b2, f) /\ f.cuts[Len(f.cuts)] = Len(b2)
  PROVE  Layout(b2, fs2)
<1>1. PICK m \in Nat \ {0} : m = Len(fs)
  BY EndFacts DEF LastBecomes
<1>2. /\ b2 \in Seq(Alphabet) /\ fs2 \in Seq(Frames) /\ Len(fs2) = m
      /\ \A k \in 1 .. m - 1 : fs2[k] = fs[k]
      /\ fs2[m] = f /\ f \in Frames /\ f.from = fs[m].from
  BY <1>1 DEF LastBecomes
<1>3. PICK n \in Nat : n = Len(b2)
  BY <1>2, LenProperties
<1>4. PICK h \in Nat : h = f.from /\ h < n /\ \A i \in 1 .. h : b2[i] = bytes[i]
  BY <1>2, <1>3 DEF LastBecomes, Frames
<1>5. /\ \A k \in 1 .. m : fs[k] \in Frames
      /\ \A k \in 0 .. m : EndOf(bytes, fs, k) \in Nat
      /\ \A k \in 0 .. m : \A j \in 0 .. k - 1 : EndOf(bytes, fs, j) < EndOf(bytes, fs, k)
      /\ EndOf(bytes, fs, m - 1) = h
  <2>1. m \in 1 .. Len(fs) /\ \A k \in 0 .. m : k \in Nat
    BY <1>1
  <2>2. \A k \in 1 .. m : fs[k] \in Frames /\ fs[k].from = EndOf(bytes, fs, k - 1)
    BY <1>1, EndFacts
  <2>3. \A k \in 0 .. m : EndOf(bytes, fs, k) \in Nat
    BY <1>1, <2>1, EndFacts
  <2>4. \A k \in 0 .. m : \A j \in 0 .. k - 1 : EndOf(bytes, fs, j) < EndOf(bytes, fs, k)
    BY <1>1, EndFacts
  <2>5. EndOf(bytes, fs, m - 1) = h
    BY <1>1, <1>2, <1>4, <2>1, <2>2
  <2>6. QED
    BY <2>2, <2>3, <2>4, <2>5
<1>6. ASSUME NEW k \in 0 .. m - 1
      PROVE  EndOf(b2, fs2, k) = EndOf(bytes, fs, k) /\ EndOf(bytes, fs, k) <= h
  <2>1. EndOf(b2, fs2, k) = fs2[k + 1].from /\ EndOf(bytes, fs, k) = fs[k + 1].from
    BY <1>1, <1>2 DEF EndOf
  <2>2. CASE k = m - 1
    BY <1>2, <1>4, <2>1, <2>2
  <2>3. CASE k < m - 1
    <3>1. k + 1 \in 1 .. m - 1 /\ k \in 0 .. (m - 1) - 1
      BY <2>3
    <3>2. EndOf(bytes, fs, k) < EndOf(bytes, fs, m - 1)
      BY <1>5, <3>1
    <3>3. PICK e \in Nat : e = EndOf(bytes, fs, k)
      BY <1>5
    <3>4. e <= h
      BY <1>5, <3>2, <3>3
    <3>5. QED
      BY <1>2, <2>1, <3>1, <3>3, <3>4
  <2>4. QED
    BY <2>2, <2>3
<1>7. EndOf(b2, fs2, m) = n
  BY <1>2, <1>3 DEF EndOf
<1>8. ASSUME NEW k \in 0 .. m
      PROVE  /\ EndOf(b2, fs2, k) <= n
             /\ \A j \in 0 .. k - 1 : EndOf(b2, fs2, j) < EndOf(b2, fs2, k)
  <2>1. ASSUME NEW i \in 0 .. m - 1
        PROVE  EndOf(b2, fs2, i) < n /\ EndOf(b2, fs2, i) <= n
    <3>1. PICK e \in Nat : e = EndOf(b2, fs2, i) /\ e <= h
      BY <1>5, <1>6
    <3>2. e < n /\ e <= n
      BY <1>4, <3>1
    <3>3. QED
      BY <3>1, <3>2
  <2>2. CASE k \in 0 .. m - 1
    <3>1. ASSUME NEW j \in 0 .. k - 1 PROVE EndOf(b2, fs2, j) < EndOf(b2, fs2, k)
      <4>1. j \in 0 .. m - 1
        BY <2>2
      <4>2. EndOf(bytes, fs, j) < EndOf(bytes, fs, k)
        BY <1>5
      <4>3. QED
        BY <1>6, <2>2, <4>1, <4>2
    <3>2. QED
      BY <2>1, <2>2, <3>1
  <2>3. CASE k = m
    <3>1. \A j \in 0 .. k - 1 : j \in 0 .. m - 1
      BY <2>3
    <3>2. QED
      BY <1>7, <2>1, <2>3, <3>1
  <2>4. QED
    BY <2>2, <2>3
<1>9. ASSUME NEW k \in 1 .. m
      PROVE  /\ Len(fs2[k].cuts) >= 1 /\ Len(fs2[k].cuts) <= Len(fs2[k].cmd) + 1
             /\ k < m \/ ~fs2[k].whole => Complete(fs2[k])
             /\ fs2[k].whole => /\ Laid(b2, fs2[k])
                                /\ fs2[k].cuts[Len(fs2[k].cuts)] = EndOf(b2, fs2, k)
  <2>1. CASE k = m
    <3>1. ~(k < m)
      BY <2>1
    <3>2. fs2[k] = f /\ EndOf(b2, fs2, k) = Len(b2)
      BY <1>2, <1>3, <1>7, <2>1
    <3>3. QED
      BY <3>1, <3>2
  <2>2. CASE k # m
    <3>1. k \in 1 .. m - 1 /\ k \in 0 .. m - 1 /\ k < m
      BY <2>2
    <3>2. PICK g \in Frames : g = fs[k] /\ g = fs2[k]
      BY <1>2, <1>5, <3>1
    <3>3. /\ Len(g.cuts) >= 1 /\ Len(g.cuts) <= Len(g.cmd) + 1 /\ Complete(g)
          /\ g.whole => Laid(bytes, g) /\ g.cuts[Len(g.cuts)] = EndOf(bytes, fs, k)
      BY <1>1, <3>1, <3>2 DEF Layout
    <3>4. PICK e \in Nat : e = EndOf(bytes, fs, k) /\ e <= h
      BY <1>5, <1>6, <3>1
    <3>5. e <= Len(b2) /\ Len(b2) \in Nat /\ \A i \in 1 .. e : b2[i] = bytes[i]
      BY <1>3, <1>4, <3>4
    <3>6. g.whole => Laid(b2, g)
      BY <3>3, <3>4, <3>5, LaidStays
    <3>7. EndOf(b2, fs2, k) = EndOf(bytes, fs, k)
      BY <1>6, <3>1
    <3>8. QED
      BY <3>2, <3>3, <3>6, <3>7
  <2>3. QED
    BY <2>1, <2>2
<1>10. QED
  BY <1>2, <1>3, <1>8, <1>9 DEF Layout

(* The next part lies behind what there is of its frame. *)
LEMMA LayoutAdd ==
  ASSUME NEW bytes, NEW fs, NEW b2, NEW fs2, Layout(bytes, fs), ~AllComplete(fs),
         Adds(bytes, fs, b2, fs2)
  PROVE  Layout(b2, fs2)
<1>1. PICK m \in Nat : m = Len(fs)
  BY EndFacts
<1>2. PICK k \in 1 .. m : ~Complete(fs[k])
  BY <1>1 DEF AllComplete
<1>3. k = m /\ m # 0 /\ m \in 1 .. m
  <2>1. ~(k < m)
    BY <1>1, <1>2 DEF Layout
  <2>2. QED
    BY <2>1
<1>4. PICK f \in Frames : f = fs[m]
  BY <1>1, <1>3, EndFacts
<1>5. /\ f.whole /\ Len(f.cuts) >= 1 /\ Len(f.cuts) <= Len(f.cmd) + 1
      /\ Len(f.cuts) # Len(f.cmd) + 1 /\ Laid(bytes, f)
      /\ f.cuts[Len(f.cuts)] = EndOf(bytes, fs, m)
  BY <1>1, <1>2, <1>3, <1>4 DEF Layout, Complete
<1>6. f.cmd \in Commands /\ f.from \in Nat /\ f.cuts \in Seq(Nat)
  BY DEF Frames
<1>7. PICK j \in Nat \ {0} : j = Len(f.cuts) /\ j <= Len(f.cmd) /\ j \in 1 .. Len(f.cmd)
  <2>1. Len(f.cuts) \in Nat /\ Len(f.cmd) \in Nat
    BY <1>6, CommandText, LenProperties
  <2>2. QED
    BY <1>5, <2>1
<1>8. PICK b \in Nat : b = Len(bytes) /\ bytes \in Seq(Alphabet) /\ f.cuts[j] = b
  BY <1>1, <1>5, <1>7, EndFacts
<1>9. PICK t \in Seq(Alphabet) : t = RESPBulk(f.cmd[j]) /\ Len(t) \in Nat \ {0}
  BY <1>6, <1>7, PartText
<1>10. b2 = bytes \o t
  BY <1>1, <1>4, <1>7, <1>9 DEF Adds
<1>11. /\ b2 \in Seq(Alphabet) /\ Len(b2) = b + Len(t)
       /\ \A i \in 1 .. b : b2[i] = bytes[i]
       /\ \A i \in 1 .. Len(t) : b2[b + i] = t[i]
  BY <1>8, <1>10, Behind
<1>12. PICK n \in Nat : n = Len(b2) /\ b < n
  BY <1>9, <1>11
<1>13. PICK c2 \in Seq(Nat) : /\ c2 = Append(f.cuts, n) /\ Len(c2) = j + 1
                            /\ c2[j + 1] = n /\ \A i \in 1 .. j : c2[i] = f.cuts[i]
  <2>1. PICK d \in Seq(Nat) : d = f.cuts /\ Len(d) = j
    BY <1>6, <1>7
  <2>2. /\ Append(d, n) \in Seq(Nat) /\ Len(Append(d, n)) = Len(d) + 1
        /\ \A i \in 1 .. Len(d) : Append(d, n)[i] = d[i]
        /\ Append(d, n)[Len(d) + 1] = n
    BY AppendProperties
  <2>3. /\ Append(d, n) \in Seq(Nat) /\ Len(Append(d, n)) = j + 1
        /\ \A i \in 1 .. j : Append(d, n)[i] = f.cuts[i]
        /\ Append(d, n)[j + 1] = n
    BY <2>1, <2>2
  <2>4. QED
    BY <2>1, <2>3, Zenon
<1>14. PICK g : g = [f EXCEPT !.cuts = c2]
  OBVIOUS
<1>15. g \in Frames /\ g.cmd = f.cmd /\ g.from = f.from /\ g.cuts = c2 /\ g.whole = f.whole
  BY <1>14 DEF Frames
<1>16. fs \in Seq(Frames)
  BY EndFacts
<1>17. /\ fs2 \in Seq(Frames) /\ Len(fs2) = m /\ fs2[m] = g
       /\ \A i \in 1 .. m - 1 : fs2[i] = fs[i]
  <2>1. fs2 = [fs EXCEPT ![m] = g]
    <3>1. fs2 = [fs EXCEPT ![m].cuts = Append(@, n)]
      BY <1>1, <1>12 DEF Adds
    <3>2. fs2 = [fs EXCEPT ![m] = [fs[m] EXCEPT !.cuts = Append(fs[m].cuts, n)]]
      BY <3>1
    <3>3. QED
      BY <1>4, <1>13, <1>14, <3>2
  <2>2. QED
    BY <1>1, <1>3, <1>15, <1>16, <2>1, ExceptSeq
<1>18. \A i \in 1 .. j : c2[i] \in Nat /\ c2[i] <= b
  <2>1. \A i \in 1 .. j : f.cuts[i] \in Nat
    BY <1>6, <1>7, ElementOfSeq
  <2>2. \A i \in 1 .. j : f.cuts[i] <= f.cuts[j]
    BY <1>5, <1>7 DEF Laid
  <2>3. QED
    BY <1>8, <1>13, <2>1, <2>2
<1>19. Laid(b2, f)
  <2>1. b <= Len(b2) /\ b = f.cuts[Len(f.cuts)]
    BY <1>7, <1>8, <1>12
  <2>2. QED
    BY <1>5, <1>11, <1>12, <2>1, LaidStays
<1>20. Laid(b2, g)
  <2>1. TextAt(b2, g.from, RESPLine("*", Len(g.cmd)))
    BY <1>15, <1>19 DEF Laid
  <2>2. g.cuts[1] = g.from + Len(RESPLine("*", Len(g.cmd)))
    <3>1. c2[1] = f.cuts[1]
      BY <1>13
    <3>2. QED
      BY <1>15, <1>19, <3>1 DEF Laid
  <2>3. ASSUME NEW i \in 1 .. Len(g.cuts) - 1
        PROVE  /\ TextAt(b2, g.cuts[i], RESPBulk(g.cmd[i]))
               /\ g.cuts[i + 1] = g.cuts[i] + Len(RESPBulk(g.cmd[i]))
    <3>1. i \in 1 .. j
      BY <1>13, <1>15
    <3>2. CASE i = j
      <4>1. g.cuts[i] = b /\ g.cuts[i + 1] = n /\ RESPBulk(g.cmd[i]) = t
        BY <1>8, <1>9, <1>13, <1>15, <3>1, <3>2
      <4>2. TextAt(b2, b, t)
        BY <1>11, <1>12, SMTT(30) DEF TextAt
      <4>3. n = b + Len(t)
        BY <1>11, <1>12
      <4>4. QED
        BY <4>1, <4>2, <4>3
    <3>3. CASE i # j
      <4>1. i \in 1 .. Len(f.cuts) - 1 /\ i + 1 \in 1 .. j
        BY <1>7, <3>1, <3>3
      <4>2. g.cuts[i] = f.cuts[i] /\ g.cuts[i + 1] = f.cuts[i + 1] /\ g.cmd = f.cmd
        BY <1>13, <1>15, <3>1, <4>1
      <4>3. QED
        BY <1>19, <4>1, <4>2 DEF Laid
    <3>4. QED
      BY <3>2, <3>3
  <2>4. ASSUME NEW i \in 1 .. Len(g.cuts) PROVE g.cuts[i] <= g.cuts[Len(g.cuts)]
    <3>1. g.cuts = c2 /\ c2[Len(c2)] = n /\ i \in 1 .. j + 1
      BY <1>13, <1>15
    <3>2. CASE i \in 1 .. j
      <4>1. PICK d \in Nat : d = c2[i] /\ d <= b
        BY <1>18, <3>2
      <4>2. d <= n
        BY <1>12, <4>1
      <4>3. QED
        BY <3>1, <4>1, <4>2
    <3>3. CASE i = j + 1
      <4>1. c2[i] = n
        BY <1>13, <3>3
      <4>2. n <= n
        OBVIOUS
      <4>3. QED
        BY <3>1, <4>1, <4>2
    <3>4. QED
      BY <3>1, <3>2, <3>3
  <2>5. QED
    BY <2>1, <2>2, <2>3, <2>4 DEF Laid
<1>21. f.from <= b /\ f.from < n
  <2>1. PICK h \in Nat : h = f.from
    BY <1>6
  <2>2. h = EndOf(bytes, fs, m - 1) /\ m - 1 \in 0 .. Len(fs)
    <3>1. m \in 1 .. Len(fs) /\ m - 1 \in 0 .. Len(fs) /\ fs[m].from = h
      BY <1>1, <1>3, <1>4, <2>1
    <3>2. fs[m].from = EndOf(bytes, fs, m - 1)
      BY <3>1, EndFacts
    <3>3. QED
      BY <3>1, <3>2
  <2>3. h <= b
    BY <1>8, <2>2, EndFacts
  <2>4. h < n
    BY <1>12, <2>3
  <2>5. QED
    BY <2>1, <2>3, <2>4
<1>22. LastBecomes(g, bytes, fs, b2, fs2)
  <2>1. \A i \in 1 .. f.from : i \in 1 .. b
    BY <1>6, <1>21
  <2>2. QED
    BY <1>1, <1>3, <1>4, <1>11, <1>12, <1>15, <1>17, <1>21, <2>1 DEF LastBecomes
<1>23. /\ Len(g.cuts) >= 1 /\ Len(g.cuts) <= Len(g.cmd) + 1 /\ g.whole
       /\ g.cuts[Len(g.cuts)] = Len(b2)
  <2>1. g.cuts = c2 /\ Len(c2) = j + 1 /\ c2[j + 1] = Len(b2) /\ g.cmd = f.cmd
    BY <1>12, <1>13, <1>15
  <2>2. j + 1 >= 1 /\ j + 1 <= Len(f.cmd) + 1
    <3>1. Len(f.cmd) \in Nat
      BY <1>6, CommandText, LenProperties
    <3>2. QED
      BY <1>7, <3>1
  <2>3. QED
    BY <1>5, <1>15, <2>1, <2>2
<1>24. QED
  BY <1>20, <1>22, <1>23, LayoutLast

(* A frame that was torn counts no more, and the others are as they were. *)
LEMMA LayoutTear ==
  ASSUME NEW bytes, NEW fs, NEW b2, NEW fs2, Layout(bytes, fs), AllComplete(fs),
         NEW n \in fs[Len(fs)].from + 1 .. Len(bytes) - 1, Len(fs) # 0,
         Tears(n, bytes, fs, b2, fs2)
  PROVE  Layout(b2, fs2)
<1>1. PICK m \in Nat : m = Len(fs) /\ fs \in Seq(Frames)
  BY EndFacts
<1>2. m # 0 /\ m \in 1 .. m
  BY <1>1
<1>3. PICK f \in Frames : f = fs[m]
  BY <1>1, <1>2, EndFacts
<1>4. /\ Len(f.cuts) >= 1 /\ Len(f.cuts) <= Len(f.cmd) + 1 /\ Complete(f)
  BY <1>1, <1>2, <1>3 DEF Layout, AllComplete
<1>5. PICK b \in Nat, h \in Nat : b = Len(bytes) /\ h = f.from
  BY EndFacts DEF Frames
<1>6. bytes \in Seq(Alphabet) /\ n \in Nat /\ h < n /\ n <= b
  <2>1. n \in h + 1 .. b - 1
    BY <1>1, <1>3, <1>5
  <2>2. bytes \in Seq(Alphabet)
    BY EndFacts
  <2>3. QED
    BY <2>1, <2>2
<1>7. /\ b2 \in Seq(Alphabet) /\ Len(b2) = n
      /\ \A i \in 1 .. n : b2[i] = bytes[i]
  <2>1. b2 = SubSeq(bytes, 1, n)
    BY DEF Tears
  <2>2. 1 \in Nat \ {0} /\ n \in Int /\ 1 <= n + 1 /\ n <= Len(bytes)
        /\ n + 1 - 1 = n /\ \A i \in 1 .. n : 1 + i - 1 = i
    BY <1>5, <1>6
  <2>3. /\ b2 \in Seq(Alphabet) /\ Len(b2) = n + 1 - 1
        /\ \A i \in 1 .. n + 1 - 1 : b2[i] = bytes[1 + i - 1]
    BY <1>6, <2>1, <2>2, Piece
  <2>4. QED
    BY <2>2, <2>3
<1>8. PICK g : g = [f EXCEPT !.whole = FALSE]
  OBVIOUS
<1>9. g \in Frames /\ g.cmd = f.cmd /\ g.from = f.from /\ g.cuts = f.cuts /\ g.whole = FALSE
  BY <1>8 DEF Frames
<1>10. /\ fs2 \in Seq(Frames) /\ Len(fs2) = m /\ fs2[m] = g
       /\ \A i \in 1 .. m - 1 : fs2[i] = fs[i]
  <2>1. fs2 = [fs EXCEPT ![m] = g]
    <3>1. fs2 = [fs EXCEPT ![m].whole = FALSE]
      BY <1>1 DEF Tears
    <3>2. fs2 = [fs EXCEPT ![m] = [fs[m] EXCEPT !.whole = FALSE]]
      BY <3>1
    <3>3. QED
      BY <1>3, <1>8, <3>2
  <2>2. QED
    BY <1>1, <1>2, <1>9, <2>1, ExceptSeq
<1>11. LastBecomes(g, bytes, fs, b2, fs2)
  <2>1. \A i \in 1 .. h : i \in 1 .. n
    BY <1>6
  <2>2. \A i \in 1 .. g.from : b2[i] = bytes[i]
    BY <1>5, <1>7, <1>9, <2>1
  <2>3. g.from = fs[Len(fs)].from /\ g.from < Len(b2)
    BY <1>1, <1>3, <1>5, <1>6, <1>7, <1>9
  <2>4. QED
    BY <1>1, <1>2, <1>7, <1>9, <1>10, <2>2, <2>3 DEF LastBecomes
<1>12. Len(g.cuts) >= 1 /\ Len(g.cuts) <= Len(g.cmd) + 1 /\ Complete(g) /\ ~g.whole
  BY <1>4, <1>9 DEF Complete
<1>13. QED
  BY <1>11, <1>12, LayoutLast

-----------------------------------------------------------------------------
(* What the parser makes of a frame. *)

(* rest holds the bytes of the file behind base, up to e. *)
Shown(bytes, base, e, rest) ==
  /\ rest \in Seq(Alphabet) /\ base \in Nat /\ e \in Nat
  /\ base <= e /\ Len(rest) = e - base
  /\ \A j \in 1 .. e - base : rest[j] = bytes[base + j]

(* A text of the file shows in rest as far as it was read. *)
LEMMA TextShows ==
  ASSUME NEW bytes, NEW base, NEW e, NEW rest, Shown(bytes, base, e, rest),
         NEW pos \in Nat \ {0}, NEW h, h = base + pos - 1,
         NEW text, Len(text) \in Nat, TextAt(bytes, h, text)
  PROVE  Shows(rest, pos, text)
<1>1. base \in Nat /\ e \in Nat /\ Len(rest) = e - base
      /\ \A j \in 1 .. e - base : rest[j] = bytes[base + j]
  BY DEF Shown
<1> SUFFICES ASSUME NEW i \in 1 .. Len(text), pos + i - 1 <= Len(rest)
             PROVE  rest[pos + i - 1] = text[i]
  BY DEF Shows
<1>2. pos + i - 1 \in 1 .. e - base /\ base + (pos + i - 1) = h + i
  BY <1>1
<1>3. bytes[h + i] = text[i]
  BY DEF TextAt
<1>4. QED
  BY <1>1, <1>2, <1>3

(* The cuts of a whole frame. *)
LEMMA FrameFacts ==
  ASSUME NEW bytes, NEW fs, Layout(bytes, fs), NEW k \in 1 .. Len(fs),
         fs[k].whole, Complete(fs[k])
  PROVE  /\ fs[k] \in Frames /\ fs[k].cmd \in Commands /\ fs[k].from \in Nat
         /\ Len(fs[k].cmd) \in 0 .. Huge - 1
         /\ Laid(bytes, fs[k])
         /\ \A i \in 1 .. Len(fs[k].cmd) + 1 :
              /\ fs[k].cuts[i] \in Nat
              /\ fs[k].cuts[i] <= EndOf(bytes, fs, k)
         /\ fs[k].cuts[Len(fs[k].cmd) + 1] = EndOf(bytes, fs, k)
         /\ EndOf(bytes, fs, k) \in Nat
<1>1. PICK f \in Frames : f = fs[k]
  BY EndFacts
<1>2. f.cmd \in Commands /\ f.from \in Nat /\ f.cuts \in Seq(Nat)
  BY DEF Frames
<1>3. Laid(bytes, f) /\ f.cuts[Len(f.cuts)] = EndOf(bytes, fs, k)
  BY <1>1 DEF Layout
<1>4. Len(f.cuts) = Len(f.cmd) + 1
  BY <1>1 DEF Complete
<1>5. EndOf(bytes, fs, k) \in Nat
  <2>1. k \in Nat
    BY EndFacts
  <2>2. QED
    BY <2>1, EndFacts
<1>6. \A i \in 1 .. Len(f.cuts) : f.cuts[i] \in Nat
  BY <1>2, ElementOfSeq
<1>7. \A i \in 1 .. Len(f.cuts) : f.cuts[i] <= f.cuts[Len(f.cuts)]
  BY <1>3 DEF Laid
<1>8. Len(f.cmd) \in 0 .. Huge - 1
  BY <1>2, CommandText
<1>9. QED
  BY <1>1, <1>2, <1>3, <1>4, <1>5, <1>6, <1>7, <1>8

(* What was read behind base up to e meets the k-th frame, a whole one. *)
Meets(bytes, fs, k, base, e, rest) ==
  /\ Layout(bytes, fs) /\ k \in 1 .. Len(fs) /\ fs[k].whole /\ Complete(fs[k])
  /\ Shown(bytes, base, e, rest)

(* It starts with that frame, and line is made of it. *)
Begins(bytes, fs, k, base, e, rest, line) ==
  Meets(bytes, fs, k, base, e, rest) /\ base = fs[k].from /\ line = Line(rest, 1, "*")

(* The first line of the frame that rest begins with. *)
LEMMA HeaderOf ==
  ASSUME NEW bytes, NEW fs, NEW k, NEW base, NEW e, NEW rest, NEW line,
         Begins(bytes, fs, k, base, e, rest, line)
  PROVE  /\ line.ok => /\ line.number = Len(fs[k].cmd)
                       /\ base + line.pos - 1 = fs[k].cuts[1]
         /\ ~line.ok => EndOf(bytes, fs, k) > e
<1>0. /\ Layout(bytes, fs) /\ k \in 1 .. Len(fs) /\ fs[k].whole /\ Complete(fs[k])
      /\ Shown(bytes, base, e, rest) /\ base = fs[k].from /\ line = Line(rest, 1, "*")
  BY DEF Begins, Meets
<1>1. PICK f \in Frames : f = fs[k]
  BY <1>0, FrameFacts
<1>2. f.cmd \in Commands /\ Laid(bytes, f)
  BY <1>0, <1>1, FrameFacts
<1>3. PICK n \in 0 .. Huge - 1 : n = Len(f.cmd)
  BY <1>0, <1>1, FrameFacts
<1>4. PICK text : text = RESPLine("*", n) /\ Len(text) \in Nat \ {0}
  BY <1>2, <1>3, HeaderText
<1>5. rest \in Seq(Alphabet) /\ base \in Nat /\ e \in Nat /\ Len(rest) = e - base
  BY <1>0 DEF Shown
<1>6. TextAt(bytes, base, text) /\ f.cuts[1] = base + Len(text)
  BY <1>0, <1>1, <1>2, <1>3, <1>4 DEF Laid
<1>7. Shows(rest, 1, text)
  <2>1. base = base + 1 - 1 /\ 1 \in Nat \ {0} /\ Len(text) \in Nat
    BY <1>4, <1>5
  <2>2. QED
    BY <1>0, <1>6, <2>1, TextShows
<1>8. /\ 1 + Len(text) - 1 <= Len(rest) =>
           Line(rest, 1, "*") = [ok |-> TRUE, number |-> n, pos |-> 1 + Len(text)]
      /\ 1 + Len(text) - 1 > Len(rest) => ~Line(rest, 1, "*").ok
  <2>1. 1 \in Nat \ {0} /\ "*" \in {"*", "$"}
    OBVIOUS
  <2>2. QED
    BY <1>4, <1>5, <1>7, <2>1, LineRead
<1>9. f.cuts[1] <= EndOf(bytes, fs, k) /\ EndOf(bytes, fs, k) \in Nat
  <2>1. n \in Nat /\ 1 \in 1 .. n + 1
    BY <1>3
  <2>2. QED
    BY <1>0, <1>1, <1>3, <2>1, FrameFacts
<1>10. ASSUME 1 + Len(text) - 1 <= Len(rest)
       PROVE  /\ Line(rest, 1, "*").ok /\ Line(rest, 1, "*").number = n
              /\ base + Line(rest, 1, "*").pos - 1 = f.cuts[1]
  <2>1. Line(rest, 1, "*").pos = 1 + Len(text) /\ Line(rest, 1, "*").ok
        /\ Line(rest, 1, "*").number = n
    BY <1>8, <1>10
  <2>2. base + (1 + Len(text)) - 1 = f.cuts[1]
    BY <1>4, <1>5, <1>6
  <2>3. QED
    BY <2>1, <2>2
<1>11. ASSUME 1 + Len(text) - 1 > Len(rest)
       PROVE  ~Line(rest, 1, "*").ok /\ EndOf(bytes, fs, k) > e
  <2>1. base + Len(text) > e
    BY <1>4, <1>5, <1>11
  <2>2. QED
    BY <1>4, <1>5, <1>6, <1>8, <1>9, <1>11, <2>1
<1>12. 1 + Len(text) - 1 <= Len(rest) \/ 1 + Len(text) - 1 > Len(rest)
  BY <1>4, <1>5
<1>13. QED
  BY <1>0, <1>1, <1>3, <1>10, <1>11, <1>12

(* Its i-th part, at the position where the one before it ended. *)
LEMMA PartOf ==
  ASSUME NEW bytes, NEW fs, NEW k, NEW base, NEW e, NEW rest,
         Meets(bytes, fs, k, base, e, rest),
         NEW i \in 1 .. Len(fs[k].cmd), NEW pos \in Nat \ {0},
         base + pos - 1 = fs[k].cuts[i]
  PROVE  /\ Bulk(rest, pos).ok =>
              /\ Bulk(rest, pos).data = fs[k].cmd[i]
              /\ base + Bulk(rest, pos).pos - 1 = fs[k].cuts[i + 1]
         /\ ~Bulk(rest, pos).ok => EndOf(bytes, fs, k) > e
<1>0. /\ Layout(bytes, fs) /\ k \in 1 .. Len(fs) /\ fs[k].whole /\ Complete(fs[k])
      /\ Shown(bytes, base, e, rest)
  BY DEF Meets
<1>1. PICK f \in Frames : f = fs[k]
  BY <1>0, FrameFacts
<1>2. f.cmd \in Commands /\ Laid(bytes, f)
  BY <1>0, <1>1, FrameFacts
<1>3. i \in 1 .. Len(f.cuts) - 1
  <2>1. Len(f.cmd) \in Nat
    BY <1>2, CommandText, LenProperties
  <2>2. QED
    BY <1>0, <1>1, <2>1 DEF Complete
<1>4. PICK p \in Seq(Alphabet) : p = f.cmd[i] /\ Len(p) < Huge
  BY <1>1, <1>2, PartText
<1>5. PICK text : text = RESPBulk(p) /\ Len(text) \in Nat \ {0}
  BY <1>1, <1>2, <1>4, PartText
<1>6. rest \in Seq(Alphabet) /\ base \in Nat /\ e \in Nat /\ Len(rest) = e - base
  BY <1>0 DEF Shown
<1>7. PICK h : h = base + pos - 1 /\ h \in Nat
  BY <1>6
<1>8. TextAt(bytes, h, text) /\ f.cuts[i + 1] = h + Len(text)
  BY <1>1, <1>2, <1>3, <1>4, <1>5, <1>7 DEF Laid
<1>9. Shows(rest, pos, text)
  <2>1. Len(text) \in Nat
    BY <1>5
  <2>2. QED
    BY <1>0, <1>7, <1>8, <2>1, TextShows
<1>10. /\ pos + Len(text) - 1 <= Len(rest) =>
            Bulk(rest, pos) = [ok |-> TRUE, pos |-> pos + Len(text), data |-> p]
       /\ pos + Len(text) - 1 > Len(rest) => ~Bulk(rest, pos).ok
  BY <1>4, <1>5, <1>6, <1>9, BulkRead
<1>11. f.cuts[i + 1] <= EndOf(bytes, fs, k) /\ EndOf(bytes, fs, k) \in Nat
  <2>1. i + 1 \in 1 .. Len(f.cmd) + 1
    BY <1>0, <1>1, <1>3 DEF Complete
  <2>2. QED
    BY <1>0, <1>1, <2>1, FrameFacts
<1>12. ASSUME pos + Len(text) - 1 <= Len(rest)
       PROVE  /\ Bulk(rest, pos).ok /\ Bulk(rest, pos).data = p
              /\ base + Bulk(rest, pos).pos - 1 = f.cuts[i + 1]
  <2>1. Bulk(rest, pos).pos = pos + Len(text) /\ Bulk(rest, pos).ok
        /\ Bulk(rest, pos).data = p
    BY <1>10, <1>12
  <2>2. base + (pos + Len(text)) - 1 = h + Len(text)
    BY <1>5, <1>6, <1>7
  <2>3. QED
    BY <1>8, <2>1, <2>2
<1>13. ASSUME pos + Len(text) - 1 > Len(rest)
       PROVE  ~Bulk(rest, pos).ok /\ EndOf(bytes, fs, k) > e
  <2>1. h + Len(text) > e
    BY <1>5, <1>6, <1>7, <1>13
  <2>2. EndOf(bytes, fs, k) > e
    BY <1>5, <1>6, <1>7, <1>8, <1>11, <2>1
  <2>3. QED
    BY <1>10, <1>13, <2>2
<1>14. pos + Len(text) - 1 <= Len(rest) \/ pos + Len(text) - 1 > Len(rest)
  BY <1>5, <1>6
<1>15. QED
  BY <1>1, <1>4, <1>12, <1>13, <1>14

-----------------------------------------------------------------------------
(* The inductive invariant. *)

Phases == {"write", "open", "read", "parse", "bulk", "tail", "done", "failed"}
Arrays == [number : Int, pos : Nat \ {0}, parts : Seq(Seq(Alphabet))]

ReaderShape ==
  /\ at \in Phases
  /\ first \in Nat /\ first <= Len(frames)
  /\ off \in Nat /\ last_good \in Nat
  /\ stream_buf \in Seq(Alphabet) /\ parsed \in Nat /\ parsed <= Len(stream_buf)
  /\ array \in Arrays
  /\ executed \in Seq(Seq(Seq(Alphabet)))
  /\ at # "write" => AllComplete(frames)

(* Nothing was read yet, or there was nothing to read. *)
Fresh ==
  /\ at \in {"write", "open", "done", "failed"}
  /\ at = "done" => file = <<>>
  /\ off = 0 /\ last_good = 0 /\ stream_buf = <<>> /\ parsed = 0 /\ executed = <<>>

(* Where the bytes that are still to be executed start. *)
Base == End(first) + last_good

(* They are in stream_buf, as far as the file was read. *)
Window ==
  /\ Shown(file, Base, off, Rest) /\ off <= Len(file)
  /\ at = "read" => parsed = 0
  /\ at = "bulk" => array.pos - 1 <= off - Base

AllWhole == \A i \in DOMAIN frames : frames[i].whole

(* The frame that comes next. *)
Due == first + Len(executed) + 1

(* What the callback got. *)
Given ==
  /\ \A i \in 1 .. Len(executed) : Intact(i) => executed[i] = frames[first + i].cmd
  /\ Intact(Len(executed)) => Base = End(first + Len(executed))
  /\ AllWhole => Intact(Len(executed))

(* How far the next frame is: nothing of it is known, its first parts were *)
(* taken, or it is not all there.                                          *)
Taken(f) ==
  /\ array.number = Len(f.cmd) /\ Len(array.parts) <= Len(f.cmd)
  /\ \A i \in 1 .. Len(array.parts) : array.parts[i] = f.cmd[i]
  /\ Base + array.pos - 1 = f.cuts[Len(array.parts) + 1]
Ahead ==
  /\ at = "bulk" /\ AllWhole => Intact(Len(executed) + 1)
  /\ at = "bulk" /\ Intact(Len(executed) + 1) => Taken(frames[Due])
  /\ at \in {"read", "tail", "done"} /\ Intact(Len(executed) + 1) => End(Due) > off

Reading == at \notin {"write", "open"} /\ Window /\ Given /\ Ahead

ReaderInv == ReaderShape /\ Layout(file, frames) /\ (Fresh \/ Reading)

(* End and Serialized are EndOf and AllComplete of the file. *)
LEMMA OfTheFile ==
  ASSUME ReaderShape, Layout(file, frames)
  PROVE  /\ \A k : End(k) = EndOf(file, frames, k)
         /\ Len(file) \in Nat /\ Len(frames) \in Nat /\ frames \in Seq(Frames)
         /\ DOMAIN frames = 1 .. Len(frames)
         /\ Serialized <=> AllComplete(frames)
         /\ first \in Nat /\ End(first) \in Nat /\ Base \in Nat
<1>1. \A k : End(k) = EndOf(file, frames, k)
  BY DEF End, EndOf
<1>2. Len(file) \in Nat /\ Len(frames) \in Nat /\ frames \in Seq(Frames)
  BY EndFacts
<1>3. DOMAIN frames = 1 .. Len(frames)
  BY <1>2, LenProperties
<1>4. Serialized <=> AllComplete(frames)
  BY <1>3 DEF Serialized, AllComplete, Complete
<1>5. first \in Nat /\ last_good \in Nat
  BY DEF ReaderShape
<1>6. End(first) \in Nat
  BY <1>1, <1>5, EndFacts, SMTT(30)
<1>7. QED
  BY <1>1, <1>2, <1>3, <1>4, <1>5, <1>6 DEF Base

(* The frame that comes next, when it is whole and all before it are. *)
LEMMA DueFacts ==
  ASSUME ReaderShape, Layout(file, frames), at # "write", Given,
         Intact(Len(executed) + 1)
  PROVE  /\ Due \in 1 .. Len(frames) /\ frames[Due].whole /\ Complete(frames[Due])
         /\ Base = frames[Due].from /\ Intact(Len(executed))
<1>1. PICK m \in Nat, n \in Nat, a \in Nat : m = Len(executed) /\ n = Len(frames) /\ a = first
  BY OfTheFile, LenProperties DEF ReaderShape
<1>2. a + (m + 1) <= n /\ \A i \in 1 .. m + 1 : frames[a + i].whole
  BY <1>1 DEF Intact
<1>3. Due \in 1 .. n /\ Due = a + (m + 1) /\ Due = a + m + 1 /\ a + m < n /\ m + 1 \in 1 .. m + 1
  BY <1>1, <1>2 DEF Due
<1>4. frames[Due].whole
  BY <1>2, <1>3
<1>5. Complete(frames[Due])
  BY <1>1, <1>3 DEF ReaderShape, AllComplete
<1>6. Intact(Len(executed))
  <2>1. a + m <= n /\ \A i \in 1 .. m : frames[a + i].whole
    BY <1>2, <1>3
  <2>2. QED
    BY <1>1, <2>1 DEF Intact
<1>7. Base = End(a + m)
  BY <1>1, <1>6 DEF Given
<1>8. End(a + m) = frames[Due].from
  BY <1>1, <1>3 DEF End
<1>9. QED
  BY <1>1, <1>3, <1>4, <1>5, <1>6, <1>7, <1>8

(* Types of a command that is taken from the file. *)
LEMMA Empties ==
  /\ <<>> \in Seq(Alphabet) /\ Len(<<>>) = 0
  /\ NoArray \in Arrays /\ <<>> \in Seq(Seq(Seq(Alphabet)))
<1>1. <<>> \in Seq(Alphabet) /\ <<>> \in Seq(Seq(Alphabet)) /\ Len(<<>>) = 0
      /\ <<>> \in Seq(Seq(Seq(Alphabet)))
  BY EmptySeq
<1>2. 0 \in Int /\ 1 \in Nat \ {0}
  OBVIOUS
<1>3. QED
  BY <1>1, <1>2 DEF NoArray, Arrays

(* The initial state. *)
LEMMA ReaderStarts == Init => ReaderInv
<1> SUFFICES ASSUME Init PROVE ReaderInv
  OBVIOUS
<1>1. file = <<>> /\ frames = <<>> /\ first = 0 /\ at = "write" /\ off = 0
      /\ stream_buf = <<>> /\ parsed = 0 /\ array = NoArray /\ executed = <<>>
      /\ last_good = 0
  BY DEF Init
<1>2. Fresh
  BY <1>1 DEF Fresh
<1>3. ReaderShape
  BY <1>1, Empties DEF ReaderShape, Phases
<1>4. Layout(file, frames)
  <2>1. <<>> \in Seq(Frames) /\ Len(<<>>) = 0
    BY EmptySeq
  <2>2. \A k \in 0 .. 0 : EndOf(<<>>, <<>>, k) <= 0 /\ \A j \in 0 .. k - 1 : FALSE
    BY <2>1 DEF EndOf
  <2>3. \A k \in 1 .. 0 : FALSE
    OBVIOUS
  <2>4. QED
    BY <1>1, <2>1, <2>2, <2>3, Empties DEF Layout
<1>5. QED
  BY <1>2, <1>3, <1>4 DEF ReaderInv

(* While the file is laid out. *)
LEMMA WriteSteps ==
  ReaderInv /\ ((\E c \in Commands : StartFrame(c)) \/ AddPart \/ Tear) => ReaderInv'
<1> SUFFICES ASSUME ReaderInv, (\E c \in Commands : StartFrame(c)) \/ AddPart \/ Tear
             PROVE  ReaderInv'
  OBVIOUS
<1>1. /\ at = "write" /\ at' = at
      /\ UNCHANGED <<first, off, stream_buf, parsed, array, executed, last_good>>
  BY DEF StartFrame, AddPart, Tear, callVars, readerVars
<1>2. ReaderShape /\ Layout(file, frames) /\ Fresh
  BY <1>1 DEF ReaderInv, Reading
<1>3. Fresh'
  BY <1>1, <1>2 DEF Fresh
<1>4. Layout(file', frames')
  <2>1. ASSUME NEW c \in Commands, StartFrame(c) PROVE Layout(file', frames')
    <3>1. Starts(c, file, frames, file', frames')
      BY <2>1 DEF StartFrame, Starts
    <3>2. AllComplete(frames)
      BY <1>2, <2>1, OfTheFile DEF StartFrame
    <3>3. QED
      BY <1>2, <3>1, <3>2, LayoutStart
  <2>2. CASE AddPart
    <3>1. Adds(file, frames, file', frames')
      BY <2>2 DEF AddPart, Adds
    <3>2. ~AllComplete(frames)
      BY <1>2, <2>2, OfTheFile DEF AddPart
    <3>3. QED
      BY <1>2, <3>1, <3>2, LayoutAdd
  <2>3. CASE Tear
    <3>1. PICK n \in frames[Len(frames)].from + 1 .. Len(file) - 1 : file' = SubSeq(file, 1, n)
      BY <2>3 DEF Tear
    <3>2. Tears(n, file, frames, file', frames')
      BY <2>3, <3>1 DEF Tear, Tears
    <3>3. AllComplete(frames)
      BY <1>2, <2>3, OfTheFile DEF Tear
    <3>4. Len(frames) # 0
      <4>1. frames # <<>> /\ frames \in Seq(Frames)
        BY <1>2, <2>3, OfTheFile DEF Tear
      <4>2. QED
        BY <4>1, EmptySeq
    <3>5. QED
      BY <1>2, <3>2, <3>3, <3>4, LayoutTear
  <2>4. QED
    BY <2>1, <2>2, <2>3
<1>5. Len(frames) <= Len(frames') /\ Len(frames) \in Nat /\ Len(frames') \in Nat
  <2>1. frames \in Seq(Frames) /\ Len(frames) \in Nat
    BY <1>2, OfTheFile
  <2>2. frames' \in Seq(Frames) /\ Len(frames') \in Nat
    BY <1>4, EndFacts
  <2>3. ASSUME NEW c \in Commands, StartFrame(c) PROVE Len(frames) <= Len(frames')
    <3>1. PICK f : frames' = Append(frames, f)
      BY <2>3, Zenon DEF StartFrame
    <3>2. QED
      BY <2>1, <3>1
  <2>4. CASE AddPart \/ Tear
    <3>1. DOMAIN frames' = DOMAIN frames
      BY <2>1, <2>4 DEF AddPart, Tear
    <3>2. DOMAIN frames = 1 .. Len(frames) /\ DOMAIN frames' = 1 .. Len(frames')
      BY <2>1, <2>2, LenProperties
    <3>3. QED
      BY <2>1, <2>2, <3>1, <3>2, SMTT(30)
  <2>5. QED
    BY <2>1, <2>2, <2>3, <2>4
<1>6. ReaderShape'
  <2>1. first \in Nat /\ first <= Len(frames)
    BY <1>2 DEF ReaderShape
  <2>2. first' \in Nat /\ first' <= Len(frames')
    BY <1>1, <1>5, <2>1
  <2>3. QED
    BY <1>1, <1>2, <2>2 DEF ReaderShape
<1>7. QED
  BY <1>3, <1>4, <1>6 DEF ReaderInv

(* Of the rest of stream_buf. *)
LEMMA RestFacts ==
  ASSUME ReaderShape
  PROVE  /\ Rest \in Seq(Alphabet) /\ Len(Rest) = Len(stream_buf) - parsed
         /\ \A j \in 1 .. Len(stream_buf) - parsed : Rest[j] = stream_buf[parsed + j]
<1>1. PICK b \in Nat, p \in Nat : b = Len(stream_buf) /\ p = parsed /\ p <= b
  BY LenProperties DEF ReaderShape
<1>2. stream_buf \in Seq(Alphabet)
  BY DEF ReaderShape
<1>3. p + 1 \in Nat \ {0} /\ b \in Int /\ p + 1 <= b + 1 /\ b <= Len(stream_buf)
      /\ b + 1 - (p + 1) = b - p /\ \A j \in 1 .. b - p : p + 1 + j - 1 = p + j
  BY <1>1
<1>4. Rest = SubSeq(stream_buf, p + 1, b)
  BY <1>1 DEF Rest
<1>5. /\ Rest \in Seq(Alphabet) /\ Len(Rest) = b + 1 - (p + 1)
      /\ \A j \in 1 .. b + 1 - (p + 1) : Rest[j] = stream_buf[p + 1 + j - 1]
  BY <1>2, <1>3, <1>4, Piece
<1>6. QED
  BY <1>1, <1>3, <1>5

(* The start of the reader: Call and Open. *)
LEMMA OpenSteps == ReaderInv /\ (Call \/ Open) => ReaderInv'
<1> SUFFICES ASSUME ReaderInv, Call \/ Open PROVE ReaderInv'
  OBVIOUS
<1>1. ReaderShape /\ Layout(file, frames) /\ Fresh
  BY DEF ReaderInv, Reading, Call, Open
<1>2. file' = file /\ frames' = frames
      /\ UNCHANGED <<stream_buf, parsed, array, executed, last_good>>
  BY DEF Call, Open, fileVars, readerVars
<1>3. Layout(file', frames')
  BY <1>1, <1>2
<1>4. CASE Call
  <2>1. at = "write" /\ at' = "open" /\ AllComplete(frames) /\ off' = off
    BY <1>1, <1>4, OfTheFile DEF Call, readerVars
  <2>2. first' \in Nat /\ first' <= Len(frames)
    <3>1. first' = 0 \/ first' \in 0 .. Len(frames)
      BY <1>4 DEF Call
    <3>2. Len(frames) \in Nat
      BY <1>1, OfTheFile
    <3>3. QED
      BY <3>1, <3>2
  <2>3. ReaderShape'
    BY <1>1, <1>2, <2>1, <2>2 DEF ReaderShape, Phases
  <2>4. Fresh'
    BY <1>1, <1>2, <2>1 DEF Fresh
  <2>5. QED
    BY <1>3, <2>3, <2>4 DEF ReaderInv
<1>5. CASE Open
  <2>1. at = "open" /\ first' = first
        /\ \/ at' = "failed" /\ off' = off
           \/ file = <<>> /\ at' = "done" /\ off' = off
           \/ at' = "read" /\ off' = End(first)
    BY <1>5 DEF Open, callVars
  <2>2. End(first) \in Nat /\ End(first) <= Len(file) /\ Len(file) \in Nat
        /\ End(first) = EndOf(file, frames, first) /\ first \in Nat /\ Len(frames) \in Nat
    <3>1. first \in 0 .. Len(frames)
      BY <1>1, OfTheFile DEF ReaderShape
    <3>2. QED
      BY <1>1, <3>1, OfTheFile, EndFacts
  <2>3. ReaderShape'
    BY <1>1, <1>2, <2>1, <2>2 DEF ReaderShape, Phases
  <2>4. CASE at' # "read"
    <3>1. Fresh'
      BY <1>1, <1>2, <2>1, <2>4 DEF Fresh
    <3>2. QED
      BY <1>3, <2>3, <3>1 DEF ReaderInv
  <2>5. CASE at' = "read"
    <3>1. PICK h \in Nat : h = End(first)
      BY <2>2
    <3>2. /\ last_good' = 0 /\ stream_buf' = <<>> /\ parsed' = 0 /\ executed' = <<>>
          /\ off' = h /\ Len(executed') = 0
      BY <1>1, <1>2, <2>1, <2>5, <3>1, Empties DEF Fresh
    <3>3. Base' = h
      <4>1. End(first)' = h
        BY <1>2, <2>1, <3>1 DEF End
      <4>2. QED
        BY <3>2, <4>1 DEF Base
    <3>4. Window'
      <4>1. Rest' \in Seq(Alphabet) /\ Len(Rest') = 0
        <5>1. Rest' = SubSeq(<<>>, 0 + 1, Len(<<>>))
          BY <3>2 DEF Rest
        <5>2. Rest' = <<>>
          BY <5>1, SubSeqEmpty, Empties
        <5>3. QED
          BY <5>2, Empties
      <4>2. Shown(file', h, h, Rest')
        BY <4>1 DEF Shown
      <4>3. off' <= Len(file')
        BY <1>2, <2>2, <3>1, <3>2
      <4>4. QED
        BY <2>5, <3>2, <3>3, <4>2, <4>3 DEF Window
    <3>5. first <= Len(frames) /\ first + 0 = first
      BY <1>1, <2>2 DEF ReaderShape
    <3>6. Given'
      <4>1. \A i \in 1 .. 0 : FALSE
        OBVIOUS
      <4>2. Intact(0)'
        BY <1>2, <2>1, <3>5, <4>1 DEF Intact
      <4>3. End(first + 0)' = h
        BY <1>2, <2>1, <3>1, <3>5 DEF End
      <4>4. QED
        BY <2>1, <3>2, <3>3, <4>1, <4>2, <4>3 DEF Given
    <3>7. Ahead'
      <4>1. ASSUME Intact(Len(executed) + 1)' PROVE (End(Due) > off)'
        <5>1. first + 1 <= Len(frames)
          BY <1>2, <2>1, <3>2, <4>1 DEF Intact
        <5>2. first + 1 \in 0 .. Len(frames) /\ first \in 0 .. first + 1 - 1
          BY <2>2, <5>1
        <5>3. EndOf(file, frames, first) < EndOf(file, frames, first + 1)
          BY <1>1, <5>2, EndFacts
        <5>4. Due' = first + 1
          BY <2>1, <2>2, <3>2 DEF Due
        <5>5. End(Due)' = EndOf(file, frames, first + 1)
          BY <1>2, <5>4 DEF End, EndOf
        <5>6. EndOf(file, frames, first + 1) \in Nat
          BY <1>1, <2>2, EndFacts, SMTT(30)
        <5>7. QED
          BY <2>2, <3>1, <3>2, <5>3, <5>5, <5>6
      <4>2. QED
        BY <2>5, <4>1 DEF Ahead
    <3>8. QED
      BY <1>3, <2>3, <2>5, <3>4, <3>6, <3>7 DEF ReaderInv, Reading
  <2>6. QED
    BY <2>4, <2>5
<1>6. QED
  BY <1>4, <1>5

(* What a step leaves alone while the file is read. *)
LEMMA GivenStays ==
  ASSUME UNCHANGED <<file, frames, first, executed, last_good>>
  PROVE  /\ Base' = Base /\ Due' = Due
         /\ \A k : End(k)' = End(k) /\ (Intact(k)' <=> Intact(k))
         /\ (AllWhole' <=> AllWhole) /\ (Given' <=> Given)
<1>1. \A k : End(k)' = End(k) /\ (Intact(k)' <=> Intact(k))
  BY DEF End, Intact
<1>2. End(first)' = End(first) /\ End(first + Len(executed))' = End(first + Len(executed))
  BY DEF End
<1>3. Base' = Base /\ Due' = Due
  BY <1>2 DEF Base, Due
<1>4. AllWhole' <=> AllWhole
  BY DEF AllWhole
<1>5. Given' <=> Given
  <2>1. Intact(Len(executed))' <=> Intact(Len(executed))
    BY DEF Intact
  <2>2. \A i : Intact(i)' <=> Intact(i)
    BY <1>1
  <2>3. QED
    BY <1>2, <1>3, <1>4, <2>1, <2>2 DEF Given
<1>6. QED
  BY <1>1, <1>3, <1>4, <1>5

(* The reader is at work. *)
LEMMA AtWork ==
  ASSUME ReaderInv, at \in {"read", "parse", "bulk", "tail"}
  PROVE  /\ ReaderShape /\ Layout(file, frames) /\ Window /\ Given /\ Ahead
         /\ AllComplete(frames)
BY DEF ReaderInv, Reading, Fresh, ReaderShape

(* A read appends the next bytes of the file to stream_buf. *)
LEMMA ReadStep == ReaderInv /\ Read => ReaderInv'
<1> SUFFICES ASSUME ReaderInv, Read PROVE ReaderInv'
  OBVIOUS
<1>1. /\ at = "read" /\ at' = "parse" /\ parsed' = 0
      /\ UNCHANGED <<file, frames, first, array, executed, last_good>>
  BY DEF Read, fileVars, callVars
<1>2. ReaderShape /\ Layout(file, frames) /\ Window /\ Given /\ AllComplete(frames)
  BY <1>1, AtWork
<1>3. PICK n \in Nat, h \in Nat, e \in Nat, l \in Nat :
        /\ n >= 1 /\ h = Base /\ e = off /\ l = Len(file) /\ e + n <= l /\ h <= e
        /\ stream_buf' = stream_buf \o SubSeq(file, off + 1, off + n) /\ off' = e + n
  <2>1. PICK n \in 1 .. BUF : /\ off + n <= Len(file) /\ off' = off + n
                            /\ stream_buf' = stream_buf \o SubSeq(file, off + 1, off + n)
    BY DEF Read
  <2>2. n \in Nat /\ n >= 1
    BY <2>1, ReaderAssumption
  <2>3. Base \in Nat /\ off \in Nat /\ Len(file) \in Nat /\ Base <= off
    BY <1>2, OfTheFile DEF ReaderShape, Window, Shown
  <2>4. QED
    BY <2>1, <2>2, <2>3
<1>4. /\ stream_buf \in Seq(Alphabet) /\ parsed = 0 /\ Len(stream_buf) = e - h
      /\ \A j \in 1 .. e - h : stream_buf[j] = file[h + j]
  <2>1. PICK b \in Nat : b = Len(stream_buf) /\ stream_buf \in Seq(Alphabet)
    BY <1>2, LenProperties DEF ReaderShape
  <2>2. parsed = 0
    BY <1>1, <1>2 DEF Window
  <2>3. Len(Rest) = b /\ \A j \in 1 .. b : Rest[j] = stream_buf[j]
    <3>1. Len(Rest) = b - 0 /\ \A j \in 1 .. b - 0 : Rest[j] = stream_buf[0 + j]
      BY <1>2, <2>1, <2>2, RestFacts
    <3>2. b - 0 = b /\ \A j \in 1 .. b : 0 + j = j
      OBVIOUS
    <3>3. QED
      BY <3>1, <3>2
  <2>4. Len(Rest) = e - h /\ \A j \in 1 .. e - h : Rest[j] = file[h + j]
    BY <1>2, <1>3 DEF Window, Shown
  <2>5. QED
    BY <2>1, <2>2, <2>3, <2>4
<1>5. PICK t \in Seq(Alphabet) : /\ t = SubSeq(file, e + 1, e + n) /\ Len(t) = n
                               /\ \A j \in 1 .. n : t[j] = file[e + j]
  <2>1. e + 1 \in Nat \ {0} /\ e + n \in Int /\ e + 1 <= e + n + 1 /\ e + n <= Len(file)
        /\ e + n + 1 - (e + 1) = n /\ \A j \in 1 .. n : e + 1 + j - 1 = e + j
    BY <1>3
  <2>2. file \in Seq(Alphabet)
    BY <1>2, EndFacts
  <2>3. PICK t : t = SubSeq(file, e + 1, e + n)
    OBVIOUS
  <2>4. /\ t \in Seq(Alphabet) /\ Len(t) = e + n + 1 - (e + 1)
        /\ \A j \in 1 .. e + n + 1 - (e + 1) : t[j] = file[e + 1 + j - 1]
    BY <2>1, <2>2, <2>3, Piece
  <2>5. Len(t) = n /\ \A j \in 1 .. n : t[j] = file[e + j]
    BY <2>1, <2>4
  <2>6. QED
    BY <2>3, <2>4, <2>5
<1>6. /\ stream_buf' \in Seq(Alphabet) /\ Len(stream_buf') = e + n - h
      /\ \A j \in 1 .. e + n - h : stream_buf'[j] = file[h + j]
  <2>1. PICK s \in Seq(Alphabet) : s = stream_buf
    BY <1>4
  <2>2. PICK u : u = s \o t
    OBVIOUS
  <2>3. /\ u \in Seq(Alphabet) /\ Len(u) = Len(s) + Len(t)
        /\ \A i \in 1 .. Len(s) : u[i] = s[i]
        /\ \A i \in 1 .. Len(t) : u[Len(s) + i] = t[i]
    BY <2>2, Behind
  <2>4. PICK k \in Nat : k = e - h /\ k = Len(s)
    BY <1>3, <1>4, <2>1
  <2>5. ASSUME NEW j \in 1 .. e + n - h PROVE u[j] = file[h + j]
    <3>1. CASE j <= k
      <4>1. j \in 1 .. k
        BY <1>3, <3>1
      <4>2. QED
        BY <1>4, <2>1, <2>3, <2>4, <4>1
    <3>2. CASE j > k
      <4>1. j - k \in 1 .. n /\ k + (j - k) = j /\ e + (j - k) = h + j
        BY <1>3, <2>4, <3>2
      <4>2. u[k + (j - k)] = t[j - k] /\ t[j - k] = file[e + (j - k)]
        BY <1>5, <2>3, <2>4, <4>1
      <4>3. QED
        BY <4>1, <4>2
    <3>3. QED
      BY <2>4, <3>1, <3>2
  <2>6. Len(u) = e + n - h
    <3>1. Len(u) = k + n
      BY <1>5, <2>3, <2>4
    <3>2. k + n = e + n - h
      BY <1>3, <2>4
    <3>3. QED
      BY <3>1, <3>2
  <2>7. stream_buf' = u
    BY <1>3, <1>5, <2>1, <2>2
  <2>8. QED
    BY <2>3, <2>5, <2>6, <2>7
<1>7. e + n \in Nat /\ e + n - h \in Nat
  BY <1>3
<1>8. ReaderShape'
  <2>1. parsed' \in Nat /\ parsed' <= Len(stream_buf')
    BY <1>1, <1>6, <1>7
  <2>2. off' \in Nat /\ at' \in Phases
    BY <1>1, <1>3, <1>7 DEF Phases
  <2>3. QED
    BY <1>1, <1>2, <1>6, <2>1, <2>2 DEF ReaderShape
<1>9. Base' = Base /\ (Given' <=> Given)
  BY <1>1, GivenStays
<1>10. Window'
  <2>1. /\ Rest' \in Seq(Alphabet) /\ Len(Rest') = e + n - h
        /\ \A j \in 1 .. e + n - h : Rest'[j] = file[h + j]
    <3>1. PICK s \in Seq(Alphabet), b \in Nat : s = stream_buf' /\ b = Len(s) /\ b = e + n - h
      BY <1>6, <1>7
    <3>2. Rest' = SubSeq(s, 0 + 1, Len(s))
      BY <1>1, <3>1 DEF Rest
    <3>3. Rest' = s
      BY <3>2, SubSeqFull
    <3>4. QED
      BY <1>6, <3>1, <3>3
  <2>2. h \in Nat /\ e + n \in Nat /\ h <= e + n /\ e + n <= Len(file)
    BY <1>3
  <2>3. Shown(file, h, e + n, Rest')
    BY <2>1, <2>2 DEF Shown
  <2>4. QED
    BY <1>1, <1>3, <1>9, <2>2, <2>3 DEF Window
<1>11. Ahead'
  BY <1>1 DEF Ahead
<1>12. QED
  BY <1>1, <1>2, <1>8, <1>9, <1>10, <1>11 DEF ReaderInv, Reading

(* The end of the reader, or of the function. *)
LEMMA EndSteps == ReaderInv /\ (ReadFails \/ ReadEnds \/ RecoverTail) => ReaderInv'
<1> SUFFICES ASSUME ReaderInv, ReadFails \/ ReadEnds \/ RecoverTail PROVE ReaderInv'
  OBVIOUS
<1>1. /\ at \in {"read", "tail"} /\ at' \in {"tail", "done", "failed"}
      /\ UNCHANGED <<file, frames, first, off, stream_buf, parsed, array, executed, last_good>>
  BY DEF ReadFails, ReadEnds, RecoverTail, fileVars, callVars, readerVars
<1>2. /\ ReaderShape /\ Layout(file, frames) /\ Window /\ Given /\ Ahead
      /\ AllComplete(frames)
  BY <1>1, AtWork
<1>3. Base' = Base /\ Due' = Due /\ (Given' <=> Given)
      /\ \A k : End(k)' = End(k) /\ (Intact(k)' <=> Intact(k))
  BY <1>1, GivenStays
<1>4. ReaderShape'
  BY <1>1, <1>2 DEF ReaderShape, Phases
<1>5. Window'
  <2>1. Rest' = Rest
    BY <1>1 DEF Rest
  <2>2. Shown(file, Base, off, Rest) /\ off <= Len(file)
    BY <1>2 DEF Window
  <2>3. QED
    BY <1>1, <1>3, <2>1, <2>2 DEF Window
<1>6. Ahead'
  <2>1. Intact(Len(executed) + 1)' <=> Intact(Len(executed) + 1)
    BY <1>1 DEF Intact
  <2>2. End(Due)' = End(Due)
    BY <1>1, <1>3 DEF End
  <2>3. QED
    BY <1>1, <1>2, <2>1, <2>2 DEF Ahead
<1>7. QED
  BY <1>1, <1>2, <1>3, <1>4, <1>5, <1>6 DEF ReaderInv, Reading

(* The first line of a frame is taken. *)
LEMMA HeaderStep == ReaderInv /\ ParseHeader => ReaderInv'
<1> SUFFICES ASSUME ReaderInv, ParseHeader PROVE ReaderInv'
  OBVIOUS
<1>1. PICK line : line = Line(Rest, 1, "*")
  OBVIOUS
<1>2. /\ at = "parse" /\ line.ok /\ at' \in {"failed", "bulk"}
      /\ array' = [number |-> line.number, pos |-> line.pos, parts |-> <<>>]
      /\ UNCHANGED <<file, frames, first, off, stream_buf, parsed, executed, last_good>>
  BY <1>1 DEF ParseHeader, fileVars, callVars
<1>3. ReaderShape /\ Layout(file, frames) /\ Window /\ Given /\ AllComplete(frames)
  BY <1>2, AtWork
<1>4. PICK h \in Nat, e \in Nat, m \in Nat : h = Base /\ e = off /\ m = Len(executed)
  BY <1>3, OfTheFile, LenProperties DEF ReaderShape
<1>5. Shown(file, h, e, Rest) /\ e <= Len(file)
  BY <1>3, <1>4 DEF Window
<1>6. Rest \in Seq(Alphabet) /\ Len(Rest) = e - h
  BY <1>5 DEF Shown
<1>7. line.number \in Int /\ line.pos \in Nat \ {0} /\ line.pos - 1 <= e - h /\ e - h >= 1
  <2>1. line.number \in Int /\ line.pos \in 1 + 1 .. Len(Rest) + 1
    <3>1. 1 \in Nat \ {0} /\ Line(Rest, 1, "*").ok
      BY <1>1, <1>2
    <3>2. QED
      BY <1>1, <1>6, <3>1, LineRange
  <2>2. e - h \in Int
    BY <1>4
  <2>3. QED
    BY <1>6, <2>1, <2>2
<1>8. /\ array'.number = line.number /\ array'.pos = line.pos /\ array'.parts = <<>>
      /\ Len(array'.parts) = 0 /\ array' \in Arrays
  <2>1. <<>> \in Seq(Seq(Alphabet)) /\ Len(<<>>) = 0
    BY EmptySeq
  <2>2. QED
    BY <1>2, <1>7, <2>1 DEF Arrays
<1>9. ReaderShape'
  BY <1>2, <1>3, <1>8 DEF ReaderShape, Phases
<1>10. Base' = Base /\ Due' = Due /\ (Given' <=> Given) /\ (AllWhole' <=> AllWhole)
  BY <1>2, GivenStays
<1>11. Window'
  <2>1. Rest' = Rest
    BY <1>2 DEF Rest
  <2>2. QED
    BY <1>2, <1>4, <1>5, <1>7, <1>8, <1>10, <2>1 DEF Window
<1>12. AllWhole => Intact(m + 1)
  <2> SUFFICES ASSUME AllWhole PROVE Intact(m + 1)
    BY SMTT(30)
  <2>1. PICK n \in Nat, a \in Nat : n = Len(frames) /\ a = first
    BY <1>3, OfTheFile
  <2>2. Intact(m) /\ h = End(a + m)
    BY <1>3, <1>4, <2>1 DEF Given
  <2>3. a + m <= n
    BY <2>1, <2>2 DEF Intact
  <2>4. a + m # n
    <3> SUFFICES ASSUME a + m = n PROVE FALSE
      OBVIOUS
    <3>1. End(n) = Len(file)
      BY <2>1 DEF End
    <3>2. Len(file) <= h
      BY <2>2, <3>1
    <3>3. QED
      BY <1>4, <1>5, <1>7, <3>1, <2>2
  <2>5. a + (m + 1) <= n
    BY <2>3, <2>4
  <2>6. \A i \in 1 .. m + 1 : frames[a + i].whole
    <3>1. \A i \in 1 .. m + 1 : a + i \in 1 .. n
      BY <2>5
    <3>2. \A i \in 1 .. n : frames[i].whole
      BY <1>3, <2>1, OfTheFile DEF AllWhole
    <3>3. QED
      BY <3>1, <3>2
  <2>7. QED
    BY <2>1, <2>5, <2>6 DEF Intact
<1>13. Intact(m + 1) => Taken(frames[Due])'
  <2> SUFFICES ASSUME Intact(m + 1) PROVE Taken(frames[Due])'
    OBVIOUS
  <2>1. PICK k \in 1 .. Len(frames) : /\ k = Due /\ frames[k].whole /\ Complete(frames[k])
                                     /\ h = frames[k].from
    BY <1>2, <1>3, <1>4, DueFacts
  <2>2. line.number = Len(frames[k].cmd) /\ h + line.pos - 1 = frames[k].cuts[1]
    <3>1. PICK rest, base : rest = Rest /\ base = h
      OBVIOUS
    <3>2. Begins(file, frames, k, base, e, rest, line)
      BY <1>1, <1>3, <1>5, <2>1, <3>1 DEF Begins, Meets
    <3>3. /\ line.ok => /\ line.number = Len(frames[k].cmd)
                        /\ base + line.pos - 1 = frames[k].cuts[1]
      BY <3>2, HeaderOf
    <3>4. QED
      BY <1>2, <3>1, <3>3
  <2>3. Len(frames[k].cmd) \in Nat
    <3>1. frames[k].cmd \in Commands
      BY <1>3, <2>1, FrameFacts
    <3>2. QED
      BY <3>1, CommandText, LenProperties
  <2>4. frames'[Due'] = frames[k]
    BY <1>2, <1>10, <2>1
  <2>5. 0 <= Len(frames[k].cmd) /\ 0 + 1 = 1 /\ \A i \in 1 .. 0 : FALSE
    BY <2>3
  <2>6. /\ array'.number = Len(frames[k].cmd) /\ Len(array'.parts) <= Len(frames[k].cmd)
        /\ \A i \in 1 .. Len(array'.parts) : array'.parts[i] = frames[k].cmd[i]
        /\ Base' + array'.pos - 1 = frames[k].cuts[Len(array'.parts) + 1]
    BY <1>4, <1>8, <1>10, <2>2, <2>5
  <2>7. QED
    BY <2>4, <2>6 DEF Taken
<1>14. Ahead'
  <2>1. (Intact(Len(executed) + 1))' <=> Intact(m + 1)
    BY <1>2, <1>4 DEF Intact
  <2>2. QED
    BY <1>2, <1>10, <1>12, <1>13, <2>1 DEF Ahead
<1>15. QED
  BY <1>2, <1>3, <1>9, <1>10, <1>11, <1>14 DEF ReaderInv, Reading

(* A part of it is taken. *)
LEMMA PartStep == ReaderInv /\ ParseBulk => ReaderInv'
<1> SUFFICES ASSUME ReaderInv, ParseBulk PROVE ReaderInv'
  OBVIOUS
<1>1. PICK bulk : bulk = Bulk(Rest, array.pos)
  OBVIOUS
<1>2. /\ at = "bulk" /\ bulk.ok /\ at' = "bulk" /\ Len(array.parts) < array.number
      /\ array' = [array EXCEPT !.pos = bulk.pos, !.parts = Append(array.parts, bulk.data)]
      /\ UNCHANGED <<file, frames, first, off, stream_buf, parsed, executed, last_good>>
  BY <1>1 DEF ParseBulk, fileVars, callVars
<1>3. /\ ReaderShape /\ Layout(file, frames) /\ Window /\ Given /\ Ahead
      /\ AllComplete(frames)
  BY <1>2, AtWork
<1>4. PICK h \in Nat, e \in Nat, m \in Nat : h = Base /\ e = off /\ m = Len(executed)
  BY <1>3, OfTheFile, LenProperties DEF ReaderShape
<1>5. Shown(file, h, e, Rest) /\ e <= Len(file)
  BY <1>3, <1>4 DEF Window
<1>6. Rest \in Seq(Alphabet) /\ Len(Rest) = e - h
  BY <1>5 DEF Shown
<1>7. array.number \in Int /\ array.pos \in Nat \ {0} /\ array.parts \in Seq(Seq(Alphabet))
  BY <1>3 DEF ReaderShape, Arrays
<1>8. bulk.pos \in Nat \ {0} /\ bulk.pos - 1 <= e - h /\ bulk.data \in Seq(Alphabet)
  <2>1. bulk.pos \in array.pos + 1 .. Len(Rest) + 1 /\ bulk.data \in Seq(Alphabet)
    BY <1>1, <1>2, <1>6, <1>7, BulkRange
  <2>2. e - h \in Int
    BY <1>4
  <2>3. QED
    BY <1>6, <1>7, <2>1, <2>2
<1>9. PICK p \in Seq(Seq(Alphabet)), n \in Nat, q \in Seq(Seq(Alphabet)) :
        /\ p = array.parts /\ n = Len(p) /\ q = Append(p, bulk.data) /\ Len(q) = n + 1
        /\ q[n + 1] = bulk.data /\ \A i \in 1 .. n : q[i] = p[i]
  <2>1. PICK p \in Seq(Seq(Alphabet)) : p = array.parts
    BY <1>7
  <2>2. PICK n \in Nat : n = Len(p)
    BY LenProperties
  <2>3. PICK q : q = Append(p, bulk.data)
    OBVIOUS
  <2>4. /\ q \in Seq(Seq(Alphabet)) /\ Len(q) = n + 1
        /\ q[n + 1] = bulk.data /\ \A i \in 1 .. n : q[i] = p[i]
    BY <1>8, <2>2, <2>3, AppendProperties
  <2>5. QED
    BY <2>1, <2>2, <2>3, <2>4, Zenon
<1>10. /\ array'.number = array.number /\ array'.pos = bulk.pos /\ array'.parts = q
       /\ array' \in Arrays
  <2>1. array' = [array EXCEPT !.pos = bulk.pos, !.parts = q]
    BY <1>2, <1>9
  <2>2. array \in Arrays
    BY <1>3 DEF ReaderShape
  <2>3. QED
    BY <1>8, <2>1, <2>2 DEF Arrays
<1>11. ReaderShape'
  BY <1>2, <1>3, <1>10 DEF ReaderShape, Phases
<1>12. Base' = Base /\ Due' = Due /\ (Given' <=> Given) /\ (AllWhole' <=> AllWhole)
  BY <1>2, GivenStays
<1>13. Window'
  <2>1. Rest' = Rest
    BY <1>2 DEF Rest
  <2>2. QED
    BY <1>2, <1>4, <1>5, <1>8, <1>10, <1>12, <2>1 DEF Window
<1>14. Intact(m + 1) => Taken(frames[Due])'
  <2> SUFFICES ASSUME Intact(m + 1) PROVE Taken(frames[Due])'
    OBVIOUS
  <2>1. PICK k \in 1 .. Len(frames) : /\ k = Due /\ frames[k].whole /\ Complete(frames[k])
    BY <1>2, <1>3, <1>4, DueFacts
  <2>2. PICK c : c = frames[k].cmd /\ c \in Commands /\ Len(c) \in Nat
    <3>1. frames[k].cmd \in Commands
      BY <1>3, <2>1, FrameFacts
    <3>2. QED
      BY <3>1, CommandText, LenProperties
  <2>3. Taken(frames[k])
    BY <1>2, <1>3, <1>4, <2>1 DEF Ahead
  <2>4. /\ array.number = Len(c) /\ n <= Len(c)
        /\ \A i \in 1 .. n : p[i] = c[i]
        /\ h + array.pos - 1 = frames[k].cuts[n + 1]
    BY <1>4, <1>9, <2>2, <2>3 DEF Taken
  <2>5. n + 1 \in 1 .. Len(c) /\ n + 1 <= Len(c)
    <3>1. n < Len(c)
      BY <1>2, <1>9, <2>4
    <3>2. QED
      BY <2>2, <3>1
  <2>6. bulk.data = c[n + 1] /\ h + bulk.pos - 1 = frames[k].cuts[n + 1 + 1]
    <3>1. PICK rest : rest = Rest
      OBVIOUS
    <3>0. PICK pos \in Nat \ {0}, i \in 1 .. Len(frames[k].cmd) :
            pos = array.pos /\ i = n + 1
      BY <1>7, <2>2, <2>5
    <3>2. Meets(file, frames, k, h, e, rest) /\ bulk = Bulk(rest, pos)
          /\ h + pos - 1 = frames[k].cuts[i]
      BY <1>1, <1>3, <1>5, <2>1, <2>4, <3>0, <3>1 DEF Meets
    <3>3. Bulk(rest, pos).ok =>
            /\ Bulk(rest, pos).data = frames[k].cmd[i]
            /\ h + Bulk(rest, pos).pos - 1 = frames[k].cuts[i + 1]
      BY <3>2, PartOf, SMTT(30)
    <3>4. QED
      BY <1>2, <2>2, <3>0, <3>2, <3>3
  <2>7. \A i \in 1 .. n + 1 : q[i] = c[i]
    <3>1. \A i \in 1 .. n + 1 : i \in 1 .. n \/ i = n + 1
      OBVIOUS
    <3>2. QED
      BY <1>9, <2>4, <2>6, <3>1
  <2>8. frames'[Due'] = frames[k]
    BY <1>2, <1>12, <2>1
  <2>9. /\ array'.number = Len(frames[k].cmd) /\ Len(array'.parts) <= Len(frames[k].cmd)
        /\ \A i \in 1 .. Len(array'.parts) : array'.parts[i] = frames[k].cmd[i]
        /\ Base' + array'.pos - 1 = frames[k].cuts[Len(array'.parts) + 1]
    BY <1>4, <1>9, <1>10, <1>12, <2>2, <2>4, <2>5, <2>6, <2>7
  <2>10. QED
    BY <2>8, <2>9 DEF Taken
<1>15. Ahead'
  <2>1. (Intact(Len(executed) + 1))' <=> Intact(m + 1)
    BY <1>2, <1>4 DEF Intact
  <2>2. AllWhole => Intact(m + 1)
    BY <1>2, <1>3, <1>4 DEF Ahead
  <2>3. QED
    BY <1>2, <1>12, <1>14, <2>1, <2>2 DEF Ahead
<1>16. QED
  BY <1>2, <1>3, <1>11, <1>12, <1>13, <1>15 DEF ReaderInv, Reading

(* A command is executed. *)
LEMMA ExecuteStep == ReaderInv /\ Execute => ReaderInv'
<1> SUFFICES ASSUME ReaderInv, Execute PROVE ReaderInv'
  OBVIOUS
<1>1. /\ at = "bulk" /\ at' = "parse" /\ Len(array.parts) >= array.number
      /\ executed' = Append(executed, array.parts)
      /\ parsed' = parsed + array.pos - 1 /\ last_good' = last_good + array.pos - 1
      /\ array' = NoArray
      /\ UNCHANGED <<file, frames, first, off, stream_buf>>
  BY DEF Execute, fileVars, callVars
<1>2. /\ ReaderShape /\ Layout(file, frames) /\ Window /\ Given /\ Ahead
      /\ AllComplete(frames)
  BY <1>1, AtWork
<1>3. PICK h \in Nat, e \in Nat, m \in Nat, b \in Nat, g \in Nat :
        h = Base /\ e = off /\ m = Len(executed) /\ b = Len(stream_buf) /\ g = last_good
  BY <1>2, OfTheFile, LenProperties DEF ReaderShape
<1>4. PICK p \in Nat, q \in Nat, a \in Nat, z \in Nat :
        p = parsed /\ p <= b /\ q + 1 = array.pos /\ a = first /\ z = End(first)
  <2>1. array.pos \in Nat \ {0}
    BY <1>2 DEF ReaderShape, Arrays
  <2>2. array.pos - 1 \in Nat /\ array.pos - 1 + 1 = array.pos
    BY <2>1
  <2>3. parsed \in Nat /\ parsed <= b /\ first \in Nat /\ End(first) \in Nat
    BY <1>2, <1>3, OfTheFile DEF ReaderShape
  <2>4. QED
    BY <2>2, <2>3
<1>5. Shown(file, h, e, Rest) /\ e <= Len(file) /\ q <= e - h /\ h <= e
  BY <1>1, <1>2, <1>3, <1>4, SMTT(30) DEF Window, Shown
<1>6. /\ stream_buf \in Seq(Alphabet) /\ b - p = e - h
      /\ \A j \in 1 .. e - h : stream_buf[p + j] = file[h + j]
  <2>1. Len(Rest) = b - p /\ \A j \in 1 .. b - p : Rest[j] = stream_buf[p + j]
    BY <1>2, <1>3, <1>4, RestFacts
  <2>2. Len(Rest) = e - h /\ \A j \in 1 .. e - h : Rest[j] = file[h + j]
    BY <1>5 DEF Shown
  <2>3. QED
    BY <1>2, <2>1, <2>2 DEF ReaderShape
<1>7. h = z + g
  BY <1>3, <1>4 DEF Base
<1>8. parsed' = p + q /\ last_good' = g + q
  <2>1. parsed' = p + (q + 1) - 1 /\ last_good' = g + (q + 1) - 1
    BY <1>1, <1>3, <1>4
  <2>2. p + (q + 1) - 1 = p + q /\ g + (q + 1) - 1 = g + q
    OBVIOUS
  <2>3. QED
    BY <2>1, <2>2
<1>9. PICK x \in Seq(Seq(Seq(Alphabet))), y \in Seq(Seq(Alphabet)) :
        x = executed /\ y = array.parts
  BY <1>2 DEF ReaderShape, Arrays
<1>10. /\ executed' \in Seq(Seq(Seq(Alphabet))) /\ Len(executed') = m + 1
       /\ executed'[m + 1] = y /\ \A i \in 1 .. m : executed'[i] = executed[i]
  BY <1>1, <1>3, <1>9, AppendProperties
<1>11. p + q \in Nat /\ p + q <= b /\ g + q \in Nat /\ h + q \in Nat /\ h + q <= e
       /\ b - (p + q) = e - (h + q)
  BY <1>5, <1>6
<1>12. ReaderShape'
  <2>1. parsed' \in Nat /\ parsed' <= Len(stream_buf') /\ last_good' \in Nat
    BY <1>1, <1>3, <1>8, <1>11
  <2>2. QED
    BY <1>1, <1>2, <1>10, <2>1, Empties DEF ReaderShape, Phases
<1>13. Base' = h + q
  <2>1. End(first)' = z
    BY <1>1, <1>4 DEF End
  <2>2. z + (g + q) = h + q
    BY <1>7
  <2>3. QED
    BY <1>8, <2>1, <2>2 DEF Base
<1>14. Window'
  <2>1. /\ Rest' \in Seq(Alphabet) /\ Len(Rest') = b - (p + q)
        /\ \A j \in 1 .. b - (p + q) : Rest'[j] = stream_buf[p + q + j]
    <3>1. p + q + 1 \in Nat \ {0} /\ b \in Int /\ p + q + 1 <= b + 1 /\ b <= Len(stream_buf)
          /\ b + 1 - (p + q + 1) = b - (p + q)
          /\ \A j \in 1 .. b - (p + q) : p + q + 1 + j - 1 = p + q + j
      BY <1>3, <1>11
    <3>2. PICK t : t = SubSeq(stream_buf, p + q + 1, b) /\ t = Rest'
      BY <1>1, <1>3, <1>8 DEF Rest
    <3>3. /\ t \in Seq(Alphabet) /\ Len(t) = b + 1 - (p + q + 1)
          /\ \A j \in 1 .. b + 1 - (p + q + 1) : t[j] = stream_buf[p + q + 1 + j - 1]
      BY <1>6, <3>1, <3>2, Piece
    <3>4. QED
      BY <3>1, <3>2, <3>3
  <2>2. \A j \in 1 .. e - (h + q) : Rest'[j] = file[h + q + j]
    <3> SUFFICES ASSUME NEW j \in 1 .. e - (h + q) PROVE Rest'[j] = file[h + q + j]
      OBVIOUS
    <3>1. q + j \in 1 .. e - h /\ p + q + j = p + (q + j) /\ h + q + j = h + (q + j)
      BY <1>5
    <3>2. Rest'[j] = stream_buf[p + q + j]
      BY <1>11, <2>1
    <3>3. QED
      BY <1>6, <3>1, <3>2
  <2>3. Shown(file, h + q, e, Rest')
    BY <1>11, <2>1, <2>2 DEF Shown
  <2>4. QED
    BY <1>1, <1>3, <1>5, <1>13, <2>3 DEF Window
<1>15. ASSUME Intact(m + 1)
       PROVE  y = frames[Due].cmd /\ h + q = End(Due) /\ Due = a + (m + 1)
  <2>1. PICK k \in 1 .. Len(frames) : /\ k = Due /\ frames[k].whole /\ Complete(frames[k])
    BY <1>1, <1>2, <1>3, <1>15, DueFacts
  <2>2. PICK c \in Seq(Seq(Alphabet)) : c = frames[k].cmd /\ Len(c) \in Nat
    <3>1. frames[k].cmd \in Commands
      BY <1>2, <2>1, FrameFacts
    <3>2. QED
      BY <3>1, CommandText, LenProperties
  <2>3. Taken(frames[k])
    BY <1>1, <1>2, <1>3, <1>15, <2>1 DEF Ahead
  <2>4. PICK n \in Nat : n = Len(y)
    BY LenProperties
  <2>5. /\ array.number = Len(c) /\ n <= Len(c)
        /\ \A i \in 1 .. n : y[i] = c[i]
        /\ h + (q + 1) - 1 = frames[k].cuts[n + 1]
    BY <1>3, <1>4, <1>9, <2>2, <2>3, <2>4 DEF Taken
  <2>6. n = Len(c)
    BY <1>1, <1>9, <2>2, <2>4, <2>5
  <2>7. y = c
    BY <2>4, <2>5, <2>6, SeqEqual
  <2>8. h + (q + 1) - 1 = h + q
    OBVIOUS
  <2>9. frames[k].cuts[Len(frames[k].cmd) + 1] = EndOf(file, frames, k)
    BY <1>2, <2>1, FrameFacts
  <2>10. h + q = End(k)
    BY <1>2, <2>2, <2>5, <2>6, <2>8, <2>9, OfTheFile
  <2>11. Due = a + (m + 1)
    BY <1>3, <1>4 DEF Due
  <2>12. QED
    BY <2>1, <2>2, <2>7, <2>10, <2>11
<1>16. \A i : Intact(i)' <=> Intact(i)
  BY <1>1 DEF Intact
<1>17. Given'
  <2>1. ASSUME NEW i \in 1 .. m + 1, Intact(i)' PROVE executed'[i] = frames'[first' + i].cmd
    <3>1. Intact(i)
      BY <1>16, <2>1
    <3>2. CASE i \in 1 .. m
      BY <1>1, <1>2, <1>3, <1>10, <3>1, <3>2 DEF Given
    <3>3. CASE i = m + 1
      <4>1. y = frames[a + (m + 1)].cmd
        BY <1>15, <3>1, <3>3
      <4>2. QED
        BY <1>1, <1>4, <1>10, <3>3, <4>1
    <3>4. QED
      BY <3>2, <3>3
  <2>2. ASSUME Intact(m + 1)' PROVE Base' = End(first + Len(executed))'
    <3>1. Intact(m + 1)
      BY <1>16, <2>2
    <3>2. h + q = End(a + (m + 1))
      BY <1>15, <3>1
    <3>3. End(first + Len(executed))' = End(a + (m + 1))
      BY <1>1, <1>4, <1>10 DEF End
    <3>4. QED
      BY <1>13, <3>2, <3>3
  <2>3. ASSUME AllWhole' PROVE Intact(m + 1)'
    <3>1. AllWhole
      BY <1>1, <2>3 DEF AllWhole
    <3>2. Intact(m + 1)
      BY <1>1, <1>2, <1>3, <3>1 DEF Ahead
    <3>3. QED
      BY <1>16, <3>2
  <2>4. Intact(Len(executed))' <=> Intact(m + 1)'
    BY <1>1, <1>10 DEF Intact
  <2>5. QED
    BY <1>10, <2>1, <2>2, <2>3, <2>4 DEF Given
<1>18. Ahead'
  BY <1>1 DEF Ahead
<1>19. QED
  BY <1>1, <1>2, <1>12, <1>14, <1>17, <1>18 DEF ReaderInv, Reading

(* Nothing more can be taken: the rest waits for the next read. *)
LEMMA KeepStep == ReaderInv /\ KeepRest => ReaderInv'
<1> SUFFICES ASSUME ReaderInv, KeepRest PROVE ReaderInv'
  OBVIOUS
<1>1. /\ Stuck /\ at \in {"parse", "bulk"} /\ at' = "read"
      /\ stream_buf' = Rest /\ parsed' = 0 /\ array' = NoArray
      /\ UNCHANGED <<file, frames, first, off, executed, last_good>>
  BY DEF KeepRest, Stuck, fileVars, callVars
<1>2. /\ ReaderShape /\ Layout(file, frames) /\ Window /\ Given /\ Ahead
      /\ AllComplete(frames)
  BY <1>1, AtWork
<1>3. PICK h \in Nat, e \in Nat, m \in Nat : h = Base /\ e = off /\ m = Len(executed)
  BY <1>2, OfTheFile, LenProperties DEF ReaderShape
<1>4. Shown(file, h, e, Rest) /\ e <= Len(file)
  BY <1>2, <1>3 DEF Window
<1>5. PICK s \in Seq(Alphabet) : s = Rest /\ Len(s) \in Nat
  BY <1>4, LenProperties DEF Shown
<1>6. ReaderShape'
  <2>1. parsed' \in Nat /\ parsed' <= Len(stream_buf')
    BY <1>1, <1>5
  <2>2. QED
    BY <1>1, <1>2, <1>5, <2>1, Empties DEF ReaderShape, Phases
<1>7. Base' = Base /\ Due' = Due /\ (Given' <=> Given)
  BY <1>1, GivenStays
<1>8. Window'
  <2>1. Rest' = s
    <3>1. Rest' = SubSeq(s, 0 + 1, Len(s))
      BY <1>1, <1>5 DEF Rest
    <3>2. QED
      BY <3>1, SubSeqFull
  <2>2. QED
    BY <1>1, <1>3, <1>4, <1>5, <1>7, <2>1 DEF Window
<1>9. ASSUME Intact(m + 1) PROVE End(Due) > e
  <2>1. PICK k \in 1 .. Len(frames) : /\ k = Due /\ frames[k].whole /\ Complete(frames[k])
                                     /\ h = frames[k].from
    BY <1>1, <1>2, <1>3, <1>9, DueFacts
  <2>2. PICK rest : rest = Rest
    OBVIOUS
  <2>3. Meets(file, frames, k, h, e, rest)
    BY <1>2, <1>4, <2>1, <2>2 DEF Meets
  <2>4. CASE at = "parse"
    <3>1. PICK line : line = Line(rest, 1, "*") /\ ~line.ok
      BY <1>1, <2>2, <2>4 DEF Stuck
    <3>2. Begins(file, frames, k, h, e, rest, line)
      BY <2>1, <2>3, <3>1 DEF Begins
    <3>3. EndOf(file, frames, k) > e
      BY <3>1, <3>2, HeaderOf
    <3>4. QED
      BY <1>2, <2>1, <3>3, OfTheFile
  <2>5. CASE at = "bulk"
    <3>1. PICK c : c = frames[k].cmd /\ c \in Commands /\ Len(c) \in Nat
      <4>1. frames[k].cmd \in Commands
        BY <1>2, <2>1, FrameFacts
      <4>2. QED
        BY <4>1, CommandText, LenProperties
    <3>2. Len(array.parts) < array.number /\ ~Bulk(rest, array.pos).ok
      BY <1>1, <2>2, <2>5 DEF Stuck
    <3>3. Taken(frames[k])
      BY <1>2, <1>3, <1>9, <2>1, <2>5 DEF Ahead
    <3>4. PICK n \in Nat : n = Len(array.parts)
      BY <1>2, LenProperties DEF ReaderShape, Arrays
    <3>5. n < Len(c) /\ h + array.pos - 1 = frames[k].cuts[n + 1]
      BY <1>3, <3>1, <3>2, <3>3, <3>4 DEF Taken
    <3>6. PICK i \in 1 .. Len(frames[k].cmd) : i = n + 1
      BY <3>1, <3>5
    <3>7. PICK pos \in Nat \ {0} : pos = array.pos
      BY <1>2 DEF ReaderShape, Arrays
    <3>8. h + pos - 1 = frames[k].cuts[i] /\ ~Bulk(rest, pos).ok
      BY <3>2, <3>5, <3>6, <3>7
    <3>9. EndOf(file, frames, k) > e
      BY <2>3, <3>8, PartOf
    <3>10. QED
      BY <1>2, <2>1, <3>9, OfTheFile
  <2>6. QED
    BY <1>1, <2>4, <2>5
<1>10. Ahead'
  <2>1. (Intact(Len(executed) + 1))' <=> Intact(m + 1)
    BY <1>1, <1>3 DEF Intact
  <2>2. End(Due)' = End(Due)
    BY <1>1, <1>7 DEF End
  <2>3. QED
    BY <1>1, <1>3, <1>9, <2>1, <2>2 DEF Ahead
<1>11. QED
  BY <1>1, <1>2, <1>6, <1>7, <1>8, <1>10 DEF ReaderInv, Reading

(* A step that changes nothing the invariant is about. *)
LEMMA NothingRead == ReaderInv /\ UNCHANGED allVars => ReaderInv'
<1> SUFFICES ASSUME ReaderInv, UNCHANGED allVars PROVE ReaderInv'
  OBVIOUS
<1>1. UNCHANGED <<file, frames, first, at, off, stream_buf, parsed, array, executed, last_good>>
  BY DEF allVars, fileVars, callVars, readerVars
<1>2. ReaderShape' <=> ReaderShape
  BY <1>1 DEF ReaderShape
<1>3. Base' = Base /\ Due' = Due /\ (Given' <=> Given) /\ (AllWhole' <=> AllWhole)
  BY <1>1, GivenStays
<1>4. Rest' = Rest
  BY <1>1 DEF Rest
<1>5. Window' <=> Window
  BY <1>1, <1>3, <1>4 DEF Window
<1>6. Ahead' <=> Ahead
  <2>1. (Intact(Len(executed) + 1))' <=> Intact(Len(executed) + 1)
    BY <1>1 DEF Intact
  <2>2. End(Due)' = End(Due) /\ Taken(frames[Due])' = Taken(frames[Due])
    BY <1>1, <1>3 DEF End, Taken
  <2>3. QED
    BY <1>1, <1>3, <2>1, <2>2 DEF Ahead
<1>7. Fresh' <=> Fresh
  BY <1>1 DEF Fresh
<1>8. QED
  BY <1>1, <1>2, <1>3, <1>5, <1>6, <1>7 DEF ReaderInv, Reading

(* The invariant holds in every reachable state. *)
LEMMA ReaderInvariance == Spec => []ReaderInv
<1>1. ReaderInv /\ [Next]_allVars => ReaderInv'
  <2> SUFFICES ASSUME ReaderInv, [Next]_allVars PROVE ReaderInv'
    OBVIOUS
  <2>1. CASE (\E c \in Commands : StartFrame(c)) \/ AddPart \/ Tear
    BY <2>1, WriteSteps
  <2>2. CASE Call \/ Open
    BY <2>2, OpenSteps
  <2>3. CASE Read
    BY <2>3, ReadStep
  <2>4. CASE ReadFails \/ ReadEnds \/ RecoverTail
    BY <2>4, EndSteps
  <2>5. CASE ParseHeader
    BY <2>5, HeaderStep
  <2>6. CASE ParseBulk
    BY <2>6, PartStep
  <2>7. CASE Execute
    BY <2>7, ExecuteStep
  <2>8. CASE KeepRest
    BY <2>8, KeepStep
  <2>9. CASE UNCHANGED allVars
    BY <2>9, NothingRead
  <2>10. Returned => UNCHANGED allVars
    BY DEF Returned
  <2>11. QED
    BY <2>1, <2>2, <2>3, <2>4, <2>5, <2>6, <2>7, <2>8, <2>9, <2>10 DEF Next
<1>2. QED
  BY <1>1, ReaderStarts, PTL DEF Spec

-----------------------------------------------------------------------------
(* recoverFromAOF and readCommandsFromOffset hand each appended command to *)
(* the callback, in order and unchanged, whatever it is made of and        *)
(* wherever the reads cut the file, up to the first torn frame.            *)
THEOREM InOrder == Spec => []ExecutesInOrder
<1>1. ReaderInv => ExecutesInOrder
  <2> SUFFICES ASSUME ReaderInv PROVE ExecutesInOrder
    OBVIOUS
  <2>1. executed \in Seq(Seq(Seq(Alphabet))) /\ DOMAIN executed = 1 .. Len(executed)
        /\ ReaderShape /\ Layout(file, frames)
    BY LenProperties DEF ReaderInv, ReaderShape
  <2>2. CASE Fresh
    <3>1. executed = <<>> /\ Len(executed) = 0
      BY <2>2, EmptySeq DEF Fresh
    <3>2. Intact(0)
      <4>1. first + 0 <= Len(frames) /\ \A i \in 1 .. 0 : FALSE
        BY <2>1, OfTheFile DEF ReaderShape
      <4>2. QED
        BY <4>1 DEF Intact
    <3>3. \A i \in DOMAIN executed : FALSE
      BY <2>1, <3>1
    <3>4. QED
      BY <3>1, <3>2, <3>3 DEF ExecutesInOrder
  <2>3. CASE Reading
    BY <2>1, <2>3 DEF Reading, Given, AllWhole, ExecutesInOrder
  <2>4. QED
    BY <2>2, <2>3 DEF ReaderInv
<1>2. QED
  BY <1>1, ReaderInvariance, PTL

(* stream_buf holds the bytes between the last frame executed and the file *)
(* offset, none lost between two reads and none twice, torn frames or not. *)
THEOREM Aligned == Spec => []StreamAligned
<1>1. ReaderInv => StreamAligned
  <2> SUFFICES ASSUME ReaderInv, at \notin {"write", "open"}
               PROVE  Rest = SubSeq(file, End(first) + last_good + 1, off)
    BY DEF StreamAligned
  <2>1. ReaderShape /\ Layout(file, frames)
    BY DEF ReaderInv
  <2>2. PICK z \in Nat, g \in Nat, e \in Nat, l \in Nat :
          z = End(first) /\ g = last_good /\ e = off /\ l = Len(file)
    BY <2>1, OfTheFile DEF ReaderShape
  <2>3. CASE Fresh
    <3>1. off = 0 /\ stream_buf = <<>> /\ parsed = 0
      BY <2>3 DEF Fresh
    <3>2. Rest = <<>>
      <4>1. Rest = SubSeq(<<>>, 0 + 1, Len(<<>>))
        BY <3>1 DEF Rest
      <4>2. QED
        BY <4>1, SubSeqEmpty, Empties
    <3>3. z + g + 1 \in Int /\ e \in Int /\ e < z + g + 1
      BY <2>2, <3>1
    <3>4. SubSeq(file, z + g + 1, e) = <<>>
      BY <3>3, SubSeqEmpty
    <3>5. QED
      BY <2>2, <3>2, <3>4
  <2>4. CASE Reading
    <3>1. Shown(file, z + g, e, Rest) /\ e <= l
      BY <2>2, <2>4 DEF Reading, Window, Base
    <3>2. /\ Rest \in Seq(Alphabet) /\ z + g <= e /\ Len(Rest) = e - (z + g)
          /\ \A j \in 1 .. e - (z + g) : Rest[j] = file[z + g + j]
      BY <3>1 DEF Shown
    <3>3. PICK t : t = SubSeq(file, z + g + 1, e)
      OBVIOUS
    <3>4. z + g + 1 \in Nat \ {0} /\ e \in Int /\ z + g + 1 <= e + 1 /\ e <= Len(file)
          /\ e + 1 - (z + g + 1) = e - (z + g)
          /\ \A j \in 1 .. e - (z + g) : z + g + 1 + j - 1 = z + g + j
      BY <2>2, <3>1, <3>2, SMTT(30)
    <3>5. file \in Seq(Alphabet)
      BY <2>1, EndFacts
    <3>6. /\ t \in Seq(Alphabet) /\ Len(t) = e + 1 - (z + g + 1)
          /\ \A j \in 1 .. e + 1 - (z + g + 1) : t[j] = file[z + g + 1 + j - 1]
      BY <3>3, <3>4, <3>5, Piece
    <3>7. /\ Len(t) = e - (z + g)
          /\ \A j \in 1 .. e - (z + g) : t[j] = file[z + g + j]
      BY <3>4, <3>6
    <3>8. PICK r \in Seq(Alphabet) : r = Rest
      BY <3>2
    <3>9. Len(r) = Len(t) /\ \A j \in 1 .. Len(r) : r[j] = t[j]
      BY <3>2, <3>7, <3>8
    <3>10. r = t
      BY <3>6, <3>9, SeqEqual
    <3>11. QED
      BY <2>2, <3>3, <3>8, <3>10
  <2>5. QED
    BY <2>3, <2>4 DEF ReaderInv
<1>2. QED
  BY <1>1, ReaderInvariance, PTL

(* When the reader returns, or recovery has met the end of the file, every *)
(* whole frame it has read was executed: only one that is not there to its *)
(* end, or that lies behind a torn one, may be left.                       *)
THEOREM ToTheEnd == Spec => []ReadsToTheEnd
<1>1. ReaderInv => ReadsToTheEnd
  <2> SUFFICES ASSUME ReaderInv, at \in {"tail", "done"},
                      NEW n \in 1 .. Len(frames) - first,
                      Intact(n), End(first + n) <= off
               PROVE  n <= Len(executed)
    BY DEF ReadsToTheEnd
  <2>1. ReaderShape /\ Layout(file, frames)
    BY DEF ReaderInv
  <2>2. PICK a \in Nat, l \in Nat, m \in Nat, e \in Nat :
          a = first /\ l = Len(frames) /\ m = Len(executed) /\ e = off
    BY <2>1, OfTheFile, LenProperties DEF ReaderShape
  <2>3. n \in Nat /\ n >= 1 /\ a + n <= l /\ a + n \in 0 .. l /\ 0 \in 0 .. a + n - 1
    BY <2>2
  <2>4. \A k \in Nat : End(k) = EndOf(file, frames, k) /\ EndOf(file, frames, k) \in Nat
    BY <2>1, OfTheFile, EndFacts
  <2>5. CASE Fresh
    <3>1. file = <<>> /\ Len(file) = 0
      BY <2>5, EmptySeq DEF Fresh
    <3>2. EndOf(file, frames, 0) < EndOf(file, frames, a + n)
          /\ EndOf(file, frames, a + n) <= 0
      BY <2>1, <2>2, <2>3, <3>1, EndFacts
    <3>3. EndOf(file, frames, 0) \in Nat
      BY <2>4
    <3>4. QED
      BY <2>3, <2>4, <3>2, <3>3
  <2>6. CASE Reading
    <3> SUFFICES ASSUME n > m PROVE FALSE
      BY <2>2, <2>3
    <3>1. Intact(m + 1)
      <4>1. \A i \in 1 .. n : frames[a + i].whole
        BY <2>2 DEF Intact
      <4>2. a + (m + 1) <= l /\ \A i \in 1 .. m + 1 : i \in 1 .. n
        BY <2>2, <2>3
      <4>3. QED
        BY <2>2, <4>1, <4>2 DEF Intact
    <3>2. End(a + (m + 1)) > e
      <4>1. Due = a + (m + 1)
        BY <2>2 DEF Due
      <4>2. QED
        BY <2>2, <2>6, <3>1, <4>1 DEF Reading, Ahead
    <3>3. EndOf(file, frames, a + (m + 1)) <= EndOf(file, frames, a + n)
      <4>1. CASE n = m + 1
        BY <2>3, <2>4, <4>1
      <4>2. CASE n # m + 1
        <5>1. a + (m + 1) \in 0 .. a + n - 1 /\ a + n \in Nat /\ a + (m + 1) \in Nat
          BY <2>2, <2>3, <4>2
        <5>2. EndOf(file, frames, a + (m + 1)) < EndOf(file, frames, a + n)
          BY <2>1, <2>2, <2>3, <5>1, EndFacts
        <5>3. QED
          BY <2>4, <5>1, <5>2
      <4>3. QED
        BY <4>1, <4>2
    <3>4. PICK x \in Nat, y \in Nat :
            x = EndOf(file, frames, a + (m + 1)) /\ y = EndOf(file, frames, a + n)
      <4>1. a + (m + 1) \in Nat /\ a + n \in Nat
        BY <2>2, <2>3
      <4>2. EndOf(file, frames, a + (m + 1)) \in Nat /\ EndOf(file, frames, a + n) \in Nat
        BY <2>4, <4>1
      <4>3. QED
        BY <4>2
    <3>5. x > e /\ x <= y /\ y <= e
      BY <2>2, <2>3, <2>4, <3>2, <3>3, <3>4
    <3>6. QED
      BY <2>2, <3>4, <3>5
  <2>7. QED
    BY <2>5, <2>6 DEF ReaderInv
<1>2. QED
  BY <1>1, ReaderInvariance, PTL

=============================================================================
