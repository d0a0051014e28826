------------------------- MODULE AofRefinementProofs -------------------------
(***************************************************************************)
(* Aof implements AppendLog, for every number of appenders, every queue    *)
(* and batch size, every durability mode and every bound.                  *)
(***************************************************************************)
EXTENDS AofProofs

(* What Log takes for the log and for the pending frames. *)
Kept      == IF cut THEN Prefix(file, Len(file) - 1) ELSE file
Unwritten == batch \o queue

-----------------------------------------------------------------------------
(* Sequences. *)

(* Appending to the second of two sequences. *)
LEMMA ConcatAppend ==
  ASSUME NEW S, NEW b \in Seq(S), NEW q \in Seq(S), NEW x \in S
  PROVE  b \o Append(q, x) = Append(b \o q, x)
<1>1. /\ Append(q, x) \in Seq(S) /\ Len(Append(q, x)) = Len(q) + 1
      /\ \A i \in 1 .. Len(q) : Append(q, x)[i] = q[i]
      /\ Append(q, x)[Len(q) + 1] = x
      /\ Len(q) \in Nat /\ Len(b) \in Nat
  BY AppendProperties, LenProperties
<1>2. /\ b \o q \in Seq(S) /\ Len(b \o q) = Len(b) + Len(q)
      /\ \A i \in 1 .. Len(b) + Len(q) :
           (b \o q)[i] = IF i <= Len(b) THEN b[i] ELSE q[i - Len(b)]
  BY ConcatProperties
<1>3. /\ b \o Append(q, x) \in Seq(S)
      /\ Len(b \o Append(q, x)) = Len(b) + Len(q) + 1
      /\ \A i \in 1 .. Len(b) + Len(q) + 1 :
           (b \o Append(q, x))[i] =
             IF i <= Len(b) THEN b[i] ELSE Append(q, x)[i - Len(b)]
  <2>1. /\ b \o Append(q, x) \in Seq(S)
        /\ Len(b \o Append(q, x)) = Len(b) + Len(Append(q, x))
        /\ \A i \in 1 .. Len(b) + Len(Append(q, x)) :
             (b \o Append(q, x))[i] =
               IF i <= Len(b) THEN b[i] ELSE Append(q, x)[i - Len(b)]
    BY <1>1, ConcatProperties
  <2>2. Len(b) + Len(Append(q, x)) = Len(b) + Len(q) + 1
    BY <1>1
  <2>3. QED
    BY <2>1, <2>2
<1>4. /\ Append(b \o q, x) \in Seq(S)
      /\ Len(Append(b \o q, x)) = Len(b) + Len(q) + 1
      /\ \A i \in 1 .. Len(b) + Len(q) : Append(b \o q, x)[i] = (b \o q)[i]
      /\ Append(b \o q, x)[Len(b) + Len(q) + 1] = x
  BY <1>2, AppendProperties
<1>5. ASSUME NEW i \in 1 .. Len(b) + Len(q) + 1
      PROVE  (b \o Append(q, x))[i] = Append(b \o q, x)[i]
  <2>1. CASE i <= Len(b)
    BY <1>1, <1>2, <1>3, <1>4, <2>1
  <2>2. CASE i > Len(b) /\ i <= Len(b) + Len(q)
    <3>1. i - Len(b) \in 1 .. Len(q) /\ i \in 1 .. Len(b) + Len(q)
      BY <1>1, <2>2
    <3>2. QED
      BY <1>1, <1>2, <1>3, <1>4, <2>2, <3>1
  <2>3. CASE i = Len(b) + Len(q) + 1
    <3>1. i - Len(b) = Len(q) + 1 /\ ~(i <= Len(b))
      BY <1>1, <2>3
    <3>2. QED
      BY <1>1, <1>3, <1>4, <2>3, <3>1
  <2>4. QED
    BY <1>1, <2>1, <2>2, <2>3
<1>6. QED
  BY <1>3, <1>4, <1>5, SeqEqual

(* The first element of a concatenation, and the rest behind it. *)
LEMMA ConcatHeadTail ==
  ASSUME NEW S, NEW b \in Seq(S), NEW q \in Seq(S), b # <<>>
  PROVE  /\ b \o q \in Seq(S) /\ b \o q # <<>>
         /\ Head(b \o q) = Head(b) /\ Tail(b \o q) = Tail(b) \o q
<1>1. Len(b) \in Nat /\ Len(b) > 0 /\ Len(q) \in Nat
  BY EmptySeq, LenProperties
<1>2. /\ b \o q \in Seq(S) /\ Len(b \o q) = Len(b) + Len(q)
      /\ \A i \in 1 .. Len(b) + Len(q) :
           (b \o q)[i] = IF i <= Len(b) THEN b[i] ELSE q[i - Len(b)]
  BY ConcatProperties
<1>3. b \o q # <<>>
  BY <1>1, <1>2, EmptySeq
<1>4. Head(b \o q) = Head(b)
  <2>1. (b \o q)[1] = b[1]
    BY <1>1, <1>2
  <2>2. QED
    BY <1>2, <1>3, <2>1
<1>5. /\ Tail(b) \in Seq(S) /\ Len(Tail(b)) = Len(b) - 1
      /\ \A i \in 1 .. Len(b) - 1 : Tail(b)[i] = b[i + 1]
  BY HeadTailProperties
<1>6. /\ Tail(b \o q) \in Seq(S) /\ Len(Tail(b \o q)) = Len(b) + Len(q) - 1
      /\ \A i \in 1 .. Len(b) + Len(q) - 1 : Tail(b \o q)[i] = (b \o q)[i + 1]
  BY <1>1, <1>2, <1>3, HeadTailProperties
<1>7. /\ Tail(b) \o q \in Seq(S) /\ Len(Tail(b) \o q) = Len(b) + Len(q) - 1
      /\ \A i \in 1 .. Len(b) + Len(q) - 1 :
           (Tail(b) \o q)[i] =
             IF i <= Len(b) - 1 THEN Tail(b)[i] ELSE q[i - (Len(b) - 1)]
  <2>1. /\ Tail(b) \o q \in Seq(S)
        /\ Len(Tail(b) \o q) = Len(Tail(b)) + Len(q)
        /\ \A i \in 1 .. Len(Tail(b)) + Len(q) :
             (Tail(b) \o q)[i] =
               IF i <= Len(Tail(b)) THEN Tail(b)[i] ELSE q[i - Len(Tail(b))]
    BY <1>5, ConcatProperties
  <2>2. Len(Tail(b)) + Len(q) = Len(b) + Len(q) - 1
    BY <1>1, <1>5
  <2>3. QED
    BY <1>5, <2>1, <2>2
<1>8. ASSUME NEW i \in 1 .. Len(b) + Len(q) - 1
      PROVE  Tail(b \o q)[i] = (Tail(b) \o q)[i]
  <2>1. /\ i + 1 \in 1 .. Len(b) + Len(q)
        /\ (i <= Len(b) - 1) <=> (i + 1 <= Len(b))
        /\ i - (Len(b) - 1) = i + 1 - Len(b)
    BY <1>1
  <2>2. i <= Len(b) - 1 => i \in 1 .. Len(b) - 1
    BY <1>1
  <2>3. QED
    BY <1>2, <1>5, <1>6, <1>7, <2>1, <2>2
<1>9. Tail(b \o q) = Tail(b) \o q
  BY <1>6, <1>7, <1>8, SeqEqual
<1>10. QED
  BY <1>2, <1>3, <1>4, <1>9

(* What is behind the first of two sequences. *)
LEMMA ConcatDrop ==
  ASSUME NEW S, NEW b \in Seq(S), NEW q \in Seq(S)
  PROVE  SubSeq(b \o q, Len(b) + 1, Len(b \o q)) = q
<1>1. Len(b) \in Nat /\ Len(q) \in Nat
  BY LenProperties
<1>2. /\ b \o q \in Seq(S) /\ Len(b \o q) = Len(b) + Len(q)
      /\ \A i \in 1 .. Len(b) + Len(q) :
           (b \o q)[i] = IF i <= Len(b) THEN b[i] ELSE q[i - Len(b)]
  BY ConcatProperties
<1> DEFINE r == SubSeq(b \o q, Len(b) + 1, Len(b \o q))
<1>3. Len(b) \in 0 .. Len(b \o q) /\ Len(b \o q) - Len(b) = Len(q)
  BY <1>1, <1>2
<1>4. /\ r \in Seq(S) /\ Len(r) = Len(q)
      /\ \A i \in 1 .. Len(q) : r[i] = (b \o q)[Len(b) + i]
  <2>1. /\ r \in Seq(S) /\ Len(r) = Len(b \o q) - Len(b)
        /\ \A i \in 1 .. Len(b \o q) - Len(b) : r[i] = (b \o q)[Len(b) + i]
    BY <1>2, <1>3, SplitSeq
  <2>2. QED
    BY <1>3, <2>1
<1> HIDE DEF r
<1>5. ASSUME NEW i \in 1 .. Len(q)
      PROVE  r[i] = q[i]
  <2>1. /\ Len(b) + i \in 1 .. Len(b) + Len(q) /\ ~(Len(b) + i <= Len(b))
        /\ Len(b) + i - Len(b) = i
    BY <1>1
  <2>2. QED
    BY <1>2, <1>4, <2>1
<1>6. r = q
  BY <1>4, <1>5, SeqEqual
<1>7. QED
  BY <1>6 DEF r

(* A sequence that is not empty ends in its last element. *)
LEMMA LastAppended ==
  ASSUME NEW S, NEW f \in Seq(S), f # <<>>
  PROVE  f = Append(SubSeq(f, 1, Len(f) - 1), f[Len(f)])
<1>1. /\ Len(f) \in Nat /\ Len(f) > 0 /\ Len(f) - 1 \in 0 .. Len(f)
      /\ f[Len(f)] \in S
  BY EmptySeq, LenProperties, ElementOfSeq
<1> DEFINE p == SubSeq(f, 1, Len(f) - 1)
           g == Append(p, f[Len(f)])
<1>2. /\ p \in Seq(S) /\ Len(p) = Len(f) - 1
      /\ \A i \in 1 .. Len(f) - 1 : p[i] = f[i]
  BY <1>1, SplitSeq
<1> HIDE DEF p
<1>3. /\ g \in Seq(S) /\ Len(g) = Len(p) + 1
      /\ \A i \in 1 .. Len(p) : g[i] = p[i]
      /\ g[Len(p) + 1] = f[Len(f)]
  BY <1>1, <1>2, AppendProperties
<1> HIDE DEF g
<1>4. ASSUME NEW i \in 1 .. Len(f)
      PROVE  f[i] = g[i]
  BY <1>1, <1>2, <1>3
<1>5. f = g
  BY <1>1, <1>2, <1>3, <1>4, SeqEqual
<1>6. QED
  BY <1>5 DEF g, p

-----------------------------------------------------------------------------
(* What the invariant says of the log and the pending frames. *)
LEMMA KeptFacts ==
  ASSUME FlagsOK, StateOK, FlowInv
  PROVE  /\ queue \in Seq(Id) /\ batch \in Seq(Id) /\ file \in Seq(Entry)
         /\ Unwritten \in Seq(Id) /\ Kept \in Seq(Entry)
         /\ ~cut => Kept = file
         /\ cut => /\ batch # <<>> /\ file # <<>> /\ Unwritten # <<>>
                   /\ Len(Kept) = Len(file) - 1
                   /\ \A i \in 1 .. Len(file) - 1 : Kept[i] = file[i]
                   /\ file = Append(Kept, [id |-> Head(Unwritten), whole |-> FALSE])
<1>1. queue \in Seq(Id) /\ batch \in Seq(Id) /\ file \in Seq(Entry)
  BY DEF StateOK
<1>2. Unwritten \in Seq(Id)
  BY <1>1, ConcatProperties DEF Unwritten
<1>3. CASE ~cut
  BY <1>1, <1>2, <1>3 DEF Kept
<1>4. CASE cut
  <2>1. /\ batch # <<>> /\ file # <<>>
        /\ file[Len(file)].id = Settled + 1 /\ ~file[Len(file)].whole
    BY <1>4 DEF FlowInv, FileBelow
  <2>2. Kept = SubSeq(file, 1, Len(file) - 1)
    BY <1>4 DEF Kept, Prefix
  <2>3. Len(file) \in Nat /\ Len(file) - 1 \in 0 .. Len(file) /\ Len(file) \in 1 .. Len(file)
    BY <1>1, <2>1, EmptySeq
  <2>4. /\ Kept \in Seq(Entry) /\ Len(Kept) = Len(file) - 1
        /\ \A i \in 1 .. Len(file) - 1 : Kept[i] = file[i]
    BY <1>1, <2>2, <2>3, SplitSeq
  <2>5. Unwritten # <<>> /\ Head(Unwritten) = Settled + 1
    <3>1. Unwritten # <<>> /\ Head(Unwritten) = Head(batch)
      BY <1>1, <2>1, ConcatHeadTail DEF Unwritten
    <3>2. Head(batch) = batch[1] /\ 1 \in DOMAIN batch
      BY <1>1, <2>1, EmptySeq, LenProperties
    <3>3. batch[1] = Settled + 1
      BY <3>2 DEF FlowInv, InFlight
    <3>4. QED
      BY <3>1, <3>2, <3>3
  <2>6. file[Len(file)] = [id |-> Head(Unwritten), whole |-> FALSE]
    <3>1. file[Len(file)] \in Entry
      BY <1>1, <2>3, ElementOfSeq
    <3>2. file[Len(file)].whole = FALSE
      BY <2>1, <3>1 DEF Entry
    <3>3. QED
      BY <2>1, <2>5, <3>1, <3>2 DEF Entry
  <2>7. file = Append(Kept, [id |-> Head(Unwritten), whole |-> FALSE])
    BY <1>1, <2>1, <2>2, <2>6, LastAppended
  <2>8. QED
    BY <1>1, <1>2, <1>4, <2>1, <2>4, <2>5, <2>7
<1>5. QED
  BY <1>3, <1>4 DEF FlagsOK

(* A step that leaves the file, the frames in flight and the offset alone  *)
(* is no step of the log.                                                  *)
LEMMA Stutters ==
  ASSUME UNCHANGED <<file, cut, batch, queue, accepted, written_offset>>
  PROVE  UNCHANGED Log!vars
BY DEF Log!vars, Prefix

(* An accepted frame is pending behind the others. *)
LEMMA PushAccepts ==
  ASSUME StateOK, NEW p \in Appenders, Push(p),
         UNCHANGED <<file, cut, batch, written_offset>>
  PROVE  Log!Accept
<1>1. /\ queue \in Seq(Id) /\ batch \in Seq(Id) /\ accepted + 1 \in Id
  BY DEF StateOK, Id
<1>2. queue' = Append(queue, accepted + 1) /\ accepted' = accepted + 1
  BY DEF Push
<1>3. batch \o queue' = Append(batch \o queue, accepted + 1)
  BY <1>1, <1>2, ConcatAppend
<1>4. QED
  BY <1>2, <1>3 DEF Log!Accept, Prefix

(* Taking a batch from the queue moves pending frames only. *)
LEMMA CollectStutters ==
  ASSUME FlagsOK, StateOK, FlowInv, Collect
  PROVE  UNCHANGED Log!vars
<1>1. PICK n \in 0 .. max_batch_entries :
             /\ n <= Len(queue)
             /\ batch' = Prefix(queue, n)
             /\ queue' = SubSeq(queue, n + 1, Len(queue))
  BY DEF Collect
<1>2. batch = <<>> /\ ~cut /\ queue \in Seq(Id)
  BY DEF Collect, FlowInv, Shape, FileBelow, StateOK
<1>3. UNCHANGED <<file, cut, accepted, written_offset>>
  BY DEF Collect, history
<1>4. batch' \o queue' = queue
  <2>1. /\ Len(queue) \in Nat /\ 1 \in 1 .. Len(queue) + 1
        /\ n \in 1 - 1 .. Len(queue) /\ Len(queue) \in n .. Len(queue)
    BY <1>1, <1>2, LenProperties
  <2>2. SubSeq(queue, 1, n) \o SubSeq(queue, n + 1, Len(queue))
          = SubSeq(queue, 1, Len(queue))
    BY <1>2, <2>1, ConcatAdjacentSubSeq
  <2>3. QED
    BY <1>1, <1>2, <2>2, SubSeqFull DEF Prefix
<1>5. batch \o queue = queue
  BY <1>2, ConcatEmptySeq
<1>6. QED
  BY <1>3, <1>4, <1>5 DEF Log!vars, Prefix

(* A writev that completes a frame persists it; one that ends inside a     *)
(* frame leaves the log as it was.                                         *)
LEMMA WritevPersists ==
  ASSUME FlagsOK, StateOK, FlowInv, NEW complete \in BOOLEAN, Writev(complete)
  PROVE  IF complete THEN Log!Persist ELSE UNCHANGED Log!vars
<1> DEFINE e == [id |-> Head(batch), whole |-> complete]
<1>1. /\ queue \in Seq(Id) /\ batch \in Seq(Id) /\ batch # <<>> /\ Kept \in Seq(Entry)
  BY KeptFacts DEF Writev, FlowInv, Shape
<1>2. /\ file' = Append(Kept, e) /\ cut' = ~complete
      /\ batch' = IF complete THEN Tail(batch) ELSE batch
      /\ complete \/ ~cut
      /\ UNCHANGED <<queue, accepted, written_offset>>
  BY DEF Writev, Kept, history
<1>3. /\ batch \o queue # <<>> /\ Head(batch \o queue) = Head(batch)
      /\ Tail(batch \o queue) = Tail(batch) \o queue
  BY <1>1, ConcatHeadTail
<1>4. CASE complete
  <2>1. Kept' = Append(Kept, [id |-> Head(batch \o queue), whole |-> TRUE])
    BY <1>2, <1>3, <1>4 DEF Kept
  <2>2. batch' \o queue' = Tail(batch \o queue)
    BY <1>2, <1>3, <1>4
  <2>3. Log!Persist
    BY <1>2, <1>3, <2>1, <2>2 DEF Log!Persist, Log!Entry, Kept
  <2>4. QED
    BY <1>4, <2>3
<1>5. CASE ~complete
  <2>1. ~cut /\ Kept = file /\ cut'
    BY <1>2, <1>5 DEF Kept
  <2>2. e \in Entry
    BY <1>1, HeadTailProperties DEF Entry
  <2>3. Len(Kept) \in Nat /\ Len(file') = Len(Kept) + 1 /\ file' \in Seq(Entry)
        /\ \A i \in 1 .. Len(Kept) : file'[i] = Kept[i]
    BY <1>1, <1>2, <2>2, AppendProperties, LenProperties
  <2>4. SubSeq(file', 1, Len(file') - 1) = Kept
    <3>1. Len(file') - 1 \in 0 .. Len(file') /\ Len(file') - 1 = Len(Kept)
      BY <2>3
    <3>2. /\ SubSeq(file', 1, Len(file') - 1) \in Seq(Entry)
          /\ Len(SubSeq(file', 1, Len(file') - 1)) = Len(file') - 1
          /\ \A i \in 1 .. Len(file') - 1 : SubSeq(file', 1, Len(file') - 1)[i] = file'[i]
      BY <2>3, <3>1, SplitSeq
    <3>3. QED
      BY <1>1, <2>3, <3>1, <3>2, SeqEqual
  <2>5. Kept' = Kept /\ batch' = batch
    BY <1>2, <1>5, <2>1, <2>4 DEF Kept, Prefix
  <2>6. UNCHANGED Log!vars
    BY <1>2, <2>5 DEF Log!vars, Kept
  <2>7. QED
    BY <1>5, <2>6
<1>6. QED
  BY <1>4, <1>5

(* A failed writev gives up the batch, and leaves a torn entry of its      *)
(* first frame if it had begun to write it.                                *)
LEMMA FailGivesUp ==
  ASSUME FlagsOK, StateOK, FlowInv, WritevFails
  PROVE  Log!GiveUp
<1>1. /\ queue \in Seq(Id) /\ batch \in Seq(Id) /\ batch # <<>>
  BY KeptFacts DEF WritevFails, FlowInv, Shape
<1>2. /\ batch' = <<>> /\ cut' = FALSE
      /\ UNCHANGED <<queue, file, accepted, written_offset>>
  BY DEF WritevFails
<1>3. /\ Len(batch) \in 1 .. Len(batch \o queue)
      /\ batch' \o queue' = SubSeq(batch \o queue, Len(batch) + 1, Len(batch \o queue))
  <2>1. Len(batch) \in Nat \ {0} /\ Len(queue) \in Nat
        /\ Len(batch \o queue) = Len(batch) + Len(queue)
    BY <1>1, EmptySeq, LenProperties, ConcatProperties
  <2>2. batch' \o queue' = queue
    BY <1>1, <1>2, ConcatEmptySeq
  <2>3. SubSeq(batch \o queue, Len(batch) + 1, Len(batch \o queue)) = queue
    BY <1>1, ConcatDrop
  <2>4. Len(batch) \in 1 .. Len(batch \o queue)
    BY <2>1
  <2>5. QED
    BY <2>2, <2>3, <2>4
<1>4. Kept' \in {Kept, Append(Kept, [id |-> Head(batch \o queue), whole |-> FALSE])}
  <2>1. Kept' = file
    BY <1>2 DEF Kept
  <2>2. QED
    BY <2>1, KeptFacts DEF FlagsOK, Unwritten
<1>5. QED
  BY <1>2, <1>3, <1>4 DEF Log!GiveUp, Log!Entry, Kept


(* The end of a process keeps a prefix of the log, whose last entry may be *)
(* torn, or all of it and a torn entry of the first pending frame.         *)
LEMMA DieKeeps ==
  ASSUME FlagsOK, StateOK, FlowInv, NEW n \in 0 .. Len(file), NEW f, NEW how,
         f = Prefix(file, n) \/ (n > 0 /\ f = Torn(file, n)), Die(f, how)
  PROVE  Log!Perish
<1>1. /\ file' = f /\ batch' = <<>> /\ queue' = <<>> /\ cut' = FALSE
      /\ UNCHANGED <<accepted, written_offset>>
  BY DEF Die
<1>2. /\ batch' \o queue' = <<>>
  <2>1. <<>> \in Seq(Id)
    BY EmptySeq
  <2>2. <<>> \o <<>> = <<>>
    BY <2>1, ConcatEmptySeq
  <2>3. QED
    BY <1>1, <2>2
<1>3. Kept' = f
  BY <1>1 DEF Kept
<1>4. file \in Seq(Entry) /\ Len(file) \in Nat /\ n \in Nat
  BY LenProperties DEF StateOK
<1>5. \/ \E m \in 0 .. Len(Kept) :
           \/ f = SubSeq(Kept, 1, m)
           \/ m > 0 /\ f = [SubSeq(Kept, 1, m) EXCEPT
                              ![m] = [id |-> Kept[m].id, whole |-> FALSE]]
      \/ /\ batch \o queue # <<>>
         /\ f = Append(Kept, [id |-> Head(batch \o queue), whole |-> FALSE])
  <2>1. CASE ~cut
    <3>1. Kept = file
      BY <2>1 DEF Kept
    <3>2. QED
      BY <3>1 DEF Prefix, Torn
  <2>2. CASE cut /\ n < Len(file)
    <3>1. /\ Kept \in Seq(Entry) /\ Len(Kept) = Len(file) - 1
          /\ \A i \in 1 .. Len(file) - 1 : Kept[i] = file[i]
      BY <2>2, KeptFacts
    <3>2. n \in 0 .. Len(Kept)
      BY <1>4, <2>2, <3>1
    <3>3. SubSeq(Kept, 1, n) = SubSeq(file, 1, n)
      <4>1. /\ SubSeq(Kept, 1, n) \in Seq(Entry) /\ Len(SubSeq(Kept, 1, n)) = n
            /\ \A i \in 1 .. n : SubSeq(Kept, 1, n)[i] = Kept[i]
        BY <3>1, <3>2, SplitSeq
      <4>2. /\ SubSeq(file, 1, n) \in Seq(Entry) /\ Len(SubSeq(file, 1, n)) = n
            /\ \A i \in 1 .. n : SubSeq(file, 1, n)[i] = file[i]
        BY <1>4, SplitSeq
      <4>3. \A i \in 1 .. n : Kept[i] = file[i]
        BY <1>4, <2>2, <3>1
      <4>4. QED
        BY <4>1, <4>2, <4>3, SeqEqual
    <3>4. n > 0 => Kept[n] = file[n]
      BY <1>4, <2>2, <3>1
    <3>5. CASE f = Prefix(file, n)
      BY <3>2, <3>3, <3>5 DEF Prefix
    <3>6. CASE n > 0 /\ f = Torn(file, n)
      BY <3>2, <3>3, <3>4, <3>6 DEF Prefix, Torn
    <3>7. QED
      BY <3>5, <3>6
  <2>3. CASE cut /\ n = Len(file)
    <3>1. /\ file # <<>> /\ batch \o queue # <<>> /\ Kept \in Seq(Entry)
          /\ Len(Kept) = Len(file) - 1
          /\ file = Append(Kept, [id |-> Head(batch \o queue), whole |-> FALSE])
      BY <2>3, KeptFacts DEF Unwritten
    <3>2. Prefix(file, n) = file
      BY <1>4, <2>3, SubSeqFull DEF Prefix
    <3>3. n \in 1 .. Len(file)
      BY <1>4, <2>3, <3>1, EmptySeq
    <3>4. file[n].whole = FALSE /\ file[n] \in Entry
      <4>1. file[n] \in Entry /\ ~file[n].whole
        BY <1>4, <2>3, <3>3, ElementOfSeq DEF FlowInv, FileBelow
      <4>2. QED
        BY <4>1 DEF Entry
    <3>5. file[n] = [id |-> file[n].id, whole |-> FALSE]
      BY <3>4 DEF Entry
    <3>6. Torn(file, n) = file
      <4>1. Torn(file, n) = [file EXCEPT ![n] = [id |-> file[n].id, whole |-> FALSE]]
        BY <3>2 DEF Torn
      <4>2. [file EXCEPT ![n] = file[n]] = file
        BY <1>4, <3>3, LenProperties
      <4>3. QED
        BY <3>5, <4>1, <4>2
    <3>7. QED
      BY <3>1, <3>2, <3>6
  <2>4. n < Len(file) \/ n = Len(file)
    BY <1>4
  <2>5. QED
    BY <2>1, <2>2, <2>3, <2>4, Zenon
<1>6. QED
  BY <1>1, <1>2, <1>3, <1>5 DEF Log!Perish, Log!Entry, Kept

(* The offset is stored when no frame is in progress, or left alone. *)
LEMMA OffsetPublishes ==
  ASSUME FlagsOK, StateOK, FlowInv, StoreOffset \/ Restart
  PROVE  Log!Publish \/ UNCHANGED Log!vars
<1>1. ~cut
  BY DEF StoreOffset, Restart, FlowInv, FileBelow, Shape
<1>2. /\ written_offset' = Len(file) \/ UNCHANGED written_offset
      /\ UNCHANGED <<file, cut, batch, queue, accepted>>
  BY DEF StoreOffset, Restart, OpenFile, history
<1>3. CASE written_offset' = Len(file)
  BY <1>1, <1>2, <1>3 DEF Log!Publish
<1>4. CASE UNCHANGED written_offset
  BY <1>2, <1>4, Stutters
<1>5. QED
  BY <1>2, <1>3, <1>4

(* Every step of the append functions, the writer and the owner is a step  *)
(* of the append log, or none.                                             *)
LEMMA StepSimulates ==
  FlagsOK /\ StateOK /\ FlowInv /\ [Next]_vars => [Log!Next]_(Log!vars)
<1> SUFFICES ASSUME FlagsOK, StateOK, FlowInv, [Next]_vars
             PROVE  Log!Next \/ UNCHANGED Log!vars
  OBVIOUS
<1>1. ASSUME NEW p \in Appenders, AppendAsync(p) \/ AppendBlocking(p)
      PROVE  Log!Accept \/ UNCHANGED Log!vars
  <2>1. UNCHANGED <<file, cut, batch, written_offset>>
    BY <1>1 DEF AppendAsync, AppendBlocking, writerVars
  <2>2. CASE Push(p)
    BY <2>1, <2>2, PushAccepts
  <2>3. CASE UNCHANGED <<queue, accepted>>
    BY <2>1, <2>3, Stutters
  <2>4. QED
    BY <1>1, <2>2, <2>3 DEF AppendAsync, AppendBlocking
<1>2. ASSUME NEW p \in Appenders, SpuriousWakeup(p) \/ Notify(p)
      PROVE  UNCHANGED Log!vars
  BY <1>2, Stutters DEF SpuriousWakeup, Notify, writerVars, history
<1>3. CASE Collect
  BY <1>3, CollectStutters
<1>4. CASE CheckStop \/ SyncBatch \/ Drain \/ WriterExit
  BY <1>4, Stutters DEF CheckStop, SyncBatch, Drain, WriterExit, history
<1>5. CASE Writev(TRUE) \/ Writev(FALSE)
  BY <1>5, WritevPersists DEF Log!Next
<1>6. CASE WritevFails
  BY <1>6, FailGivesUp DEF Log!Next
<1>7. CASE StoreOffset \/ Restart
  BY <1>7, OffsetPublishes DEF Log!Next
<1>8. CASE StopSet \/ StopNotify \/ StopJoin
  BY <1>8, Stutters DEF StopSet, StopNotify, StopJoin, writerVars, history
<1>9. CASE Destroy
  <2>1. /\ file \in Seq(Entry) /\ Len(file) \in 0 .. Len(file)
    BY LenProperties DEF StateOK
  <2>2. file = Prefix(file, Len(file))
    BY <2>1, SubSeqFull DEF Prefix
  <2>3. PICK how : Die(file, how)
    BY <1>9 DEF Destroy
  <2>4. QED
    BY <2>1, <2>2, <2>3, DieKeeps DEF Log!Next
<1>10. CASE Crash
  <2>1. PICK n \in durable .. Len(file) :
               \/ Die(Prefix(file, n), "crashed")
               \/ n > durable /\ Die(Torn(file, n), "crashed")
    BY <1>10 DEF Crash
  <2>2. n \in 0 .. Len(file) /\ (n > durable => n > 0)
    BY LenProperties DEF StateOK
  <2>3. QED
    BY <2>1, <2>2, DieKeeps DEF Log!Next
<1>11. CASE UNCHANGED vars
  BY <1>11, Stutters DEF vars, writerVars, history
<1>12. QED
  BY <1>1, <1>2, <1>3, <1>4, <1>5, <1>6, <1>7, <1>8, <1>9, <1>10, <1>11
     DEF Next, WriterStep, Ended, Log!Next

(* The append functions and writerLoop, with their bounded queue, batches, *)
(* short writes, faults, crashes and restarts, implement the append log:   *)
(* whatever a client of AppendLog relies on holds of the file, for every   *)
(* size of queue and batch.                                                *)
THEOREM RefinesAppendLog == Spec => ImplementsAppendLog
<1>1. Init => Log!Init
  <2>1. <<>> \o <<>> = <<>>
    BY EmptySeq, ConcatEmptySeq
  <2>2. QED
    BY <2>1 DEF Init, Log!Init
<1>2. FlagsOK /\ StateOK /\ FlowInv /\ [Next]_vars => [Log!Next]_(Log!vars)
  BY StepSimulates
<1>3. QED
  BY <1>1, <1>2, FlowInvariant, PTL DEF Spec, ImplementsAppendLog, Log!Spec

=============================================================================
