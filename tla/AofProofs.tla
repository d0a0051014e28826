------------------------------ MODULE AofProofs ------------------------------
(***************************************************************************)
(* Proofs about Aof, for every number of appenders, every queue and batch  *)
(* size, every durability mode and every bound on faults and restarts.     *)
(***************************************************************************)
EXTENDS Aof, SequenceTheorems, TLAPS

Id    == Nat \ {0}
Entry == [id : Id, whole : BOOLEAN]

(* A prefix of a sequence, and what is left behind it. *)
LEMMA SplitSeq ==
  ASSUME NEW S, NEW s \in Seq(S), NEW n \in 0 .. Len(s)
  PROVE  /\ SubSeq(s, 1, n) \in Seq(S)
         /\ Len(SubSeq(s, 1, n)) = n
         /\ \A i \in 1 .. n : SubSeq(s, 1, n)[i] = s[i]
         /\ SubSeq(s, n + 1, Len(s)) \in Seq(S)
         /\ Len(SubSeq(s, n + 1, Len(s))) = Len(s) - n
         /\ \A i \in 1 .. Len(s) - n : SubSeq(s, n + 1, Len(s))[i] = s[n + i]
<1>1. n \in Nat /\ Len(s) \in Nat /\ n <= Len(s) /\ \A i \in 1 .. Len(s) : s[i] \in S
  BY LenProperties, ElementOfSeq
<1>2. /\ SubSeq(s, 1, n) \in Seq(S)
      /\ Len(SubSeq(s, 1, n)) = IF 1 <= n THEN n - 1 + 1 ELSE 0
      /\ \A i \in 1 .. n - 1 + 1 : SubSeq(s, 1, n)[i] = s[1 + i - 1]
  <2>1. \A i \in 1 .. n : s[i] \in S
    BY <1>1
  <2>2. QED
    BY <1>1, <2>1, SubSeqProperties
<1>3. /\ SubSeq(s, n + 1, Len(s)) \in Seq(S)
      /\ Len(SubSeq(s, n + 1, Len(s))) = IF n + 1 <= Len(s) THEN Len(s) - (n + 1) + 1 ELSE 0
      /\ \A i \in 1 .. Len(s) - (n + 1) + 1 :
           SubSeq(s, n + 1, Len(s))[i] = s[n + 1 + i - 1]
  <2>1. \A i \in n + 1 .. Len(s) : s[i] \in S
    BY <1>1
  <2>2. QED
    BY <1>1, <2>1, SubSeqProperties
<1>4. QED
  BY <1>1, <1>2, <1>3

(* A prefix of the file whose last entry is torn. *)
LEMMA TornSeq ==
  ASSUME NEW f \in Seq(Entry), NEW n \in 1 .. Len(f)
  PROVE  /\ Torn(f, n) \in Seq(Entry)
         /\ Len(Torn(f, n)) = n
         /\ \A i \in 1 .. n - 1 : Torn(f, n)[i] = f[i]
         /\ Torn(f, n)[n] = [id |-> f[n].id, whole |-> FALSE]
<1>1. n \in Nat /\ Len(f) \in Nat /\ n \in 0 .. Len(f) /\ f[n] \in Entry
  BY LenProperties, ElementOfSeq
<1>2. /\ Prefix(f, n) \in Seq(Entry) /\ Len(Prefix(f, n)) = n
      /\ \A i \in 1 .. n : Prefix(f, n)[i] = f[i]
  BY <1>1, SplitSeq DEF Prefix
<1>3. [id |-> f[n].id, whole |-> FALSE] \in Entry
  BY <1>1 DEF Entry
<1>4. QED
  BY <1>1, <1>2, <1>3, ExceptSeq DEF Torn

(* An empty sequence has length 0, and no other has. *)
LEMMA EmptyIff ==
  ASSUME NEW S, NEW s \in Seq(S)
  PROVE  Len(s) \in Nat /\ (s = <<>> <=> Len(s) = 0)
BY EmptySeq, LenProperties

(* The conjuncts of TypeOK other than FlagsOK. *)
StateOK ==
  /\ queue \in Seq(Id) /\ batch \in Seq(Id) /\ file \in Seq(Entry)
  /\ written_offset \in Nat /\ durable \in Nat
  /\ pc \in [Appenders -> {"idle", "blocking", "waiting", "notify"}]
  /\ writer \in {"collect", "check", "write", "offset", "sync", "drain",
                 "exit", "done"}
  /\ main \in {"run", "notify", "join", "stopped",
               "exited", "aborted", "crashed"}
  /\ accepted \in Nat /\ started \in Nat /\ faults \in Nat /\ restarts \in Nat
  /\ dropped \in SUBSET Id

(* The type invariant, in the two parts that the steps need. *)
LEMMA TypeParts == /\ TypeOK <=> FlagsOK /\ StateOK
                   /\ TypeOK' <=> FlagsOK' /\ StateOK'
BY DEF TypeOK, StateOK, Id, Entry

(* The types at the start. *)
LEMMA InitType == Init => TypeOK /\ Shape
<1> SUFFICES ASSUME Init PROVE FlagsOK /\ StateOK /\ Shape
  BY TypeParts
<1>1. FlagsOK
  BY Zenon DEF Init, FlagsOK
<1>2. StateOK
  BY EmptySeq DEF Init, StateOK
<1>3. Shape
  BY DEF Init, Shape
<1>4. QED
  BY <1>1, <1>2, <1>3

(* The appenders that a notification may wake. *)
LEMMA WokenType ==
  StateOK => Woken \in [Appenders -> {"idle", "blocking", "waiting", "notify"}]
BY DEF StateOK, Woken

(* The flags only ever take the values of other flags. *)
LEMMA NextFlags == FlagsOK /\ [Next]_vars => FlagsOK'
<1> SUFFICES ASSUME FlagsOK, [Next]_vars PROVE FlagsOK'
  OBVIOUS
<1> USE DEF FlagsOK
<1>1. ASSUME NEW p \in Appenders,
             AppendAsync(p) \/ AppendBlocking(p) \/ SpuriousWakeup(p) \/ Notify(p)
      PROVE  FlagsOK'
  BY <1>1, Zenon DEF AppendAsync, AppendBlocking, SpuriousWakeup, Notify, writerVars, ownerVars
<1>2. CASE Collect \/ CheckStop \/ StoreOffset \/ SyncBatch \/ Drain \/ WriterExit
  BY <1>2, Zenon DEF Collect, CheckStop, StoreOffset, SyncBatch, Drain, WriterExit, ownerVars
<1>3. ASSUME NEW complete \in BOOLEAN, Writev(complete)
      PROVE  FlagsOK'
  BY <1>3, Zenon DEF Writev, ownerVars
<1>4. CASE WritevFails
  BY <1>4, Zenon DEF WritevFails, ownerVars
<1>5. CASE StopSet \/ StopNotify \/ StopJoin
  BY <1>5, Zenon DEF StopSet, StopNotify, StopJoin, writerVars
<1>6. ASSUME NEW f, NEW how, Die(f, how)
      PROVE  FlagsOK'
  BY <1>6, Zenon DEF Die
<1>7. CASE Destroy \/ Crash
  BY <1>6, <1>7 DEF Destroy, Crash
<1>8. CASE Restart
  BY <1>8, Zenon DEF Restart, OpenFile, StartWriter
<1>9. CASE UNCHANGED vars
  BY <1>9, Zenon DEF vars, writerVars, ownerVars
<1>10. QED
  BY <1>1, <1>2, <1>3, <1>4, <1>5, <1>7, <1>8, <1>9 DEF Next, WriterStep, Ended

(* Every step keeps the types. *)
LEMMA NextState == StateOK /\ Shape /\ [Next]_vars => StateOK' /\ Shape'
<1> SUFFICES ASSUME StateOK, Shape, [Next]_vars
             PROVE  StateOK' /\ Shape'
  OBVIOUS
<1> USE OptionsAssumption, BoundsAssumption
<1>1. ASSUME NEW p \in Appenders, Push(p), UNCHANGED <<writer, batch, main>>
      PROVE  /\ queue' \in Seq(Id) /\ accepted' \in Nat
             /\ pc' \in [Appenders -> {"idle", "blocking", "waiting", "notify"}]
  <2>1. accepted + 1 \in Id
    BY DEF StateOK, Id
  <2>2. queue' \in Seq(Id)
    BY <1>1, <2>1, AppendProperties DEF Push, StateOK
  <2>3. QED
    BY <1>1, <2>2 DEF Push, StateOK
<1>2. ASSUME NEW p \in Appenders, AppendAsync(p)
      PROVE  StateOK' /\ Shape'
  BY <1>1, <1>2 DEF AppendAsync, StateOK, Shape, Alive, writerVars, ownerVars
<1>3. ASSUME NEW p \in Appenders, AppendBlocking(p)
      PROVE  StateOK' /\ Shape'
  BY <1>1, <1>3 DEF AppendBlocking, StateOK, Shape, Alive, writerVars, ownerVars
<1>4. ASSUME NEW p \in Appenders, SpuriousWakeup(p) \/ Notify(p)
      PROVE  StateOK' /\ Shape'
  BY <1>4 DEF SpuriousWakeup, Notify, StateOK, Shape, Alive, writerVars, ownerVars, history
<1>5. CASE Collect
  <2>1. PICK n \in 0 .. max_batch_entries :
               /\ n <= Len(queue) /\ (queue # <<>> => n > 0)
               /\ batch' = Prefix(queue, n)
               /\ queue' = SubSeq(queue, n + 1, Len(queue))
               /\ pc' = IF Len(queue) - n < max_queue_entries \div 2 THEN Woken ELSE pc
               /\ writer' = IF n = 0 THEN "check" ELSE "write"
    BY <1>5 DEF Collect
  <2>2. n \in 0 .. Len(queue)
    BY <2>1, LenProperties DEF StateOK
  <2>3. batch' \in Seq(Id) /\ Len(batch') = n /\ queue' \in Seq(Id)
    BY <2>1, <2>2, SplitSeq DEF StateOK, Prefix
  <2>4. pc' \in [Appenders -> {"idle", "blocking", "waiting", "notify"}]
    BY <2>1, WokenType DEF StateOK
  <2>5. n = 0 <=> batch' = <<>>
    BY <2>2, <2>3, EmptyIff
  <2>6. QED
    BY <1>5, <2>1, <2>3, <2>4, <2>5 DEF Collect, StateOK, Shape, Alive, ownerVars, history
<1>6. CASE CheckStop \/ StoreOffset \/ SyncBatch \/ Drain \/ WriterExit
  BY <1>6, LenProperties
     DEF CheckStop, StoreOffset, SyncBatch, Drain, WriterExit, StateOK, Shape, Alive,
         appendVars, ownerVars, history
<1>7. ASSUME NEW complete \in BOOLEAN, Writev(complete)
      PROVE  StateOK' /\ Shape'
  <2>1. batch # <<>> /\ batch \in Seq(Id) /\ file \in Seq(Entry)
    BY <1>7 DEF Writev, StateOK, Shape
  <2>2. /\ Head(batch) \in Id /\ Tail(batch) \in Seq(Id)
        /\ Len(batch) \in Nat /\ Len(Tail(batch)) = Len(batch) - 1
    BY <2>1, HeadTailProperties, LenProperties
  <2>3. (IF cut THEN Prefix(file, Len(file) - 1) ELSE file) \in Seq(Entry)
    <3>1. CASE Len(file) > 0
      <4>1. Len(file) \in Nat /\ Len(file) - 1 \in 0 .. Len(file)
        BY <2>1, <3>1, LenProperties
      <4>2. Prefix(file, Len(file) - 1) \in Seq(Entry)
        BY <2>1, <4>1, SplitSeq DEF Prefix
      <4>3. QED
        BY <2>1, <4>2
    <3>2. CASE Len(file) = 0
      BY <2>1, <3>2, SubSeqEmpty, EmptySeq DEF Prefix
    <3>3. QED
      BY <2>1, <3>1, <3>2, LenProperties
  <2>4. file' \in Seq(Entry)
    <3>1. [id |-> Head(batch), whole |-> complete] \in Entry
      BY <1>7, <2>2 DEF Entry
    <3>2. QED
      BY <1>7, <2>3, <3>1, AppendProperties DEF Writev
  <2>5. Tail(batch) = <<>> <=> Len(batch) = 1
    <3>1. Tail(batch) = <<>> <=> Len(Tail(batch)) = 0
      BY <2>2, EmptyIff
    <3>2. QED
      BY <2>2, <3>1
  <2>6. QED
    BY <1>7, <2>1, <2>2, <2>4, <2>5
       DEF Writev, StateOK, Shape, Alive, appendVars, ownerVars, history
<1>8. CASE WritevFails
  <2>1. Frames(batch) \subseteq Id
    BY ElementOfSeq, LenProperties DEF StateOK, Frames
  <2>2. QED
    BY <1>8, <2>1, EmptySeq DEF WritevFails, StateOK, Shape, Alive, appendVars, ownerVars
<1>9. CASE StopSet \/ StopNotify \/ StopJoin
  BY <1>9, WokenType, LenProperties
     DEF StopSet, StopNotify, StopJoin, StateOK, Shape, Alive, appendVars, writerVars, history
<1>10. ASSUME NEW f \in Seq(Entry), NEW how \in {"exited", "aborted", "crashed"}, Die(f, how)
       PROVE  StateOK' /\ Shape'
  <2>1. (1 .. accepted) \ Whole(f) \subseteq Id
    BY DEF StateOK, Id
  <2>2. <<>> \in Seq(Id)
    BY EmptySeq
  <2>3. QED
    BY <1>10, <2>1, <2>2 DEF Die, StateOK, Shape, Alive
<1>11. CASE Destroy
  BY <1>10, <1>11 DEF Destroy, StateOK
<1>12. CASE Crash
  <2>1. PICK n \in durable .. Len(file) :
               \/ Die(Prefix(file, n), "crashed")
               \/ n > durable /\ Die(Torn(file, n), "crashed")
    BY <1>12 DEF Crash
  <2>2. file \in Seq(Entry) /\ Len(file) \in Nat /\ durable \in Nat /\ n \in 0 .. Len(file)
    BY <2>1, LenProperties DEF StateOK
  <2>3. Prefix(file, n) \in Seq(Entry)
    BY <2>2, SplitSeq DEF Prefix
  <2>4. n > durable => Torn(file, n) \in Seq(Entry)
    <3>1. n > durable => n \in 1 .. Len(file)
      BY <2>2
    <3>2. QED
      BY <2>2, <3>1, TornSeq
  <2>5. QED
    BY <1>10, <2>1, <2>3, <2>4
<1>13. CASE Restart
  <2>1. Len(file) \in Nat
    BY LenProperties DEF StateOK
  <2>2. StateOK'
    BY <1>13, <2>1 DEF Restart, OpenFile, StartWriter, StateOK, appendVars
  <2>3. Shape'
    BY <1>13 DEF Restart, OpenFile, StartWriter, Shape, Alive
  <2>4. QED
    BY <2>2, <2>3
<1>14. CASE UNCHANGED vars
  BY <1>14 DEF StateOK, Shape, Alive, vars, appendVars, writerVars, ownerVars, history
<1>15. QED
  BY <1>2, <1>3, <1>4, <1>5, <1>6, <1>7, <1>8, <1>9, <1>11, <1>12, <1>13, <1>14
     DEF Next, WriterStep, Ended

(* Every value of a declared variable of Aof and of a local of writerLoop  *)
(* stays one the declaration allows; Head(batch) is taken only of a batch. *)
THEOREM TypeCorrect == Spec => []TypeOK
<1>1. Init => TypeOK /\ Shape
  BY InitType
<1>2. TypeOK /\ Shape /\ [Next]_vars => (TypeOK /\ Shape)'
  BY TypeParts, NextFlags, NextState
<1>3. QED
  BY <1>1, <1>2, PTL DEF Spec

-----------------------------------------------------------------------------
(* The order and the completeness of the file. *)

(* What FlowInv and TypeOK say of the lengths. *)
LEMMA Lengths ==
  ASSUME StateOK
  PROVE  /\ Len(queue) \in Nat /\ DOMAIN queue = 1 .. Len(queue)
         /\ Len(batch) \in Nat /\ DOMAIN batch = 1 .. Len(batch)
         /\ Len(file) \in Nat /\ DOMAIN file = 1 .. Len(file)
         /\ \A i \in 1 .. Len(file) : file[i].id \in Id
         /\ accepted \in Nat
<1>1. \A i \in 1 .. Len(file) : file[i] \in Entry
  BY ElementOfSeq DEF StateOK
<1>2. QED
  BY <1>1, LenProperties DEF StateOK, Entry

(* The entries of the file that are final: all but a frame in progress. *)
Base == IF cut THEN Len(file) - 1 ELSE Len(file)

(* No frame is in flight at the start. *)
LEMMA InitFlow == Init => FlowInv
<1> SUFFICES ASSUME Init PROVE FlowInv
  OBVIOUS
<1>1. /\ queue = <<>> /\ batch = <<>> /\ file = <<>> /\ ~cut /\ accepted = 0 /\ dropped = {}
      /\ writer = "collect"
  BY DEF Init
<1>2. Len(queue) = 0 /\ Len(batch) = 0 /\ Settled = 0
  <2>1. Len(<<>>) = 0
    BY EmptySeq
  <2>2. Len(queue) = 0 /\ Len(batch) = 0
    BY <1>1, <2>1, Zenon
  <2>3. accepted = 0
    BY <1>1
  <2>4. QED
    BY <2>2, <2>3 DEF Settled
<1>3. QED
  BY <1>1, <1>2, OptionsAssumption
     DEF FlowInv, Shape, InFlight, FileBelow, Accounted, FileInAppendOrder,
         TornOnlyInProgress, QueueBounded

(* A push changes neither the settled frames nor the file. *)
LEMMA PushFlow ==
  ASSUME StateOK, FlowInv, NEW p \in Appenders, Push(p), Len(queue) < max_queue_entries,
         UNCHANGED <<batch, file, cut, dropped, writer, main>>
  PROVE  FlowInv'
<1>1. /\ Len(queue') = Len(queue) + 1
      /\ \A i \in 1 .. Len(queue) : queue'[i] = queue[i]
      /\ queue'[Len(queue) + 1] = accepted + 1
      /\ DOMAIN queue' = 1 .. Len(queue) + 1
      /\ accepted' = accepted + 1
  <2>1. accepted + 1 \in Id /\ queue \in Seq(Id)
    BY DEF StateOK, Id
  <2>2. queue' = Append(queue, accepted + 1) /\ queue' \in Seq(Id)
    BY <2>1, AppendProperties DEF Push
  <2>3. QED
    BY <2>1, <2>2, AppendProperties, LenProperties DEF Push
<1>2. Settled' = Settled
  BY <1>1, Lengths DEF Settled
<1>3. InFlight'
  <2>1. InFlight /\ batch' = batch
    BY DEF FlowInv
  <2>2. Len(queue) \in Nat /\ Len(batch) \in Nat /\ accepted \in Nat /\ DOMAIN queue = 1 .. Len(queue)
    BY Lengths
  <2>3. \A i \in DOMAIN queue' : queue'[i] = accepted' - Len(queue') + i
    BY <1>1, <2>1, <2>2 DEF InFlight
  <2>4. QED
    BY <1>1, <1>2, <2>1, <2>2, <2>3 DEF InFlight
<1>4. FileBelow' /\ Accounted'
  BY <1>2 DEF FileBelow, Accounted, FlowInv
<1>5. QueueBounded'
  BY <1>1, Lengths, OptionsAssumption DEF QueueBounded
<1>6. Shape' /\ FileInAppendOrder' /\ TornOnlyInProgress'
  BY DEF FlowInv, Shape, Alive, FileInAppendOrder, TornOnlyInProgress
<1>7. QED
  BY <1>3, <1>4, <1>5, <1>6 DEF FlowInv

(* Collect moves frames from the front of queue to an empty batch. *)
LEMMA CollectFlow ==
  ASSUME StateOK, FlowInv, Collect
  PROVE  FlowInv'
<1>1. PICK n \in 0 .. max_batch_entries :
             /\ n <= Len(queue) /\ (queue # <<>> => n > 0)
             /\ batch' = Prefix(queue, n)
             /\ queue' = SubSeq(queue, n + 1, Len(queue))
             /\ writer' = IF n = 0 THEN "check" ELSE "write"
  BY DEF Collect
<1>2. n \in 0 .. Len(queue) /\ queue \in Seq(Id)
  BY <1>1, Lengths DEF StateOK
<1>3. /\ Len(batch') = n /\ \A i \in 1 .. n : batch'[i] = queue[i]
      /\ Len(queue') = Len(queue) - n
      /\ \A i \in 1 .. Len(queue) - n : queue'[i] = queue[n + i]
      /\ batch' \in Seq(Id) /\ queue' \in Seq(Id)
  BY <1>1, <1>2, SplitSeq DEF Prefix
<1>4. DOMAIN batch' = 1 .. n /\ DOMAIN queue' = 1 .. Len(queue) - n
  BY <1>3, LenProperties
<1>5. batch = <<>> /\ Len(batch) = 0 /\ ~cut /\ ~cut'
  BY DEF Collect, FlowInv, Shape, FileBelow
<1>6. Settled' = Settled /\ Settled = accepted - Len(queue)
  <2>1. accepted' = accepted
    BY DEF Collect, history
  <2>2. Len(queue) \in Nat /\ accepted \in Nat
    BY Lengths
  <2>3. QED
    BY <1>2, <1>3, <1>5, <2>1, <2>2 DEF Settled
<1>7. InFlight'
  <2>1. accepted' = accepted /\ InFlight
    BY DEF Collect, history, FlowInv
  <2>2. Len(queue) \in Nat /\ accepted \in Nat /\ DOMAIN queue = 1 .. Len(queue)
    BY Lengths
  <2>3. ASSUME NEW i \in DOMAIN queue'
        PROVE  queue'[i] = accepted' - Len(queue') + i
    <3>1. n \in Nat /\ i \in 1 .. Len(queue) - n /\ n + i \in DOMAIN queue
      BY <1>2, <1>4, <2>2
    <3>2. queue'[i] = queue[n + i] /\ queue[n + i] = accepted - Len(queue) + (n + i)
      BY <1>3, <2>1, <3>1 DEF InFlight
    <3>3. QED
      BY <1>3, <2>1, <2>2, <3>1, <3>2
  <2>4. \A i \in DOMAIN batch' : batch'[i] = Settled' + i
    BY <1>2, <1>3, <1>4, <1>6, <2>1, <2>2 DEF InFlight
  <2>5. Len(queue') + Len(batch') <= accepted'
    BY <1>2, <1>3, <1>5, <2>1, <2>2 DEF InFlight
  <2>6. QED
    BY <2>3, <2>4, <2>5, Zenon DEF InFlight
<1>8. FileBelow' /\ Accounted' /\ FileInAppendOrder' /\ TornOnlyInProgress'
  BY <1>5, <1>6
     DEF FlowInv, FileBelow, Accounted, FileInAppendOrder, TornOnlyInProgress, Collect, history
<1>9. QueueBounded'
  BY <1>2, <1>3, Lengths, OptionsAssumption DEF FlowInv, QueueBounded
<1>10. n = 0 <=> batch' = <<>>
  BY <1>2, <1>3, EmptyIff
<1>11. Shape'
  BY <1>1, <1>10 DEF Shape, Alive, Collect, ownerVars
<1>12. QED
  BY <1>7, <1>8, <1>9, <1>11 DEF FlowInv

(* What one writev step does, entry by entry. *)
WritevEffect(complete) ==
  /\ Base \in Nat /\ Base <= Len(file) /\ Len(batch) \in Nat /\ Len(batch) >= 1
  /\ Settled \in Nat /\ batch[1] = Settled + 1 /\ Head(batch) = batch[1]
  /\ Len(file') = Base + 1 /\ DOMAIN file' = 1 .. Base + 1
  /\ \A i \in 1 .. Base : file'[i] = file[i] /\ file[i].id <= Settled
  /\ file'[Base + 1] = [id |-> Settled + 1, whole |-> complete]
  /\ batch' = IF complete THEN Tail(batch) ELSE batch
  /\ Len(Tail(batch)) = Len(batch) - 1
  /\ \A i \in 1 .. Len(batch) - 1 : Tail(batch)[i] = batch[i + 1]
  /\ Tail(batch) \in Seq(Id)
  /\ cut' = ~complete

(* What writev does to the file. *)
LEMMA WritevData ==
  ASSUME FlagsOK, StateOK, FlowInv, NEW complete \in BOOLEAN, Writev(complete)
  PROVE  WritevEffect(complete)
<1>1. batch # <<>> /\ batch \in Seq(Id) /\ file \in Seq(Entry)
  BY DEF Writev, FlowInv, Shape, StateOK
<1>2. Len(batch) \in Nat /\ Len(batch) >= 1 /\ DOMAIN batch = 1 .. Len(batch)
  BY <1>1, EmptyIff, Lengths
<1>3. Len(queue) \in Nat /\ Len(file) \in Nat /\ accepted \in Nat /\ DOMAIN file = 1 .. Len(file)
  BY Lengths
<1>4. Settled \in Nat /\ batch[1] = Settled + 1
  <2>1. InFlight /\ 1 \in DOMAIN batch
    BY <1>2 DEF FlowInv
  <2>2. Len(queue) + Len(batch) <= accepted /\ batch[1] = Settled + 1
    BY <2>1 DEF InFlight
  <2>3. QED
    BY <1>2, <1>3, <2>2 DEF Settled
<1>5. /\ Head(batch) = batch[1] /\ Tail(batch) \in Seq(Id)
      /\ Len(Tail(batch)) = Len(batch) - 1
      /\ \A i \in 1 .. Len(batch) - 1 : Tail(batch)[i] = batch[i + 1]
  BY <1>1, HeadTailProperties
<1>6. Base \in Nat /\ Base <= Len(file) /\ \A i \in 1 .. Base : file[i].id <= Settled
  <2>1. FileBelow
    BY DEF FlowInv
  <2>2. CASE cut
    <3>1. file # <<>> /\ Base = Len(file) - 1
      BY <2>1, <2>2 DEF FileBelow, Base
    <3>2. Len(file) # 0
      BY <1>1, <3>1, EmptyIff
    <3>3. QED
      BY <1>3, <2>1, <3>1, <3>2 DEF FileBelow
  <2>3. CASE ~cut
    BY <1>3, <2>1, <2>3 DEF FileBelow, Base
  <2>4. QED
    BY <2>2, <2>3
<1>7. [id |-> Settled + 1, whole |-> complete] \in Entry
  BY <1>4 DEF Entry, Id
<1>8. file' = Append(Prefix(file, Base), [id |-> Settled + 1, whole |-> complete])
  <2>1. Prefix(file, Len(file)) = file
    BY <1>1, SubSeqFull DEF Prefix
  <2>2. (IF cut THEN Prefix(file, Len(file) - 1) ELSE file) = Prefix(file, Base)
    BY <2>1 DEF Base
  <2>3. QED
    BY <1>4, <1>5, <2>2 DEF Writev
<1>9. /\ Prefix(file, Base) \in Seq(Entry) /\ Len(Prefix(file, Base)) = Base
      /\ \A i \in 1 .. Base : Prefix(file, Base)[i] = file[i]
  BY <1>1, <1>3, <1>6, SplitSeq DEF Prefix
<1>10. /\ Len(file') = Base + 1 /\ DOMAIN file' = 1 .. Base + 1
       /\ \A i \in 1 .. Base : file'[i] = file[i]
       /\ file'[Base + 1] = [id |-> Settled + 1, whole |-> complete]
  <2>1. file' \in Seq(Entry)
    BY <1>7, <1>8, <1>9, AppendProperties
  <2>2. QED
    BY <1>7, <1>8, <1>9, <2>1, AppendProperties, LenProperties
<1>11. batch' = (IF complete THEN Tail(batch) ELSE batch) /\ cut' = ~complete
  BY DEF Writev
<1>12. QED
  BY <1>2, <1>4, <1>5, <1>6, <1>10, <1>11 DEF WritevEffect

(* A complete frame becomes the last settled one; a torn one stays first   *)
(* in the batch.                                                           *)
LEMMA WritevFlow ==
  ASSUME FlagsOK, StateOK, FlowInv, NEW complete \in BOOLEAN, Writev(complete)
  PROVE  FlowInv'
<1>0. WritevEffect(complete)
  BY WritevData
<1>1. /\ Len(queue) \in Nat /\ accepted \in Nat /\ queue' = queue /\ accepted' = accepted
      /\ dropped' = dropped /\ DOMAIN queue = 1 .. Len(queue) /\ main' = main /\ Alive
      /\ writer' = IF complete /\ Len(batch) = 1 THEN "offset" ELSE "write"
  BY Lengths DEF Writev, history, ownerVars
<1>2. /\ Base \in Nat /\ Base <= Len(file) /\ Len(file) \in Nat /\ Settled \in Nat
      /\ DOMAIN file = 1 .. Len(file) /\ Len(file') = Base + 1 /\ DOMAIN file' = 1 .. Base + 1
      /\ file'[Base + 1].id = Settled + 1 /\ file'[Base + 1].whole = complete
      /\ cut' = ~complete
  BY <1>0, Lengths DEF WritevEffect
<1>3. Settled' = IF complete THEN Settled + 1 ELSE Settled
  BY <1>0, <1>1 DEF Settled, WritevEffect
<1>4. ASSUME NEW i \in DOMAIN file', i # Base + 1
      PROVE  /\ i \in 1 .. Base /\ i \in DOMAIN file /\ file'[i] = file[i]
             /\ file[i].id <= Settled /\ file[i].id \in Nat
  <2>1. i \in 1 .. Base /\ i \in 1 .. Len(file)
    BY <1>2, <1>4
  <2>2. QED
    BY <1>0, <1>2, <2>1, Lengths DEF WritevEffect, Id
<1>5. Base + 1 \in DOMAIN file'
  BY <1>2
<1>6. InFlight'
  <2>1. InFlight
    BY DEF FlowInv
  <2>2. \A i \in DOMAIN queue' : queue'[i] = accepted' - Len(queue') + i
    BY <1>1, <2>1 DEF InFlight
  <2>3. Len(queue') + Len(batch') <= accepted'
    BY <1>0, <1>1, <2>1 DEF InFlight, WritevEffect
  <2>4. CASE complete
    <3>1. batch' = Tail(batch) /\ DOMAIN batch' = 1 .. Len(batch) - 1
      BY <1>0, <2>4, LenProperties DEF WritevEffect
    <3>2. ASSUME NEW i \in DOMAIN batch'
          PROVE  batch'[i] = Settled' + i
      <4>1. i + 1 \in DOMAIN batch /\ i \in 1 .. Len(batch) - 1
        BY <1>0, <3>1, Lengths DEF WritevEffect
      <4>2. batch[i + 1] = Settled + (i + 1)
        BY <2>1, <4>1 DEF InFlight
      <4>3. QED
        BY <1>0, <1>2, <1>3, <2>4, <3>1, <4>1, <4>2 DEF WritevEffect
    <3>3. QED
      BY <2>2, <2>3, <3>2, Zenon DEF InFlight
  <2>5. CASE ~complete
    <3>1. batch' = batch /\ Settled' = Settled
      BY <1>0, <1>3, <2>5 DEF WritevEffect
    <3>2. QED
      BY <2>1, <2>2, <2>3, <3>1 DEF InFlight
  <2>6. QED
    BY <2>4, <2>5
<1>7. FileBelow'
  <2>1. \A i \in DOMAIN file' : (cut' /\ i = Len(file')) \/ file'[i].id <= Settled'
    <3>1. ASSUME NEW i \in DOMAIN file', i # Base + 1
          PROVE  file'[i].id <= Settled'
      BY <1>2, <1>3, <1>4, <3>1
    <3>2. (cut' /\ Base + 1 = Len(file')) \/ file'[Base + 1].id <= Settled'
      <4>1. complete => file'[Base + 1].id <= Settled'
        BY <1>2, <1>3
      <4>2. ~complete => cut' /\ Base + 1 = Len(file')
        BY <1>2
      <4>3. QED
        BY <4>1, <4>2
    <3>3. QED
      BY <3>1, <3>2
  <2>2. ASSUME cut'
        PROVE  /\ batch' # <<>> /\ file' # <<>>
               /\ file'[Len(file')].id = Settled' + 1 /\ ~file'[Len(file')].whole
    <3>1. ~complete
      BY <1>2, <2>2
    <3>2. batch' # <<>>
      BY <3>1 DEF Writev, FlowInv, Shape
    <3>3. file' # <<>>
      BY <1>5
    <3>4. QED
      BY <1>2, <1>3, <3>1, <3>2, <3>3
  <2>3. QED
    BY <2>1, <2>2 DEF FileBelow
<1>8. FileInAppendOrder'
  <2>1. FileInAppendOrder
    BY DEF FlowInv
  <2>2. ASSUME NEW i \in DOMAIN file', NEW j \in DOMAIN file', i < j
        PROVE  file'[i].id < file'[j].id
    <3>1. i # Base + 1
      BY <1>2, <2>2
    <3>2. CASE j = Base + 1
      BY <1>2, <1>4, <3>1, <3>2
    <3>3. CASE j # Base + 1
      BY <1>4, <2>1, <2>2, <3>1, <3>3 DEF FileInAppendOrder
    <3>4. QED
      BY <3>2, <3>3
  <2>3. QED
    BY <2>2 DEF FileInAppendOrder
<1>9. Accounted'
  <2>1. Accounted
    BY DEF FlowInv
  <2>2. dropped' \subseteq 1 .. Settled'
    BY <1>1, <1>2, <1>3, <2>1 DEF Accounted
  <2>3. ASSUME NEW n \in 1 .. Settled'
        PROVE  n \in dropped' \/ \E i \in DOMAIN file' : file'[i].whole /\ file'[i].id = n
    <3>1. CASE n \in 1 .. Settled /\ n \notin dropped
      <4>1. PICK i \in DOMAIN file : file[i].whole /\ file[i].id = n
        BY <2>1, <3>1 DEF Accounted
      <4>2. i \in 1 .. Base
        BY <1>2, <3>1, <4>1 DEF FlowInv, FileBelow, Base
      <4>3. i \in DOMAIN file' /\ file'[i] = file[i]
        BY <1>0, <1>2, <4>2 DEF WritevEffect
      <4>4. QED
        BY <4>1, <4>3
    <3>2. CASE n \notin 1 .. Settled
      <4>1. complete /\ n = Settled + 1
        BY <1>2, <1>3, <3>2
      <4>2. QED
        BY <1>2, <1>5, <4>1
    <3>3. QED
      BY <1>1, <3>1, <3>2
  <2>4. ASSUME NEW i \in DOMAIN file', file'[i].whole
        PROVE  file'[i].id \notin dropped'
    <3>1. CASE i = Base + 1
      BY <1>1, <1>2, <2>1, <3>1 DEF Accounted
    <3>2. CASE i # Base + 1
      BY <1>1, <1>4, <2>1, <2>4, <3>2 DEF Accounted
    <3>3. QED
      BY <3>1, <3>2
  <2>5. QED
    BY <2>2, <2>3, <2>4 DEF Accounted
<1>10. TornOnlyInProgress'
  <2>1. ASSUME NEW i \in DOMAIN file', ~file'[i].whole
        PROVE  \/ file'[i].id \in dropped'
               \/ cut' /\ i = Len(file') /\ batch' # <<>> /\ file'[i].id = Head(batch')
    <3>1. CASE i = Base + 1
      <4>1. ~complete
        BY <1>2, <2>1, <3>1
      <4>2. batch' = batch /\ Head(batch) = Settled + 1
        BY <1>0, <4>1 DEF WritevEffect
      <4>3. batch # <<>>
        BY DEF Writev, FlowInv, Shape
      <4>4. QED
        BY <1>2, <3>1, <4>1, <4>2, <4>3
    <3>2. CASE i # Base + 1
      <4>1. i \in 1 .. Base /\ i \in DOMAIN file /\ ~file[i].whole
        BY <1>4, <2>1, <3>2
      <4>2. ~(cut /\ i = Len(file))
        BY <1>2, <4>1 DEF Base
      <4>3. file[i].id \in dropped
        BY <4>1, <4>2 DEF FlowInv, TornOnlyInProgress
      <4>4. QED
        BY <1>1, <1>4, <3>2, <4>3
    <3>3. QED
      BY <3>1, <3>2
  <2>2. QED
    BY <2>1 DEF TornOnlyInProgress
<1>11. QueueBounded'
  BY <1>1 DEF FlowInv, QueueBounded
<1>12. Shape'
  <2>1. complete => (batch' = <<>> <=> Len(batch) = 1)
    <3>1. Tail(batch) = <<>> <=> Len(Tail(batch)) = 0
      BY <1>0, EmptyIff DEF WritevEffect
    <3>2. QED
      BY <1>0, <3>1 DEF WritevEffect
  <2>2. batch # <<>> /\ (~complete => batch' = batch)
    BY <1>0 DEF Writev, FlowInv, Shape, WritevEffect
  <2>3. QED
    BY <1>1, <2>1, <2>2 DEF Shape, Alive
<1>13. QED
  BY <1>6, <1>7, <1>8, <1>9, <1>10, <1>11, <1>12 DEF FlowInv

(* A fault gives up the frames of the batch, which become settled. *)
LEMMA FailFlow ==
  ASSUME StateOK, FlowInv, WritevFails
  PROVE  FlowInv'
<1>1. /\ batch' = <<>> /\ ~cut' /\ queue' = queue /\ accepted' = accepted /\ file' = file
      /\ dropped' = dropped \cup Frames(batch) /\ writer' = "offset" /\ main' = main
  BY DEF WritevFails, ownerVars
<1>2. /\ Len(queue) \in Nat /\ Len(batch) \in Nat /\ accepted \in Nat /\ Len(file) \in Nat
      /\ DOMAIN queue = 1 .. Len(queue) /\ DOMAIN batch = 1 .. Len(batch)
      /\ DOMAIN file = 1 .. Len(file) /\ \A i \in 1 .. Len(file) : file[i].id \in Nat
  BY Lengths DEF Id
<1>3. Len(batch') = 0 /\ DOMAIN batch' = {}
  <2>1. batch' \in Seq(Id)
    BY <1>1, EmptySeq
  <2>2. Len(batch') = 0
    BY <1>1, EmptySeq
  <2>3. QED
    BY <2>1, <2>2, LenProperties
<1>4. batch # <<>> /\ Len(batch) >= 1
  <2>1. batch # <<>> /\ batch \in Seq(Id)
    BY DEF WritevFails, FlowInv, Shape, StateOK
  <2>2. QED
    BY <1>2, <2>1, EmptyIff
<1>5. Settled \in Nat /\ Settled' = Settled + Len(batch) /\ Settled' = accepted - Len(queue)
  <2>1. Len(queue) + Len(batch) <= accepted
    BY DEF FlowInv, InFlight
  <2>2. QED
    BY <1>1, <1>2, <1>3, <2>1 DEF Settled
<1>6. \A n \in Settled + 1 .. Settled' : n \in Frames(batch)
  <2>1. ASSUME NEW n \in Settled + 1 .. Settled'
        PROVE  n \in Frames(batch)
    <3>1. n - Settled \in DOMAIN batch
      BY <1>2, <1>5
    <3>2. batch[n - Settled] = Settled + (n - Settled)
      BY <3>1 DEF FlowInv, InFlight
    <3>3. batch[n - Settled] = n
      BY <1>5, <3>2
    <3>4. QED
      BY <3>1, <3>3 DEF Frames
  <2>2. QED
    BY <2>1
<1>7. \A n \in Frames(batch) : n \in Settled + 1 .. Settled'
  <2>1. ASSUME NEW i \in DOMAIN batch
        PROVE  batch[i] \in Settled + 1 .. Settled'
    <3>1. batch[i] = Settled + i
      BY DEF FlowInv, InFlight
    <3>2. QED
      BY <1>2, <1>5, <3>1
  <2>2. QED
    BY <2>1 DEF Frames
<1>8. InFlight'
  <2>1. \A i \in DOMAIN queue : queue[i] = accepted - Len(queue) + i
    BY DEF FlowInv, InFlight
  <2>2. Len(queue) + 0 <= accepted
    BY <1>2, <1>5
  <2>3. QED
    BY <1>1, <1>3, <2>1, <2>2 DEF InFlight
<1>9. \A i \in DOMAIN file : file[i].id <= Settled'
  <2>1. ASSUME NEW i \in DOMAIN file
        PROVE  file[i].id <= Settled'
    <3>1. CASE cut /\ i = Len(file)
      BY <1>4, <1>5, <1>2, <3>1 DEF FlowInv, FileBelow
    <3>2. CASE file[i].id <= Settled
      BY <1>2, <1>5, <3>2
    <3>3. QED
      BY <3>1, <3>2 DEF FlowInv, FileBelow
  <2>2. QED
    BY <2>1
<1>10. FileBelow'
  BY <1>1, <1>9 DEF FileBelow
<1>11. Accounted'
  <2>1. Accounted
    BY DEF FlowInv
  <2>2. dropped' \subseteq 1 .. Settled'
    <3>1. 1 .. Settled \subseteq 1 .. Settled' /\ Settled + 1 .. Settled' \subseteq 1 .. Settled'
      BY <1>2, <1>5
    <3>2. dropped \subseteq 1 .. Settled
      BY <2>1 DEF Accounted
    <3>3. QED
      BY <1>1, <1>7, <3>1, <3>2
  <2>3. ASSUME NEW n \in 1 .. Settled'
        PROVE  n \in dropped' \/ \E i \in DOMAIN file' : file'[i].whole /\ file'[i].id = n
    <3>1. n \in 1 .. Settled \/ n \in Settled + 1 .. Settled'
      BY <1>2, <1>5
    <3>2. QED
      BY <1>1, <1>6, <2>1, <3>1 DEF Accounted
  <2>4. ASSUME NEW i \in DOMAIN file, file[i].whole
        PROVE  file[i].id \notin dropped \cup Frames(batch)
    <3>1. file[i].id <= Settled
      BY <2>4 DEF FlowInv, FileBelow
    <3>2. file[i].id \notin Frames(batch)
      BY <1>2, <1>5, <1>7, <3>1
    <3>3. QED
      BY <2>1, <2>4, <3>2 DEF Accounted
  <2>5. QED
    BY <1>1, <2>2, <2>3, <2>4 DEF Accounted
<1>12. TornOnlyInProgress'
  <2>1. ASSUME NEW i \in DOMAIN file, ~file[i].whole
        PROVE  file[i].id \in dropped'
    <3>1. CASE cut /\ i = Len(file)
      <4>1. file[i].id = Settled + 1
        BY <3>1 DEF FlowInv, FileBelow
      <4>2. Settled + 1 \in Settled + 1 .. Settled'
        BY <1>2, <1>4, <1>5
      <4>3. QED
        BY <1>1, <1>6, <4>1, <4>2
    <3>2. CASE ~(cut /\ i = Len(file))
      BY <1>1, <2>1, <3>2 DEF FlowInv, TornOnlyInProgress
    <3>3. QED
      BY <3>1, <3>2
  <2>2. QED
    BY <1>1, <2>1 DEF TornOnlyInProgress
<1>13. QueueBounded' /\ FileInAppendOrder' /\ Shape'
  BY <1>1 DEF FlowInv, QueueBounded, FileInAppendOrder, Shape
<1>14. QED
  BY <1>8, <1>10, <1>11, <1>12, <1>13 DEF FlowInv

(* A file that a death may leave behind: a final part of what it was, the  *)
(* last entry perhaps torn by the death.                                   *)
Remains(f) ==
  /\ f \in Seq(Entry) /\ Len(f) <= Len(file)
  /\ \A i \in 1 .. Len(f) : f[i].id = file[i].id

(* A death settles every frame: what is not whole in the file is given up. *)
LEMMA DieFlow ==
  ASSUME StateOK, FlowInv, NEW f, Remains(f),
         NEW how \in {"exited", "aborted", "crashed"}, Die(f, how)
  PROVE  FlowInv'
<1>1. /\ queue' = <<>> /\ batch' = <<>> /\ ~cut' /\ accepted' = accepted /\ file' = f
      /\ dropped' = (1 .. accepted) \ Whole(f) /\ main' = how
  BY DEF Die
<1>2. /\ Len(queue) \in Nat /\ Len(batch) \in Nat /\ accepted \in Nat /\ Len(file) \in Nat
      /\ DOMAIN file = 1 .. Len(file) /\ \A i \in 1 .. Len(file) : file[i].id \in Id
  BY Lengths
<1>3. Len(f) \in Nat /\ DOMAIN f = 1 .. Len(f) /\ Len(f) <= Len(file)
  BY LenProperties DEF Remains
<1>4. Len(queue') = 0 /\ Len(batch') = 0 /\ DOMAIN queue' = {} /\ DOMAIN batch' = {}
  <2>1. Len(<<>>) = 0 /\ <<>> \in Seq(Id)
    BY EmptySeq
  <2>2. DOMAIN <<>> = 1 .. Len(<<>>)
    BY <2>1, LenProperties
  <2>3. QED
    BY <1>1, <2>1, <2>2
<1>5. Settled' = accepted
  <2>1. accepted' = accepted
    BY <1>1
  <2>2. QED
    BY <1>2, <1>4, <2>1 DEF Settled
<1>6. ASSUME NEW i \in DOMAIN file
      PROVE  file[i].id \in 1 .. accepted
  <2>1. Len(queue) + Len(batch) <= accepted
    BY DEF FlowInv, InFlight
  <2>2. CASE cut /\ i = Len(file)
    <3>1. file[i].id = Settled + 1 /\ batch # <<>> /\ batch \in Seq(Id)
      BY <2>2 DEF FlowInv, FileBelow, StateOK
    <3>2. Len(batch) # 0
      BY <3>1, EmptyIff
    <3>3. QED
      BY <1>2, <2>1, <3>1, <3>2 DEF Settled, Id
  <2>3. CASE file[i].id <= Settled
    BY <1>2, <1>6, <2>1, <2>3 DEF Settled, Id
  <2>4. QED
    BY <2>2, <2>3 DEF FlowInv, FileBelow
<1>7. \A i \in DOMAIN f : i \in DOMAIN file /\ f[i].id = file[i].id /\ f[i].id \in 1 .. accepted
  BY <1>2, <1>3, <1>6 DEF Remains
<1>8. \A i, j \in DOMAIN f : i < j => f[i].id < f[j].id
  BY <1>7 DEF FlowInv, FileInAppendOrder
<1>9. InFlight'
  BY <1>1, <1>2, <1>4 DEF InFlight
<1>10. FileBelow'
  BY <1>1, <1>2, <1>5, <1>7 DEF FileBelow
<1>11. Accounted'
  BY <1>1, <1>5, <1>7 DEF Accounted, Whole
<1>12. TornOnlyInProgress'
  <2>1. ASSUME NEW i \in DOMAIN f, ~f[i].whole
        PROVE  f[i].id \notin Whole(f)
    <3>1. SUFFICES ASSUME NEW j \in DOMAIN f, f[j].whole, f[i].id = f[j].id
                   PROVE  FALSE
      BY DEF Whole
    <3>2. i < j \/ j < i
      BY <1>3, <2>1, <3>1
    <3>3. f[i].id \in Nat /\ f[j].id \in Nat
      BY <1>7
    <3>4. QED
      BY <1>8, <3>1, <3>2, <3>3
  <2>2. QED
    BY <1>1, <1>7, <2>1 DEF TornOnlyInProgress
<1>13. FileInAppendOrder'
  BY <1>1, <1>8 DEF FileInAppendOrder
<1>14. QueueBounded'
  BY <1>4, OptionsAssumption DEF QueueBounded
<1>15. Shape'
  BY <1>1 DEF Shape, Alive
<1>16. QED
  BY <1>9, <1>10, <1>11, <1>12, <1>13, <1>14, <1>15 DEF FlowInv

(* What a crash leaves of the file. *)
LEMMA CrashRemains ==
  ASSUME StateOK, NEW n \in durable .. Len(file)
  PROVE  /\ Remains(Prefix(file, n))
         /\ n > durable => Remains(Torn(file, n))
<1>1. file \in Seq(Entry) /\ Len(file) \in Nat /\ durable \in Nat /\ n \in 0 .. Len(file)
  BY LenProperties DEF StateOK
<1>2. Remains(Prefix(file, n))
  BY <1>1, SplitSeq DEF Remains, Prefix
<1>3. ASSUME n > durable
      PROVE  Remains(Torn(file, n))
  <2>1. n \in 1 .. Len(file)
    BY <1>1, <1>3
  <2>2. /\ Torn(file, n) \in Seq(Entry) /\ Len(Torn(file, n)) = n
        /\ \A i \in 1 .. n - 1 : Torn(file, n)[i] = file[i]
        /\ Torn(file, n)[n] = [id |-> file[n].id, whole |-> FALSE]
    BY <1>1, <2>1, TornSeq
  <2>3. \A i \in 1 .. n : Torn(file, n)[i].id = file[i].id
    BY <2>1, <2>2
  <2>4. QED
    BY <2>1, <2>2, <2>3 DEF Remains
<1>4. QED
  BY <1>2, <1>3

(* Every step keeps the frames in order. *)
LEMMA NextFlow == FlagsOK /\ StateOK /\ FlowInv /\ [Next]_vars => FlowInv'
<1> SUFFICES ASSUME FlagsOK, StateOK, FlowInv, [Next]_vars
             PROVE  FlowInv'
  OBVIOUS
<1>1. ASSUME NEW p \in Appenders, Push(p), Len(queue) < max_queue_entries,
             UNCHANGED <<batch, file, cut, dropped, writer, main>>
      PROVE  FlowInv'
  BY <1>1, PushFlow
<1>2. CASE /\ UNCHANGED <<queue, batch, file, cut, accepted, dropped>>
           /\ Shape'
  BY <1>2 DEF FlowInv, InFlight, FileBelow, Accounted, FileInAppendOrder,
              TornOnlyInProgress, QueueBounded, Settled
<1>3. Shape'
  BY NextState DEF FlowInv
<1>4. ASSUME NEW p \in Appenders, AppendAsync(p) \/ AppendBlocking(p)
      PROVE  FlowInv'
  <2>1. UNCHANGED <<batch, file, cut, dropped, writer, main>>
    BY <1>4 DEF AppendAsync, AppendBlocking, writerVars, ownerVars
  <2>2. CASE Push(p) /\ Len(queue) < max_queue_entries
    BY <1>1, <2>1, <2>2
  <2>3. CASE UNCHANGED <<queue, accepted>>
    BY <1>2, <1>3, <2>1, <2>3
  <2>4. QED
    BY <1>4, <2>2, <2>3 DEF AppendAsync, AppendBlocking
<1>5. ASSUME NEW p \in Appenders, SpuriousWakeup(p) \/ Notify(p)
      PROVE  FlowInv'
  BY <1>2, <1>3, <1>5 DEF SpuriousWakeup, Notify, writerVars, history
<1>6. CASE Collect
  BY <1>6, CollectFlow
<1>7. CASE CheckStop \/ StoreOffset \/ SyncBatch \/ Drain \/ WriterExit
  BY <1>2, <1>3, <1>7 DEF CheckStop, StoreOffset, SyncBatch, Drain, WriterExit, history
<1>8. CASE Writev(TRUE) \/ Writev(FALSE)
  BY <1>8, WritevFlow
<1>9. CASE WritevFails
  BY <1>9, FailFlow
<1>10. CASE StopSet \/ StopNotify \/ StopJoin
  BY <1>2, <1>3, <1>10 DEF StopSet, StopNotify, StopJoin, writerVars, history
<1>11. CASE Destroy
  <2>1. Remains(file)
    BY LenProperties DEF Remains, StateOK
  <2>2. QED
    BY <1>11, <2>1, DieFlow DEF Destroy
<1>12. CASE Crash
  BY <1>12, CrashRemains, DieFlow DEF Crash
<1>13. CASE Restart
  BY <1>2, <1>3, <1>13 DEF Restart, OpenFile, StartWriter
<1>14. CASE UNCHANGED vars
  BY <1>2, <1>3, <1>14 DEF vars, writerVars, history
<1>15. QED
  BY <1>4, <1>5, <1>6, <1>7, <1>8, <1>9, <1>10, <1>11, <1>12, <1>13, <1>14
     DEF Next, WriterStep, Ended

(* The inductive invariant of the module. *)
LEMMA FlowInvariant == Spec => [](FlagsOK /\ StateOK /\ FlowInv)
<1>1. Init => FlagsOK /\ StateOK /\ FlowInv
  BY InitType, TypeParts, InitFlow
<1>2. FlagsOK /\ StateOK /\ FlowInv /\ [Next]_vars => (FlagsOK /\ StateOK /\ FlowInv)'
  BY NextFlags, NextState, NextFlow DEF FlowInv
<1>3. QED
  BY <1>1, <1>2, PTL DEF Spec

(* The invariant that carries the others holds of every behaviour of the   *)
(* append functions, writerLoop, stop(), crashes and restarts.             *)
THEOREM FlowCorrect == Spec => []FlowInv
<1>1. FlagsOK /\ StateOK /\ FlowInv => FlowInv
  OBVIOUS
<1>2. QED
  BY <1>1, FlowInvariant, PTL

(* writerLoop writes no frame twice and no two frames out of the order in  *)
(* which queue_ accepted them.                                             *)
THEOREM OrderCorrect == Spec => []FileInAppendOrder
<1>1. FlowInv => FileInAppendOrder
  BY DEF FlowInv
<1>2. QED
  BY <1>1, FlowCorrect, PTL

(* Short writes, faults and crashes leave no torn frame in the file but    *)
(* those that were given up and the one that writev is in.                 *)
THEOREM TornCorrect == Spec => []TornOnlyInProgress
<1>1. FlowInv => TornOnlyInProgress
  BY DEF FlowInv
<1>2. QED
  BY <1>1, FlowCorrect, PTL

(* However many appenders one notify_all wakes, queue_ does not outgrow    *)
(* max_queue_entries.                                                      *)
THEOREM BoundCorrect == Spec => []QueueBounded
<1>1. FlowInv => QueueBounded
  BY DEF FlowInv
<1>2. QED
  BY <1>1, FlowCorrect, PTL

(* The frames in flight, by number. *)
LEMMA InFlightFrames ==
  ASSUME StateOK, FlowInv
  PROVE  /\ Settled \in Nat
         /\ \A n : n \in Frames(batch) <=> n \in Settled + 1 .. Settled + Len(batch)
         /\ \A n : n \in Frames(queue) <=> n \in Settled + Len(batch) + 1 .. accepted
<1>1. /\ Len(queue) \in Nat /\ DOMAIN queue = 1 .. Len(queue)
      /\ Len(batch) \in Nat /\ DOMAIN batch = 1 .. Len(batch) /\ accepted \in Nat
  BY Lengths
<1>2. /\ Len(queue) + Len(batch) <= accepted
      /\ \A i \in 1 .. Len(queue) : queue[i] = accepted - Len(queue) + i
      /\ \A i \in 1 .. Len(batch) : batch[i] = Settled + i
  BY <1>1 DEF FlowInv, InFlight
<1>3. Settled \in Nat /\ Settled + Len(batch) = accepted - Len(queue)
  BY <1>1, <1>2 DEF Settled
<1>4. ASSUME NEW s, NEW base \in Nat, NEW k \in Nat, DOMAIN s = 1 .. k,
             \A i \in 1 .. k : s[i] = base + i
      PROVE  \A n : n \in Frames(s) <=> n \in base + 1 .. base + k
  <2>1. ASSUME NEW n \in base + 1 .. base + k
        PROVE  n \in Frames(s)
    <3>1. n - base \in 1 .. k /\ base + (n - base) = n
      BY <1>4
    <3>2. n - base \in DOMAIN s /\ s[n - base] = n
      BY <1>4, <3>1
    <3>3. QED
      BY <3>2 DEF Frames
  <2>2. ASSUME NEW n \in Frames(s)
        PROVE  n \in base + 1 .. base + k
    <3>1. PICK i \in 1 .. k : n = base + i
      BY <1>4, <2>2 DEF Frames
    <3>2. QED
      BY <3>1
  <2>3. QED
    BY <2>1, <2>2
<1>5. \A n : n \in Frames(batch) <=> n \in Settled + 1 .. Settled + Len(batch)
  BY <1>1, <1>2, <1>3, <1>4
<1>6. \A n : n \in Frames(queue) <=> n \in Settled + Len(batch) + 1 .. Settled + Len(batch) + Len(queue)
  <2>1. Settled + Len(batch) \in Nat
    BY <1>1, <1>3
  <2>2. \A i \in 1 .. Len(queue) : queue[i] = Settled + Len(batch) + i
    BY <1>2, <1>3
  <2>3. QED
    BY <1>1, <1>4, <2>1, <2>2
<1>7. Settled + Len(batch) + Len(queue) = accepted
  BY <1>1, <1>3
<1>8. QED
  BY <1>3, <1>5, <1>6, <1>7

(* A frame that queue_ accepted is whole in the file, on its way there, or *)
(* was given up by a fault or a death, and never two of these at once.     *)
THEOREM NothingVanishesCorrect == Spec => []NothingVanishes
<1>1. ASSUME StateOK, FlowInv
      PROVE  NothingVanishes
  <2>1. /\ Settled \in Nat /\ Len(batch) \in Nat /\ Len(queue) \in Nat /\ accepted \in Nat
        /\ Settled + Len(batch) <= accepted
    <3>1. Len(queue) \in Nat /\ Len(batch) \in Nat /\ accepted \in Nat
      BY <1>1, Lengths
    <3>2. Settled \in Nat
      BY <1>1, InFlightFrames
    <3>3. QED
      BY <3>1, <3>2 DEF Settled
  <2>2. ASSUME NEW n \in Whole(file)
        PROVE  n \in 1 .. Settled /\ n \notin dropped
    <3>1. PICK i \in DOMAIN file : file[i].whole /\ n = file[i].id
      BY <2>2 DEF Whole
    <3>2. n \in Id
      BY <1>1, <3>1, Lengths
    <3>3. n <= Settled /\ n \notin dropped
      BY <1>1, <3>1 DEF FlowInv, FileBelow, Accounted
    <3>4. QED
      BY <2>1, <3>2, <3>3 DEF Id
  <2>3. ASSUME NEW n \in 1 .. Settled
        PROVE  n \in Whole(file) \cup dropped
    BY <1>1, <2>3 DEF FlowInv, Accounted, Whole
  <2>4. dropped \subseteq 1 .. Settled
    BY <1>1 DEF FlowInv, Accounted
  <2>5. \A n : n \in Frames(batch) \cup Frames(queue) <=> n \in Settled + 1 .. accepted
    <3>1. \A n : n \in Settled + 1 .. accepted <=>
                   \/ n \in Settled + 1 .. Settled + Len(batch)
                   \/ n \in Settled + Len(batch) + 1 .. accepted
      BY <2>1
    <3>2. QED
      BY <1>1, <3>1, InFlightFrames
  <2>6. \A n : n \in 1 .. accepted <=> n \in 1 .. Settled \/ n \in Settled + 1 .. accepted
    BY <2>1
  <2>7. \A n : ~(n \in 1 .. Settled /\ n \in Settled + 1 .. accepted)
    BY <2>1
  <2>8. QED
    BY <2>2, <2>3, <2>4, <2>5, <2>6, <2>7 DEF NothingVanishes
<1>2. QED
  BY <1>1, FlowInvariant, PTL

-----------------------------------------------------------------------------
(* stop() and the destructor. *)

(* Until the join the writer is not joined and only a fault can have       *)
(* raised the flag; after it the writer has ended and the file is synced.  *)
OwnerInv ==
  /\ main \in {"run", "notify", "join"} => joined = FALSE
  /\ main = "run" /\ stop_flag => faults > 0
  /\ main \in {"stopped", "aborted"} /\ ~joined => faults > 0
  /\ main = "stopped" /\ joined =>
       writer = "done" /\ (durability_mode > 0 => durable = Len(file))

(* Every step keeps what stop() relies on. *)
LEMMA NextOwner == StateOK /\ OwnerInv /\ [Next]_vars => OwnerInv'
<1> SUFFICES ASSUME StateOK, OwnerInv, [Next]_vars
             PROVE  OwnerInv'
  OBVIOUS
<1> USE DEF OwnerInv
<1>1. ASSUME NEW p \in Appenders,
             AppendAsync(p) \/ AppendBlocking(p) \/ SpuriousWakeup(p) \/ Notify(p)
      PROVE  OwnerInv'
  BY <1>1 DEF AppendAsync, AppendBlocking, SpuriousWakeup, Notify, writerVars, ownerVars, history
<1>2. CASE Collect \/ CheckStop \/ StoreOffset \/ SyncBatch \/ Drain \/ WriterExit
  BY <1>2 DEF Collect, CheckStop, StoreOffset, SyncBatch, Drain, WriterExit, ownerVars, history
<1>3. ASSUME NEW complete \in BOOLEAN, Writev(complete)
      PROVE  OwnerInv'
  BY <1>3 DEF Writev, ownerVars, history
<1>4. CASE WritevFails
  BY <1>4 DEF WritevFails, ownerVars, StateOK
<1>5. CASE StopSet
  BY <1>5 DEF StopSet, writerVars, history
<1>6. CASE StopNotify
  BY <1>6 DEF StopNotify, writerVars, history
<1>7. CASE StopJoin
  BY <1>7 DEF StopJoin, history
<1>8. CASE Destroy
  BY <1>8 DEF Destroy, Die
<1>9. CASE Crash
  <2>1. main' = "crashed"
    BY <1>9 DEF Crash, Die
  <2>2. QED
    BY <2>1
<1>10. CASE Restart
  BY <1>10 DEF Restart, OpenFile, StartWriter
<1>11. CASE UNCHANGED vars
  BY <1>11 DEF vars, writerVars, ownerVars, history
<1>12. QED
  BY <1>1, <1>2, <1>3, <1>4, <1>5, <1>6, <1>7, <1>8, <1>9, <1>10, <1>11
     DEF Next, WriterStep, Ended

(* So it holds all the time. *)
LEMMA OwnerInvariant == Spec => []OwnerInv
<1>1. Init => OwnerInv
  BY DEF Init, OwnerInv
<1>2. QED
  BY <1>1, NextOwner, FlowInvariant, PTL DEF Spec

(* stop() returns from its join with the writer ended, no batch in its     *)
(* hands and, unless durability_mode is 0, the whole file on the disk.     *)
THEOREM StopSyncsCorrect == Spec => []StopSyncs
<1>1. FlowInv /\ OwnerInv => StopSyncs
  BY DEF FlowInv, OwnerInv, Shape, StopSyncs
<1>2. QED
  BY <1>1, FlowCorrect, OwnerInvariant, PTL

(* Only a failed writev makes stop() return without the join and ~Aof()    *)
(* terminate the process.                                                  *)
THEOREM UnjoinedCorrect == Spec => []UnjoinedOnlyAfterFault
<1>1. OwnerInv => UnjoinedOnlyAfterFault
  BY DEF OwnerInv, UnjoinedOnlyAfterFault
<1>2. QED
  BY <1>1, OwnerInvariant, PTL

-----------------------------------------------------------------------------
(* What getCurrentOffset() shows. *)

OffsetInv == Alive => written_offset <= Base

(* A writev leaves the final entries of the file alone. *)
LEMMA WritevBase ==
  ASSUME StateOK, FlowInv, NEW complete \in BOOLEAN, Writev(complete)
  PROVE  /\ Base \in Nat /\ Base' \in Nat
         /\ Base <= Base' /\ Base <= Len(file) /\ Base <= Len(file')
         /\ \A i \in 1 .. Base : file'[i] = file[i]
<1> DEFINE kept == IF cut THEN Prefix(file, Len(file) - 1) ELSE file
<1>1. file \in Seq(Entry) /\ Len(file) \in Nat /\ (cut => Len(file) > 0)
  <2>1. file \in Seq(Entry) /\ (cut => file # <<>>)
    BY DEF StateOK, FlowInv, FileBelow
  <2>2. QED
    BY <2>1, EmptyIff
<1>2. kept \in Seq(Entry) /\ Len(kept) = Base /\ \A i \in 1 .. Base : kept[i] = file[i]
  <2>1. CASE cut
    <3>1. Len(file) - 1 \in 0 .. Len(file)
      BY <1>1, <2>1
    <3>2. QED
      BY <1>1, <2>1, <3>1, SplitSeq DEF Prefix, Base
  <2>2. CASE ~cut
    BY <1>1, <2>2 DEF Base
  <2>3. QED
    BY <2>1, <2>2
<1>3. Base \in Nat /\ Base <= Len(file)
  BY <1>1 DEF Base
<1>4. [id |-> Head(batch), whole |-> complete] \in Entry
  <2>1. batch # <<>> /\ batch \in Seq(Id)
    BY DEF Writev, StateOK, FlowInv, Shape
  <2>2. QED
    BY <2>1, HeadTailProperties DEF Entry
<1>5. /\ file' = Append(kept, [id |-> Head(batch), whole |-> complete])
      /\ cut' = ~complete
  BY DEF Writev
<1>6. Len(file') = Base + 1 /\ \A i \in 1 .. Base : file'[i] = kept[i]
  BY <1>2, <1>3, <1>4, <1>5, AppendProperties
<1>7. Base <= Base' /\ Base' \in Nat
  BY <1>3, <1>6 DEF Base
<1>8. QED
  BY <1>2, <1>3, <1>6, <1>7

(* The final entries that the offset covers, at a step of one process. *)
OffsetStep ==
  Alive /\ Alive' =>
    /\ written_offset <= written_offset'
    /\ written_offset <= Len(file')
    /\ Prefix(file', written_offset) = Prefix(file, written_offset)

(* Every step keeps the offset below the entry being written. *)
LEMMA NextOffset ==
  StateOK /\ FlowInv /\ OffsetInv /\ StateOK' /\ [Next]_vars => OffsetInv' /\ OffsetStep
<1> SUFFICES ASSUME StateOK, FlowInv, OffsetInv, StateOK', [Next]_vars
             PROVE  OffsetInv' /\ OffsetStep
  OBVIOUS
<1>1. /\ file \in Seq(Entry) /\ Len(file) \in Nat /\ written_offset \in Nat
      /\ file' \in Seq(Entry) /\ Len(file') \in Nat
  BY LenProperties DEF StateOK
<1>2. Base \in Nat /\ Base <= Len(file)
  <2>1. cut => file # <<>>
    BY DEF FlowInv, FileBelow
  <2>2. cut => Len(file) > 0
    BY <1>1, <2>1, EmptyIff
  <2>3. QED
    BY <1>1, <2>2 DEF Base
<1>3. CASE UNCHANGED <<file, cut, written_offset>> /\ (Alive' => Alive)
  BY <1>1, <1>2, <1>3 DEF OffsetInv, OffsetStep, Base
<1>4. ASSUME NEW p \in Appenders,
             AppendAsync(p) \/ AppendBlocking(p) \/ SpuriousWakeup(p) \/ Notify(p)
      PROVE  OffsetInv' /\ OffsetStep
  BY <1>3, <1>4 DEF AppendAsync, AppendBlocking, SpuriousWakeup, Notify, writerVars, Alive
<1>5. CASE Collect \/ CheckStop \/ SyncBatch \/ Drain \/ WriterExit
  BY <1>3, <1>5 DEF Collect, CheckStop, SyncBatch, Drain, WriterExit, Alive
<1>6. ASSUME NEW complete \in BOOLEAN, Writev(complete)
      PROVE  OffsetInv' /\ OffsetStep
  <2>1. /\ written_offset' = written_offset /\ written_offset <= Base /\ Alive
    BY <1>6 DEF Writev, OffsetInv
  <2>2. /\ Base' \in Nat /\ Base <= Base' /\ Base <= Len(file')
        /\ \A i \in 1 .. Base : file'[i] = file[i]
    BY <1>6, WritevBase
  <2>3. written_offset <= Len(file') /\ written_offset <= Len(file) /\ written_offset <= Base'
    BY <1>1, <1>2, <2>1, <2>2
  <2>4. Prefix(file', written_offset) = Prefix(file, written_offset)
    <3>1. \A i \in 1 .. written_offset : file'[i] = file[i]
      BY <1>1, <1>2, <2>1, <2>2
    <3>2. /\ Prefix(file, written_offset) \in Seq(Entry)
          /\ Prefix(file', written_offset) \in Seq(Entry)
          /\ Len(Prefix(file, written_offset)) = written_offset
          /\ Len(Prefix(file', written_offset)) = written_offset
          /\ \A i \in 1 .. written_offset : Prefix(file', written_offset)[i] = file'[i]
          /\ \A i \in 1 .. written_offset : Prefix(file, written_offset)[i] = file[i]
      <4>1. written_offset \in 0 .. Len(file) /\ written_offset \in 0 .. Len(file')
        BY <1>1, <2>3
      <4>2. QED
        BY <1>1, <4>1, SplitSeq DEF Prefix
    <3>3. QED
      BY <3>1, <3>2, SeqEqual
  <2>5. QED
    BY <1>1, <2>1, <2>3, <2>4 DEF OffsetInv, OffsetStep
<1>7. CASE WritevFails
  <2>1. /\ UNCHANGED <<file, written_offset>> /\ cut' = FALSE /\ Alive
    BY <1>7 DEF WritevFails
  <2>2. Base' = Len(file)
    BY <2>1 DEF Base
  <2>3. QED
    BY <1>1, <1>2, <2>1, <2>2 DEF OffsetInv, OffsetStep
<1>8. CASE StoreOffset
  <2>1. UNCHANGED <<file, cut>> /\ Alive /\ Alive' /\ ~cut
    BY <1>8 DEF StoreOffset, FlowInv, FileBelow, Shape, ownerVars, Alive
  <2>2. CASE written_offset' = Len(file)
    BY <1>1, <1>2, <2>1, <2>2 DEF OffsetInv, OffsetStep, Base
  <2>3. CASE UNCHANGED written_offset
    BY <1>3, <2>1, <2>3
  <2>4. QED
    BY <1>8, <2>2, <2>3 DEF StoreOffset
<1>9. CASE StopSet \/ StopNotify \/ StopJoin
  BY <1>3, <1>9 DEF StopSet, StopNotify, StopJoin, writerVars, Alive
<1>10. CASE Destroy \/ Crash
  BY <1>10 DEF Destroy, Crash, Die, Alive, OffsetInv, OffsetStep
<1>11. CASE Restart
  <2>1. /\ file' = file /\ cut' = cut /\ written_offset' = Len(file) /\ ~cut /\ ~Alive
    BY <1>11 DEF Restart, OpenFile, StartWriter, FlowInv, FileBelow, Shape
  <2>2. QED
    BY <1>1, <2>1 DEF OffsetInv, OffsetStep, Base
<1>12. CASE UNCHANGED vars
  BY <1>3, <1>12 DEF vars, writerVars, ownerVars, Alive
<1>13. QED
  BY <1>4, <1>5, <1>6, <1>7, <1>8, <1>9, <1>10, <1>11, <1>12 DEF Next, WriterStep, Ended

(* What a reader of getCurrentOffset() relies on: while the process lives, *)
(* the offset never goes back, never covers a frame that writev is still   *)
(* in, and what it covers does not change.                                 *)
THEOREM BelowOffsetFinalCorrect == Spec => BelowOffsetFinal
<1>1. Init => OffsetInv
  <2>1. Len(<<>>) = 0
    BY EmptySeq
  <2>2. QED
    BY <2>1 DEF Init, OffsetInv, Base
<1>2. (FlagsOK /\ StateOK /\ FlowInv) /\ (FlagsOK /\ StateOK /\ FlowInv)' /\ OffsetInv
        /\ [Next]_vars => OffsetInv' /\ OffsetStep
  BY NextOffset
<1>3. OffsetStep =>
        [Alive /\ Alive' =>
           /\ written_offset <= written_offset'
           /\ written_offset <= Len(file')
           /\ Prefix(file', written_offset) = Prefix(file, written_offset)]_vars
  BY DEF OffsetStep
<1>4. QED
  BY <1>1, <1>2, <1>3, FlowInvariant, PTL DEF Spec, BelowOffsetFinal
=============================================================================
