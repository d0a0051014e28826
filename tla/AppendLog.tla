------------------------------ MODULE AppendLog ------------------------------
(***************************************************************************)
(* What an append-only file promises to the threads that append to it,     *)
(* whatever queue, batches and partial writes are behind it: frames reach  *)
(* the log one at a time and in the order in which they were accepted.     *)
(* A fault gives up the oldest pending frames, of which at most the first  *)
(* leaves a torn entry; the death of the process gives up all of them and  *)
(* may cost the log its end.  Readers are told how long the log was at     *)
(* some time since the process started.                                    *)
(***************************************************************************)
EXTENDS Naturals, Sequences

VARIABLES
  log,      \* the entries [id, whole] that are final
  pending,  \* the frames accepted and not yet in the log
  next,     \* how many frames were accepted
  published \* the length of the log that readers are told

vars == <<log, pending, next, published>>

Entry(n, w) == [id |-> n, whole |-> w]

Init == log = <<>> /\ pending = <<>> /\ next = 0 /\ published = 0

Accept ==
  /\ next' = next + 1
  /\ pending' = Append(pending, next + 1)
  /\ UNCHANGED <<log, published>>

Persist ==
  /\ pending # <<>>
  /\ log' = Append(log, Entry(Head(pending), TRUE))
  /\ pending' = Tail(pending)
  /\ UNCHANGED <<next, published>>

GiveUp ==
  /\ \E n \in 1 .. Len(pending) : pending' = SubSeq(pending, n + 1, Len(pending))
  /\ log' \in {log, Append(log, Entry(Head(pending), FALSE))}
  /\ UNCHANGED <<next, published>>

Perish ==
  /\ pending' = <<>>
  /\ \/ \E n \in 0 .. Len(log) :
          \/ log' = SubSeq(log, 1, n)
          \/ n > 0 /\ log' = [SubSeq(log, 1, n) EXCEPT ![n] = Entry(log[n].id, FALSE)]
     \/ pending # <<>> /\ log' = Append(log, Entry(Head(pending), FALSE))
  /\ UNCHANGED <<next, published>>

Publish ==
  /\ published' = Len(log)
  /\ UNCHANGED <<log, pending, next>>

Next == Accept \/ Persist \/ GiveUp \/ Perish \/ Publish

Spec == Init /\ [][Next]_vars
=============================================================================
