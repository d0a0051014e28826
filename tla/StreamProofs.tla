------------------------------ MODULE StreamProofs ------------------------------
(***************************************************************************)
(* Theorems about the messages between a master and its replicas, for any  *)
(* number of appending threads, connections, replicas and commands: the    *)
(* type invariant, that the two ends of a connection agree on where a      *)
(* message begins and ends, and what replicas have applied.                *)
(***************************************************************************)
EXTENDS ReplicationProofs, WireProofs

(* The file: every entry is a whole frame, and readers are told of no      *)
(* frame that is not there.                                                *)
FileShape ==
  /\ log \in Seq([id : 1 .. MaxAppends, whole : {TRUE}])
  /\ pending \in Seq(1 .. MaxAppends)
  /\ next \in 0 .. MaxAppends
  /\ published \in 0 .. Len(log)

Fds == Descriptors \cup {Invalid}
Messages == [out : Seq(Seq(Byte)), into : 0 .. MaxConns]
ListenSteps == {"idle", "notify", "call", "read", "send"}

(* The threads of the master. *)
ListenShape ==
  listen \in [Appenders -> [step : ListenSteps, left : Nat, off : Nat, pos : Nat,
                            fd : Fds, sending : Messages]]
ThreadShape ==
  handler \in [Connections -> [step : {"none", "ack", "receive", "done"}, fd : Fds,
                               sending : Messages]]

(* A listener has read no more of the file than there is, and runs no more *)
(* often than listeners are registered.                                    *)
Placed ==
  \A p \in Appenders :
    /\ listen[p].left <= listeners
    /\ listen[p].off <= listen[p].pos /\ listen[p].pos <= Len(log)

(* A thread has a message exactly while it is sending one. *)
Sends ==
  /\ \A p \in Appenders : listen[p].step = "send" <=> listen[p].sending.out # <<>>
  /\ \A c \in Connections : handler[c].step = "ack" <=> handler[c].sending.out # <<>>

(* accept() returns the connections in the order of their numbers, and     *)
(* every return that was not a failure is one connection: Taken of them.   *)
Taken ==
  listeners + (IF acceptor.step = "register" THEN 1 ELSE 0) - mishaps.accept
Counted ==
  /\ listeners \in Nat
  /\ acceptor.step \in {"accept", "register"} /\ acceptor.conn \in 0 .. MaxConns
  /\ client_fd \in Fds
  /\ DOMAIN mishaps = {"loss", "accept", "read"}
  /\ mishaps.accept \in 0 .. MaxAcceptFaults
  /\ Taken \in Nat /\ Taken + Len(backlog) <= MaxConns
  /\ \A i \in 1 .. Len(backlog) : backlog[i] = Taken + i
  /\ \A c \in Connections : link[c] # "none" <=> c <= Taken + Len(backlog)

NetShape ==
  /\ net \in [Connections -> Seq(Byte)]
  /\ link \in [Connections -> {"none", "up", "reset", "dead"}]
  /\ beats \subseteq Connections /\ mixed \subseteq Connections

-----------------------------------------------------------------------------
(* The threads that send, the message each is sending and the descriptor   *)
(* it sends it on.                                                         *)
Senders == ({"listener"} \X Appenders) \cup ({"handler"} \X Connections)
Msg(x) == IF x[1] = "listener" THEN listen[x[2]].sending ELSE handler[x[2]].sending
Fd(x)  == IF x[1] = "listener" THEN listen[x[2]].fd ELSE handler[x[2]].fd

(* The messages that the master may send: acknowledgements, and commands   *)
(* that are in its file.                                                   *)
Packets ==
  {Pieces(ACK, 0, <<>>)} \cup
  {IncrSync(off, Commands[log[n].id]) : off \in 0 .. Len(log), n \in 1 .. Len(log)}

Rest(pc, k) == SubSeq(pc, k + 1, Len(pc))

(* Thread x is in the middle of a message that it has begun to send on c. *)
Within(x, c) == Msg(x).out # <<>> /\ Msg(x).into = c

(* Connection c is up, and no bytes of one message are inside another. *)
Clean(c) == c \in Connections \ mixed /\ link[c] = "up"

(* k pieces of pc are sent, to the connection that is still behind the     *)
(* descriptor, and nothing else is under way on it.                        *)
OnTrack(x, pc, k) ==
  /\ Msg(x).out = Rest(pc, k)
  /\ Msg(x).into = 0 => k = 0
  /\ Clean(Msg(x).into) => Behind(Fd(x)) = Msg(x).into /\ net[Msg(x).into] = Joined(pc, k)

Tracks ==
  \A x \in Senders :
    Msg(x).out # <<>> => \E pc \in Packets : \E k \in 0 .. Len(pc) - 1 : OnTrack(x, pc, k)

(* At most one thread is in the middle of a message on such a connection. *)
OneSender ==
  \A c \in Connections : Clean(c) =>
    \A x, y \in Senders : Within(x, c) /\ Within(y, c) => x = y

(* What is under way on a connection is the beginning of one message, and  *)
(* all of it or nothing when no thread is within a message there.          *)
Streams ==
  \A c \in Connections \ mixed :
    /\ \E pc \in Packets : \E k \in 0 .. Len(pc) : net[c] = Joined(pc, k)
    /\ link[c] = "up" /\ (\A x \in Senders : ~Within(x, c)) =>
         net[c] = <<>> \/ \E pc \in Packets : net[c] = Joined(pc, Len(pc))

(* A connection that is not made yet has carried nothing and is behind no  *)
(* descriptor.                                                             *)
Unmade ==
  /\ \A d \in Descriptors : fds[d] # 0 => link[fds[d]] # "none"
  /\ \A c \in Connections : link[c] = "none" =>
       net[c] = <<>> /\ \A x \in Senders : Msg(x).into # c

(* A replica that has given up its connection was misled by mixed bytes. *)
Following ==
  /\ replica \in [Replicas -> [step : {"connect", "receive"}, conn : 0 .. MaxConns]]
  /\ \A r \in Replicas :
       /\ replica[r].step = "receive" => replica[r].conn \in Connections
       /\ replica[r].conn \in Connections \ mixed => replica[r].step = "receive"

TypeInv ==
  FileShape /\ ListenShape /\ ThreadShape /\ Placed /\ Sends /\ Counted /\ NetShape
  /\ Following
StreamInv == Tracks /\ OneSender /\ Streams /\ Unmade

-----------------------------------------------------------------------------
(* The messages of the master. *)

(* What the instance is given. *)
LEMMA Given ==
  /\ MaxAppends \in Nat /\ MaxConns \in Nat /\ MaxAcceptFaults \in Nat
  /\ Descriptors \subseteq Nat /\ Invalid \notin Descriptors
  /\ \A n \in 1 .. MaxAppends :
       /\ Commands[n] \in [cmd : Seq(Byte), key : Seq(Byte), value : Seq(Byte)]
       /\ 20 + Len(Commands[n].cmd) + Len(Commands[n].key) + Len(Commands[n].value) < Huge
<1>1. Descriptors \subseteq Nat
  BY ReplicationAssumption
<1>2. -1 \notin Nat
  OBVIOUS
<1>3. Invalid \notin Descriptors
  BY <1>1, <1>2 DEF Invalid
<1>4. QED
  BY <1>3, ReplicationAssumption

(* An acknowledgement has no payload. *)
LEMMA AckIs == IsPacket(Pieces(ACK, 0, <<>>), ACK, <<>>)
<1>1. <<>> \in Payloads
  BY DEF Payloads, Huge
<1>2. QED
  BY <1>1, PiecesAre

(* The payload of an INCR_SYNC is the command, with its offset. *)
Entity(off, c) == [sequence |-> off, cmd |-> c.cmd, key |-> c.key, value |-> c.value]

(* An INCR_SYNC of a command in the file. *)
LEMMA SyncIs ==
  ASSUME NEW off \in Nat, NEW n \in 1 .. MaxAppends
  PROVE  /\ Entity(off, Commands[n]) \in Entities
         /\ IsPacket(IncrSync(off, Commands[n]), INCR_SYNC, Serialize(Entity(off, Commands[n])))
<1> DEFINE e == Entity(off, Commands[n])
<1>1. /\ Commands[n] \in [cmd : Seq(Byte), key : Seq(Byte), value : Seq(Byte)]
      /\ 20 + Len(Commands[n].cmd) + Len(Commands[n].key) + Len(Commands[n].value) < Huge
  BY Given
<1>2. e \in Entities
  BY <1>1 DEF Entities, Entity
<1>3. Serialize(e) \in Payloads
  BY <1>2, RoundTrip
<1>4. IncrSync(off, Commands[n]) = Pieces(INCR_SYNC, off, Serialize(e))
  BY DEF IncrSync, Entity
<1> HIDE DEF e
<1>5. QED
  BY <1>2, <1>3, <1>4, PiecesAre DEF e

(* Every message of the master is one that can be told apart. *)
LEMMA PacketsAre ==
  ASSUME FileShape
  PROVE  /\ \A pc \in Packets : \E type, payload : IsPacket(pc, type, payload)
         /\ \A pc \in Packets : pc \in Seq(Seq(Byte)) /\ Len(pc) \in 4 .. 5 /\ pc # <<>>
         /\ Pieces(ACK, 0, <<>>) \in Packets
<1>1. ASSUME NEW pc \in Packets PROVE \E type, payload : IsPacket(pc, type, payload)
  <2>1. CASE pc = Pieces(ACK, 0, <<>>)
    BY <2>1, AckIs
  <2>2. CASE \E off \in 0 .. Len(log), n \in 1 .. Len(log) :
               pc = IncrSync(off, Commands[log[n].id])
    <3>1. PICK off \in 0 .. Len(log), n \in 1 .. Len(log) :
            pc = IncrSync(off, Commands[log[n].id])
      BY <2>2
    <3>2. log[n].id \in 1 .. MaxAppends /\ off \in Nat
      <4>1. log \in Seq([id : 1 .. MaxAppends, whole : {TRUE}])
        BY DEF FileShape
      <4>2. log[n] \in [id : 1 .. MaxAppends, whole : {TRUE}]
        BY <4>1, ElementOfSeq
      <4>3. log[n].id \in 1 .. MaxAppends
        BY <4>2
      <4>4. \A i \in 0 .. Len(log) : i \in Nat
        BY <4>1, LenProperties
      <4>5. QED
        BY <4>3, <4>4
    <3>3. QED
      BY <3>1, <3>2, SyncIs
  <2>3. QED
    BY <1>1, <2>1, <2>2 DEF Packets
<1>2. ASSUME NEW pc \in Packets PROVE pc \in Seq(Seq(Byte)) /\ Len(pc) \in 4 .. 5 /\ pc # <<>>
  <2>1. pc \in Seq(Seq(Byte)) /\ Len(pc) \in 4 .. 5
    BY <1>1 DEF IsPacket
  <2>2. Len(<<>>) = 0 /\ 0 \notin 4 .. 5
    OBVIOUS
  <2>3. QED
    BY <2>1, <2>2, Zenon
<1>3. Pieces(ACK, 0, <<>>) \in Packets
  <2>1. PICK p : p = Pieces(ACK, 0, <<>>)
    OBVIOUS
  <2>2. QED
    BY <2>1 DEF Packets
<1>4. QED
  BY <1>1, <1>2, <1>3, Zenon

-----------------------------------------------------------------------------
(* The file. *)

(* What a step does to the file. *)
LEMMA FileActions ==
  ASSUME [ReplicationNext]_allVars
  PROVE  \/ Persist \/ Publish \/ UNCHANGED vars
         \/ next < MaxAppends /\ Accept
<1>1. CASE FileStep
  BY <1>1 DEF FileStep
<1>2. CASE (\E d \in Descriptors : AcceptClient(d)) \/ AcceptFails \/ Register
  BY <1>2, Zenon DEF AcceptClient, AcceptFails, Register
<1>3. CASE \E p \in Appenders : AppendCommand(p) \/ ListenerStep(p) \/ ReadFails(p)
  BY <1>3, Zenon DEF AppendCommand, ListenerStep, CopyListeners, CallListener,
    ReadFrame, ReadEnds, SendCommand, ListenersDone, ReadFails
<1>4. CASE \E c \in Connections : HandlerStep(c) \/ Break(c)
  BY <1>4, Zenon DEF HandlerStep, SendAck, Heartbeat, HandlerCloses, Break
<1>5. CASE \E r \in Replicas : ReplicaStep(r) \/ ReceiveSpins(r)
  BY <1>5, Zenon DEF ReplicaStep, Connect, Receive, ReceiveEnds, ReceiveThrows,
    ReceiveSpins, allVars
<1>6. CASE UNCHANGED allVars
  BY <1>6 DEF allVars
<1>7. QED
  BY <1>1, <1>2, <1>3, <1>4, <1>5, <1>6 DEF ReplicationNext

(* The file only grows, and what was read from it stays there. *)
LEMMA FileStays ==
  ASSUME FileShape, [ReplicationNext]_allVars
  PROVE  /\ FileShape' /\ Len(log) \in Nat /\ Len(log') \in Nat /\ Len(log) <= Len(log')
         /\ \A i \in 1 .. Len(log) : log'[i] = log[i]
<1> DEFINE E == [id : 1 .. MaxAppends, whole : {TRUE}]
<1>1. /\ log \in Seq(E) /\ pending \in Seq(1 .. MaxAppends) /\ next \in 0 .. MaxAppends
      /\ published \in 0 .. Len(log) /\ Len(log) \in Nat /\ MaxAppends \in Nat
  BY Given DEF FileShape
<1>2. CASE Persist
  <2>1. /\ pending # <<>> /\ log' = Append(log, [id |-> Head(pending), whole |-> TRUE])
        /\ pending' = Tail(pending) /\ UNCHANGED <<next, published>>
    BY <1>2 DEF Persist, Entry
  <2>2. Head(pending) \in 1 .. MaxAppends /\ Tail(pending) \in Seq(1 .. MaxAppends)
    <3>1. pending \in Seq(1 .. MaxAppends) /\ pending # <<>>
      BY <1>1, <2>1
    <3>2. QED
      BY <3>1, HeadTailProperties
  <2>3. PICK e \in E : e = [id |-> Head(pending), whole |-> TRUE]
    BY <2>2
  <2> HIDE DEF E
  <2>4. /\ Append(log, e) \in Seq(E) /\ Len(Append(log, e)) = Len(log) + 1
        /\ \A i \in 1 .. Len(log) : Append(log, e)[i] = log[i]
    BY <1>1, AppendProperties
  <2>5. /\ log' \in Seq(E) /\ Len(log') = Len(log) + 1
        /\ \A i \in 1 .. Len(log) : log'[i] = log[i]
    BY <2>1, <2>3, <2>4
  <2>6. FileShape'
    BY <1>1, <2>1, <2>2, <2>5 DEF FileShape, E
  <2>7. QED
    BY <1>1, <2>5, <2>6
<1>3. CASE Publish
  BY <1>1, <1>3 DEF Publish, FileShape
<1>4. CASE UNCHANGED vars
  BY <1>1, <1>4 DEF vars, FileShape
<1>5. CASE next < MaxAppends /\ Accept
  <2>1. /\ next' = next + 1 /\ pending' = Append(pending, next + 1)
        /\ UNCHANGED <<log, published>>
    BY <1>5 DEF Accept
  <2>2. next + 1 \in 1 .. MaxAppends
    BY <1>1, <1>5
  <2>3. pending' \in Seq(1 .. MaxAppends)
    BY <1>1, <2>1, <2>2
  <2>4. QED
    BY <1>1, <2>1, <2>2, <2>3 DEF FileShape
<1>6. QED
  BY <1>2, <1>3, <1>4, <1>5, FileActions

(* What the master might send it might send later too. *)
LEMMA PacketsStay ==
  ASSUME FileShape, [ReplicationNext]_allVars
  PROVE  Packets \subseteq Packets'
<1>1. /\ Len(log) \in Nat /\ Len(log') \in Nat /\ Len(log) <= Len(log')
      /\ \A i \in 1 .. Len(log) : log'[i] = log[i]
  BY FileStays
<1>2. ASSUME NEW off \in 0 .. Len(log), NEW n \in 1 .. Len(log)
      PROVE  /\ off \in 0 .. Len(log') /\ n \in 1 .. Len(log')
             /\ Commands[log[n].id] = Commands[log'[n].id]
  BY <1>1
<1>3. ASSUME NEW pc \in Packets PROVE pc \in Packets'
  <2>1. CASE pc = Pieces(ACK, 0, <<>>)
    BY <2>1 DEF Packets
  <2>2. CASE \E off \in 0 .. Len(log), n \in 1 .. Len(log) :
               pc = IncrSync(off, Commands[log[n].id])
    <3>1. PICK off \in 0 .. Len(log), n \in 1 .. Len(log) :
            pc = IncrSync(off, Commands[log[n].id])
      BY <2>2
    <3>2. /\ off \in 0 .. Len(log') /\ n \in 1 .. Len(log')
          /\ pc = IncrSync(off, Commands[log'[n].id])
      BY <1>2, <3>1
    <3>3. QED
      BY <3>2 DEF Packets
  <2>3. QED
    BY <1>3, <2>1, <2>2 DEF Packets
<1>4. QED
  BY <1>3

-----------------------------------------------------------------------------
(* The threads of the master.  A listener that is not sending: it goes to  *)
(* its next place, and if it takes up a message it is one of a frame of    *)
(* the file.                                                               *)
LRec == [step : ListenSteps, left : Nat, off : Nat, pos : Nat, fd : Fds,
         sending : Messages]
Takes(p) ==
  /\ listen[p].sending.out = <<>>
  /\ \/ listen'[p].sending.out = <<>> /\ listen'[p].sending.into \in {0, listen[p].sending.into}
     \/ listen'[p].sending.out \in Packets /\ listen'[p].sending.into = 0
Moves(p) ==
  /\ listen' \in [Appenders -> LRec]
  /\ \A q \in Appenders : q # p => listen'[q] = listen[q]
  /\ listen'[p].left <= listeners
  /\ listen'[p].off <= listen'[p].pos /\ listen'[p].pos <= Len(log)
  /\ listen'[p].step = "send" <=> listen'[p].sending.out # <<>>

(* A change of one listener. *)
LEMMA OneListener ==
  ASSUME ListenShape, NEW p \in Appenders, NEW l \in LRec, listen' = [listen EXCEPT ![p] = l],
         l.left <= listeners, l.off <= l.pos, l.pos <= Len(log),
         l.step = "send" <=> l.sending.out # <<>>
  PROVE  Moves(p) /\ listen'[p] = l
<1>1. listen \in [Appenders -> LRec]
  BY DEF ListenShape, LRec
<1> HIDE DEF LRec
<1>2. listen' \in [Appenders -> LRec] /\ listen'[p] = l
      /\ \A q \in Appenders : q # p => listen'[q] = listen[q]
  BY <1>1
<1>3. QED
  BY <1>2, Zenon DEF Moves

(* Where a thread stands. *)
LEMMA ListenRecord ==
  ASSUME ListenShape, Placed, Sends, FileShape, Counted, NEW p \in Appenders
  PROVE  /\ listen[p] \in LRec /\ listen[p].left \in Nat /\ listen[p].off \in Nat
         /\ listen[p].pos \in Nat /\ listen[p].fd \in Fds /\ listen[p].sending \in Messages
         /\ listen[p].left <= listeners /\ listen[p].off <= listen[p].pos
         /\ listen[p].pos <= Len(log) /\ listen[p].step \in ListenSteps
         /\ listen[p].step = "send" <=> listen[p].sending.out # <<>>
         /\ listeners \in Nat /\ Len(log) \in Nat /\ client_fd \in Fds
         /\ published \in 0 .. Len(log)
<1>1. listen[p] \in LRec
  BY DEF ListenShape, LRec
<1>2. listeners \in Nat /\ client_fd \in Fds /\ published \in 0 .. Len(log) /\ Len(log) \in Nat
  BY DEF Counted, FileShape
<1>3. /\ listen[p].left \in Nat /\ listen[p].off \in Nat
      /\ listen[p].pos \in Nat /\ listen[p].fd \in Fds /\ listen[p].sending \in Messages
      /\ listen[p].step \in ListenSteps
  BY <1>1 DEF LRec
<1>4. QED
  BY <1>1, <1>2, <1>3 DEF Placed, Sends

(* No message. *)
LEMMA NothingIs ==
  /\ Nothing \in Messages /\ Nothing.out = <<>> /\ Nothing.into = 0
  /\ Quiet.sending = Nothing /\ Quiet.step = "idle"
BY Given DEF Nothing, Messages, Quiet

(* The records that the steps of a listener make. *)
Becomes(l, s, n, o, q, m) ==
  /\ l \in LRec /\ l.step = s /\ l.left = n /\ l.off = o /\ l.pos = q /\ l.sending = m

(* The start of a listener, ... *)
LEMMA Edited ==
  ASSUME NEW l0 \in LRec, NEW n \in Nat, NEW o \in Nat, NEW f \in Fds, NEW l,
         l = [l0 EXCEPT !.step = "read", !.left = n, !.off = o, !.pos = o, !.fd = f]
  PROVE  Becomes(l, "read", n, o, o, l0.sending)
BY DEF LRec, ListenSteps, Becomes

(* ... of a message, ... *)
LEMMA EditedSending ==
  ASSUME NEW l0 \in LRec, NEW q \in Nat, NEW m \in Messages, NEW l,
         l = [l0 EXCEPT !.step = "send", !.pos = q, !.sending = m]
  PROVE  Becomes(l, "send", l0.left, l0.off, q, m)
BY DEF LRec, ListenSteps, Becomes

(* ... and the end of a listener. *)
LEMMA EditedQuiet ==
  ASSUME NEW s \in {"call", "idle"}, NEW n \in Nat, NEW l,
         l = [Quiet EXCEPT !.step = s, !.left = n]
  PROVE  Becomes(l, s, n, 0, 0, Nothing)
<1>1. Invalid \in Fds /\ Nothing \in Messages /\ {"call", "idle"} \subseteq ListenSteps
  BY NothingIs DEF Fds, ListenSteps
<1>2. Quiet \in LRec /\ Quiet.off = 0 /\ Quiet.pos = 0 /\ Quiet.sending = Nothing
  BY <1>1 DEF LRec, Quiet
<1>3. QED
  BY <1>1, <1>2 DEF LRec, Becomes

(* The push and the copy of the list. *)
LEMMA PushMoves ==
  ASSUME ListenShape, Placed, Sends, FileShape, Counted, NEW p \in Appenders,
         AppendCommand(p) \/ CopyListeners(p)
  PROVE  Moves(p) /\ Takes(p)
<1>1. /\ listen[p] \in LRec /\ listen[p].left \in Nat /\ listen[p].left <= listeners
      /\ listen[p].off <= listen[p].pos /\ listen[p].pos <= Len(log)
      /\ listen[p].step = "send" <=> listen[p].sending.out # <<>>
      /\ listeners \in Nat
  BY ListenRecord
<1>2. CASE AppendCommand(p)
  <2> DEFINE l == [listen[p] EXCEPT !.step = "notify"]
  <2>1. listen[p].step = "idle" /\ listen' = [listen EXCEPT ![p] = l]
    BY <1>2 DEF AppendCommand
  <2>2. /\ l \in LRec /\ l.left = listen[p].left /\ l.off = listen[p].off /\ l.pos = listen[p].pos
        /\ l.step = "notify" /\ l.sending = listen[p].sending
    BY <1>1 DEF LRec, ListenSteps
  <2>3. listen[p].sending.out = <<>>
    BY <1>1, <2>1
  <2> HIDE DEF l
  <2>4. Moves(p) /\ listen'[p] = l
    BY <1>1, <2>1, <2>2, <2>3, OneListener
  <2>5. QED
    BY <2>2, <2>3, <2>4 DEF Takes
<1>3. CASE CopyListeners(p)
  <2> DEFINE l == [listen[p] EXCEPT !.step = "call", !.left = listeners]
  <2>1. listen[p].step = "notify" /\ listen' = [listen EXCEPT ![p] = l]
    BY <1>3 DEF CopyListeners
  <2>2. /\ l \in LRec /\ l.left = listeners /\ l.off = listen[p].off /\ l.pos = listen[p].pos
        /\ l.step = "call" /\ l.sending = listen[p].sending
    BY <1>1 DEF LRec, ListenSteps
  <2>3. listen[p].sending.out = <<>> /\ listeners <= listeners
    BY <1>1, <2>1
  <2> HIDE DEF l
  <2>4. Moves(p) /\ listen'[p] = l
    BY <1>1, <2>1, <2>2, <2>3, OneListener
  <2>5. QED
    BY <2>2, <2>3, <2>4 DEF Takes
<1>4. QED
  BY <1>2, <1>3

(* The start of a listener and its end. *)
LEMMA CallMoves ==
  ASSUME ListenShape, Placed, Sends, FileShape, Counted, NEW p \in Appenders,
         CallListener(p) \/ ReadEnds(p) \/ ReadFails(p) \/ ListenersDone(p)
  PROVE  Moves(p) /\ Takes(p)
<1>1. /\ listen[p] \in LRec /\ listen[p].left \in Nat /\ listen[p].left <= listeners
      /\ listen[p].off <= listen[p].pos /\ listen[p].pos <= Len(log)
      /\ listen[p].step = "send" <=> listen[p].sending.out # <<>>
      /\ listeners \in Nat /\ Len(log) \in Nat /\ client_fd \in Fds
      /\ published \in 0 .. Len(log)
  BY ListenRecord
<1>2. CASE CallListener(p)
  <2> DEFINE l == [listen[p] EXCEPT !.step = "read", !.left = @ - 1, !.off = published,
                                    !.pos = published, !.fd = client_fd]
  <2>1. /\ listen[p].step = "call" /\ listen[p].left > 0
        /\ listen' = [listen EXCEPT ![p] = l]
    BY <1>2 DEF CallListener
  <2>2. /\ l \in LRec /\ l.left = listen[p].left - 1 /\ l.off = published /\ l.pos = published
        /\ l.step = "read" /\ l.sending = listen[p].sending
    <3>1. listen[p].left - 1 \in Nat /\ published \in Nat
      BY <1>1, <2>1
    <3>2. Becomes(l, "read", listen[p].left - 1, published, published, listen[p].sending)
      BY <1>1, <3>1, Edited
    <3> HIDE DEF l
    <3>3. QED
      BY <3>2 DEF Becomes
  <2>3. listen[p].sending.out = <<>> /\ listen[p].left - 1 <= listeners
        /\ published <= published /\ published <= Len(log)
    BY <1>1, <2>1
  <2> HIDE DEF l
  <2>4. Moves(p) /\ listen'[p] = l
    BY <1>1, <2>1, <2>2, <2>3, OneListener
  <2>5. QED
    BY <2>2, <2>3, <2>4 DEF Takes
<1>3. CASE ReadEnds(p) \/ ReadFails(p) \/ ListenersDone(p)
  <2>1. /\ listen[p].step \in {"read", "call"}
        /\ \E s \in {"call", "idle"}, n \in {0, listen[p].left} :
             listen' = [listen EXCEPT ![p] = [Quiet EXCEPT !.step = s, !.left = n]]
    <3>1. CASE ReadEnds(p) \/ ReadFails(p)
      BY <3>1 DEF ReadEnds, ReadFails
    <3>2. CASE ListenersDone(p)
      <4>1. Quiet = [Quiet EXCEPT !.step = "idle", !.left = 0]
        <5>1. /\ Quiet = [step |-> "idle", left |-> 0, off |-> 0, pos |-> 0,
                          fd |-> Invalid, sending |-> Nothing]
              /\ DOMAIN Quiet = {"step", "left", "off", "pos", "fd", "sending"}
          BY DEF Quiet
        <5>2. Quiet.step = "idle" /\ Quiet.left = 0
          BY DEF Quiet
        <5>3. QED
          BY <5>1, <5>2
      <4>2. QED
        BY <3>2, <4>1 DEF ListenersDone
    <3>3. QED
      BY <1>3, <3>1, <3>2
  <2>2. PICK s \in {"call", "idle"}, n \in {0, listen[p].left} :
          listen' = [listen EXCEPT ![p] = [Quiet EXCEPT !.step = s, !.left = n]]
    BY <2>1
  <2> DEFINE l == [Quiet EXCEPT !.step = s, !.left = n]
  <2>3. /\ l \in LRec /\ l.left = n /\ l.off = 0 /\ l.pos = 0
        /\ l.step = s /\ l.sending = Nothing
    <3>1. n \in Nat
      BY <1>1
    <3>2. Becomes(l, s, n, 0, 0, Nothing)
      BY <3>1, EditedQuiet
    <3> HIDE DEF l
    <3>3. QED
      BY <3>2 DEF Becomes
  <2>4. /\ listen[p].sending.out = <<>> /\ n <= listeners /\ 0 <= 0 /\ 0 <= Len(log)
        /\ s # "send"
    BY <1>1, <2>1
  <2> HIDE DEF l
  <2>5. listen' = [listen EXCEPT ![p] = l]
    BY <2>2 DEF l
  <2>6. Moves(p) /\ listen'[p] = l
    BY <2>3, <2>4, <2>5, NothingIs, OneListener
  <2>7. QED
    BY <2>3, <2>4, <2>6, NothingIs DEF Takes
<1>4. QED
  BY <1>2, <1>3

(* A frame is read: its command is in the file. *)
LEMMA ReadMoves ==
  ASSUME ListenShape, Placed, Sends, FileShape, Counted, NEW p \in Appenders,
         ReadFrame(p)
  PROVE  Moves(p) /\ Takes(p)
<1>1. /\ listen[p] \in LRec /\ listen[p].left \in Nat /\ listen[p].left <= listeners
      /\ listen[p].off <= listen[p].pos /\ listen[p].pos <= Len(log)
      /\ listen[p].step = "send" <=> listen[p].sending.out # <<>>
      /\ listeners \in Nat /\ Len(log) \in Nat /\ listen[p].off \in Nat /\ listen[p].pos \in Nat
  BY ListenRecord
<1> DEFINE pc == IncrSync(listen[p].off, Commands[log[listen[p].pos + 1].id])
           m == [out |-> pc, into |-> 0]
           l == [listen[p] EXCEPT !.step = "send", !.pos = @ + 1, !.sending = m]
<1>2. /\ listen[p].step = "read" /\ listen[p].pos < Len(log)
      /\ listen' = [listen EXCEPT ![p] = l]
  BY DEF ReadFrame, HasFrame
<1>3. pc \in Packets
  <2>1. listen[p].off \in 0 .. Len(log) /\ listen[p].pos + 1 \in 1 .. Len(log)
    BY <1>1, <1>2
  <2>2. QED
    BY <2>1 DEF Packets
<1>4. pc \in Seq(Seq(Byte)) /\ pc # <<>>
  BY <1>3, PacketsAre
<1> HIDE DEF pc
<1>5. m \in Messages /\ m.out = pc /\ m.into = 0
  BY <1>4, Given DEF Messages
<1> HIDE DEF m
<1>6. /\ l \in LRec /\ l.left = listen[p].left /\ l.off = listen[p].off
      /\ l.pos = listen[p].pos + 1 /\ l.step = "send" /\ l.sending = m
  <2>1. listen[p].pos + 1 \in Nat
    BY <1>1
  <2>2. Becomes(l, "send", listen[p].left, listen[p].off, listen[p].pos + 1, m)
    BY <1>1, <1>5, <2>1, EditedSending
  <2> HIDE DEF l
  <2>3. QED
    BY <2>2 DEF Becomes
<1>7. /\ listen[p].sending.out = <<>> /\ listen[p].off <= listen[p].pos + 1
      /\ listen[p].pos + 1 <= Len(log)
  BY <1>1, <1>2
<1> HIDE DEF l
<1>8. Moves(p) /\ listen'[p] = l
  BY <1>1, <1>2, <1>4, <1>5, <1>6, <1>7, OneListener
<1>9. QED
  BY <1>3, <1>5, <1>6, <1>7, <1>8 DEF Takes

-----------------------------------------------------------------------------
(* One piece of a message.  What is left of it is shorter, or nothing. *)
LEMMA SendLeaves ==
  ASSUME NEW m \in Messages, m.out # <<>>, NEW d \in Fds, FdsShape
  PROVE  /\ AfterSend(m, d) \in Messages /\ Behind(d) \in 0 .. MaxConns
         /\ AfterSend(m, d).into \in {0, m.into, Behind(d)}
<1>1. Behind(d) \in 0 .. MaxConns
  BY Given DEF Behind, FdsShape
<1>2. m.out \in Seq(Seq(Byte)) /\ m.into \in 0 .. MaxConns
  BY DEF Messages
<1>3. Tail(m.out) \in Seq(Seq(Byte))
  BY <1>2, HeadTailProperties
<1>4. /\ Nothing \in Messages /\ Nothing.into = 0
  BY NothingIs
<1>5. PICK i \in 0 .. MaxConns : i = IF m.into = 0 THEN Behind(d) ELSE m.into
  BY <1>1, <1>2
<1>6. [out |-> Tail(m.out), into |-> i] \in Messages
  BY <1>3 DEF Messages
<1>7. AfterSend(m, d) \in {Nothing, [out |-> Tail(m.out), into |-> i]}
  BY <1>5 DEF AfterSend
<1>8. [out |-> Tail(m.out), into |-> i].into = i /\ i \in {m.into, Behind(d)}
  BY <1>5
<1>9. QED
  BY <1>1, <1>4, <1>6, <1>7, <1>8

(* The listener goes on to the next piece, or reads on. *)
LEMMA SendMoves ==
  ASSUME ListenShape, Placed, Sends, FileShape, Counted, FdsShape, NEW p \in Appenders,
         SendCommand(p)
  PROVE  /\ Moves(p) /\ listen[p].sending.out # <<>>
         /\ listen'[p].sending = AfterSend(listen[p].sending, listen[p].fd)
         /\ listen'[p].fd = listen[p].fd
<1>1. /\ listen[p] \in LRec /\ listen[p].left <= listeners
      /\ listen[p].off <= listen[p].pos /\ listen[p].pos <= Len(log)
      /\ listen[p].step = "send" <=> listen[p].sending.out # <<>>
      /\ listen[p].fd \in Fds /\ listen[p].sending \in Messages
  BY ListenRecord
<1> DEFINE m == AfterSend(listen[p].sending, listen[p].fd)
           s == IF m.out = <<>> THEN "read" ELSE "send"
           l == [listen[p] EXCEPT !.sending = m, !.step = s]
<1>2. listen[p].step = "send" /\ listen' = [listen EXCEPT ![p] = l]
  BY DEF SendCommand
<1>3. m \in Messages
  BY <1>1, <1>2, SendLeaves
<1> HIDE DEF m
<1>4. s \in ListenSteps /\ (s = "send" <=> m.out # <<>>)
  BY DEF ListenSteps
<1> HIDE DEF s
<1>5. /\ l \in LRec /\ l.left = listen[p].left /\ l.off = listen[p].off
      /\ l.pos = listen[p].pos /\ l.step = s /\ l.sending = m /\ l.fd = listen[p].fd
  BY <1>1, <1>3, <1>4 DEF LRec
<1> HIDE DEF l
<1>6. Moves(p) /\ listen'[p] = l
  BY <1>1, <1>2, <1>4, <1>5, OneListener
<1>7. QED
  BY <1>1, <1>2, <1>5, <1>6 DEF m

-----------------------------------------------------------------------------
(* A thread of handle_replica. *)
HRec == [step : {"none", "ack", "receive", "done"}, fd : Fds, sending : Messages]
HandlerMoves(c) ==
  /\ handler' \in [Connections -> HRec]
  /\ \A b \in Connections : b # c => handler'[b] = handler[b]
  /\ handler'[c].step = "ack" <=> handler'[c].sending.out # <<>>
HandlerTakes(c) ==
  /\ handler[c].sending.out = <<>>
  /\ handler'[c].sending.into = 0
  /\ handler'[c].sending.out = <<>> \/ handler'[c].sending.out \in Packets

(* A change of one such thread. *)
LEMMA OneHandler ==
  ASSUME ThreadShape, NEW c \in Connections, NEW h \in HRec, handler' = [handler EXCEPT ![c] = h],
         h.step = "ack" <=> h.sending.out # <<>>
  PROVE  HandlerMoves(c) /\ handler'[c] = h
<1>1. handler \in [Connections -> HRec]
  BY DEF ThreadShape, HRec
<1> HIDE DEF HRec
<1>2. handler' \in [Connections -> HRec] /\ handler'[c] = h
      /\ \A b \in Connections : b # c => handler'[b] = handler[b]
  BY <1>1
<1>3. QED
  BY <1>2, Zenon DEF HandlerMoves

(* Where it stands. *)
LEMMA HandlerRecord ==
  ASSUME ThreadShape, Sends, NEW c \in Connections
  PROVE  /\ handler[c] \in HRec /\ handler[c].fd \in Fds /\ handler[c].sending \in Messages
         /\ handler[c].step = "ack" <=> handler[c].sending.out # <<>>
<1>1. handler[c] \in HRec
  BY DEF ThreadShape, HRec
<1>2. handler[c].fd \in Fds /\ handler[c].sending \in Messages
  BY <1>1 DEF HRec
<1>3. QED
  BY <1>1, <1>2 DEF Sends

(* It starts with the acknowledgement to send. *)
LEMMA RegisterMoves ==
  ASSUME DescriptorInv, ThreadShape, Sends, Counted, FileShape, Register
  PROVE  \/ handler' = handler
         \/ \E c \in Connections : HandlerMoves(c) /\ HandlerTakes(c)
<1>1. CASE acceptor.conn = 0
  BY <1>1 DEF Register
<1>2. CASE acceptor.conn # 0
  <2> DEFINE c == acceptor.conn
             pc == Pieces(ACK, 0, <<>>)
             m == [out |-> pc, into |-> 0]
             h == [step |-> "ack", fd |-> client_fd, sending |-> m]
  <2>1. acceptor.step = "register" /\ handler' = [handler EXCEPT ![c] = h]
    BY <1>2 DEF Register
  <2>2. c \in Connections /\ handler[c].step = "none"
    BY <1>2, <2>1 DEF DescriptorInv, Registering
  <2>3. pc \in Packets /\ pc \in Seq(Seq(Byte)) /\ pc # <<>>
    BY PacketsAre
  <2> HIDE DEF pc
  <2>4. m \in Messages /\ m.out = pc /\ m.into = 0
    BY <2>3, Given DEF Messages
  <2> HIDE DEF m
  <2>5. h \in HRec /\ h.step = "ack" /\ h.sending = m
    BY <2>4 DEF HRec, Counted
  <2> HIDE DEF h
  <2> HIDE DEF c
  <2>6. HandlerMoves(c) /\ handler'[c] = h
    BY <2>1, <2>2, <2>3, <2>4, <2>5, OneHandler
  <2>7. handler[c].sending.out = <<>>
    BY <2>2, HandlerRecord
  <2>8. HandlerTakes(c)
    BY <2>3, <2>4, <2>5, <2>6, <2>7 DEF HandlerTakes
  <2>9. QED
    BY <2>2, <2>6, <2>8
<1>3. QED
  BY <1>1, <1>2

(* It ends with the descriptor closed. *)
LEMMA ClosesMoves ==
  ASSUME ThreadShape, Sends, NEW c \in Connections, HandlerCloses(c)
  PROVE  HandlerMoves(c) /\ HandlerTakes(c)
<1> DEFINE h == [NoHandler EXCEPT !.step = "done"]
<1>1. handler[c].step = "receive" /\ handler' = [handler EXCEPT ![c] = h]
  BY DEF HandlerCloses
<1>2. /\ Nothing \in Messages /\ Invalid \in Fds
      /\ Nothing.out = <<>> /\ Nothing.into = 0
  BY NothingIs DEF Fds
<1>3. NoHandler \in HRec /\ NoHandler.sending = Nothing
  BY <1>2 DEF NoHandler, HRec
<1>4. h \in HRec /\ h.step = "done" /\ h.sending = Nothing
  BY <1>3 DEF HRec
<1> HIDE DEF h
<1>5. HandlerMoves(c) /\ handler'[c] = h
  BY <1>1, <1>2, <1>4, OneHandler
<1>6. handler[c].sending.out = <<>>
  BY <1>1, HandlerRecord
<1>7. QED
  BY <1>2, <1>4, <1>5, <1>6 DEF HandlerTakes

(* It goes on to the next piece of the acknowledgement, or receives. *)
LEMMA AckMoves ==
  ASSUME FdsShape, ThreadShape, Sends, NEW c \in Connections, SendAck(c)
  PROVE  /\ HandlerMoves(c) /\ handler[c].sending.out # <<>>
         /\ handler'[c].sending = AfterSend(handler[c].sending, handler[c].fd)
         /\ handler'[c].fd = handler[c].fd
<1>1. /\ handler[c] \in HRec /\ handler[c].fd \in Fds /\ handler[c].sending \in Messages
      /\ handler[c].step = "ack" <=> handler[c].sending.out # <<>>
  BY HandlerRecord
<1> DEFINE m == AfterSend(handler[c].sending, handler[c].fd)
           s == IF m.out = <<>> THEN "receive" ELSE "ack"
           h == [handler[c] EXCEPT !.sending = m, !.step = s]
<1>2. handler[c].step = "ack" /\ handler' = [handler EXCEPT ![c] = h]
  BY DEF SendAck
<1>3. m \in Messages
  BY <1>1, <1>2, SendLeaves
<1> HIDE DEF m
<1>4. s \in {"ack", "receive"} /\ (s = "ack" <=> m.out # <<>>)
  OBVIOUS
<1> HIDE DEF s
<1>5. h \in HRec /\ h.step = s /\ h.sending = m /\ h.fd = handler[c].fd
  BY <1>1, <1>3, <1>4 DEF HRec
<1> HIDE DEF h
<1>6. HandlerMoves(c) /\ handler'[c] = h
  BY <1>2, <1>4, <1>5, OneHandler
<1>7. QED
  BY <1>1, <1>2, <1>5, <1>6 DEF m

-----------------------------------------------------------------------------
(* What a step may do to a thread that sends: nothing, or take up its next *)
(* message, ...                                                            *)
Stays(x) == Msg(x)' = Msg(x) /\ Fd(x)' = Fd(x)
Taking(x) ==
  /\ Msg(x).out = <<>>
  /\ \/ Msg(x)'.out = <<>> /\ Msg(x)'.into \in {0, Msg(x).into}
     \/ Msg(x)'.out \in Packets /\ Msg(x)'.into = 0

(* ... or send a piece of the message it has. *)
Sending(x) ==
  /\ Msg(x).out # <<>>
  /\ Transmit(Msg(x), Fd(x)) /\ Msg(x)' = AfterSend(Msg(x), Fd(x)) /\ Fd(x)' = Fd(x)
  /\ \A y \in Senders : y # x => Stays(y)
  /\ UNCHANGED <<fds, link>>

(* The threads of either kind. *)
LEMMA SenderKinds ==
  ASSUME NEW x \in Senders
  PROVE  \/ \E p \in Appenders :
              /\ x = <<"listener", p>> /\ Msg(x) = listen[p].sending /\ Fd(x) = listen[p].fd
              /\ Msg(x)' = listen'[p].sending /\ Fd(x)' = listen'[p].fd
         \/ \E c \in Connections :
              /\ x = <<"handler", c>> /\ Msg(x) = handler[c].sending /\ Fd(x) = handler[c].fd
              /\ Msg(x)' = handler'[c].sending /\ Fd(x)' = handler'[c].fd
<1>1. CASE \E p \in Appenders : x = <<"listener", p>>
  <2>1. PICK p \in Appenders : x = <<"listener", p>>
    BY <1>1
  <2>2. x[1] = "listener" /\ x[2] = p
    BY <2>1
  <2>3. QED
    BY <2>1, <2>2 DEF Msg, Fd
<1>2. CASE \E c \in Connections : x = <<"handler", c>>
  <2>1. PICK c \in Connections : x = <<"handler", c>>
    BY <1>2
  <2>2. x[1] = "handler" /\ x[2] = c /\ "handler" # "listener"
    BY <2>1
  <2>3. QED
    BY <2>1, <2>2 DEF Msg, Fd
<1>3. QED
  BY <1>1, <1>2 DEF Senders

(* The two names of one thread. *)
LEMMA ListenerIs ==
  ASSUME NEW p \in Appenders
  PROVE  /\ <<"listener", p>> \in Senders
         /\ Msg(<<"listener", p>>) = listen[p].sending
         /\ Msg(<<"listener", p>>)' = listen'[p].sending
         /\ Fd(<<"listener", p>>) = listen[p].fd /\ Fd(<<"listener", p>>)' = listen'[p].fd
<1>1. PICK x : x = <<"listener", p>>
  OBVIOUS
<1>2. x[1] = "listener" /\ x[2] = p
  BY <1>1
<1>3. x \in Senders
  BY <1>1 DEF Senders
<1>4. QED
  BY <1>1, <1>2, <1>3 DEF Msg, Fd

(* The same for the threads of handle_replica. *)
LEMMA HandlerIs ==
  ASSUME NEW c \in Connections
  PROVE  /\ <<"handler", c>> \in Senders
         /\ Msg(<<"handler", c>>) = handler[c].sending
         /\ Msg(<<"handler", c>>)' = handler'[c].sending
         /\ Fd(<<"handler", c>>) = handler[c].fd /\ Fd(<<"handler", c>>)' = handler'[c].fd
<1>1. PICK x : x = <<"handler", c>>
  OBVIOUS
<1>2. x[1] = "handler" /\ x[2] = c /\ "handler" # "listener"
  BY <1>1
<1>3. x \in Senders
  BY <1>1 DEF Senders
<1>4. QED
  BY <1>1, <1>2, <1>3 DEF Msg, Fd

(* No thread moves. *)
LEMMA NobodyMoves ==
  ASSUME listen' = listen, handler' = handler
  PROVE  \A x \in Senders : Stays(x)
BY DEF Stays, Msg, Fd

(* Only a listener moves. *)
LEMMA OthersStay ==
  ASSUME NEW p \in Appenders, Moves(p), handler' = handler
  PROVE  \A y \in Senders : y # <<"listener", p>> => Stays(y)
<1> SUFFICES ASSUME NEW y \in Senders, y # <<"listener", p>> PROVE Stays(y)
  OBVIOUS
<1>1. \A q \in Appenders : q # p => listen'[q] = listen[q]
  BY DEF Moves
<1>2. QED
  BY <1>1, SenderKinds DEF Stays

(* Only a thread of handle_replica moves. *)
LEMMA OtherHandlersStay ==
  ASSUME NEW c \in Connections, HandlerMoves(c), listen' = listen
  PROVE  \A y \in Senders : y # <<"handler", c>> => Stays(y)
<1> SUFFICES ASSUME NEW y \in Senders, y # <<"handler", c>> PROVE Stays(y)
  OBVIOUS
<1>1. \A b \in Connections : b # c => handler'[b] = handler[b]
  BY DEF HandlerMoves
<1>2. QED
  BY <1>1, SenderKinds DEF Stays

(* The moves of a thread that is not sending. *)
LEMMA WorkOf ==
  ASSUME \/ handler' = handler /\ \E p \in Appenders : Moves(p) /\ Takes(p)
         \/ listen' = listen /\ \E c \in Connections : HandlerMoves(c) /\ HandlerTakes(c)
         \/ handler' = handler /\ listen' = listen
  PROVE  \A x \in Senders : Stays(x) \/ Taking(x)
<1>1. ASSUME NEW p \in Appenders, Moves(p), Takes(p), handler' = handler
      PROVE  \A x \in Senders : Stays(x) \/ Taking(x)
  <2>1. Taking(<<"listener", p>>)
    BY <1>1, ListenerIs DEF Taking, Takes
  <2>2. QED
    BY <1>1, <2>1, OthersStay
<1>2. ASSUME NEW c \in Connections, HandlerMoves(c), HandlerTakes(c), listen' = listen
      PROVE  \A x \in Senders : Stays(x) \/ Taking(x)
  <2>1. Taking(<<"handler", c>>)
    BY <1>2, HandlerIs DEF Taking, HandlerTakes
  <2>2. QED
    BY <1>2, <2>1, OtherHandlersStay
<1>3. QED
  BY <1>1, <1>2, NobodyMoves

-----------------------------------------------------------------------------
(* The three kinds of steps.  The threads of the master work on without    *)
(* sending, ...                                                            *)
Working ==
  /\ UNCHANGED <<net, mixed, link>>
  /\ \A x \in Senders : Stays(x) \/ Taking(x)
  /\ \A d \in Descriptors :
       \/ fds'[d] = fds[d]
       \/ fds'[d] = 0 /\ fds[d] # 0 /\ link[fds[d]] = "reset"
       \/ fds[d] = 0 /\ fds'[d] \in Connections /\ link[fds'[d]] # "none"

(* ... a piece is sent, which is Sending, ... *)

(* ... or the network and the replicas go on. *)
Carried(c) ==
  /\ link'[c] = "none" => link[c] = "none" /\ net'[c] = net[c]
  /\ link'[c] = "up" => link[c] = "up" \/ (link[c] = "none" /\ net'[c] = net[c])
  /\ c \notin mixed =>
       \/ net'[c] = net[c]
       \/ net'[c] = <<>> /\ (link'[c] # "up" \/ Complete(net[c]))
Passing ==
  /\ UNCHANGED <<fds, mixed>>
  /\ \A x \in Senders : Stays(x)
  /\ \A c \in Connections : Carried(c)

(* The steps that leave descriptors, connections and bytes alone. *)
LEMMA WorkingSteps ==
  ASSUME TypeInv, DescriptorInv,
         \/ FileStep \/ AcceptFails \/ Register
         \/ \E p \in Appenders :
              \/ AppendCommand(p) \/ CopyListeners(p) \/ CallListener(p) \/ ReadFrame(p)
              \/ ReadEnds(p) \/ ListenersDone(p) \/ ReadFails(p)
         \/ \E c \in Connections : Heartbeat(c)
         \/ \E r \in Replicas : ReceiveSpins(r)
         \/ UNCHANGED allVars
  PROVE  Working
<1>1. UNCHANGED <<net, mixed, link, fds>>
  <2>1. CASE \E p \in Appenders :
              \/ AppendCommand(p) \/ CopyListeners(p) \/ CallListener(p) \/ ReadFrame(p)
              \/ ReadEnds(p) \/ ListenersDone(p) \/ ReadFails(p)
    BY <2>1, Zenon DEF AppendCommand, CopyListeners, CallListener, ReadFrame, ReadEnds,
      ListenersDone, ReadFails, networkVars
  <2>2. CASE FileStep
    BY <2>2, Zenon DEF FileStep, replicationVars, networkVars, masterVars
  <2>3. CASE AcceptFails \/ Register
    BY <2>3, Zenon DEF AcceptFails, Register, networkVars
  <2>4. CASE \E c \in Connections : Heartbeat(c)
    BY <2>4, Zenon DEF Heartbeat, masterVars
  <2>5. CASE (\E r \in Replicas : ReceiveSpins(r)) \/ UNCHANGED allVars
    BY <2>5, Zenon DEF ReceiveSpins, allVars, replicationVars, networkVars, masterVars
  <2>6. QED
    BY <2>1, <2>2, <2>3, <2>4, <2>5
<1>2. \/ handler' = handler /\ \E p \in Appenders : Moves(p) /\ Takes(p)
      \/ listen' = listen /\ \E c \in Connections : HandlerMoves(c) /\ HandlerTakes(c)
      \/ handler' = handler /\ listen' = listen
  <2>0. FileShape /\ ListenShape /\ ThreadShape /\ Placed /\ Sends /\ Counted
    BY DEF TypeInv
  <2>1. ASSUME NEW p \in Appenders,
              \/ AppendCommand(p) \/ CopyListeners(p) \/ CallListener(p) \/ ReadFrame(p)
              \/ ReadEnds(p) \/ ListenersDone(p) \/ ReadFails(p)
        PROVE  handler' = handler /\ Moves(p) /\ Takes(p)
    <3>1. Moves(p) /\ Takes(p)
      BY <2>0, <2>1, PushMoves, CallMoves, ReadMoves, Zenon
    <3>2. handler' = handler
      BY <2>1, Zenon DEF AppendCommand, CopyListeners, CallListener, ReadFrame, ReadEnds,
        ListenersDone, ReadFails
    <3>3. QED
      BY <3>1, <3>2
  <2>2. CASE FileStep
    BY <2>2, Zenon DEF FileStep, replicationVars, masterVars
  <2>3. CASE AcceptFails
    BY <2>3, Zenon DEF AcceptFails
  <2>4. CASE \E c \in Connections : Heartbeat(c)
    BY <2>4, Zenon DEF Heartbeat, masterVars
  <2>5. CASE (\E r \in Replicas : ReceiveSpins(r)) \/ UNCHANGED allVars
    BY <2>5, Zenon DEF ReceiveSpins, allVars, replicationVars, masterVars
  <2>6. CASE Register
    <3>1. listen' = listen
      BY <2>6 DEF Register
    <3>2. QED
      BY <2>0, <2>6, <3>1, RegisterMoves
  <2>7. QED
    BY <2>1, <2>2, <2>3, <2>4, <2>5, <2>6
<1>3. \A x \in Senders : Stays(x) \/ Taking(x)
  BY <1>2, WorkOf
<1>4. QED
  BY <1>1, <1>3 DEF Working

(* The steps that take a descriptor or close one. *)
LEMMA DescriptorSteps ==
  ASSUME TypeInv, DescriptorInv,
         \/ \E d \in Descriptors : AcceptClient(d)
         \/ \E c \in Connections : HandlerCloses(c)
  PROVE  Working
<1>0. ThreadShape /\ Sends /\ FdsShape
  BY DEF TypeInv, DescriptorInv
<1>1. ASSUME NEW d \in Descriptors, AcceptClient(d) PROVE Working
  <2>1. /\ UNCHANGED <<net, mixed, link, listen, handler>>
        /\ backlog # <<>> /\ fds[d] = 0 /\ fds' = [fds EXCEPT ![d] = Head(backlog)]
    BY <1>1 DEF AcceptClient
  <2>2. Head(backlog) \in Connections /\ link[Head(backlog)] # "none"
    <3>1. backlog \in Seq(Connections) /\ backlog # <<>>
      BY <2>1 DEF DescriptorInv, Waiting
    <3>2. 1 \in 1 .. Len(backlog) /\ Head(backlog) = backlog[1] /\ backlog[1] \in Connections
      BY <3>1
    <3>3. QED
      BY <3>2 DEF DescriptorInv, Waiting
  <2>3. \A x \in Senders : Stays(x) \/ Taking(x)
    BY <2>1, WorkOf
  <2>4. \A e \in Descriptors : fds'[e] = IF e = d THEN Head(backlog) ELSE fds[e]
    BY <1>0, <2>1 DEF FdsShape
  <2>5. QED
    BY <2>1, <2>2, <2>3, <2>4 DEF Working
<1>2. ASSUME NEW c \in Connections, HandlerCloses(c) PROVE Working
  <2> DEFINE d == handler[c].fd
  <2>1. /\ UNCHANGED <<net, mixed, link, listen>>
        /\ handler[c].step = "receive" /\ link[c] = "reset" /\ fds' = [fds EXCEPT ![d] = 0]
    BY <1>2 DEF HandlerCloses, networkVars
  <2>2. d \in Descriptors /\ fds[d] = c
    BY <2>1 DEF DescriptorInv, Owned, Active
  <2> HIDE DEF d
  <2>3. \A x \in Senders : Stays(x) \/ Taking(x)
    <3>1. HandlerMoves(c) /\ HandlerTakes(c)
      BY <1>0, <1>2, ClosesMoves
    <3>2. QED
      BY <2>1, <3>1, WorkOf
  <2>4. \A e \in Descriptors : fds'[e] = IF e = d THEN 0 ELSE fds[e]
    BY <1>0, <2>1 DEF FdsShape
  <2>5. c # 0
    BY Given DEF Connections
  <2>6. QED
    BY <2>1, <2>2, <2>3, <2>4, <2>5 DEF Working
<1>3. QED
  BY <1>1, <1>2

(* The steps that send a piece. *)
LEMMA SendingSteps ==
  ASSUME TypeInv, DescriptorInv,
         \/ \E p \in Appenders : SendCommand(p)
         \/ \E c \in Connections : SendAck(c)
  PROVE  \E x \in Senders : Sending(x)
<1>0. FileShape /\ ListenShape /\ ThreadShape /\ Placed /\ Sends /\ Counted /\ FdsShape
  BY DEF TypeInv, DescriptorInv
<1>1. ASSUME NEW p \in Appenders, SendCommand(p) PROVE Sending(<<"listener", p>>)
  <2>1. /\ Moves(p) /\ listen[p].sending.out # <<>>
        /\ listen'[p].sending = AfterSend(listen[p].sending, listen[p].fd)
        /\ listen'[p].fd = listen[p].fd
    BY <1>0, <1>1, SendMoves
  <2>2. /\ Transmit(listen[p].sending, listen[p].fd)
        /\ UNCHANGED <<fds, link, handler>>
    BY <1>1, Zenon DEF SendCommand
  <2>3. QED
    BY <2>1, <2>2, ListenerIs, OthersStay DEF Sending
<1>2. ASSUME NEW c \in Connections, SendAck(c) PROVE Sending(<<"handler", c>>)
  <2>1. /\ HandlerMoves(c) /\ handler[c].sending.out # <<>>
        /\ handler'[c].sending = AfterSend(handler[c].sending, handler[c].fd)
        /\ handler'[c].fd = handler[c].fd
    BY <1>0, <1>2, AckMoves
  <2>2. /\ Transmit(handler[c].sending, handler[c].fd)
        /\ UNCHANGED <<fds, link, listen>>
    BY <1>2, Zenon DEF SendAck
  <2>3. QED
    BY <2>1, <2>2, HandlerIs, OtherHandlersStay DEF Sending
<1>3. QED
  BY <1>1, <1>2, ListenerIs, HandlerIs

-----------------------------------------------------------------------------
(* Bytes in which the header is where recvFromSocket looks for it. *)
InStep(s) ==
  /\ s \in Seq(Byte) /\ ~Throws(s)
  /\ s # <<>> => s[1] \in {INCR_SYNC, ACK}
  /\ Len(s) >= 4 => s[3] = 151 /\ s[4] = 152

(* What recvFromSocket makes of a message of which k pieces have arrived. *)
LEMMA MessageAt ==
  ASSUME FileShape, NEW pc \in Packets, NEW k \in 0 .. Len(pc)
  PROVE  /\ InStep(Joined(pc, k)) /\ Joined(pc, 0) = <<>>
         /\ Complete(Joined(pc, k)) <=> k = Len(pc)
         /\ Complete(Joined(pc, k)) => After(Joined(pc, k)) = <<>>
<1>1. PICK type, payload : IsPacket(pc, type, payload)
  BY PacketsAre
<1>2. /\ Begun(Joined(pc, k), type)
      /\ k = Len(pc) => Whole(Joined(pc, k), payload)
      /\ k # Len(pc) => ~Complete(Joined(pc, k))
  BY <1>1, Arrived
<1>3. Joined(pc, 0) = <<>>
  BY DEF Joined
<1>4. type \in {INCR_SYNC, ACK} /\ payload \in Seq(Byte)
  BY <1>1 DEF IsPacket, Payloads
<1>5. InStep(Joined(pc, k))
  BY <1>2, <1>4, Zenon DEF Begun, InStep
<1>6. Complete(Joined(pc, k)) <=> k = Len(pc)
  BY <1>2 DEF Whole
<1>7. ASSUME k = Len(pc) PROVE After(Joined(pc, k)) = <<>>
  <2>1. Joined(pc, k) \in Seq(Byte)
    BY <1>5 DEF InStep
  <2>2. QED
    BY <1>2, <1>4, <1>7, <2>1, WholeTaken
<1>8. QED
  BY <1>3, <1>5, <1>6, <1>7

(* Nothing is no message. *)
LEMMA EmptyIs == ~Complete(<<>>) /\ ~Throws(<<>>)
BY DEF Complete, Throws, PayloadLen

(* A replica reads no length that makes it give up, and takes all there is *)
(* when it takes a message, unless the connection carried mixed messages.  *)
LEMMA UnmixedIs ==
  ASSUME FileShape, Streams, NEW c \in Connections \ mixed
  PROVE  InStep(net[c]) /\ (Complete(net[c]) => After(net[c]) = <<>>)
<1>1. PICK pc \in Packets : \E k \in 0 .. Len(pc) : net[c] = Joined(pc, k)
  BY DEF Streams
<1>2. PICK k \in 0 .. Len(pc) : net[c] = Joined(pc, k)
  BY <1>1
<1>3. QED
  BY <1>2, MessageAt

(* The steps of the network and the replicas. *)
LEMMA PassingSteps ==
  ASSUME TypeInv, DescriptorInv, StreamInv,
         \/ \E r \in Replicas : ReplicaStep(r)
         \/ \E c \in Connections : Break(c)
  PROVE  Passing
<1>0. FileShape /\ NetShape /\ Following /\ Streams /\ Unmade
  BY DEF TypeInv, StreamInv
<1>1. UNCHANGED <<fds, mixed, listen, handler>>
  BY Zenon DEF ReplicaStep, Connect, Receive, ReceiveEnds, ReceiveThrows, Break, masterVars
<1>2. \A x \in Senders : Stays(x)
  BY <1>1, NobodyMoves
<1>3. /\ DOMAIN net = Connections /\ DOMAIN link = Connections
  BY <1>0 DEF NetShape
<1>4. ASSUME NEW r \in Replicas, NEW b \in Connections, Connect(r, b), NEW c \in Connections
      PROVE  Carried(c)
  <2>1. link[b] = "none" /\ link' = [link EXCEPT ![b] = "up"] /\ net' = net
    BY <1>4 DEF Connect
  <2>2. link'[c] = IF c = b THEN "up" ELSE link[c]
    BY <1>3, <2>1
  <2>3. QED
    BY <2>1, <2>2 DEF Carried
<1>5. ASSUME NEW r \in Replicas, Receive(r), NEW c \in Connections PROVE Carried(c)
  <2>1. PICK b : b = replica[r].conn
    OBVIOUS
  <2>2. /\ replica[r].step = "receive" /\ Complete(net[b])
        /\ net' = [net EXCEPT ![b] = After(@)] /\ link' = link
    BY <1>5, <2>1 DEF Receive
  <2>3. b \in Connections
    BY <1>0, <2>1, <2>2 DEF Following
  <2>4. net'[c] = IF c = b THEN After(net[b]) ELSE net[c]
    BY <1>3, <2>2
  <2>5. link[b] # "none"
    BY <1>0, <2>2, <2>3, EmptyIs DEF Unmade
  <2>6. b \notin mixed => After(net[b]) = <<>>
    BY <1>0, <2>2, <2>3, UnmixedIs
  <2>7. QED
    BY <2>2, <2>4, <2>5, <2>6 DEF Carried
<1>6. ASSUME NEW r \in Replicas, ReceiveEnds(r), NEW c \in Connections PROVE Carried(c)
  <2>1. PICK b : b = replica[r].conn
    OBVIOUS
  <2>2. /\ link[b] = "reset" /\ net' = [net EXCEPT ![b] = <<>>] /\ link' = link
    BY <1>6, <2>1 DEF ReceiveEnds
  <2>3. /\ c # b => net'[c] = net[c] /\ link'[c] = link[c]
        /\ c = b => net'[c] = <<>> /\ link'[c] = "reset"
    BY <1>3, <2>2
  <2>4. QED
    BY <2>3 DEF Carried
<1>7. ASSUME NEW r \in Replicas, ReceiveThrows(r), NEW c \in Connections PROVE Carried(c)
  <2>1. PICK b : b = replica[r].conn
    OBVIOUS
  <2>2. /\ replica[r].step = "receive" /\ Throws(net[b])
        /\ net' = [net EXCEPT ![b] = <<>>]
        /\ link' = [link EXCEPT ![b] = IF @ = "up" THEN "dead" ELSE @]
    BY <1>7, <2>1 DEF ReceiveThrows
  <2>3. b \in Connections
    BY <1>0, <2>1, <2>2 DEF Following
  <2>4. net'[c] = IF c = b THEN <<>> ELSE net[c]
    BY <1>3, <2>2
  <2>5. link[b] # "none" /\ b \in mixed
    BY <1>0, <2>2, <2>3, EmptyIs, UnmixedIs DEF Unmade, InStep
  <2>6. /\ c # b => link'[c] = link[c]
        /\ c = b => link'[c] # "up" /\ link'[c] # "none"
    BY <1>3, <2>2, <2>5
  <2>7. QED
    BY <2>2, <2>4, <2>5, <2>6 DEF Carried
<1>8. ASSUME NEW b \in Connections, Break(b), NEW c \in Connections PROVE Carried(c)
  <2>1. \/ link' = [link EXCEPT ![b] = "reset"] /\ net' = net
        \/ link' = [link EXCEPT ![b] = "dead"] /\ net' = [net EXCEPT ![b] = <<>>]
    BY <1>8 DEF Break
  <2>2. /\ c # b => link'[c] = link[c] /\ net'[c] = net[c]
        /\ c = b => link'[c] \in {"reset", "dead"} /\ net'[c] \in {net[c], <<>>}
    BY <1>3, <2>1
  <2>3. QED
    BY <2>2 DEF Carried
<1>9. \A c \in Connections : Carried(c)
  BY <1>4, <1>5, <1>6, <1>7, <1>8, Zenon DEF ReplicaStep
<1>10. QED
  BY <1>1, <1>2, <1>9 DEF Passing

(* Every step is of one of the kinds. *)
LEMMA StepKinds ==
  ASSUME TypeInv, DescriptorInv, StreamInv, [ReplicationNext]_allVars
  PROVE  Working \/ Passing \/ \E x \in Senders : Sending(x)
BY WorkingSteps, DescriptorSteps, SendingSteps, PassingSteps, Zenon
  DEF ReplicationNext, ListenerStep, HandlerStep

-----------------------------------------------------------------------------
(* What every thread that sends has. *)
LEMMA SenderTyped ==
  ASSUME ListenShape, ThreadShape, NEW x \in Senders
  PROVE  Msg(x) \in Messages /\ Fd(x) \in Fds /\ Msg(x).into \in 0 .. MaxConns
<1>1. CASE \E p \in Appenders : Msg(x) = listen[p].sending /\ Fd(x) = listen[p].fd
  <2>1. PICK p \in Appenders : Msg(x) = listen[p].sending /\ Fd(x) = listen[p].fd
    BY <1>1
  <2>2. listen[p].sending \in Messages /\ listen[p].fd \in Fds
    BY DEF ListenShape
  <2>3. QED
    BY <2>1, <2>2 DEF Messages
<1>2. CASE \E c \in Connections : Msg(x) = handler[c].sending /\ Fd(x) = handler[c].fd
  <2>1. PICK c \in Connections : Msg(x) = handler[c].sending /\ Fd(x) = handler[c].fd
    BY <1>2
  <2>2. handler[c].sending \in Messages /\ handler[c].fd \in Fds
    BY DEF ThreadShape
  <2>3. QED
    BY <2>1, <2>2 DEF Messages
<1>3. QED
  BY <1>1, <1>2, SenderKinds

(* A connection has a number above 0. *)
LEMMA ConnectionIs == \A c \in Connections : c # 0
BY Given DEF Connections

(* The threads of the master work on. *)
LEMMA WorkingKeeps ==
  ASSUME TypeInv, StreamInv, DescriptorInv, Working, Packets \subseteq Packets'
  PROVE  StreamInv'
<1>0. /\ Tracks /\ OneSender /\ Streams /\ Unmade /\ FileShape
      /\ ListenShape /\ ThreadShape
  BY DEF TypeInv, StreamInv
<1>1. /\ net' = net /\ mixed' = mixed /\ link' = link
      /\ \A x \in Senders : Stays(x) \/ Taking(x)
  BY DEF Working
<1>2. \A c : Clean(c)' <=> Clean(c)
  BY <1>1 DEF Clean
<1>3. ASSUME NEW x \in Senders, NEW c \in Connections
      PROVE  Within(x, c)' <=> Within(x, c)
  <2>1. CASE Stays(x)
    BY <2>1 DEF Stays, Within
  <2>2. CASE Taking(x)
    BY <2>2, ConnectionIs DEF Taking, Within
  <2>3. QED
    BY <1>1, <2>1, <2>2
<1>4. Tracks'
  <2> SUFFICES ASSUME NEW x \in Senders, Msg(x)'.out # <<>>
               PROVE  \E pc \in Packets' : \E k \in 0 .. Len(pc) - 1 : OnTrack(x, pc, k)'
    BY DEF Tracks
  <2>1. CASE Stays(x)
    <3>1. Msg(x)' = Msg(x) /\ Fd(x)' = Fd(x)
      BY <2>1 DEF Stays
    <3>2. PICK pc \in Packets : \E k \in 0 .. Len(pc) - 1 : OnTrack(x, pc, k)
      BY <1>0, <3>1 DEF Tracks
    <3>3. PICK k \in 0 .. Len(pc) - 1 : OnTrack(x, pc, k)
      BY <3>2
    <3>4. ASSUME Clean(Msg(x).into), Behind(Fd(x)) = Msg(x).into
          PROVE  Behind(Fd(x))' = Msg(x).into
      <4>1. /\ Msg(x).into \in Connections /\ link[Msg(x).into] = "up"
            /\ Msg(x).into # 0
        BY <3>4, ConnectionIs DEF Clean
      <4>2. Fd(x) \in Descriptors /\ fds[Fd(x)] = Msg(x).into
        BY <3>4, <4>1 DEF Behind
      <4>3. fds'[Fd(x)] = fds[Fd(x)]
        BY <4>1, <4>2 DEF Working
      <4>4. QED
        BY <3>1, <4>2, <4>3 DEF Behind
    <3>5. OnTrack(x, pc, k)'
      BY <1>1, <1>2, <3>1, <3>3, <3>4 DEF OnTrack
    <3>6. QED
      BY <3>5
  <2>2. CASE Taking(x)
    <3>1. PICK pc \in Packets : Msg(x)'.out = pc /\ Msg(x)'.into = 0
      BY <2>2 DEF Taking
    <3>2. pc \in Seq(Seq(Byte)) /\ Len(pc) \in 4 .. 5
      BY <1>0, PacketsAre
    <3>3. Rest(pc, 0) = pc
      BY <3>2 DEF Rest
    <3>4. ~Clean(0)'
      BY ConnectionIs DEF Clean
    <3>5. OnTrack(x, pc, 0)'
      BY <3>1, <3>3, <3>4 DEF OnTrack
    <3>6. 0 \in 0 .. Len(pc) - 1
      BY <3>2
    <3>7. QED
      BY <3>5, <3>6
  <2>3. QED
    BY <1>1, <2>1, <2>2
<1>5. OneSender'
  BY <1>0, <1>2, <1>3 DEF OneSender
<1>6. Streams'
  <2> SUFFICES ASSUME NEW c \in Connections \ mixed
               PROVE  /\ \E pc \in Packets' : \E k \in 0 .. Len(pc) : net[c] = Joined(pc, k)
                      /\ link[c] = "up" /\ (\A x \in Senders : ~Within(x, c)') =>
                           net[c] = <<>> \/ \E pc \in Packets' : net[c] = Joined(pc, Len(pc))
    BY <1>1, Zenon DEF Streams
  <2>1. (\A x \in Senders : ~Within(x, c)') => \A x \in Senders : ~Within(x, c)
    BY <1>3
  <2>2. QED
    BY <1>0, <2>1 DEF Streams
<1>7. Unmade'
  <2>1. ASSUME NEW d \in Descriptors, fds'[d] # 0 PROVE link[fds'[d]] # "none"
    BY <1>0, <2>1 DEF Working, Unmade
  <2>2. ASSUME NEW c \in Connections, link[c] = "none", NEW x \in Senders
        PROVE  Msg(x)'.into # c
    <3>1. Msg(x).into # c /\ c # 0
      BY <1>0, <2>2, ConnectionIs DEF Unmade
    <3>2. QED
      BY <1>1, <3>1 DEF Stays, Taking
  <2>3. \A c \in Connections : link[c] = "none" => net[c] = <<>>
    BY <1>0 DEF Unmade
  <2>4. QED
    BY <1>1, <2>1, <2>2, <2>3 DEF Unmade
<1>8. QED
  BY <1>4, <1>5, <1>6, <1>7 DEF StreamInv

(* The network and the replicas go on. *)
LEMMA PassingKeeps ==
  ASSUME TypeInv, StreamInv, DescriptorInv, Passing, Packets \subseteq Packets'
  PROVE  StreamInv'
<1>0. /\ Tracks /\ OneSender /\ Streams /\ Unmade /\ FileShape
      /\ ListenShape /\ ThreadShape /\ FdsShape
  BY DEF TypeInv, StreamInv, DescriptorInv
<1>1. /\ fds' = fds /\ mixed' = mixed
      /\ \A x \in Senders : Stays(x)
      /\ \A c \in Connections : Carried(c)
  BY DEF Passing
<1>2. ASSUME NEW x \in Senders
      PROVE  /\ Msg(x)' = Msg(x) /\ Fd(x)' = Fd(x) /\ Behind(Fd(x))' = Behind(Fd(x))
             /\ \A c : Within(x, c)' <=> Within(x, c)
  BY <1>1 DEF Stays, Behind, Within
<1>3. ASSUME NEW x \in Senders, NEW c \in Connections, Within(x, c)
      PROVE  link[c] # "none"
  BY <1>0, <1>3 DEF Unmade, Within
<1>4. ASSUME NEW x \in Senders, NEW c \in Connections, Within(x, c), Clean(c)'
      PROVE  Clean(c) /\ net'[c] = net[c] /\ ~Complete(net[c])
  <2>1. c \notin mixed /\ link'[c] = "up"
    BY <1>1, <1>4 DEF Clean
  <2>2. link[c] = "up"
    BY <1>1, <1>3, <1>4, <2>1 DEF Carried
  <2>3. Clean(c)
    BY <2>1, <2>2 DEF Clean
  <2>4. Msg(x).out # <<>> /\ Msg(x).into = c
    BY <1>4 DEF Within
  <2>5. PICK pc \in Packets : \E k \in 0 .. Len(pc) - 1 : OnTrack(x, pc, k)
    BY <1>0, <2>4 DEF Tracks
  <2>6. PICK k \in 0 .. Len(pc) - 1 : OnTrack(x, pc, k)
    BY <2>5
  <2>7. net[c] = Joined(pc, k)
    BY <2>3, <2>4, <2>6 DEF OnTrack
  <2>8. k \in 0 .. Len(pc) /\ k # Len(pc)
    <3>1. Len(pc) \in 4 .. 5
      BY <1>0, PacketsAre
    <3>2. QED
      BY <3>1
  <2>9. ~Complete(net[c])
    BY <1>0, <2>7, <2>8, MessageAt
  <2>10. QED
    BY <1>1, <2>1, <2>3, <2>9 DEF Carried
<1>5. Tracks'
  <2> SUFFICES ASSUME NEW x \in Senders, Msg(x)'.out # <<>>
               PROVE  \E pc \in Packets' : \E k \in 0 .. Len(pc) - 1 : OnTrack(x, pc, k)'
    BY DEF Tracks
  <2>1. Msg(x).out # <<>>
    BY <1>2
  <2>2. PICK pc \in Packets : \E k \in 0 .. Len(pc) - 1 : OnTrack(x, pc, k)
    BY <1>0, <2>1 DEF Tracks
  <2>3. PICK k \in 0 .. Len(pc) - 1 : OnTrack(x, pc, k)
    BY <2>2
  <2>4. ASSUME Clean(Msg(x).into)'
        PROVE  Clean(Msg(x).into) /\ net'[Msg(x).into] = net[Msg(x).into]
    <3>1. Msg(x).into \in Connections
      BY <1>2, <2>4 DEF Clean
    <3>2. Clean(Msg(x).into)' /\ Within(x, Msg(x).into)
      BY <2>1, <2>4 DEF Within
    <3>3. QED
      BY <1>2, <1>4, <3>1, <3>2
  <2>5. OnTrack(x, pc, k)'
    BY <1>2, <2>3, <2>4 DEF OnTrack
  <2>6. QED
    BY <2>5
<1>6. OneSender'
  <2> SUFFICES ASSUME NEW c \in Connections, Clean(c)', NEW x \in Senders, NEW y \in Senders,
                      Within(x, c)', Within(y, c)'
               PROVE  x = y
    BY DEF OneSender
  <2>1. Within(x, c) /\ Within(y, c)
    BY <1>2
  <2>2. Clean(c)
    BY <1>4, <2>1
  <2>3. QED
    BY <1>0, <2>1, <2>2 DEF OneSender
<1>7. Streams'
  <2> SUFFICES ASSUME NEW c \in Connections \ mixed
               PROVE  /\ \E pc \in Packets' : \E k \in 0 .. Len(pc) : net'[c] = Joined(pc, k)
                      /\ link'[c] = "up" /\ (\A x \in Senders : ~Within(x, c)') =>
                           net'[c] = <<>> \/ \E pc \in Packets' : net'[c] = Joined(pc, Len(pc))
    BY <1>1, Zenon DEF Streams
  <2>1. CASE net'[c] = <<>>
    <3>1. PICK pc \in Packets : Len(pc) \in 4 .. 5
      BY <1>0, PacketsAre
    <3>2. 0 \in 0 .. Len(pc) /\ net'[c] = Joined(pc, 0)
      BY <1>0, <2>1, <3>1, MessageAt
    <3>3. QED
      BY <2>1, <3>2
  <2>2. CASE net'[c] = net[c]
    <3>1. (\A x \in Senders : ~Within(x, c)') => \A x \in Senders : ~Within(x, c)
      BY <1>2
    <3>2. link'[c] = "up" => link[c] = "up" \/ net[c] = <<>>
      BY <1>0, <1>1 DEF Carried, Unmade
    <3>3. QED
      BY <1>0, <2>2, <3>1, <3>2 DEF Streams
  <2>3. QED
    BY <1>1, <2>1, <2>2 DEF Carried
<1>8. Unmade'
  <2>1. ASSUME NEW d \in Descriptors, fds[d] # 0 PROVE link'[fds[d]] # "none"
    <3>1. fds[d] \in Connections
      BY <1>0, <2>1, Given DEF FdsShape, Connections
    <3>2. QED
      BY <1>0, <1>1, <2>1, <3>1 DEF Carried, Unmade
  <2>2. ASSUME NEW c \in Connections, link'[c] = "none"
        PROVE  net'[c] = <<>> /\ \A x \in Senders : Msg(x)'.into # c
    <3>1. link[c] = "none" /\ net'[c] = net[c]
      BY <1>1, <2>2 DEF Carried
    <3>2. QED
      BY <1>0, <1>2, <3>1 DEF Unmade
  <2>3. QED
    BY <1>1, <2>1, <2>2 DEF Unmade
<1>9. QED
  BY <1>5, <1>6, <1>7, <1>8 DEF StreamInv

-----------------------------------------------------------------------------
(* What is left of a message after its next piece. *)
LEMMA RestNext ==
  ASSUME NEW pc \in Seq(Seq(Byte)), NEW k \in 0 .. Len(pc) - 1
  PROVE  /\ Head(Rest(pc, k)) = pc[k + 1] /\ Tail(Rest(pc, k)) = Rest(pc, k + 1)
         /\ Rest(pc, k + 1) = <<>> <=> k + 1 = Len(pc)
<1>1. PICK n \in Nat : n = Len(pc)
  OBVIOUS
<1>2. k + 1 \in 1 .. n /\ k + 1 \in Nat
  BY <1>1
<1> DEFINE B == Seq(Byte)
           u == SubSeq(pc, k + 1, n)
           v == SubSeq(pc, k + 2, n)
<1>3. pc \in Seq(B)
  OBVIOUS
<1> HIDE DEF B
<1>4. \A i \in 1 .. n : pc[i] \in B
  BY <1>1, <1>3, ElementOfSeq
<1>5. /\ u \in Seq(B) /\ Len(u) = n - k /\ \A i \in 1 .. n - k : u[i] = pc[k + i]
  BY <1>1, <1>2, <1>3, <1>4
<1>6. /\ v \in Seq(B) /\ Len(v) = n - k - 1 /\ \A i \in 1 .. n - k - 1 : v[i] = pc[k + 1 + i]
  BY <1>1, <1>2, <1>3, <1>4
<1> HIDE DEF u, v
<1>7. u # <<>>
  <2>1. Len(u) # 0
    BY <1>2, <1>5
  <2>2. Len(<<>>) = 0
    OBVIOUS
  <2>3. QED
    BY <2>1, <2>2, Zenon
<1>8. /\ Head(u) = u[1] /\ Tail(u) \in Seq(B) /\ Len(Tail(u)) = Len(u) - 1
      /\ \A i \in 1 .. Len(Tail(u)) : Tail(u)[i] = u[i + 1]
  BY <1>5, <1>7, HeadTailProperties
<1>9. Head(u) = pc[k + 1]
  BY <1>2, <1>5, <1>8
<1>10. Tail(u) = v
  <2>1. Len(Tail(u)) = Len(v) /\ Len(v) \in Nat
    BY <1>2, <1>5, <1>6, <1>8
  <2>2. ASSUME NEW i \in 1 .. Len(v) PROVE Tail(u)[i] = v[i]
    <3>1. /\ i \in 1 .. n - k - 1 /\ i + 1 \in 1 .. n - k
          /\ k + (i + 1) = k + 1 + i /\ i \in 1 .. Len(Tail(u))
      BY <1>1, <1>6, <2>1
    <3>2. v[i] = pc[k + 1 + i] /\ u[i + 1] = pc[k + (i + 1)] /\ Tail(u)[i] = u[i + 1]
      BY <1>5, <1>6, <1>8, <3>1, Zenon
    <3>3. QED
      BY <3>1, <3>2, Zenon
  <2>3. QED
    BY <1>6, <1>8, <2>1, <2>2, SeqEqual
<1>11. v = <<>> <=> k + 1 = n
  <2>1. v = <<>> <=> Len(v) = 0
    BY <1>6, EmptySeq
  <2>2. Len(v) = 0 <=> k + 1 = n
    BY <1>2, <1>6
  <2>3. QED
    BY <2>1, <2>2
<1>12. Rest(pc, k) = u /\ Rest(pc, k + 1) = v
  <2>1. (k + 1) + 1 = k + 2
    OBVIOUS
  <2>2. QED
    BY <1>1, <2>1 DEF Rest, u, v
<1>13. QED
  BY <1>1, <1>9, <1>10, <1>11, <1>12

(* What a piece of message pc, of which k pieces are sent, does: the       *)
(* message is over, or goes on with one piece less.                        *)
LEMMA PieceSent ==
  ASSUME NEW x \in Senders, Sending(x), NEW pc \in Seq(Seq(Byte)), NEW k \in 0 .. Len(pc) - 1,
         Msg(x).out = Rest(pc, k)
  PROVE  /\ \/ Msg(x)'.out = <<>> /\ Msg(x)'.into = 0
            \/ /\ Msg(x)'.out = Rest(pc, k + 1) /\ k + 1 # Len(pc)
               /\ Behind(Fd(x)) # 0 /\ link[Behind(Fd(x))] # "reset"
               /\ Msg(x)'.into = IF Msg(x).into = 0 THEN Behind(Fd(x)) ELSE Msg(x).into
         /\ (Behind(Fd(x)) # 0 /\ link[Behind(Fd(x))] # "reset" /\ k + 1 # Len(pc)) =>
              Msg(x)'.out # <<>>
<1>1. /\ Tail(Rest(pc, k)) = Rest(pc, k + 1)
      /\ Rest(pc, k + 1) = <<>> <=> k + 1 = Len(pc)
  BY RestNext
<1> DEFINE c == Behind(Fd(x))
           i == IF Msg(x).into = 0 THEN c ELSE Msg(x).into
           m == [out |-> Rest(pc, k + 1), into |-> i]
<1>2. Msg(x)' = IF c = 0 \/ link[c] = "reset" \/ Rest(pc, k + 1) = <<>> THEN Nothing ELSE m
  <2>1. Tail(Msg(x).out) = Rest(pc, k + 1)
    BY <1>1
  <2>2. Msg(x)' = AfterSend(Msg(x), Fd(x))
    BY DEF Sending
  <2>3. QED
    BY <2>1, <2>2 DEF AfterSend
<1>3. m.out = Rest(pc, k + 1) /\ m.into = i
  OBVIOUS
<1> HIDE DEF m, i
<1>4. QED
  BY <1>1, <1>2, <1>3, NothingIs DEF i

(* What it does to the connections. *)
LEMMA PieceGoes ==
  ASSUME NEW x \in Senders, Sending(x), DOMAIN net = Connections, NEW c \in Connections
  PROVE  /\ mixed \subseteq mixed'
         /\ c # Behind(Fd(x)) => net'[c] = net[c] /\ (c \in mixed' => c \in mixed)
         /\ link[c] # "up" => net'[c] = net[c]
         /\ c = Behind(Fd(x)) /\ link[c] = "up" => net'[c] = net[c] \o Head(Msg(x).out)
         /\ c = Behind(Fd(x)) => ~Complete(net[c])
<1> DEFINE b == Behind(Fd(x))
<1> HIDE DEF b
<1>1. /\ KeptUp(Fd(x))
      /\ net' = IF b # 0 /\ link[b] = "up"
                THEN [net EXCEPT ![b] = @ \o Head(Msg(x).out)] ELSE net
      /\ mixed' \in {mixed, mixed \cup {b}}
  <2>1. Transmit(Msg(x), Fd(x))
    BY DEF Sending
  <2>2. KeptUp(Fd(x))
    BY <2>1 DEF Transmit
  <2>3. QED
    BY <2>1, <2>2 DEF Transmit, b
<1>2. c # 0
  BY ConnectionIs
<1>3. c = b => ~Complete(net[c])
  BY <1>1, <1>2 DEF KeptUp, b
<1>4. c = b /\ link[c] = "up" => net'[c] = net[c] \o Head(Msg(x).out)
  BY <1>1, <1>2
<1>5. (c # b => net'[c] = net[c]) /\ (link[c] # "up" => net'[c] = net[c])
  <2>1. CASE b # 0 /\ link[b] = "up"
    <3>1. c # b => net'[c] = net[c]
      BY <1>1, <2>1
    <3>2. QED
      BY <2>1, <3>1
  <2>2. CASE ~(b # 0 /\ link[b] = "up")
    BY <1>1, <2>2
  <2>3. QED
    BY <2>1, <2>2
<1>6. QED
  BY <1>1, <1>3, <1>4, <1>5 DEF b

(* The connection that the piece goes to, if it stays unmixed: it has the  *)
(* beginning of this message and nothing else, and no other thread is in   *)
(* the middle of one there.                                                *)
LEMMA PieceFits ==
  ASSUME TypeInv, StreamInv, NEW x \in Senders, Sending(x),
         NEW pc \in Packets, NEW k \in 0 .. Len(pc) - 1, OnTrack(x, pc, k),
         NEW c \in Connections, c = Behind(Fd(x)), link[c] = "up", c \notin mixed'
  PROVE  /\ net'[c] = Joined(pc, k + 1)
         /\ \A y \in Senders : Within(y, c) => y = x
         /\ Msg(x).into \in {0, c}
<1>0. /\ Streams /\ OneSender /\ FileShape /\ DOMAIN net = Connections
  BY DEF TypeInv, StreamInv, NetShape
<1>1. /\ c \notin mixed /\ net'[c] = net[c] \o Head(Msg(x).out) /\ ~Complete(net[c])
  BY <1>0, PieceGoes
<1>2. /\ Msg(x).out = Rest(pc, k) /\ Msg(x).out # <<>> /\ (Msg(x).into = 0 => k = 0)
  BY DEF OnTrack, Sending
<1>3. PICK type, payload : IsPacket(pc, type, payload)
  BY <1>0, PacketsAre
<1>4. pc \in Seq(Seq(Byte)) /\ Len(pc) \in 4 .. 5
  BY <1>0, PacketsAre
<1>5. Joined(pc, k + 1) = Joined(pc, k) \o Head(Msg(x).out)
  <2>1. Joined(pc, k + 1) = Joined(pc, k) \o pc[k + 1]
    BY <1>3, JoinedNext
  <2>2. Head(Msg(x).out) = pc[k + 1]
    BY <1>2, <1>4, RestNext
  <2>3. QED
    BY <2>1, <2>2, Zenon
<1>6. /\ Msg(x).into = 0 => ~\E o \in Started : o.into = c
      /\ Msg(x).into # 0 => Msg(x).into = c
  <2>1. Transmit(Msg(x), Fd(x)) /\ c # 0
    BY ConnectionIs DEF Sending
  <2>2. mixed' = IF c # 0 /\ (IF Msg(x).into = 0 THEN \E o \in Started : o.into = c
                                                 ELSE Msg(x).into # c)
                 THEN mixed \cup {c} ELSE mixed
    BY <2>1 DEF Transmit
  <2>3. c \notin mixed' /\ c \in mixed \cup {c}
    OBVIOUS
  <2>4. QED
    BY <2>1, <2>2, <2>3
<1>7. ASSUME NEW y \in Senders, Within(y, c), Msg(x).into = 0 PROVE FALSE
  <2>1. Msg(y).out # <<>> /\ Msg(y).into = c /\ c # 0
    BY <1>7, ConnectionIs DEF Within
  <2>2. Msg(y) \in {listen[p].sending : p \in Appenders} \cup
                   {handler[b].sending : b \in Connections}
    BY SenderKinds
  <2>3. Msg(y) \in Started
    BY <2>1, <2>2 DEF Started
  <2>4. QED
    BY <1>6, <1>7, <2>1, <2>3
<1>8. CASE Msg(x).into = 0
  <2>1. \A y \in Senders : ~Within(y, c)
    BY <1>7, <1>8
  <2>2. net[c] = <<>> \/ \E q \in Packets : net[c] = Joined(q, Len(q))
    BY <1>0, <1>1, <2>1 DEF Streams
  <2>3. net[c] = <<>>
    <3>1. ASSUME NEW q \in Packets, net[c] = Joined(q, Len(q)) PROVE FALSE
      <4>1. Len(q) \in 0 .. Len(q)
        BY <1>0, PacketsAre
      <4>2. Complete(Joined(q, Len(q)))
        BY <1>0, <4>1, MessageAt
      <4>3. QED
        BY <1>1, <3>1, <4>2
    <3>2. QED
      BY <2>2, <3>1
  <2>4. k = 0 /\ Joined(pc, 0) = <<>>
    BY <1>2, <1>8 DEF Joined
  <2>5. net'[c] = Joined(pc, k + 1)
    BY <1>1, <1>5, <2>3, <2>4, Zenon
  <2>6. QED
    BY <1>8, <2>1, <2>5
<1>9. CASE Msg(x).into # 0
  <2>1. Msg(x).into = c /\ Within(x, c) /\ Clean(c)
    BY <1>1, <1>2, <1>6, <1>9 DEF Within, Clean
  <2>2. net[c] = Joined(pc, k)
    BY <2>1 DEF OnTrack
  <2>3. net'[c] = Joined(pc, k + 1)
    BY <1>1, <1>5, <2>2, Zenon
  <2>4. \A y \in Senders : Within(y, c) => y = x
    BY <1>0, <2>1 DEF OneSender
  <2>5. QED
    BY <2>1, <2>3, <2>4
<1>10. QED
  BY <1>8, <1>9

(* A piece is sent. *)
LEMMA SendingKeeps ==
  ASSUME TypeInv, StreamInv, DescriptorInv, NEW x \in Senders, Sending(x),
         Packets \subseteq Packets'
  PROVE  StreamInv'
<1>0. /\ Tracks /\ OneSender /\ Streams /\ Unmade /\ FileShape /\ FdsShape
      /\ ListenShape /\ ThreadShape /\ DOMAIN net = Connections
  BY DEF TypeInv, StreamInv, NetShape, DescriptorInv
<1>1. /\ Msg(x).out # <<>> /\ Fd(x)' = Fd(x) /\ fds' = fds /\ link' = link
      /\ \A y \in Senders : y # x => Msg(y)' = Msg(y) /\ Fd(y)' = Fd(y)
  BY DEF Sending, Stays
<1>2. PICK pc \in Packets : \E j \in 0 .. Len(pc) - 1 : OnTrack(x, pc, j)
  BY <1>0, <1>1 DEF Tracks
<1>3. PICK k \in 0 .. Len(pc) - 1 : OnTrack(x, pc, k)
  BY <1>2
<1>4. pc \in Seq(Seq(Byte)) /\ Len(pc) \in 4 .. 5
  BY <1>0, PacketsAre
<1>5. PICK b : b = Behind(Fd(x))
  OBVIOUS
<1>6. /\ \/ Msg(x)'.out = <<>> /\ Msg(x)'.into = 0
         \/ /\ Msg(x)'.out = Rest(pc, k + 1) /\ k + 1 # Len(pc)
            /\ b # 0 /\ link[b] # "reset"
            /\ Msg(x)'.into = IF Msg(x).into = 0 THEN b ELSE Msg(x).into
      /\ (b # 0 /\ link[b] # "reset" /\ k + 1 # Len(pc)) => Msg(x)'.out # <<>>
  <2>1. Msg(x).out = Rest(pc, k)
    BY <1>3 DEF OnTrack
  <2>2. QED
    BY <1>4, <1>5, <2>1, PieceSent
<1>7. ASSUME NEW c \in Connections, Within(x, c), Clean(c) PROVE c = b
  BY <1>3, <1>5, <1>7 DEF OnTrack, Within
<1>8. ASSUME NEW c \in Connections, c # b
      PROVE  net'[c] = net[c] /\ (Clean(c)' <=> Clean(c))
  BY <1>0, <1>1, <1>5, <1>8, PieceGoes DEF Clean
<1>9. ASSUME NEW c \in Connections, c # b, Clean(c)
      PROVE  ~Within(x, c) /\ ~Within(x, c)'
  <2>1. ~Within(x, c)
    BY <1>7, <1>9
  <2>2. Msg(x).into # c
    BY <1>1, <2>1 DEF Within
  <2>3. Msg(x)'.out = <<>> \/ Msg(x)'.into # c
    BY <1>6, <1>9, <2>2
  <2>4. QED
    BY <2>1, <2>3 DEF Within
<1>10. ASSUME b \in Connections, link[b] = "up", b \notin mixed'
       PROVE  /\ net'[b] = Joined(pc, k + 1)
              /\ \A y \in Senders : Within(y, b) => y = x
              /\ Msg(x).into \in {0, b}
  BY <1>3, <1>5, <1>10, PieceFits
<1>11. ASSUME NEW y \in Senders, y # x, NEW c \in Connections
       PROVE  Within(y, c)' <=> Within(y, c)
  BY <1>1, <1>11 DEF Within
<1>12. ASSUME NEW y \in Senders PROVE Behind(Fd(y))' = Behind(Fd(y))
  BY <1>1 DEF Behind
<1>13. k + 1 \in 1 .. Len(pc) /\ (k + 1 # Len(pc) => k + 1 \in 0 .. Len(pc) - 1)
  BY <1>4
<1>14. Tracks'
  <2> SUFFICES ASSUME NEW y \in Senders, Msg(y)'.out # <<>>
               PROVE  \E q \in Packets' : \E j \in 0 .. Len(q) - 1 : OnTrack(y, q, j)'
    BY DEF Tracks
  <2>1. CASE y = x
    <3>1. /\ Msg(x)'.out = Rest(pc, k + 1) /\ k + 1 # Len(pc) /\ b # 0
          /\ Msg(x)'.into = IF Msg(x).into = 0 THEN b ELSE Msg(x).into
      BY <1>6, <2>1
    <3>2. PICK i : i = Msg(x)'.into
      OBVIOUS
    <3>3. i # 0
      BY <3>1, <3>2
    <3>4. ASSUME Clean(i)' PROVE Behind(Fd(x))' = i /\ net'[i] = Joined(pc, k + 1)
      <4>1. i \in Connections
        BY <3>4 DEF Clean
      <4>2. i = b
        <5>1. Within(x, i)'
          BY <2>1, <3>2 DEF Within
        <5>2. ASSUME i # b PROVE FALSE
          <6>1. Clean(i)
            BY <1>8, <3>4, <4>1, <5>2
          <6>2. QED
            BY <1>9, <4>1, <5>1, <5>2, <6>1
        <5>3. QED
          BY <5>2
      <4>3. link[b] = "up" /\ b \notin mixed' /\ b \in Connections
        BY <1>1, <3>4, <4>2 DEF Clean
      <4>4. QED
        BY <1>5, <1>10, <1>12, <4>2, <4>3
    <3>5. OnTrack(x, pc, k + 1)'
      BY <3>1, <3>2, <3>3, <3>4 DEF OnTrack
    <3>6. QED
      BY <1>13, <2>1, <3>1, <3>5
  <2>2. CASE y # x
    <3>1. Msg(y)' = Msg(y) /\ Behind(Fd(y))' = Behind(Fd(y)) /\ Msg(y).out # <<>>
      BY <1>1, <1>12, <2>2
    <3>2. PICK q \in Packets : \E j \in 0 .. Len(q) - 1 : OnTrack(y, q, j)
      BY <1>0, <3>1 DEF Tracks
    <3>3. PICK j \in 0 .. Len(q) - 1 : OnTrack(y, q, j)
      BY <3>2
    <3>4. PICK i : i = Msg(y).into
      OBVIOUS
    <3>5. ASSUME Clean(i)' PROVE Clean(i) /\ net'[i] = net[i]
      <4>1. i \in Connections /\ link[i] = "up" /\ i \notin mixed'
        BY <1>1, <3>5 DEF Clean
      <4>2. Within(y, i)
        BY <3>1, <3>4 DEF Within
      <4>3. i # b
        BY <1>10, <2>2, <4>1, <4>2
      <4>4. QED
        BY <1>8, <3>5, <4>1, <4>3
    <3>6. OnTrack(y, q, j)'
      BY <3>1, <3>3, <3>4, <3>5 DEF OnTrack
    <3>7. QED
      BY <3>6
  <2>3. QED
    BY <2>1, <2>2
<1>15. OneSender'
  <2> SUFFICES ASSUME NEW c \in Connections, Clean(c)', NEW y \in Senders, NEW z \in Senders,
                      Within(y, c)', Within(z, c)'
               PROVE  y = z
    BY DEF OneSender
  <2>1. CASE c = b
    <3>1. link[b] = "up" /\ b \notin mixed' /\ b \in Connections
      BY <1>1, <2>1 DEF Clean
    <3>2. y = x /\ z = x
      BY <1>10, <1>11, <2>1, <3>1
    <3>3. QED
      BY <3>2
  <2>2. CASE c # b
    <3>1. Clean(c)
      BY <1>8, <2>2
    <3>2. y # x /\ z # x
      BY <1>9, <2>2, <3>1
    <3>3. QED
      BY <1>0, <1>11, <3>1, <3>2 DEF OneSender
  <2>3. QED
    BY <2>1, <2>2
<1>16. Streams'
  <2> SUFFICES ASSUME NEW c \in Connections, c \notin mixed'
               PROVE  /\ \E q \in Packets' : \E j \in 0 .. Len(q) : net'[c] = Joined(q, j)
                      /\ link[c] = "up" /\ (\A y \in Senders : ~Within(y, c)') =>
                           net'[c] = <<>> \/ \E q \in Packets' : net'[c] = Joined(q, Len(q))
    BY <1>1, Zenon DEF Streams
  <2>1. c \in Connections \ mixed
    BY <1>0, PieceGoes
  <2>2. CASE c = b /\ link[c] = "up"
    <3>1. net'[c] = Joined(pc, k + 1) /\ Msg(x).into \in {0, c}
      BY <1>10, <2>2
    <3>2. pc \in Packets' /\ k + 1 \in 0 .. Len(pc)
      BY <1>13
    <3>3. ASSUME \A y \in Senders : ~Within(y, c)' PROVE net'[c] = Joined(pc, Len(pc))
      <4>1. c # 0 /\ link[b] # "reset" /\ b # 0
        BY <2>2, ConnectionIs
      <4>2. ASSUME k + 1 # Len(pc) PROVE FALSE
        <5>1. Msg(x)'.out # <<>>
          BY <1>6, <4>1, <4>2
        <5>2. Msg(x)'.into = c
          BY <1>6, <2>2, <3>1, <5>1
        <5>3. QED
          BY <3>3, <5>1, <5>2 DEF Within
      <4>3. QED
        BY <3>1, <4>2
    <3>4. QED
      BY <3>1, <3>2, <3>3
  <2>3. CASE ~(c = b /\ link[c] = "up")
    <3>1. net'[c] = net[c]
      BY <1>0, <1>5, <2>3, PieceGoes
    <3>2. ASSUME link[c] = "up", \A y \in Senders : ~Within(y, c)'
          PROVE  \A y \in Senders : ~Within(y, c)
      <4>1. c # b /\ Clean(c)
        BY <2>1, <2>3, <3>2 DEF Clean
      <4>2. ~Within(x, c)
        BY <1>9, <4>1
      <4>3. QED
        BY <1>11, <3>2, <4>2
    <3>3. QED
      BY <1>0, <2>1, <3>1, <3>2 DEF Streams
  <2>4. QED
    BY <2>2, <2>3
<1>17. Unmade'
  <2>1. \A d \in Descriptors : fds'[d] # 0 => link'[fds'[d]] # "none"
    BY <1>0, <1>1 DEF Unmade
  <2>2. b # 0 => link[b] # "none"
    BY <1>0, <1>5 DEF Unmade, Behind
  <2>3. ASSUME NEW c \in Connections, link[c] = "none"
        PROVE  net'[c] = <<>> /\ \A y \in Senders : Msg(y)'.into # c
    <3>1. net[c] = <<>> /\ (\A y \in Senders : Msg(y).into # c) /\ c # 0
      BY <1>0, <2>3, ConnectionIs DEF Unmade
    <3>2. c # b
      BY <2>2, <2>3, <3>1
    <3>3. net'[c] = <<>>
      BY <1>8, <3>1, <3>2
    <3>4. Msg(x)'.into # c
      BY <1>6, <3>1, <3>2
    <3>5. QED
      BY <1>1, <3>1, <3>3, <3>4
  <2>4. QED
    BY <1>1, <2>1, <2>3 DEF Unmade
<1>18. QED
  BY <1>14, <1>15, <1>16, <1>17 DEF StreamInv

-----------------------------------------------------------------------------
(* The types of the threads. *)
LEMMA ListenersKept ==
  ASSUME TypeInv, FileShape', Len(log) <= Len(log'), listeners' \in Nat, listeners <= listeners',
         listen' = listen \/ \E p \in Appenders : Moves(p)
  PROVE  /\ ListenShape' /\ Placed'
         /\ \A p \in Appenders : listen'[p].step = "send" <=> listen'[p].sending.out # <<>>
<1>0. ListenShape /\ Placed /\ Sends /\ FileShape /\ Counted
  BY DEF TypeInv
<1>1. listen' \in [Appenders -> LRec]
  BY <1>0 DEF ListenShape, LRec, Moves
<1>2. ASSUME NEW q \in Appenders
      PROVE  /\ listen'[q].left <= listeners /\ listen'[q].off <= listen'[q].pos
             /\ listen'[q].pos <= Len(log)
             /\ listen'[q].step = "send" <=> listen'[q].sending.out # <<>>
  <2>1. CASE listen'[q] = listen[q]
    BY <1>0, <2>1, ListenRecord
  <2>2. CASE Moves(q)
    BY <2>2, Zenon DEF Moves
  <2>3. QED
    BY <2>1, <2>2 DEF Moves
<1>3. ASSUME NEW q \in Appenders
      PROVE  /\ listen'[q].left <= listeners' /\ listen'[q].off <= listen'[q].pos
             /\ listen'[q].pos <= Len(log')
  <2>1. listen'[q].left \in Nat /\ listen'[q].pos \in Nat
    BY <1>1 DEF LRec
  <2>2. listeners \in Nat /\ Len(log) \in Nat /\ Len(log') \in Nat
    BY <1>0 DEF Counted, FileShape
  <2>3. QED
    BY <1>2, <2>1, <2>2
<1>4. ListenShape'
  BY <1>1 DEF ListenShape, LRec
<1>5. Placed'
  BY <1>3 DEF Placed
<1>6. QED
  BY <1>2, <1>4, <1>5

(* The same for the threads of handle_replica. *)
LEMMA HandlersKept ==
  ASSUME TypeInv, handler' = handler \/ \E c \in Connections : HandlerMoves(c)
  PROVE  /\ ThreadShape'
         /\ \A c \in Connections : handler'[c].step = "ack" <=> handler'[c].sending.out # <<>>
<1>0. ThreadShape /\ Sends
  BY DEF TypeInv
<1>1. handler' \in [Connections -> HRec]
  BY <1>0 DEF ThreadShape, HRec, HandlerMoves
<1>2. ASSUME NEW c \in Connections
      PROVE  handler'[c].step = "ack" <=> handler'[c].sending.out # <<>>
  <2>1. CASE handler'[c] = handler[c]
    BY <1>0, <2>1, HandlerRecord
  <2>2. CASE HandlerMoves(c)
    BY <2>2, Zenon DEF HandlerMoves
  <2>3. QED
    BY <2>1, <2>2 DEF HandlerMoves
<1>3. QED
  BY <1>1, <1>2 DEF ThreadShape, HRec

(* Every step moves at most one listener and one thread of handle_replica, *)
(* and unregisters no listener.                                            *)
LEMMA ThreadMoves ==
  ASSUME TypeInv, DescriptorInv, [ReplicationNext]_allVars
  PROVE  /\ listen' = listen \/ \E p \in Appenders : Moves(p)
         /\ handler' = handler \/ \E c \in Connections : HandlerMoves(c)
         /\ listeners' = listeners \/ (Register /\ listeners' = listeners + 1)
<1>0. FileShape /\ ListenShape /\ ThreadShape /\ Placed /\ Sends /\ Counted /\ FdsShape
  BY DEF TypeInv, DescriptorInv
<1>1. CASE \/ FileStep \/ (\E d \in Descriptors : AcceptClient(d)) \/ AcceptFails
           \/ \E r \in Replicas : ReplicaStep(r) \/ ReceiveSpins(r)
           \/ \E c \in Connections : Heartbeat(c) \/ Break(c)
           \/ UNCHANGED allVars
  <2>1. listen' = listen /\ handler' = handler /\ listeners' = listeners
    <3>1. CASE FileStep \/ UNCHANGED allVars
      BY <3>1, Zenon DEF FileStep, allVars, replicationVars, masterVars
    <3>2. CASE (\E d \in Descriptors : AcceptClient(d)) \/ AcceptFails
      BY <3>2, Zenon DEF AcceptClient, AcceptFails
    <3>3. CASE \E r \in Replicas : ReplicaStep(r) \/ ReceiveSpins(r)
      BY <3>3, Zenon DEF ReplicaStep, Connect, Receive, ReceiveEnds, ReceiveThrows,
        ReceiveSpins, allVars, replicationVars, masterVars
    <3>4. CASE \E c \in Connections : Heartbeat(c) \/ Break(c)
      BY <3>4, Zenon DEF Heartbeat, Break, masterVars
    <3>5. QED
      BY <1>1, <3>1, <3>2, <3>3, <3>4
  <2>2. QED
    BY <2>1
<1>2. CASE Register
  <2>1. listen' = listen /\ listeners' = listeners + 1
    BY <1>2 DEF Register
  <2>2. handler' = handler \/ \E c \in Connections : HandlerMoves(c)
    BY <1>0, <1>2, RegisterMoves
  <2>3. QED
    BY <1>2, <2>1, <2>2
<1>3. ASSUME NEW p \in Appenders, AppendCommand(p) \/ ListenerStep(p) \/ ReadFails(p)
      PROVE  Moves(p) /\ handler' = handler /\ listeners' = listeners
  <2>1. Moves(p)
    BY <1>0, <1>3, PushMoves, CallMoves, ReadMoves, SendMoves, Zenon DEF ListenerStep
  <2>2. handler' = handler /\ listeners' = listeners
    BY <1>3, Zenon DEF AppendCommand, ListenerStep, CopyListeners, CallListener,
      ReadFrame, ReadEnds, SendCommand, ListenersDone, ReadFails
  <2>3. QED
    BY <2>1, <2>2
<1>4. ASSUME NEW c \in Connections, SendAck(c) \/ HandlerCloses(c)
      PROVE  HandlerMoves(c) /\ listen' = listen /\ listeners' = listeners
  <2>1. HandlerMoves(c)
    BY <1>0, <1>4, AckMoves, ClosesMoves
  <2>2. listen' = listen /\ listeners' = listeners
    BY <1>4, Zenon DEF SendAck, HandlerCloses
  <2>3. QED
    BY <2>1, <2>2
<1>5. QED
  BY <1>1, <1>2, <1>3, <1>4, Zenon DEF ReplicationNext, HandlerStep

(* So their types stay. *)
LEMMA ThreadsKept ==
  ASSUME TypeInv, DescriptorInv, [ReplicationNext]_allVars
  PROVE  FileShape' /\ ListenShape' /\ ThreadShape' /\ Placed' /\ Sends'
<1>1. FileShape' /\ Len(log) <= Len(log')
  BY FileStays DEF TypeInv
<1>2. listeners \in Nat
  BY DEF TypeInv, Counted
<1>3. listeners' \in Nat /\ listeners <= listeners'
  BY <1>2, ThreadMoves
<1>4. /\ ListenShape' /\ Placed'
      /\ \A p \in Appenders : listen'[p].step = "send" <=> listen'[p].sending.out # <<>>
  BY <1>1, <1>3, ThreadMoves, ListenersKept
<1>5. /\ ThreadShape'
      /\ \A c \in Connections : handler'[c].step = "ack" <=> handler'[c].sending.out # <<>>
  BY ThreadMoves, HandlersKept
<1>6. Sends'
  BY <1>4, <1>5 DEF Sends
<1>7. QED
  BY <1>1, <1>4, <1>5, <1>6

-----------------------------------------------------------------------------
(* The connections are counted.  What the invariant says of them. *)
LEMMA CountedIs ==
  ASSUME Counted, DescriptorInv
  PROVE  /\ listeners \in Nat /\ mishaps.accept \in Nat /\ Taken \in Nat
         /\ backlog \in Seq(Connections) /\ Len(backlog) \in Nat /\ MaxConns \in Nat
         /\ acceptor.step = "accept" => Taken = listeners - mishaps.accept
         /\ acceptor.step = "register" => Taken = listeners + 1 - mishaps.accept
<1>1. /\ listeners \in Nat /\ mishaps.accept \in Nat /\ Taken \in Nat
  BY Given DEF Counted
<1>2. backlog \in Seq(Connections) /\ Len(backlog) \in Nat
  BY DEF DescriptorInv, Waiting
<1>3. /\ acceptor.step = "accept" => Taken = listeners - mishaps.accept
      /\ acceptor.step = "register" => Taken = listeners + 1 - mishaps.accept
  <2>1. "accept" # "register"
    OBVIOUS
  <2>2. acceptor.step = "accept" => Taken = listeners + 0 - mishaps.accept
    BY <2>1 DEF Taken
  <2>3. acceptor.step = "register" => Taken = listeners + 1 - mishaps.accept
    BY DEF Taken
  <2>4. QED
    BY <1>1, <2>2, <2>3
<1>4. QED
  BY <1>1, <1>2, <1>3, Given

(* accept() returns a connection. *)
LEMMA AcceptCounted ==
  ASSUME Counted, DescriptorInv, NEW d \in Descriptors, AcceptClient(d)
  PROVE  Counted'
<1>1. /\ acceptor.step = "accept" /\ backlog # <<>>
      /\ acceptor' = [step |-> "register", conn |-> Head(backlog)]
      /\ backlog' = Tail(backlog) /\ client_fd' = d
      /\ listeners' = listeners /\ mishaps' = mishaps /\ link' = link
  BY DEF AcceptClient
<1>2. /\ listeners \in Nat /\ mishaps.accept \in Nat /\ Taken \in Nat
      /\ backlog \in Seq(Connections) /\ Len(backlog) \in Nat /\ MaxConns \in Nat
      /\ Taken = listeners - mishaps.accept
  BY <1>1, CountedIs
<1>3. acceptor'.step = "register" /\ acceptor'.conn = Head(backlog)
  BY <1>1
<1>4. Taken' = Taken + 1
  <2>1. Taken' = listeners + 1 - mishaps.accept
    BY <1>1, <1>3 DEF Taken
  <2>2. QED
    BY <1>2, <2>1
<1>5. /\ Head(backlog) \in Connections /\ Len(backlog') = Len(backlog) - 1
      /\ \A i \in 1 .. Len(backlog') : backlog'[i] = backlog[i + 1]
  BY <1>1, <1>2, HeadTailProperties
<1>6. Taken' + Len(backlog') = Taken + Len(backlog)
  BY <1>2, <1>4, <1>5
<1>7. ASSUME NEW i \in 1 .. Len(backlog') PROVE backlog'[i] = Taken' + i
  <2>1. i + 1 \in 1 .. Len(backlog) /\ backlog'[i] = backlog[i + 1] /\ i \in Nat
    BY <1>2, <1>5
  <2>2. backlog[i + 1] = Taken + (i + 1)
    BY <2>1 DEF Counted
  <2>3. Taken + (i + 1) = (Taken + 1) + i
    <3>1. \A a, b \in Nat : a + (b + 1) = (a + 1) + b
      OBVIOUS
    <3>2. QED
      BY <1>2, <2>1, <3>1, Zenon
  <2>4. QED
    BY <1>4, <2>1, <2>2, <2>3, Zenon
<1>8. acceptor'.step \in {"accept", "register"} /\ acceptor'.conn \in 0 .. MaxConns
      /\ client_fd' \in Fds /\ Taken' \in Nat
  BY <1>1, <1>2, <1>3, <1>4, <1>5, SMTT(30) DEF Connections, Fds
<1>9. QED
  BY <1>1, <1>6, <1>7, <1>8 DEF Counted

(* accept() fails, or the listener of a connection is registered. *)
LEMMA AcceptorCounted ==
  ASSUME Counted, DescriptorInv, AcceptFails \/ Register
  PROVE  Counted'
<1>0. /\ listeners \in Nat /\ mishaps.accept \in Nat /\ Taken \in Nat /\ MaxConns \in Nat
      /\ acceptor.step = "accept" => Taken = listeners - mishaps.accept
      /\ acceptor.step = "register" => Taken = listeners + 1 - mishaps.accept
      /\ DOMAIN mishaps = {"loss", "accept", "read"}
      /\ mishaps.accept \in 0 .. MaxAcceptFaults /\ MaxAcceptFaults \in Nat
      /\ client_fd \in Fds
  BY CountedIs, Given DEF Counted
<1>1. /\ backlog' = backlog /\ link' = link
  BY Zenon DEF AcceptFails, Register, networkVars
<1>2. CASE AcceptFails
  <2>1. /\ acceptor.step = "accept" /\ mishaps.accept < MaxAcceptFaults
        /\ mishaps' = [mishaps EXCEPT !.accept = @ + 1]
        /\ acceptor' = [step |-> "register", conn |-> 0]
        /\ client_fd' = Invalid /\ listeners' = listeners
    BY <1>2 DEF AcceptFails
  <2>2. /\ DOMAIN mishaps' = {"loss", "accept", "read"}
        /\ mishaps'.accept = mishaps.accept + 1
    BY <1>0, <2>1
  <2>3. /\ acceptor'.step = "register" /\ acceptor'.conn = 0
    BY <2>1
  <2>4. Taken' = listeners + 1 - (mishaps.accept + 1)
    BY <2>1, <2>2, <2>3 DEF Taken
  <2>5. Taken' = Taken
    BY <1>0, <2>1, <2>4
  <2>6. /\ mishaps'.accept \in 0 .. MaxAcceptFaults /\ acceptor'.conn \in 0 .. MaxConns
        /\ client_fd' \in Fds /\ listeners' \in Nat
    BY <1>0, <2>1, <2>2, <2>3 DEF Fds
  <2>7. QED
    BY <1>1, <2>2, <2>3, <2>5, <2>6 DEF Counted
<1>3. CASE Register
  <2>1. /\ acceptor.step = "register" /\ mishaps' = mishaps
        /\ acceptor' = [step |-> "accept", conn |-> 0]
        /\ client_fd' = client_fd /\ listeners' = listeners + 1
    BY <1>3 DEF Register
  <2>2. /\ acceptor'.step = "accept" /\ acceptor'.conn = 0 /\ "accept" # "register"
    BY <2>1
  <2>3. Taken' = (listeners + 1) + 0 - mishaps.accept
    BY <2>1, <2>2 DEF Taken
  <2>4. Taken' = Taken
    BY <1>0, <2>1, <2>3
  <2>5. /\ acceptor'.conn \in 0 .. MaxConns /\ listeners' \in Nat
    BY <1>0, <2>1, <2>2
  <2>6. QED
    BY <1>0, <1>1, <2>1, <2>2, <2>4, <2>5 DEF Counted
<1>4. QED
  BY <1>2, <1>3

(* A replica connects: its connection is the next number. *)
LEMMA ConnectCounted ==
  ASSUME Counted, DescriptorInv, NetShape, NEW r \in Replicas, NEW c \in Connections,
         Connect(r, c)
  PROVE  Counted'
<1>1. /\ link[c] = "none" /\ \A b \in 1 .. c - 1 : link[b] # "none"
      /\ link' = [link EXCEPT ![c] = "up"] /\ backlog' = Append(backlog, c)
      /\ listeners' = listeners /\ acceptor' = acceptor /\ mishaps' = mishaps
      /\ client_fd' = client_fd
  BY DEF Connect, masterVars
<1>2. /\ Taken \in Nat /\ backlog \in Seq(Connections) /\ Len(backlog) \in Nat
      /\ MaxConns \in Nat
  BY CountedIs
<1>3. Taken' = Taken
  BY <1>1 DEF Taken
<1>4. PICK n \in Nat : n = Taken + Len(backlog)
  BY <1>2
<1>5. /\ n <= MaxConns
      /\ \A b \in Connections : link[b] # "none" <=> b <= n
      /\ \A i \in 1 .. Len(backlog) : backlog[i] = Taken + i
  BY <1>4 DEF Counted
<1>6. c = n + 1
  <2>1. c \in 1 .. MaxConns
    BY DEF Connections
  <2>2. ~(c <= n)
    BY <1>1, <1>5
  <2>3. ASSUME c > n + 1 PROVE FALSE
    <3>1. n + 1 \in 1 .. c - 1 /\ n + 1 \in Connections
      BY <1>2, <1>4, <2>1, <2>3 DEF Connections
    <3>2. link[n + 1] # "none" /\ ~(n + 1 <= n)
      BY <1>1, <1>4, <3>1
    <3>3. QED
      BY <1>5, <3>1, <3>2
  <2>4. QED
    BY <1>4, <2>1, <2>2, <2>3
<1>7. /\ Len(backlog') = Len(backlog) + 1 /\ backlog'[Len(backlog) + 1] = c
      /\ \A i \in 1 .. Len(backlog) : backlog'[i] = backlog[i]
  BY <1>1, <1>2, AppendProperties
<1>8. Taken + Len(backlog') = n + 1 /\ n + 1 <= MaxConns
  <2>1. c \in 1 .. MaxConns
    BY DEF Connections
  <2>2. QED
    BY <1>2, <1>4, <1>6, <1>7, <2>1
<1>9. ASSUME NEW i \in 1 .. Len(backlog') PROVE backlog'[i] = Taken + i
  <2>1. CASE i = Len(backlog) + 1
    BY <1>2, <1>4, <1>6, <1>7, <2>1
  <2>2. CASE i # Len(backlog) + 1
    <3>1. i \in 1 .. Len(backlog)
      BY <1>2, <1>7, <2>2
    <3>2. QED
      BY <1>5, <1>7, <3>1
  <2>3. QED
    BY <2>1, <2>2
<1>10. ASSUME NEW b \in Connections PROVE link'[b] # "none" <=> b <= n + 1
  <2>1. b \in Nat /\ DOMAIN link = Connections
    BY <1>2 DEF Connections, NetShape
  <2>2. link'[b] = IF b = c THEN "up" ELSE link[b]
    BY <1>1, <2>1
  <2>3. CASE b = c
    BY <1>4, <1>6, <2>2, <2>3
  <2>4. CASE b # c
    <3>1. link'[b] # "none" <=> b <= n
      BY <1>5, <2>2, <2>4
    <3>2. b <= n <=> b <= n + 1
      BY <1>4, <1>6, <2>1, <2>4
    <3>3. QED
      BY <3>1, <3>2
  <2>5. QED
    BY <2>3, <2>4
<1>11. QED
  BY <1>1, <1>2, <1>3, <1>8, <1>9, <1>10 DEF Counted

(* The other steps make no connection and accept none. *)
LEMMA OthersCounted ==
  ASSUME Counted, UNCHANGED <<listeners, acceptor, client_fd, backlog>>,
         DOMAIN mishaps' = DOMAIN mishaps, mishaps'.accept = mishaps.accept,
         \A c \in Connections : link'[c] # "none" <=> link[c] # "none"
  PROVE  Counted'
<1>1. Taken' = Taken
  BY DEF Taken
<1>2. QED
  BY <1>1 DEF Counted

(* So the count stays. *)
LEMMA CountKept ==
  ASSUME TypeInv, DescriptorInv, StreamInv, [ReplicationNext]_allVars
  PROVE  Counted'
<1>0. Counted /\ NetShape /\ Following /\ Unmade
  BY DEF TypeInv, StreamInv
<1>1. DOMAIN mishaps = {"loss", "accept", "read"} /\ DOMAIN link = Connections
  BY <1>0 DEF Counted, NetShape
<1>2. CASE \/ (\E d \in Descriptors : AcceptClient(d)) \/ AcceptFails \/ Register
           \/ \E r \in Replicas : \E c \in Connections : Connect(r, c)
  BY <1>0, <1>2, AcceptCounted, AcceptorCounted, ConnectCounted
<1>3. CASE \/ FileStep
           \/ \E p \in Appenders : AppendCommand(p) \/ ListenerStep(p)
           \/ \E c \in Connections : HandlerStep(c)
           \/ \E r \in Replicas : Receive(r) \/ ReceiveEnds(r) \/ ReceiveSpins(r)
           \/ UNCHANGED allVars
  <2>1. UNCHANGED <<listeners, acceptor, client_fd, backlog, mishaps, link>>
    <3>1. CASE FileStep \/ UNCHANGED allVars
      BY <3>1, Zenon DEF FileStep, allVars, replicationVars, masterVars, networkVars
    <3>2. CASE \E p \in Appenders : AppendCommand(p) \/ ListenerStep(p)
      BY <3>2, Zenon DEF AppendCommand, ListenerStep, CopyListeners, CallListener,
        ReadFrame, ReadEnds, SendCommand, ListenersDone, networkVars
    <3>3. CASE \E c \in Connections : HandlerStep(c)
      BY <3>3, Zenon DEF HandlerStep, SendAck, Heartbeat, HandlerCloses, masterVars,
        networkVars
    <3>4. CASE \E r \in Replicas : Receive(r) \/ ReceiveEnds(r) \/ ReceiveSpins(r)
      BY <3>4, Zenon DEF Receive, ReceiveEnds, ReceiveSpins, allVars, replicationVars,
        masterVars, networkVars
    <3>5. QED
      BY <1>3, <3>1, <3>2, <3>3, <3>4
  <2>2. QED
    BY <1>0, <2>1, OthersCounted
<1>4. CASE \E p \in Appenders : ReadFails(p)
  <2>1. /\ UNCHANGED <<listeners, acceptor, client_fd, backlog, link>>
        /\ mishaps' = [mishaps EXCEPT !.read = @ + 1]
    BY <1>4, Zenon DEF ReadFails, networkVars
  <2>2. DOMAIN mishaps' = DOMAIN mishaps /\ mishaps'.accept = mishaps.accept
    BY <1>1, <2>1
  <2>3. QED
    BY <1>0, <2>1, <2>2, OthersCounted
<1>5. CASE \E c \in Connections : Break(c)
  <2>1. PICK c \in Connections : Break(c)
    BY <1>5
  <2>2. /\ UNCHANGED <<listeners, acceptor, client_fd, backlog>>
        /\ mishaps' = [mishaps EXCEPT !.loss = @ + 1]
        /\ link[c] = "up"
        /\ link' = [link EXCEPT ![c] = "reset"] \/ link' = [link EXCEPT ![c] = "dead"]
    BY <2>1, Zenon DEF Break, masterVars
  <2>3. DOMAIN mishaps' = DOMAIN mishaps /\ mishaps'.accept = mishaps.accept
    BY <1>1, <2>2
  <2>4. \A b \in Connections : link'[b] # "none" <=> link[b] # "none"
    BY <1>1, <2>2
  <2>5. QED
    BY <1>0, <2>2, <2>3, <2>4, OthersCounted
<1>6. CASE \E r \in Replicas : ReceiveThrows(r)
  <2>1. PICK r \in Replicas : ReceiveThrows(r)
    BY <1>6
  <2>2. /\ UNCHANGED <<listeners, acceptor, client_fd, backlog, mishaps>>
        /\ link' = [link EXCEPT ![replica[r].conn] = IF @ = "up" THEN "dead" ELSE @]
    BY <2>1 DEF ReceiveThrows, masterVars
  <2>3. \A b \in Connections : link'[b] # "none" <=> link[b] # "none"
    BY <1>1, <2>2
  <2>4. QED
    BY <1>0, <2>2, <2>3, OthersCounted
<1>7. QED
  BY <1>2, <1>3, <1>4, <1>5, <1>6, Zenon DEF ReplicationNext, ReplicaStep

-----------------------------------------------------------------------------
(* The types of the network: a piece puts bytes on a connection, ... *)
LEMMA PieceTyped ==
  ASSUME TypeInv, DescriptorInv, NEW x \in Senders, Sending(x)
  PROVE  net' \in [Connections -> Seq(Byte)] /\ mixed' \subseteq Connections
<1>0. NetShape /\ ListenShape /\ ThreadShape /\ FdsShape
  BY DEF TypeInv, DescriptorInv
<1>1. Msg(x) \in Messages /\ Fd(x) \in Fds /\ Msg(x).out # <<>>
  BY <1>0, SenderTyped DEF Sending
<1>2. PICK b \in 0 .. MaxConns : b = Behind(Fd(x))
  BY <1>0, <1>1, SendLeaves
<1>3. Head(Msg(x).out) \in Seq(Byte)
  <2>1. Msg(x).out \in Seq(Seq(Byte))
    BY <1>1 DEF Messages
  <2>2. QED
    BY <1>1, <2>1, HeadTailProperties
<1>4. PICK h \in Seq(Byte) : h = Head(Msg(x).out)
  BY <1>3
<1>5. /\ net' = IF b # 0 /\ link[b] = "up" THEN [net EXCEPT ![b] = @ \o h] ELSE net
      /\ mixed' \in {mixed, mixed \cup {b}} /\ (b = 0 => mixed' = mixed)
  <2>1. Transmit(Msg(x), Fd(x))
    BY DEF Sending
  <2>2. QED
    BY <1>2, <1>4, <2>1 DEF Transmit
<1>6. b # 0 => b \in Connections
  BY Given DEF Connections
<1> DEFINE B == Seq(Byte)
<1>7. net \in [Connections -> B] /\ mixed \subseteq Connections
  BY <1>0 DEF NetShape
<1>8. \A c \in Connections : net[c] \o h \in B
  <2>1. \A c \in Connections : net[c] \in Seq(Byte)
    BY <1>7
  <2>2. QED
    BY <1>4, <2>1, Concat
<1> HIDE DEF B
<1>9. PICK g : g = [net EXCEPT ![b] = @ \o h]
  OBVIOUS
<1>10. b \in Connections => g \in [Connections -> B]
  BY <1>7, <1>8, <1>9
<1>11. net' \in [Connections -> B]
  BY <1>5, <1>6, <1>7, <1>9, <1>10
<1>12. mixed' \subseteq Connections
  BY <1>5, <1>6, <1>7
<1>13. QED
  BY <1>11, <1>12 DEF B

(* ... and the replicas take them from there. *)
LEMMA TakenTyped ==
  ASSUME NetShape,
         \/ \E r \in Replicas : ReplicaStep(r)
         \/ \E c \in Connections : Break(c)
  PROVE  /\ net' \in [Connections -> Seq(Byte)]
         /\ link' \in [Connections -> {"none", "up", "reset", "dead"}]
<1> DEFINE B == Seq(Byte)
           L == {"none", "up", "reset", "dead"}
<1>1. net \in [Connections -> B] /\ link \in [Connections -> L]
  BY DEF NetShape
<1>2. <<>> \in B /\ \A s \in B : After(s) \in B
  <2>1. <<>> \in B
    OBVIOUS
  <2>2. ASSUME NEW s \in Seq(Byte) PROVE After(s) \in Seq(Byte)
    <3>1. PICK n : n = 13 + PayloadLen(s)
      OBVIOUS
    <3>2. n \in Nat \ {0}
      <4>1. PayloadLen(s) \in Nat
        <5>1. CASE Len(s) >= 12
          <6>1. SubSeq(s, 5, 12) \in Seq(Byte) /\ Len(SubSeq(s, 5, 12)) = 8
            <7>1. \A i \in 5 .. 12 : s[i] \in Byte
              BY <5>1, ElementOfSeq
            <7>2. QED
              BY <7>1
          <6>2. PICK t \in Seq(Byte) : t = SubSeq(s, 5, 12)
            BY <6>1
          <6>3. Len(t) \in 1 .. Len(t)
            BY <6>1, <6>2
          <6>4. t[Len(t)] \in Byte
            BY <6>3, ElementOfSeq
          <6>5. BeToHost(t) \in Nat
            <7>1. BeToHost(t) = Huge \/ BeToHost(t) = t[Len(t)]
              BY Zenon DEF BeToHost
            <7>2. Huge \in Nat /\ \A e \in Byte : e \in Nat
              BY DEF Byte, Huge
            <7>3. QED
              BY <6>4, <7>1, <7>2, Zenon
          <6>6. QED
            BY <5>1, <6>2, <6>5 DEF PayloadLen
        <5>2. CASE ~(Len(s) >= 12)
          BY <5>2 DEF PayloadLen
        <5>3. QED
          BY <5>1, <5>2
      <4>2. QED
        BY <3>1, <4>1
    <3>3. \A i \in n .. Len(s) : s[i] \in Byte
      <4>1. \A i \in n .. Len(s) : i \in 1 .. Len(s)
        BY <3>2
      <4>2. QED
        BY <4>1, ElementOfSeq
    <3>4. SubSeq(s, n, Len(s)) \in Seq(Byte)
      BY <3>2, <3>3, SubSeqProperties
    <3>5. QED
      BY <3>1, <3>4 DEF After
  <2>3. QED
    BY <2>1, <2>2
<1> HIDE DEF B
<1>3. ASSUME NEW r \in Replicas, NEW c \in Connections, Connect(r, c)
      PROVE  net' \in [Connections -> B] /\ link' \in [Connections -> L]
  BY <1>1, <1>3 DEF Connect
<1>4. ASSUME NEW r \in Replicas, Receive(r)
      PROVE  net' \in [Connections -> B] /\ link' \in [Connections -> L]
  <2>1. PICK b : b = replica[r].conn
    OBVIOUS
  <2>2. net' = [net EXCEPT ![b] = After(@)] /\ link' = link
    BY <1>4, <2>1 DEF Receive
  <2>3. \A c \in Connections : After(net[c]) \in B
    BY <1>1, <1>2
  <2>4. QED
    BY <1>1, <2>2, <2>3
<1>5. ASSUME NEW r \in Replicas, ReceiveEnds(r) \/ ReceiveThrows(r)
      PROVE  net' \in [Connections -> B] /\ link' \in [Connections -> L]
  <2>1. PICK b : b = replica[r].conn
    OBVIOUS
  <2>2. /\ net' = [net EXCEPT ![b] = <<>>]
        /\ link' = link \/ link' = [link EXCEPT ![b] = IF @ = "up" THEN "dead" ELSE @]
    BY <1>5, <2>1 DEF ReceiveEnds, ReceiveThrows
  <2>3. link' \in [Connections -> L]
    BY <1>1, <2>2
  <2>4. QED
    BY <1>1, <1>2, <2>2, <2>3
<1>6. ASSUME NEW c \in Connections, Break(c)
      PROVE  net' \in [Connections -> B] /\ link' \in [Connections -> L]
  <2>1. \/ link' = [link EXCEPT ![c] = "reset"] /\ net' = net
        \/ link' = [link EXCEPT ![c] = "dead"] /\ net' = [net EXCEPT ![c] = <<>>]
    BY <1>6 DEF Break
  <2>2. QED
    BY <1>1, <1>2, <2>1
<1>7. QED
  BY <1>3, <1>4, <1>5, <1>6, Zenon DEF ReplicaStep, B

(* So the types of the network stay. *)
LEMMA NetKept ==
  ASSUME TypeInv, DescriptorInv, StreamInv, [ReplicationNext]_allVars
  PROVE  NetShape'
<1>0. NetShape
  BY DEF TypeInv
<1>1. beats' \subseteq Connections
  <2>1. beats' = beats \/ \E c \in Connections : beats' = beats \cup {c}
    <3>1. CASE FileStep \/ UNCHANGED allVars
      BY <3>1, Zenon DEF FileStep, allVars, replicationVars, networkVars
    <3>2. CASE (\E d \in Descriptors : AcceptClient(d)) \/ AcceptFails \/ Register
      BY <3>2, Zenon DEF AcceptClient, AcceptFails, Register, networkVars
    <3>3. CASE \E p \in Appenders : AppendCommand(p) \/ ListenerStep(p) \/ ReadFails(p)
      BY <3>3, Zenon DEF AppendCommand, ListenerStep, CopyListeners, CallListener,
        ReadFrame, ReadEnds, SendCommand, ListenersDone, ReadFails, networkVars
    <3>4. CASE \E c \in Connections : SendAck(c) \/ HandlerCloses(c) \/ Break(c)
      BY <3>4, Zenon DEF SendAck, HandlerCloses, Break, networkVars
    <3>5. CASE \E c \in Connections : Heartbeat(c)
      BY <3>5, Zenon DEF Heartbeat
    <3>6. CASE \E r \in Replicas : ReplicaStep(r) \/ ReceiveSpins(r)
      BY <3>6, Zenon DEF ReplicaStep, Connect, Receive, ReceiveEnds, ReceiveThrows,
        ReceiveSpins, allVars, replicationVars, networkVars
    <3>7. QED
      BY <3>1, <3>2, <3>3, <3>4, <3>5, <3>6, Zenon DEF ReplicationNext, HandlerStep
  <2>2. QED
    BY <1>0, <2>1 DEF NetShape
<1>2. ASSUME Working PROVE NetShape'
  BY <1>0, <1>1, <1>2 DEF Working, NetShape
<1>3. ASSUME NEW x \in Senders, Sending(x) PROVE NetShape'
  <2>1. net' \in [Connections -> Seq(Byte)] /\ mixed' \subseteq Connections
    BY <1>3, PieceTyped
  <2>2. link' = link
    BY <1>3 DEF Sending
  <2>3. QED
    BY <1>0, <1>1, <2>1, <2>2 DEF NetShape
<1>4. CASE \/ \E r \in Replicas : ReplicaStep(r)
           \/ \E c \in Connections : Break(c)
  <2>1. /\ net' \in [Connections -> Seq(Byte)]
        /\ link' \in [Connections -> {"none", "up", "reset", "dead"}]
    BY <1>0, <1>4, TakenTyped
  <2>2. mixed' = mixed
    BY <1>4, PassingSteps DEF Passing
  <2>3. QED
    BY <1>0, <1>1, <2>1, <2>2 DEF NetShape
<1>5. QED
  BY <1>2, <1>3, <1>4, WorkingSteps, DescriptorSteps, SendingSteps, Zenon
    DEF ReplicationNext, ListenerStep, HandlerStep

(* A replica follows its connection until mixed bytes make it give up. *)
LEMMA FollowingKept ==
  ASSUME TypeInv, DescriptorInv, StreamInv, [ReplicationNext]_allVars
  PROVE  Following'
<1>0. Following /\ NetShape /\ FileShape /\ Streams
  BY DEF TypeInv, StreamInv
<1> DEFINE R == [step : {"connect", "receive"}, conn : 0 .. MaxConns]
<1>1. replica \in [Replicas -> R]
  BY <1>0 DEF Following
<1>2. mixed \subseteq mixed'
  <2>1. ASSUME NEW x \in Senders, Sending(x) PROVE mixed \subseteq mixed'
    <3>1. Transmit(Msg(x), Fd(x))
      BY <2>1 DEF Sending
    <3>2. QED
      BY <3>1 DEF Transmit
  <2>2. QED
    BY <2>1, StepKinds DEF Working, Passing
<1>3. CASE replica' = replica
  BY <1>0, <1>2, <1>3 DEF Following
<1>4. ASSUME NEW r \in Replicas, NEW c \in Connections, Connect(r, c) PROVE Following'
  <2> DEFINE e == [step |-> "receive", conn |-> c]
  <2>1. replica' = [replica EXCEPT ![r] = e]
    BY <1>4 DEF Connect
  <2>2. e \in R /\ e.step = "receive" /\ e.conn = c
    BY Given DEF Connections
  <2> HIDE DEF e, R
  <2>3. /\ replica' \in [Replicas -> R] /\ replica'[r] = e
        /\ \A q \in Replicas : q # r => replica'[q] = replica[q]
    BY <1>1, <2>1, <2>2
  <2>4. ASSUME NEW q \in Replicas
        PROVE  /\ replica'[q].step = "receive" => replica'[q].conn \in Connections
               /\ replica'[q].conn \in Connections \ mixed' => replica'[q].step = "receive"
    <3>1. CASE q = r
      BY <2>2, <2>3, <3>1
    <3>2. CASE q # r
      BY <1>0, <1>2, <2>3, <3>2 DEF Following
    <3>3. QED
      BY <3>1, <3>2
  <2>5. QED
    BY <2>3, <2>4 DEF Following, R
<1>5. ASSUME NEW r \in Replicas, ReceiveThrows(r) PROVE Following'
  <2> DEFINE e == [replica[r] EXCEPT !.step = "connect"]
  <2>1. /\ replica[r].step = "receive" /\ Throws(net[replica[r].conn])
        /\ replica' = [replica EXCEPT ![r] = e]
    BY <1>5 DEF ReceiveThrows
  <2>2. e \in R /\ e.step = "connect" /\ e.conn = replica[r].conn
    BY <1>1
  <2>3. replica[r].conn \in Connections /\ replica[r].conn \in mixed
    <3>1. replica[r].conn \in Connections
      BY <1>0, <2>1 DEF Following
    <3>2. QED
      BY <1>0, <2>1, <3>1, UnmixedIs DEF InStep
  <2> HIDE DEF e, R
  <2>4. /\ replica' \in [Replicas -> R] /\ replica'[r] = e
        /\ \A q \in Replicas : q # r => replica'[q] = replica[q]
    BY <1>1, <2>1, <2>2
  <2>5. ASSUME NEW q \in Replicas
        PROVE  /\ replica'[q].step = "receive" => replica'[q].conn \in Connections
               /\ replica'[q].conn \in Connections \ mixed' => replica'[q].step = "receive"
    <3>1. CASE q = r
      BY <1>2, <2>2, <2>3, <2>4, <3>1
    <3>2. CASE q # r
      BY <1>0, <1>2, <2>4, <3>2 DEF Following
    <3>3. QED
      BY <3>1, <3>2
  <2>6. QED
    BY <2>4, <2>5 DEF Following, R
<1>6. \/ replica' = replica
      \/ \E r \in Replicas : (\E c \in Connections : Connect(r, c)) \/ ReceiveThrows(r)
  <2>1. CASE FileStep \/ UNCHANGED allVars
    BY <2>1, Zenon DEF FileStep, allVars, replicationVars, replicaVars
  <2>2. CASE (\E d \in Descriptors : AcceptClient(d)) \/ AcceptFails \/ Register
    BY <2>2, Zenon DEF AcceptClient, AcceptFails, Register, replicaVars
  <2>3. CASE \E p \in Appenders : AppendCommand(p) \/ ListenerStep(p) \/ ReadFails(p)
    BY <2>3, Zenon DEF AppendCommand, ListenerStep, CopyListeners, CallListener,
      ReadFrame, ReadEnds, SendCommand, ListenersDone, ReadFails, replicaVars
  <2>4. CASE \E c \in Connections : HandlerStep(c) \/ Break(c)
    BY <2>4, Zenon DEF HandlerStep, SendAck, Heartbeat, HandlerCloses, Break, replicaVars
  <2>5. CASE \E r \in Replicas : ReplicaStep(r) \/ ReceiveSpins(r)
    BY <2>5, Zenon DEF ReplicaStep, Receive, ReceiveEnds, ReceiveSpins, allVars,
      replicationVars, replicaVars
  <2>6. QED
    BY <2>1, <2>2, <2>3, <2>4, <2>5 DEF ReplicationNext
<1>7. QED
  BY <1>3, <1>4, <1>5, <1>6

-----------------------------------------------------------------------------
(* The whole invariant. *)
AllInv == TypeInv /\ StreamInv /\ DescriptorInv

(* Every step keeps it. *)
LEMMA AllKept == AllInv /\ [ReplicationNext]_allVars => AllInv'
<1> SUFFICES ASSUME AllInv, [ReplicationNext]_allVars PROVE AllInv'
  OBVIOUS
<1>1. TypeInv /\ StreamInv /\ DescriptorInv /\ FileShape
  BY DEF AllInv, TypeInv
<1>2. TypeInv'
  BY <1>1, ThreadsKept, CountKept, NetKept, FollowingKept DEF TypeInv
<1>3. StreamInv'
  BY <1>1, PacketsStay, StepKinds, WorkingKeeps, PassingKeeps, SendingKeeps
<1>4. DescriptorInv'
  BY <1>1, StepKeepsDescriptors
<1>5. QED
  BY <1>2, <1>3, <1>4 DEF AllInv

(* At the start there is no file, no connection and no message. *)
LEMMA AllInit == ReplicationInit => AllInv
<1> SUFFICES ASSUME ReplicationInit PROVE AllInv
  OBVIOUS
<1>1. FileShape
  BY Given DEF ReplicationInit, Init, FileShape
<1>2. ListenShape /\ Placed /\ \A p \in Appenders : listen[p] = Quiet
  <2>1. listen = [p \in Appenders |-> Quiet] /\ listeners = 0 /\ Len(log) = 0
    BY DEF ReplicationInit, Init
  <2>2. Quiet \in LRec
    BY NothingIs DEF Quiet, LRec, ListenSteps, Fds
  <2>3. Quiet.left = 0 /\ Quiet.off = 0 /\ Quiet.pos = 0
    BY DEF Quiet
  <2>4. ListenShape
    BY <2>1, <2>2 DEF ListenShape, LRec
  <2>5. Placed
    BY <2>1, <2>3 DEF Placed
  <2>6. QED
    BY <2>1, <2>4, <2>5
<1>3. ThreadShape /\ \A c \in Connections : handler[c] = NoHandler
  <2>1. handler = [c \in Connections |-> NoHandler]
    BY DEF ReplicationInit
  <2>2. NoHandler \in HRec
    BY NothingIs DEF NoHandler, HRec, Fds
  <2>3. QED
    BY <2>1, <2>2 DEF ThreadShape, HRec
<1>4. /\ Quiet.step = "idle" /\ NoHandler.step = "none"
      /\ Quiet.sending = Nothing /\ NoHandler.sending = Nothing
      /\ Nothing.out = <<>> /\ Nothing.into = 0
  BY NothingIs DEF NoHandler
<1>5. Sends
  BY <1>2, <1>3, <1>4 DEF Sends
<1>6. \A x \in Senders : Msg(x) = Nothing
  BY <1>2, <1>3, <1>4, SenderKinds
<1>7. Counted
  <2>1. /\ listeners = 0 /\ backlog = <<>> /\ client_fd = Invalid
        /\ acceptor = [step |-> "accept", conn |-> 0]
        /\ mishaps = [loss |-> 0, accept |-> 0, read |-> 0]
        /\ link = [c \in Connections |-> "none"]
    BY DEF ReplicationInit
  <2>2. /\ acceptor.step = "accept" /\ acceptor.conn = 0
        /\ mishaps.accept = 0 /\ DOMAIN mishaps = {"loss", "accept", "read"}
    BY <2>1
  <2>3. Taken = 0
    BY <2>1, <2>2 DEF Taken
  <2>4. Len(backlog) = 0 /\ \A c \in Connections : link[c] = "none" /\ ~(c <= 0)
    BY <2>1, Given DEF Connections
  <2>5. QED
    BY <2>1, <2>2, <2>3, <2>4, Given DEF Counted, Fds
<1>8. NetShape /\ Following
  <2>1. NetShape
    BY DEF ReplicationInit, NetShape
  <2>2. replica = [r \in Replicas |-> [step |-> "connect", conn |-> 0]]
    BY DEF ReplicationInit
  <2>3. Following
    BY <2>2, Given, ConnectionIs DEF Following
  <2>4. QED
    BY <2>1, <2>3
<1>9. Tracks /\ OneSender
  BY <1>4, <1>6 DEF Tracks, OneSender, Within
<1>10. Streams
  <2>1. \A c \in Connections : net[c] = <<>>
    BY DEF ReplicationInit
  <2>2. PICK pc \in Packets : Len(pc) \in 4 .. 5
    BY <1>1, PacketsAre
  <2>3. 0 \in 0 .. Len(pc) /\ Joined(pc, 0) = <<>>
    BY <2>2 DEF Joined
  <2>4. QED
    BY <2>1, <2>3 DEF Streams
<1>11. Unmade
  <2>1. /\ \A d \in Descriptors : fds[d] = 0
        /\ \A c \in Connections : net[c] = <<>>
    BY DEF ReplicationInit
  <2>2. QED
    BY <1>4, <1>6, <2>1, ConnectionIs DEF Unmade
<1>12. DescriptorInv
  BY InitDescriptors
<1>13. QED
  BY <1>1, <1>2, <1>3, <1>5, <1>7, <1>8, <1>9, <1>10, <1>11, <1>12
    DEF AllInv, TypeInv, StreamInv

-----------------------------------------------------------------------------
(* For any number of threads, connections and replicas and any bounds: the *)
(* types of startServer's descriptors and counters, of the threads that    *)
(* send and of the bytes on every connection, with no more listeners than  *)
(* accept() has returned, and no listener behind the end of the file.      *)
THEOREM ReplicationTypes == ReplicationSpec => []ReplicationTypeOK
<1>1. ASSUME AllInv PROVE ReplicationTypeOK
  <2>0. /\ FileShape /\ ListenShape /\ ThreadShape /\ Placed /\ Counted /\ NetShape
        /\ Following /\ Sends /\ DescriptorInv
    BY <1>1 DEF AllInv, TypeInv
  <2>1. listeners \in 0 .. MaxConns + MaxAcceptFaults
    <3>1. /\ listeners \in Nat /\ mishaps.accept \in 0 .. MaxAcceptFaults /\ Taken \in Nat
          /\ Taken + Len(backlog) <= MaxConns /\ acceptor.step \in {"accept", "register"}
      BY <2>0 DEF Counted
    <3>2. /\ Len(backlog) \in Nat /\ MaxConns \in Nat /\ MaxAcceptFaults \in Nat
          /\ Taken = listeners - mishaps.accept \/ Taken = listeners + 1 - mishaps.accept
      BY <2>0, <3>1, CountedIs, Given
    <3>3. QED
      BY <3>1, <3>2
  <2>2. /\ fds \in [Descriptors -> 0 .. MaxConns]
        /\ client_fd \in Descriptors \cup {Invalid}
        /\ acceptor.step \in {"accept", "register"} /\ acceptor.conn \in 0 .. MaxConns
    BY <2>0 DEF DescriptorInv, FdsShape, Counted, Fds
  <2>3. ASSUME NEW p \in Appenders
        PROVE  /\ listen[p].step \in {"idle", "notify", "call", "read", "send"}
               /\ listen[p].left \in 0 .. listeners
               /\ listen[p].off <= listen[p].pos /\ listen[p].pos <= Len(log)
               /\ listen[p].fd \in Descriptors \cup {Invalid}
    <3>1. /\ listen[p].step \in ListenSteps /\ listen[p].fd \in Fds
          /\ listen[p].left \in Nat /\ listen[p].left <= listeners /\ listeners \in Nat
          /\ listen[p].off <= listen[p].pos /\ listen[p].pos <= Len(log)
      BY <2>0, ListenRecord
    <3>2. QED
      BY <3>1 DEF ListenSteps, Fds
  <2>4. ASSUME NEW c \in Connections
        PROVE  /\ handler[c].step \in {"none", "ack", "receive", "done"}
               /\ link[c] \in {"none", "up", "reset", "dead"}
               /\ \A i \in 1 .. Len(net[c]) : net[c][i] \in 0 .. 255
    <3>1. handler[c].step \in {"none", "ack", "receive", "done"}
      BY <2>0 DEF ThreadShape
    <3>2. link[c] \in {"none", "up", "reset", "dead"} /\ net[c] \in Seq(Byte)
      BY <2>0 DEF NetShape
    <3>3. \A i \in 1 .. Len(net[c]) : net[c][i] \in Byte
      BY <3>2, ElementOfSeq
    <3>4. QED
      BY <3>1, <3>2, <3>3 DEF Byte
  <2>5. /\ beats \subseteq Connections /\ mixed \subseteq Connections
        /\ \A r \in Replicas : replica[r].step \in {"connect", "receive"}
    BY <2>0 DEF NetShape, Following
  <2>6. QED
    BY <2>1, <2>2, <2>3, <2>4, <2>5 DEF ReplicationTypeOK
<1>2. QED
  BY AllInit, AllKept, <1>1, PTL DEF ReplicationSpec

(* sendToSocket and recvFromSocket stay in step, for any commands: as long *)
(* as no thread sends into the middle of another's message, the bytes that *)
(* a replica has still to read are the beginning of one message, though    *)
(* connections break and descriptors are used again at any time, and it    *)
(* never gives up the connection over a length that is none.               *)
THEOREM StreamStaysInStep == ReplicationSpec => []StreamInStep
<1>1. ASSUME AllInv PROVE StreamInStep
  <2> SUFFICES ASSUME NEW c \in Connections \ mixed
               PROVE  /\ net[c] # <<>> => net[c][1] \in {INCR_SYNC, ACK}
                      /\ Len(net[c]) >= 4 => SubSeq(net[c], 3, 4) = Magic
                      /\ \A r \in Replicas :
                           replica[r].conn = c => replica[r].step = "receive"
    BY DEF StreamInStep
  <2>0. FileShape /\ Following /\ Streams
    BY <1>1 DEF AllInv, TypeInv, StreamInv
  <2>1. InStep(net[c])
    BY <2>0, UnmixedIs
  <2>2. PICK s \in Seq(Byte) : s = net[c]
    BY <2>1 DEF InStep
  <2>3. ASSUME Len(s) >= 4 PROVE SubSeq(s, 3, 4) = Magic
    <3>1. s[3] = 151 /\ s[4] = 152
      BY <2>1, <2>2, <2>3 DEF InStep
    <3>2. PICK u : u = SubSeq(s, 3, 4)
      OBVIOUS
    <3>3. /\ u \in Seq(Byte) /\ Len(u) = 2
          /\ \A i \in 1 .. 2 : u[i] = s[2 + i]
      <4>1. \A i \in 3 .. 4 : s[i] \in Byte
        BY <2>3, ElementOfSeq
      <4>2. QED
        BY <3>2, <4>1
    <3>4. u[1] = 151 /\ u[2] = 152
      <4>1. u[1] = s[2 + 1] /\ u[2] = s[2 + 2] /\ 2 + 1 = 3 /\ 2 + 2 = 4
        BY <3>3
      <4>2. QED
        BY <3>1, <4>1
    <3>5. PICK m : m = Magic
      OBVIOUS
    <3>6. m \in Seq(Byte) /\ Len(m) = 2 /\ m[1] = 151 /\ m[2] = 152
      BY <3>5 DEF Magic, Byte
    <3>7. Len(u) = Len(m) /\ \A i \in 1 .. Len(u) : u[i] = m[i]
      BY <3>3, <3>4, <3>6
    <3>8. u = m
      BY <3>3, <3>6, <3>7, SeqEqual
    <3>9. QED
      BY <3>2, <3>5, <3>8
  <2>4. \A r \in Replicas : replica[r].conn = c => replica[r].step = "receive"
    BY <2>0 DEF Following
  <2>5. net[c] # <<>> => net[c][1] \in {INCR_SYNC, ACK}
    BY <2>1 DEF InStep
  <2>6. QED
    BY <2>2, <2>3, <2>4, <2>5
<1>2. QED
  BY AllInit, AllKept, <1>1, PTL DEF ReplicationSpec

(* What a replica takes from a connection whose messages were not mixed,   *)
(* when it takes it whole: nothing to apply, or a SET or DEL that is in    *)
(* the master's file, key and value byte for byte.                         *)
Logged(s) ==
  \E n \in 1 .. Len(log) :
    LET c == Commands[log[n].id]
    IN  s = <<[cmd |-> c.cmd, key |-> c.key, ok |-> TRUE,
               value |-> IF c.cmd = SET THEN c.value ELSE <<>>]>>
TakesLogged ==
  \A c \in Connections \ mixed :
    Complete(net[c]) => Effect(c, net[c]) = <<>> \/ Logged(Effect(c, net[c]))

(* A message that has arrived whole on such a connection. *)
LEMMA WholeLogged == ASSUME AllInv PROVE TakesLogged
<1> SUFFICES ASSUME NEW c \in Connections \ mixed, Complete(net[c])
             PROVE  Effect(c, net[c]) = <<>> \/ Logged(Effect(c, net[c]))
  BY DEF TakesLogged
<1>0. FileShape /\ Streams
  BY DEF AllInv, TypeInv, StreamInv
<1>1. PICK pc \in Packets : \E k \in 0 .. Len(pc) : net[c] = Joined(pc, k)
  BY <1>0 DEF Streams
<1>2. PICK k \in 0 .. Len(pc) : net[c] = Joined(pc, k)
  BY <1>1
<1>3. k = Len(pc)
  BY <1>0, <1>2, MessageAt
<1>4. ASSUME NEW type, NEW payload, IsPacket(pc, type, payload)
      PROVE  Type(net[c]) = type /\ Payload(net[c]) = payload
  <2>1. PICK s : s = net[c]
    OBVIOUS
  <2>2. Begun(s, type) /\ Whole(s, payload)
    BY <1>2, <1>3, <1>4, <2>1, Arrived
  <2>3. s \in Seq(Byte) /\ payload \in Seq(Byte) /\ s # <<>> /\ s[1] = type
    <3>1. s # <<>>
      BY <2>1, EmptyIs
    <3>2. s \in Seq(Byte) /\ (s # <<>> => s[1] = type)
      BY <2>2 DEF Begun
    <3>3. payload \in Seq(Byte)
      BY <1>4 DEF IsPacket, Payloads
    <3>4. QED
      BY <3>1, <3>2, <3>3
  <2>4. Payload(s) = payload
    BY <2>2, <2>3, WholeTaken
  <2>5. Type(s) = type
    BY <2>3 DEF Type
  <2>6. QED
    BY <2>1, <2>4, <2>5
<1>5. CASE pc = Pieces(ACK, 0, <<>>)
  <2>1. Type(net[c]) = ACK
    BY <1>4, <1>5, AckIs
  <2>2. ACK # INCR_SYNC
    BY DEF ACK, INCR_SYNC
  <2>3. Effect(c, net[c]) = <<>>
    BY <2>1, <2>2 DEF Effect
  <2>4. QED
    BY <2>3
<1>6. CASE \E off \in 0 .. Len(log), n \in 1 .. Len(log) :
             pc = IncrSync(off, Commands[log[n].id])
  <2>1. PICK off \in 0 .. Len(log), n \in 1 .. Len(log) :
          pc = IncrSync(off, Commands[log[n].id])
    BY <1>6
  <2>2. log[n].id \in 1 .. MaxAppends /\ off \in Nat
    <3>1. log \in Seq([id : 1 .. MaxAppends, whole : {TRUE}])
      BY <1>0 DEF FileShape
    <3>2. log[n] \in [id : 1 .. MaxAppends, whole : {TRUE}]
      BY <3>1, ElementOfSeq
    <3>3. log[n].id \in 1 .. MaxAppends
      BY <3>2
    <3>4. \A i \in 0 .. Len(log) : i \in Nat
      BY <3>1, LenProperties
    <3>5. QED
      BY <3>3, <3>4
  <2>3. PICK m : m = Commands[log[n].id]
    OBVIOUS
  <2> DEFINE e == Entity(off, m)
  <2>4. e \in Entities /\ IsPacket(pc, INCR_SYNC, Serialize(e))
    BY <2>1, <2>2, <2>3, SyncIs
  <2>5. e.cmd = m.cmd /\ e.key = m.key /\ e.value = m.value
    BY DEF Entity
  <2> HIDE DEF e
  <2>6. Type(net[c]) = INCR_SYNC /\ Payload(net[c]) = Serialize(e)
    BY <1>4, <2>4
  <2>7. PICK g : g = Deserialize[Payload(net[c])]
    OBVIOUS
  <2>8. g = [cmd |-> m.cmd, key |-> m.key, value |-> m.value]
    <3>1. Deserialize[Serialize(e)] = [cmd |-> e.cmd, key |-> e.key, value |-> e.value]
      BY <2>4, RoundTrip
    <3>2. QED
      BY <2>5, <2>6, <2>7, <3>1
  <2>9. g.cmd = m.cmd /\ g.key = m.key /\ g.value = m.value
    BY <2>8
  <2>10. PICK f : f = [cmd |-> m.cmd, key |-> m.key, ok |-> TRUE,
                       value |-> IF m.cmd = SET THEN m.value ELSE <<>>]
    OBVIOUS
  <2>11. Effect(c, net[c]) = IF g.cmd \in {SET, DEL}
                          THEN <<[cmd |-> g.cmd, key |-> g.key,
                                  ok |-> Complete(net[c]) /\ c \notin mixed,
                                  value |-> IF g.cmd = SET THEN g.value ELSE <<>>]>>
                          ELSE <<>>
    BY <2>6, <2>7 DEF Effect
  <2>12. (Complete(net[c]) /\ c \notin mixed) = TRUE
    BY DEF Complete
  <2>13. Effect(c, net[c]) = <<>> \/ Effect(c, net[c]) = <<f>>
    BY <2>9, <2>10, <2>11, <2>12
  <2>14. QED
    BY <2>3, <2>10, <2>13 DEF Logged
<1>7. QED
  BY <1>5, <1>6 DEF Packets

(* For any commands, of any bytes: Message and DataEntity carry a command  *)
(* from the master's file to the replica's database unchanged, whatever    *)
(* else goes on on the connection, as long as no messages are mixed there. *)
THEOREM UnmixedTakesLogged == ReplicationSpec => []TakesLogged
BY AllInit, AllKept, WholeLogged, PTL DEF ReplicationSpec

-----------------------------------------------------------------------------
(* What a replica has applied. *)

(* An entry that stands for a command of the file. *)
OfFile(x, file) ==
  \E n \in 1 .. Len(file) :
    /\ file[n].whole
    /\ LET c == Commands[file[n].id]
       IN  x.cmd = c.cmd /\ x.key = c.key /\ x.value = c.value

History ==
  /\ applied = [r \in Replicas |-> applied[r]]
  /\ \A r \in Replicas : \E S : applied[r] \in Seq(S)
  /\ AppliesOnlyLogged

(* Only a receive applies anything. *)
LEMMA AppliedSteps ==
  ASSUME [ReplicationNext]_allVars
  PROVE  \/ applied' = applied
         \/ \E r \in Replicas : Receive(r) \/ ReceiveEnds(r)
<1>1. CASE FileStep
  BY <1>1 DEF FileStep, replicationVars, replicaVars
<1>2. CASE (\E d \in Descriptors : AcceptClient(d)) \/ AcceptFails \/ Register
  BY <1>2, Zenon DEF AcceptClient, AcceptFails, Register, replicaVars
<1>3. CASE \E p \in Appenders : AppendCommand(p) \/ ListenerStep(p) \/ ReadFails(p)
  BY <1>3, Zenon DEF AppendCommand, ListenerStep, CopyListeners, CallListener,
    ReadFrame, ReadEnds, SendCommand, ListenersDone, ReadFails, replicaVars
<1>4. CASE \E c \in Connections : HandlerStep(c) \/ Break(c)
  BY <1>4, Zenon DEF HandlerStep, SendAck, Heartbeat, HandlerCloses, Break, replicaVars
<1>5. CASE \E r \in Replicas : ReplicaStep(r) \/ ReceiveSpins(r)
  BY <1>5, Zenon DEF ReplicaStep, Connect, ReceiveThrows, ReceiveSpins, allVars,
    replicationVars, replicaVars
<1>6. CASE UNCHANGED allVars
  BY <1>6 DEF allVars, replicationVars, replicaVars
<1>7. QED
  BY <1>1, <1>2, <1>3, <1>4, <1>5, <1>6 DEF ReplicationNext

(* A command of the file stays one. *)
LEMMA OfFileStays ==
  ASSUME AllInv, [ReplicationNext]_allVars, NEW x, OfFile(x, log)
  PROVE  OfFile(x, log')
<1>1. /\ Len(log) \in Nat /\ Len(log') \in Nat /\ Len(log) <= Len(log')
      /\ \A i \in 1 .. Len(log) : log'[i] = log[i]
  BY FileStays DEF AllInv, TypeInv
<1>2. PICK n \in 1 .. Len(log) :
        /\ log[n].whole
        /\ LET c == Commands[log[n].id]
           IN  x.cmd = c.cmd /\ x.key = c.key /\ x.value = c.value
  BY DEF OfFile
<1>3. n \in 1 .. Len(log') /\ log'[n] = log[n]
  BY <1>1
<1>4. QED
  BY <1>2, <1>3 DEF OfFile

(* An effect is none or one command, with ok for a whole, unmixed message. *)
LEMMA EffectIs ==
  ASSUME NEW c, NEW s, Effect(c, s) # <<>>
  PROVE  \E x : Effect(c, s) = <<x>> /\ x.cmd \in {SET, DEL} /\ x.ok = (Complete(s) /\ c \notin mixed)
<1>1. PICK e : e = Deserialize[Payload(s)]
  OBVIOUS
<1>2. Effect(c, s) = IF Type(s) = INCR_SYNC /\ e.cmd \in {SET, DEL}
                  THEN <<[cmd |-> e.cmd, key |-> e.key, ok |-> Complete(s) /\ c \notin mixed,
                          value |-> IF e.cmd = SET THEN e.value ELSE <<>>]>>
                  ELSE <<>>
  BY <1>1 DEF Effect
<1>3. PICK x : x = [cmd |-> e.cmd, key |-> e.key, ok |-> Complete(s) /\ c \notin mixed,
                    value |-> IF e.cmd = SET THEN e.value ELSE <<>>]
  OBVIOUS
<1>4. x.cmd = e.cmd /\ x.ok = (Complete(s) /\ c \notin mixed)
  BY <1>3
<1>5. Effect(c, s) = <<x>> /\ e.cmd \in {SET, DEL}
  BY <1>2, <1>3
<1>6. QED
  BY <1>4, <1>5

(* What is taken whole, and not mixed, is a command of the file. *)
LEMMA EffectOfFile ==
  ASSUME AllInv, NEW c \in Connections \ mixed, Complete(net[c]), NEW x,
         Effect(c, net[c]) = <<x>>, x.cmd \in {SET, DEL}
  PROVE  OfFile(x, log)
<1>0. FileShape /\ <<x>> # <<>>
  BY DEF AllInv, TypeInv
<1>1. Logged(<<x>>)
  BY <1>0, WholeLogged DEF TakesLogged
<1>2. PICK n \in 1 .. Len(log) :
        <<x>> = <<[cmd |-> Commands[log[n].id].cmd, key |-> Commands[log[n].id].key,
                   ok |-> TRUE,
                   value |-> IF Commands[log[n].id].cmd = SET
                             THEN Commands[log[n].id].value ELSE <<>>]>>
  BY <1>1 DEF Logged
<1>3. log[n].id \in 1 .. MaxAppends /\ log[n].whole
  <2>1. log \in Seq([id : 1 .. MaxAppends, whole : {TRUE}])
    BY <1>0 DEF FileShape
  <2>2. log[n] \in [id : 1 .. MaxAppends, whole : {TRUE}]
    BY <2>1, ElementOfSeq
  <2>3. QED
    BY <2>2
<1>4. PICK m : m = Commands[log[n].id]
  OBVIOUS
<1>5. m.cmd = DEL => m.value = <<>>
  BY <1>3, <1>4, ReplicationAssumption
<1>6. PICK y : y = [cmd |-> m.cmd, key |-> m.key, ok |-> TRUE,
                    value |-> IF m.cmd = SET THEN m.value ELSE <<>>]
  OBVIOUS
<1>7. x = y
  <2>1. <<x>> = <<y>>
    BY <1>2, <1>4, <1>6, Zenon
  <2>2. <<x>>[1] = x /\ <<y>>[1] = y
    OBVIOUS
  <2>3. QED
    BY <2>1, <2>2, Zenon
<1>8. x.cmd = m.cmd /\ x.key = m.key /\ x.value = m.value
  BY <1>5, <1>6, <1>7
<1>9. QED
  BY <1>3, <1>4, <1>8 DEF OfFile

(* One more entry behind those that a replica has applied. *)
LEMMA OneMore ==
  ASSUME NEW S, NEW a \in Seq(S), NEW x
  PROVE  /\ a \o <<x>> \in Seq(S \cup {x}) /\ Len(a \o <<x>>) = Len(a) + 1
         /\ \A i \in 1 .. Len(a) : (a \o <<x>>)[i] = a[i]
         /\ (a \o <<x>>)[Len(a) + 1] = x
<1>1. a \in Seq(S \cup {x}) /\ <<x>> \in Seq(S \cup {x}) /\ Len(<<x>>) = 1 /\ <<x>>[1] = x
  OBVIOUS
<1>2. PICK b : b = <<x>>
  OBVIOUS
<1>3. /\ a \o b \in Seq(S \cup {x}) /\ Len(a \o b) = Len(a) + Len(b)
      /\ \A i \in 1 .. Len(a) + Len(b) :
           (a \o b)[i] = IF i <= Len(a) THEN a[i] ELSE b[i - Len(a)]
  BY <1>1, <1>2, ConcatProperties
<1>4. Len(b) = 1 /\ b[1] = x /\ Len(a) \in Nat
  BY <1>1, <1>2, LenProperties
<1>5. /\ Len(a \o b) = Len(a) + 1
      /\ \A i \in 1 .. Len(a) : (a \o b)[i] = a[i]
      /\ (a \o b)[Len(a) + 1] = x
  BY <1>3, <1>4
<1>6. QED
  BY <1>2, <1>3, <1>5

(* A receive adds one entry at most, from one connection. *)
LEMMA AppliedMore ==
  ASSUME AllInv, History, NEW r \in Replicas, Receive(r) \/ ReceiveEnds(r)
  PROVE  \/ applied' = applied
         \/ \E x : /\ applied' = [applied EXCEPT ![r] = @ \o <<x>>]
                   /\ x.ok => OfFile(x, log)
<1>1. CASE Receive(r)
  <2>1. PICK c : c = replica[r].conn
    OBVIOUS
  <2>2. /\ replica[r].step = "receive" /\ Complete(net[c])
        /\ applied' = [applied EXCEPT ![r] = @ \o Effect(c, net[c])]
    BY <1>1, <2>1 DEF Receive
  <2>3. c \in Connections
    BY <2>1, <2>2 DEF AllInv, TypeInv, Following
  <2>4. CASE Effect(c, net[c]) = <<>>
    <3>1. PICK S : applied[r] \in Seq(S)
      BY DEF History
    <3>2. applied[r] \o <<>> = applied[r]
      BY <3>1, ConcatEmptySeq
    <3>3. [applied EXCEPT ![r] = applied[r]] = applied
      BY DEF History
    <3>4. QED
      BY <2>2, <2>4, <3>2, <3>3
  <2>5. CASE Effect(c, net[c]) # <<>>
    <3>1. PICK x : /\ Effect(c, net[c]) = <<x>> /\ x.cmd \in {SET, DEL}
                   /\ x.ok = (Complete(net[c]) /\ c \notin mixed)
      BY <2>5, EffectIs
    <3>2. x.ok => OfFile(x, log)
      BY <2>2, <2>3, <3>1, EffectOfFile
    <3>3. QED
      BY <2>2, <3>1, <3>2
  <2>6. QED
    BY <2>4, <2>5
<1>2. CASE ReceiveEnds(r)
  <2>1. PICK c, s : ~Complete(s) /\ applied' = [applied EXCEPT ![r] = @ \o Effect(c, s)]
    BY <1>2 DEF ReceiveEnds
  <2>2. CASE Effect(c, s) = <<>>
    <3>1. PICK S : applied[r] \in Seq(S)
      BY DEF History
    <3>2. applied[r] \o <<>> = applied[r]
      BY <3>1, ConcatEmptySeq
    <3>3. [applied EXCEPT ![r] = applied[r]] = applied
      BY DEF History
    <3>4. QED
      BY <2>1, <2>2, <3>2, <3>3
  <2>3. CASE Effect(c, s) # <<>>
    <3>1. PICK x : Effect(c, s) = <<x>> /\ x.ok = (Complete(s) /\ c \notin mixed)
      BY <2>3, EffectIs
    <3>2. QED
      BY <2>1, <3>1
  <2>4. QED
    BY <2>2, <2>3
<1>3. QED
  BY <1>1, <1>2

(* Every step keeps the history. *)
LEMMA HistoryKept ==
  ASSUME AllInv, History, [ReplicationNext]_allVars
  PROVE  History'
<1>1. \A x : OfFile(x, log) => OfFile(x, log')
  BY OfFileStays
<1>2. \A r \in Replicas : \A i \in 1 .. Len(applied[r]) :
        applied[r][i].ok => OfFile(applied[r][i], log)
  BY DEF History, AppliesOnlyLogged, OfFile
<1>3. ASSUME applied' = [r \in Replicas |-> applied'[r]],
             \A r \in Replicas : \E S : applied'[r] \in Seq(S),
             \A r \in Replicas : \A i \in 1 .. Len(applied'[r]) :
               applied'[r][i].ok => OfFile(applied'[r][i], log')
      PROVE  History'
  BY <1>3 DEF History, AppliesOnlyLogged, OfFile
<1>4. CASE applied' = applied
  BY <1>1, <1>2, <1>3, <1>4 DEF History
<1>5. ASSUME NEW r \in Replicas, NEW x, applied' = [applied EXCEPT ![r] = @ \o <<x>>],
             x.ok => OfFile(x, log)
      PROVE  History'
  <2>1. PICK S : applied[r] \in Seq(S)
    BY DEF History
  <2>2. PICK a \in Seq(S) : a = applied[r]
    BY <2>1
  <2>3. PICK b : b = a \o <<x>>
    OBVIOUS
  <2>4. /\ b \in Seq(S \cup {x}) /\ Len(b) = Len(a) + 1 /\ Len(a) \in Nat
        /\ \A i \in 1 .. Len(a) : b[i] = a[i]
        /\ b[Len(a) + 1] = x
    BY <2>3, OneMore
  <2>5. /\ applied' = [q \in Replicas |-> applied'[q]]
        /\ \A q \in Replicas : applied'[q] = IF q = r THEN b ELSE applied[q]
    BY <1>5, <2>2, <2>3 DEF History
  <2>6. \A q \in Replicas : \E T : applied'[q] \in Seq(T)
    BY <2>4, <2>5 DEF History
  <2>7. ASSUME NEW q \in Replicas, NEW i \in 1 .. Len(applied'[q]),
               applied'[q][i].ok
        PROVE  OfFile(applied'[q][i], log')
    <3>1. CASE q # r
      BY <1>1, <1>2, <2>5, <2>7, <3>1
    <3>2. CASE q = r
      <4>1. applied'[q] = b /\ i \in 1 .. Len(b)
        BY <2>5, <2>7, <3>2
      <4>2. i \in 1 .. Len(a) \/ i = Len(a) + 1
        BY <2>4, <4>1
      <4>3. CASE i \in 1 .. Len(a)
        BY <1>1, <1>2, <2>2, <2>4, <2>7, <4>1, <4>3
      <4>4. CASE i = Len(a) + 1
        BY <1>1, <1>5, <2>4, <2>7, <4>1, <4>4
      <4>5. QED
        BY <4>2, <4>3, <4>4
    <3>3. QED
      BY <3>1, <3>2
  <2>8. QED
    BY <1>3, <2>5, <2>6, <2>7
<1>6. CASE applied' = applied \/ \E r \in Replicas : Receive(r) \/ ReceiveEnds(r)
  BY <1>4, <1>5, <1>6, AppliedMore
<1>7. QED
  BY <1>6, AppliedSteps

(* For any commands, connections and replicas: every entry that a replica  *)
(* has applied from a message it received whole, while no messages had     *)
(* been mixed on its connection, is a command of the master's file.  The   *)
(* loop of startReplica does not look at what recvFromSocket returns, and  *)
(* need not for those.                                                     *)
THEOREM UnmixedAppliesLogged == ReplicationSpec => []AppliesOnlyLogged
<1>1. ReplicationInit => AllInv /\ History
  <2>1. ReplicationInit => History
    <3> SUFFICES ASSUME ReplicationInit PROVE History
      OBVIOUS
    <3>1. applied = [r \in Replicas |-> <<>>]
      BY DEF ReplicationInit
    <3>2. /\ applied = [r \in Replicas |-> applied[r]]
          /\ \A r \in Replicas : applied[r] = <<>> /\ Len(applied[r]) = 0
      BY <3>1
    <3>3. \A r \in Replicas : applied[r] \in Seq(Nat)
      BY <3>2, EmptySeq
    <3>4. AppliesOnlyLogged
      BY <3>2 DEF AppliesOnlyLogged
    <3>5. QED
      BY <3>2, <3>3, <3>4, Zenon DEF History
  <2>2. QED
    BY <2>1, AllInit
<1>2. AllInv /\ History /\ [ReplicationNext]_allVars => (AllInv /\ History)'
  BY AllKept, HistoryKept
<1>3. History => AppliesOnlyLogged
  BY DEF History
<1>4. QED
  BY <1>1, <1>2, <1>3, PTL DEF ReplicationSpec

=============================================================================
