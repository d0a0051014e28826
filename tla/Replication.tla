------------------------------ MODULE Replication ------------------------------
(***************************************************************************)
(* Replication, src/src/replica: a master runs one listener per connection *)
(* it has accepted in the thread of every append, and the listener sends   *)
(* the commands it finds in the append-only file from getCurrentOffset()   *)
(* on; a replica applies what it receives.  The file is the AppendLog that *)
(* Aof implements, with offsets that count its entries and a writer that   *)
(* does not fail; the bytes on a connection are those of Wire.             *)
(*                                                                         *)
(* Connections are numbered as they are made.  What a replica is sent is   *)
(* the sequence of bytes not received yet; TCP keeps their order and loses *)
(* nothing as long as the connection is up.                                *)
(***************************************************************************)
EXTENDS AppendLog, Wire

CONSTANTS
  Appenders,   \* threads that append commands
  MaxAppends,  \* bound: commands appended
  Commands,    \* Commands[n] is the command of the n-th accepted frame
  Replicas,    \* processes that run ReplicationClient::startReplica
  Descriptors, \* the descriptors the master's sockets may get
  MaxConns,    \* bound: connections made
  MaxLosses,   \* bound: connections that break
  MaxAcceptFaults,  \* bound: accept() calls that fail
  MaxReadFaults     \* bound: open, lseek or read calls on the file that fail

SET == <<83, 69, 84>>
DEL == <<68, 69, 76>>

(* put and remove make the commands: a DEL has no value. *)
ASSUME ReplicationAssumption ==
  /\ DOMAIN Commands = 1 .. MaxAppends
  /\ \A n \in 1 .. MaxAppends :
       /\ Commands[n] \in [cmd : Seq(Byte), key : Seq(Byte), value : Seq(Byte)]
       /\ 20 + Len(Commands[n].cmd) + Len(Commands[n].key) + Len(Commands[n].value) < Huge
       /\ Commands[n].cmd = DEL => Commands[n].value = <<>>
  /\ Descriptors \subseteq Nat
  /\ {MaxAppends, MaxConns, MaxLosses, MaxAcceptFaults, MaxReadFaults} \subseteq Nat

VARIABLES
  backlog,    \* connections that accept() has not returned
  fds,        \* the connection of each descriptor of the master, 0 if closed
  acceptor,   \* where startServer is
  client_fd,  \* the stack slot of client_fd, which every listener refers to
  listeners,  \* how many listeners are registered
  listen,     \* where each appender is after its push, in notifyListeners
  handler,    \* the handle_replica thread of each connection
  link,       \* is each connection up, reset, or dead without a notice?
  net,        \* the bytes under way to the replica on each connection
  beats,      \* the connections whose one heartbeat has reached the master
  replica,    \* where each replica is, and its connection
  applied,    \* history: what each replica applied
  mixed,      \* history: connections with bytes of one message inside another
  mishaps     \* history: failed calls and broken connections, for the bounds

masterVars  == <<fds, acceptor, client_fd, listeners, listen, handler>>
networkVars == <<backlog, link, net, beats>>
replicaVars == <<replica, applied>>
replicationVars == <<masterVars, networkVars, replicaVars, mixed, mishaps>>
allVars     == <<vars, replicationVars>>

Connections == 1 .. MaxConns
Prefix(s, n) == SubSeq(s, 1, n)
Invalid == -1

(* A message that a thread is sending: the pieces left, and the connection *)
(* its first piece went to.                                                *)
Nothing == [out |-> <<>>, into |-> 0]
Quiet == [step |-> "idle", left |-> 0, off |-> 0, pos |-> 0, fd |-> Invalid,
          sending |-> Nothing]
NoHandler == [step |-> "none", fd |-> Invalid, sending |-> Nothing]

ReplicationInit ==
  /\ Init
  /\ backlog = <<>> /\ fds = [d \in Descriptors |-> 0]
  /\ acceptor = [step |-> "accept", conn |-> 0]
  /\ client_fd = Invalid /\ listeners = 0
  /\ listen = [p \in Appenders |-> Quiet]
  /\ handler = [c \in Connections |-> NoHandler]
  /\ link = [c \in Connections |-> "none"]
  /\ net = [c \in Connections |-> <<>>]
  /\ beats = {}
  /\ replica = [r \in Replicas |-> [step |-> "connect", conn |-> 0]]
  /\ applied = [r \in Replicas |-> <<>>]
  /\ mixed = {}
  /\ mishaps = [loss |-> 0, accept |-> 0, read |-> 0]

-----------------------------------------------------------------------------
(* send_all.  The connection behind descriptor d now, 0 if there is none.  *)
Behind(d) == IF d \in Descriptors THEN fds[d] ELSE 0

(* The messages that some thread is in the middle of sending. *)
Started == {m \in {listen[p].sending : p \in Appenders} \cup
                  {handler[c].sending : c \in Connections} :
              m.out # <<>> /\ m.into # 0}

(* Bound: the replica takes a message as soon as it is whole.  One that is *)
(* slower receives the same bytes, and a reset loses them as well if it    *)
(* comes before they are sent.                                             *)
KeptUp(d) ==
  LET c == Behind(d)
  IN  c # 0 => ~Complete(net[c]) /\ ~Throws(net[c])

(* What is left of the message m after its next piece went to d: nothing   *)
(* also if the descriptor is closed or its connection reset, because       *)
(* sendToSocket returns at the first send that fails.                      *)
AfterSend(m, d) ==
  LET c == Behind(d)
  IN  IF c = 0 \/ link[c] = "reset" \/ Tail(m.out) = <<>> THEN Nothing
      ELSE [out |-> Tail(m.out), into |-> IF m.into = 0 THEN c ELSE m.into]

(* The next piece of m on descriptor d.  A dead connection swallows it. *)
Transmit(m, d) ==
  LET c == Behind(d)
  IN /\ KeptUp(d)
     /\ net' = IF c # 0 /\ link[c] = "up"
               THEN [net EXCEPT ![c] = @ \o Head(m.out)] ELSE net
     /\ mixed' = IF c # 0 /\ (IF m.into = 0 THEN \E o \in Started : o.into = c
                                            ELSE m.into # c)
                 THEN mixed \cup {c} ELSE mixed

-----------------------------------------------------------------------------
(* ReplicationServer::startServer: accept, register a listener, start the  *)
(* thread of handle_replica.                                               *)

(* The result of accept is stored in the slot that the listeners           *)
(* registered before, which captured it by reference, read as well.        *)
AcceptClient(d) ==
  /\ acceptor.step = "accept" /\ backlog # <<>> /\ fds[d] = 0
  /\ acceptor' = [step |-> "register", conn |-> Head(backlog)]
  /\ backlog' = Tail(backlog)
  /\ fds' = [fds EXCEPT ![d] = Head(backlog)]
  /\ client_fd' = d
  /\ UNCHANGED <<vars, listeners, listen, handler, link, net, beats,
                 replicaVars, mixed, mishaps>>

(* accept's -1 is used like a descriptor. *)
AcceptFails ==
  /\ acceptor.step = "accept" /\ mishaps.accept < MaxAcceptFaults
  /\ mishaps' = [mishaps EXCEPT !.accept = @ + 1]
  /\ acceptor' = [step |-> "register", conn |-> 0]
  /\ client_fd' = Invalid
  /\ UNCHANGED <<vars, fds, listeners, listen, handler, networkVars,
                 replicaVars, mixed>>

(* registerListener, and the new thread, whose copy of client_fd is its    *)
(* own.  A thread for -1 fails at once and changes nothing.                *)
Register ==
  /\ acceptor.step = "register"
  /\ listeners' = listeners + 1
  /\ handler' = IF acceptor.conn = 0 THEN handler
                ELSE [handler EXCEPT ![acceptor.conn] =
                        [step |-> "ack", fd |-> client_fd,
                         sending |-> [out |-> Pieces(ACK, 0, <<>>), into |-> 0]]]
  /\ acceptor' = [step |-> "accept", conn |-> 0]
  /\ UNCHANGED <<vars, fds, client_fd, listen, networkVars, replicaVars,
                 mixed, mishaps>>

-----------------------------------------------------------------------------
(* handle_replica, the thread of connection c. *)

(* send_ack, whose failure is only printed. *)
SendAck(c) ==
  /\ handler[c].step = "ack"
  /\ LET m == AfterSend(handler[c].sending, handler[c].fd)
     IN  handler' = [handler EXCEPT ![c].sending = m,
                       ![c].step = IF m.out = <<>> THEN "receive" ELSE "ack"]
  /\ Transmit(handler[c].sending, handler[c].fd)
  /\ UNCHANGED <<vars, fds, acceptor, client_fd, listeners, listen, backlog,
                 link, beats, replicaVars, mishaps>>

(* start_heartbeat sends until a send succeeds, and then ends: one         *)
(* heartbeat, the only message a replica sends.  The handler sets the time *)
(* that it then tests the timeout against, so the test never ends its loop. *)
Heartbeat(c) ==
  /\ handler[c].step = "receive" /\ link[c] = "up" /\ c \notin beats
  /\ beats' = beats \cup {c}
  /\ UNCHANGED <<vars, masterVars, backlog, link, net, replicaVars, mixed,
                 mishaps>>

(* Mutant: the descriptor of the last accepted connection is closed. *)
HandlerClosesSlot(c) ==
  /\ handler[c].step = "receive" /\ link[c] = "reset"
  /\ handler' = [handler EXCEPT ![c] = [NoHandler EXCEPT !.step = "done"]]
  /\ fds' = [d \in Descriptors |-> IF d = client_fd THEN 0 ELSE fds[d]]
  /\ UNCHANGED <<vars, acceptor, client_fd, listeners, listen, networkVars,
                 replicaVars, mixed, mishaps>>

(* Mutant: only the end of the heartbeats ends the thread. *)
HandlerClosesTimed(c) ==
  /\ handler[c].step = "receive" /\ link[c] = "reset" /\ c \in beats
  /\ handler' = [handler EXCEPT ![c] = [NoHandler EXCEPT !.step = "done"]]
  /\ fds' = [fds EXCEPT ![handler[c].fd] = 0]
  /\ UNCHANGED <<vars, acceptor, client_fd, listeners, listen, networkVars,
                 replicaVars, mixed, mishaps>>

(* recvFromSocket fails and the descriptor is closed.  The listener stays  *)
(* registered.                                                             *)
HandlerCloses(c) ==
  /\ handler[c].step = "receive" /\ link[c] = "reset"
  /\ handler' = [handler EXCEPT ![c] = [NoHandler EXCEPT !.step = "done"]]
  /\ fds' = [fds EXCEPT ![handler[c].fd] = 0]
  /\ UNCHANGED <<vars, acceptor, client_fd, listeners, listen, networkVars,
                 replicaVars, mixed, mishaps>>

-----------------------------------------------------------------------------
(* An appending thread: the push, and then notifyListeners.                *)

AppendCommand(p) ==
  /\ listen[p].step = "idle" /\ next < MaxAppends
  /\ Accept
  /\ listen' = [listen EXCEPT ![p].step = "notify"]
  /\ UNCHANGED <<fds, acceptor, client_fd, listeners, handler, networkVars,
                 replicaVars, mixed, mishaps>>

(* The copy of the list, under listener_mu_. *)
CopyListeners(p) ==
  /\ listen[p].step = "notify"
  /\ listen' = [listen EXCEPT ![p].step = "call", ![p].left = listeners]
  /\ UNCHANGED <<vars, fds, acceptor, client_fd, listeners, handler,
                 networkVars, replicaVars, mixed, mishaps>>

(* Mutant: the listener starts behind the frame at the offset. *)
CallListenerPast(p) ==
  /\ listen[p].step = "call" /\ listen[p].left > 0
  /\ listen' = [listen EXCEPT ![p].step = "read", ![p].left = @ - 1,
                  ![p].off = published, ![p].pos = published + 1,
                  ![p].fd = client_fd]
  /\ UNCHANGED <<vars, fds, acceptor, client_fd, listeners, handler,
                 networkVars, replicaVars, mixed, mishaps>>

(* The start of a listener: the offset of the file and the descriptor. *)
CallListener(p) ==
  /\ listen[p].step = "call" /\ listen[p].left > 0
  /\ listen' = [listen EXCEPT ![p].step = "read", ![p].left = @ - 1,
                  ![p].off = published, ![p].pos = published,
                  ![p].fd = client_fd]
  /\ UNCHANGED <<vars, fds, acceptor, client_fd, listeners, handler,
                 networkVars, replicaVars, mixed, mishaps>>

(* The file has a whole frame where the listener is reading. *)
HasFrame(p) == listen[p].pos < Len(log) /\ log[listen[p].pos + 1].whole

(* readCommandsFromOffset parses the next frame and calls the lambda of    *)
(* the listener, which makes an INCR_SYNC of it.                           *)
ReadFrame(p) ==
  /\ listen[p].step = "read" /\ HasFrame(p)
  /\ listen' = [listen EXCEPT ![p].step = "send", ![p].pos = @ + 1,
                  ![p].sending = [out |-> IncrSync(listen[p].off,
                                    Commands[log[listen[p].pos + 1].id]),
                                  into |-> 0]]
  /\ UNCHANGED <<vars, fds, acceptor, client_fd, listeners, handler,
                 networkVars, replicaVars, mixed, mishaps>>

(* Mutant: a listener that has found nothing waits for more. *)
ReadEndsWaiting(p) ==
  /\ listen[p].step = "read" /\ ~HasFrame(p) /\ listen[p].pos > listen[p].off
  /\ listen' = [listen EXCEPT ![p] = [Quiet EXCEPT !.step = "call",
                                                   !.left = listen[p].left]]
  /\ UNCHANGED <<vars, fds, acceptor, client_fd, listeners, handler,
                 networkVars, replicaVars, mixed, mishaps>>

(* The end of the file, or what is in it of a frame not yet whole. *)
ReadEnds(p) ==
  /\ listen[p].step = "read" /\ ~HasFrame(p)
  /\ listen' = [listen EXCEPT ![p] = [Quiet EXCEPT !.step = "call",
                                                   !.left = listen[p].left]]
  /\ UNCHANGED <<vars, fds, acceptor, client_fd, listeners, handler,
                 networkVars, replicaVars, mixed, mishaps>>

(* open, lseek or read fails: readCommandsFromOffset returns false. *)
ReadFails(p) ==
  /\ listen[p].step = "read" /\ mishaps.read < MaxReadFaults
  /\ mishaps' = [mishaps EXCEPT !.read = @ + 1]
  /\ listen' = [listen EXCEPT ![p] = [Quiet EXCEPT !.step = "call",
                                                   !.left = listen[p].left]]
  /\ UNCHANGED <<vars, fds, acceptor, client_fd, listeners, handler,
                 networkVars, replicaVars, mixed>>

(* One send_all of the message; a failed message is only reported. *)
SendCommand(p) ==
  /\ listen[p].step = "send"
  /\ LET m == AfterSend(listen[p].sending, listen[p].fd)
     IN  listen' = [listen EXCEPT ![p].sending = m,
                       ![p].step = IF m.out = <<>> THEN "read" ELSE "send"]
  /\ Transmit(listen[p].sending, listen[p].fd)
  /\ UNCHANGED <<vars, fds, acceptor, client_fd, listeners, handler, backlog,
                 link, beats, replicaVars, mishaps>>

(* All listeners have run: the append returns. *)
ListenersDone(p) ==
  /\ listen[p].step = "call" /\ listen[p].left = 0
  /\ listen' = [listen EXCEPT ![p] = Quiet]
  /\ UNCHANGED <<vars, fds, acceptor, client_fd, listeners, handler, networkVars,
                 replicaVars, mixed, mishaps>>

-----------------------------------------------------------------------------
(* ReplicationClient::startReplica. *)

(* create_client_socket, at the start and three seconds after an           *)
(* exception, and the heartbeat thread of the connection.                  *)
Connect(r, c) ==
  /\ replica[r].step = "connect" /\ link[c] = "none"
  /\ \A b \in 1 .. c - 1 : link[b] # "none"
  /\ replica' = [replica EXCEPT ![r] = [step |-> "receive", conn |-> c]]
  /\ link' = [link EXCEPT ![c] = "up"]
  /\ backlog' = Append(backlog, c)
  /\ UNCHANGED <<vars, masterVars, net, beats, applied, mixed, mishaps>>

(* What the loop does after recvFromSocket has read the bytes s from c:    *)
(* only an INCR_SYNC with a SET or a DEL reaches the database.  The loop   *)
(* does not look at what recvFromSocket returned, Complete(s), and cannot  *)
(* tell an interleaved message from another: ok is for the properties.     *)
Effect(c, s) ==
  LET e == Deserialize[Payload(s)]
  IN  IF Type(s) = INCR_SYNC /\ e.cmd \in {SET, DEL}
      THEN <<[cmd |-> e.cmd, key |-> e.key, ok |-> Complete(s) /\ c \notin mixed,
              value |-> IF e.cmd = SET THEN e.value ELSE <<>>]>>
      ELSE <<>>

(* recvFromSocket of a message that has arrived whole. *)
Receive(r) ==
  LET c == replica[r].conn
  IN /\ replica[r].step = "receive" /\ Complete(net[c])
     /\ applied' = [applied EXCEPT ![r] = @ \o Effect(c, net[c])]
     /\ net' = [net EXCEPT ![c] = After(@)]
     /\ UNCHANGED <<vars, masterVars, backlog, link, beats, replica, mixed,
                    mishaps>>

(* The end of a connection that was reset: some of the bytes under way     *)
(* still arrive, then recvFromSocket fails in the middle of a message, and *)
(* the loop goes on with what there is of it.                              *)
ReceiveEnds(r) ==
  LET c == replica[r].conn
  IN /\ replica[r].step = "receive" /\ link[c] = "reset" /\ net[c] # <<>>
     /\ \E s \in {Prefix(net[c], n) : n \in 0 .. Len(net[c])} :
          /\ ~Complete(s) /\ ~Throws(s)
          /\ applied' = [applied EXCEPT ![r] = @ \o Effect(c, s)]
     /\ net' = [net EXCEPT ![c] = <<>>]
     /\ UNCHANGED <<vars, masterVars, backlog, link, beats, replica, mixed,
                    mishaps>>

(* resize() throws out of recvFromSocket: the catch clause waits and       *)
(* connects again.  The socket is not closed: a master that has not been   *)
(* told of the end of the connection yet never is.                         *)
ReceiveThrows(r) ==
  LET c == replica[r].conn
  IN /\ replica[r].step = "receive" /\ Throws(net[c])
     /\ replica' = [replica EXCEPT ![r].step = "connect"]
     /\ net' = [net EXCEPT ![c] = <<>>]
     /\ link' = [link EXCEPT ![c] = IF @ = "up" THEN "dead" ELSE @]
     /\ UNCHANGED <<vars, masterVars, backlog, beats, applied, mixed, mishaps>>

(* recvFromSocket fails at once on a connection that has ended: the loop   *)
(* prints the default header, an ACK, and tries again, for ever.           *)
ReceiveSpins(r) ==
  /\ replica[r].step = "receive"
  /\ link[replica[r].conn] = "reset" /\ net[replica[r].conn] = <<>>
  /\ UNCHANGED allVars

-----------------------------------------------------------------------------
(* A connection breaks: both ends find out, or neither does. *)
Break(c) ==
  /\ link[c] = "up" /\ mishaps.loss < MaxLosses
  /\ mishaps' = [mishaps EXCEPT !.loss = @ + 1]
  /\ \/ link' = [link EXCEPT ![c] = "reset"] /\ UNCHANGED net
     \/ link' = [link EXCEPT ![c] = "dead"] /\ net' = [net EXCEPT ![c] = <<>>]
  /\ UNCHANGED <<vars, masterVars, backlog, beats, replicaVars, mixed>>

(* The writer of the master's file at work; its process does not end here. *)
FileStep == (Persist \/ Publish) /\ UNCHANGED replicationVars

ListenerStep(p) ==
  \/ CopyListeners(p) \/ CallListener(p) \/ ReadFrame(p) \/ ReadEnds(p)
  \/ SendCommand(p) \/ ListenersDone(p)

HandlerStep(c) == SendAck(c) \/ Heartbeat(c) \/ HandlerCloses(c)

ReplicaStep(r) ==
  (\E c \in Connections : Connect(r, c)) \/ Receive(r) \/ ReceiveEnds(r)
  \/ ReceiveThrows(r)

ReplicationNext ==
  \/ FileStep
  \/ (\E d \in Descriptors : AcceptClient(d)) \/ AcceptFails \/ Register
  \/ \E p \in Appenders : AppendCommand(p) \/ ListenerStep(p) \/ ReadFails(p)
  \/ \E c \in Connections : HandlerStep(c) \/ Break(c)
  \/ \E r \in Replicas : ReplicaStep(r) \/ ReceiveSpins(r)

ReplicationSpec == ReplicationInit /\ [][ReplicationNext]_allVars

(* Every thread of both programs runs on, the writer of the file too, and  *)
(* the kernel delivers what is under way.  Nothing has to fail, and no     *)
(* command has to be appended.                                             *)
ReplicationFairSpec ==
  /\ ReplicationSpec
  /\ WF_allVars(Persist /\ UNCHANGED replicationVars)
  /\ WF_allVars(Publish /\ UNCHANGED replicationVars)
  /\ WF_allVars((\E d \in Descriptors : AcceptClient(d)) \/ Register)
  /\ \A p \in Appenders : WF_allVars(ListenerStep(p))
  /\ \A c \in Connections : WF_allVars(HandlerStep(c))
  /\ \A r \in Replicas : WF_allVars(ReplicaStep(r))

-----------------------------------------------------------------------------
(* Type invariant: bytes are below 256, a position is one in the log, and  *)
(* a descriptor that a listener took from the stack slot may be -1.        *)
ReplicationTypeOK ==
  /\ listeners \in 0 .. MaxConns + MaxAcceptFaults
  /\ fds \in [Descriptors -> 0 .. MaxConns]
  /\ client_fd \in Descriptors \cup {Invalid}
  /\ acceptor.step \in {"accept", "register"} /\ acceptor.conn \in 0 .. MaxConns
  /\ \A p \in Appenders :
       /\ listen[p].step \in {"idle", "notify", "call", "read", "send"}
       /\ listen[p].left \in 0 .. listeners
       /\ listen[p].off <= listen[p].pos /\ listen[p].pos <= Len(log)
       /\ listen[p].fd \in Descriptors \cup {Invalid}
  /\ \A c \in Connections :
       /\ handler[c].step \in {"none", "ack", "receive", "done"}
       /\ link[c] \in {"none", "up", "reset", "dead"}
       /\ \A i \in 1 .. Len(net[c]) : net[c][i] \in 0 .. 255
  /\ beats \subseteq Connections /\ mixed \subseteq Connections
  /\ \A r \in Replicas : replica[r].step \in {"connect", "receive"}

(* sendToSocket and recvFromSocket agree on where a message ends: unless   *)
(* the messages of two threads were interleaved on the connection, what    *)
(* the replica is about to read starts with the type byte and has the      *)
(* magic number in its place, and the replica never takes other bytes for  *)
(* a length so large that it gives up the connection.                      *)
StreamInStep ==
  \A c \in Connections \ mixed :
    /\ net[c] # <<>> => net[c][1] \in {INCR_SYNC, ACK}
    /\ Len(net[c]) >= 4 => SubSeq(net[c], 3, 4) = Magic
    /\ \A r \in Replicas : replica[r].conn = c => replica[r].step = "receive"

(* What a replica applies from a message that it received whole, on a      *)
(* connection where no messages had been interleaved by then, is a command *)
(* that the master's file holds, whatever connections, descriptors and     *)
(* broken messages came before.  Of the first bytes of a message that was  *)
(* cut off, and of interleaved ones, it may apply anything.                *)
AppliesOnlyLogged ==
  \A r \in Replicas : \A i \in 1 .. Len(applied[r]) :
    applied[r][i].ok =>
      \E n \in 1 .. Len(log) :
        /\ log[n].whole
        /\ LET c == Commands[log[n].id]
           IN  /\ applied[r][i].cmd = c.cmd
               /\ applied[r][i].key = c.key
               /\ applied[r][i].value = c.value

(* handle_replica closes a copy of the descriptor, long after it was       *)
(* accepted: until then it belongs to the thread's own connection, though  *)
(* other connections come and go and descriptors are used again.           *)
HandlerOwnsDescriptor ==
  \A c \in Connections :
    handler[c].step \in {"ack", "receive"} => fds[handler[c].fd] = c

(* An append that has to run the listeners returns, whatever became of the *)
(* replicas, as long as those that are connected keep reading.             *)
AppendReturns ==
  \A p \in Appenders : listen[p].step # "idle" ~> listen[p].step = "idle"

(* The descriptor of a connection that was reset is closed at some time.   *)
ClosesBroken ==
  \A c \in Connections :
    handler[c].step \in {"ack", "receive"} /\ link[c] = "reset" ~>
      handler[c].step = "done"

(* What the comment of registerListener says ("triggered when new data is  *)
(* enqueued") and the listener's own message ("new AOF data appended"):    *)
(* the data whose arrival triggers a listener reaches a replica.           *)
ListenerForwards ==
  \A n \in 1 .. MaxAppends :
    next = n /\ listeners > 0 /\ (\E p \in Appenders : listen[p].step = "notify")
      ~> \E r \in Replicas : \E i \in 1 .. Len(applied[r]) :
           /\ applied[r][i].cmd = Commands[n].cmd
           /\ applied[r][i].key = Commands[n].key
           /\ applied[r][i].value = Commands[n].value
===============================================================================
