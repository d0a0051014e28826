--------------------------- MODULE ReplicationProofs ---------------------------
(***************************************************************************)
(* Theorems about Replication, for any set of appenders, replicas and      *)
(* descriptors and any bounds.                                             *)
(***************************************************************************)
EXTENDS Replication, TLAPS, SequenceTheorems

(* The thread of connection c runs handle_replica and has not closed. *)
Active(c) == handler[c].step \in {"ack", "receive"}

HandlerShape ==
  /\ DOMAIN handler = Connections
  /\ \A c \in Connections : DOMAIN handler[c] = {"step", "fd", "sending"}

FdsShape == fds \in [Descriptors -> 0 .. MaxConns]

(* The descriptor of an active handler is that of its connection. *)
Owned ==
  \A c \in Connections :
    Active(c) => handler[c].fd \in Descriptors /\ fds[handler[c].fd] = c

(* A connection that accept has returned and that has no handler yet. *)
Registering ==
  acceptor.step = "register" /\ acceptor.conn # 0 =>
    /\ acceptor.conn \in Connections
    /\ client_fd \in Descriptors /\ fds[client_fd] = acceptor.conn
    /\ handler[acceptor.conn].step = "none"
    /\ link[acceptor.conn] # "none"

(* The connections that accept has not returned: distinct, without a       *)
(* handler, and not the one that is being registered.                      *)
Waiting ==
  /\ backlog \in Seq(Connections)
  /\ \A i \in 1 .. Len(backlog) :
       /\ handler[backlog[i]].step = "none"
       /\ link[backlog[i]] # "none"
       /\ acceptor.step = "register" => backlog[i] # acceptor.conn
       /\ \A j \in 1 .. Len(backlog) : backlog[i] = backlog[j] => i = j

LinkShape ==
  /\ DOMAIN link = Connections
  /\ \A c \in Connections : link[c] = "none" => handler[c].step = "none"

DescriptorInv ==
  /\ HandlerShape /\ FdsShape /\ LinkShape /\ Owned /\ Registering /\ Waiting

-----------------------------------------------------------------------------
(* The bound on connections is a number. *)
LEMMA BoundNat == MaxConns \in Nat
  BY ReplicationAssumption

(* The master starts with no descriptor and no handler. *)
LEMMA InitDescriptors == ReplicationInit => DescriptorInv
<1> SUFFICES ASSUME ReplicationInit PROVE DescriptorInv
  OBVIOUS
<1>1. HandlerShape /\ LinkShape /\ Owned
  BY DEF ReplicationInit, HandlerShape, LinkShape, Owned, Active, NoHandler
<1>2. FdsShape
  BY BoundNat DEF ReplicationInit, FdsShape
<1>3. Registering
  BY DEF ReplicationInit, Registering
<1>4. Waiting
  BY DEF ReplicationInit, Waiting
<1>5. QED
  BY <1>1, <1>2, <1>3, <1>4 DEF DescriptorInv

(* A step that leaves descriptors, handlers and accepted connections alone *)
(* and unmakes no connection keeps the invariant.                          *)
LEMMA KeepsDescriptors ==
  ASSUME DescriptorInv,
         UNCHANGED <<fds, acceptor, client_fd, handler, backlog>>,
         DOMAIN link' = Connections,
         \A c \in Connections : (link'[c] = "none") <=> (link[c] = "none")
  PROVE  DescriptorInv'
<1>1. HandlerShape' /\ FdsShape' /\ LinkShape'
  BY DEF DescriptorInv, HandlerShape, FdsShape, LinkShape
<1>2. Owned'
  BY DEF DescriptorInv, Owned, Active
<1>3. Registering'
  BY DEF DescriptorInv, Registering
<1>4. Waiting'
  <2>1. backlog \in Seq(Connections) /\ backlog' = backlog
    BY DEF DescriptorInv, Waiting
  <2>2. ASSUME NEW i \in 1 .. Len(backlog)
        PROVE  backlog[i] \in Connections
    BY <2>1
  <2>3. QED
    BY <2>1, <2>2 DEF DescriptorInv, Waiting
<1>5. QED
  BY <1>1, <1>2, <1>3, <1>4 DEF DescriptorInv

(* accept() takes a free descriptor, which no active handler holds, for a *)
(* connection that has no handler.                                         *)
LEMMA AcceptKeeps ==
  ASSUME DescriptorInv, NEW d \in Descriptors, AcceptClient(d)
  PROVE  DescriptorInv'
<1> DEFINE c == Head(backlog)
<1>1. /\ backlog \in Seq(Connections) /\ backlog # <<>>
      /\ backlog' = Tail(backlog)
      /\ fds' = [fds EXCEPT ![d] = c] /\ fds[d] = 0 /\ client_fd' = d
      /\ acceptor' = [step |-> "register", conn |-> c]
      /\ handler' = handler /\ link' = link
  BY DEF DescriptorInv, Waiting, AcceptClient
<1>2. /\ 1 \in 1 .. Len(backlog) /\ c = backlog[1] /\ c \in Connections
      /\ Len(backlog') = Len(backlog) - 1 /\ backlog' \in Seq(Connections)
      /\ \A i \in 1 .. Len(backlog') :
           i + 1 \in 1 .. Len(backlog) /\ backlog'[i] = backlog[i + 1]
  BY <1>1, HeadTailProperties
<1>3. c # 0 /\ c \in 0 .. MaxConns
  BY <1>2, BoundNat DEF Connections
<1>4. HandlerShape' /\ LinkShape'
  BY <1>1 DEF DescriptorInv, HandlerShape, LinkShape
<1>5. FdsShape'
  BY <1>1, <1>3 DEF DescriptorInv, FdsShape
<1>6. Owned'
  <2> SUFFICES ASSUME NEW b \in Connections, Active(b)
               PROVE  handler[b].fd \in Descriptors /\ fds'[handler[b].fd] = b
    BY <1>1 DEF Owned, Active
  <2>1. handler[b].fd \in Descriptors /\ fds[handler[b].fd] = b
    BY DEF DescriptorInv, Owned
  <2>2. b # 0
    BY BoundNat DEF Connections
  <2>3. QED
    BY <1>1, <2>1, <2>2 DEF DescriptorInv, FdsShape
<1>7. Registering'
  <2>1. handler[c].step = "none" /\ link[c] # "none"
    BY <1>2 DEF DescriptorInv, Waiting
  <2>2. fds'[d] = c
    BY <1>1 DEF DescriptorInv, FdsShape
  <2>3. QED
    BY <1>1, <1>2, <2>1, <2>2 DEF Registering
<1>8. Waiting'
  <2>1. ASSUME NEW i \in 1 .. Len(backlog')
        PROVE  /\ handler[backlog'[i]].step = "none"
               /\ link[backlog'[i]] # "none"
               /\ backlog'[i] # c
    <3>1. i + 1 \in 1 .. Len(backlog) /\ backlog'[i] = backlog[i + 1] /\ i + 1 # 1
      BY <1>2
    <3>2. QED
      BY <1>2, <3>1 DEF DescriptorInv, Waiting
  <2>2. ASSUME NEW i \in 1 .. Len(backlog'), NEW j \in 1 .. Len(backlog'),
               backlog'[i] = backlog'[j]
        PROVE  i = j
    <3>1. i + 1 = j + 1
      BY <1>2, <2>2 DEF DescriptorInv, Waiting
    <3>2. QED
      BY <3>1
  <2>3. QED
    BY <1>1, <1>2, <2>1, <2>2 DEF Waiting
<1>9. QED
  BY <1>4, <1>5, <1>6, <1>7, <1>8 DEF DescriptorInv

(* The -1 of a failed accept() stands for no connection. *)
LEMMA AcceptFailsKeeps ==
  ASSUME DescriptorInv, AcceptFails
  PROVE  DescriptorInv'
<1>1. /\ acceptor' = [step |-> "register", conn |-> 0]
      /\ UNCHANGED <<fds, handler, backlog, link>>
  BY DEF AcceptFails, networkVars
<1>2. HandlerShape' /\ FdsShape' /\ LinkShape'
  BY <1>1 DEF DescriptorInv, HandlerShape, FdsShape, LinkShape
<1>3. Owned'
  BY <1>1 DEF DescriptorInv, Owned, Active
<1>4. Registering'
  BY <1>1 DEF Registering
<1>5. Waiting'
  <2>1. ASSUME NEW i \in 1 .. Len(backlog)
        PROVE  backlog[i] # 0
    BY BoundNat DEF DescriptorInv, Waiting, Connections
  <2>2. QED
    BY <1>1, <2>1 DEF DescriptorInv, Waiting
<1>6. QED
  BY <1>2, <1>3, <1>4, <1>5 DEF DescriptorInv

(* The new thread copies the descriptor that accept() gave its connection. *)
LEMMA RegisterKeeps ==
  ASSUME DescriptorInv, Register
  PROVE  DescriptorInv'
<1> DEFINE c == acceptor.conn
           h == [step |-> "ack", fd |-> client_fd,
                 sending |-> [out |-> Pieces(ACK, 0, <<>>), into |-> 0]]
<1>1. /\ acceptor.step = "register"
      /\ acceptor' = [step |-> "accept", conn |-> 0]
      /\ UNCHANGED <<fds, client_fd, backlog, link>>
      /\ handler' = IF c = 0 THEN handler ELSE [handler EXCEPT ![c] = h]
  BY DEF Register, networkVars
<1>2. c # 0 => /\ c \in Connections /\ client_fd \in Descriptors
               /\ fds[client_fd] = c /\ link[c] # "none"
  BY <1>1 DEF DescriptorInv, Registering
<1>3. \A b \in Connections :
        handler'[b] = IF c # 0 /\ b = c THEN h ELSE handler[b]
  BY <1>1, <1>2 DEF DescriptorInv, HandlerShape
<1>4. HandlerShape'
  <2>1. DOMAIN handler' = Connections
    BY <1>1 DEF DescriptorInv, HandlerShape
  <2>2. DOMAIN h = {"step", "fd", "sending"}
    OBVIOUS
  <2>3. QED
    BY <1>3, <2>1, <2>2 DEF DescriptorInv, HandlerShape
<1>5. h.step = "ack" /\ h.fd = client_fd
  OBVIOUS
<1> HIDE DEF h
<1>6. FdsShape' /\ LinkShape'
  BY <1>1, <1>2, <1>3 DEF DescriptorInv, FdsShape, LinkShape
<1>7. Owned'
  BY <1>1, <1>2, <1>3, <1>5 DEF DescriptorInv, Owned, Active
<1>8. Registering'
  BY <1>1 DEF Registering
<1>9. Waiting'
  <2>1. ASSUME NEW i \in 1 .. Len(backlog)
        PROVE  backlog[i] \in Connections /\ backlog[i] # c
    BY <1>1 DEF DescriptorInv, Waiting
  <2>2. ASSUME NEW i \in 1 .. Len(backlog)
        PROVE  handler'[backlog[i]] = handler[backlog[i]]
    BY <1>3, <2>1
  <2>3. QED
    BY <1>1, <2>2 DEF DescriptorInv, Waiting
<1>10. QED
  BY <1>4, <1>6, <1>7, <1>8, <1>9 DEF DescriptorInv

(* send_ack leaves the descriptor of its thread alone. *)
LEMMA SendAckKeeps ==
  ASSUME DescriptorInv, NEW c \in Connections, SendAck(c)
  PROVE  DescriptorInv'
<1> DEFINE m == AfterSend(handler[c].sending, handler[c].fd)
           s == IF m.out = <<>> THEN "receive" ELSE "ack"
<1> HIDE DEF m
<1>1. /\ handler[c].step = "ack"
      /\ handler' = [handler EXCEPT ![c].sending = m, ![c].step = s]
      /\ UNCHANGED <<fds, acceptor, client_fd, backlog, link>>
  BY DEF SendAck, m
<1>2. s \in {"ack", "receive"}
  OBVIOUS
<1> HIDE DEF s
<1>3. /\ DOMAIN handler' = Connections
      /\ \A b \in Connections : DOMAIN handler'[b] = {"step", "fd", "sending"}
      /\ \A b \in Connections : b # c => handler'[b] = handler[b]
      /\ handler'[c].fd = handler[c].fd /\ handler'[c].step = s
  BY <1>1 DEF DescriptorInv, HandlerShape
<1>4. HandlerShape' /\ FdsShape' /\ LinkShape'
  BY <1>1, <1>3 DEF DescriptorInv, HandlerShape, FdsShape, LinkShape
<1>5. Owned'
  BY <1>1, <1>3 DEF DescriptorInv, Owned, Active
<1>6. Registering'
  BY <1>1, <1>3 DEF DescriptorInv, Registering
<1>7. Waiting'
  <2>1. ASSUME NEW i \in 1 .. Len(backlog)
        PROVE  handler'[backlog[i]] = handler[backlog[i]]
    BY <1>1, <1>3 DEF DescriptorInv, Waiting
  <2>2. /\ backlog' = backlog /\ acceptor' = acceptor /\ link' = link
        /\ Waiting
    BY <1>1 DEF DescriptorInv
  <2>3. QED
    BY <2>1, <2>2 DEF Waiting
<1>8. QED
  BY <1>4, <1>5, <1>6, <1>7 DEF DescriptorInv

(* The close at the end of handle_replica frees no descriptor of another   *)
(* handler, nor the one that is being registered.                          *)
LEMMA HandlerClosesKeeps ==
  ASSUME DescriptorInv, NEW c \in Connections, HandlerCloses(c)
  PROVE  DescriptorInv'
<1> DEFINE h == [NoHandler EXCEPT !.step = "done"]
           d == handler[c].fd
<1>1. /\ handler[c].step = "receive" /\ link[c] = "reset"
      /\ handler' = [handler EXCEPT ![c] = h]
      /\ fds' = [fds EXCEPT ![d] = 0]
      /\ UNCHANGED <<acceptor, client_fd, backlog, link>>
  BY DEF HandlerCloses, networkVars
<1>2. h.step = "done" /\ DOMAIN h = {"step", "fd", "sending"}
  BY DEF NoHandler
<1> HIDE DEF h
<1>3. d \in Descriptors /\ fds[d] = c
  BY <1>1 DEF DescriptorInv, Owned, Active
<1>4. /\ DOMAIN handler' = Connections /\ handler'[c] = h
      /\ \A b \in Connections : b # c => handler'[b] = handler[b]
  BY <1>1 DEF DescriptorInv, HandlerShape
<1>5. /\ fds' \in [Descriptors -> 0 .. MaxConns]
      /\ \A e \in Descriptors : e # d => fds'[e] = fds[e]
  <2> HIDE DEF d
  <2>1. fds \in [Descriptors -> 0 .. MaxConns] /\ 0 \in 0 .. MaxConns
    BY BoundNat DEF DescriptorInv, FdsShape
  <2>2. QED
    BY <1>1, <1>3, <2>1
<1>6. HandlerShape' /\ FdsShape' /\ LinkShape'
  <2>1. HandlerShape'
    BY <1>2, <1>4 DEF DescriptorInv, HandlerShape
  <2>2. LinkShape'
    BY <1>1, <1>4 DEF DescriptorInv, LinkShape
  <2>3. QED
    BY <1>5, <2>1, <2>2 DEF FdsShape
<1>7. Owned'
  <2> SUFFICES ASSUME NEW b \in Connections, Active(b)'
               PROVE  handler'[b].fd \in Descriptors /\ fds'[handler'[b].fd] = b
    BY DEF Owned
  <2>1. b # c
    BY <1>2, <1>4 DEF Active
  <2>2. handler'[b] = handler[b] /\ Active(b)
    BY <1>4, <2>1 DEF Active
  <2>3. handler[b].fd \in Descriptors /\ fds[handler[b].fd] = b
    BY <2>2 DEF DescriptorInv, Owned
  <2>4. QED
    BY <1>3, <1>5, <2>1, <2>2, <2>3
<1>8. Registering'
  BY <1>1, <1>3, <1>4, <1>5 DEF DescriptorInv, Registering
<1>9. Waiting'
  <2>1. ASSUME NEW i \in 1 .. Len(backlog)
        PROVE  handler'[backlog[i]] = handler[backlog[i]]
    BY <1>1, <1>4 DEF DescriptorInv, Waiting
  <2>2. QED
    BY <1>1, <2>1 DEF DescriptorInv, Waiting
<1>10. QED
  BY <1>6, <1>7, <1>8, <1>9 DEF DescriptorInv

(* A new connection waits for accept() and has no handler. *)
LEMMA ConnectKeeps ==
  ASSUME DescriptorInv, NEW r \in Replicas, NEW c \in Connections, Connect(r, c)
  PROVE  DescriptorInv'
<1>1. /\ link[c] = "none" /\ link' = [link EXCEPT ![c] = "up"]
      /\ backlog \in Seq(Connections) /\ backlog' = Append(backlog, c)
      /\ UNCHANGED <<fds, acceptor, client_fd, handler>>
  BY DEF DescriptorInv, Waiting, Connect, masterVars
<1>2. /\ DOMAIN link' = Connections /\ handler[c].step = "none"
      /\ \A b \in Connections : link'[b] = IF b = c THEN "up" ELSE link[b]
  BY <1>1 DEF DescriptorInv, LinkShape
<1>3. HandlerShape' /\ FdsShape' /\ LinkShape'
  BY <1>1, <1>2 DEF DescriptorInv, HandlerShape, FdsShape, LinkShape
<1>4. Owned'
  BY <1>1 DEF DescriptorInv, Owned, Active
<1>5. Registering'
  BY <1>1, <1>2 DEF DescriptorInv, Registering
<1>6. Waiting'
  <2>1. /\ backlog' \in Seq(Connections) /\ Len(backlog') = Len(backlog) + 1
        /\ Len(backlog) \in Nat
        /\ \A i \in 1 .. Len(backlog) : backlog'[i] = backlog[i]
        /\ backlog'[Len(backlog) + 1] = c
    BY <1>1, AppendProperties, LenProperties
  <2>2. c # 0 /\ (acceptor.step = "register" => c # acceptor.conn)
    BY <1>1, BoundNat DEF DescriptorInv, Registering, Connections
  <2>3. ASSUME NEW i \in 1 .. Len(backlog)
        PROVE  /\ backlog[i] \in Connections /\ backlog[i] # c
               /\ handler[backlog[i]].step = "none"
               /\ link'[backlog[i]] # "none"
               /\ acceptor.step = "register" => backlog[i] # acceptor.conn
    BY <1>1, <1>2 DEF DescriptorInv, Waiting
  <2>4. ASSUME NEW i \in 1 .. Len(backlog')
        PROVE  /\ handler'[backlog'[i]].step = "none"
               /\ link'[backlog'[i]] # "none"
               /\ acceptor'.step = "register" => backlog'[i] # acceptor'.conn
    <3>1. CASE i \in 1 .. Len(backlog)
      BY <1>1, <2>1, <2>3, <3>1
    <3>2. CASE i = Len(backlog) + 1
      BY <1>1, <1>2, <2>1, <2>2, <3>2
    <3>3. QED
      BY <2>1, <3>1, <3>2
  <2>5. ASSUME NEW i \in 1 .. Len(backlog'), NEW j \in 1 .. Len(backlog'),
               backlog'[i] = backlog'[j]
        PROVE  i = j
    <3>1. CASE i \in 1 .. Len(backlog) /\ j \in 1 .. Len(backlog)
      <4>1. backlog[i] = backlog[j]
        BY <2>1, <2>5, <3>1
      <4>2. QED
        BY <3>1, <4>1 DEF DescriptorInv, Waiting
    <3>2. CASE i \in 1 .. Len(backlog) /\ j = Len(backlog) + 1
      BY <2>1, <2>3, <2>5, <3>2
    <3>3. CASE i = Len(backlog) + 1 /\ j \in 1 .. Len(backlog)
      BY <2>1, <2>3, <2>5, <3>3
    <3>4. QED
      BY <2>1, <3>1, <3>2, <3>3
  <2>6. QED
    BY <2>1, <2>4, <2>5 DEF Waiting
<1>7. QED
  BY <1>3, <1>4, <1>5, <1>6 DEF DescriptorInv


-----------------------------------------------------------------------------
(* What the other steps leave alone. *)
LEMMA OthersKeep ==
  ASSUME DescriptorInv,
         \/ FileStep
         \/ \E p \in Appenders : AppendCommand(p) \/ ListenerStep(p) \/ ReadFails(p)
         \/ \E c \in Connections : Heartbeat(c)
         \/ \E r \in Replicas : Receive(r) \/ ReceiveEnds(r) \/ ReceiveSpins(r)
         \/ UNCHANGED allVars
  PROVE  DescriptorInv'
<1>1. UNCHANGED <<fds, acceptor, client_fd, handler, backlog, link>>
  <2>1. CASE FileStep
    BY <2>1 DEF FileStep, replicationVars, masterVars, networkVars
  <2>2. CASE \E p \in Appenders :
               AppendCommand(p) \/ ListenerStep(p) \/ ReadFails(p)
    BY <2>2, Zenon DEF AppendCommand, ListenerStep, CopyListeners, CallListener,
      ReadFrame, ReadEnds, SendCommand, ListenersDone, ReadFails, networkVars
  <2>3. CASE \E c \in Connections : Heartbeat(c)
    BY <2>3, Zenon DEF Heartbeat, masterVars
  <2>4. CASE \E r \in Replicas : Receive(r) \/ ReceiveEnds(r) \/ ReceiveSpins(r)
    BY <2>4, Zenon DEF Receive, ReceiveEnds, ReceiveSpins, masterVars, allVars,
      replicationVars, networkVars
  <2>5. CASE UNCHANGED allVars
    BY <2>5 DEF allVars, replicationVars, masterVars, networkVars
  <2>6. QED
    BY <2>1, <2>2, <2>3, <2>4, <2>5
<1>2. DOMAIN link = Connections
  BY DEF DescriptorInv, LinkShape
<1>3. QED
  BY <1>1, <1>2, KeepsDescriptors

(* A connection that breaks, or that its replica gives up, was made. *)
LEMMA BreaksKeep ==
  ASSUME DescriptorInv,
         \/ \E c \in Connections : Break(c)
         \/ \E r \in Replicas : ReceiveThrows(r)
  PROVE  DescriptorInv'
<1>1. /\ UNCHANGED <<fds, acceptor, client_fd, handler, backlog>>
      /\ \E c : \E v \in {"reset", "dead"} :
           link' = [link EXCEPT ![c] = IF @ = "up" THEN v ELSE @]
  <2>1. CASE \E c \in Connections : Break(c)
    <3>1. PICK c \in Connections : Break(c)
      BY <2>1
    <3>2. UNCHANGED <<fds, acceptor, client_fd, handler, backlog>>
      BY <3>1, Zenon DEF Break, masterVars
    <3>3. PICK v \in {"reset", "dead"} : link' = [link EXCEPT ![c] = v]
      BY <3>1, Zenon DEF Break
    <3>4. link[c] = "up"
      BY <3>1, Zenon DEF Break
    <3>5. link' = [link EXCEPT ![c] = IF @ = "up" THEN v ELSE @]
      BY <3>3, <3>4
    <3>6. QED
      BY <3>2, <3>5
  <2>2. CASE \E r \in Replicas : ReceiveThrows(r)
    BY <2>2, Zenon DEF ReceiveThrows, masterVars
  <2>3. QED
    BY <2>1, <2>2
<1>2. PICK c : \E v \in {"reset", "dead"} :
        link' = [link EXCEPT ![c] = IF @ = "up" THEN v ELSE @]
  BY <1>1
<1>3. DOMAIN link = Connections
  BY DEF DescriptorInv, LinkShape
<1>4. /\ DOMAIN link' = Connections
      /\ \A b \in Connections : (link'[b] = "none") <=> (link[b] = "none")
  BY <1>2, <1>3
<1>5. QED
  BY <1>1, <1>4, KeepsDescriptors

(* Every step of the two programs keeps the invariant. *)
LEMMA StepKeepsDescriptors ==
  DescriptorInv /\ [ReplicationNext]_allVars => DescriptorInv'
<1> SUFFICES ASSUME DescriptorInv, [ReplicationNext]_allVars
             PROVE  DescriptorInv'
  OBVIOUS
<1>1. CASE \E d \in Descriptors : AcceptClient(d)
  BY <1>1, AcceptKeeps
<1>2. CASE AcceptFails
  BY <1>2, AcceptFailsKeeps
<1>3. CASE Register
  BY <1>3, RegisterKeeps
<1>4. CASE \E c \in Connections : SendAck(c)
  BY <1>4, SendAckKeeps
<1>5. CASE \E c \in Connections : HandlerCloses(c)
  BY <1>5, HandlerClosesKeeps
<1>6. CASE \E r \in Replicas : \E c \in Connections : Connect(r, c)
  BY <1>6, ConnectKeeps
<1>7. CASE \/ \E c \in Connections : Break(c)
           \/ \E r \in Replicas : ReceiveThrows(r)
  BY <1>7, BreaksKeep
<1>8. CASE \/ FileStep
           \/ \E p \in Appenders :
                AppendCommand(p) \/ ListenerStep(p) \/ ReadFails(p)
           \/ \E c \in Connections : Heartbeat(c)
           \/ \E r \in Replicas : Receive(r) \/ ReceiveEnds(r) \/ ReceiveSpins(r)
           \/ UNCHANGED allVars
  BY <1>8, OthersKeep
<1>9. QED
  BY <1>1, <1>2, <1>3, <1>4, <1>5, <1>6, <1>7, <1>8, Zenon
    DEF ReplicationNext, HandlerStep, ReplicaStep

-----------------------------------------------------------------------------
(* For any number of replicas, descriptors and connections: the descriptor *)
(* that a thread of handle_replica took from startServer at its start, and *)
(* closes when recvFromSocket fails, is its own connection's all the time  *)
(* in between, though accept() gives closed descriptors to others.         *)
THEOREM HandlersOwn == ReplicationSpec => []HandlerOwnsDescriptor
<1>1. DescriptorInv => HandlerOwnsDescriptor
  BY DEF DescriptorInv, Owned, Active, HandlerOwnsDescriptor
<1>2. QED
  BY InitDescriptors, StepKeepsDescriptors, <1>1, PTL DEF ReplicationSpec
=================================================================================
