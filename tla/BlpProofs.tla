------------------------------ MODULE BlpProofs ------------------------------
(***************************************************************************)
(* Theorems about Blp: what holds of the Redis service and of the log      *)
(* through the starts, stops and deaths of the process, for any clients,   *)
(* keys, values, configuration files and bounds.                           *)
(***************************************************************************)
EXTENDS Blp, StoreProofs

(* What a client may take a key to hold. *)
Claims == Strings \cup {Unknown}

(* The types of what the handlers keep. *)
ServiceShape ==
  /\ session \in [Conns -> BOOLEAN] /\ DOMAIN reply = Conns
  /\ asked \in [Conns -> [Keys -> Claims]]
  /\ writers \in [Keys -> SUBSET Threads]

(* main stops the file after it has waited for the handlers; before that   *)
(* only a failed writev makes it refuse.                                   *)
Phases ==
  /\ ~aof_open => phase \in {"leave", "exit"} \/ failed
  /\ listening => phase \in {"role", "run"}
  /\ phase \notin {"role", "run", "join"} => \A c \in Conns : op[c].step = "idle"

(* The database holds the last command that was written to it, and a later *)
(* one of the log is under way, or a death came before its write.          *)
Kept == \A k \in Keys : Matches(k) /\ Covered(k, cut)

(* What the threads on a key have told of themselves: those that change it *)
(* are among its writers, and the client knows what it asked for.          *)
Counted(t) ==
  op[t].step \in {"read", "judge", "append", "write"} /\
  op[t].cmd \in {"SET", "DEL", "EXPIRE"} => t \in writers[op[t].key]
Intent(c) ==
  /\ op[c].step \in {"append", "write"} =>
       /\ op[c].cmd = "SET" => op[c].val = asked[c][op[c].key]
       /\ op[c].cmd = "DEL" => op[c].val = <<>> /\ asked[c][op[c].key] = <<>>
  /\ op[c].step \in {"read", "judge", "append", "write"} /\ op[c].cmd = "EXPIRE" =>
       asked[c][op[c].key] = Unknown

(* Client c may rely on what it asked for at k, and then finds it there,   *)
(* unless it is about to put it there, and reads it.                       *)
Alone(c, k) ==
  /\ db_faults = 0 /\ writers[k] \subseteq {c} /\ k \notin raced
  /\ asked[c][k] # Unknown /\ Len(asked[c][k]) <= 1
Tagged(v) == IF v = <<>> THEN <<>> ELSE Stored(v)
Faithful(c, k) ==
  Alone(c, k) =>
    /\ \/ op[c].step \in {"append", "write"} /\ op[c].key = k
       \/ db[k] = Tagged(asked[c][k])
    /\ op[c].step = "judge" /\ op[c].key = k /\ op[c].cmd = "GET" =>
         op[c].val = Tagged(asked[c][k])
    /\ op[c].step = "evict" => op[c].key # k
    /\ op[c].step = "return" /\ op[c].key = k /\ op[c].cmd = "GET" =>
         op[c].val = asked[c][k]
    /\ reply[c].to = "GET" /\ reply[c].kind # "error" /\ reply[c].key = k =>
         reply[c].val = asked[c][k]
Replied(c) ==
  reply[c].to = "GET" /\ reply[c].kind # "error" =>
    reply[c].key \in Keys /\ op[c].step = "idle"

Told == /\ \A t \in Threads : Counted(t)
        /\ \A c \in Conns : Intent(c) /\ Replied(c)
Reading ==
  db_faults \in Nat /\ Told /\ \A c \in Conns, k \in Keys : Faithful(c, k)

-----------------------------------------------------------------------------
(* Steps. *)

(* A handler whose tests passed calls the service. *)
BeginsWith(c, cmd, k, arg, says) ==
  /\ session[c] /\ Begin(c, cmd, k, arg)
  /\ cmd = "SET" => arg \in Values /\ says = arg
  /\ cmd = "DEL" => arg = <<>> /\ says = <<>>
  /\ cmd = "EXPIRE" => says = Unknown /\ \E s \in Int : arg = <<s>>
  /\ cmd \in {"GET", "TTL"} => says = asked[c][k]
  /\ writers' = IF cmd \in {"SET", "DEL", "EXPIRE"}
                THEN [writers EXCEPT ![k] = @ \cup {c}] ELSE writers
  /\ asked' = [asked EXCEPT ![c][k] = says]
  /\ reply' = [reply EXCEPT ![c] = NoReply]
  /\ UNCHANGED session
Begins(c) ==
  \E cmd \in Cmds, k \in Keys, arg \in Strings, says \in Claims :
    BeginsWith(c, cmd, k, arg, says)

(* A handler ends without a call of the service: AUTH, or a failed test. *)
Turned(c) ==
  /\ op[c].step = "idle" /\ UNCHANGED <<storeVars, asked, writers>>
  /\ session' \in [Conns -> BOOLEAN] /\ \A d \in Conns : session[d] => session'[d]
  /\ \E r : /\ r.to # "GET" /\ (session'[c] \/ r.kind = "error")
            /\ reply' = [reply EXCEPT ![c] = r]

(* A handler hands its command to the store or turns it down. *)
LEMMA HandleFacts ==
  ASSUME ServiceShape, NEW c \in Conns, NEW cmd \in Cmds, NEW k \in Keys,
         NEW arg \in Strings, NEW says \in Claims, NEW passes \in BOOLEAN,
         passes => session[c],
         cmd = "SET" => arg \in Values /\ says = arg,
         cmd = "DEL" => arg = <<>> /\ says = <<>>,
         cmd = "EXPIRE" => says = Unknown /\ \E s \in Int : arg = <<s>>,
         cmd \in {"GET", "TTL"} => says = asked[c][k],
         Handle(c, cmd, k, arg, says, passes)
  PROVE  Begins(c) \/ Turned(c)
<1>1. CASE passes
  <2>1. /\ Begin(c, cmd, k, arg) /\ session[c]
        /\ writers' = IF cmd \in {"SET", "DEL", "EXPIRE"}
                      THEN [writers EXCEPT ![k] = @ \cup {c}] ELSE writers
        /\ asked' = [asked EXCEPT ![c][k] = says]
        /\ reply' = [reply EXCEPT ![c] = NoReply] /\ UNCHANGED session
    BY <1>1, Zenon DEF Handle
  <2>2. Begins(c)
    BY <2>1 DEF Begins, BeginsWith
  <2>3. QED
    BY <2>2
<1>2. CASE ~passes
  <2>1. /\ op[c].step = "idle" /\ UNCHANGED <<storeVars, asked, writers, session>>
        /\ reply' = [reply EXCEPT ![c] = Error]
    BY <1>2, Zenon DEF Handle
  <2>2. Error.kind = "error" /\ Error.to # "GET"
    BY DEF Error
  <2>3. Turned(c)
    BY <2>1, <2>2 DEF Turned, ServiceShape
  <2>4. QED
    BY <2>3
<1>3. QED
  BY <1>1, <1>2

(* A client's step is one of four. *)
LEMMA ConnSteps ==
  ASSUME ServiceShape, NEW c \in Conns, ConnStep(c)
  PROVE  Begins(c) \/ Turned(c) \/ Answer(c) \/ Disconnect(c)
<1>1. ASSUME NEW right \in BOOLEAN, Auth(c, right) PROVE Turned(c)
  <2>1. /\ op[c].step = "idle" /\ UNCHANGED <<storeVars, asked, writers>>
        /\ session' = [session EXCEPT ![c] = session[c] \/ right]
    BY <1>1 DEF Auth
  <2>2. session' \in [Conns -> BOOLEAN] /\ \A d \in Conns : session[d] => session'[d]
    BY <2>1, Zenon DEF ServiceShape
  <2>3. \E r : /\ r.to # "GET" /\ (session'[c] \/ r.kind = "error")
               /\ reply' = [reply EXCEPT ![c] = r]
    <3>1. /\ [to |-> "AUTH", kind |-> "OK"].to # "GET"
          /\ Error.to # "GET" /\ Error.kind = "error"
      BY DEF Error
    <3>2. \/ right /\ reply' = [reply EXCEPT ![c] = [to |-> "AUTH", kind |-> "OK"]]
          \/ reply' = [reply EXCEPT ![c] = Error]
      BY <1>1 DEF Auth
    <3>3. right => session'[c]
      BY <2>1 DEF ServiceShape
    <3>4. QED
      BY <3>1, <3>2, <3>3
  <2>4. QED
    BY <2>1, <2>2, <2>3 DEF Turned
<1>2. ASSUME NEW w \in BOOLEAN
      PROVE  /\ (session[c] /\ w) \in BOOLEAN
             /\ (model = "master" /\ session[c] /\ w) \in BOOLEAN
  BY Zenon DEF ServiceShape
<1>3. <<>> \in Strings /\ <<>> \in Claims /\ Unknown \in Claims
      /\ \A k \in Keys : asked[c][k] \in Claims
  BY ShortStrings DEF Claims, ServiceShape
<1>4. ASSUME NEW k \in Keys, NEW w \in BOOLEAN, NEW v \in Values, SetCommand(c, k, v, w)
      PROVE  Begins(c) \/ Turned(c)
  <2>1. v \in Strings /\ v \in Claims
    BY ValueStrings DEF Claims
  <2>2. Handle(c, "SET", k, v, v, model = "master" /\ session[c] /\ w)
    BY <1>4 DEF SetCommand
  <2>3. QED
    BY <1>2, <2>1, <2>2, HandleFacts DEF Cmds
<1>5. ASSUME NEW k \in Keys, NEW w \in BOOLEAN, DelCommand(c, k, w)
      PROVE  Begins(c) \/ Turned(c)
  <2>1. Handle(c, "DEL", k, <<>>, <<>>, model = "master" /\ session[c] /\ w)
    BY <1>5 DEF DelCommand
  <2>2. QED
    BY <1>2, <1>3, <2>1, HandleFacts DEF Cmds
<1>6. ASSUME NEW k \in Keys, NEW w \in BOOLEAN, GetCommand(c, k, w) \/ TtlCommand(c, k, w)
      PROVE  Begins(c) \/ Turned(c)
  <2>1. \E cmd \in {"GET", "TTL"} : Handle(c, cmd, k, <<>>, asked[c][k], session[c] /\ w)
    BY <1>6 DEF GetCommand, TtlCommand
  <2>2. QED
    BY <1>2, <1>3, <2>1, HandleFacts DEF Cmds
<1>7. ASSUME NEW k \in Keys, NEW w \in BOOLEAN, NEW s \in Seconds, ExpireCommand(c, k, s, w)
      PROVE  Begins(c) \/ Turned(c)
  <2>1. s \in Int /\ <<s>> \in Strings
    BY StoreAssumption, IntTokens, ShortStrings
  <2>2. Handle(c, "EXPIRE", k, <<s>>, Unknown, session[c] /\ w)
    BY <1>7 DEF ExpireCommand
  <2>3. QED
    BY <1>2, <1>3, <2>1, <2>2, HandleFacts DEF Cmds
<1>8. QED
  BY <1>1, <1>4, <1>5, <1>6, <1>7 DEF ConnStep

(* The threads of the service. *)
LEMMA ThreadNames ==
  /\ Conns \subseteq Threads /\ Replicator \in Threads /\ Replicator \notin Conns
  /\ \A t \in Threads : t # Replicator => t \in Conns
BY ServiceAssumption

(* The replication thread applies a command of the master. *)
Applies ==
  \E cmd \in {"SET", "DEL"}, k \in Keys, arg \in Strings :
    /\ cmd = "SET" => arg \in Values
    /\ cmd = "DEL" => arg = <<>>
    /\ Begin(Replicator, cmd, k, arg)
    /\ writers' = [writers EXCEPT ![k] = @ \cup {Replicator}]

(* What the steps of the process are to the service and to the log. *)
Frame == UNCHANGED <<phase, listening, failed, cut>>
Quiet == (Refuses \/ UNCHANGED storeVars) /\ UNCHANGED <<session, reply, asked, writers, cut>>

ClientStep ==
  \E c \in Conns : /\ listening \/ op[c].step # "idle"
                   /\ Begins(c) \/ Turned(c) \/ Answer(c) \/ Disconnect(c)
ReplicaStep ==
  /\ Applies \/ (Finish(Replicator) /\ UNCHANGED writers)
  /\ UNCHANGED <<session, reply, asked>>
InnerStep ==
  /\ (\E t \in Threads : ThreadStep(t)) \/ CleanerStep \/ Tick
  /\ UNCHANGED <<session, reply, asked, writers>>

(* The replication thread does what ReplicaStep says of it. *)
LEMMA ReplicaSteps == ReplicatorStep => ReplicaStep
<1>1. ASSUME NEW k \in Keys, Apply("DEL", k, <<>>)
      PROVE  Applies /\ UNCHANGED <<session, reply, asked>>
  BY <1>1, ShortStrings DEF Apply, Applies
<1>2. ASSUME NEW k \in Keys, NEW v \in Values, Apply("SET", k, v)
      PROVE  Applies /\ UNCHANGED <<session, reply, asked>>
  BY <1>2, ValueStrings DEF Apply, Applies
<1>3. QED
  BY <1>1, <1>2 DEF ReplicatorStep, ReplicaStep

(* The cases of a step of the process. *)
LEMMA BlpSteps ==
  ASSUME ServiceShape, BlpNext \/ UNCHANGED blpVars
  PROVE  \/ Quiet
         \/ ClientStep /\ Frame
         \/ ReplicaStep /\ Frame
         \/ InnerStep /\ Frame
         \/ Perish
         \/ Restart
<1>1. CASE Working
  <2>1. CASE \E c \in Conns : (listening \/ op[c].step # "idle") /\ ConnStep(c)
    BY <1>1, <2>1, ConnSteps DEF Working, ClientStep, Frame, mainVars
  <2>2. CASE ReplicatorStep
    BY <1>1, <2>2, ReplicaSteps DEF Working, Frame, mainVars
  <2>3. CASE /\ (\E t \in Threads : ThreadStep(t)) \/ (opened /\ CleanerStep) \/ Tick
             /\ UNCHANGED <<model, session, reply, asked, writers>>
    BY <1>1, <2>3 DEF Working, InnerStep, Frame, mainVars
  <2>4. QED
    BY <1>1, <2>1, <2>2, <2>3 DEF Working
<1>2. CASE MainStep
  <2>1. CASE Leave
    BY <2>1 DEF Leave
  <2>2. CASE StopAof
    BY <2>2 DEF StopAof, Quiet, Refuses
  <2>3. CASE Quit \/ JoinServer
    BY <2>3 DEF Quit, JoinServer, serviceVars, Quiet
  <2>4. CASE \/ (\E f \in ConfigFiles : OpenConfig(f)) \/ NoConfig \/ ReadLine
             \/ ConfigRead \/ StartRole
             \/ \E s \in BOOLEAN : MakeAof(s) \/ OpenDb(s) \/ StartServer(s)
    <3>1. \E from, to, s : Boot(from, to, s)
      BY <2>4, Zenon DEF OpenConfig, NoConfig, ReadLine, ConfigRead, StartRole, MakeAof,
         OpenDb, StartServer
    <3>2. QED
      BY <3>1 DEF Boot, Quiet
  <2>5. QED
    BY <1>2, <2>1, <2>2, <2>3, <2>4 DEF MainStep
<1>3. CASE RunRole \/ WriterPersists \/ UNCHANGED blpVars
  BY <1>3 DEF RunRole, WriterPersists, Quiet, serviceVars, blpVars
<1>4. CASE WriterFails
  BY <1>4 DEF WriterFails, Quiet, Refuses
<1>5. CASE Kill \/ RoleFails
  BY <1>5 DEF Kill, RoleFails
<1>6. QED
  BY <1>1, <1>2, <1>3, <1>4, <1>5 DEF BlpNext

(* All but deaths and restarts are steps of LevelDBWrapper. *)
LEMMA OrdinaryAct ==
  ASSUME Quiet \/ ClientStep \/ ReplicaStep \/ InnerStep
  PROVE  StoreAct \/ UNCHANGED storeVars
<1>1. ASSUME NEW c \in Conns, Begins(c) PROVE CallStep(c)
  BY <1>1 DEF Begins, BeginsWith, CallStep
<1>2. ASSUME Applies PROVE CallStep(Replicator)
  BY <1>2 DEF Applies, CallStep, Cmds
<1>3. CASE Quiet
  BY <1>3 DEF Quiet, StoreAct
<1>4. CASE ClientStep
  BY <1>1, <1>4, ThreadNames DEF ClientStep, StoreAct, Turned, Answer, Disconnect
<1>5. CASE ReplicaStep
  BY <1>2, <1>5, ThreadNames DEF ReplicaStep, StoreAct
<1>6. CASE InnerStep
  BY <1>6 DEF InnerStep, StoreAct
<1>7. QED
  BY <1>3, <1>4, <1>5, <1>6

(* A death forgets every operation. *)
LEMMA PerishFacts ==
  ASSUME StoreShape, Perish
  PROVE  /\ StoreShape' /\ Carried' /\ AllGiven'
         /\ \A t \in Threads : op'[t].step = "idle"
         /\ UNCHANGED <<db, log, applied, aof_open, clock, raced, db_faults>>
<1>1. DbShape /\ LogShape /\ OpShape /\ ClockShape /\ CleanerShape
  BY DEF StoreShape
<1>2. /\ op' = [t \in Threads |-> Idle] /\ Idle.step = "idle"
      /\ cleaner' = [step |-> "sleep"] /\ snap' = [k \in Keys |-> <<>>] /\ todo' = {}
      /\ UNCHANGED <<db, log, applied, aof_open, clock, raced, db_faults>>
  BY DEF Perish, NoKeys, Idle
<1>3. LogShape' /\ OpShape'
  BY <1>1, <1>2 DEF LogShape, OpShape
<1>4. DbShape' /\ ClockShape' /\ CleanerShape'
  BY <1>1, <1>2, ShortStrings DEF DbShape, ClockShape, CleanerShape
<1>5. Carried' /\ AllGiven'
  BY <1>2 DEF Carried, AllGiven, Given
<1>6. QED
  BY <1>2, <1>3, <1>4, <1>5 DEF StoreShape

(* What a restart finds. *)
LEMMA RestartFacts ==
  ASSUME Restart
  PROVE  /\ UNCHANGED <<db, log, clock, op, cleanerVars, applied, raced, ops, db_faults>>
         /\ UNCHANGED <<session, reply, asked, writers, cut, listening, entries, pending>>
         /\ aof_open' /\ phase = "exit" /\ phase' = "config"
BY DEF Restart

(* The types of the store, and what its threads hold. *)
StoreSound == StoreShape /\ Carried /\ AllGiven

(* The steps of the process keep the invariant of the store. *)
LEMMA SoundStays ==
  ASSUME ServiceShape, StoreSound, BlpNext \/ UNCHANGED blpVars
  PROVE  StoreSound'
<1>1. CASE Quiet \/ ClientStep \/ ReplicaStep \/ InnerStep
  BY <1>1, OrdinaryAct, ActShape, ActCarried, ActGiven DEF StoreSound
<1>2. CASE Perish
  BY <1>2, PerishFacts DEF StoreSound
<1>3. CASE Restart
  <2>1. UNCHANGED <<db, log, clock, op, cleanerVars, applied, raced>>
    BY <1>3, RestartFacts
  <2>2. QED
    BY <2>1 DEF StoreSound, StoreShape, DbShape, LogShape, OpShape, ClockShape,
       CleanerShape, Carried, AllGiven, Given, Entry, cleanerVars
<1>4. QED
  BY <1>1, <1>2, <1>3, BlpSteps

-----------------------------------------------------------------------------
(* The service. *)

(* The call of a handler touches its own connection. *)
LEMMA BeginsFacts ==
  ASSUME ServiceShape, OpShape, NEW c \in Conns, Begins(c)
  PROVE  /\ ServiceShape'
         /\ session[c] /\ UNCHANGED session /\ op[c].step = "idle"
         /\ \A u \in Threads : u # c => op'[u] = op[u]
         /\ \A d \in Conns : d # c => reply'[d] = reply[d]
<1>1. PICK cmd \in Cmds, k \in Keys, arg \in Strings, says \in Claims :
        BeginsWith(c, cmd, k, arg, says)
  BY DEF Begins
<1>2. c \in Threads
  BY ThreadNames
<1>3. asked' \in [Conns -> [Keys -> Claims]] /\ writers' \in [Keys -> SUBSET Threads]
      /\ DOMAIN reply' = Conns /\ \A d \in Conns : d # c => reply'[d] = reply[d]
  BY <1>1, <1>2 DEF ServiceShape, BeginsWith
<1>4. session[c] /\ UNCHANGED session /\ Begin(c, cmd, k, arg)
      /\ (cmd = "EXPIRE" => arg[1] \in Int)
  BY <1>1 DEF BeginsWith
<1>5. ServiceShape'
  BY <1>3, <1>4 DEF ServiceShape
<1>6. /\ op[c].step = "idle" /\ \A u \in Threads : u # c => op'[u] = op[u]
  BY <1>2, <1>4, BeginShape DEF Begin
<1>7. QED
  BY <1>3, <1>4, <1>5, <1>6

(* The end of a command, and of a connection. *)
LEMMA AnswerFacts ==
  ASSUME ServiceShape, OpShape, NEW c \in Conns, Answer(c) \/ Disconnect(c)
  PROVE  /\ ServiceShape'
         /\ \A d \in Conns : session'[d] = session[d] \/ (d = c /\ op'[c].step = "idle")
         /\ \A u \in Threads : u # c => op'[u] = op[u]
         /\ op'[c].step = "idle"
         /\ \A d \in Conns : d # c => session'[d] = session[d] /\ reply'[d] = reply[d]
         /\ \/ UNCHANGED session /\ op[c].step # "idle"
            \/ reply'[c].kind = "none"
<1>1. c \in Threads /\ op \in [Threads -> {Idle} \cup Busy \cup Done] /\ Unknown \in Claims
      /\ Idle.step = "idle"
  BY ThreadNames DEF OpShape, Claims, Idle
<1>2. CASE Answer(c)
  <2>1. /\ op[c].step = "return" /\ op' = [op EXCEPT ![c] = Idle]
        /\ \/ asked' = [asked EXCEPT ![c][op[c].key] = Unknown]
           \/ asked' = asked
        /\ UNCHANGED <<session, writers>>
    BY <1>2 DEF Answer, Finish
  <2>2. DOMAIN reply' = Conns /\ \A d \in Conns : d # c => reply'[d] = reply[d]
    BY <1>2 DEF Answer, ServiceShape
  <2>3. op[c].key \in Keys
    BY <1>1, <2>1, StepKinds DEF Done
  <2>4. asked' \in [Conns -> [Keys -> Claims]]
    <3>1. \A k \in Keys : [asked EXCEPT ![c][k] = Unknown] \in [Conns -> [Keys -> Claims]]
      BY <1>1 DEF ServiceShape
    <3>2. QED
      BY <2>1, <2>3, <3>1 DEF ServiceShape
  <2>5. ServiceShape'
    BY <2>1, <2>2, <2>4 DEF ServiceShape
  <2>6. QED
    BY <1>1, <2>1, <2>2, <2>5
<1>3. CASE Disconnect(c)
  <2>1. /\ op[c].step = "idle" /\ UNCHANGED op /\ UNCHANGED writers
        /\ session' = [session EXCEPT ![c] = FALSE]
        /\ asked' = [asked EXCEPT ![c] = [k \in Keys |-> Unknown]]
        /\ reply' = [reply EXCEPT ![c] = NoReply]
    BY <1>3 DEF Disconnect, storeVars
  <2>2. session' \in [Conns -> BOOLEAN] /\ \A d \in Conns : d # c => session'[d] = session[d]
    BY <2>1 DEF ServiceShape
  <2>3. /\ asked' \in [Conns -> [Keys -> Claims]] /\ DOMAIN reply' = Conns
        /\ reply'[c].kind = "none" /\ \A d \in Conns : d # c => reply'[d] = reply[d]
    BY <1>1, <2>1 DEF ServiceShape, NoReply
  <2>4. ServiceShape'
    BY <2>1, <2>2, <2>3 DEF ServiceShape
  <2>5. QED
    BY <2>1, <2>2, <2>3, <2>4
<1>4. QED
  BY <1>2, <1>3

(* A command that is turned down. *)
LEMMA TurnedFacts ==
  ASSUME ServiceShape, NEW c \in Conns, Turned(c)
  PROVE  /\ ServiceShape'
         /\ \A d \in Conns : session[d] => session'[d]
         /\ UNCHANGED op /\ op[c].step = "idle"
         /\ session'[c] \/ reply'[c].kind = "error"
         /\ \A d \in Conns : d # c => reply'[d] = reply[d]
BY DEF Turned, ServiceShape, storeVars

(* A command that the replication thread applies. *)
LEMMA AppliesFacts ==
  ASSUME ServiceShape, OpShape, ReplicaStep
  PROVE  /\ ServiceShape'
         /\ UNCHANGED <<session, reply>>
         /\ \A u \in Threads : u # Replicator => op'[u] = op[u]
<1>1. CASE Applies
  <2>1. PICK cmd \in {"SET", "DEL"}, k \in Keys, arg \in Strings :
          /\ Begin(Replicator, cmd, k, arg)
          /\ writers' = [writers EXCEPT ![k] = @ \cup {Replicator}]
    BY <1>1 DEF Applies
  <2>2. \A u \in Threads : u # Replicator => op'[u] = op[u]
    BY <2>1, ThreadNames, BeginShape DEF Cmds
  <2>3. writers' \in [Keys -> SUBSET Threads]
    BY <2>1, ThreadNames DEF ServiceShape
  <2>4. QED
    BY <2>2, <2>3 DEF ServiceShape, ReplicaStep
<1>2. CASE Finish(Replicator) /\ UNCHANGED writers
  BY <1>2 DEF Finish, OpShape, ServiceShape, ReplicaStep
<1>3. QED
  BY <1>1, <1>2 DEF ReplicaStep

(* A step of LevelDBWrapper belongs to a thread that is in an operation. *)
LEMMA InnerFacts ==
  ASSUME StoreShape, InnerStep
  PROVE  /\ UNCHANGED <<session, reply, asked, writers>>
         /\ \A t \in Threads : op[t].step = "idle" => op'[t] = op[t]
<1>1. ASSUME NEW t \in Threads, ThreadStep(t)
      PROVE  op[t].step # "idle" /\ \A u \in Threads : u # t => op'[u] = op[u]
  <2>1. CASE Read(t) \/ JudgeGet(t) \/ JudgeTtl(t) \/ JudgeExpire(t)
    BY <2>1, QuietStep DEF Read, JudgeGet, JudgeTtl, JudgeExpire
  <2>2. CASE LogCommand(t)
    BY <2>2, LogCommandShape DEF LogCommand, StoreShape
  <2>3. CASE \E succeeds \in BOOLEAN : LazyRemove(t, succeeds) \/ Write(t, succeeds)
    BY <2>3, LazyRemoveFacts, WriteFacts
  <2>4. QED
    BY <1>1, <2>1, <2>2, <2>3 DEF ThreadStep
<1>2. CASE \E t \in Threads : ThreadStep(t)
  BY <1>1, <1>2 DEF InnerStep
<1>3. CASE CleanerStep \/ Tick
  BY <1>3, CleanerFacts DEF InnerStep, Tick
<1>4. QED
  BY <1>2, <1>3 DEF InnerStep

(* The handlers' own state keeps its types. *)
LEMMA ServiceShapeStays ==
  ASSUME ServiceShape, StoreSound, BlpNext \/ UNCHANGED blpVars
  PROVE  ServiceShape'
<1>1. OpShape /\ StoreShape
  BY DEF StoreSound, StoreShape
<1>2. CASE Quiet \/ Restart
  BY <1>2, RestartFacts DEF Quiet, ServiceShape
<1>3. CASE ClientStep /\ Frame
  BY <1>1, <1>3, BeginsFacts, AnswerFacts, TurnedFacts DEF ClientStep, Frame
<1>4. CASE ReplicaStep /\ Frame
  BY <1>1, <1>4, AppliesFacts DEF Frame
<1>5. CASE InnerStep /\ Frame
  BY <1>1, <1>5, InnerFacts DEF Frame, ServiceShape
<1>6. CASE Perish
  <2>1. /\ session' = [c \in Conns |-> FALSE]
        /\ reply' = [c \in Conns |-> NoReply] /\ UNCHANGED writers
        /\ asked' = [c \in Conns |-> [k \in Keys |->
                       IF op[c].step # "idle" /\ op[c].key = k THEN Unknown
                       ELSE asked[c][k]]]
    BY <1>6 DEF Perish
  <2>2. asked' \in [Conns -> [Keys -> Claims]]
    BY <2>1 DEF ServiceShape, Claims
  <2>3. QED
    BY <2>1, <2>2 DEF ServiceShape
<1>7. QED
  BY <1>2, <1>3, <1>4, <1>5, <1>6, BlpSteps

(* No handler does more than refuse a connection without a session. *)
LEMMA SessionStays ==
  ASSUME ServiceShape, StoreSound, SessionRequired, BlpNext \/ UNCHANGED blpVars
  PROVE  SessionRequired'
<1>1. OpShape /\ StoreShape /\ Conns \subseteq Threads /\ Replicator \notin Conns
  BY ThreadNames DEF StoreSound, StoreShape
<1>2. CASE Quiet \/ Restart
  BY <1>2, RestartFacts DEF Quiet, SessionRequired, storeVars, Refuses
<1>3. CASE ClientStep
  <2>1. PICK c \in Conns : Begins(c) \/ Turned(c) \/ Answer(c) \/ Disconnect(c)
    BY <1>3 DEF ClientStep
  <2>2. CASE Begins(c)
    BY <1>1, <2>2, BeginsFacts DEF SessionRequired
  <2>3. CASE Turned(c)
    BY <1>1, <2>3, TurnedFacts DEF SessionRequired
  <2>4. CASE Answer(c) \/ Disconnect(c)
    BY <1>1, <2>4, AnswerFacts DEF SessionRequired
  <2>5. QED
    BY <2>1, <2>2, <2>3, <2>4
<1>4. CASE ReplicaStep
  BY <1>1, <1>4, AppliesFacts DEF SessionRequired
<1>5. CASE InnerStep
  BY <1>1, <1>5, InnerFacts DEF SessionRequired
<1>6. CASE Perish
  <2>1. \A c \in Conns : reply'[c].kind = "none"
    BY <1>6 DEF Perish, NoReply
  <2>2. QED
    BY <1>1, <1>6, <2>1, PerishFacts DEF SessionRequired
<1>7. QED
  BY <1>2, <1>3, <1>4, <1>5, <1>6, BlpSteps

-----------------------------------------------------------------------------
(* Starting and stopping. *)

(* Boot leaves the handlers alone and goes on, or leaves. *)
LEMMA BootFacts ==
  ASSUME NEW from, NEW to, NEW succeeds \in BOOLEAN, Boot(from, to, succeeds)
  PROVE  /\ phase = from /\ UNCHANGED <<op, aof_open, failed>>
         /\ phase' = to \/ (phase' = "leave" /\ ~succeeds)
         /\ succeeds => phase' = to
BY DEF Boot, storeVars, fileVars

(* The steps of main. *)
LEMMA MainPhases ==
  ASSUME Phases, MainStep, ~Leave
  PROVE  Phases'
<1>1. ASSUME \/ \E f \in ConfigFiles : OpenConfig(f)
             \/ ReadLine \/ ConfigRead
      PROVE  Phases'
  <2>1. /\ \/ Boot("config", "load", TRUE) \/ Boot("load", "leave", TRUE)
           \/ Boot("load", "load", TRUE) \/ Boot("load", "aof", TRUE)
        /\ UNCHANGED listening
    BY <1>1, Zenon DEF OpenConfig, ReadLine, ConfigRead
  <2>2. /\ phase \in {"config", "load"} /\ phase' \in {"load", "leave", "aof"}
        /\ UNCHANGED <<op, aof_open, failed>>
    BY <2>1, BootFacts
  <2>3. QED
    BY <2>1, <2>2 DEF Phases
<1>2. CASE NoConfig
  <2>1. /\ phase = "config" /\ phase' = "leave" /\ UNCHANGED <<op, aof_open, failed, listening>>
    BY <1>2, BootFacts DEF NoConfig
  <2>2. QED
    BY <2>1 DEF Phases
<1>3. ASSUME NEW s \in BOOLEAN, MakeAof(s) \/ OpenDb(s) PROVE Phases'
  <2>1. /\ phase \in {"aof", "open"} /\ phase' \in {"open", "start", "leave"}
        /\ UNCHANGED <<op, aof_open, failed, listening>>
    BY <1>3, BootFacts DEF MakeAof, OpenDb
  <2>2. QED
    BY <2>1 DEF Phases
<1>4. ASSUME NEW s \in BOOLEAN, StartServer(s) PROVE Phases'
  <2>1. /\ phase = "start" /\ (phase' = "role" \/ (phase' = "leave" /\ ~s))
        /\ UNCHANGED <<op, aof_open, failed>> /\ listening' = s
    BY <1>4, BootFacts DEF StartServer
  <2>2. QED
    BY <2>1 DEF Phases
<1>5. CASE StartRole
  <2> DEFINE known == model \in {"master", "replicate"}
  <2>1. /\ Boot("role", IF known THEN "run" ELSE "join", TRUE) /\ listening' = known
    BY <1>5 DEF StartRole
  <2>2. phase = "role" /\ UNCHANGED <<op, aof_open, failed>> /\ phase' = IF known THEN "run" ELSE "join"
    BY <2>1, BootFacts
  <2> HIDE DEF known
  <2>3. (known /\ phase' = "run") \/ (~known /\ phase' = "join")
    BY <2>2
  <2>4. listening' => phase' = "run"
    BY <2>1, <2>3
  <2>5. phase' \in {"run", "join"}
    BY <2>3
  <2>6. QED
    BY <2>2, <2>4, <2>5 DEF Phases
<1>6. CASE Quit \/ JoinServer
  BY <1>6 DEF Quit, JoinServer, serviceVars, storeVars, fileVars, Phases
<1>7. CASE StopAof
  BY <1>7 DEF StopAof, fileVars, Phases
<1>8. QED
  BY <1>1, <1>2, <1>3, <1>4, <1>5, <1>6, <1>7 DEF MainStep

(* The file is open while a handler runs. *)
LEMMA PhasesStay ==
  ASSUME ServiceShape, StoreSound, Phases, BlpNext \/ UNCHANGED blpVars
  PROVE  Phases'
<1>1. /\ OpShape /\ StoreShape /\ Conns \subseteq Threads /\ Replicator \notin Conns
  BY ThreadNames DEF StoreSound, StoreShape
<1>2. CASE MainStep /\ ~Leave
  BY <1>2, MainPhases
<1>3. CASE RunRole \/ WriterPersists \/ UNCHANGED blpVars
  BY <1>3 DEF RunRole, WriterPersists, blpVars, fileVars, mainVars, serviceVars, storeVars, Phases
<1>4. CASE Perish
  <2>1. phase' = "exit" /\ listening' = FALSE
    BY <1>4 DEF Perish
  <2>2. QED
    BY <1>1, <1>4, <2>1, PerishFacts DEF Phases
<1>5. CASE Restart
  BY <1>5, RestartFacts DEF Phases
<1>6. ASSUME (ClientStep \/ ReplicaStep \/ InnerStep) /\ Frame PROVE UNCHANGED aof_open
  <2>1. ASSUME NEW t, NEW cmd, NEW k, NEW arg, Begin(t, cmd, k, arg) PROVE UNCHANGED aof_open
    BY <2>1 DEF Begin
  <2>2. CASE ClientStep
    <3>1. PICK c \in Conns : Begins(c) \/ Turned(c) \/ Answer(c) \/ Disconnect(c)
      BY <2>2 DEF ClientStep
    <3>2. CASE Begins(c)
      BY <2>1, <3>2 DEF Begins, BeginsWith
    <3>3. QED
      BY <3>1, <3>2 DEF Turned, Answer, Finish, Disconnect, storeVars
  <2>3. CASE ReplicaStep
    BY <2>1, <2>3 DEF ReplicaStep, Applies, Finish
  <2>4. CASE InnerStep
    <3>1. CASE CleanerStep \/ Tick
      BY <1>1, <3>1, CleanerFacts DEF Tick
    <3>2. CASE \E t \in Threads : ThreadStep(t)
      BY <3>2, Zenon DEF ThreadStep, Read, JudgeGet, JudgeTtl, JudgeExpire, LogCommand, LazyRemove,
         Write, Evict
    <3>3. QED
      BY <2>4, <3>1, <3>2 DEF InnerStep
  <2>5. QED
    BY <1>6, <2>2, <2>3, <2>4
<1>7. ASSUME (ClientStep \/ ReplicaStep \/ InnerStep) /\ Frame,
             phase \notin {"role", "run", "join"}, NEW c \in Conns
      PROVE  op'[c].step = "idle"
  <2>1. ~listening /\ op[c].step = "idle" /\ \A d \in Conns : op[d].step = "idle"
    BY <1>7 DEF Phases
  <2>2. ~ClientStep
    BY <2>1 DEF ClientStep
  <2>3. CASE ReplicaStep
    BY <1>1, <2>1, <2>3, AppliesFacts
  <2>4. CASE InnerStep
    BY <1>1, <2>1, <2>4, InnerFacts
  <2>5. QED
    BY <1>7, <2>2, <2>3, <2>4
<1>8. CASE (ClientStep \/ ReplicaStep \/ InnerStep) /\ Frame
  BY <1>6, <1>7, <1>8 DEF Phases, Frame
<1>9. CASE Working
  BY <1>8, <1>9, ConnSteps, ReplicaSteps DEF Working, ClientStep, InnerStep, Frame, mainVars
<1>10. CASE WriterFails
  BY <1>10 DEF WriterFails, mainVars, Phases
<1>11. QED
  BY <1>2, <1>3, <1>4, <1>5, <1>9, <1>10 DEF BlpNext, Kill, RoleFails, Leave

(* So a handler's append is refused only after a failure. *)
LEMMA LoggedStays ==
  ASSUME ServiceShape, StoreSound, Phases, ClientWritesLogged, BlpNext \/ UNCHANGED blpVars
  PROVE  ClientWritesLogged'
<1>1. /\ OpShape /\ LogShape /\ StoreShape /\ Conns \subseteq Threads /\ Replicator \notin Conns
      /\ Len(log) \in Nat
  BY ThreadNames, LenProperties DEF StoreSound, StoreShape, LogShape
<1>2. CASE Perish
  BY <1>1, <1>2, PerishFacts DEF ClientWritesLogged
<1>3. CASE Restart
  <2>1. UNCHANGED op /\ \A c \in Conns : op[c].step = "idle"
    BY <1>3, RestartFacts DEF Phases
  <2>2. QED
    BY <2>1 DEF ClientWritesLogged
<1>4. ASSUME StoreAct \/ UNCHANGED storeVars, failed => failed' PROVE ClientWritesLogged'
  <2>1. CASE SameWrites
    BY <1>1, <1>4, <2>1 DEF SameWrites, ClientWritesLogged
  <2>2. CASE \E t \in Threads : LogCommand(t)
    <3>1. PICK t \in Threads : LogCommand(t)
      BY <2>2
    <3>2. op[t].step = "append"
      BY <3>1 DEF LogCommand
    <3>3. t \in Conns => aof_open \/ failed
      BY <3>2 DEF Phases
    <3>4. aof_open => op'[t].at = Len(log) + 1
      BY <1>1, <3>1, LogCommandShape
    <3>5. \A u \in Threads : u # t => op'[u] = op[u]
      BY <1>1, <3>1, LogCommandShape
    <3>6. QED
      BY <1>1, <1>4, <3>3, <3>4, <3>5 DEF ClientWritesLogged
  <2>3. CASE \E t \in Threads, succeeds \in BOOLEAN : Write(t, succeeds)
    BY <1>1, <1>4, <2>3, WriteFacts DEF ClientWritesLogged
  <2>4. QED
    BY <1>1, <1>4, <2>1, <2>2, <2>3, StepCases
<1>5. CASE MainStep /\ ~Leave
  <2>1. ASSUME NEW from, NEW to, NEW b, Boot(from, to, b) PROVE UNCHANGED <<storeVars, failed>>
    BY <2>1 DEF Boot, fileVars
  <2>2. CASE StopAof
    BY <1>4, <2>2 DEF StopAof, fileVars, StoreAct, Refuses
  <2>3. CASE Quit \/ JoinServer
    BY <1>4, <2>3 DEF Quit, JoinServer, serviceVars, fileVars
  <2>4. CASE \E from, to, b : Boot(from, to, b)
    BY <1>4, <2>1, <2>4
  <2>5. QED
    BY <1>5, <2>2, <2>3, <2>4, Zenon DEF MainStep, OpenConfig, NoConfig, ReadLine, ConfigRead,
       StartRole, MakeAof, OpenDb, StartServer
<1>6. CASE Working
  <2>1. ClientStep \/ ReplicaStep \/ InnerStep
    BY <1>6, ConnSteps, ReplicaSteps DEF Working, ClientStep, InnerStep
  <2>2. QED
    BY <1>4, <1>6, <2>1, OrdinaryAct DEF Working
<1>7. CASE RunRole \/ WriterPersists \/ WriterFails \/ UNCHANGED blpVars
  <2>1. CASE RunRole \/ WriterPersists \/ UNCHANGED blpVars
    <3>1. UNCHANGED storeVars /\ UNCHANGED failed
      BY <2>1 DEF RunRole, WriterPersists, serviceVars, fileVars, blpVars
    <3>2. QED
      BY <1>4, <3>1
  <2>2. CASE WriterFails
    <3>1. Refuses /\ failed'
      BY <2>2 DEF WriterFails, Refuses
    <3>2. QED
      BY <1>4, <3>1 DEF StoreAct
  <2>3. QED
    BY <1>7, <2>1, <2>2
<1>8. QED
  BY <1>2, <1>3, <1>5, <1>6, <1>7 DEF BlpNext, Kill, RoleFails, Leave

-----------------------------------------------------------------------------
(* The log across deaths. *)

(* A death leaves the database alone, and cuts the writes under way. *)
LEMMA PerishKeeps ==
  ASSUME StoreShape, Kept, Perish
  PROVE  Kept'
<1>1. /\ UNCHANGED <<db, log, applied, clock, raced>>
      /\ cut' = cut \cup {op[t].at : t \in {u \in Threads : op[u].step = "write"}}
  BY PerishFacts DEF Perish
<1>2. ASSUME NEW k \in Keys PROVE Matches(k)'
  BY <1>1 DEF Kept, Matches, Holds
<1>3. ASSUME NEW k \in Keys PROVE Covered(k, cut)'
  BY <1>1 DEF Kept, Covered
<1>4. QED
  BY <1>2, <1>3 DEF Kept

(* Every step keeps log and database together. *)
LEMMA KeptStays ==
  ASSUME ServiceShape, StoreSound, Kept, BlpNext \/ UNCHANGED blpVars
  PROVE  Kept'
<1>1. StoreShape /\ Carried
  BY DEF StoreSound
<1>2. CASE Quiet \/ ((ClientStep \/ ReplicaStep \/ InnerStep) /\ Frame)
  <2>1. StoreAct \/ UNCHANGED storeVars
    BY <1>2, OrdinaryAct
  <2>2. UNCHANGED cut
    BY <1>2 DEF Quiet, Frame
  <2>3. ASSUME NEW k \in Keys PROVE Matches(k)' /\ Covered(k, cut)'
    <3>1. PICK cuts : cuts = cut
      OBVIOUS
    <3>2. Matches(k) /\ Covered(k, cuts)
      BY <3>1 DEF Kept
    <3>3. Matches(k)' /\ Covered(k, cuts)'
      BY <1>1, <2>1, <3>2, ActMatches
    <3>4. QED
      BY <2>2, <3>1, <3>3 DEF Covered
  <2>4. QED
    BY <2>3 DEF Kept
<1>3. CASE Perish
  BY <1>1, <1>3, PerishKeeps
<1>4. CASE Restart
  <2>1. UNCHANGED <<db, log, clock, op, applied, raced, cut>>
    BY <1>4, RestartFacts
  <2>2. QED
    BY <2>1 DEF Kept, Matches, Holds, Covered
<1>5. QED
  BY <1>2, <1>3, <1>4, BlpSteps

-----------------------------------------------------------------------------
(* The file. *)

Frames == [id : Nat, whole : BOOLEAN]

(* The frames, one by one and in a sequence. *)
LEMMA FrameFacts ==
  /\ \A f \in Frames : f.id \in Nat
  /\ \A n \in Nat, w \in BOOLEAN :
       [id |-> n, whole |-> w] \in Frames /\ [id |-> n, whole |-> w].id = n
  /\ \A e \in Seq(Frames) : \A i \in 1 .. Len(e) : e[i] \in Frames /\ e[i].id \in Nat
<1>1. \A f \in Frames : f.id \in Nat
  BY Zenon DEF Frames
<1>2. \A n \in Nat, w \in BOOLEAN :
        [id |-> n, whole |-> w] \in Frames /\ [id |-> n, whole |-> w].id = n
  BY Zenon DEF Frames
<1>3. \A e \in Seq(Frames) : \A i \in 1 .. Len(e) : e[i] \in Frames
  BY ElementOfSeq
<1>4. QED
  BY <1>1, <1>2, <1>3

(* The file e and what is pending, p, hold each command at most once, and  *)
(* in the order of the n commands of the log.                              *)
InOrder(e, p, n) ==
  /\ e \in Seq(Frames) /\ p \in Seq(Nat)
  /\ \A i \in 1 .. Len(e) : 1 <= e[i].id /\ e[i].id <= n
  /\ \A i \in 1 .. Len(p) : 1 <= p[i] /\ p[i] <= n
  /\ \A i, j \in 1 .. Len(e) : i < j => e[i].id < e[j].id
  /\ \A i, j \in 1 .. Len(p) : i < j => p[i] < p[j]
  /\ \A i \in 1 .. Len(e), j \in 1 .. Len(p) : e[i].id < p[j]
FileInOrder == InOrder(entries, pending, Len(log))

(* A command is accepted. *)
LEMMA AcceptOrder ==
  ASSUME NEW e, NEW p, NEW n \in Nat, InOrder(e, p, n)
  PROVE  InOrder(e, Append(p, n + 1), n + 1)
<1>1. /\ e \in Seq(Frames) /\ p \in Seq(Nat) /\ n + 1 \in Nat /\ Len(e) \in Nat /\ Len(p) \in Nat
  BY LenProperties DEF InOrder
<1>2. \A i \in 1 .. Len(e) : e[i].id \in Nat
  BY <1>1, FrameFacts
<1>3. \A i \in 1 .. Len(p) : p[i] \in Nat
  BY <1>1, ElementOfSeq
<1>4. PICK q : q = Append(p, n + 1)
  OBVIOUS
<1>5. /\ q \in Seq(Nat) /\ Len(q) = Len(p) + 1 /\ q[Len(p) + 1] = n + 1
      /\ \A i \in 1 .. Len(p) : q[i] = p[i]
  BY <1>1, <1>4, AppendProperties
<1>6. \A i \in 1 .. Len(q) : i \in 1 .. Len(p) \/ i = Len(p) + 1
  BY <1>1, <1>5
<1>7. \A i \in 1 .. Len(e) : 1 <= e[i].id /\ e[i].id <= n + 1 /\ e[i].id < n + 1
  BY <1>2 DEF InOrder
<1>8. ASSUME NEW i \in 1 .. Len(q) PROVE q[i] \in Nat /\ 1 <= q[i] /\ q[i] <= n + 1
  <2>1. CASE i \in 1 .. Len(p)
    <3>1. q[i] = p[i] /\ p[i] \in Nat /\ 1 <= p[i] /\ p[i] <= n
      BY <1>3, <1>5, <2>1 DEF InOrder
    <3>2. QED
      BY <3>1
  <2>2. CASE i = Len(p) + 1
    BY <1>5, <2>2
  <2>3. QED
    BY <1>6, <2>1, <2>2
<1>9. \A i, j \in 1 .. Len(q) : i < j => q[i] < q[j]
  <2>1. ASSUME NEW i \in 1 .. Len(q), NEW j \in 1 .. Len(q), i < j PROVE q[i] < q[j]
    <3>1. i \in 1 .. Len(p) /\ q[i] = p[i] /\ p[i] \in Nat /\ p[i] <= n
      BY <1>1, <1>3, <1>5, <2>1 DEF InOrder
    <3>2. CASE j \in 1 .. Len(p)
      BY <1>5, <2>1, <3>1, <3>2 DEF InOrder
    <3>3. CASE j = Len(p) + 1
      BY <1>5, <3>1, <3>3
    <3>4. QED
      BY <1>6, <3>2, <3>3
  <2>2. QED
    BY <2>1
<1>10. \A i \in 1 .. Len(e), j \in 1 .. Len(q) : e[i].id < q[j]
  <2>1. ASSUME NEW i \in 1 .. Len(e), NEW j \in 1 .. Len(q) PROVE e[i].id < q[j]
    <3>1. CASE j \in 1 .. Len(p)
      BY <1>5, <3>1 DEF InOrder
    <3>2. CASE j = Len(p) + 1
      BY <1>5, <1>7, <3>2
    <3>3. QED
      BY <1>6, <3>1, <3>2
  <2>2. QED
    BY <2>1
<1>11. InOrder(e, q, n + 1)
  BY <1>1, <1>5, <1>7, <1>8, <1>9, <1>10, Zenon DEF InOrder
<1>12. QED
  BY <1>4, <1>11

(* The oldest m pending commands are dropped, the first of them written    *)
(* whole, torn or not at all.                                              *)
LEMMA DropOrder ==
  ASSUME NEW e, NEW p, NEW n \in Nat, InOrder(e, p, n), NEW q \in Seq(Nat),
         NEW m \in Nat, m <= Len(p), Len(q) = Len(p) - m,
         \A i \in 1 .. Len(q) : q[i] = p[i + m]
  PROVE  /\ InOrder(e, q, n)
         /\ m > 0 => \A w \in BOOLEAN :
              InOrder(Append(e, [id |-> Head(p), whole |-> w]), q, n)
<1>1. /\ e \in Seq(Frames) /\ p \in Seq(Nat) /\ Len(e) \in Nat /\ Len(p) \in Nat /\ Len(q) \in Nat
  BY LenProperties DEF InOrder
<1>2. \A i \in 1 .. Len(e) : e[i].id \in Nat
  BY <1>1, FrameFacts
<1>3. \A i \in 1 .. Len(p) : p[i] \in Nat
  BY <1>1, ElementOfSeq
<1>4. \A i \in 1 .. Len(q) : i + m \in 1 .. Len(p) /\ q[i] = p[i + m]
  BY <1>1
<1>5. InOrder(e, q, n)
  <2>1. \A i \in 1 .. Len(q) : 1 <= q[i] /\ q[i] <= n
    BY <1>4 DEF InOrder
  <2>2. ASSUME NEW i \in 1 .. Len(q), NEW j \in 1 .. Len(q), i < j PROVE q[i] < q[j]
    <3>1. i + m < j + m
      BY <1>1, <2>2
    <3>2. QED
      BY <1>4, <3>1 DEF InOrder
  <2>3. \A i \in 1 .. Len(e), j \in 1 .. Len(q) : e[i].id < q[j]
    BY <1>4 DEF InOrder
  <2>4. QED
    BY <1>1, <2>1, <2>2, <2>3, Zenon DEF InOrder
<1>6. ASSUME m > 0, NEW w \in BOOLEAN
      PROVE  InOrder(Append(e, [id |-> Head(p), whole |-> w]), q, n)
  <2>1. 1 \in 1 .. Len(p) /\ Head(p) = p[1]
    BY <1>1, <1>6
  <2>2. PICK h \in Nat : h = Head(p) /\ h = p[1]
    BY <1>3, <2>1
  <2>3. PICK f \in Frames : f = [id |-> Head(p), whole |-> w] /\ f.id = h
    BY <2>2, FrameFacts
  <2>4. PICK d : d = Append(e, f)
    OBVIOUS
  <2>5. /\ d \in Seq(Frames) /\ Len(d) = Len(e) + 1 /\ d[Len(e) + 1] = f
        /\ \A i \in 1 .. Len(e) : d[i] = e[i]
    BY <1>1, <2>4, AppendProperties
  <2>6. \A i \in 1 .. Len(d) : i \in 1 .. Len(e) \/ (i = Len(e) + 1 /\ d[i].id = h)
    BY <1>1, <2>3, <2>5
  <2>7. ASSUME NEW i \in 1 .. Len(q) PROVE h < q[i]
    <3>1. i + m \in 1 .. Len(p) /\ 1 < i + m /\ q[i] = p[i + m]
      BY <1>1, <1>4, <1>6
    <3>2. p[1] < p[i + m]
      BY <2>1, <3>1 DEF InOrder
    <3>3. QED
      BY <2>2, <3>1, <3>2
  <2>8. 1 <= h /\ h <= n /\ \A i \in 1 .. Len(e) : e[i].id < h
    BY <2>1, <2>2 DEF InOrder
  <2>9. InOrder(d, q, n)
    <3>1. \A i \in 1 .. Len(d) : 1 <= d[i].id /\ d[i].id <= n
      BY <2>5, <2>6, <2>8 DEF InOrder
    <3>2. \A i, j \in 1 .. Len(d) : i < j => d[i].id < d[j].id
      <4>1. ASSUME NEW i \in 1 .. Len(d), NEW j \in 1 .. Len(d), i < j
            PROVE  d[i].id < d[j].id
        <5>1. i \in 1 .. Len(e)
          BY <1>1, <2>5, <4>1
        <5>2. CASE j \in 1 .. Len(e)
          BY <2>5, <4>1, <5>1, <5>2 DEF InOrder
        <5>3. CASE j = Len(e) + 1 /\ d[j].id = h
          BY <2>5, <2>8, <5>1, <5>3
        <5>4. QED
          BY <2>6, <5>2, <5>3
      <4>2. QED
        BY <4>1
    <3>3. \A i \in 1 .. Len(d), j \in 1 .. Len(q) : d[i].id < q[j]
      BY <1>5, <2>5, <2>6, <2>7 DEF InOrder
    <3>4. QED
      BY <1>5, <2>5, <3>1, <3>2, <3>3 DEF InOrder
  <2>10. QED
    BY <2>3, <2>4, <2>9
<1>7. QED
  BY <1>5, <1>6

(* The file loses its end, and the entry before that may be torn. *)
LEMMA CutOrder ==
  ASSUME NEW e, NEW n \in Nat, InOrder(e, <<>>, n), NEW m \in 0 .. Len(e),
         NEW d, \/ d = SubSeq(e, 1, m)
                \/ m > 0 /\ d = [SubSeq(e, 1, m) EXCEPT ![m] = [id |-> e[m].id, whole |-> FALSE]]
  PROVE  InOrder(d, <<>>, n)
<1>1. e \in Seq(Frames) /\ Len(e) \in Nat /\ m \in Nat /\ m <= Len(e)
  BY LenProperties DEF InOrder
<1>2. \A i \in 1 .. Len(e) : e[i] \in Frames /\ e[i].id \in Nat
  BY <1>1, FrameFacts
<1>3. PICK c : c = SubSeq(e, 1, m)
  OBVIOUS
<1>4. c \in Seq(Frames) /\ Len(c) = m /\ \A i \in 1 .. m : c[i] = e[i]
  <2>1. \A i \in 1 .. m : e[i] \in Frames
    BY <1>1, <1>2
  <2>2. /\ c \in Seq(Frames) /\ Len(c) = IF 1 <= m THEN m - 1 + 1 ELSE 0
        /\ \A i \in 1 .. m - 1 + 1 : c[i] = e[1 + i - 1]
    BY <1>1, <1>3, <2>1, SubSeqProperties
  <2>3. QED
    BY <1>1, <2>2
<1>5. d \in Seq(Frames) /\ Len(d) = m /\ \A i \in 1 .. m : d[i].id = e[i].id
  <2>1. CASE d = c
    BY <1>4, <2>1
  <2>2. CASE m > 0 /\ d = [c EXCEPT ![m] = [id |-> e[m].id, whole |-> FALSE]]
    <3>1. PICK f \in Frames : f = [id |-> e[m].id, whole |-> FALSE] /\ f.id = e[m].id
      <4>1. m > 0
        BY <2>2, Zenon
      <4>2. m \in 1 .. Len(e)
        BY <1>1, <4>1
      <4>3. QED
        BY <1>2, <4>2, FrameFacts, Zenon
    <3>2. m \in 1 .. Len(c) /\ d = [c EXCEPT ![m] = f]
      BY <1>1, <1>4, <2>2, <3>1
    <3>3. /\ d \in Seq(Frames) /\ Len(d) = Len(c)
          /\ \A j \in 1 .. Len(c) : d[j] = IF j = m THEN f ELSE c[j]
      BY <1>4, <3>2, ExceptSeq
    <3>4. QED
      BY <1>4, <3>1, <3>3
  <2>3. QED
    BY <1>3, <2>1, <2>2
<1>6. \A i \in 1 .. m : i \in 1 .. Len(e)
  BY <1>1
<1>7. QED
  BY <1>2, <1>5, <1>6 DEF InOrder

(* The steps of the writer. *)
LEMMA WriterOrder ==
  ASSUME FileInOrder, Len(log) \in Nat, UNCHANGED log, File!Persist \/ File!GiveUp
  PROVE  FileInOrder'
<1>1. entries \in Seq(Frames) /\ pending \in Seq(Nat) /\ Len(pending) \in Nat
      /\ InOrder(entries, pending, Len(log))
  BY LenProperties DEF FileInOrder, InOrder
<1>2. ASSUME NEW m \in Nat, m > 0, m <= Len(pending),
             pending' \in Seq(Nat), Len(pending') = Len(pending) - m,
             \A i \in 1 .. Len(pending') : pending'[i] = pending[i + m],
             \/ entries' = entries
             \/ \E w \in BOOLEAN : entries' = Append(entries, [id |-> Head(pending), whole |-> w])
      PROVE  FileInOrder'
  <2>1. PICK q \in Seq(Nat) : q = pending'
    BY <1>2
  <2>2. /\ InOrder(entries, q, Len(log))
        /\ \A w \in BOOLEAN :
             InOrder(Append(entries, [id |-> Head(pending), whole |-> w]), q, Len(log))
    BY <1>1, <1>2, <2>1, DropOrder
  <2>3. InOrder(entries', q, Len(log))
    BY <1>2, <2>2
  <2>4. QED
    BY <2>1, <2>3 DEF FileInOrder
<1>3. CASE File!Persist
  <2>1. /\ pending # <<>> /\ pending' = Tail(pending)
        /\ entries' = Append(entries, [id |-> Head(pending), whole |-> TRUE])
    BY <1>3 DEF File!Persist, File!Entry
  <2>2. /\ pending' \in Seq(Nat) /\ Len(pending') = Len(pending) - 1 /\ 1 <= Len(pending)
        /\ \A i \in 1 .. Len(pending') : pending'[i] = pending[i + 1]
    BY <1>1, <2>1, HeadTailProperties, EmptySeq
  <2>3. 1 \in Nat /\ 1 > 0
    OBVIOUS
  <2>4. QED
    BY <1>2, <2>1, <2>2, <2>3, Zenon
<1>4. CASE File!GiveUp
  <2>1. PICK m \in 1 .. Len(pending) : pending' = SubSeq(pending, m + 1, Len(pending))
    BY <1>4 DEF File!GiveUp
  <2>2. m \in Nat /\ m > 0 /\ m <= Len(pending) /\ m + 1 \in Int /\ Len(pending) \in Int
    BY <1>1, <2>1
  <2>3. \A i \in m + 1 .. Len(pending) : pending[i] \in Nat
    BY <1>1, <2>2, ElementOfSeq
  <2>4. /\ pending' \in Seq(Nat)
        /\ Len(pending') = IF m + 1 <= Len(pending) THEN Len(pending) - (m + 1) + 1 ELSE 0
        /\ \A i \in 1 .. Len(pending) - (m + 1) + 1 : pending'[i] = pending[m + 1 + i - 1]
    BY <2>1, <2>2, <2>3, SubSeqProperties
  <2>5. Len(pending') = Len(pending) - m
    BY <1>1, <2>2, <2>4
  <2>6. ASSUME NEW i \in 1 .. Len(pending') PROVE pending'[i] = pending[i + m]
    <3>1. i \in 1 .. Len(pending) - (m + 1) + 1 /\ m + 1 + i - 1 = i + m
      BY <1>1, <2>2, <2>5
    <3>2. QED
      BY <2>4, <3>1
  <2>7. \/ entries' = entries
        \/ entries' = Append(entries, [id |-> Head(pending), whole |-> FALSE])
    BY <1>4 DEF File!GiveUp, File!Entry
  <2>8. QED
    BY <1>2, <2>2, <2>4, <2>5, <2>6, <2>7
<1>5. QED
  BY <1>3, <1>4

(* The end of the process. *)
LEMMA EndOrder ==
  ASSUME FileInOrder, Len(log) \in Nat, UNCHANGED log,
         File!Perish \/ Abandon(FALSE) \/ Abandon(TRUE)
  PROVE  FileInOrder'
<1>1. entries \in Seq(Frames) /\ pending \in Seq(Nat) /\ Len(pending) \in Nat
      /\ Len(entries) \in Nat /\ InOrder(entries, pending, Len(log))
  BY LenProperties DEF FileInOrder, InOrder
<1>2. <<>> \in Seq(Nat) /\ Len(<<>>) = 0
  BY EmptySeq
<1>3. PICK q \in Seq(Nat) : q = <<>> /\ Len(q) = 0
  BY <1>2
<1>4. /\ InOrder(entries, q, Len(log))
      /\ Len(pending) > 0 => \A w \in BOOLEAN :
           InOrder(Append(entries, [id |-> Head(pending), whole |-> w]), q, Len(log))
  <2>1. Len(q) = Len(pending) - Len(pending) /\ Len(pending) <= Len(pending)
        /\ \A i \in 1 .. Len(q) : q[i] = pending[i + Len(pending)]
    BY <1>1, <1>3
  <2>2. QED
    BY <1>1, <2>1, DropOrder
<1>5. ASSUME pending' = <<>>, InOrder(entries', q, Len(log)) PROVE FileInOrder'
  BY <1>3, <1>5 DEF FileInOrder
<1>6. pending # <<>> => Len(pending) > 0
  BY <1>1, EmptySeq
<1>7. CASE Abandon(FALSE) \/ Abandon(TRUE)
  <2>1. /\ pending' = <<>>
        /\ \/ entries' = entries
           \/ pending # <<>> /\ entries' = Append(entries, [id |-> Head(pending), whole |-> FALSE])
    BY <1>7 DEF Abandon, File!Entry
  <2>2. QED
    BY <1>4, <1>5, <1>6, <2>1
<1>8. CASE File!Perish
  <2>1. /\ pending' = <<>>
        /\ \/ \E m \in 0 .. Len(entries) :
                \/ entries' = SubSeq(entries, 1, m)
                \/ m > 0 /\ entries' = [SubSeq(entries, 1, m) EXCEPT
                                          ![m] = [id |-> entries[m].id, whole |-> FALSE]]
           \/ pending # <<>> /\ entries' = Append(entries, [id |-> Head(pending), whole |-> FALSE])
    BY <1>8 DEF File!Perish, File!Entry
  <2>2. CASE pending # <<>> /\ entries' = Append(entries, [id |-> Head(pending), whole |-> FALSE])
    BY <1>4, <1>5, <1>6, <2>1, <2>2
  <2>3. ASSUME NEW m \in 0 .. Len(entries),
               \/ entries' = SubSeq(entries, 1, m)
               \/ m > 0 /\ entries' = [SubSeq(entries, 1, m) EXCEPT
                                         ![m] = [id |-> entries[m].id, whole |-> FALSE]]
        PROVE  FileInOrder'
    <3>1. InOrder(entries, <<>>, Len(log))
      BY <1>3, <1>4
    <3>2. PICK d : d = entries'
      OBVIOUS
    <3>3. InOrder(d, <<>>, Len(log))
      BY <2>3, <3>1, <3>2, CutOrder
    <3>4. QED
      BY <1>3, <1>5, <2>1, <3>2, <3>3
  <2>4. QED
    BY <2>1, <2>2, <2>3
<1>9. QED
  BY <1>7, <1>8

(* Every step keeps the file in order. *)
LEMMA OrderStays ==
  ASSUME ServiceShape, StoreSound, FileInOrder, failed \in BOOLEAN, BlpNext \/ UNCHANGED blpVars
  PROVE  FileInOrder'
<1>1. StoreShape /\ Len(log) \in Nat
  BY LenProperties DEF StoreSound, StoreShape, LogShape
<1>2. ASSUME UNCHANGED <<log, entries, pending>> PROVE FileInOrder'
  BY <1>2 DEF FileInOrder
<1>3. CASE Working
  <2>1. \/ pending' = Append(pending, Len(log) + 1) /\ Len(log') = Len(log) + 1 /\ UNCHANGED entries
        \/ UNCHANGED <<log, entries, pending>>
    BY <1>3 DEF Working, File!Accept
  <2>2. InOrder(entries, Append(pending, Len(log) + 1), Len(log) + 1)
    BY <1>1, AcceptOrder DEF FileInOrder
  <2>3. QED
    BY <1>2, <2>1, <2>2 DEF FileInOrder
<1>4. CASE MainStep /\ ~Leave
  <2>1. ASSUME NEW from, NEW to, NEW b, Boot(from, to, b)
        PROVE  UNCHANGED <<log, entries, pending>>
    BY <2>1 DEF Boot, fileVars, storeVars
  <2>2. CASE Quit \/ JoinServer \/ StopAof
    BY <1>2, <2>2 DEF Quit, JoinServer, StopAof, serviceVars, storeVars, fileVars
  <2>3. CASE \E from, to, b : Boot(from, to, b)
    BY <1>2, <2>1, <2>3
  <2>4. QED
    BY <1>4, <2>2, <2>3, Zenon DEF MainStep, OpenConfig, NoConfig, ReadLine, ConfigRead,
       StartRole, MakeAof, OpenDb, StartServer
<1>5. CASE WriterPersists \/ WriterFails
  <2>1. UNCHANGED log /\ (File!Persist \/ File!GiveUp)
    BY <1>5 DEF WriterPersists, WriterFails, serviceVars, storeVars
  <2>2. QED
    BY <1>1, <2>1, WriterOrder
<1>6. CASE Leave \/ RoleFails \/ Kill
  <2>1. Perish /\ (File!Perish \/ Abandon(FALSE) \/ Abandon(TRUE))
    BY <1>6 DEF Leave, RoleFails, Kill
  <2>2. UNCHANGED log
    BY <1>1, <2>1, PerishFacts
  <2>3. QED
    BY <1>1, <2>1, <2>2, EndOrder
<1>7. CASE RunRole \/ Restart \/ UNCHANGED blpVars
  BY <1>2, <1>7 DEF RunRole, Restart, serviceVars, storeVars, fileVars, blpVars
<1>8. QED
  BY <1>3, <1>4, <1>5, <1>6, <1>7 DEF BlpNext

(* What is known of the file beside its order. *)
FileShape == failed \in BOOLEAN /\ cut \subseteq 0 .. Len(log)

(* Every step keeps that. *)
LEMMA FileShapeStays ==
  ASSUME ServiceShape, StoreSound, FileShape, BlpNext \/ UNCHANGED blpVars
  PROVE  FileShape'
<1>1. StoreShape /\ OpShape /\ Carried /\ Len(log) \in Nat /\ \A n \in cut : n \in Nat /\ n <= Len(log)
  BY LenProperties DEF StoreSound, StoreShape, LogShape, FileShape
<1>2. failed' \in BOOLEAN
  <2>1. ASSUME NEW from, NEW to, NEW b, Boot(from, to, b) PROVE UNCHANGED failed
    BY <2>1 DEF Boot, fileVars
  <2>2. CASE \E from, to, b : Boot(from, to, b)
    BY <2>1, <2>2 DEF FileShape
  <2>3. CASE \/ Quit \/ JoinServer \/ StopAof \/ Working \/ RunRole \/ Restart \/ WriterPersists
             \/ WriterFails \/ Leave \/ RoleFails \/ Kill \/ UNCHANGED blpVars
    BY <2>3 DEF Quit, JoinServer, StopAof, Working, RunRole, Restart, WriterPersists, WriterFails,
       Leave, RoleFails, Kill, Perish, fileVars, blpVars, FileShape
  <2>4. QED
    BY <2>2, <2>3, Zenon DEF BlpNext, MainStep, OpenConfig, NoConfig, ReadLine, ConfigRead,
       StartRole, MakeAof, OpenDb, StartServer
<1>3. CASE Quiet \/ ((ClientStep \/ ReplicaStep \/ InnerStep) /\ Frame)
  <2>1. Len(log') >= Len(log) /\ Len(log') \in Nat
    BY <1>1, <1>3, OrdinaryAct, LogGrows
  <2>2. UNCHANGED cut
    BY <1>3 DEF Quiet, Frame
  <2>3. QED
    BY <1>1, <1>2, <2>1, <2>2 DEF FileShape
<1>4. CASE Perish
  <2>1. /\ UNCHANGED log
        /\ cut' = cut \cup {op[t].at : t \in {u \in Threads : op[u].step = "write"}}
    BY <1>1, <1>4, PerishFacts DEF Perish
  <2>2. \A t \in Threads : op[t].step = "write" => op[t].at \in Nat
    BY <1>1, StepKinds DEF Busy
  <2>3. \A t \in Threads : op[t].step = "write" => op[t].at <= Len(log)
    BY <1>1, <2>2 DEF Carried
  <2>4. ASSUME NEW n \in cut' PROVE n \in 0 .. Len(log)
    <3>1. CASE n \in cut
      BY <1>1, <3>1
    <3>2. CASE \E t \in Threads : op[t].step = "write" /\ n = op[t].at
      BY <1>1, <2>2, <2>3, <3>2
    <3>3. QED
      BY <2>1, <3>1, <3>2
  <2>5. cut' \subseteq 0 .. Len(log)
    BY <2>4, Zenon
  <2>6. QED
    BY <1>2, <2>1, <2>5, Zenon DEF FileShape
<1>5. CASE Restart
  BY <1>2, <1>5, RestartFacts DEF FileShape
<1>6. QED
  BY <1>3, <1>4, <1>5, BlpSteps

-----------------------------------------------------------------------------
(* The theorems, but for what a client reads. *)

(* The inductive invariant. *)
ProcessInv ==
  /\ StoreSound /\ ServiceShape /\ SessionRequired /\ Phases /\ ClientWritesLogged /\ Kept
  /\ FileShape /\ FileInOrder

(* The process before its first start. *)
LEMMA BlpInitHolds == ASSUME BlpInit PROVE ProcessInv
<1>1. /\ Init /\ phase = "config" /\ listening = FALSE
      /\ session = [c \in Conns |-> FALSE]
      /\ reply = [c \in Conns |-> NoReply]
      /\ asked = [c \in Conns |-> [k \in Keys |-> Unknown]]
      /\ writers = [k \in Keys |-> {}]
      /\ entries = <<>> /\ pending = <<>> /\ failed = FALSE /\ cut = {} /\ log = <<>>
  BY DEF BlpInit, Unread, Init
<1>2. StoreShape /\ Carried /\ AllGiven /\ Together
  BY <1>1, InitHolds
<1>3. Kept
  BY <1>1, <1>2 DEF Together, Kept
<1>4. op = [t \in Threads |-> Idle] /\ Idle.step = "idle" /\ aof_open
      /\ Conns \subseteq Threads
  BY <1>1, ThreadNames DEF Init, Idle
<1>5. SessionRequired /\ Phases /\ ClientWritesLogged
  BY <1>1, <1>4 DEF SessionRequired, Phases, ClientWritesLogged, NoReply
<1>6. ServiceShape
  BY <1>1 DEF ServiceShape, Claims
<1>7. FileShape /\ FileInOrder
  <2>1. <<>> \in Seq(Frames) /\ <<>> \in Seq(Nat) /\ Len(<<>>) = 0 /\ 1 .. 0 = {}
    BY EmptySeq
  <2>2. FileShape
    BY <1>1 DEF FileShape
  <2>3. InOrder(<<>>, <<>>, 0)
    BY <2>1, Zenon DEF InOrder
  <2>4. QED
    BY <1>1, <2>1, <2>2, <2>3 DEF FileInOrder
<1>8. QED
  BY <1>2, <1>3, <1>5, <1>6, <1>7 DEF ProcessInv, StoreSound

(* So the invariant holds all the time. *)
LEMMA BlpInvariance == BlpSpec => []ProcessInv
<1>1. BlpInit => ProcessInv
  BY BlpInitHolds
<1>2. ProcessInv /\ [BlpNext]_blpVars => ProcessInv'
  <2> SUFFICES ASSUME ProcessInv, BlpNext \/ UNCHANGED blpVars PROVE ProcessInv'
    OBVIOUS
  <2>1. failed \in BOOLEAN
    BY DEF ProcessInv, FileShape
  <2>2. QED
    BY <2>1, SoundStays, ServiceShapeStays, SessionStays, PhasesStay, LoggedStays, KeptStays,
       FileShapeStays, OrderStays DEF ProcessInv
<1>3. QED
  BY <1>1, <1>2, PTL DEF BlpSpec

(* Every handler but AUTH's has its own test for a session, and a session  *)
(* ends only between commands: for any connections, one without a session  *)
(* gets nothing but errors, and none of its commands reaches the store.    *)
THEOREM OnlyWithSession == BlpSpec => []SessionRequired
<1>1. ProcessInv => SessionRequired
  BY DEF ProcessInv
<1>2. QED
  BY <1>1, BlpInvariance, PTL

(* main stops the file only after brpc has waited for the handlers: the    *)
(* append of a client's command is refused only in a process in which a    *)
(* writev has failed.                                                      *)
THEOREM RefusedOnlyAfterFailure == BlpSpec => []ClientWritesLogged
<1>1. ProcessInv => ClientWritesLogged
  BY DEF ProcessInv
<1>2. QED
  BY <1>1, BlpInvariance, PTL

(* A key's last command in the readable part of the file is the one that   *)
(* the database was given last.                                            *)
LEMMA LastInFile ==
  ASSUME ProcessInv, NEW k \in Keys \ raced, ~Halfway(k), FileHas(k)
  PROVE  \/ db[k] = FileReplay(k)
         \/ db[k] = <<>> /\ Verdict(FileReplay(k), clock) = "expired"
<1> DEFINE a == applied[k]
           R == ReadableAbout(k)
<1>1. /\ StoreShape /\ Len(log) \in Nat /\ a \in Nat /\ InOrder(entries, pending, Len(log))
      /\ entries \in Seq(Frames) /\ DOMAIN entries = 1 .. Len(entries) /\ Len(entries) \in Nat
  BY LenProperties DEF ProcessInv, StoreSound, StoreShape, LogShape, FileInOrder, InOrder
<1>2. Holds(k, a) /\ Covered(k, cut)
  BY DEF ProcessInv, Kept, Matches
<1>3. \A i \in R : /\ i \in 1 .. Len(entries) /\ entries[i].id \in Nat
                   /\ 1 <= entries[i].id /\ entries[i].id <= Len(log)
                   /\ log[entries[i].id].key = k
  <2>1. \A i \in R : i \in 1 .. Len(entries) /\ log[entries[i].id].key = k
    BY <1>1 DEF ReadableAbout, Readable
  <2>2. QED
    BY <1>1, <2>1, FrameFacts DEF InOrder
<1>4. ASSUME NEW i \in R PROVE entries[i].id <= a
  <2>1. SUFFICES ASSUME ~(entries[i].id <= a) PROVE FALSE
    OBVIOUS
  <2>2. PICK n \in Nat : n = entries[i].id
    BY <1>3
  <2>3. n \in 1 .. Len(log) /\ log[n].key = k /\ n > a /\ n \notin cut
    BY <1>1, <1>3, <2>1, <2>2 DEF FileHas
  <2>4. QED
    BY <1>2, <2>3 DEF Covered, Halfway
<1>5. CASE a = 0
  <2>1. R = {}
    <3>1. ASSUME NEW i \in R PROVE FALSE
      BY <1>3, <1>4, <1>5
    <3>2. QED
      BY <3>1
  <2>2. FileReplay(k) = <<>>
    BY <2>1 DEF FileReplay
  <2>3. QED
    BY <1>2, <1>5, <2>2 DEF Holds
<1>6. CASE a > 0
  <2>1. PICK i \in R : entries[i].id = a
    BY <1>1, <1>6 DEF FileHas
  <2>2. ASSUME NEW j \in R PROVE j <= i
    <3>1. i \in 1 .. Len(entries) /\ j \in 1 .. Len(entries) /\ entries[j].id <= entries[i].id
          /\ entries[i].id \in Nat /\ entries[j].id \in Nat
      BY <1>3, <1>4, <2>1
    <3>2. i < j => entries[i].id < entries[j].id
      BY <1>1, <3>1 DEF InOrder
    <3>3. QED
      BY <1>1, <3>1, <3>2
  <2>3. \A j \in R : (\A l \in R : l <= j) => j = i
    BY <1>1, <1>3, <2>1, <2>2
  <2>4. (CHOOSE j \in R : \A l \in R : l <= j) = i
    BY <2>1, <2>2, <2>3
  <2>5. FileReplay(k) = Result(log[a])
    <3> DEFINE last == CHOOSE j \in ReadableAbout(k) : \A l \in ReadableAbout(k) : l <= j
    <3>1. FileReplay(k) = IF log[entries[last].id].cmd = "DEL" THEN <<>>
                          ELSE Stored(log[entries[last].id].val)
      BY <2>1 DEF FileReplay
    <3>2. last = i
      BY <2>4
    <3> HIDE DEF last, a, R
    <3>3. QED
      BY <2>1, <3>1, <3>2 DEF Result
  <2>6. QED
    BY <1>2, <1>6, <2>5 DEF Holds
<1>7. QED
  BY <1>1, <1>5, <1>6

(* Whatever frames the writer gives up, tears or leaves in its queue, and  *)
(* whatever deaths and restarts do, what can be read of the file replays   *)
(* to the database, for every key whose last written command is in it.     *)
THEOREM FileReplays == BlpSpec => []ReplayAfterRestart
<1>1. ProcessInv => ReplayAfterRestart
  BY LastInFile DEF ReplayAfterRestart
<1>2. QED
  BY <1>1, BlpInvariance, PTL

-----------------------------------------------------------------------------
(* What a client reads. *)

(* get takes off again the tag that put adds to a string without a tab,    *)
(* and never takes such a string for expired: -1 is the largest uint64.    *)
LEMMA TagRoundTrip ==
  ASSUME NEW v \in Strings, Len(v) <= 1, NEW now \in Int
  PROVE  /\ Tagged(v) \in Strings
         /\ v = <<>> => Tagged(v) = <<>> /\ Verdict(Tagged(v), now) = "absent"
         /\ v # <<>> => /\ Verdict(Tagged(v), now) = "persistent"
                        /\ Tagged(v) # <<>> /\ <<Tagged(v)[1]>> = v
<1>1. CASE v = <<>>
  <2>1. Tagged(v) = <<>>
    BY <1>1 DEF Tagged
  <2>2. QED
    BY <1>1, <2>1, ShortStrings, Verdicts
<1>2. CASE v # <<>>
  <2>1. Len(v) = 1
    <3>1. PICK n \in Nat : n = Len(v) /\ n # 0
      BY <1>2, FirstToken
    <3>2. n <= 1
      BY <3>1
    <3>3. n = 1
      BY <3>1, <3>2
    <3>4. QED
      BY <3>1, <3>3
  <2>2. PICK e \in Tokens : e = -1 /\ e \in Int
    BY IntTokens
  <2>3. v \in Seq(Tokens)
    BY DEF Strings
  <2>4. Tagged(v) = Append(v, e)
    BY <1>2, <2>2 DEF Tagged, Stored
  <2>5. /\ Append(v, e) \in Seq(Tokens) /\ Append(v, e) # <<>>
        /\ Len(Append(v, e)) = Len(v) + 1
        /\ \A i \in 1 .. Len(v) : Append(v, e)[i] = v[i]
        /\ Append(v, e)[Len(v) + 1] = e
    BY <2>3, AppendProperties
  <2>6. /\ Len(Tagged(v)) = 2 /\ Tagged(v)[2] = e /\ Tagged(v)[1] = v[1]
        /\ Tagged(v) \in Strings /\ Tagged(v) # <<>>
    <3>1. Len(v) + 1 = 2 /\ 1 \in 1 .. Len(v)
      BY <2>1
    <3>2. QED
      BY <2>4, <2>5, <3>1 DEF Strings
  <2>7. <<v[1]>> = v
    <3>1. v[1] \in Tokens
      BY <1>2, FirstToken
    <3>2. <<v[1]>> \in Seq(Tokens) /\ Len(<<v[1]>>) = 1 /\ <<v[1]>>[1] = v[1]
      BY <3>1
    <3>3. \A i \in 1 .. Len(v) : <<v[1]>>[i] = v[i]
      BY <2>1, <3>2
    <3>4. QED
      BY <2>1, <2>3, <3>2, <3>3, SeqEqual
  <2>8. Text(Tagged(v)) = e
    <3>1. e # Empty
      BY <2>2, StoreAssumption
    <3>2. \A i : i \in 2 .. Len(Tagged(v)) <=> i = 2
      BY <2>6
    <3>3. {i \in 2 .. Len(Tagged(v)) : Tagged(v)[i] # Empty} = {2}
      BY <2>6, <3>1, <3>2
    <3>4. (CHOOSE i \in {2} : \A j \in {2} : i <= j) = 2
      OBVIOUS
    <3>5. QED
      BY <2>6, <3>3, <3>4 DEF Text
  <2>9. Expiry(Tagged(v)) = Never /\ Parses(Tagged(v))
    <3>1. -1 % U64 = U64 - 1 /\ -1 \in -(U64 - 1) .. U64 - 1
      BY IntTokens
    <3>2. QED
      BY <2>2, <2>8, <3>1 DEF Expiry, Parses, Never
  <2>10. Verdict(Tagged(v), now) = "persistent"
    <3>1. Tagged(v) # <<>> /\ Len(Tagged(v)) # 1 /\ Len(Tagged(v)) > 1
      BY <2>6
    <3>2. QED
      BY <2>9, <3>1 DEF Verdict
  <2>11. QED
    BY <1>2, <2>6, <2>7, <2>10
<1>3. QED
  BY <1>1, <1>2

(* Failures of LevelDB are counted. *)
LEMMA FaultsGrow ==
  ASSUME StoreAct \/ UNCHANGED storeVars
  PROVE  db_faults' = db_faults \/ db_faults' = db_faults + 1
<1>1. ASSUME NEW k, NEW s \in BOOLEAN, Evict(k, s)
      PROVE  db_faults' = db_faults \/ db_faults' = db_faults + 1
  BY <1>1 DEF Evict, DbWrite
<1>2. ASSUME NEW t \in Threads, CallStep(t) \/ ThreadStep(t) \/ Finish(t)
      PROVE  db_faults' = db_faults \/ db_faults' = db_faults + 1
  <2>1. CASE CallStep(t)
    BY <2>1 DEF CallStep, Begin
  <2>2. CASE \E s \in BOOLEAN : LazyRemove(t, s)
    BY <1>1, <2>2 DEF LazyRemove
  <2>3. CASE \E s \in BOOLEAN : Write(t, s)
    BY <2>3 DEF Write, DbWrite
  <2>4. CASE Read(t)
    BY <2>4 DEF Read
  <2>5. CASE JudgeGet(t) \/ JudgeTtl(t) \/ JudgeExpire(t) \/ LogCommand(t) \/ Finish(t)
    BY <2>5 DEF JudgeGet, JudgeTtl, JudgeExpire, LogCommand, Finish
  <2>6. QED
    BY <1>2, <2>1, <2>2, <2>3, <2>4, <2>5 DEF ThreadStep
<1>3. CASE CleanerStep
  <2>1. CASE \E s \in BOOLEAN : CleanerEvict(s)
    BY <1>1, <2>1 DEF CleanerEvict
  <2>2. QED
    BY <1>3, <2>1 DEF CleanerStep, CleanerOpen, CleanerVisit, CleanerSleep
<1>4. QED
  BY <1>2, <1>3 DEF StoreAct, Tick, Refuses, storeVars

(* Who changes a key has been counted among its writers. *)
LEMMA WriterCounted ==
  ASSUME AllGiven, NEW t \in Threads, Counted(t), op[t].step \in {"append", "write"}
  PROVE  t \in writers[op[t].key]
BY DEF AllGiven, Given, Counted

(* A step that leaves client c alone, and at k changes at most what c has  *)
(* already given up.                                                       *)
LEMMA Bystander ==
  ASSUME Reading, NEW c \in Conns, NEW k \in Keys,
         op'[c] = op[c], reply'[c] = reply[c], asked'[c][k] = asked[c][k],
         writers[k] \subseteq writers'[k], db_faults' = 0 => db_faults = 0,
         Alone(c, k)' => k \notin raced,
         Alone(c, k)' /\ Alone(c, k) => \/ db'[k] = db[k]
                                        \/ op[c].step \in {"append", "write"} /\ op[c].key = k
  PROVE  Faithful(c, k)'
<1>1. Faithful(c, k)
  BY DEF Reading
<1>2. Alone(c, k)' => Alone(c, k)
  BY DEF Alone
<1>3. QED
  BY <1>1, <1>2 DEF Faithful

(* A thread keeps its command and key through an operation. *)
LEMMA ThreadFacts ==
  ASSUME StoreShape, NEW t \in Threads, ThreadStep(t)
  PROVE  /\ \A u \in Threads : u # t => op'[u] = op[u]
         /\ op'[t].key = op[t].key /\ op'[t].cmd = op[t].cmd /\ op[t].key \in Keys
         /\ op'[t].step \in {"append", "write"} =>
              \/ op[t].step = "append" /\ op'[t].val = op[t].val
              \/ op[t].step = "judge" /\ op[t].cmd = "EXPIRE"
         /\ op'[t].step = "judge" => op[t].step = "read"
         /\ op'[t].step \in {"judge", "evict", "append", "write", "return"}
<1>1. CASE Read(t) \/ JudgeGet(t) \/ JudgeTtl(t) \/ JudgeExpire(t)
  <2>1. (\A u \in Threads : u # t => op'[u] = op[u]) /\ Moves(t)
    BY <1>1, QuietStep
  <2>2. op[t].step \in {"read", "judge"}
    BY <1>1 DEF Read, JudgeGet, JudgeTtl, JudgeExpire
  <2>3. QED
    BY <2>1, <2>2 DEF Moves
<1>2. CASE LogCommand(t)
  <2>1. op[t].step = "append"
    BY <1>2 DEF LogCommand
  <2>2. /\ \A u \in Threads : u # t => op'[u] = op[u]
        /\ op[t] \in Busy /\ op'[t].step = "write"
        /\ op'[t].cmd = op[t].cmd /\ op'[t].key = op[t].key /\ op'[t].val = op[t].val
    BY <1>2, LogCommandShape DEF StoreShape
  <2>3. op[t].key \in Keys
    BY <2>2 DEF Busy
  <2>4. QED
    BY <2>1, <2>2, <2>3
<1>3. CASE \E s \in BOOLEAN : LazyRemove(t, s)
  BY <1>3, LazyRemoveFacts
<1>4. CASE \E s \in BOOLEAN : Write(t, s)
  BY <1>4, WriteFacts
<1>5. QED
  BY <1>1, <1>2, <1>3, <1>4 DEF ThreadStep

(* What the threads have told of themselves stays true. *)
LEMMA BeginsTells ==
  ASSUME ServiceShape, StoreSound, Told, NEW c \in Conns, Begins(c)
  PROVE  Told'
<1>1. PICK cmd \in Cmds, k \in Keys, arg \in Strings, says \in Claims :
        BeginsWith(c, cmd, k, arg, says)
  BY DEF Begins
<1>2. /\ Begin(c, cmd, k, arg) /\ (cmd = "EXPIRE" => arg[1] \in Int)
      /\ cmd = "SET" => says = arg
      /\ cmd = "DEL" => says = <<>>
      /\ cmd = "EXPIRE" => says = Unknown
      /\ writers' = IF cmd \in {"SET", "DEL", "EXPIRE"}
                    THEN [writers EXCEPT ![k] = @ \cup {c}] ELSE writers
      /\ asked' = [asked EXCEPT ![c][k] = says]
      /\ reply' = [reply EXCEPT ![c] = NoReply]
  BY <1>1 DEF BeginsWith
<1>3. c \in Threads /\ Conns \subseteq Threads /\ OpShape
  BY ThreadNames DEF StoreSound, StoreShape
<1>4. /\ \A u \in Threads : u # c => op'[u] = op[u]
      /\ op'[c].step = IF cmd \in {"SET", "DEL"} THEN "append" ELSE "read"
      /\ op'[c].cmd = cmd /\ op'[c].key = k
      /\ op'[c].val = IF cmd = "SET" THEN arg ELSE <<>>
  BY <1>2, <1>3, BeginShape
<1>5. /\ asked'[c][k] = says /\ \A d \in Conns : d # c => asked'[d] = asked[d]
      /\ reply'[c] = NoReply /\ \A d \in Conns : d # c => reply'[d] = reply[d]
      /\ \A j \in Keys : writers[j] \subseteq writers'[j]
      /\ cmd \in {"SET", "DEL", "EXPIRE"} => c \in writers'[k]
  BY <1>2 DEF ServiceShape
<1>6. Counted(c)' /\ Intent(c)'
  BY <1>2, <1>4, <1>5 DEF Counted, Intent
<1>7. Replied(c)'
  BY <1>5 DEF Replied, NoReply
<1>8. ASSUME NEW u \in Threads, u # c PROVE Counted(u)'
  <2>1. Counted(u) /\ op'[u] = op[u]
    BY <1>4, <1>8 DEF Told
  <2>2. op[u].step \in {"read", "judge", "append", "write"} => op[u].key \in Keys
    BY <1>3, StepKinds DEF Busy
  <2>3. QED
    BY <1>5, <2>1, <2>2 DEF Counted
<1>9. ASSUME NEW d \in Conns, d # c PROVE Intent(d)' /\ Replied(d)'
  <2>1. Intent(d) /\ Replied(d) /\ op'[d] = op[d] /\ asked'[d] = asked[d] /\ reply'[d] = reply[d]
    BY <1>3, <1>4, <1>5, <1>9 DEF Told
  <2>2. QED
    BY <2>1 DEF Intent, Replied
<1>10. QED
  BY <1>6, <1>7, <1>8, <1>9 DEF Told

(* An answer tells a client no more than it asked for. *)
LEMMA AnswerTells ==
  ASSUME ServiceShape, StoreSound, Told, NEW c \in Conns,
         Answer(c) \/ Disconnect(c) \/ Turned(c)
  PROVE  Told'
<1>1. c \in Threads /\ Conns \subseteq Threads /\ OpShape
  BY ThreadNames DEF StoreSound, StoreShape
<1>2. /\ \A u \in Threads : u # c => op'[u] = op[u]
      /\ op'[c].step = "idle" /\ UNCHANGED writers
      /\ \A d \in Conns : d # c => asked'[d] = asked[d] /\ reply'[d] = reply[d]
  <2>1. CASE Turned(c)
    BY <2>1 DEF Turned, storeVars, ServiceShape
  <2>2. CASE Answer(c)
    BY <1>1, <2>2 DEF Answer, Finish, Idle, OpShape, ServiceShape
  <2>3. CASE Disconnect(c)
    BY <2>3 DEF Disconnect, storeVars, ServiceShape
  <2>4. QED
    BY <2>1, <2>2, <2>3
<1>3. Replied(c)'
  <2>1. CASE Turned(c)
    BY <1>2, <2>1 DEF Turned, Replied, ServiceShape
  <2>2. CASE Answer(c)
    <3>1. op[c].step = "return" /\ reply'[c].key = op[c].key
      BY <2>2 DEF Answer, Finish, ServiceShape
    <3>2. op[c].key \in Keys
      BY <1>1, <3>1, StepKinds DEF Done
    <3>3. QED
      BY <1>2, <3>1, <3>2 DEF Replied
  <2>3. CASE Disconnect(c)
    BY <2>3 DEF Disconnect, Replied, NoReply, ServiceShape
  <2>4. QED
    BY <2>1, <2>2, <2>3
<1>4. Counted(c)' /\ Intent(c)'
  BY <1>2 DEF Counted, Intent
<1>5. ASSUME NEW u \in Threads, u # c PROVE Counted(u)'
  BY <1>2, <1>5 DEF Told, Counted
<1>6. ASSUME NEW d \in Conns, d # c PROVE Intent(d)' /\ Replied(d)'
  <2>1. Intent(d) /\ Replied(d) /\ op'[d] = op[d] /\ asked'[d] = asked[d] /\ reply'[d] = reply[d]
    BY <1>1, <1>2, <1>6 DEF Told
  <2>2. QED
    BY <2>1 DEF Intent, Replied
<1>7. QED
  BY <1>3, <1>4, <1>5, <1>6 DEF Told

(* The replication thread makes a key somebody else's too. *)
LEMMA ReplicaTells ==
  ASSUME ServiceShape, StoreSound, Told, ReplicaStep
  PROVE  Told'
<1>1. Replicator \in Threads /\ Conns \subseteq Threads /\ Replicator \notin Conns /\ OpShape
  BY ThreadNames DEF StoreSound, StoreShape
<1>2. UNCHANGED <<asked, reply>> /\ \A u \in Threads : u # Replicator => op'[u] = op[u]
  BY <1>1, AppliesFacts DEF ReplicaStep
<1>3. Counted(Replicator)' /\ \A j \in Keys : writers[j] \subseteq writers'[j]
  <2>1. CASE Applies
    <3>1. PICK cmd \in {"SET", "DEL"}, k \in Keys, arg \in Strings :
            /\ Begin(Replicator, cmd, k, arg)
            /\ writers' = [writers EXCEPT ![k] = @ \cup {Replicator}]
      BY <2>1 DEF Applies
    <3>2. op'[Replicator].key = k
      BY <1>1, <3>1, BeginShape DEF Cmds
    <3>3. QED
      BY <3>1, <3>2 DEF Counted, ServiceShape
  <2>2. CASE Finish(Replicator) /\ UNCHANGED writers
    BY <1>1, <2>2 DEF Finish, Idle, OpShape, Counted
  <2>3. QED
    BY <2>1, <2>2 DEF ReplicaStep
<1>4. ASSUME NEW u \in Threads, u # Replicator PROVE Counted(u)'
  <2>1. Counted(u) /\ op'[u] = op[u]
    BY <1>2, <1>4 DEF Told
  <2>2. op[u].step \in {"read", "judge", "append", "write"} => op[u].key \in Keys
    BY <1>1, StepKinds DEF Busy
  <2>3. QED
    BY <1>3, <2>1, <2>2 DEF Counted
<1>5. ASSUME NEW d \in Conns PROVE Intent(d)' /\ Replied(d)'
  <2>1. Intent(d) /\ Replied(d) /\ op'[d] = op[d]
    BY <1>1, <1>2 DEF Told
  <2>2. QED
    BY <1>2, <2>1 DEF Intent, Replied
<1>6. QED
  BY <1>3, <1>4, <1>5 DEF Told

(* The steps inside the store answer nobody. *)
LEMMA InnerTells ==
  ASSUME StoreSound, Told, InnerStep
  PROVE  Told'
<1>1. UNCHANGED <<asked, reply, writers>> /\ StoreShape
  BY DEF InnerStep, StoreSound
<1>2. CASE CleanerStep \/ Tick
  <2>1. UNCHANGED op
    BY <1>1, <1>2, CleanerFacts DEF Tick
  <2>2. QED
    BY <1>1, <2>1 DEF Told, Counted, Intent, Replied
<1>3. CASE \E t \in Threads : ThreadStep(t)
  <2>1. PICK t \in Threads : ThreadStep(t)
    BY <1>3
  <2>2. /\ \A u \in Threads : u # t => op'[u] = op[u]
        /\ op'[t].key = op[t].key /\ op'[t].cmd = op[t].cmd /\ op[t].key \in Keys
        /\ op'[t].step \in {"append", "write"} =>
             \/ op[t].step = "append" /\ op'[t].val = op[t].val
             \/ op[t].step = "judge" /\ op[t].cmd = "EXPIRE"
        /\ op'[t].step = "judge" => op[t].step = "read"
        /\ op'[t].step \in {"judge", "evict", "append", "write", "return"}
    BY <1>1, <2>1, ThreadFacts
  <2>3. Counted(t)'
    BY <1>1, <2>2 DEF Told, Counted
  <2>4. t \in Conns => Intent(t)'
    BY <1>1, <2>2 DEF Told, Intent
  <2>5. t \in Conns => Replied(t)'
    <3>1. op[t].step # "idle"
      BY <1>1, <2>1 DEF ThreadStep, Read, JudgeGet, JudgeTtl, JudgeExpire, LogCommand, LazyRemove, Write
    <3>2. QED
      BY <1>1, <3>1 DEF Told, Replied
  <2>6. \A u \in Threads : u # t => Counted(u)'
    BY <1>1, <2>2 DEF Told, Counted
  <2>7. ASSUME NEW d \in Conns, d # t PROVE Intent(d)' /\ Replied(d)'
    <3>1. d \in Threads /\ op'[d] = op[d]
      BY <2>2, <2>7, ThreadNames
    <3>2. QED
      BY <1>1, <3>1 DEF Told, Intent, Replied
  <2>8. QED
    BY <2>3, <2>4, <2>5, <2>6, <2>7 DEF Told
<1>4. QED
  BY <1>2, <1>3 DEF InnerStep

(* Every step keeps what the clients were told. *)
LEMMA ToldStays ==
  ASSUME ServiceShape, StoreSound, Told, BlpNext \/ UNCHANGED blpVars
  PROVE  Told'
<1>1. CASE Quiet \/ Restart
  <2>1. UNCHANGED <<op, asked, reply, writers>>
    BY <1>1, RestartFacts DEF Quiet, Refuses, storeVars
  <2>2. QED
    BY <2>1 DEF Told, Counted, Intent, Replied
<1>2. CASE ClientStep
  BY <1>2, BeginsTells, AnswerTells DEF ClientStep
<1>3. CASE ReplicaStep
  BY <1>3, ReplicaTells
<1>4. CASE InnerStep
  BY <1>4, InnerTells
<1>5. CASE Perish
  <2>1. \A t \in Threads : op'[t].step = "idle"
    BY <1>5, PerishFacts DEF StoreSound
  <2>2. \A c \in Conns : reply'[c].to = "none"
    BY <1>5 DEF Perish, NoReply
  <2>3. QED
    BY <2>1, <2>2, ThreadNames DEF Told, Counted, Intent, Replied
<1>6. QED
  BY <1>1, <1>2, <1>3, <1>4, <1>5, BlpSteps

(* The steps of the client itself, between its commands. *)
LEMMA BeginsFaithful ==
  ASSUME ServiceShape, StoreSound, Reading, NEW c \in Conns, NEW k \in Keys, Begins(c)
  PROVE  Faithful(c, k)'
<1>1. PICK cmd \in Cmds, j \in Keys, arg \in Strings, says \in Claims :
        BeginsWith(c, cmd, j, arg, says)
  BY DEF Begins
<1>2. /\ Begin(c, cmd, j, arg) /\ (cmd = "EXPIRE" => arg[1] \in Int)
      /\ cmd = "EXPIRE" => says = Unknown
      /\ cmd \in {"GET", "TTL"} => says = asked[c][j]
      /\ writers' = IF cmd \in {"SET", "DEL", "EXPIRE"}
                    THEN [writers EXCEPT ![j] = @ \cup {c}] ELSE writers
      /\ asked' = [asked EXCEPT ![c][j] = says]
      /\ reply' = [reply EXCEPT ![c] = NoReply]
  BY <1>1 DEF BeginsWith
<1>3. c \in Threads /\ OpShape
  BY ThreadNames DEF StoreSound, StoreShape
<1>4. /\ op'[c].step = IF cmd \in {"SET", "DEL"} THEN "append" ELSE "read"
      /\ op'[c].cmd = cmd /\ op'[c].key = j
      /\ op[c].step = "idle" /\ UNCHANGED <<db, raced, db_faults>>
  <2>1. op[c].step = "idle" /\ UNCHANGED <<db, raced, db_faults>>
    BY <1>2 DEF Begin
  <2>2. QED
    BY <1>2, <1>3, <2>1, BeginShape
<1>5. /\ asked'[c][j] = says /\ (k # j => asked'[c][k] = asked[c][k])
      /\ reply'[c].to = "none" /\ writers[k] \subseteq writers'[k]
  BY <1>2 DEF ServiceShape, NoReply
<1>6. CASE k # j \/ cmd \in {"GET", "TTL"}
  <2>1. asked'[c][k] = asked[c][k]
    BY <1>2, <1>5, <1>6
  <2>2. Alone(c, k)' => Alone(c, k)
    BY <1>4, <1>5, <2>1 DEF Alone
  <2>3. Alone(c, k) => db[k] = Tagged(asked[c][k])
    BY <1>4 DEF Reading, Faithful
  <2>4. op'[c].step \notin {"judge", "evict", "return"}
    BY <1>4
  <2>5. QED
    BY <1>4, <1>5, <2>1, <2>2, <2>3, <2>4 DEF Faithful
<1>7. CASE k = j /\ cmd \in {"SET", "DEL"}
  BY <1>4, <1>5, <1>7 DEF Faithful
<1>8. CASE k = j /\ cmd = "EXPIRE"
  BY <1>2, <1>5, <1>8 DEF Faithful, Alone
<1>9. QED
  BY <1>6, <1>7, <1>8 DEF Cmds

(* What an answer says is what the client has to read later. *)
LEMMA AnswerFaithful ==
  ASSUME ServiceShape, StoreSound, Reading, NEW c \in Conns, NEW k \in Keys,
         Answer(c) \/ Disconnect(c) \/ Turned(c)
  PROVE  Faithful(c, k)'
<1>1. c \in Threads /\ OpShape /\ Faithful(c, k)
  BY ThreadNames DEF StoreSound, StoreShape, Reading
<1>2. CASE Disconnect(c)
  <2>1. asked'[c][k] = Unknown
    BY <1>2 DEF Disconnect, ServiceShape
  <2>2. QED
    BY <2>1 DEF Faithful, Alone
<1>3. CASE Turned(c)
  <2>1. UNCHANGED <<op, db, raced, db_faults, asked, writers>>
    BY <1>3 DEF Turned, storeVars
  <2>2. ~(reply'[c].to = "GET" /\ reply'[c].kind # "error")
    BY <1>3 DEF Turned, ServiceShape
  <2>3. Alone(c, k)' => Alone(c, k)
    BY <2>1 DEF Alone
  <2>4. QED
    BY <1>1, <2>1, <2>2, <2>3 DEF Faithful
<1>4. CASE Answer(c)
  <2>1. /\ op[c].step = "return" /\ UNCHANGED <<db, raced, db_faults, writers>>
        /\ op' = [op EXCEPT ![c] = Idle]
        /\ reply' = [reply EXCEPT ![c] =
                       [to |-> op[c].cmd, kind |-> ReplyKind(op[c].cmd, op[c].val),
                        key |-> op[c].key, val |-> op[c].val]]
        /\ \/ asked' = [asked EXCEPT ![c][op[c].key] = Unknown]
           \/ asked' = asked
    BY <1>4 DEF Answer, Finish
  <2>2. op'[c].step = "idle"
    BY <1>1, <2>1 DEF OpShape, Idle
  <2>3. asked'[c][k] = asked[c][k] \/ asked'[c][k] = Unknown
    BY <2>1 DEF ServiceShape
  <2>4. reply'[c].to = op[c].cmd /\ reply'[c].key = op[c].key /\ reply'[c].val = op[c].val
    BY <2>1 DEF ServiceShape
  <2>5. Alone(c, k)' => Alone(c, k) /\ asked'[c][k] = asked[c][k]
    BY <2>1, <2>3 DEF Alone
  <2>6. QED
    BY <1>1, <2>1, <2>2, <2>4, <2>5 DEF Faithful
<1>5. QED
  BY <1>2, <1>3, <1>4

(* The steps of other connections, and of the replication thread, in front *)
(* of the service.                                                         *)
LEMMA OthersFaithful ==
  ASSUME ServiceShape, StoreSound, Reading, NEW c \in Conns, NEW k \in Keys,
         \/ ReplicaStep
         \/ \E d \in Conns : d # c /\ (Begins(d) \/ Answer(d) \/ Disconnect(d) \/ Turned(d))
  PROVE  Faithful(c, k)'
<1>1. c \in Threads /\ Conns \subseteq Threads /\ Replicator \notin Conns /\ OpShape
      /\ Replicator \in Threads
  BY ThreadNames DEF StoreSound, StoreShape
<1>2. CASE ReplicaStep
  <2>1. op'[c] = op[c] /\ UNCHANGED <<asked, reply>>
    BY <1>1, <1>2, AppliesFacts DEF ReplicaStep
  <2>2. UNCHANGED <<db, raced, db_faults>> /\ writers[k] \subseteq writers'[k]
    <3>1. CASE Applies
      <4>1. PICK cmd \in {"SET", "DEL"}, j \in Keys, arg \in Strings :
              /\ Begin(Replicator, cmd, j, arg)
              /\ writers' = [writers EXCEPT ![j] = @ \cup {Replicator}]
        BY <3>1 DEF Applies
      <4>2. UNCHANGED <<db, raced, db_faults>>
        BY <4>1 DEF Begin
      <4>3. QED
        BY <4>1, <4>2 DEF ServiceShape
    <3>2. CASE Finish(Replicator) /\ UNCHANGED writers
      BY <3>2 DEF Finish
    <3>3. QED
      BY <1>2, <3>1, <3>2 DEF ReplicaStep
  <2>3. QED
    BY <2>1, <2>2, Bystander DEF Alone
<1>3. ASSUME NEW d \in Conns, d # c, Begins(d) \/ Answer(d) \/ Disconnect(d) \/ Turned(d)
      PROVE  Faithful(c, k)'
  <2>1. CASE Begins(d)
    <3>1. PICK cmd \in Cmds, j \in Keys, arg \in Strings, says \in Claims :
            BeginsWith(d, cmd, j, arg, says)
      BY <2>1 DEF Begins
    <3>2. /\ Begin(d, cmd, j, arg)
          /\ writers' = IF cmd \in {"SET", "DEL", "EXPIRE"}
                        THEN [writers EXCEPT ![j] = @ \cup {d}] ELSE writers
          /\ asked' = [asked EXCEPT ![d][j] = says]
          /\ reply' = [reply EXCEPT ![d] = NoReply]
      BY <3>1 DEF BeginsWith
    <3>3. op'[c] = op[c]
      BY <1>1, <1>3, <2>1, BeginsFacts
    <3>4. UNCHANGED <<db, raced, db_faults>>
      BY <3>2 DEF Begin
    <3>5. /\ reply'[c] = reply[c] /\ asked'[c][k] = asked[c][k]
          /\ writers[k] \subseteq writers'[k]
      BY <1>3, <3>2 DEF ServiceShape
    <3>6. QED
      BY <3>3, <3>4, <3>5, Bystander DEF Alone
  <2>2. CASE Answer(d) \/ Disconnect(d) \/ Turned(d)
    <3>1. UNCHANGED <<db, raced, db_faults, writers>>
      BY <2>2 DEF Answer, Finish, Disconnect, Turned, storeVars
    <3>2. op'[c] = op[c]
      BY <1>1, <1>3, <2>2, AnswerFacts, TurnedFacts
    <3>3. reply'[c] = reply[c] /\ asked'[c][k] = asked[c][k]
      BY <1>3, <2>2 DEF Answer, Disconnect, Turned, ServiceShape
    <3>4. QED
      BY <3>1, <3>2, <3>3, Bystander DEF Alone
  <2>3. QED
    BY <1>3, <2>1, <2>2
<1>4. QED
  BY <1>2, <1>3

(* Removals: they leave alone what client c relies on, or are a race. *)
LEMMA EvictSpares ==
  ASSUME ServiceShape, StoreShape, Reading, NEW c \in Conns, NEW k \in Keys,
         UNCHANGED <<asked, writers>>, db_faults' = 0 => db_faults = 0,
         NEW j \in Keys, NEW s \in BOOLEAN, Evict(j, s)
  PROVE  /\ Alone(c, k)' => k \notin raced
         /\ Alone(c, k)' /\ Alone(c, k) =>
              \/ db'[k] = db[k]
              \/ op[c].step \in {"append", "write"} /\ op[c].key = k
<1>1. /\ \A i \in Keys : i # j => db'[i] = db[i]
      /\ raced \subseteq raced'
      /\ db'[j] \in {<<>>, db[j]}
      /\ j \notin raced' =>
           db'[j] = db[j] \/ (db'[j] = <<>> /\ Verdict(db[j], clock) = "expired")
  BY EvictFacts
<1>2. Alone(c, k)' => k \notin raced
  BY <1>1 DEF Alone
<1>3. CASE k # j
  BY <1>1, <1>2, <1>3
<1>4. CASE k = j
  <2>1. ASSUME Alone(c, k)', Alone(c, k), ~(op[c].step \in {"append", "write"} /\ op[c].key = k)
        PROVE  db'[k] = db[k]
    <3>1. db[k] = Tagged(asked[c][k])
      BY <2>1 DEF Reading, Faithful
    <3>2. asked[c][k] \in Strings /\ Len(asked[c][k]) <= 1 /\ clock \in Int
      BY <2>1 DEF Alone, ServiceShape, Claims, StoreShape, ClockShape
    <3>3. Verdict(db[k], clock) # "expired"
      BY <3>1, <3>2, TagRoundTrip
    <3>4. j \notin raced'
      BY <1>4, <2>1 DEF Alone
    <3>5. QED
      BY <1>1, <1>4, <3>3, <3>4
  <2>2. QED
    BY <1>2, <2>1
<1>5. QED
  BY <1>3, <1>4

(* The steps of other threads, and of the cleaner, in LevelDBWrapper. *)
LEMMA ElsewhereFaithful ==
  ASSUME ServiceShape, StoreSound, Reading, NEW c \in Conns, NEW k \in Keys,
         UNCHANGED <<asked, writers, reply>>,
         \/ CleanerStep \/ Tick
         \/ \E t \in Threads : t # c /\ ThreadStep(t)
  PROVE  Faithful(c, k)'
<1>1. /\ StoreShape /\ OpShape /\ LogShape /\ c \in Threads /\ db_faults \in Nat
      /\ \A t \in Threads : Counted(t)
  BY ThreadNames DEF StoreSound, StoreShape, Reading, Told
<1>2. StoreAct
  BY DEF StoreAct
<1>3. db_faults' = 0 => db_faults = 0
  BY <1>1, <1>2, FaultsGrow
<1>4. ASSUME op'[c] = op[c], UNCHANGED <<db, raced>> PROVE Faithful(c, k)'
  BY <1>3, <1>4, Bystander DEF Alone
<1>5. ASSUME op'[c] = op[c], NEW j \in Keys, NEW s \in BOOLEAN, Evict(j, s)
      PROVE  Faithful(c, k)'
  BY <1>1, <1>3, <1>5, EvictSpares, Bystander
<1>6. CASE CleanerStep
  <2>1. /\ UNCHANGED op
        /\ \/ UNCHANGED <<db, raced>>
           \/ \E j \in Keys, s \in BOOLEAN : Evict(j, s)
    BY <1>1, <1>6, CleanerFacts
  <2>2. QED
    BY <1>4, <1>5, <2>1
<1>7. CASE Tick
  BY <1>4, <1>7 DEF Tick
<1>8. ASSUME NEW t \in Threads, t # c, ThreadStep(t) PROVE Faithful(c, k)'
  <2>1. op'[c] = op[c]
    BY <1>1, <1>8, ThreadFacts
  <2>2. CASE Read(t) \/ JudgeGet(t) \/ JudgeTtl(t) \/ JudgeExpire(t)
    BY <1>1, <1>4, <2>1, <2>2, QuietStep
  <2>3. CASE LogCommand(t)
    BY <1>4, <2>1, <2>3 DEF LogCommand
  <2>4. CASE \E s \in BOOLEAN : LazyRemove(t, s)
    BY <1>1, <1>5, <2>1, <2>4, LazyRemoveFacts
  <2>5. ASSUME NEW s \in BOOLEAN, Write(t, s) PROVE Faithful(c, k)'
    <3>1. /\ op[t].step = "write" /\ op[t].key \in Keys
          /\ db' = IF s THEN [db EXCEPT ![op[t].key] = Result(Entry(op[t]))] ELSE db
          /\ raced' = IF s /\ op[t].at > applied[op[t].key]
                      THEN raced \ {op[t].key} ELSE raced \cup {op[t].key}
      BY <1>1, <2>5, WriteFacts
    <3>2. CASE op[t].key = k
      <4>1. t \in writers[k]
        BY <1>1, <3>1, <3>2, WriterCounted DEF StoreSound
      <4>2. ~Alone(c, k)'
        BY <1>8, <4>1 DEF Alone
      <4>3. QED
        BY <4>2 DEF Faithful
    <3>3. CASE op[t].key # k
      <4>1. db'[k] = db[k] /\ (k \in raced' <=> k \in raced)
        BY <1>1, <3>1, <3>3 DEF StoreShape, DbShape
      <4>2. QED
        BY <1>3, <2>1, <4>1, Bystander DEF Alone
    <3>4. QED
      BY <3>2, <3>3
  <2>6. QED
    BY <1>8, <2>2, <2>3, <2>4, <2>5 DEF ThreadStep
<1>9. QED
  BY <1>6, <1>7, <1>8

(* The steps of the client's own thread in LevelDBWrapper. *)
LEMMA OwnFaithful ==
  ASSUME ServiceShape, StoreSound, Reading, NEW c \in Conns, NEW k \in Keys,
         UNCHANGED <<asked, writers, reply>>, ThreadStep(c)
  PROVE  Faithful(c, k)'
<1>1. /\ StoreShape /\ OpShape /\ LogShape /\ c \in Threads /\ db_faults \in Nat
      /\ Faithful(c, k) /\ Intent(c) /\ Given(op[c]) /\ clock \in Int
  BY ThreadNames DEF StoreSound, StoreShape, Reading, Told, AllGiven, ClockShape
<1>2. db_faults' = 0 => db_faults = 0
  <2>1. StoreAct
    BY <1>1 DEF StoreAct
  <2>2. QED
    BY <1>1, <2>1, FaultsGrow
<1>3. /\ op'[c].key = op[c].key /\ op'[c].cmd = op[c].cmd /\ op[c].key \in Keys
      /\ op'[c].step \in {"judge", "evict", "append", "write", "return"}
  BY <1>1, ThreadFacts
<1>4. Alone(c, k) => asked[c][k] \in Strings /\ Len(asked[c][k]) <= 1
  BY DEF Alone, ServiceShape, Claims
<1>5. CASE Read(c) \/ JudgeGet(c) \/ JudgeTtl(c) \/ JudgeExpire(c)
  <2>1. UNCHANGED <<db, raced>> /\ Moves(c)
    BY <1>1, <1>5, QuietStep
  <2>2. op[c].step \in {"read", "judge"}
    BY <1>5 DEF Read, JudgeGet, JudgeTtl, JudgeExpire
  <2>3. Alone(c, k)' => Alone(c, k)
    BY <1>2, <2>1 DEF Alone
  <2>4. Alone(c, k) => db[k] = Tagged(asked[c][k])
    BY <1>1, <2>2 DEF Faithful
  <2>5. ASSUME Alone(c, k)', op[c].key = k, op[c].cmd = "GET", op'[c].step = "judge"
        PROVE  op'[c].val = Tagged(asked[c][k])
    <3>1. op'[c].val = db[k] \/ db_faults' = db_faults + 1
      BY <2>1, <2>2, <2>5 DEF Moves
    <3>2. db_faults' = 0 /\ db_faults = 0
      BY <1>2, <2>5 DEF Alone
    <3>3. QED
      BY <2>3, <2>4, <2>5, <3>1, <3>2
  <2>6. ASSUME Alone(c, k)', op[c].key = k, op[c].cmd = "GET", op[c].step = "judge"
        PROVE  /\ op'[c].step # "evict"
               /\ op'[c].step = "return" => op'[c].val = asked[c][k]
    <3> DEFINE v == asked[c][k]
    <3>1. op[c].val = Tagged(v) /\ v \in Strings /\ Len(v) <= 1
      BY <1>1, <1>4, <2>3, <2>6 DEF Faithful
    <3>2. /\ v = <<>> => Verdict(op[c].val, clock) = "absent" /\ op[c].val = <<>>
          /\ v # <<>> => /\ Verdict(op[c].val, clock) = "persistent"
                         /\ op[c].val # <<>> /\ <<op[c].val[1]>> = v
      BY <1>1, <3>1, TagRoundTrip
    <3>3. \/ op'[c].step = "evict" /\ Verdict(op[c].val, clock) = "expired"
          \/ /\ op'[c].step = "return"
             /\ \/ op'[c].val = <<>> /\ Verdict(op[c].val, clock) \in {"absent", "garbled"}
                \/ op'[c].val = <<op[c].val[1]>> /\ op[c].val # <<>>
      BY <2>1, <2>6 DEF Moves
    <3> HIDE DEF v
    <3>4. QED
      BY <3>2, <3>3 DEF v
  <2>7. op'[c].step = "evict" => op[c].step = "judge" /\ op[c].cmd = "GET"
    BY <2>1, <2>2 DEF Moves
  <2>8. op'[c].step = "return" => op[c].step = "judge"
    BY <2>1, <2>2 DEF Moves
  <2>9. QED
    BY <1>1, <1>3, <2>1, <2>3, <2>4, <2>5, <2>6, <2>7, <2>8 DEF Faithful
<1>6. CASE LogCommand(c)
  <2>1. op[c].step = "append" /\ UNCHANGED <<db, raced>>
    BY <1>6 DEF LogCommand
  <2>2. op'[c].step = "write"
    BY <1>1, <1>6, LogCommandShape
  <2>3. Alone(c, k)' => Alone(c, k)
    BY <1>2, <2>1 DEF Alone
  <2>4. QED
    BY <1>1, <1>3, <2>1, <2>2, <2>3 DEF Faithful
<1>7. ASSUME NEW s \in BOOLEAN, LazyRemove(c, s) PROVE Faithful(c, k)'
  <2>1. op[c].step = "evict" /\ op'[c].step = "return" /\ Evict(op[c].key, s)
    BY <1>1, <1>7, LazyRemoveFacts
  <2>2. /\ Alone(c, k)' => k \notin raced
        /\ Alone(c, k)' /\ Alone(c, k) => db'[k] = db[k]
    BY <1>1, <1>2, <1>3, <2>1, EvictSpares
  <2>3. Alone(c, k)' => Alone(c, k)
    BY <1>2, <2>2 DEF Alone
  <2>4. QED
    BY <1>1, <1>3, <2>1, <2>2, <2>3 DEF Faithful
<1>8. ASSUME NEW s \in BOOLEAN, Write(c, s) PROVE Faithful(c, k)'
  <2>1. /\ op[c].step = "write" /\ op'[c].step = "return"
        /\ db' = IF s THEN [db EXCEPT ![op[c].key] = Result(Entry(op[c]))] ELSE db
        /\ raced' = IF s /\ op[c].at > applied[op[c].key]
                    THEN raced \ {op[c].key} ELSE raced \cup {op[c].key}
    BY <1>1, <1>8, WriteFacts
  <2>2. db \in [Keys -> Strings]
    BY <1>1 DEF StoreShape, DbShape
  <2>3. op[c].cmd \in {"SET", "DEL", "EXPIRE"}
    BY <1>1, <2>1 DEF Given
  <2>4. ASSUME Alone(c, k)' PROVE db'[k] = Tagged(asked[c][k])
    <3>1. CASE op[c].key = k
      <4>1. s /\ k \notin raced'
        BY <2>1, <2>4, <3>1 DEF Alone
      <4>2. db'[k] = Result(Entry(op[c]))
        BY <1>3, <2>1, <2>2, <3>1, <4>1
      <4>3. op[c].cmd # "EXPIRE"
        BY <1>1, <2>1, <2>4, <3>1 DEF Intent, Alone
      <4>4. CASE op[c].cmd = "SET"
        <5>1. op[c].val = asked[c][k] /\ op[c].val # <<>>
          BY <1>1, <2>1, <3>1, <4>4 DEF Intent, Given
        <5>2. Result(Entry(op[c])) = Stored(op[c].val)
          BY <4>4 DEF Result, Entry
        <5>3. QED
          BY <4>2, <5>1, <5>2 DEF Tagged
      <4>5. CASE op[c].cmd = "DEL"
        <5>1. asked[c][k] = <<>>
          BY <1>1, <2>1, <3>1, <4>5 DEF Intent
        <5>2. Result(Entry(op[c])) = <<>>
          BY <4>5 DEF Result, Entry
        <5>3. QED
          BY <4>2, <5>1, <5>2 DEF Tagged
      <4>6. QED
        BY <2>3, <4>3, <4>4, <4>5
    <3>2. CASE op[c].key # k
      <4>1. db'[k] = db[k] /\ k \notin raced
        BY <1>3, <2>1, <2>2, <2>4, <3>2 DEF Alone
      <4>2. Alone(c, k)
        BY <1>2, <2>4, <4>1 DEF Alone
      <4>3. QED
        BY <1>1, <2>1, <3>2, <4>1, <4>2 DEF Faithful
    <3>3. QED
      BY <3>1, <3>2
  <2>5. ~(reply[c].to = "GET" /\ reply[c].kind # "error")
    BY <2>1 DEF Reading, Told, Replied
  <2>6. QED
    BY <1>3, <2>1, <2>3, <2>4, <2>5 DEF Faithful
<1>9. QED
  BY <1>5, <1>6, <1>7, <1>8 DEF ThreadStep

(* A death: the client knows that a command under way may not have been    *)
(* done, and LevelDB has synced all the others.                            *)
LEMMA PerishFaithful ==
  ASSUME ServiceShape, StoreSound, Reading, NEW c \in Conns, NEW k \in Keys, Perish
  PROVE  Faithful(c, k)'
<1>1. /\ \A t \in Threads : op'[t].step = "idle"
      /\ UNCHANGED <<db, raced, db_faults>>
  BY PerishFacts DEF StoreSound
<1>2. /\ reply'[c].to = "none" /\ UNCHANGED writers
      /\ asked'[c][k] = IF op[c].step # "idle" /\ op[c].key = k THEN Unknown ELSE asked[c][k]
  BY DEF Perish, NoReply
<1>3. Faithful(c, k) /\ op'[c].step = "idle"
  BY <1>1, ThreadNames DEF Reading
<1>4. ASSUME Alone(c, k)'
      PROVE  Alone(c, k) /\ asked'[c][k] = asked[c][k] /\ ~(op[c].step # "idle" /\ op[c].key = k)
  BY <1>1, <1>2, <1>4 DEF Alone
<1>5. QED
  BY <1>1, <1>2, <1>3, <1>4 DEF Faithful

(* Every step keeps what the reads in progress will answer. *)
LEMMA ReadingStays ==
  ASSUME ServiceShape, StoreSound, Reading, BlpNext \/ UNCHANGED blpVars
  PROVE  Reading'
<1>1. Told'
  BY ToldStays DEF Reading
<1>2. db_faults' \in Nat
  <2>1. CASE Quiet \/ ClientStep \/ ReplicaStep \/ InnerStep
    BY <2>1, OrdinaryAct, FaultsGrow DEF Reading
  <2>2. CASE Restart \/ Perish
    BY <2>2, RestartFacts, PerishFacts DEF Reading, StoreSound
  <2>3. QED
    BY <2>1, <2>2, BlpSteps
<1>3. ASSUME NEW c \in Conns, NEW k \in Keys PROVE Faithful(c, k)'
  <2>1. CASE Quiet \/ Restart
    <3>1. UNCHANGED <<op, db, raced, db_faults, asked, reply, writers>>
      BY <2>1, RestartFacts DEF Quiet, Refuses, storeVars
    <3>2. QED
      BY <3>1, Bystander DEF Alone
  <2>2. CASE ClientStep
    BY <2>2, BeginsFaithful, AnswerFaithful, OthersFaithful DEF ClientStep
  <2>3. CASE ReplicaStep
    BY <2>3, OthersFaithful
  <2>4. CASE InnerStep
    BY <2>4, OwnFaithful, ElsewhereFaithful DEF InnerStep
  <2>5. CASE Perish
    BY <2>5, PerishFaithful
  <2>6. QED
    BY <2>1, <2>2, <2>3, <2>4, <2>5, BlpSteps
<1>4. QED
  BY <1>1, <1>2, <1>3 DEF Reading

(* A client that is alone in writing a key reads back what it was told was *)
(* stored or deleted, whatever cleaner, clock, deaths and restarts do,     *)
(* unless LevelDB failed or the key was raced: the expiry tag that put     *)
(* adds is taken off again by get for every string without a tab.          *)
THEOREM ReadsOwnWrites == BlpSpec => []ReadYourWrites
<1>1. BlpInit => Reading
  <2> SUFFICES ASSUME BlpInit PROVE Reading
    OBVIOUS
  <2>1. /\ op = [t \in Threads |-> Idle] /\ Idle.step = "idle" /\ db_faults = 0
        /\ asked = [c \in Conns |-> [k \in Keys |-> Unknown]]
        /\ reply = [c \in Conns |-> NoReply] /\ NoReply.to = "none"
        /\ Conns \subseteq Threads
    BY ThreadNames DEF BlpInit, Init, Idle, NoReply
  <2>2. Told
    BY <2>1 DEF Told, Counted, Intent, Replied
  <2>3. \A c \in Conns, k \in Keys : Faithful(c, k)
    BY <2>1 DEF Faithful, Alone
  <2>4. QED
    BY <2>1, <2>2, <2>3 DEF Reading
<1>2. ProcessInv /\ Reading /\ [BlpNext]_blpVars => Reading'
  BY ReadingStays DEF ProcessInv
<1>3. Reading => ReadYourWrites
  <2> SUFFICES ASSUME Reading, db_faults = 0, NEW c \in Conns,
                      reply[c].to = "GET", reply[c].kind # "error",
                      writers[reply[c].key] \subseteq {c}, reply[c].key \notin raced,
                      asked[c][reply[c].key] # Unknown, Len(asked[c][reply[c].key]) <= 1
               PROVE  reply[c].val = asked[c][reply[c].key]
    BY DEF ReadYourWrites
  <2>1. reply[c].key \in Keys
    BY DEF Reading, Told, Replied
  <2>2. Alone(c, reply[c].key) /\ Faithful(c, reply[c].key)
    BY <2>1 DEF Alone, Reading
  <2>3. QED
    BY <2>2 DEF Faithful
<1>4. QED
  BY <1>1, <1>2, <1>3, BlpInvariance, PTL DEF BlpSpec
-----------------------------------------------------------------------------
(* The configuration. *)

I16Min == -(U16 \div 2)
I16Max == U16 \div 2 - 1
I16    == I16Min .. I16Max

(* The fields of namespace config. *)
ConfShape ==
  /\ conf = [port |-> conf.port, replica_port |-> conf.replica_port,
             replicate_host |-> conf.replicate_host, model |-> conf.model]
  /\ conf.port \in I16 /\ conf.replica_port \in I16

(* replica_port after the lines that were read: its default, or the last   *)
(* number that they set.                                                   *)
PortRead ==
  \/ PortLines(line) = {} /\ conf.replica_port = Defaults.replica_port
  \/ \E i \in PortLines(line) :
       /\ \A j \in PortLines(line) : j <= i
       /\ Trim(file[i].value)[1] \in Int
       /\ conf.replica_port = Int16(Trim(file[i].value)[1])

(* The whole file is read before a thread is started that uses it. *)
Progress ==
  /\ phase \in {"config", "load", "aof", "open", "start", "role", "run", "join",
                "stop", "leave", "exit"}
  /\ Len(file) \in Nat /\ line \in 0 .. Len(file)
  /\ phase = "config" => line = 0
  /\ phase \notin {"config", "load", "leave", "exit"} => line = Len(file)
  /\ phase \in {"config", "exit"} => role.step = "none"
  /\ role.step # "none" => line = Len(file)

(* The replication thread, and what it was given. *)
RoleShape ==
  /\ opened \in BOOLEAN /\ listening \in BOOLEAN
  /\ role.step \in {"none", "starting", "running"} /\ role.port \in 0 .. U16 - 1
  /\ role.step = "running" => role.port = conf.replica_port % U16

BootInv == Progress /\ ConfShape /\ PortRead /\ RoleShape

(* The range of int16_t. *)
LEMMA I16Range ==
  /\ \A n \in Int : -32768 <= n /\ n <= 32767 => n \in I16
  /\ \A n \in I16 : n \in Int
<1>1. I16Min \in Int /\ I16Max \in Int
  BY DEF I16Min, I16Max, U16
<1>2. ASSUME NEW n \in Int, -32768 <= n, n <= 32767 PROVE n \in I16
  <2>1. I16Min <= n /\ n <= I16Max
    BY <1>2 DEF I16Min, I16Max, U16
  <2>2. QED
    BY <1>1, <2>1 DEF I16
<1>3. QED
  BY <1>1, <1>2 DEF I16

(* An int16_t keeps a number modulo 2^16: its value as a uint16_t is that  *)
(* of the number.                                                          *)
LEMMA Int16Facts ==
  ASSUME NEW n \in Int
  PROVE  Int16(n) \in I16 /\ Int16(n) % U16 = n % U16
<1>1. ASSUME NEW m \in Int
      PROVE  m % 65536 \in Int /\ 0 <= m % 65536 /\ m % 65536 <= 65535
  OBVIOUS
<1>2. U16 = 65536 /\ U16 \div 2 = 32768
  BY DEF U16
<1>3. Int16(n) = ((n + 32768) % 65536) - 32768
  BY <1>2 DEF Int16
<1>4. Int16(n) \in I16
  <2>1. n + 32768 \in Int
    OBVIOUS
  <2>2. PICK r \in Int : r = (n + 32768) % 65536 /\ 0 <= r /\ r <= 65535
    BY <1>1, <2>1
  <2>3. r - 32768 \in Int /\ -32768 <= r - 32768 /\ r - 32768 <= 32767
    BY <2>2
  <2>4. Int16(n) = r - 32768
    BY <1>3, <2>2
  <2>5. QED
    BY <2>3, <2>4, I16Range
<1>5. (((n + 32768) % 65536) - 32768) % 65536 = n % 65536
  OBVIOUS
<1>6. QED
  BY <1>2, <1>3, <1>4, <1>5

(* The remainders modulo u. *)
LEMMA Remainder ==
  ASSUME NEW m \in Int, NEW u \in Nat \ {0}
  PROVE  m % u \in 0 .. u - 1
  OBVIOUS

(* A port as the thread gets it. *)
LEMMA PortFacts ==
  ASSUME NEW n \in I16
  PROVE  n % U16 \in 0 .. U16 - 1
<1>1. n \in Int
  BY I16Range
<1>2. U16 \in Nat \ {0}
  BY DEF U16
<1>3. QED
  BY <1>1, <1>2, Remainder, Zenon

(* Field::set_value, on one field. *)
LEMMA SetValueFacts ==
  ASSUME ConfShape, NEW name \in Registered, NEW text, ~Refused(name, text),
         conf' = SetValue(conf, name, text)
  PROVE  /\ ConfShape'
         /\ name = "replica_port" => /\ text[1] \in Int
                                     /\ conf'.replica_port = Int16(text[1])
         /\ name # "replica_port" => conf'.replica_port = conf.replica_port
<1> DEFINE num == Int16(text[1])
<1>1. name \in Int16Fields => text[1] \in Int /\ num \in I16
  BY Int16Facts DEF Refused, Numeric
<1>2. conf' = [conf EXCEPT ![name] = IF name \in StringFields THEN text ELSE num]
  BY DEF SetValue
<1> HIDE DEF num
<1>3. CASE name = "port"
  <2>1. name \in Int16Fields /\ name \notin StringFields
    BY <1>3 DEF Int16Fields, StringFields
  <2>2. conf' = [conf EXCEPT !.port = num]
    BY <1>2, <1>3, <2>1
  <2>3. QED
    BY <1>1, <1>3, <2>1, <2>2 DEF ConfShape
<1>4. CASE name = "replica_port"
  <2>1. name \in Int16Fields /\ name \notin StringFields
    BY <1>4 DEF Int16Fields, StringFields
  <2>2. conf' = [conf EXCEPT !.replica_port = num]
    BY <1>2, <1>4, <2>1
  <2>3. ConfShape' /\ conf'.replica_port = num
    BY <1>1, <2>1, <2>2 DEF ConfShape
  <2>4. QED
    BY <1>1, <1>4, <2>1, <2>3 DEF num
<1>5. CASE name = "replicate_host"
  <2>1. name \in StringFields
    BY <1>5 DEF StringFields
  <2>2. conf' = [conf EXCEPT !.replicate_host = text]
    BY <1>2, <1>5, <2>1
  <2>3. QED
    BY <1>5, <2>2 DEF ConfShape
<1>6. CASE name = "model"
  <2>1. name \in StringFields
    BY <1>6 DEF StringFields
  <2>2. conf' = [conf EXCEPT !.model = text]
    BY <1>2, <1>6, <2>1
  <2>3. QED
    BY <1>6, <2>2 DEF ConfShape
<1>7. QED
  BY <1>3, <1>4, <1>5, <1>6 DEF Registered, Int16Fields, StringFields

(* A line is for one field. *)
LEMMA OneName ==
  ASSUME NEW l, NEW a \in Names(l), NEW b \in Names(l)
  PROVE  a = b
<1>1. <<a>> = <<b>>
  BY DEF Names
<1>2. <<a>>[1] = a /\ <<b>>[1] = b
  OBVIOUS
<1>3. QED
  BY <1>1, <1>2

(* A line is read: a field takes its value, or main leaves. *)
LEMMA ReadLineFacts ==
  ASSUME BootInv, ReadLine
  PROVE  BootInv'
<1> DEFINE names == Names(file[line + 1])
           text  == Trim(file[line + 1].value)
           fails == \E name \in names : Refused(name, text)
<1>1. /\ line < Len(file) /\ phase = "load"
      /\ phase' = (IF fails THEN "leave" ELSE "load")
      /\ line' = (IF fails THEN line ELSE line + 1)
      /\ IF fails \/ names = {} THEN conf' = conf
         ELSE \E name \in names : conf' = SetValue(conf, name, text)
      /\ UNCHANGED <<file, opened, listening, role>>
  <2>1. Boot("load", IF fails THEN "leave" ELSE "load", TRUE)
    BY Zenon DEF ReadLine
  <2>2. phase = "load" /\ phase' = (IF fails THEN "leave" ELSE "load")
    BY <2>1, Zenon DEF Boot
  <2>3. QED
    BY <2>2, Zenon DEF ReadLine
<1>2. /\ Progress /\ ConfShape /\ PortRead /\ RoleShape
      /\ Len(file) \in Nat /\ line \in 0 .. Len(file) /\ line \in Nat
  BY DEF BootInv, Progress
<1>3. role.step = "none"
  BY <1>1, <1>2 DEF Progress
<1>4. fails \in BOOLEAN /\ names \subseteq Registered
  BY DEF Names
<1>5. text = Trim(file[line + 1].value) /\ names = Names(file[line + 1])
  OBVIOUS
<1> HIDE DEF names, text, fails
<1>6. CASE fails
  <2>1. phase' = "leave" /\ UNCHANGED <<line, conf>>
    BY <1>1, <1>6
  <2>2. Progress'
    BY <1>1, <1>2, <1>3, <2>1 DEF Progress
  <2>3. PortRead'
    BY <1>1, <1>2, <2>1 DEF PortRead, PortLines
  <2>4. ConfShape' /\ RoleShape'
    BY <1>1, <1>2, <2>1 DEF ConfShape, RoleShape
  <2>5. QED
    BY <2>2, <2>3, <2>4 DEF BootInv
<1>7. CASE ~fails
  <2>1. phase' = "load" /\ line' = line + 1 /\ UNCHANGED file
    BY <1>1, <1>7
  <2>2. Progress'
    BY <1>1, <1>2, <1>3, <2>1 DEF Progress
  <2>3. \A i \in PortLines(line') : i = line + 1 \/ i \in PortLines(line)
    BY <1>2, <2>1 DEF PortLines
  <2>4. \A i \in PortLines(line) : i \in PortLines(line') /\ i <= line /\ i \in Nat
    BY <1>2, <2>1 DEF PortLines
  <2>5. line + 1 \in PortLines(line') <=> "replica_port" \in names
    BY <1>2, <1>5, <2>1 DEF PortLines
  <2>6. PortLines(line)' = PortLines(line')
    BY <2>1 DEF PortLines
  <2>7. CASE names = {}
    <3>1. conf' = conf /\ "replica_port" \notin names
      BY <1>1, <2>7
    <3>2. PortLines(line') = PortLines(line)
      BY <2>3, <2>4, <2>5, <3>1
    <3>3. PortRead'
      BY <1>2, <2>1, <2>6, <3>1, <3>2 DEF PortRead
    <3>4. ConfShape' /\ RoleShape'
      BY <1>1, <1>2, <3>1 DEF ConfShape, RoleShape
    <3>5. QED
      BY <2>2, <3>3, <3>4 DEF BootInv
  <2>8. CASE names # {}
    <3>1. PICK name \in names : conf' = SetValue(conf, name, text)
      BY <1>1, <1>7, <2>8
    <3>2. ~Refused(name, text)
      BY <1>7 DEF fails
    <3>3. /\ ConfShape'
          /\ name = "replica_port" => /\ text[1] \in Int
                                      /\ conf'.replica_port = Int16(text[1])
          /\ name # "replica_port" => conf'.replica_port = conf.replica_port
      BY <1>2, <1>4, <3>1, <3>2, SetValueFacts
    <3>4. "replica_port" \in names <=> name = "replica_port"
      BY <1>5, <3>1, OneName
    <3>5. CASE name = "replica_port"
      <4>1. line + 1 \in PortLines(line') /\ \A j \in PortLines(line') : j <= line + 1
        BY <1>2, <2>3, <2>4, <2>5, <3>4, <3>5
      <4>2. /\ Trim(file'[line + 1].value)[1] \in Int
            /\ conf'.replica_port = Int16(Trim(file'[line + 1].value)[1])
        BY <1>5, <2>1, <3>3, <3>5
      <4>3. PortRead'
        BY <2>6, <4>1, <4>2 DEF PortRead
      <4>4. RoleShape'
        BY <1>1, <1>2, <1>3 DEF RoleShape
      <4>5. QED
        BY <2>2, <3>3, <4>3, <4>4 DEF BootInv
    <3>6. CASE name # "replica_port"
      <4>1. PortLines(line') = PortLines(line)
        BY <2>3, <2>4, <2>5, <3>4, <3>6
      <4>2. PortRead'
        BY <1>2, <2>1, <2>6, <3>3, <3>6, <4>1 DEF PortRead
      <4>3. RoleShape'
        BY <1>1, <1>2, <1>3 DEF RoleShape
      <4>4. QED
        BY <2>2, <3>3, <4>2, <4>3 DEF BootInv
    <3>7. QED
      BY <3>5, <3>6
  <2>9. QED
    BY <2>7, <2>8
<1>8. QED
  BY <1>4, <1>6, <1>7

(* What the static initialisers leave. *)
LEMMA DefaultFacts ==
  /\ Defaults = [port |-> Defaults.port, replica_port |-> Defaults.replica_port,
                 replicate_host |-> Defaults.replicate_host, model |-> Defaults.model]
  /\ Defaults.port \in I16 /\ Defaults.replica_port \in I16
  /\ NoRole.step = "none" /\ NoRole.port \in 0 .. U16 - 1
<1>1. Defaults.port = 6479 /\ Defaults.replica_port = 6480
  BY DEF Defaults
<1>2. Defaults.port \in I16 /\ Defaults.replica_port \in I16
  BY <1>1, I16Range
<1>3. QED
  BY <1>2 DEF Defaults, NoRole, U16

(* The other steps leave the fields as they are once the file is open. *)
LEMMA SameSettings ==
  ASSUME BootInv, UNCHANGED <<file, line, conf>>, Progress', RoleShape'
  PROVE  BootInv'
BY DEF BootInv, ConfShape, PortRead, PortLines

(* The steps of main, but for the lines. *)
LEMMA BootSteps ==
  ASSUME BootInv, MainStep, ~Leave
  PROVE  BootInv'
<1>1. /\ Progress /\ RoleShape /\ ConfShape /\ PortRead
  BY DEF BootInv
<1>2. ASSUME NEW f \in ConfigFiles, OpenConfig(f) PROVE BootInv'
  <2>1. /\ phase = "config" /\ phase' = "load" /\ file' = f
        /\ UNCHANGED <<line, conf, opened, listening, role>>
    BY <1>2, BootFacts DEF OpenConfig
  <2>2. Len(f) \in Nat
    BY BlpAssumption, LenProperties
  <2>3. line = 0 /\ role.step = "none"
    BY <1>1, <2>1 DEF Progress
  <2>4. Progress' /\ RoleShape'
    BY <1>1, <2>1, <2>2, <2>3 DEF Progress, RoleShape
  <2>5. PortLines(line) = {} /\ PortLines(line)' = {}
    BY <2>1, <2>3 DEF PortLines
  <2>6. PortRead' /\ ConfShape'
    BY <1>1, <2>1, <2>5 DEF PortRead, ConfShape
  <2>7. QED
    BY <2>4, <2>6 DEF BootInv
<1>3. CASE NoConfig
  <2>1. /\ phase' = "leave" /\ UNCHANGED <<file, line, conf, opened, listening, role>>
    BY <1>3, BootFacts DEF NoConfig
  <2>2. Progress' /\ RoleShape'
    BY <1>1, <2>1 DEF Progress, RoleShape
  <2>3. QED
    BY <2>1, <2>2, SameSettings
<1>4. CASE ConfigRead
  <2>1. /\ line = Len(file) /\ phase' = "aof"
        /\ UNCHANGED <<file, line, conf, opened, listening, role>>
    BY <1>4, BootFacts DEF ConfigRead
  <2>2. Progress' /\ RoleShape'
    BY <1>1, <2>1 DEF Progress, RoleShape
  <2>3. QED
    BY <2>1, <2>2, SameSettings
<1>5. ASSUME NEW s \in BOOLEAN, MakeAof(s) \/ OpenDb(s) \/ StartServer(s) PROVE BootInv'
  <2>1. /\ phase \in {"aof", "open", "start"} /\ phase' \in {"open", "start", "role", "leave"}
        /\ opened' \in {s, opened} /\ listening' \in {s, listening}
        /\ UNCHANGED <<file, line, conf, role>>
    BY <1>5, BootFacts DEF MakeAof, OpenDb, StartServer
  <2>2. Progress' /\ RoleShape'
    BY <1>1, <2>1 DEF Progress, RoleShape
  <2>3. QED
    BY <2>1, <2>2, SameSettings
<1>6. CASE StartRole
  <2> DEFINE known == model \in {"master", "replicate"}
  <2>1. /\ Boot("role", IF known THEN "run" ELSE "join", TRUE) /\ listening' = known
        /\ role' = IF known THEN [NoRole EXCEPT !.step = "starting"] ELSE role
        /\ UNCHANGED <<file, line, conf, opened>>
    BY <1>6 DEF StartRole
  <2>2. /\ phase = "role" /\ phase' \in {"run", "join"}
    BY <2>1, BootFacts
  <2>3. known \in BOOLEAN
    OBVIOUS
  <2> HIDE DEF known
  <2>4. role' = role \/ (role'.step = "starting" /\ role'.port = 0)
    BY <2>1 DEF NoRole
  <2>5. Progress'
    BY <1>1, <2>1, <2>2 DEF Progress
  <2>6. 0 \in 0 .. U16 - 1
    BY DEF U16
  <2>7. RoleShape'
    BY <1>1, <2>1, <2>3, <2>4, <2>6 DEF RoleShape
  <2>8. QED
    BY <2>1, <2>5, <2>7, SameSettings
<1>7. CASE Quit \/ JoinServer \/ StopAof
  <2>1. /\ phase \in {"run", "join", "stop"} /\ phase' \in {"join", "stop", "leave"}
        /\ listening' \in {FALSE, listening} /\ UNCHANGED <<file, line, conf, role, opened>>
    BY <1>7 DEF Quit, JoinServer, StopAof
  <2>2. Progress' /\ RoleShape'
    BY <1>1, <2>1 DEF Progress, RoleShape
  <2>3. QED
    BY <2>1, <2>2, SameSettings
<1>8. QED
  BY <1>2, <1>3, <1>4, <1>5, <1>6, <1>7, ReadLineFacts DEF MainStep

(* Every step keeps what is known of the configuration. *)
LEMMA BootInvStays ==
  ASSUME BootInv, BlpNext \/ UNCHANGED blpVars
  PROVE  BootInv'
<1>1. Progress /\ RoleShape /\ ConfShape
  BY DEF BootInv
<1>2. CASE Working \/ WriterPersists \/ WriterFails \/ UNCHANGED blpVars
  <2>1. UNCHANGED <<phase, file, line, conf, opened, listening, role>>
    BY <1>2 DEF Working, WriterPersists, WriterFails, blpVars, mainVars
  <2>2. Progress' /\ RoleShape'
    BY <1>1, <2>1 DEF Progress, RoleShape
  <2>3. QED
    BY <2>1, <2>2, SameSettings
<1>3. CASE RunRole
  <2>1. /\ role.step = "starting" /\ role'.step = "running"
        /\ role'.port = conf.replica_port % U16
        /\ UNCHANGED <<phase, file, line, conf, opened, listening>>
    BY <1>3 DEF RunRole
  <2>2. role'.port \in 0 .. U16 - 1
    BY <1>1, <2>1, PortFacts DEF ConfShape
  <2>3. Progress' /\ RoleShape'
    BY <1>1, <2>1, <2>2 DEF Progress, RoleShape
  <2>4. QED
    BY <2>1, <2>3, SameSettings
<1>4. CASE Perish
  <2>1. /\ phase' = "exit" /\ opened' = FALSE /\ listening' = FALSE /\ role' = NoRole
        /\ UNCHANGED <<file, line, conf>>
    BY <1>4 DEF Perish
  <2>2. Progress' /\ RoleShape'
    BY <1>1, <2>1, DefaultFacts DEF Progress, RoleShape
  <2>3. QED
    BY <2>1, <2>2, SameSettings
<1>5. CASE Restart
  <2>1. /\ phase = "exit" /\ phase' = "config" /\ file' = <<>> /\ line' = 0
        /\ conf' = Defaults /\ UNCHANGED <<opened, listening, role>>
    BY <1>5 DEF Restart
  <2>2. role.step = "none"
    BY <1>1, <2>1 DEF Progress
  <2>3. Progress'
    BY <2>1, <2>2 DEF Progress
  <2>4. RoleShape'
    BY <1>1, <2>1, <2>2 DEF RoleShape
  <2>5. PortLines(line)' = {}
    BY <2>1 DEF PortLines
  <2>6. PortRead' /\ ConfShape'
    BY <2>1, <2>5, DefaultFacts DEF PortRead, ConfShape
  <2>7. QED
    BY <2>3, <2>4, <2>6 DEF BootInv
<1>6. QED
  BY <1>2, <1>3, <1>4, <1>5, BootSteps DEF BlpNext, Kill, RoleFails, Leave

(* The process before its first start. *)
LEMMA BootInitHolds == ASSUME BlpInit PROVE BootInv
<1>1. /\ phase = "config" /\ file = <<>> /\ line = 0 /\ conf = Defaults
      /\ opened = FALSE /\ listening = FALSE /\ role = NoRole
  BY DEF BlpInit, Unread
<1>2. Progress /\ RoleShape
  <2>1. Len(file) = 0 /\ line \in 0 .. 0
    BY <1>1
  <2>2. Progress
    BY <1>1, <2>1, DefaultFacts DEF Progress
  <2>3. RoleShape
    BY <1>1, DefaultFacts DEF RoleShape
  <2>4. QED
    BY <2>2, <2>3
<1>3. PortLines(line) = {}
  BY <1>1 DEF PortLines
<1>4. PortRead /\ ConfShape
  BY <1>1, <1>3, DefaultFacts DEF PortRead, ConfShape
<1>5. QED
  BY <1>2, <1>4 DEF BootInv

(* So the invariant holds all the time. *)
LEMMA BootInvariance == BlpSpec => []BootInv
<1>1. BlpInit => BootInv
  BY BootInitHolds
<1>2. BootInv /\ [BlpNext]_blpVars => BootInv'
  BY BootInvStays
<1>3. QED
  BY <1>1, <1>2, PTL DEF BlpSpec

(* A sequence whose elements are in T. *)
LEMMA Retyped ==
  ASSUME NEW S, NEW T, NEW s \in Seq(S), \A i \in 1 .. Len(s) : s[i] \in T
  PROVE  s \in Seq(T)
<1>1. Len(s) \in Nat /\ \A i \in 1 .. Len(s) : s[i] \in S
  BY LenProperties, ElementOfSeq
<1>2. PICK t : t = SubSeq(s, 1, Len(s))
  OBVIOUS
<1>3. /\ t \in Seq(S) /\ Len(t) = IF 1 <= Len(s) THEN Len(s) - 1 + 1 ELSE 0
      /\ \A i \in 1 .. Len(s) - 1 + 1 : t[i] = s[1 + i - 1]
  BY <1>1, <1>2, SubSeqProperties
<1>4. t \in Seq(T)
  BY <1>1, <1>2, SubSeqProperties
<1>5. Len(t) = Len(s) /\ \A i \in 1 .. Len(t) : t[i] = s[i]
  BY <1>1, <1>3
<1>6. QED
  BY <1>3, <1>4, <1>5, SeqEqual

(* The file and its writer hold positions of the log. *)
LEMMA FileTypes ==
  ASSUME ProcessInv
  PROVE  /\ entries \in Seq([id : 1 .. Len(log), whole : BOOLEAN])
         /\ pending \in Seq(1 .. Len(log))
<1>1. /\ entries \in Seq(Frames) /\ pending \in Seq(Nat) /\ Len(log) \in Nat
      /\ InOrder(entries, pending, Len(log))
  BY LenProperties DEF ProcessInv, StoreSound, StoreShape, LogShape, FileInOrder, InOrder
<1>2. ASSUME NEW i \in 1 .. Len(entries)
      PROVE  entries[i] \in [id : 1 .. Len(log), whole : BOOLEAN]
  <2>1. entries[i] \in Frames /\ 1 <= entries[i].id /\ entries[i].id <= Len(log)
    BY <1>1, ElementOfSeq DEF InOrder
  <2>2. QED
    BY <1>1, <2>1 DEF Frames
<1>3. ASSUME NEW i \in 1 .. Len(pending) PROVE pending[i] \in 1 .. Len(log)
  BY <1>1, ElementOfSeq DEF InOrder
<1>4. QED
  BY <1>1, <1>2, <1>3, Retyped

(* main moves through its phases and never reads beyond the file; the      *)
(* numbers of the file end up in the range of int16_t whatever the lines   *)
(* hold, and the thread's port in that of uint16_t; the append-only file   *)
(* holds nothing but accepted commands.                                    *)
THEOREM ProcessTypes == BlpSpec => []BlpTypeOK
<1>1. BootInv /\ ProcessInv => BlpTypeOK
  <2> SUFFICES ASSUME BootInv, ProcessInv PROVE BlpTypeOK
    OBVIOUS
  <2>1. I16 = -(U16 \div 2) .. U16 \div 2 - 1
    BY DEF I16, I16Min, I16Max
  <2>2. {conf.port, conf.replica_port} \subseteq I16
    BY DEF BootInv, ConfShape
  <2>3. failed \in BOOLEAN /\ cut \subseteq 0 .. Len(log)
    BY DEF ProcessInv, FileShape
  <2>4. QED
    BY <2>1, <2>2, <2>3, FileTypes, Zenon DEF BootInv, BlpTypeOK, Progress, RoleShape
<1>2. QED
  BY <1>1, BlpInvariance, BootInvariance, PTL

(* For every file of lines, the replication thread gets the last number    *)
(* that the file sets for replica_port, modulo 2^16, or the default: the   *)
(* int16_t on the way loses no port number, and the thread never runs on a *)
(* file half read.                                                         *)
THEOREM PortKept == BlpSpec => []ReplicaPortAsWritten
<1>1. BootInv => ReplicaPortAsWritten
  <2> SUFFICES ASSUME BootInv, role.step = "running"
               PROVE  \/ /\ PortLines(Len(file)) = {}
                         /\ role.port = Defaults.replica_port
                      \/ \E i \in PortLines(Len(file)) :
                           /\ \A j \in PortLines(Len(file)) : j <= i
                           /\ role.port = Trim(file[i].value)[1] % U16
    BY DEF ReplicaPortAsWritten
  <2>1. line = Len(file) /\ role.port = conf.replica_port % U16
    BY DEF BootInv, Progress, RoleShape
  <2>2. CASE PortLines(line) = {} /\ conf.replica_port = Defaults.replica_port
    <3>1. Defaults.replica_port = 6480 /\ 6480 % U16 = 6480
      BY DEF Defaults, U16
    <3>2. QED
      BY <2>1, <2>2, <3>1
  <2>3. ASSUME NEW i \in PortLines(line), \A j \in PortLines(line) : j <= i,
               Trim(file[i].value)[1] \in Int,
               conf.replica_port = Int16(Trim(file[i].value)[1])
        PROVE  role.port = Trim(file[i].value)[1] % U16
    BY <2>1, <2>3, Int16Facts
  <2>4. QED
    BY <2>1, <2>2, <2>3 DEF BootInv, PortRead
<1>2. QED
  BY <1>1, BootInvariance, PTL

=============================================================================
