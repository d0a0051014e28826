------------------------------- MODULE Service -------------------------------
(***************************************************************************)
(* The Redis service of src/src/service: one command handler per command,  *)
(* run for the connections of a brpc server on the LevelDBWrapper of       *)
(* Store, and on a replicate also the thread that applies what the master  *)
(* sends.  A connection has one command in progress at a time.             *)
(***************************************************************************)
EXTENDS Store

CONSTANTS
  Conns,       \* client connections, each with its own RedisConnContext
  Replicator   \* the thread of ReplicationClient::startReplica

ASSUME ServiceAssumption ==
  Replicator \notin Conns /\ Threads = Conns \cup {Replicator}

VARIABLES
  model,    \* config::model, read once at start
  session,  \* does the connection's context hold an AuthSession?
  reply,    \* the last reply on each connection
  asked,    \* history: the value that the last SET or DEL of a connection gave
            \* each key; Unknown when there is none, or after a failure
  writers   \* history: the threads that began to change each key

serviceVars == <<storeVars, model, session, reply, asked, writers>>

Unknown == <<"unknown">>
NoReply == [to |-> "none", kind |-> "none"]
Error   == [to |-> "none", kind |-> "error"]

(* The process runs with one of the two models; see Blp for how it comes   *)
(* to that, and for its end.                                               *)
ServiceInit ==
  /\ Init
  /\ model \in {"master", "replicate"}
  /\ session = [c \in Conns |-> FALSE]
  /\ reply = [c \in Conns |-> NoReply]
  /\ asked = [c \in Conns |-> [k \in Keys |-> Unknown]]
  /\ writers = [k \in Keys |-> {}]

-----------------------------------------------------------------------------
(* AuthCommandHandler: the right password gives the connection a session;  *)
(* a wrong one, or a wrong number of arguments, leaves it as it was.       *)
Auth(c, right) ==
  /\ op[c].step = "idle"
  /\ session' = [session EXCEPT ![c] = @ \/ right]
  /\ reply' = [reply EXCEPT ![c] = IF right THEN [to |-> "AUTH", kind |-> "OK"]
                                            ELSE Error]
  /\ UNCHANGED <<storeVars, model, asked, writers>>

(* Run of a handler up to its call of the service, or to the error reply   *)
(* when one of its own tests fails.  says is what k then holds as the      *)
(* client sees it.                                                         *)
Handle(c, cmd, k, arg, says, passes) ==
  /\ op[c].step = "idle"
  /\ \/ /\ passes
        /\ Begin(c, cmd, k, arg)
        /\ writers' = IF cmd \in {"SET", "DEL", "EXPIRE"}
                      THEN [writers EXCEPT ![k] = @ \cup {c}] ELSE writers
        /\ asked' = [asked EXCEPT ![c][k] = says]
        /\ reply' = [reply EXCEPT ![c] = NoReply]
     \/ /\ ~passes
        /\ reply' = [reply EXCEPT ![c] = Error]
        /\ UNCHANGED <<storeVars, asked, writers>>
  /\ UNCHANGED <<model, session>>

(* Each handler has its own copy of the tests: for a session in the        *)
(* connection's context, for the number of arguments (and, for EXPIRE, for *)
(* a time that std::stoll accepts), and, in SET and DEL alone, before all  *)
(* else for the model.                                                     *)
SetCommand(c, k, v, wellFormed) ==
  Handle(c, "SET", k, v, v, model = "master" /\ session[c] /\ wellFormed)
DelCommand(c, k, wellFormed) ==
  Handle(c, "DEL", k, <<>>, <<>>, model = "master" /\ session[c] /\ wellFormed)
GetCommand(c, k, wellFormed) ==
  Handle(c, "GET", k, <<>>, asked[c][k], session[c] /\ wellFormed)

(* Mutant: the handler without its copy of the test for a session. *)
TtlCommandOpen(c, k, wellFormed) ==
  Handle(c, "TTL", k, <<>>, asked[c][k], wellFormed)

TtlCommand(c, k, wellFormed) ==
  Handle(c, "TTL", k, <<>>, asked[c][k], session[c] /\ wellFormed)
ExpireCommand(c, k, s, wellFormed) ==
  Handle(c, "EXPIRE", k, <<s>>, Unknown, session[c] /\ wellFormed)

(* The rest of Run, from what the call returned to the reply: a failed SET *)
(* is an error, a failed DEL and a missed GET are nil.                     *)
ReplyKind(cmd, out) ==
  CASE cmd = "SET" -> IF out = <<1>> THEN "OK" ELSE "error"
    [] cmd = "DEL" -> IF out = <<1>> THEN "OK" ELSE "nil"
    [] cmd = "GET" -> IF out # <<>> THEN "string" ELSE "nil"
    [] cmd \in {"TTL", "EXPIRE"} -> "integer"

Answer(c) ==
  LET cmd  == op[c].cmd
      out  == op[c].val
  IN /\ Finish(c)
     /\ reply' = [reply EXCEPT ![c] = [to |-> cmd, kind |-> ReplyKind(cmd, out),
                                      key |-> op[c].key, val |-> out]]
     /\ asked' = IF cmd \in {"SET", "DEL"} /\ out # <<1>>
                 THEN [asked EXCEPT ![c][op[c].key] = Unknown] ELSE asked
     /\ UNCHANGED <<model, session, writers>>

(* The connection closes and its context is destroyed; the next one under  *)
(* this name starts without a session.                                     *)
Disconnect(c) ==
  /\ op[c].step = "idle"
  /\ session' = [session EXCEPT ![c] = FALSE]
  /\ reply' = [reply EXCEPT ![c] = NoReply]
  /\ asked' = [asked EXCEPT ![c] = [k \in Keys |-> Unknown]]
  /\ UNCHANGED <<storeVars, model, writers>>

(* startReplica: a SET or DEL from the master, applied without a handler   *)
(* and its result only printed.                                            *)
Apply(cmd, k, arg) ==
  /\ model = "replicate"
  /\ Begin(Replicator, cmd, k, arg)
  /\ writers' = [writers EXCEPT ![k] = @ \cup {Replicator}]
  /\ UNCHANGED <<model, session, reply, asked>>

-----------------------------------------------------------------------------
(* The handlers that init_redis_service registers. *)
ConnStep(c) ==
  \/ \E right \in BOOLEAN : Auth(c, right)
  \/ \E k \in Keys, wellFormed \in BOOLEAN :
       \/ \E v \in Values : SetCommand(c, k, v, wellFormed)
       \/ \E s \in Seconds : ExpireCommand(c, k, s, wellFormed)
       \/ GetCommand(c, k, wellFormed)
       \/ DelCommand(c, k, wellFormed)
       \/ TtlCommand(c, k, wellFormed)
  \/ Answer(c)
  \/ Disconnect(c)

ReplicatorStep ==
  \/ \E k \in Keys : Apply("DEL", k, <<>>) \/ \E v \in Values : Apply("SET", k, v)
  \/ Finish(Replicator) /\ UNCHANGED <<model, session, reply, asked, writers>>

(* The steps inside LevelDBWrapper and around it. *)
StoreStep ==
  /\ (\E t \in Threads : ThreadStep(t)) \/ CleanerStep \/ Tick \/ AofStop
  /\ UNCHANGED <<model, session, reply, asked, writers>>

ServiceNext == (\E c \in Conns : ConnStep(c)) \/ ReplicatorStep \/ StoreStep

ServiceSpec == ServiceInit /\ [][ServiceNext]_serviceVars

-----------------------------------------------------------------------------
(* A connection that has not authenticated since it was opened gets        *)
(* nothing but errors, and none of its commands reaches LevelDBWrapper:    *)
(* each of the handlers has its own test, and the context with the session *)
(* goes with the connection and with the process.                          *)
SessionRequired ==
  \A c \in Conns : ~session[c] =>
    op[c].step = "idle" /\ reply[c].kind \in {"none", "error"}

(* A client that is alone in writing a key reads back what it was told was *)
(* stored or deleted, whatever the cleaner and the clock do, unless        *)
(* LevelDB failed, the file was stopped or a removal of the cleaner came   *)
(* late (raced): the expiry tag that put adds is taken off again by get,   *)
(* for every string without a tab.                                         *)
ReadYourWrites ==
  db_faults = 0 => \A c \in Conns :
    reply[c].to = "GET" /\ reply[c].kind # "error" =>
      LET k == reply[c].key
          v == asked[c][k]
      IN  writers[k] \subseteq {c} /\ k \notin raced /\ v # Unknown /\ Len(v) <= 1
            => reply[c].val = v

(* What the handlers of SET and DEL say ("slaver can not run 'set'         *)
(* command"): on a replicate, clients change nothing.                      *)
ReplicaReadOnly ==
  model = "replicate" => \A c \in Conns : op[c].step \notin {"append", "write"}
=============================================================================
