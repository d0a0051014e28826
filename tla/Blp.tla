---------------------------------- MODULE Blp ----------------------------------
(***************************************************************************)
(* The process, main of src/src/blp.cpp: it reads the configuration,       *)
(* makes the append-only file and the database, starts the brpc server of  *)
(* Service and a detached replication thread, waits to be asked to quit,   *)
(* and stops the file.  It may die at any time, and be started again on    *)
(* what is left of the file, written by a thread of its own as AppendLog   *)
(* describes, and on the database, whose writes are synced one by one.     *)
(***************************************************************************)
EXTENDS Service, Config

CONSTANTS
  ConfigFiles,    \* what conf/blp.conf may hold
  MaxRestarts,    \* bound: times that the process is started again
  MaxFaults       \* bound: failures of the start, of writev and of the
                  \* replication thread

ASSUME BlpAssumption ==
  /\ MaxRestarts \in Nat /\ MaxFaults \in Nat
  /\ \A f \in ConfigFiles : f \in Seq({f[i] : i \in DOMAIN f})

VARIABLES
  phase,      \* where main is
  file,       \* the configuration file, once opened
  line,       \* how many of its lines init has read
  conf,       \* the fields of namespace config
  opened,     \* has DB::Open set db_?
  listening,  \* does the brpc server take requests?
  role,       \* the detached replication thread
  entries,    \* the append-only file: [id, whole], id a position of log
  pending,    \* the positions of log accepted and not yet written
  failed,     \* has a writev failed in this process?
  cut,        \* history: the positions of log whose write to the database a
              \* death came before
  restarts,   \* history, for MaxRestarts
  faults      \* history, for MaxFaults

mainVars == <<phase, file, line, conf, opened, listening, role>>
fileVars == <<entries, pending, failed>>
blpVars  == <<serviceVars, mainVars, fileVars, cut, restarts, faults>>

(* The file, as Aof is shown to implement it. *)
File == INSTANCE AppendLog WITH log <- entries, next <- Len(log), published <- 0

NoRole == [step |-> "none", port |-> 0]

(* The static initialisers have run. *)
Unread == phase = "config" /\ file = <<>> /\ line = 0 /\ conf = Defaults

BlpInit ==
  /\ Init /\ Unread
  /\ model = "master"
  /\ session = [c \in Conns |-> FALSE]
  /\ reply = [c \in Conns |-> NoReply]
  /\ asked = [c \in Conns |-> [k \in Keys |-> Unknown]]
  /\ writers = [k \in Keys |-> {}]
  /\ opened = FALSE /\ listening = FALSE /\ role = NoRole
  /\ entries = <<>> /\ pending = <<>> /\ failed = FALSE
  /\ cut = {} /\ restarts = 0 /\ faults = 0

-----------------------------------------------------------------------------
(* Starting. *)

(* A step of the start that may fail and then ends the process. *)
Boot(from, to, succeeds) ==
  /\ phase = from
  /\ succeeds \/ faults < MaxFaults
  /\ phase' = IF succeeds THEN to ELSE "leave"
  /\ faults' = IF succeeds THEN faults ELSE faults + 1
  /\ UNCHANGED <<storeVars, session, reply, asked, writers, fileVars, cut,
                 restarts>>

(* config::init, a line at a time.  A file that cannot be opened, and a    *)
(* number that stoi does not take, throw out of main.                      *)
OpenConfig(f) ==
  /\ Boot("config", "load", TRUE)
  /\ file' = f
  /\ UNCHANGED <<line, conf, model, opened, listening, role>>
NoConfig ==
  /\ Boot("config", "leave", FALSE)
  /\ UNCHANGED <<file, line, conf, model, opened, listening, role>>
ReadLine ==
  LET names == Names(file[line + 1])
      text  == Trim(file[line + 1].value)
      fails == \E name \in names : Refused(name, text)
  IN /\ line < Len(file)
     /\ Boot("load", IF fails THEN "leave" ELSE "load", TRUE)
     /\ line' = IF fails THEN line ELSE line + 1
     /\ IF fails \/ names = {} THEN conf' = conf
        ELSE \E name \in names : conf' = SetValue(conf, name, text)
     /\ UNCHANGED <<file, model, opened, listening, role>>
ConfigRead ==
  /\ line = Len(file)
  /\ Boot("load", "aof", TRUE)
  /\ model' = IF Len(conf.model) = 1 THEN conf.model[1] ELSE "other"
  /\ UNCHANGED <<file, line, conf, opened, listening, role>>

(* The constructors of Aof and of LevelDBWrapper; the latter starts the    *)
(* cleaner.                                                                *)
MakeAof(succeeds) ==
  /\ Boot("aof", "open", succeeds)
  /\ UNCHANGED <<file, line, conf, model, opened, listening, role>>

(* LevelDBWrapper::init.  A main that leaves here leaves the cleaner       *)
(* behind.                                                                 *)
OpenDb(succeeds) ==
  /\ Boot("open", "start", succeeds)
  /\ opened' = succeeds
  /\ UNCHANGED <<file, line, conf, model, listening, role>>

StartServer(succeeds) ==
  /\ Boot("start", "role", succeeds)
  /\ listening' = succeeds
  /\ UNCHANGED <<file, line, conf, model, opened, role>>

(* The thread for the model.  For another one main returns, which stops    *)
(* the server as quitting does.                                            *)
StartRole ==
  LET known == model \in {"master", "replicate"}
  IN /\ Boot("role", IF known THEN "run" ELSE "join", TRUE)
     /\ role' = IF known THEN [NoRole EXCEPT !.step = "starting"] ELSE role
     /\ listening' = known
     /\ UNCHANGED <<file, line, conf, model, opened>>

(* The detached thread runs, and passes replica_port, an int16_t, as a     *)
(* uint16_t.                                                               *)
RunRole ==
  /\ role.step = "starting"
  /\ role' = [step |-> "running", port |-> conf.replica_port % U16]
  /\ UNCHANGED <<serviceVars, phase, file, line, conf, opened, listening,
                 fileVars, cut, restarts, faults>>

-----------------------------------------------------------------------------
(* Stopping. *)

(* RunUntilAskedToQuit: the server takes no more requests, and main waits  *)
(* for the handlers that run.                                              *)
Quit ==
  /\ phase = "run"
  /\ phase' = "join" /\ listening' = FALSE
  /\ UNCHANGED <<serviceVars, file, line, conf, opened, role, fileVars, cut,
                 restarts, faults>>

(* Mutant: main does not wait for the handlers. *)
JoinServerNot ==
  /\ phase = "join"
  /\ phase' = "stop"
  /\ UNCHANGED <<serviceVars, file, line, conf, opened, listening, role,
                 fileVars, cut, restarts, faults>>

JoinServer ==
  /\ phase = "join" /\ \A c \in Conns : op[c].step = "idle"
  /\ phase' = "stop"
  /\ UNCHANGED <<serviceVars, file, line, conf, opened, listening, role,
                 fileVars, cut, restarts, faults>>

(* aof.stop(), or ~Aof: appends are refused from now on.  In phase leave   *)
(* stop() waits for the writer, which may still write what is pending;     *)
(* after a failed writev it returns at once.                               *)
StopAof ==
  /\ phase = "stop"
  /\ phase' = "leave"
  /\ aof_open' = FALSE
  /\ UNCHANGED <<db, log, clock, op, cleanerVars, applied, raced, ops,
                 db_faults, model, session, reply, asked, writers, file, line,
                 conf, opened, listening, role, fileVars, cut, restarts, faults>>

-----------------------------------------------------------------------------
(* The writer thread: it writes the oldest frame, or writev fails, which   *)
(* gives up the rest of the batch, makes every later append be refused     *)
(* while the handlers go on, and leaves the writer to drain the queue.     *)
WriterPersists ==
  /\ UNCHANGED <<serviceVars, mainVars, failed, cut, restarts, faults>>
  /\ File!Persist

WriterFails ==
  /\ faults < MaxFaults
  /\ faults' = faults + 1
  /\ failed' = TRUE /\ aof_open' = FALSE
  /\ UNCHANGED <<db, log, clock, op, cleanerVars, applied, raced, ops,
                 db_faults, model, session, reply, asked, writers, mainVars,
                 cut, restarts>>
  /\ File!GiveUp

-----------------------------------------------------------------------------
(* The end of the process.  A client forgets its session, not what it was  *)
(* told; it cannot know about a command under way.                         *)
Halfway(k) == \E t \in Threads : op[t].step = "write" /\ op[t].key = k

(* Mutant: the database has not synced its last write to k. *)
PerishUnsynced ==
  /\ phase' = "exit"
  /\ db' \in {db} \cup {[db EXCEPT ![k] = <<>>] : k \in Keys}
  /\ cut' = cut \cup {op[t].at : t \in {u \in Threads : op[u].step = "write"}}
  /\ op' = [t \in Threads |-> Idle]
  /\ cleaner' = [step |-> "sleep"] /\ snap' = NoKeys /\ todo' = {}
  /\ session' = [c \in Conns |-> FALSE]
  /\ reply' = [c \in Conns |-> NoReply]
  /\ asked' = [c \in Conns |-> [k \in Keys |->
                 IF op[c].step # "idle" /\ op[c].key = k THEN Unknown
                 ELSE asked[c][k]]]
  /\ opened' = FALSE /\ listening' = FALSE /\ role' = NoRole
  /\ UNCHANGED <<log, applied, aof_open, clock, raced, ops, db_faults, model,
                 writers, file, line, conf, failed, restarts>>

Perish ==
  /\ phase' = "exit"
  /\ cut' = cut \cup {op[t].at : t \in {u \in Threads : op[u].step = "write"}}
  /\ op' = [t \in Threads |-> Idle]
  /\ cleaner' = [step |-> "sleep"] /\ snap' = NoKeys /\ todo' = {}
  /\ session' = [c \in Conns |-> FALSE]
  /\ reply' = [c \in Conns |-> NoReply]
  /\ asked' = [c \in Conns |-> [k \in Keys |->
                 IF op[c].step # "idle" /\ op[c].key = k THEN Unknown
                 ELSE asked[c][k]]]
  /\ opened' = FALSE /\ listening' = FALSE /\ role' = NoRole
  /\ UNCHANGED <<db, log, applied, aof_open, clock, raced, ops, db_faults, model,
                 writers, file, line, conf, failed, restarts>>

(* The file keeps what was written; the frame that the writer was at may   *)
(* be torn when the thread was cut off in it.                              *)
Abandon(cutOff) ==
  /\ pending' = <<>>
  /\ \/ entries' = entries
     \/ /\ cutOff /\ pending # <<>>
        /\ entries' = Append(entries, File!Entry(Head(pending), FALSE))

(* Return from main.  stop() may leave accepted frames in the queue; after *)
(* a failed writev the thread was never joined, and its destructor ends    *)
(* the process.                                                            *)
Leave ==
  /\ phase = "leave"
  /\ Perish /\ Abandon(failed)
  /\ UNCHANGED faults

(* On a master the detached thread makes its socket first: when socket,    *)
(* bind or listen fails, an exception that nobody catches ends the         *)
(* process.                                                                *)
RoleFails ==
  /\ role.step = "starting" /\ model = "master"
  /\ faults < MaxFaults
  /\ faults' = faults + 1
  /\ Perish /\ Abandon(TRUE)

(* Death.  The file may lose more than the code can, what was synced. *)
Kill ==
  /\ phase # "exit" /\ restarts < MaxRestarts
  /\ Perish /\ File!Perish
  /\ UNCHANGED faults

Restart ==
  /\ phase = "exit" /\ restarts < MaxRestarts
  /\ restarts' = restarts + 1
  /\ phase' = "config" /\ file' = <<>> /\ line' = 0 /\ conf' = Defaults
  /\ model' = "master"
  /\ aof_open' = TRUE /\ failed' = FALSE
  /\ UNCHANGED <<db, log, clock, op, cleanerVars, applied, raced, ops,
                 db_faults, session, reply, asked, writers, opened, listening,
                 role, entries, pending, cut, faults>>

-----------------------------------------------------------------------------
MainStep ==
  \/ (\E f \in ConfigFiles : OpenConfig(f)) \/ NoConfig \/ ReadLine \/ ConfigRead
  \/ \E succeeds \in BOOLEAN :
       MakeAof(succeeds) \/ OpenDb(succeeds) \/ StartServer(succeeds)
  \/ StartRole \/ Quit \/ JoinServer \/ StopAof \/ Leave

(* What runs beside main.  Until db_ is set the cleaner only polls it.  A  *)
(* command that the log takes is pending for the writer.                   *)
Working ==
  /\ \/ \E c \in Conns : (listening \/ op[c].step # "idle") /\ ConnStep(c)
     \/ role.step = "running" /\ ReplicatorStep
     \/ /\ (\E t \in Threads : ThreadStep(t)) \/ (opened /\ CleanerStep) \/ Tick
        /\ UNCHANGED <<model, session, reply, asked, writers>>
  /\ \/ log' # log /\ File!Accept
     \/ log' = log /\ UNCHANGED <<entries, pending>>
  /\ UNCHANGED <<mainVars, failed, cut, restarts, faults>>

BlpNext ==
  \/ MainStep \/ RunRole \/ RoleFails \/ Working \/ WriterPersists \/ WriterFails
  \/ Kill \/ Restart

BlpSpec == BlpInit /\ [][BlpNext]_blpVars

-----------------------------------------------------------------------------
(* Type invariant of the variables this module adds; the file and the      *)
(* writer hold commands that were accepted.                                *)
BlpTypeOK ==
  /\ phase \in {"config", "load", "aof", "open", "start", "role", "run", "join",
                "stop", "leave", "exit"}
  /\ line \in 0 .. Len(file)
  /\ {conf.port, conf.replica_port} \subseteq -(U16 \div 2) .. U16 \div 2 - 1
  /\ opened \in BOOLEAN /\ listening \in BOOLEAN /\ failed \in BOOLEAN
  /\ role.step \in {"none", "starting", "running"} /\ role.port \in 0 .. U16 - 1
  /\ entries \in Seq([id : 1 .. Len(log), whole : BOOLEAN])
  /\ pending \in Seq(1 .. Len(log))
  /\ cut \subseteq 0 .. Len(log)

(* main calls aof.stop() after brpc has waited for the handlers, so that   *)
(* the append of a client's command is refused only once a writev has      *)
(* failed.  That the append was accepted does not put it in the file.      *)
ClientWritesLogged ==
  \A c \in Conns : op[c].step = "write" /\ op[c].at = 0 => failed

(* What recoverFromAOF can read of the file, up to the first torn entry;   *)
(* what of it is about k; and the string that running it again, in order,  *)
(* would leave in the database.                                            *)
Readable == {i \in DOMAIN entries : \A j \in 1 .. i : entries[j].whole}
ReadableAbout(k) == {i \in Readable : log[entries[i].id].key = k}
FileReplay(k) ==
  IF ReadableAbout(k) = {} THEN <<>>
  ELSE LET last == CHOOSE i \in ReadableAbout(k) :
                     \A j \in ReadableAbout(k) : j <= i
           com == log[entries[last].id]
       IN  IF com.cmd = "DEL" THEN <<>> ELSE Stored(com.val)

(* The last command that was written to the database for k is in the part  *)
(* of the file that can be read, with none behind it whose write to the    *)
(* database a death came before.                                           *)
FileHas(k) ==
  /\ applied[k] = 0 \/ \E i \in ReadableAbout(k) : entries[i].id = applied[k]
  /\ \A i \in ReadableAbout(k) :
       entries[i].id > applied[k] => entries[i].id \notin cut

(* Across torn frames, failed writes of the file, deaths and restarts, the *)
(* readable part of the file has kept the order of the database's writes:  *)
(* for a key with no write under way whose last command survived in it,    *)
(* replaying it gives the database, up to an expired key that was removed  *)
(* unlogged, with the exceptions (raced) that ReplayAgrees has.            *)
ReplayAfterRestart ==
  \A k \in Keys \ raced :
    ~Halfway(k) /\ FileHas(k) =>
      \/ db[k] = FileReplay(k)
      \/ db[k] = <<>> /\ Verdict(FileReplay(k), clock) = "expired"

(* The lines among the first n that set replica_port. *)
PortLines(n) == {i \in 1 .. n : "replica_port" \in Names(file[i])}

(* The port that the replication thread is given is the last number that   *)
(* the file sets, as a uint16_t: it is kept in an int16_t, and every port  *)
(* number comes through that unchanged.                                    *)
ReplicaPortAsWritten ==
  role.step = "running" =>
    LET set == PortLines(Len(file))
    IN  \/ set = {} /\ role.port = Defaults.replica_port
        \/ \E i \in set : /\ \A j \in set : j <= i
                          /\ role.port = Trim(file[i].value)[1] % U16
===============================================================================
