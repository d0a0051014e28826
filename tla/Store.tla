-------------------------------- MODULE Store --------------------------------
(***************************************************************************)
(* LevelDBWrapper of src/src/core/db.{h,cpp}: threads run put, get,        *)
(* remove, ttl and expire on a LevelDB database, each write logged in the  *)
(* append-only file before it reaches the database, while a detached       *)
(* thread sweeps expired keys.  No lock spans the steps of an operation.   *)
(*                                                                         *)
(* A string is the sequence of the tokens its tab characters separate; a   *)
(* token is Empty, a number (a text that starts with one counts as that    *)
(* number) or some other text.  <<>> is what a read leaves in the caller's *)
(* string for a key that is not there.                                     *)
(***************************************************************************)
EXTENDS Integers, Sequences

CONSTANTS
  Threads,      \* threads that call LevelDBWrapper
  Keys,
  Values,       \* the strings SET may be given
  Seconds,      \* the int64 arguments EXPIRE may be given
  Empty,        \* the text between two tabs that follow each other
  U64,          \* 2^64
  MaxClock,     \* bound: last value of the clock
  MaxOps,       \* bound: operations begun
  MaxDbFaults   \* bound: LevelDB calls that fail

ASSUME StoreAssumption ==
  /\ U64 \in Nat /\ MaxClock \in Nat /\ 0 < MaxClock /\ MaxClock < U64 - 1
  /\ Seconds \subseteq Int /\ Empty \notin Int
  /\ MaxOps \in Nat /\ MaxDbFaults \in Nat
  /\ <<>> \notin Values
  /\ \A v \in Values : v \in Seq({v[i] : i \in DOMAIN v})

VARIABLES
  db,        \* the database
  log,       \* history: the commands appendCommand... accepted, oldest first;
             \* not what is in the file, which is in Aof and in Blp
  aof_open,  \* has the append-only file not been stopped?
  clock,     \* now_sec()
  op,        \* the operation each thread is in
  cleaner,   \* where ttl_cleaner is
  snap,      \* what its iterator sees
  todo,      \* the keys its iterator has not reached
  applied,   \* history: the latest position of log whose write was attempted
  raced,     \* history: the keys whose last change in db the log does not tell
  ops,       \* history: operations begun, for MaxOps
  db_faults  \* history: failed calls, for MaxDbFaults

cleanerVars == <<cleaner, snap, todo>>
storeVars   == <<db, log, aof_open, clock, op, cleanerVars, applied, raced,
                 ops, db_faults>>

Never == U64 - 1

(* value + "\t-1" *)
Stored(v) == Append(v, -1)

(* What std::stoull reads of the text after the first tab: it skips white  *)
(* space, further tabs included, and stops at the next tab.                *)
Text(raw) ==
  LET marked == {i \in 2 .. Len(raw) : raw[i] # Empty}
  IN  IF marked = {} THEN Empty
      ELSE raw[CHOOSE i \in marked : \A j \in marked : i <= j]

(* It takes a negative number modulo 2^64, and throws out_of_range for a   *)
(* number of more than 64 bits as it throws for a text that is no number.  *)
Parses(raw) == Text(raw) \in -(U64 - 1) .. U64 - 1
Expiry(raw) == Text(raw) % U64

(* How get, ttl and ttl_cleaner, each with its own copy of the test, judge *)
(* the string raw at the time now.                                         *)
Verdict(raw, now) ==
  CASE raw = <<>>           -> "absent"
    [] Len(raw) = 1         -> "untagged"
    [] Len(raw) > 1 /\ ~Parses(raw) -> "garbled"
    [] Len(raw) > 1 /\ Parses(raw) ->
         IF Expiry(raw) = Never THEN "persistent"
         ELSE IF Expiry(raw) <= now THEN "expired" ELSE "live"

(* A uint64 returned as an int64. *)
Int64(n) == IF n < U64 \div 2 THEN n ELSE n - U64

Idle == [step |-> "idle"]
NoKeys == [k \in Keys |-> <<>>]

Init ==
  /\ db = NoKeys /\ log = <<>> /\ aof_open = TRUE /\ clock = 1
  /\ op = [t \in Threads |-> Idle]
  /\ cleaner = [step |-> "sleep"] /\ snap = NoKeys /\ todo = {}
  /\ applied = [k \in Keys |-> 0] /\ raced = {}
  /\ ops = 0 /\ db_faults = 0

-----------------------------------------------------------------------------
(* A LevelDB write of v to k: it takes effect, or fails and is counted.    *)
DbWrite(k, v, succeeds) ==
  /\ succeeds \/ db_faults < MaxDbFaults
  /\ db' = IF succeeds THEN [db EXCEPT ![k] = v] ELSE db
  /\ db_faults' = IF succeeds THEN db_faults ELSE db_faults + 1

(* impl_->remove(k) of a key that was judged expired: nothing is logged.   *)
(* It is a race when the value it removes is another, still valid one.     *)
Evict(k, succeeds) ==
  /\ DbWrite(k, <<>>, succeeds)
  /\ raced' = IF succeeds /\ Verdict(db[k], clock) \notin {"absent", "expired"}
              THEN raced \cup {k} ELSE raced
  /\ UNCHANGED <<log, aof_open, clock, applied, ops>>

(* Thread t goes on at step s with the string v; it returns out. *)
Goto(t, s, v)  == op' = [op EXCEPT ![t].step = s, ![t].val = v]
Return(t, out) ==
  op' = [op EXCEPT ![t] = [step |-> "return", cmd |-> op[t].cmd,
                           key |-> op[t].key, val |-> out]]

(* A call of put, remove, get, ttl or expire with its arguments. *)
Begin(t, cmd, k, arg) ==
  /\ op[t].step = "idle" /\ ops < MaxOps
  /\ ops' = ops + 1
  /\ op' = [op EXCEPT ![t] =
              [step |-> IF cmd \in {"SET", "DEL"} THEN "append" ELSE "read",
               cmd |-> cmd, key |-> k, arg |-> arg,
               val |-> IF cmd = "SET" THEN arg ELSE <<>>, at |-> 0]]
  /\ UNCHANGED <<db, log, aof_open, clock, cleanerVars, applied, raced,
                 db_faults>>

(* impl_->get at the start of get, ttl and expire.  Its status is ignored, *)
(* so a failed read is a missing key.                                      *)
Read(t) ==
  /\ op[t].step = "read"
  /\ \/ Goto(t, "judge", db[op[t].key]) /\ UNCHANGED db_faults
     \/ /\ db_faults < MaxDbFaults
        /\ Goto(t, "judge", <<>>) /\ db_faults' = db_faults + 1
  /\ UNCHANGED <<db, log, aof_open, clock, cleanerVars, applied, raced, ops>>

(* get, from the string it read: a miss, a hit, or an expired key that it  *)
(* goes on to remove.                                                      *)
JudgeGet(t) ==
  /\ op[t].step = "judge" /\ op[t].cmd = "GET"
  /\ LET verdict == Verdict(op[t].val, clock)
     IN  \/ verdict = "expired" /\ Goto(t, "evict", <<>>)
         \/ verdict \in {"absent", "garbled"} /\ Return(t, <<>>)
         \/ /\ verdict \in {"untagged", "persistent", "live"}
            /\ Return(t, <<op[t].val[1]>>)
  /\ UNCHANGED <<db, log, aof_open, clock, cleanerVars, applied, raced, ops,
                 db_faults>>

LazyRemove(t, succeeds) ==
  /\ op[t].step = "evict"
  /\ Evict(op[t].key, succeeds)
  /\ Return(t, <<>>)
  /\ UNCHANGED cleanerVars

(* ttl, from the string it read. *)
JudgeTtl(t) ==
  /\ op[t].step = "judge" /\ op[t].cmd = "TTL"
  /\ LET verdict == Verdict(op[t].val, clock)
     IN  \/ verdict \in {"absent", "untagged", "expired"} /\ Return(t, <<-2>>)
         \/ verdict \in {"garbled", "persistent"} /\ Return(t, <<-1>>)
         \/ /\ verdict = "live"
            /\ Return(t, <<Int64(Expiry(op[t].val) - clock)>>)
  /\ UNCHANGED <<db, log, aof_open, clock, cleanerVars, applied, raced, ops,
                 db_faults>>

(* Mutant: the new time is kept as an int64_t. *)
JudgeExpireSigned(t) ==
  /\ op[t].step = "judge" /\ op[t].cmd = "EXPIRE"
  /\ \/ op[t].val = <<>> /\ Return(t, <<0>>)
     \/ /\ op[t].val # <<>>
        /\ Goto(t, "append", <<op[t].val[1], clock + op[t].arg[1]>>)
  /\ UNCHANGED <<db, log, aof_open, clock, cleanerVars, applied, raced, ops,
                 db_faults>>

(* expire, from the string it read: any string, expired or not, is put     *)
(* back with a new time.                                                   *)
JudgeExpire(t) ==
  /\ op[t].step = "judge" /\ op[t].cmd = "EXPIRE"
  /\ \/ op[t].val = <<>> /\ Return(t, <<0>>)
     \/ /\ op[t].val # <<>>
        /\ Goto(t, "append", <<op[t].val[1], (clock + op[t].arg[1]) % U64>>)
  /\ UNCHANGED <<db, log, aof_open, clock, cleanerVars, applied, raced, ops,
                 db_faults>>

(* Mutant: the database is written before the command is logged. *)
LogCommandLate(t) ==
  /\ op[t].step = "append"
  /\ op' = [op EXCEPT ![t].step = "write"]
  /\ db' = [db EXCEPT ![op[t].key] =
              IF op[t].cmd = "DEL" THEN <<>> ELSE Stored(op[t].val)]
  /\ UNCHANGED <<log, aof_open, clock, cleanerVars, applied, raced, ops,
                 db_faults>>

(* Mutant: the time that expire puts behind the value left out of the      *)
(* logged command.                                                         *)
LogCommandBare(t) ==
  /\ op[t].step = "append" /\ aof_open
  /\ log' = Append(log, [cmd |-> IF op[t].cmd = "DEL" THEN "DEL" ELSE "SET",
                         key |-> op[t].key,
                         val |-> IF op[t].cmd = "EXPIRE" THEN <<op[t].val[1]>>
                                                         ELSE op[t].val])
  /\ op' = [op EXCEPT ![t].step = "write", ![t].at = Len(log) + 1]
  /\ UNCHANGED <<db, aof_open, clock, cleanerVars, applied, raced, ops,
                 db_faults>>

(* appendCommandAsync and, when that refuses, appendCommandBlocking: only  *)
(* a stopped file refuses both, and put and remove go on without it.  The  *)
(* put of an expire is logged as a SET.                                    *)
LogCommand(t) ==
  /\ op[t].step = "append"
  /\ log' = IF aof_open
            THEN Append(log, [cmd |-> IF op[t].cmd = "DEL" THEN "DEL" ELSE "SET",
                              key |-> op[t].key, val |-> op[t].val])
            ELSE log
  /\ op' = [op EXCEPT ![t].step = "write",
                      ![t].at = IF aof_open THEN Len(log) + 1 ELSE 0]
  /\ UNCHANGED <<db, aof_open, clock, cleanerVars, applied, raced, ops,
                 db_faults>>

(* impl_->put or impl_->remove at the end of put and remove.  It is a race *)
(* when the log does not hold the command, or holds a later one for the    *)
(* key whose write came first, or when the write fails.                    *)
Write(t, succeeds) ==
  LET k == op[t].key
      inOrder == op[t].at > applied[k]
  IN /\ op[t].step = "write"
     /\ DbWrite(k, IF op[t].cmd = "DEL" THEN <<>> ELSE Stored(op[t].val), succeeds)
     /\ applied' = IF inOrder THEN [applied EXCEPT ![k] = op[t].at] ELSE applied
     /\ raced' = IF succeeds /\ inOrder THEN raced \ {k} ELSE raced \cup {k}
     /\ Return(t, IF succeeds THEN <<1>> ELSE <<0>>)
     /\ UNCHANGED <<log, aof_open, clock, cleanerVars, ops>>

(* The caller has the result. *)
Finish(t) ==
  /\ op[t].step = "return"
  /\ op' = [op EXCEPT ![t] = Idle]
  /\ UNCHANGED <<db, log, aof_open, clock, cleanerVars, applied, raced, ops,
                 db_faults>>

-----------------------------------------------------------------------------
(* ttl_cleaner.  An iterator shows the database as it was when it was      *)
(* created.                                                                *)
CleanerOpen ==
  /\ cleaner.step = "sleep"
  /\ cleaner' = [step |-> "sweep"]
  /\ snap' = db
  /\ todo' = {k \in Keys : db[k] # <<>>}
  /\ UNCHANGED <<db, log, aof_open, clock, op, applied, raced, ops, db_faults>>

(* Mutant: the cleaner keeps a key in the second in which it expires. *)
CleanerVisitStrict(k) ==
  /\ cleaner.step = "sweep" /\ k \in todo
  /\ todo' = todo \ {k}
  /\ cleaner' = IF Verdict(snap[k], clock - 1) = "expired"
                THEN [step |-> "evict", key |-> k] ELSE cleaner
  /\ UNCHANGED <<db, log, aof_open, clock, op, snap, applied, raced, ops,
                 db_faults>>

(* One turn of the for loop; each key is judged at the time of its turn. *)
CleanerVisit(k) ==
  /\ cleaner.step = "sweep" /\ k \in todo
  /\ todo' = todo \ {k}
  /\ cleaner' = IF Verdict(snap[k], clock) = "expired"
                THEN [step |-> "evict", key |-> k] ELSE cleaner
  /\ UNCHANGED <<db, log, aof_open, clock, op, snap, applied, raced, ops,
                 db_faults>>

CleanerEvict(succeeds) ==
  /\ cleaner.step = "evict"
  /\ Evict(cleaner.key, succeeds)
  /\ cleaner' = [step |-> "sweep"]
  /\ UNCHANGED <<op, snap, todo>>

CleanerSleep ==
  /\ cleaner.step = "sweep" /\ todo = {}
  /\ cleaner' = [step |-> "sleep"]
  /\ snap' = NoKeys
  /\ UNCHANGED <<db, log, aof_open, clock, op, todo, applied, raced, ops,
                 db_faults>>

-----------------------------------------------------------------------------
(* The system clock, taken not to go back. *)
Tick ==
  /\ clock < MaxClock
  /\ clock' = clock + 1
  /\ UNCHANGED <<db, log, aof_open, op, cleanerVars, applied, raced, ops,
                 db_faults>>

(* The file's writer failed or Aof::stop() was called: the file refuses    *)
(* from now on.  The commands it accepted before stay in log, also those   *)
(* that the writer gives up; Blp has what becomes of them.                 *)
AofStop ==
  /\ aof_open
  /\ aof_open' = FALSE
  /\ UNCHANGED <<db, log, clock, op, cleanerVars, applied, raced, ops,
                 db_faults>>

Call(t) == \E k \in Keys :
  \/ \E v \in Values : Begin(t, "SET", k, v)
  \/ \E s \in Seconds : Begin(t, "EXPIRE", k, <<s>>)
  \/ \E cmd \in {"GET", "DEL", "TTL"} : Begin(t, cmd, k, <<>>)

ThreadStep(t) ==
  \/ Read(t) \/ JudgeGet(t) \/ JudgeTtl(t) \/ JudgeExpire(t) \/ LogCommand(t)
  \/ \E succeeds \in BOOLEAN : LazyRemove(t, succeeds) \/ Write(t, succeeds)

CleanerStep ==
  \/ CleanerOpen \/ (\E k \in Keys : CleanerVisit(k)) \/ CleanerSleep
  \/ \E succeeds \in BOOLEAN : CleanerEvict(succeeds)

Next ==
  \/ \E t \in Threads : Call(t) \/ ThreadStep(t) \/ Finish(t)
  \/ CleanerStep \/ Tick \/ AofStop

Spec == Init /\ [][Next]_storeVars

(* The cleaner is a running thread that sleeps for a minute at a time. *)
FairSpec == Spec /\ WF_storeVars(CleanerStep)

-----------------------------------------------------------------------------
(* The strings that put is given: a client's, or a client's first token    *)
(* with the uint64_t that expire puts behind it.                           *)
Puts == Values \cup {<<v[1], e>> : v \in Values, e \in 0 .. U64 - 1}
Raws == {<<>>} \cup {Stored(v) : v \in Puts}

(* The variables hold what the declarations in db.cpp can hold: whatever   *)
(* clients, expire and cleaner do to a key, its string in the database and *)
(* in the log has the one form that get, ttl and expire take apart, with a *)
(* time of 64 bits without a sign.                                         *)
TypeOK ==
  /\ db \in [Keys -> Raws] /\ snap \in [Keys -> Raws] /\ DOMAIN op = Threads
  /\ \A i \in DOMAIN log :
       /\ log[i].key \in Keys
       /\ \/ log[i].cmd = "SET" /\ log[i].val \in Puts
          \/ log[i].cmd = "DEL" /\ log[i].val = <<>>
  /\ aof_open \in BOOLEAN /\ clock \in 1 .. MaxClock
  /\ \A t \in Threads : op[t].step \in {"idle", "read", "judge", "evict",
                                        "append", "write", "return"}
  /\ cleaner.step \in {"sleep", "sweep", "evict"}
  /\ todo \subseteq Keys /\ raced \subseteq Keys
  /\ \A k \in Keys : applied[k] \in 0 .. Len(log)

(* The positions of the commands of log on k, and the string that running  *)
(* them again, in order, would leave in the database.                      *)
About(k) == {i \in DOMAIN log : log[i].key = k}
Replay(k) ==
  IF About(k) = {} THEN <<>>
  ELSE LET last == CHOOSE i \in About(k) : \A j \in About(k) : j <= i
       IN  IF log[last].cmd = "DEL" THEN <<>> ELSE Stored(log[last].val)

(* put and remove log first and write second, without a lock around both:  *)
(* for a key with no write between its two halves, replaying the log gives *)
(* the database, up to an expired key that was removed unlogged, unless    *)
(* the key's last change was a failed write, an unlogged write, a write    *)
(* overtaken by a later command, or the removal of a value other than the  *)
(* one judged expired.                                                     *)
ReplayAgrees ==
  \A k \in Keys \ raced :
    (\A t \in Threads : op[t].step = "write" => op[t].key # k) =>
      \/ db[k] = Replay(k)
      \/ db[k] = <<>> /\ Verdict(Replay(k), clock) = "expired"

(* While the file is open, no get returns a value that another thread has  *)
(* put and the log does not hold yet: the log is ahead of the readers.     *)
LogAheadOfReaders ==
  aof_open => \A t \in Threads :
    op[t].step = "return" /\ op[t].cmd = "GET" /\ op[t].val # <<>> =>
      \E i \in About(op[t].key) : log[i].val # <<>> /\ log[i].val[1] = op[t].val[1]

(* Nobody has to ask for an expired key: ttl_cleaner removes it, unless it *)
(* is written again first.                                                 *)
ExpiredReaped ==
  \A k \in Keys :
    Verdict(db[k], clock) = "expired" ~> Verdict(db[k], clock) # "expired"

(* What the comment in get says of the removal there ("Key has expired,    *)
(* remove it"): a value that get or ttl_cleaner removes has expired.       *)
RemovesOnlyExpired ==
  [][\A k \in Keys :
       /\ db[k] # <<>> /\ db'[k] = <<>>
       /\ \A t \in Threads : op[t].step = "write" => op'[t] = op[t]
       => Verdict(db[k], clock) = "expired"]_storeVars
=============================================================================
