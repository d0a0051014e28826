----------------------------- MODULE StoreProofs -----------------------------
(***************************************************************************)
(* Theorems about Store, for any threads, keys, values and bounds.  The    *)
(* lemmas are about the actions of LevelDBWrapper, whoever calls it, so    *)
(* that they hold for the process of Blp as well.                          *)
(***************************************************************************)
EXTENDS Store, SequenceTheorems, TLAPS

Tokens  == Int \cup UNION {{v[i] : i \in DOMAIN v} : v \in Values}
Strings == Seq(Tokens)

Cmds == {"SET", "DEL", "GET", "TTL", "EXPIRE"}
Busy == [step : {"read", "judge", "evict", "append", "write"}, cmd : Cmds,
         key : Keys, arg : Strings, val : Strings, at : Nat]
Done == [step : {"return"}, cmd : Cmds, key : Keys, val : Strings]
Logged == [cmd : {"SET", "DEL"}, key : Keys, val : Strings]

(* The types that TypeOK leaves open. *)
DbShape == db \in [Keys -> Strings] /\ snap \in [Keys -> Strings]
LogShape ==
  /\ log \in Seq(Logged) /\ applied \in [Keys -> Nat]
  /\ \A k \in Keys : applied[k] <= Len(log)
OpShape ==
  /\ op \in [Threads -> {Idle} \cup Busy \cup Done]
  /\ \A t \in Threads :
       op[t].step \in {"read", "judge"} /\ op[t].cmd = "EXPIRE" => op[t].arg[1] \in Int
ClockShape == clock \in 1 .. MaxClock
CleanerShape ==
  /\ cleaner \in [step : {"sleep", "sweep"}] \cup [step : {"evict"}, key : Keys]
  /\ todo \subseteq Keys /\ raced \subseteq Keys
StoreShape == DbShape /\ LogShape /\ OpShape /\ ClockShape /\ CleanerShape

(* A call with its arguments; the file refuses from now on, or did so      *)
(* already; and every step of LevelDBWrapper.                              *)
CallStep(t) ==
  \E cmd \in Cmds, k \in Keys, arg \in Strings :
    /\ cmd = "SET" => arg \in Values
    /\ cmd = "EXPIRE" => \E s \in Int : arg = <<s>>
    /\ Begin(t, cmd, k, arg)
Refuses ==
  /\ aof_open' = FALSE
  /\ UNCHANGED <<db, log, clock, op, cleanerVars, applied, raced, ops, db_faults>>
StoreAct ==
  \/ \E t \in Threads : CallStep(t) \/ ThreadStep(t) \/ Finish(t)
  \/ CleanerStep \/ Tick \/ Refuses

(* The command that thread t logs, and what a logged command does. *)
Entry(o) == [cmd |-> IF o.cmd = "DEL" THEN "DEL" ELSE "SET",
             key |-> o.key, val |-> o.val]
Result(c) == IF c.cmd = "DEL" THEN <<>> ELSE Stored(c.val)

(* A write under way has its command in the log, unless the file refused.  *)
Carried ==
  \A t \in Threads : op[t].step = "write" /\ op[t].at > 0 =>
    op[t].at <= Len(log) /\ log[op[t].at] = Entry(op[t])

(* The database holds what the command at applied[k] put there, or that    *)
(* has expired and was removed.                                            *)
Holds(k, a) ==
  \/ a = 0 /\ db[k] = <<>>
  \/ /\ a > 0 /\ log[a].key = k
     /\ \/ db[k] = Result(log[a])
        \/ db[k] = <<>> /\ Verdict(Result(log[a]), clock) = "expired"
Matches(k) == k \notin raced => Holds(k, applied[k])

(* Every later command on k belongs to a write that is under way, but for  *)
(* the positions in cuts.                                                  *)
Covered(k, cuts) ==
  \A i \in 1 .. Len(log) : log[i].key = k /\ i > applied[k] /\ i \notin cuts =>
    \E t \in Threads : op[t].step = "write" /\ op[t].key = k /\ op[t].at = i

(* A value that readers have seen is in the log. *)
Known(l, k, s) ==
  s # <<>> => \E i \in 1 .. Len(l) : /\ l[i].key = k /\ l[i].val # <<>>
                                     /\ l[i].val[1] = s[1]
Ahead ==
  aof_open =>
    /\ \A k \in Keys : Known(log, k, db[k])
    /\ \A t \in Threads :
         /\ op[t].step = "judge" => Known(log, op[t].key, op[t].val)
         /\ op[t].step = "return" /\ op[t].cmd = "GET" =>
              Known(log, op[t].key, op[t].val)
         /\ op[t].step = "write" => op[t].at > 0

(* What put and remove are given: put never an empty string. *)
Given(o) ==
  o.step \in {"append", "write"} =>
    o.cmd \in {"SET", "DEL", "EXPIRE"} /\ (o.cmd # "DEL" => o.val # <<>>)
AllGiven == \A t \in Threads : Given(op[t])

(* How a thread goes on without a look at the log or a change of the       *)
(* database.                                                               *)
Moves(t) ==
  \/ op[t].step = "idle" /\ op'[t].step \in {"append", "read"} /\ Given(op'[t])
  \/ op[t].step = "return" /\ op'[t].step = "idle"
  \/ /\ op'[t].key = op[t].key /\ op'[t].cmd = op[t].cmd /\ op[t].key \in Keys
     /\ \/ /\ op[t].step = "read" /\ op'[t].step = "judge"
           /\ \/ op'[t].val = db[op[t].key]
              \/ op'[t].val = <<>> /\ db_faults' = db_faults + 1
        \/ /\ op[t].step = "judge" /\ op'[t].step = "append"
           /\ op[t].cmd = "EXPIRE" /\ op'[t].val # <<>>
        \/ /\ op[t].step = "judge" /\ op'[t].step = "evict"
           /\ op[t].cmd = "GET" /\ Verdict(op[t].val, clock) = "expired"
        \/ /\ op[t].step = "judge" /\ op'[t].step = "return"
           /\ op[t].cmd = "GET" =>
                \/ op'[t].val = <<>> /\ Verdict(op[t].val, clock) \in {"absent", "garbled"}
                \/ op'[t].val = <<op[t].val[1]>> /\ op[t].val # <<>>

-----------------------------------------------------------------------------
(* Strings. *)

(* Numbers are tokens. *)
LEMMA IntTokens == Int \subseteq Tokens /\ U64 \in Nat /\ U64 > 1
BY StoreAssumption DEF Tokens

(* The strings SET may be given are strings, and none is empty. *)
LEMMA ValueStrings == ASSUME NEW v \in Values PROVE v \in Strings /\ v # <<>>
<1> DEFINE T == {v[i] : i \in DOMAIN v}
<1>1. v \in Seq(T) /\ v # <<>>
  BY StoreAssumption
<1>2. T \subseteq Tokens
  BY DEF Tokens
<1> HIDE DEF T
<1>3. v \in Seq(Tokens)
  BY <1>1, <1>2, SeqMonotonic
<1>4. QED
  BY <1>1, <1>3 DEF Strings

(* The strings that put and remove make. *)
LEMMA ShortStrings ==
  /\ <<>> \in Strings
  /\ \A x \in Tokens : <<x>> \in Strings /\ <<x>> # <<>>
  /\ \A x, y \in Tokens : <<x, y>> \in Strings /\ <<x, y>> # <<>>
BY DEF Strings

(* What find and stoull look at. *)
LEMMA FirstToken ==
  ASSUME NEW s \in Strings
  PROVE  /\ Len(s) \in Nat /\ DOMAIN s = 1 .. Len(s)
         /\ s = <<>> <=> Len(s) = 0
         /\ s # <<>> => s[1] \in Tokens
BY EmptySeq, LenProperties, ElementOfSeq DEF Strings

(* The tag that put adds goes behind the string. *)
LEMMA StoredString ==
  ASSUME NEW v \in Strings
  PROVE  /\ Stored(v) \in Strings /\ Stored(v) # <<>>
         /\ v # <<>> => Stored(v)[1] = v[1]
<1>1. -1 \in Tokens /\ v \in Seq(Tokens)
  BY IntTokens DEF Strings
<1>2. /\ Append(v, -1) \in Seq(Tokens) /\ Append(v, -1) # <<>>
      /\ \A i \in 1 .. Len(v) : Append(v, -1)[i] = v[i]
  BY <1>1, AppendProperties
<1>3. v # <<>> => 1 \in 1 .. Len(v)
  BY FirstToken
<1>4. QED
  BY <1>2, <1>3 DEF Stored, Strings

(* Only a missing key is absent, and what has expired stays expired. *)
LEMMA Verdicts ==
  ASSUME NEW raw \in Strings, NEW now \in Int
  PROVE  /\ Verdict(raw, now) = "absent" <=> raw = <<>>
         /\ Verdict(raw, now) \in {"untagged", "persistent", "live", "expired"} =>
              raw # <<>>
         /\ Verdict(raw, now) = "expired" =>
              Len(raw) > 1 /\ Parses(raw) /\ Expiry(raw) # Never /\ Expiry(raw) <= now
         /\ Len(raw) > 1 /\ Parses(raw) /\ Expiry(raw) # Never /\ Expiry(raw) <= now
              => Verdict(raw, now) = "expired"
         /\ Verdict(raw, now) = "live" => Expiry(raw) \in Int
<1>1. /\ Len(raw) \in Nat /\ (raw = <<>> <=> Len(raw) = 0)
  BY FirstToken
<1>2. Parses(raw) => Expiry(raw) \in Int
  BY IntTokens DEF Expiry, Parses
<1>3. CASE raw = <<>>
  BY <1>1, <1>3 DEF Verdict
<1>4. CASE Len(raw) = 1
  BY <1>1, <1>4 DEF Verdict
<1>5. CASE Len(raw) > 1 /\ ~Parses(raw)
  BY <1>1, <1>5 DEF Verdict
<1>6. CASE Len(raw) > 1 /\ Parses(raw)
  <2>1. raw # <<>> /\ Len(raw) # 1
    <3>1. Len(raw) > 1
      BY <1>6
    <3>2. \A n \in Nat : n > 1 => n # 0 /\ n # 1
      OBVIOUS
    <3>3. QED
      BY <1>1, <3>1, <3>2, Zenon
  <2>2. Verdict(raw, now) =
          IF Expiry(raw) = Never THEN "persistent"
          ELSE IF Expiry(raw) <= now THEN "expired" ELSE "live"
    BY <1>6, <2>1 DEF Verdict
  <2>3. QED
    BY <1>2, <1>6, <2>1, <2>2
<1>7. raw = <<>> \/ Len(raw) = 1 \/ Len(raw) > 1
  BY <1>1
<1>8. QED
  BY <1>3, <1>4, <1>5, <1>6, <1>7, Zenon

(* An expired value stays so. *)
LEMMA ExpiredStays ==
  ASSUME NEW raw \in Strings, NEW now \in Int, Verdict(raw, now) = "expired"
  PROVE  Verdict(raw, now + 1) = "expired"
<1>1. /\ Len(raw) > 1 /\ Parses(raw) /\ Expiry(raw) # Never /\ Expiry(raw) <= now
  BY Verdicts
<1>2. Expiry(raw) \in Int
  BY <1>1, IntTokens DEF Expiry, Parses
<1>3. Expiry(raw) <= now + 1 /\ now + 1 \in Int
  BY <1>1, <1>2
<1>4. QED
  BY <1>1, <1>3, Verdicts


-----------------------------------------------------------------------------
(* Types. *)

(* The fields of an operation go with the place where it is. *)
LEMMA StepKinds ==
  ASSUME OpShape, NEW t \in Threads
  PROVE  /\ op[t].step \in {"read", "judge", "evict", "append", "write"} => op[t] \in Busy
         /\ op[t].step = "return" => op[t] \in Done
         /\ op[t].step \in {"idle", "read", "judge", "evict", "append", "write", "return"}
<1>1. op[t] \in {Idle} \cup Busy \cup Done
  BY DEF OpShape
<1>2. CASE op[t] = Idle
  BY <1>2 DEF Idle
<1>3. CASE op[t] \in Busy
  BY <1>3 DEF Busy
<1>4. CASE op[t] \in Done
  BY <1>4 DEF Done
<1>5. QED
  BY <1>1, <1>2, <1>3, <1>4

(* What a step of thread t leaves of op. *)
LEMMA GotoShape ==
  ASSUME OpShape, NEW t \in Threads, op[t] \in Busy,
         NEW s \in {"judge", "evict", "append"}, s = "judge" => op[t].step = "read",
         NEW v \in Strings, Goto(t, s, v)
  PROVE  /\ OpShape' /\ \A u \in Threads : u # t => op'[u] = op[u]
         /\ op'[t] = [op[t] EXCEPT !.step = s, !.val = v]
         /\ op'[t] \in Busy /\ op'[t].step = s /\ op'[t].val = v
         /\ op'[t].cmd = op[t].cmd /\ op'[t].key = op[t].key /\ op'[t].at = op[t].at
<1>1. op \in [Threads -> {Idle} \cup Busy \cup Done]
  BY DEF OpShape
<1>2. op' = [op EXCEPT ![t] = [op[t] EXCEPT !.step = s, !.val = v]]
  BY <1>1 DEF Goto
<1>3. [op[t] EXCEPT !.step = s, !.val = v] \in Busy
  BY DEF Busy
<1>4. op'[t] = [op[t] EXCEPT !.step = s, !.val = v]
  BY <1>1, <1>2
<1>5. /\ op'[t].step = s /\ op'[t].val = v
      /\ op'[t].cmd = op[t].cmd /\ op'[t].key = op[t].key /\ op'[t].at = op[t].at
      /\ op'[t].arg = op[t].arg
  BY <1>4 DEF Busy
<1>6. QED
  BY <1>1, <1>2, <1>3, <1>4, <1>5 DEF OpShape

(* An operation returns. *)
LEMMA ReturnShape ==
  ASSUME OpShape, NEW t \in Threads, op[t] \in Busy, NEW out \in Strings, Return(t, out)
  PROVE  /\ OpShape' /\ \A u \in Threads : u # t => op'[u] = op[u]
         /\ op'[t] \in Done /\ op'[t].step = "return" /\ op'[t].val = out
         /\ op'[t].cmd = op[t].cmd /\ op'[t].key = op[t].key
<1> DEFINE o == [step |-> "return", cmd |-> op[t].cmd, key |-> op[t].key, val |-> out]
<1>1. op \in [Threads -> {Idle} \cup Busy \cup Done]
  BY DEF OpShape
<1>2. o \in Done
  BY DEF Busy, Done
<1>3. op' = [op EXCEPT ![t] = o]
  BY DEF Return
<1>4. o.step = "return" /\ o.val = out /\ o.cmd = op[t].cmd /\ o.key = op[t].key
  OBVIOUS
<1> HIDE DEF o
<1>5. QED
  BY <1>1, <1>2, <1>3, <1>4 DEF OpShape

(* An operation begins. *)
LEMMA BeginShape ==
  ASSUME OpShape, NEW t \in Threads, NEW cmd \in Cmds, NEW k \in Keys,
         NEW arg \in Strings, cmd = "EXPIRE" => arg[1] \in Int, Begin(t, cmd, k, arg)
  PROVE  /\ OpShape' /\ \A u \in Threads : u # t => op'[u] = op[u]
         /\ op'[t] \in Busy /\ op'[t].step \in {"append", "read"}
         /\ op'[t].step = IF cmd \in {"SET", "DEL"} THEN "append" ELSE "read"
         /\ op'[t].cmd = cmd /\ op'[t].key = k
         /\ op'[t].val = IF cmd = "SET" THEN arg ELSE <<>>
<1> DEFINE o == [step |-> IF cmd \in {"SET", "DEL"} THEN "append" ELSE "read",
                 cmd |-> cmd, key |-> k, arg |-> arg,
                 val |-> IF cmd = "SET" THEN arg ELSE <<>>, at |-> 0]
<1>1. op \in [Threads -> {Idle} \cup Busy \cup Done]
  BY DEF OpShape
<1>2. o \in Busy
  BY ShortStrings DEF Busy
<1>3. op' = [op EXCEPT ![t] = o]
  BY DEF Begin
<1>4. /\ o.step = IF cmd \in {"SET", "DEL"} THEN "append" ELSE "read"
      /\ o.cmd = cmd /\ o.key = k /\ o.val = IF cmd = "SET" THEN arg ELSE <<>>
      /\ o.arg = arg
  OBVIOUS
<1> HIDE DEF o
<1>5. QED
  BY <1>1, <1>2, <1>3, <1>4 DEF OpShape

(* A command is appended to the log, or refused. *)
LEMMA LogCommandShape ==
  ASSUME OpShape, LogShape, NEW t \in Threads, LogCommand(t)
  PROVE  /\ OpShape' /\ LogShape' /\ \A u \in Threads : u # t => op'[u] = op[u]
         /\ op[t] \in Busy /\ op'[t] \in Busy /\ op'[t].step = "write"
         /\ op'[t].cmd = op[t].cmd /\ op'[t].key = op[t].key /\ op'[t].val = op[t].val
         /\ aof_open => /\ op'[t].at = Len(log) + 1 /\ log' = Append(log, Entry(op[t]))
                        /\ log'[Len(log) + 1] = Entry(op[t])
         /\ ~aof_open => op'[t].at = 0 /\ log' = log
         /\ Len(log') >= Len(log) /\ Len(log') \in Nat /\ Len(log) \in Nat
         /\ \A i \in 1 .. Len(log) : log'[i] = log[i]
         /\ Len(log') <= Len(log) + 1
<1> DEFINE a == IF aof_open THEN Len(log) + 1 ELSE 0
           o == [op[t] EXCEPT !.step = "write", !.at = a]
<1>1. /\ op \in [Threads -> {Idle} \cup Busy \cup Done] /\ op[t] \in Busy
      /\ op[t].step = "append"
  BY StepKinds DEF OpShape, LogCommand
<1>2. log \in Seq(Logged) /\ Len(log) \in Nat
  BY LenProperties DEF LogShape
<1>3. a \in Nat
  BY <1>2
<1>4. op' = [op EXCEPT ![t] = o]
  BY <1>1 DEF LogCommand
<1> HIDE DEF a
<1>5. /\ o \in Busy /\ o.step = "write" /\ o.at = a
      /\ o.cmd = op[t].cmd /\ o.key = op[t].key /\ o.val = op[t].val
  BY <1>1, <1>3 DEF Busy
<1> HIDE DEF o
<1>6. /\ OpShape' /\ \A u \in Threads : u # t => op'[u] = op[u]
      /\ op'[t] = o
  BY <1>1, <1>4, <1>5 DEF OpShape
<1>7. Entry(op[t]) \in Logged
  BY <1>1 DEF Entry, Logged, Busy
<1>8. CASE aof_open
  <2>1. log' = Append(log, Entry(op[t])) /\ a = Len(log) + 1
    BY <1>8 DEF LogCommand, Entry, a
  <2>2. /\ log' \in Seq(Logged) /\ Len(log') = Len(log) + 1
        /\ \A i \in 1 .. Len(log) : log'[i] = log[i]
        /\ log'[Len(log) + 1] = Entry(op[t])
    BY <1>2, <1>7, <2>1, AppendProperties
  <2>3. LogShape'
    BY <1>2, <2>2 DEF LogShape, LogCommand
  <2>4. QED
    BY <1>1, <1>2, <1>5, <1>6, <1>8, <2>1, <2>2, <2>3
<1>9. CASE ~aof_open
  <2>1. log' = log /\ a = 0
    BY <1>9 DEF LogCommand, a
  <2>2. LogShape'
    BY <2>1 DEF LogShape, LogCommand
  <2>3. QED
    BY <1>1, <1>2, <1>5, <1>6, <1>9, <2>1, <2>2
<1>10. QED
  BY <1>8, <1>9


(* The steps of a thread that only read, or only compute, and what the     *)
(* thread goes on with or returns.                                         *)
LEMMA QuietStep ==
  ASSUME StoreShape, NEW t \in Threads,
         \/ CallStep(t) \/ Read(t) \/ JudgeGet(t) \/ JudgeTtl(t) \/ JudgeExpire(t)
         \/ Finish(t)
  PROVE  /\ OpShape' /\ UNCHANGED <<db, log, aof_open, clock, cleanerVars, applied, raced>>
         /\ \A u \in Threads : u # t => op'[u] = op[u]
         /\ op[t].step # "write" /\ op'[t].step # "write"
         /\ Moves(t)
<1>1. OpShape /\ DbShape /\ ClockShape
  BY DEF StoreShape
<1>2. CASE CallStep(t)
  <2>1. PICK cmd \in Cmds, k \in Keys, arg \in Strings :
               /\ cmd = "SET" => arg \in Values
               /\ cmd = "EXPIRE" => arg[1] \in Int
               /\ Begin(t, cmd, k, arg)
    BY <1>2 DEF CallStep
  <2>2. cmd = "SET" => arg # <<>>
    BY <2>1, ValueStrings
  <2>3. /\ op'[t].step \in {"append", "read"}
        /\ op'[t].step = IF cmd \in {"SET", "DEL"} THEN "append" ELSE "read"
        /\ op'[t].cmd = cmd
        /\ op'[t].val = IF cmd = "SET" THEN arg ELSE <<>>
    BY <1>1, <2>1, BeginShape
  <2>4. /\ op[t].step = "idle" /\ UNCHANGED <<db, log, aof_open, clock, cleanerVars, applied, raced>>
    BY <2>1 DEF Begin
  <2>5. Moves(t)
    BY <2>2, <2>3, <2>4 DEF Given, Moves
  <2>6. QED
    BY <1>1, <2>1, <2>4, <2>5, BeginShape
<1>3. CASE Read(t)
  <2>1. /\ op[t] \in Busy /\ op[t].step = "read"
        /\ UNCHANGED <<db, log, aof_open, clock, cleanerVars, applied, raced>>
        /\ \/ Goto(t, "judge", db[op[t].key])
           \/ Goto(t, "judge", <<>>) /\ db_faults' = db_faults + 1
    BY <1>1, <1>3, StepKinds DEF Read
  <2>2. db[op[t].key] \in Strings /\ <<>> \in Strings /\ op[t].key \in Keys
    BY <1>1, <2>1, ShortStrings DEF DbShape, Busy
  <2>3. QED
    BY <1>1, <2>1, <2>2, GotoShape DEF Moves
<1>4. CASE JudgeGet(t)
  <2>1. /\ op[t] \in Busy /\ op[t].step = "judge"
        /\ UNCHANGED <<db, log, aof_open, clock, cleanerVars, applied, raced>>
        /\ op[t].val \in Strings /\ clock \in Int /\ op[t].key \in Keys /\ op[t].cmd = "GET"
    BY <1>1, <1>4, StepKinds DEF JudgeGet, Busy, ClockShape
  <2>2. \/ Goto(t, "evict", <<>>) /\ Verdict(op[t].val, clock) = "expired"
        \/ Return(t, <<>>) /\ Verdict(op[t].val, clock) \in {"absent", "garbled"}
        \/ /\ Verdict(op[t].val, clock) \in {"untagged", "persistent", "live"}
           /\ Return(t, <<op[t].val[1]>>)
    BY <1>4 DEF JudgeGet
  <2>3. CASE Goto(t, "evict", <<>>) /\ Verdict(op[t].val, clock) = "expired"
    BY <1>1, <2>1, <2>3, GotoShape, ShortStrings DEF Moves
  <2>4. CASE Return(t, <<>>) /\ Verdict(op[t].val, clock) \in {"absent", "garbled"}
    BY <1>1, <2>1, <2>4, ReturnShape, ShortStrings DEF Moves
  <2>5. CASE /\ Verdict(op[t].val, clock) \in {"untagged", "persistent", "live"}
             /\ Return(t, <<op[t].val[1]>>)
    <3>1. <<op[t].val[1]>> \in Strings /\ op[t].val # <<>>
      BY <2>1, <2>5, Verdicts, FirstToken, ShortStrings
    <3>2. QED
      BY <1>1, <2>1, <2>5, <3>1, ReturnShape DEF Moves
  <2>6. QED
    BY <2>2, <2>3, <2>4, <2>5
<1>5. CASE JudgeTtl(t)
  <2>1. /\ op[t] \in Busy /\ op[t].step = "judge" /\ op[t].cmd = "TTL" /\ op[t].key \in Keys
        /\ UNCHANGED <<db, log, aof_open, clock, cleanerVars, applied, raced>>
        /\ op[t].val \in Strings /\ clock \in Int
    BY <1>1, <1>5, StepKinds DEF JudgeTtl, Busy, ClockShape
  <2>2. \/ Return(t, <<-2>>) \/ Return(t, <<-1>>)
        \/ /\ Verdict(op[t].val, clock) = "live"
           /\ Return(t, <<Int64(Expiry(op[t].val) - clock)>>)
    BY <1>5 DEF JudgeTtl
  <2>3. \A n \in Int : Int64(n) \in Int
    BY IntTokens DEF Int64
  <2>4. Verdict(op[t].val, clock) = "live" => Expiry(op[t].val) - clock \in Int
    BY <2>1, Verdicts
  <2>5. \A n \in Int : <<n>> \in Strings
    BY IntTokens, ShortStrings
  <2>6. PICK out \in Strings : Return(t, out)
    BY <2>2, <2>3, <2>4, <2>5
  <2>7. QED
    BY <1>1, <2>1, <2>6, ReturnShape DEF Moves
<1>6. CASE JudgeExpire(t)
  <2>1. /\ op[t] \in Busy /\ op[t].step = "judge" /\ op[t].cmd = "EXPIRE" /\ op[t].key \in Keys
        /\ UNCHANGED <<db, log, aof_open, clock, cleanerVars, applied, raced>>
        /\ op[t].val \in Strings /\ clock \in Int /\ op[t].arg[1] \in Int
    BY <1>1, <1>6, StepKinds DEF JudgeExpire, Busy, OpShape, ClockShape
  <2>2. CASE Return(t, <<0>>)
    BY <1>1, <2>1, <2>2, ReturnShape, IntTokens, ShortStrings DEF Moves
  <2>3. CASE op[t].val # <<>> /\ Goto(t, "append", <<op[t].val[1], (clock + op[t].arg[1]) % U64>>)
    <3>1. (clock + op[t].arg[1]) % U64 \in Tokens
      BY <2>1, IntTokens
    <3>2. /\ <<op[t].val[1], (clock + op[t].arg[1]) % U64>> \in Strings
          /\ <<op[t].val[1], (clock + op[t].arg[1]) % U64>> # <<>>
      BY <2>1, <2>3, <3>1, FirstToken, ShortStrings
    <3>3. QED
      BY <1>1, <2>1, <2>3, <3>2, GotoShape DEF Moves
  <2>4. QED
    BY <1>6, <2>2, <2>3 DEF JudgeExpire
<1>7. CASE Finish(t)
  <2>1. /\ op[t].step = "return" /\ op' = [op EXCEPT ![t] = Idle]
        /\ UNCHANGED <<db, log, aof_open, clock, cleanerVars, applied, raced>>
    BY <1>7 DEF Finish
  <2>2. Idle.step = "idle"
    BY DEF Idle
  <2>3. QED
    BY <1>1, <2>1, <2>2 DEF OpShape, Moves
<1>8. QED
  BY <1>2, <1>3, <1>4, <1>5, <1>6, <1>7

(* A removal of a key that was judged expired: unless it is a race, what   *)
(* it removes has expired.                                                 *)
LEMMA EvictFacts ==
  ASSUME StoreShape, NEW k \in Keys, NEW succeeds \in BOOLEAN, Evict(k, succeeds)
  PROVE  /\ db' \in [Keys -> Strings] /\ raced' \subseteq Keys
         /\ UNCHANGED <<log, aof_open, clock, applied>>
         /\ \A j \in Keys : j # k => db'[j] = db[j] /\ (j \in raced <=> j \in raced')
         /\ db'[k] \in {<<>>, db[k]} /\ raced \subseteq raced'
         /\ k \notin raced' => \/ db'[k] = db[k]
                               \/ db'[k] = <<>> /\ Verdict(db[k], clock) = "expired"
<1>1. db \in [Keys -> Strings] /\ <<>> \in Strings /\ clock \in Int /\ raced \subseteq Keys
  BY ShortStrings DEF StoreShape, DbShape, ClockShape, CleanerShape
<1>2. UNCHANGED <<log, aof_open, clock, applied>>
  BY DEF Evict
<1>3. CASE succeeds
  <2>1. /\ db' = [db EXCEPT ![k] = <<>>]
        /\ raced' = IF Verdict(db[k], clock) \notin {"absent", "expired"}
                    THEN raced \cup {k} ELSE raced
    BY <1>3 DEF Evict, DbWrite
  <2>2. Verdict(db[k], clock) = "absent" => db[k] = <<>>
    BY <1>1, Verdicts
  <2>3. QED
    BY <1>1, <1>2, <2>1, <2>2
<1>4. CASE ~succeeds
  <2>1. db' = db /\ raced' = raced
    BY <1>4 DEF Evict, DbWrite
  <2>2. QED
    BY <1>1, <1>2, <2>1
<1>5. QED
  BY <1>3, <1>4

(* The write at the end of put and remove. *)
LEMMA WriteFacts ==
  ASSUME StoreShape, NEW t \in Threads, NEW succeeds \in BOOLEAN, Write(t, succeeds)
  PROVE  /\ OpShape' /\ \A u \in Threads : u # t => op'[u] = op[u]
         /\ op[t] \in Busy /\ op[t].step = "write" /\ op'[t].step = "return"
         /\ op'[t].cmd = op[t].cmd /\ op'[t].key = op[t].key
         /\ op'[t].val = IF succeeds THEN <<1>> ELSE <<0>>
         /\ op[t].key \in Keys /\ op[t].at \in Nat /\ op[t].val \in Strings
         /\ db' \in [Keys -> Strings] /\ raced' \subseteq Keys
         /\ UNCHANGED <<log, aof_open, clock, cleanerVars>>
         /\ db' = IF succeeds THEN [db EXCEPT ![op[t].key] = Result(Entry(op[t]))] ELSE db
         /\ applied' = IF op[t].at > applied[op[t].key]
                       THEN [applied EXCEPT ![op[t].key] = op[t].at] ELSE applied
         /\ raced' = IF succeeds /\ op[t].at > applied[op[t].key]
                     THEN raced \ {op[t].key} ELSE raced \cup {op[t].key}
<1> DEFINE k == op[t].key
<1>1. /\ OpShape /\ db \in [Keys -> Strings] /\ raced \subseteq Keys
  BY DEF StoreShape, DbShape, CleanerShape
<1>2. op[t].step = "write" /\ op[t] \in Busy
  BY <1>1, StepKinds DEF Write
<1>3. op[t].key \in Keys /\ op[t].at \in Nat /\ op[t].val \in Strings /\ op[t].cmd \in Cmds
  BY <1>2 DEF Busy
<1>4. Result(Entry(op[t])) = IF op[t].cmd = "DEL" THEN <<>> ELSE Stored(op[t].val)
  BY DEF Result, Entry
<1>5. Result(Entry(op[t])) \in Strings
  BY <1>3, <1>4, StoredString, ShortStrings
<1>6. <<0>> \in Strings /\ <<1>> \in Strings
  BY IntTokens, ShortStrings
<1>7. /\ OpShape' /\ \A u \in Threads : u # t => op'[u] = op[u]
      /\ op'[t].step = "return" /\ op'[t].cmd = op[t].cmd /\ op'[t].key = op[t].key
      /\ op'[t].val = IF succeeds THEN <<1>> ELSE <<0>>
  <2>1. Return(t, IF succeeds THEN <<1>> ELSE <<0>>)
    BY DEF Write
  <2>2. QED
    BY <1>1, <1>2, <1>6, <2>1, ReturnShape
<1>8. /\ db' = IF succeeds THEN [db EXCEPT ![op[t].key] = Result(Entry(op[t]))] ELSE db
      /\ applied' = IF op[t].at > applied[op[t].key]
                    THEN [applied EXCEPT ![op[t].key] = op[t].at] ELSE applied
      /\ raced' = IF succeeds /\ op[t].at > applied[op[t].key]
                  THEN raced \ {op[t].key} ELSE raced \cup {op[t].key}
      /\ UNCHANGED <<log, aof_open, clock, cleanerVars>>
  BY <1>4, Zenon DEF Write, DbWrite
<1>9. db' \in [Keys -> Strings] /\ raced' \subseteq Keys
  BY <1>1, <1>3, <1>5, <1>8
<1>10. QED
  BY <1>2, <1>3, <1>7, <1>8, <1>9

(* A thread's removal is a step of its own only. *)
LEMMA LazyRemoveFacts ==
  ASSUME StoreShape, NEW t \in Threads, NEW succeeds \in BOOLEAN, LazyRemove(t, succeeds)
  PROVE  /\ OpShape' /\ \A u \in Threads : u # t => op'[u] = op[u]
         /\ op[t].step = "evict" /\ op'[t].step = "return"
         /\ op'[t].val = <<>> /\ op'[t].cmd = op[t].cmd /\ op'[t].key = op[t].key
         /\ op[t].key \in Keys /\ Evict(op[t].key, succeeds) /\ UNCHANGED cleanerVars
<1>1. OpShape
  BY DEF StoreShape
<1>2. /\ op[t].step = "evict" /\ Evict(op[t].key, succeeds) /\ UNCHANGED cleanerVars
      /\ Return(t, <<>>)
  BY DEF LazyRemove
<1>3. op[t] \in Busy
  BY <1>1, <1>2, StepKinds
<1>4. op[t].key \in Keys
  BY <1>3 DEF Busy
<1>5. QED
  BY <1>1, <1>2, <1>3, <1>4, ReturnShape, ShortStrings

(* The sweep of ttl_cleaner changes the database only by its removals. *)
LEMMA CleanerFacts ==
  ASSUME StoreShape, CleanerStep
  PROVE  /\ UNCHANGED <<op, log, aof_open, clock, applied>>
         /\ snap' \in [Keys -> Strings] /\ todo' \subseteq Keys
         /\ cleaner' \in [step : {"sleep", "sweep"}] \cup [step : {"evict"}, key : Keys]
         /\ \/ UNCHANGED <<db, raced>>
            \/ \E k \in Keys, succeeds \in BOOLEAN : Evict(k, succeeds)
<1>1. /\ db \in [Keys -> Strings] /\ snap \in [Keys -> Strings]
      /\ todo \subseteq Keys
      /\ cleaner \in [step : {"sleep", "sweep"}] \cup [step : {"evict"}, key : Keys]
  BY DEF StoreShape, DbShape, CleanerShape
<1>2. [step |-> "sweep"] \in [step : {"sleep", "sweep"}]
      /\ [step |-> "sleep"] \in [step : {"sleep", "sweep"}]
      /\ \A k \in Keys : [step |-> "evict", key |-> k] \in [step : {"evict"}, key : Keys]
  OBVIOUS
<1>3. CASE CleanerOpen
  BY <1>1, <1>2, <1>3 DEF CleanerOpen
<1>4. CASE \E k \in Keys : CleanerVisit(k)
  BY <1>1, <1>2, <1>4 DEF CleanerVisit
<1>5. CASE CleanerSleep
  <2>1. NoKeys \in [Keys -> Strings]
    BY ShortStrings DEF NoKeys
  <2>2. QED
    BY <1>1, <1>2, <1>5, <2>1 DEF CleanerSleep
<1>6. CASE \E succeeds \in BOOLEAN : CleanerEvict(succeeds)
  <2>1. PICK succeeds \in BOOLEAN : CleanerEvict(succeeds)
    BY <1>6
  <2>2. cleaner.key \in Keys
    <3>1. cleaner.step = "evict"
      BY <2>1 DEF CleanerEvict
    <3>2. cleaner \in [step : {"evict"}, key : Keys]
      BY <1>1, <3>1
    <3>3. QED
      BY <3>2
  <2>3. /\ Evict(cleaner.key, succeeds) /\ cleaner' = [step |-> "sweep"]
        /\ UNCHANGED <<op, snap, todo>>
    BY <2>1 DEF CleanerEvict
  <2>4. UNCHANGED <<log, aof_open, clock, applied>>
    BY <2>3 DEF Evict
  <2>5. \E k \in Keys, s \in BOOLEAN : Evict(k, s)
    BY <2>2, <2>3
  <2>6. QED
    BY <1>1, <1>2, <2>3, <2>4, <2>5
<1>7. QED
  BY <1>3, <1>4, <1>5, <1>6 DEF CleanerStep

(* Every step keeps the types. *)
LEMMA ActShape ==
  ASSUME StoreShape, Carried, StoreAct \/ UNCHANGED storeVars
  PROVE  StoreShape'
<1>1. DbShape /\ LogShape /\ OpShape /\ ClockShape /\ CleanerShape
  BY DEF StoreShape
<1>2. ASSUME UNCHANGED <<db, log, clock, cleanerVars, applied, raced>>
      PROVE  DbShape' /\ LogShape' /\ ClockShape' /\ CleanerShape'
  BY <1>1, <1>2 DEF DbShape, LogShape, ClockShape, CleanerShape, cleanerVars
<1>3. ASSUME NEW t \in Threads,
             CallStep(t) \/ Read(t) \/ JudgeGet(t) \/ JudgeTtl(t) \/ JudgeExpire(t)
               \/ Finish(t)
      PROVE  StoreShape'
  BY <1>2, <1>3, QuietStep DEF StoreShape
<1>4. ASSUME NEW t \in Threads, LogCommand(t) PROVE StoreShape'
  <2>1. OpShape' /\ LogShape'
    BY <1>1, <1>4, LogCommandShape
  <2>2. UNCHANGED <<db, clock, cleanerVars, raced>>
    BY <1>4 DEF LogCommand
  <2>3. DbShape' /\ ClockShape' /\ CleanerShape'
    BY <1>1, <2>2 DEF DbShape, ClockShape, CleanerShape, cleanerVars
  <2>4. QED
    BY <2>1, <2>3 DEF StoreShape
<1>5. ASSUME NEW t \in Threads, NEW succeeds \in BOOLEAN, LazyRemove(t, succeeds)
      PROVE  StoreShape'
  <2>1. /\ OpShape' /\ op[t].key \in Keys /\ Evict(op[t].key, succeeds)
        /\ UNCHANGED cleanerVars
    BY <1>5, LazyRemoveFacts
  <2>2. /\ db' \in [Keys -> Strings] /\ raced' \subseteq Keys
        /\ UNCHANGED <<log, clock, applied>>
    BY <2>1, EvictFacts
  <2>3. DbShape' /\ LogShape' /\ ClockShape' /\ CleanerShape'
    BY <1>1, <2>1, <2>2 DEF DbShape, LogShape, ClockShape, CleanerShape, cleanerVars
  <2>4. QED
    BY <2>1, <2>3 DEF StoreShape
<1>6. ASSUME NEW t \in Threads, NEW succeeds \in BOOLEAN, Write(t, succeeds)
      PROVE  StoreShape'
  <2>1. /\ OpShape' /\ db' \in [Keys -> Strings] /\ raced' \subseteq Keys
        /\ UNCHANGED <<log, clock, cleanerVars>>
        /\ op[t].step = "write" /\ op[t].key \in Keys /\ op[t].at \in Nat
        /\ applied' = IF op[t].at > applied[op[t].key]
                      THEN [applied EXCEPT ![op[t].key] = op[t].at] ELSE applied
    BY <1>6, WriteFacts
  <2>2. DbShape' /\ ClockShape' /\ CleanerShape'
    BY <1>1, <2>1 DEF DbShape, ClockShape, CleanerShape, cleanerVars
  <2>3. op[t].at > 0 => op[t].at <= Len(log)
    BY <2>1 DEF Carried
  <2>4. applied \in [Keys -> Nat] /\ \A k \in Keys : applied[k] <= Len(log)
    BY <1>1 DEF LogShape
  <2>5. applied' \in [Keys -> Nat] /\ \A k \in Keys : applied'[k] <= Len(log)
    BY <2>1, <2>3, <2>4
  <2>6. LogShape'
    BY <1>1, <2>1, <2>5 DEF LogShape
  <2>7. QED
    BY <2>1, <2>2, <2>6 DEF StoreShape
<1>7. ASSUME CleanerStep PROVE StoreShape'
  <2>1. /\ UNCHANGED <<op, log, clock, applied>>
        /\ snap' \in [Keys -> Strings] /\ todo' \subseteq Keys
        /\ cleaner' \in [step : {"sleep", "sweep"}] \cup [step : {"evict"}, key : Keys]
        /\ \/ UNCHANGED <<db, raced>>
           \/ \E k \in Keys, succeeds \in BOOLEAN : Evict(k, succeeds)
    BY <1>7, CleanerFacts
  <2>2. db' \in [Keys -> Strings] /\ raced' \subseteq Keys
    BY <1>1, <2>1, EvictFacts DEF DbShape, CleanerShape
  <2>3. LogShape' /\ OpShape' /\ ClockShape'
    BY <1>1, <2>1 DEF LogShape, OpShape, ClockShape
  <2>4. DbShape' /\ CleanerShape'
    BY <2>1, <2>2 DEF DbShape, CleanerShape
  <2>5. QED
    BY <2>3, <2>4 DEF StoreShape
<1>8. CASE Tick
  <2>1. /\ clock' = clock + 1 /\ clock < MaxClock
        /\ UNCHANGED <<db, log, op, cleanerVars, applied, raced>>
    BY <1>8 DEF Tick
  <2>2. ClockShape'
    BY <1>1, <2>1, StoreAssumption DEF ClockShape
  <2>3. DbShape' /\ LogShape' /\ OpShape' /\ CleanerShape'
    BY <1>1, <2>1 DEF DbShape, LogShape, OpShape, CleanerShape, cleanerVars
  <2>4. QED
    BY <2>2, <2>3 DEF StoreShape
<1>9. CASE Refuses \/ UNCHANGED storeVars
  <2>1. UNCHANGED <<db, log, op, clock, cleanerVars, applied, raced>>
    BY <1>9 DEF Refuses, storeVars
  <2>2. OpShape'
    BY <1>1, <2>1 DEF OpShape
  <2>3. QED
    BY <1>2, <2>1, <2>2 DEF StoreShape
<1>10. QED
  BY <1>3, <1>4, <1>5, <1>6, <1>7, <1>8, <1>9 DEF StoreAct, ThreadStep

-----------------------------------------------------------------------------
(* The log and the database. *)

(* No write is begun or ended. *)
SameWrites ==
  \A u \in Threads : op'[u] = op[u] \/ (op[u].step # "write" /\ op'[u].step # "write")

(* The log and the database change in three ways: a command is logged, a   *)
(* logged command is written, an expired key is removed.                   *)
LEMMA StepCases ==
  ASSUME StoreShape, StoreAct \/ UNCHANGED storeVars
  PROVE  \/ /\ UNCHANGED <<db, log, applied, raced>> /\ SameWrites
            /\ clock' = clock \/ clock' = clock + 1
         \/ \E t \in Threads : LogCommand(t)
         \/ \E t \in Threads, succeeds \in BOOLEAN : Write(t, succeeds)
         \/ (\E k \in Keys, succeeds \in BOOLEAN : Evict(k, succeeds)) /\ SameWrites
<1>1. ASSUME NEW t \in Threads,
             CallStep(t) \/ Read(t) \/ JudgeGet(t) \/ JudgeTtl(t) \/ JudgeExpire(t)
               \/ Finish(t)
      PROVE  UNCHANGED <<db, log, applied, raced, clock>> /\ SameWrites
  <2>1. /\ UNCHANGED <<db, log, aof_open, clock, cleanerVars, applied, raced>>
        /\ \A u \in Threads : u # t => op'[u] = op[u]
        /\ op[t].step # "write" /\ op'[t].step # "write"
    BY <1>1, QuietStep
  <2>2. QED
    BY <2>1 DEF SameWrites
<1>2. ASSUME NEW t \in Threads, NEW succeeds \in BOOLEAN, LazyRemove(t, succeeds)
      PROVE  (\E k \in Keys, s \in BOOLEAN : Evict(k, s)) /\ SameWrites
  <2>1. /\ \A u \in Threads : u # t => op'[u] = op[u]
        /\ op[t].step = "evict" /\ op'[t].step = "return"
        /\ op[t].key \in Keys /\ Evict(op[t].key, succeeds)
    BY <1>2, LazyRemoveFacts
  <2>2. SameWrites
    BY <2>1 DEF SameWrites
  <2>3. QED
    BY <2>1, <2>2
<1>3. ASSUME CleanerStep
      PROVE  /\ \/ UNCHANGED <<db, log, applied, raced, clock>>
                \/ \E k \in Keys, succeeds \in BOOLEAN : Evict(k, succeeds)
             /\ SameWrites
  <2>1. /\ UNCHANGED <<op, log, aof_open, clock, applied>>
        /\ \/ UNCHANGED <<db, raced>>
           \/ \E k \in Keys, succeeds \in BOOLEAN : Evict(k, succeeds)
    BY <1>3, CleanerFacts
  <2>2. SameWrites
    BY <2>1 DEF SameWrites
  <2>3. QED
    BY <2>1, <2>2
<1>4. ASSUME Tick \/ Refuses \/ UNCHANGED storeVars
      PROVE  /\ UNCHANGED <<db, log, applied, raced>> /\ SameWrites
             /\ clock' = clock \/ clock' = clock + 1
  BY <1>4 DEF Tick, Refuses, storeVars, SameWrites
<1>5. QED
  BY <1>1, <1>2, <1>3, <1>4 DEF StoreAct, ThreadStep

(* The command of a write under way stays where it is in the log. *)
LEMMA ActCarried ==
  ASSUME StoreShape, Carried, StoreAct \/ UNCHANGED storeVars
  PROVE  Carried'
<1>1. OpShape /\ LogShape /\ Len(log) \in Nat
  BY LenProperties DEF StoreShape, LogShape
<1>2. CASE UNCHANGED log /\ SameWrites
  BY <1>2 DEF Carried, SameWrites, Entry
<1>3. CASE \E t \in Threads : LogCommand(t)
  <2>1. PICK t \in Threads : LogCommand(t)
    BY <1>3
  <2>2. /\ \A u \in Threads : u # t => op'[u] = op[u]
        /\ op'[t].cmd = op[t].cmd /\ op'[t].key = op[t].key /\ op'[t].val = op[t].val
        /\ aof_open => /\ op'[t].at = Len(log) + 1 /\ log' = Append(log, Entry(op[t]))
                       /\ log'[Len(log) + 1] = Entry(op[t])
        /\ ~aof_open => op'[t].at = 0 /\ log' = log
        /\ Len(log') >= Len(log) /\ Len(log') \in Nat
        /\ \A i \in 1 .. Len(log) : log'[i] = log[i]
    BY <1>1, <2>1, LogCommandShape
  <2>3. aof_open => Len(log') = Len(log) + 1
    BY <1>1, <2>2, AppendProperties DEF LogShape
  <2>4. Entry(op[t])' = Entry(op[t])
    BY <2>2 DEF Entry
  <2>5. op'[t].at > 0 => op'[t].at <= Len(log') /\ log'[op'[t].at] = Entry(op[t])'
    BY <1>1, <2>2, <2>3, <2>4
  <2>6. ASSUME NEW u \in Threads, u # t, op'[u].step = "write", op'[u].at > 0
        PROVE  op'[u].at <= Len(log') /\ log'[op'[u].at] = Entry(op[u])'
    <3>1. op'[u] = op[u] /\ Entry(op[u])' = Entry(op[u])
      BY <2>2, <2>6 DEF Entry
    <3>2. op[u].at <= Len(log) /\ log[op[u].at] = Entry(op[u])
      BY <2>6, <3>1 DEF Carried
    <3>3. op[u].at \in Nat
      <4>1. op[u] \in Busy
        BY <1>1, <2>6, <3>1, StepKinds
      <4>2. QED
        BY <4>1 DEF Busy
    <3>4. log'[op[u].at] = log[op[u].at]
      BY <1>1, <2>2, <2>6, <3>1, <3>2, <3>3
    <3>5. QED
      BY <1>1, <2>2, <3>1, <3>2, <3>3, <3>4
  <2>7. QED
    BY <2>5, <2>6 DEF Carried
<1>4. CASE \E t \in Threads, succeeds \in BOOLEAN : Write(t, succeeds)
  <2>1. PICK t \in Threads, succeeds \in BOOLEAN : Write(t, succeeds)
    BY <1>4
  <2>2. /\ \A u \in Threads : u # t => op'[u] = op[u]
        /\ op'[t].step = "return" /\ UNCHANGED log
    BY <2>1, WriteFacts
  <2>3. QED
    BY <2>2 DEF Carried, Entry
<1>5. CASE (\E k \in Keys, succeeds \in BOOLEAN : Evict(k, succeeds)) /\ SameWrites
  <2>1. UNCHANGED log
    BY <1>5, EvictFacts
  <2>2. QED
    BY <1>2, <1>5, <2>1
<1>6. QED
  BY <1>2, <1>3, <1>4, <1>5, StepCases

(* What a command leaves in the database is a string. *)
LEMMA ResultString == ASSUME NEW c \in Logged PROVE Result(c) \in Strings
<1>1. c.val \in Strings
  BY DEF Logged
<1>2. QED
  BY <1>1, StoredString, ShortStrings DEF Result

(* A thread in a write has a position in the log. *)
LEMMA WritePosition ==
  ASSUME OpShape, NEW t \in Threads, op[t].step = "write"
  PROVE  op[t].at \in Nat /\ op[t].key \in Keys /\ op[t].val \in Strings /\ op[t].cmd \in Cmds
BY StepKinds DEF Busy

(* Steps that change neither log nor database, ticks of the clock included. *)
LEMMA QuietMatches ==
  ASSUME StoreShape, UNCHANGED <<db, log, applied, raced>>, SameWrites,
         clock' = clock \/ clock' = clock + 1,
         NEW k \in Keys, NEW cuts, Matches(k), Covered(k, cuts)
  PROVE  Matches(k)' /\ Covered(k, cuts)'
<1>1. Covered(k, cuts)'
  BY DEF Covered, SameWrites
<1>2. applied[k] \in Nat /\ applied[k] <= Len(log) /\ Len(log) \in Nat /\ log \in Seq(Logged)
  BY LenProperties DEF StoreShape, LogShape
<1>3. clock \in Int
  BY DEF StoreShape, ClockShape
<1>4. ASSUME applied[k] > 0 PROVE Result(log[applied[k]]) \in Strings
  BY <1>2, <1>4, ElementOfSeq, ResultString
<1>5. ASSUME applied[k] > 0, Verdict(Result(log[applied[k]]), clock) = "expired"
      PROVE  Verdict(Result(log[applied[k]]), clock') = "expired"
  BY <1>3, <1>4, <1>5, ExpiredStays
<1>6. ASSUME Holds(k, applied[k]) PROVE Holds(k, applied[k])'
  <2>1. CASE applied[k] = 0 /\ db[k] = <<>>
    BY <2>1 DEF Holds
  <2>2. CASE applied[k] > 0 /\ log[applied[k]].key = k /\ db[k] = Result(log[applied[k]])
    BY <2>2 DEF Holds, Result, Stored
  <2>3. CASE /\ applied[k] > 0 /\ log[applied[k]].key = k
             /\ db[k] = <<>> /\ Verdict(Result(log[applied[k]]), clock) = "expired"
    <3>1. Verdict(Result(log[applied[k]]), clock') = "expired"
      BY <1>5, <2>3
    <3>2. QED
      BY <2>3, <3>1 DEF Holds
  <2>4. QED
    BY <1>6, <2>1, <2>2, <2>3 DEF Holds
<1>7. Matches(k)'
  BY <1>6 DEF Matches
<1>8. QED
  BY <1>1, <1>7

(* A command is logged: it belongs to the write that it begins. *)
LEMMA LogMatches ==
  ASSUME StoreShape, NEW t \in Threads, LogCommand(t),
         NEW k \in Keys, NEW cuts, Matches(k), Covered(k, cuts)
  PROVE  Matches(k)' /\ Covered(k, cuts)'
<1>1. /\ OpShape /\ LogShape /\ log \in Seq(Logged)
      /\ applied[k] \in Nat /\ applied[k] <= Len(log)
  BY DEF StoreShape, LogShape
<1>2. UNCHANGED <<db, applied, raced, clock>> /\ op[t].step = "append"
  BY DEF LogCommand
<1>3. /\ \A u \in Threads : u # t => op'[u] = op[u]
      /\ op'[t].step = "write" /\ op'[t].key = op[t].key
      /\ aof_open => op'[t].at = Len(log) + 1 /\ log'[Len(log) + 1] = Entry(op[t])
      /\ ~aof_open => log' = log
      /\ Len(log') >= Len(log) /\ Len(log') \in Nat /\ Len(log) \in Nat
      /\ \A i \in 1 .. Len(log) : log'[i] = log[i]
      /\ Len(log') <= Len(log) + 1
  BY <1>1, LogCommandShape
<1>4. Matches(k)'
  <2>1. applied[k] > 0 => log'[applied[k]] = log[applied[k]]
    BY <1>1, <1>3
  <2>2. QED
    BY <1>2, <2>1 DEF Matches, Holds
<1>5. ASSUME NEW i \in 1 .. Len(log'), log'[i].key = k, i > applied[k], i \notin cuts
      PROVE  \E u \in Threads : op'[u].step = "write" /\ op'[u].key = k /\ op'[u].at = i
  <2>1. CASE i <= Len(log)
    <3>1. log[i].key = k
      BY <1>3, <1>5, <2>1
    <3>2. PICK u \in Threads : op[u].step = "write" /\ op[u].key = k /\ op[u].at = i
      BY <1>3, <1>5, <2>1, <3>1 DEF Covered
    <3>3. op'[u] = op[u]
      BY <1>2, <1>3, <3>2
    <3>4. QED
      BY <3>2, <3>3
  <2>2. CASE i > Len(log)
    <3>1. i = Len(log) + 1 /\ aof_open
      BY <1>3, <2>2
    <3>2. op[t].key = k
      BY <1>3, <1>5, <3>1 DEF Entry
    <3>3. QED
      BY <1>3, <3>1, <3>2
  <2>3. QED
    BY <1>3, <2>1, <2>2
<1>6. Covered(k, cuts)'
  BY <1>2, <1>5 DEF Covered
<1>7. QED
  BY <1>4, <1>6

(* A logged command is written. *)
LEMMA WriteMatches ==
  ASSUME StoreShape, Carried, NEW t \in Threads, NEW succeeds \in BOOLEAN,
         Write(t, succeeds),
         NEW k \in Keys, NEW cuts, Matches(k), Covered(k, cuts)
  PROVE  Matches(k)' /\ Covered(k, cuts)'
<1> DEFINE kk == op[t].key
           a  == op[t].at
<1>1. /\ db \in [Keys -> Strings] /\ applied \in [Keys -> Nat]
  BY DEF StoreShape, LogShape, DbShape
<1>2. /\ \A u \in Threads : u # t => op'[u] = op[u]
      /\ op[t].step = "write" /\ op'[t].step = "return" /\ kk \in Keys /\ a \in Nat
      /\ UNCHANGED <<log, clock>>
      /\ db' = IF succeeds THEN [db EXCEPT ![kk] = Result(Entry(op[t]))] ELSE db
      /\ applied' = IF a > applied[kk] THEN [applied EXCEPT ![kk] = a] ELSE applied
      /\ raced' = IF succeeds /\ a > applied[kk] THEN raced \ {kk} ELSE raced \cup {kk}
  BY WriteFacts
<1>3. a > 0 => log[a] = Entry(op[t])
  BY <1>2 DEF Carried
<1>4. Entry(op[t]).key = kk
  BY DEF Entry
<1> HIDE DEF kk, a
<1>5. Matches(k)'
  <2>1. CASE k # kk
    <3>1. db'[k] = db[k] /\ applied'[k] = applied[k] /\ (k \in raced' <=> k \in raced)
      BY <1>1, <1>2, <2>1
    <3>2. QED
      BY <1>2, <3>1 DEF Matches, Holds
  <2>2. CASE k = kk
    <3>1. ASSUME k \notin raced' PROVE Holds(k, applied[k])'
      <4>1. succeeds /\ a > applied[k]
        BY <1>2, <2>2, <3>1
      <4>2. applied'[k] = a /\ a > 0
        BY <1>1, <1>2, <2>2, <4>1
      <4>3. db'[k] = Result(log[a])
        BY <1>1, <1>2, <1>3, <2>2, <4>1, <4>2
      <4>4. log[a].key = k
        BY <1>3, <1>4, <2>2, <4>2
      <4>5. QED
        BY <1>2, <4>2, <4>3, <4>4 DEF Holds
    <3>2. QED
      BY <3>1 DEF Matches
  <2>3. QED
    BY <2>1, <2>2
<1>6. ASSUME NEW i \in 1 .. Len(log), log[i].key = k, i > applied'[k], i \notin cuts
      PROVE  \E u \in Threads : op'[u].step = "write" /\ op'[u].key = k /\ op'[u].at = i
  <2>1. applied'[k] >= applied[k] /\ (k = kk => applied'[k] >= a)
    BY <1>1, <1>2
  <2>2. i > applied[k]
    BY <1>1, <1>2, <1>6, <2>1
  <2>3. PICK u \in Threads : op[u].step = "write" /\ op[u].key = k /\ op[u].at = i
    BY <1>6, <2>2 DEF Covered
  <2>4. u # t
    BY <1>1, <1>2, <1>6, <2>1, <2>3 DEF kk, a
  <2>5. QED
    BY <1>2, <2>3, <2>4
<1>7. Covered(k, cuts)'
  BY <1>2, <1>6 DEF Covered
<1>8. QED
  BY <1>5, <1>7

(* A key that was judged expired is removed. *)
LEMMA EvictMatches ==
  ASSUME StoreShape, SameWrites, NEW j \in Keys, NEW succeeds \in BOOLEAN,
         Evict(j, succeeds),
         NEW k \in Keys, NEW cuts, Matches(k), Covered(k, cuts)
  PROVE  Matches(k)' /\ Covered(k, cuts)'
<1>1. /\ UNCHANGED <<log, clock, applied>>
      /\ k # j => db'[k] = db[k] /\ (k \in raced <=> k \in raced')
      /\ k = j => db'[k] \in {<<>>, db[k]} /\ (k \in raced => k \in raced')
      /\ k = j /\ k \notin raced' =>
           db'[k] = db[k] \/ (db'[k] = <<>> /\ Verdict(db[k], clock) = "expired")
  BY EvictFacts
<1>2. Covered(k, cuts)'
  BY <1>1 DEF Covered, SameWrites
<1>3. CASE k # j
  BY <1>1, <1>2, <1>3 DEF Matches, Holds
<1>4. CASE k = j
  <2>1. ASSUME Holds(k, applied[k]), k \notin raced' PROVE Holds(k, applied[k])'
    BY <1>1, <1>4, <2>1 DEF Holds
  <2>2. QED
    BY <1>1, <1>2, <1>4, <2>1 DEF Matches
<1>5. QED
  BY <1>3, <1>4

(* Every step keeps log and database together. *)
LEMMA ActMatches ==
  ASSUME StoreShape, Carried, StoreAct \/ UNCHANGED storeVars
  PROVE  \A k \in Keys : \A cuts :
           Matches(k) /\ Covered(k, cuts) => Matches(k)' /\ Covered(k, cuts)'
<1> SUFFICES ASSUME NEW k \in Keys, NEW cuts, Matches(k), Covered(k, cuts)
             PROVE  Matches(k)' /\ Covered(k, cuts)'
  OBVIOUS
<1>1. CASE /\ UNCHANGED <<db, log, applied, raced>> /\ SameWrites
           /\ clock' = clock \/ clock' = clock + 1
  BY <1>1, QuietMatches
<1>2. CASE \E t \in Threads : LogCommand(t)
  BY <1>2, LogMatches
<1>3. CASE \E t \in Threads, succeeds \in BOOLEAN : Write(t, succeeds)
  BY <1>3, WriteMatches
<1>4. CASE (\E j \in Keys, succeeds \in BOOLEAN : Evict(j, succeeds)) /\ SameWrites
  BY <1>4, EvictMatches
<1>5. QED
  BY <1>1, <1>2, <1>3, <1>4, StepCases

-----------------------------------------------------------------------------
(* The log is ahead of the readers. *)

(* A thread that logs or writes was given a command to log. *)
LEMMA ActGiven ==
  ASSUME StoreShape, AllGiven, StoreAct \/ UNCHANGED storeVars
  PROVE  AllGiven'
<1>1. OpShape /\ LogShape
  BY DEF StoreShape
<1>2. ASSUME NEW t \in Threads, \A u \in Threads : u # t => op'[u] = op[u], Given(op'[t])
      PROVE  AllGiven'
  BY <1>2 DEF AllGiven, Given
<1>3. ASSUME NEW t \in Threads,
             CallStep(t) \/ Read(t) \/ JudgeGet(t) \/ JudgeTtl(t) \/ JudgeExpire(t)
               \/ Finish(t)
      PROVE  AllGiven'
  <2>1. (\A u \in Threads : u # t => op'[u] = op[u]) /\ Moves(t)
    BY <1>3, QuietStep
  <2>2. Given(op'[t])
    BY <2>1 DEF Moves, Given
  <2>3. QED
    BY <1>2, <2>1, <2>2
<1>4. ASSUME NEW t \in Threads, LogCommand(t) PROVE AllGiven'
  <2>1. /\ \A u \in Threads : u # t => op'[u] = op[u]
        /\ op'[t].cmd = op[t].cmd /\ op'[t].val = op[t].val
    BY <1>1, <1>4, LogCommandShape
  <2>2. op[t].step = "append" /\ Given(op[t])
    BY <1>4 DEF LogCommand, AllGiven
  <2>3. Given(op'[t])
    BY <2>1, <2>2 DEF Given
  <2>4. QED
    BY <1>2, <2>1, <2>3
<1>5. ASSUME NEW t \in Threads, NEW succeeds \in BOOLEAN,
             LazyRemove(t, succeeds) \/ Write(t, succeeds)
      PROVE  AllGiven'
  <2>1. (\A u \in Threads : u # t => op'[u] = op[u]) /\ op'[t].step = "return"
    BY <1>5, LazyRemoveFacts, WriteFacts
  <2>2. QED
    BY <1>2, <2>1 DEF Given
<1>6. ASSUME CleanerStep \/ Tick \/ Refuses \/ UNCHANGED storeVars PROVE AllGiven'
  <2>1. UNCHANGED op
    BY <1>6, CleanerFacts DEF Tick, Refuses, storeVars
  <2>2. QED
    BY <2>1 DEF AllGiven, Given
<1>7. QED
  BY <1>3, <1>4, <1>5, <1>6 DEF StoreAct, ThreadStep

(* The log only grows. *)
LEMMA LogGrows ==
  ASSUME StoreShape, StoreAct \/ UNCHANGED storeVars
  PROVE  /\ Len(log') >= Len(log) /\ Len(log) \in Nat /\ Len(log') \in Nat
         /\ \A i \in 1 .. Len(log) : log'[i] = log[i]
<1>1. OpShape /\ LogShape /\ Len(log) \in Nat
  BY LenProperties DEF StoreShape, LogShape
<1>2. CASE UNCHANGED log
  BY <1>1, <1>2
<1>3. CASE \E t \in Threads : LogCommand(t)
  BY <1>1, <1>3, LogCommandShape
<1>4. QED
  BY <1>2, <1>3, StepCases, WriteFacts, EvictFacts

(* A value that the log told of stays told of. *)
LEMMA KnownStays ==
  ASSUME StoreShape, StoreAct \/ UNCHANGED storeVars
  PROVE  \A k, s : Known(log, k, s) => Known(log', k, s)
<1>1. /\ Len(log') >= Len(log) /\ Len(log) \in Nat /\ Len(log') \in Nat
      /\ \A i \in 1 .. Len(log) : log'[i] = log[i]
  BY LogGrows
<1>2. ASSUME NEW k, NEW s, Known(log, k, s), s # <<>> PROVE Known(log', k, s)
  <2>1. PICK i \in 1 .. Len(log) : log[i].key = k /\ log[i].val # <<>> /\ log[i].val[1] = s[1]
    BY <1>2 DEF Known
  <2>2. i \in 1 .. Len(log') /\ log'[i] = log[i]
    BY <1>1
  <2>3. QED
    BY <2>1, <2>2 DEF Known
<1>3. QED
  BY <1>2 DEF Known

(* put and remove log a command before they write it, so that what a get   *)
(* can see of another thread is in the log.                                *)
LEMMA ActAhead ==
  ASSUME StoreShape, Carried, AllGiven, Ahead, StoreAct \/ UNCHANGED storeVars
  PROVE  Ahead'
<1> SUFFICES ASSUME aof_open'
             PROVE  /\ \A k \in Keys : Known(log', k, db'[k])
                    /\ \A t \in Threads :
                         /\ op'[t].step = "judge" => Known(log', op'[t].key, op'[t].val)
                         /\ op'[t].step = "return" /\ op'[t].cmd = "GET" =>
                              Known(log', op'[t].key, op'[t].val)
                         /\ op'[t].step = "write" => op'[t].at > 0
  BY DEF Ahead
<1> DEFINE Fine(t) ==
             /\ op'[t].step = "judge" => Known(log', op'[t].key, op'[t].val)
             /\ op'[t].step = "return" /\ op'[t].cmd = "GET" =>
                  Known(log', op'[t].key, op'[t].val)
             /\ op'[t].step = "write" => op'[t].at > 0
<1>1. OpShape /\ LogShape /\ Len(log) \in Nat
  BY LenProperties DEF StoreShape, LogShape
<1>2. \A k, s : Known(log, k, s) => Known(log', k, s)
  BY KnownStays
<1>3. \A k : Known(log', k, <<>>)
  BY DEF Known
<1>4. ASSUME aof_open, NEW t \in Threads, op'[t] = op[t] PROVE Fine(t)
  <2>1. /\ op[t].step = "judge" => Known(log, op[t].key, op[t].val)
        /\ op[t].step = "return" /\ op[t].cmd = "GET" => Known(log, op[t].key, op[t].val)
        /\ op[t].step = "write" => op[t].at > 0
    BY <1>4 DEF Ahead
  <2>2. QED
    BY <1>2, <1>4, <2>1
<1>5. ASSUME aof_open, NEW k \in Keys, db'[k] = db[k] \/ db'[k] = <<>> PROVE Known(log', k, db'[k])
  <2>1. Known(log, k, db[k])
    BY <1>5 DEF Ahead
  <2>2. QED
    BY <1>2, <1>3, <1>5, <2>1
<1> HIDE DEF Fine
<1>6. ASSUME NEW t \in Threads,
             CallStep(t) \/ Read(t) \/ JudgeGet(t) \/ JudgeTtl(t) \/ JudgeExpire(t)
               \/ Finish(t)
      PROVE  (\A k \in Keys : Known(log', k, db'[k])) /\ \A u \in Threads : Fine(u)
  <2>1. /\ (\A u \in Threads : u # t => op'[u] = op[u]) /\ Moves(t)
        /\ UNCHANGED <<db, aof_open>> /\ op'[t].step # "write"
    BY <1>6, QuietStep
  <2>2. ASSUME op'[t].step \in {"append", "read", "evict", "idle"} PROVE Fine(t)
    BY <2>2 DEF Fine
  <2>3. ASSUME /\ op[t].step = "read" /\ op'[t].step = "judge" /\ op[t].key \in Keys
               /\ op'[t].key = op[t].key
               /\ op'[t].val = db[op[t].key] \/ op'[t].val = <<>>
        PROVE  Fine(t)
    <3>1. Known(log, op[t].key, db[op[t].key])
      BY <2>1, <2>3 DEF Ahead
    <3>2. QED
      BY <1>2, <1>3, <2>3, <3>1 DEF Fine
  <2>4. ASSUME /\ op[t].step = "judge" /\ op'[t].step = "return" /\ op'[t].key = op[t].key
               /\ op'[t].cmd = op[t].cmd
               /\ op[t].cmd = "GET" => \/ op'[t].val = <<>>
                                       \/ op[t].val # <<>> /\ op'[t].val = <<op[t].val[1]>>
        PROVE  Fine(t)
    <3>1. Known(log, op[t].key, op[t].val)
      BY <2>1, <2>4 DEF Ahead
    <3>2. Known(log', op[t].key, op[t].val)
      BY <1>2, <3>1
    <3>3. op[t].val # <<>> => Known(log', op[t].key, <<op[t].val[1]>>)
      BY <3>2 DEF Known
    <3>4. QED
      BY <1>3, <2>4, <3>3 DEF Fine
  <2>5. Fine(t)
    BY <2>1, <2>2, <2>3, <2>4 DEF Moves
  <2>6. QED
    BY <1>4, <1>5, <2>1, <2>5
<1>7. ASSUME NEW t \in Threads, LogCommand(t)
      PROVE  (\A k \in Keys : Known(log', k, db'[k])) /\ \A u \in Threads : Fine(u)
  <2>1. UNCHANGED <<db, aof_open>>
    BY <1>7 DEF LogCommand
  <2>2. /\ \A u \in Threads : u # t => op'[u] = op[u]
        /\ op'[t].step = "write" /\ op'[t].at = Len(log) + 1
    BY <1>1, <1>7, <2>1, LogCommandShape
  <2>3. Fine(t)
    BY <1>1, <2>2 DEF Fine
  <2>4. QED
    BY <1>4, <1>5, <2>1, <2>2, <2>3
<1>8. ASSUME NEW t \in Threads, NEW succeeds \in BOOLEAN, LazyRemove(t, succeeds)
      PROVE  (\A k \in Keys : Known(log', k, db'[k])) /\ \A u \in Threads : Fine(u)
  <2>1. /\ \A u \in Threads : u # t => op'[u] = op[u]
        /\ op'[t].step = "return" /\ op'[t].val = <<>>
        /\ op[t].key \in Keys /\ Evict(op[t].key, succeeds)
    BY <1>8, LazyRemoveFacts
  <2>2. UNCHANGED aof_open /\ \A k \in Keys : db'[k] = db[k] \/ db'[k] = <<>>
    BY <2>1, EvictFacts
  <2>3. Fine(t)
    BY <1>3, <2>1 DEF Fine
  <2>4. QED
    BY <1>4, <1>5, <2>1, <2>2, <2>3
<1>9. ASSUME NEW t \in Threads, NEW succeeds \in BOOLEAN, Write(t, succeeds)
      PROVE  (\A k \in Keys : Known(log', k, db'[k])) /\ \A u \in Threads : Fine(u)
  <2>1. /\ \A u \in Threads : u # t => op'[u] = op[u]
        /\ op[t].step = "write" /\ op'[t].step = "return" /\ op'[t].cmd = op[t].cmd
        /\ op[t].key \in Keys /\ op[t].at \in Nat /\ op[t].val \in Strings
        /\ UNCHANGED <<log, aof_open>>
        /\ db' = IF succeeds THEN [db EXCEPT ![op[t].key] = Result(Entry(op[t]))] ELSE db
    BY <1>9, WriteFacts
  <2>2. /\ op[t].at > 0 /\ op[t].at <= Len(log) /\ log[op[t].at] = Entry(op[t])
    BY <2>1 DEF Ahead, Carried
  <2>3. op[t].cmd \in {"SET", "DEL", "EXPIRE"} /\ (op[t].cmd # "DEL" => op[t].val # <<>>)
    BY <2>1 DEF AllGiven, Given
  <2>4. Known(log, op[t].key, Result(Entry(op[t])))
    <3>1. CASE op[t].cmd = "DEL"
      BY <3>1 DEF Known, Result, Entry
    <3>2. CASE op[t].cmd # "DEL"
      <4>1. Result(Entry(op[t]))[1] = op[t].val[1]
        BY <2>1, <2>3, <3>2, StoredString DEF Result, Entry
      <4>2. log[op[t].at].key = op[t].key /\ log[op[t].at].val = op[t].val
        BY <2>2 DEF Entry
      <4>3. op[t].at \in 1 .. Len(log)
        BY <1>1, <2>1, <2>2
      <4>4. QED
        BY <2>3, <3>2, <4>1, <4>2, <4>3 DEF Known
    <3>3. QED
      BY <3>1, <3>2
  <2>5. db \in [Keys -> Strings]
    BY DEF StoreShape, DbShape
  <2>6. \A k \in Keys : \/ db'[k] = db[k]
                        \/ k = op[t].key /\ db'[k] = Result(Entry(op[t]))
    BY <2>1, <2>5
  <2>7. \A k \in Keys : Known(log', k, db'[k])
    BY <1>2, <1>5, <2>1, <2>4, <2>6
  <2>8. Fine(t)
    BY <2>1, <2>3 DEF Fine
  <2>9. QED
    BY <1>4, <2>1, <2>7, <2>8
<1>10. ASSUME CleanerStep \/ Tick \/ Refuses \/ UNCHANGED storeVars
       PROVE  (\A k \in Keys : Known(log', k, db'[k])) /\ \A u \in Threads : Fine(u)
  <2>1. CASE CleanerStep
    <3>1. /\ UNCHANGED <<op, aof_open>>
          /\ \/ UNCHANGED <<db, raced>>
             \/ \E k \in Keys, succeeds \in BOOLEAN : Evict(k, succeeds)
      BY <2>1, CleanerFacts
    <3>2. \A k \in Keys : db'[k] = db[k] \/ db'[k] = <<>>
      BY <3>1, EvictFacts
    <3>3. QED
      BY <1>4, <1>5, <3>1, <3>2
  <2>2. CASE Tick \/ Refuses \/ UNCHANGED storeVars
    <3>1. UNCHANGED <<op, db, aof_open>>
      BY <2>2 DEF Tick, Refuses, storeVars
    <3>2. QED
      BY <1>4, <1>5, <3>1
  <2>3. QED
    BY <1>10, <2>1, <2>2
<1>11. (\A k \in Keys : Known(log', k, db'[k])) /\ \A u \in Threads : Fine(u)
  BY <1>6, <1>7, <1>8, <1>9, <1>10 DEF StoreAct, ThreadStep
<1>12. QED
  BY <1>11 DEF Fine

-----------------------------------------------------------------------------
(* The form of the strings. *)

(* What threads carry from the database and to it, and what log and        *)
(* database hold.                                                          *)
FormOf(o) ==
  /\ o.step = "judge" => o.val \in Raws
  /\ o.step \in {"append", "write"} =>
       IF o.cmd = "DEL" THEN o.val = <<>> ELSE o.val \in Puts
FormLogged(c) ==
  \/ c.cmd = "SET" /\ c.val \in Puts
  \/ c.cmd = "DEL" /\ c.val = <<>>
Forms ==
  /\ db \in [Keys -> Raws] /\ snap \in [Keys -> Raws]
  /\ \A i \in 1 .. Len(log) : FormLogged(log[i])
  /\ \A t \in Threads : FormOf(op[t])

(* expire puts a string together that has the form of a put. *)
LEMMA ExpirePuts ==
  ASSUME NEW raw \in Raws, raw # <<>>, NEW e \in 0 .. U64 - 1
  PROVE  <<raw[1], e>> \in Puts
<1>1. PICK v \in Puts : raw = Stored(v)
  BY DEF Raws
<1>2. PICK w \in Values : v = w \/ \E f \in 0 .. U64 - 1 : v = <<w[1], f>>
  BY <1>1 DEF Puts
<1>3. w \in Strings /\ w # <<>> /\ w[1] \in Tokens
  BY ValueStrings, FirstToken
<1>4. v \in Strings /\ v # <<>> /\ v[1] = w[1]
  <2>1. CASE v = w
    BY <1>3, <2>1
  <2>2. ASSUME NEW f \in 0 .. U64 - 1, v = <<w[1], f>>
        PROVE  v \in Strings /\ v # <<>> /\ v[1] = w[1]
    <3>1. f \in Tokens
      BY IntTokens
    <3>2. QED
      BY <1>3, <2>2, <3>1, ShortStrings
  <2>3. QED
    BY <1>2, <2>1, <2>2
<1>5. raw[1] = w[1]
  BY <1>1, <1>4, StoredString
<1>6. QED
  BY <1>5 DEF Puts

(* A thread's next string has its form. *)
LEMMA QuietForm ==
  ASSUME StoreShape, Forms, NEW t \in Threads,
         \/ CallStep(t) \/ Read(t) \/ JudgeGet(t) \/ JudgeTtl(t) \/ JudgeExpire(t)
         \/ Finish(t)
  PROVE  FormOf(op'[t])
<1>1. /\ OpShape /\ ClockShape /\ db \in [Keys -> Raws] /\ FormOf(op[t]) /\ <<>> \in Raws
  BY DEF StoreShape, Forms, Raws
<1>2. CASE CallStep(t)
  <2>1. PICK cmd \in Cmds, k \in Keys, arg \in Strings :
               /\ cmd = "SET" => arg \in Values
               /\ cmd = "EXPIRE" => arg[1] \in Int
               /\ Begin(t, cmd, k, arg)
    BY <1>2 DEF CallStep
  <2>2. /\ op'[t].step = IF cmd \in {"SET", "DEL"} THEN "append" ELSE "read"
        /\ op'[t].cmd = cmd /\ op'[t].val = IF cmd = "SET" THEN arg ELSE <<>>
    BY <1>1, <2>1, BeginShape
  <2>3. QED
    BY <2>1, <2>2 DEF FormOf, Puts
<1>3. CASE Read(t)
  <2>1. /\ op[t] \in Busy /\ op[t].step = "read"
        /\ \/ Goto(t, "judge", db[op[t].key])
           \/ Goto(t, "judge", <<>>)
    BY <1>1, <1>3, StepKinds DEF Read
  <2>2. db[op[t].key] \in Strings /\ <<>> \in Strings /\ op[t].key \in Keys
    BY <2>1, ShortStrings DEF StoreShape, DbShape, Busy
  <2>3. op'[t].step = "judge" /\ op'[t].val \in {db[op[t].key], <<>>}
    BY <1>1, <2>1, <2>2, GotoShape
  <2>4. QED
    BY <1>1, <2>2, <2>3 DEF FormOf
<1>4. CASE JudgeExpire(t)
  <2>1. /\ op[t] \in Busy /\ op[t].step = "judge" /\ op[t].cmd = "EXPIRE"
        /\ op[t].val \in Strings /\ clock \in Int /\ op[t].arg[1] \in Int
    BY <1>1, <1>4, StepKinds DEF JudgeExpire, Busy, OpShape, ClockShape
  <2>2. CASE Return(t, <<0>>)
    <3>1. op'[t].step = "return"
      BY <1>1, <2>1, <2>2, ReturnShape, IntTokens, ShortStrings
    <3>2. QED
      BY <3>1 DEF FormOf
  <2>3. CASE op[t].val # <<>> /\ Goto(t, "append", <<op[t].val[1], (clock + op[t].arg[1]) % U64>>)
    <3>1. (clock + op[t].arg[1]) % U64 \in 0 .. U64 - 1
      BY <2>1, IntTokens
    <3>2. <<op[t].val[1], (clock + op[t].arg[1]) % U64>> \in Puts
      BY <1>1, <2>1, <2>3, <3>1, ExpirePuts DEF FormOf
    <3>3. (clock + op[t].arg[1]) % U64 \in Tokens
      BY <3>1, IntTokens
    <3>4. <<op[t].val[1], (clock + op[t].arg[1]) % U64>> \in Strings
      BY <2>1, <2>3, <3>3, FirstToken, ShortStrings
    <3>5. /\ op'[t].step = "append" /\ op'[t].cmd = "EXPIRE"
          /\ op'[t].val = <<op[t].val[1], (clock + op[t].arg[1]) % U64>>
      BY <1>1, <2>1, <2>3, <3>4, GotoShape
    <3>6. QED
      BY <3>2, <3>5 DEF FormOf
  <2>4. QED
    BY <1>4, <2>2, <2>3 DEF JudgeExpire
<1>5. CASE JudgeGet(t) \/ JudgeTtl(t) \/ Finish(t)
  <2>1. Moves(t)
    BY <1>5, QuietStep
  <2>2. (op[t].step = "judge" /\ op[t].cmd \in {"GET", "TTL"}) \/ op[t].step = "return"
    BY <1>5 DEF JudgeGet, JudgeTtl, Finish
  <2>3. op'[t].step \in {"evict", "return", "idle"}
    BY <2>1, <2>2 DEF Moves
  <2>4. QED
    BY <2>3 DEF FormOf
<1>6. QED
  BY <1>2, <1>3, <1>4, <1>5

(* Every step keeps the forms. *)
LEMMA ActForms ==
  ASSUME StoreShape, AllGiven, Forms, StoreAct \/ UNCHANGED storeVars
  PROVE  Forms'
<1>1. /\ OpShape /\ LogShape /\ db \in [Keys -> Raws] /\ snap \in [Keys -> Raws]
      /\ \A i \in 1 .. Len(log) : FormLogged(log[i])
      /\ \A t \in Threads : FormOf(op[t])
      /\ <<>> \in Raws
  BY DEF StoreShape, Forms, Raws
<1>2. ASSUME NEW t \in Threads, FormOf(op'[t]), \A u \in Threads : u # t => op'[u] = op[u]
      PROVE  \A u \in Threads : FormOf(op'[u])
  BY <1>1, <1>2
<1>3. ASSUME NEW k \in Keys, NEW succeeds \in BOOLEAN, Evict(k, succeeds)
      PROVE  db' \in [Keys -> Raws] /\ UNCHANGED log
  <2>1. UNCHANGED log /\ (db' = db \/ db' = [db EXCEPT ![k] = <<>>])
    BY <1>3 DEF Evict, DbWrite
  <2>2. QED
    BY <1>1, <2>1
<1>4. ASSUME NEW t \in Threads,
             CallStep(t) \/ Read(t) \/ JudgeGet(t) \/ JudgeTtl(t) \/ JudgeExpire(t)
               \/ Finish(t)
      PROVE  Forms'
  <2>1. /\ UNCHANGED <<db, log, cleanerVars>>
        /\ \A u \in Threads : u # t => op'[u] = op[u]
    BY <1>4, QuietStep
  <2>2. FormOf(op'[t])
    BY <1>4, QuietForm
  <2>3. QED
    BY <1>1, <1>2, <2>1, <2>2 DEF Forms, cleanerVars
<1>5. ASSUME NEW t \in Threads, LogCommand(t) PROVE Forms'
  <2>1. /\ \A u \in Threads : u # t => op'[u] = op[u]
        /\ op'[t].step = "write" /\ op'[t].cmd = op[t].cmd /\ op'[t].val = op[t].val
        /\ Len(log') >= Len(log) /\ Len(log') \in Nat /\ Len(log) \in Nat
        /\ \A i \in 1 .. Len(log) : log'[i] = log[i]
        /\ Len(log') <= Len(log) + 1
        /\ aof_open => log'[Len(log) + 1] = Entry(op[t])
        /\ ~aof_open => log' = log
    BY <1>1, <1>5, LogCommandShape
  <2>2. op[t].step = "append" /\ UNCHANGED <<db, snap>> /\ FormOf(op[t])
    BY <1>1, <1>5 DEF LogCommand, cleanerVars
  <2>3. FormLogged(Entry(op[t])) /\ FormOf(op'[t])
    BY <2>1, <2>2 DEF FormLogged, FormOf, Entry
  <2>4. \A i \in 1 .. Len(log') : FormLogged(log'[i])
    <3> SUFFICES ASSUME NEW i \in 1 .. Len(log') PROVE FormLogged(log'[i])
      OBVIOUS
    <3>1. i \in 1 .. Len(log) \/ (aof_open /\ i = Len(log) + 1)
      BY <2>1
    <3>2. QED
      BY <1>1, <2>1, <2>3, <3>1
  <2>5. QED
    BY <1>1, <1>2, <2>1, <2>2, <2>3, <2>4 DEF Forms
<1>6. ASSUME NEW t \in Threads, NEW succeeds \in BOOLEAN, LazyRemove(t, succeeds)
      PROVE  Forms'
  <2>1. /\ \A u \in Threads : u # t => op'[u] = op[u]
        /\ op'[t].step = "return" /\ op[t].key \in Keys
        /\ Evict(op[t].key, succeeds) /\ UNCHANGED cleanerVars
    BY <1>6, LazyRemoveFacts
  <2>2. FormOf(op'[t])
    BY <2>1 DEF FormOf
  <2>3. QED
    BY <1>1, <1>2, <1>3, <2>1, <2>2 DEF Forms, cleanerVars
<1>7. ASSUME NEW t \in Threads, NEW succeeds \in BOOLEAN, Write(t, succeeds)
      PROVE  Forms'
  <2>1. /\ \A u \in Threads : u # t => op'[u] = op[u]
        /\ op[t].step = "write" /\ op'[t].step = "return" /\ op[t].key \in Keys
        /\ UNCHANGED <<log, cleanerVars>>
        /\ db' = IF succeeds THEN [db EXCEPT ![op[t].key] = Result(Entry(op[t]))] ELSE db
    BY <1>7, WriteFacts
  <2>2. Result(Entry(op[t])) \in Raws
    BY <1>1, <2>1 DEF FormOf, Result, Entry, Raws
  <2>3. db' \in [Keys -> Raws]
    BY <1>1, <2>1, <2>2
  <2>4. FormOf(op'[t])
    BY <2>1 DEF FormOf
  <2>5. QED
    BY <1>1, <1>2, <2>1, <2>3, <2>4 DEF Forms, cleanerVars
<1>8. ASSUME CleanerStep PROVE Forms'
  <2>1. /\ UNCHANGED <<op, log>>
        /\ \/ UNCHANGED <<db, raced>>
           \/ \E k \in Keys, succeeds \in BOOLEAN : Evict(k, succeeds)
    BY <1>8, CleanerFacts
  <2>2. db' \in [Keys -> Raws]
    BY <1>1, <1>3, <2>1
  <2>3. snap' \in [Keys -> Raws]
    BY <1>1, <1>8 DEF CleanerStep, CleanerOpen, CleanerVisit, CleanerSleep, CleanerEvict,
       NoKeys
  <2>4. QED
    BY <1>1, <2>1, <2>2, <2>3 DEF Forms
<1>9. ASSUME Tick \/ Refuses \/ UNCHANGED storeVars PROVE Forms'
  <2>1. UNCHANGED <<db, log, op, snap>>
    BY <1>9 DEF Tick, Refuses, storeVars, cleanerVars
  <2>2. QED
    BY <1>1, <2>1 DEF Forms
<1>10. QED
  BY <1>4, <1>5, <1>6, <1>7, <1>8, <1>9 DEF StoreAct, ThreadStep

-----------------------------------------------------------------------------
(* The theorems. *)

(* The calls of Store's threads are calls with arguments. *)
LEMMA NextIsAct == Next => StoreAct
<1>1. ASSUME NEW t \in Threads, Call(t) PROVE CallStep(t)
  <2>1. PICK k \in Keys :
          \/ \E v \in Values : Begin(t, "SET", k, v)
          \/ \E s \in Seconds : Begin(t, "EXPIRE", k, <<s>>)
          \/ \E cmd \in {"GET", "DEL", "TTL"} : Begin(t, cmd, k, <<>>)
    BY <1>1 DEF Call
  <2>2. ASSUME NEW v \in Values, Begin(t, "SET", k, v) PROVE CallStep(t)
    BY <2>2, ValueStrings DEF CallStep, Cmds
  <2>3. ASSUME NEW s \in Seconds, Begin(t, "EXPIRE", k, <<s>>) PROVE CallStep(t)
    <3>1. s \in Int /\ <<s>> \in Strings
      BY StoreAssumption, IntTokens, ShortStrings
    <3>2. QED
      BY <2>3, <3>1 DEF CallStep, Cmds
  <2>4. ASSUME NEW cmd \in {"GET", "DEL", "TTL"}, Begin(t, cmd, k, <<>>) PROVE CallStep(t)
    BY <2>4, ShortStrings DEF CallStep, Cmds
  <2>5. QED
    BY <2>1, <2>2, <2>3, <2>4
<1>2. AofStop => Refuses
  BY DEF AofStop, Refuses
<1>3. QED
  BY <1>1, <1>2 DEF Next, StoreAct

(* What keeps log and database together, with all commands counting. *)
Together == \A k \in Keys : Matches(k) /\ Covered(k, {})

(* The log and the database start empty. *)
LEMMA InitHolds ==
  ASSUME Init
  PROVE  StoreShape /\ Carried /\ AllGiven /\ Together /\ Ahead /\ Forms
<1>1. /\ db = [k \in Keys |-> <<>>] /\ snap = [k \in Keys |-> <<>>] /\ <<>> \in Strings
      /\ log = <<>> /\ applied = [k \in Keys |-> 0]
      /\ op = [t \in Threads |-> Idle] /\ Idle.step = "idle"
      /\ clock = 1 /\ cleaner = [step |-> "sleep"] /\ todo = {} /\ raced = {}
  BY ShortStrings DEF Init, NoKeys, Idle
<1>2. log \in Seq(Logged) /\ Len(log) = 0
  BY <1>1
<1>3. DbShape /\ LogShape
  BY <1>1, <1>2 DEF DbShape, LogShape
<1>4. OpShape
  BY <1>1 DEF OpShape
<1>5. ClockShape /\ CleanerShape
  BY <1>1, StoreAssumption DEF ClockShape, CleanerShape
<1>6. Carried /\ AllGiven
  BY <1>1 DEF Carried, AllGiven, Given
<1>7. Together
  BY <1>1, <1>2 DEF Together, Matches, Holds, Covered
<1>8. Ahead
  BY <1>1 DEF Ahead, Known
<1>9. Forms
  BY <1>1, <1>2 DEF Forms, FormOf, Raws
<1>10. QED
  BY <1>3, <1>4, <1>5, <1>6, <1>7, <1>8, <1>9 DEF StoreShape

(* The inductive invariant. *)
StoreInv == StoreShape /\ Carried /\ AllGiven /\ Together /\ Ahead /\ Forms

(* So the invariant holds all the time. *)
LEMMA Invariance == Spec => []StoreInv
<1>1. Init => StoreInv
  BY InitHolds DEF StoreInv
<1>2. StoreInv /\ [Next]_storeVars => StoreInv'
  <2> SUFFICES ASSUME StoreInv, Next \/ UNCHANGED storeVars PROVE StoreInv'
    OBVIOUS
  <2>1. StoreAct \/ UNCHANGED storeVars
    BY NextIsAct
  <2>2. StoreShape /\ Carried /\ AllGiven /\ Together /\ Ahead /\ Forms
    BY DEF StoreInv
  <2>3. Together'
    BY <2>1, <2>2, ActMatches DEF Together
  <2>4. QED
    BY <2>1, <2>2, <2>3, ActShape, ActCarried, ActGiven, ActAhead,
       ActForms DEF StoreInv
<1>3. QED
  BY <1>1, <1>2, PTL DEF Spec

(* Types: whatever put, expire and the removals do to a key, the strings   *)
(* in database and log have the form of a client's string with the tags    *)
(* that put and expire add, and a time is an unsigned number of 64 bits.   *)
THEOREM StoreTypes == Spec => []TypeOK
<1> DEFINE OpenOK == aof_open \in BOOLEAN
<1>1. Init => OpenOK
  BY DEF Init
<1>2. OpenOK /\ [Next]_storeVars => OpenOK'
  <2> SUFFICES ASSUME OpenOK, Next \/ UNCHANGED storeVars PROVE OpenOK'
    OBVIOUS
  <2>1. UNCHANGED aof_open \/ aof_open' = FALSE
    BY Zenon DEF Next, storeVars, Call, ThreadStep, CleanerStep, Begin, Read, JudgeGet,
       JudgeTtl, JudgeExpire, LogCommand, LazyRemove, Write, Finish, CleanerOpen,
       CleanerVisit, CleanerEvict, CleanerSleep, Evict, Tick, AofStop
  <2>2. QED
    BY <2>1, Zenon
<1>3. StoreInv /\ OpenOK => TypeOK
  <2> SUFFICES ASSUME StoreInv, OpenOK PROVE TypeOK
    OBVIOUS
  <2>1. DbShape /\ LogShape /\ OpShape /\ ClockShape /\ CleanerShape
    BY DEF StoreInv, StoreShape
  <2>2. db \in [Keys -> Raws] /\ snap \in [Keys -> Raws] /\ DOMAIN op = Threads
    BY <2>1 DEF StoreInv, Forms, OpShape
  <2>3. \A i \in DOMAIN log :
          /\ log[i].key \in Keys
          /\ \/ log[i].cmd = "SET" /\ log[i].val \in Puts
             \/ log[i].cmd = "DEL" /\ log[i].val = <<>>
    <3>1. \A i \in DOMAIN log : log[i] \in Logged /\ i \in 1 .. Len(log)
      BY <2>1, ElementOfSeq, LenProperties DEF LogShape
    <3>2. \A i \in DOMAIN log : log[i].key \in Keys
      BY <3>1 DEF Logged
    <3>3. QED
      BY <3>1, <3>2 DEF StoreInv, Forms, FormLogged
  <2>4. clock \in 1 .. MaxClock /\ todo \subseteq Keys /\ raced \subseteq Keys
        /\ cleaner.step \in {"sleep", "sweep", "evict"}
    BY <2>1 DEF ClockShape, CleanerShape
  <2>5. \A t \in Threads : op[t].step \in {"idle", "read", "judge", "evict",
                                           "append", "write", "return"}
    BY <2>1, StepKinds
  <2>6. \A k \in Keys : applied[k] \in 0 .. Len(log)
    BY <2>1, LenProperties DEF LogShape
  <2>7. QED
    BY <2>2, <2>3, <2>4, <2>5, <2>6, Zenon DEF TypeOK
<1> HIDE DEF OpenOK
<1>4. QED
  BY <1>1, <1>2, <1>3, Invariance, PTL DEF Spec

(* Once no write on k is under way, the latest command on k of the log is  *)
(* the one that the database was given.                                    *)
LEMMA ReplayHolds ==
  ASSUME StoreShape, NEW k \in Keys, NEW cuts, Matches(k), Covered(k, cuts),
         k \notin raced, \A i \in About(k) : i > applied[k] => i \notin cuts,
         \A t \in Threads : op[t].step = "write" => op[t].key # k
  PROVE  \/ db[k] = Replay(k)
         \/ db[k] = <<>> /\ Verdict(Replay(k), clock) = "expired"
<1> DEFINE a == applied[k]
<1>1. /\ log \in Seq(Logged) /\ DOMAIN log = 1 .. Len(log) /\ Len(log) \in Nat
      /\ a \in Nat /\ a <= Len(log)
  BY LenProperties DEF StoreShape, LogShape
<1>2. \A i \in About(k) : i \in Nat /\ i <= a
  BY <1>1 DEF About, Covered
<1>3. Holds(k, a)
  BY DEF Matches
<1>4. CASE a = 0
  <2>1. About(k) = {}
    BY <1>1, <1>2, <1>4 DEF About
  <2>2. Replay(k) = <<>>
    BY <2>1 DEF Replay
  <2>3. QED
    BY <1>3, <1>4, <2>2 DEF Holds
<1>5. CASE a > 0
  <2>1. a \in About(k)
    BY <1>1, <1>3, <1>5 DEF About, Holds
  <2>2. \A i \in About(k) : (\A j \in About(k) : j <= i) => i = a
    BY <1>1, <1>2, <2>1
  <2>3. (CHOOSE i \in About(k) : \A j \in About(k) : j <= i) = a
    BY <1>2, <2>1, <2>2
  <2>4. Replay(k) = Result(log[a])
    <3> DEFINE last == CHOOSE i \in About(k) : \A j \in About(k) : j <= i
    <3>1. Replay(k) = IF log[last].cmd = "DEL" THEN <<>> ELSE Stored(log[last].val)
      BY <2>1 DEF Replay
    <3>2. last = a
      BY <2>3
    <3> HIDE DEF last, a
    <3>3. QED
      BY <3>1, <3>2 DEF Result
  <2>5. QED
    BY <1>3, <1>5, <2>4 DEF Holds
<1>6. QED
  BY <1>1, <1>4, <1>5

(* put and remove log first and write second without a lock around both;   *)
(* still, at a key with no write under way and no race, the database is    *)
(* what running the log again would leave, up to an expired key that get   *)
(* or ttl_cleaner removed without logging it.                              *)
THEOREM LogReplays == Spec => []ReplayAgrees
<1>1. StoreInv => ReplayAgrees
  <2> SUFFICES ASSUME StoreInv, NEW k \in Keys \ raced,
                      \A t \in Threads : op[t].step = "write" => op[t].key # k
               PROVE  \/ db[k] = Replay(k)
                      \/ db[k] = <<>> /\ Verdict(Replay(k), clock) = "expired"
    BY DEF ReplayAgrees
  <2>1. StoreShape /\ Matches(k) /\ Covered(k, {})
    BY DEF StoreInv, Together
  <2>2. \A i \in About(k) : i > applied[k] => i \notin {}
    OBVIOUS
  <2>3. QED
    BY <2>1, <2>2, ReplayHolds
<1>2. QED
  BY <1>1, Invariance, PTL

(* Because put logs before it writes, no get returns a value that the log  *)
(* does not hold while the file is open.                                   *)
THEOREM ReadersBehindLog == Spec => []LogAheadOfReaders
<1>1. StoreInv => LogAheadOfReaders
  <2> SUFFICES ASSUME StoreInv, aof_open, NEW t \in Threads, op[t].step = "return",
                      op[t].cmd = "GET", op[t].val # <<>>
               PROVE  \E i \in About(op[t].key) :
                        log[i].val # <<>> /\ log[i].val[1] = op[t].val[1]
    BY DEF LogAheadOfReaders
  <2>1. Known(log, op[t].key, op[t].val)
    BY DEF StoreInv, Ahead
  <2>2. DOMAIN log = 1 .. Len(log)
    BY LenProperties DEF StoreInv, StoreShape, LogShape
  <2>3. QED
    BY <2>1, <2>2 DEF Known, About
<1>2. QED
  BY <1>1, Invariance, PTL

=============================================================================
