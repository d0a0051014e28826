# BlpCache in TLA+

BlpCache is a Redis-protocol cache on LevelDB (`src/src`, C++). A server process
answers SET, GET, DEL, TTL, EXPIRE and AUTH through brpc, keeps its data in
LevelDB, logs every write in an append-only file (AOF), removes expired keys in
the background, and, as a master, sends what it logs to replicas; as a replicate
it applies what it is sent. This directory models the parts that carry state,
checks them with TLC on small instances and proves the central ones with TLAPS.

## 1. Inventory

| Component | Source | State | Operations | Hard because |
|---|---|---|---|---|
| Append-only file | `common/aof.{h,cpp}` | `queue_`, `stop_flag_`, `written_offset_`, the file, the writer's batch | append (non-blocking, blocking), writer loop, `stop`, `~Aof`, recovery, reading from an offset, listeners | appenders, writer and owner interleave; short and failing writes; crash between write and fsync |
| Store | `core/db.{h,cpp}` | the LevelDB database, values tagged `value\t<expiry>` | `put`, `get`, `remove`, `ttl`, `expire`, cleaner thread | log and database are written without a common lock; removals are decided on stale reads |
| Redis service | `service/*` | a session per connection | six command handlers | each has its own copy of the tests; concurrent connections |
| Replication server | `replica/server.cpp` | listeners in `Aof`, one thread per replica | accept, listener, `handle_replica` | listeners run in appenders' threads against the writer; dangling captures; never unregistered |
| Replication client | `replica/replicate.cpp` | a socket | receive and apply, heartbeat | lost connections are not noticed |
| Wire protocol | `replica/protocol.h`, `common/socket_utils.cpp` | none | encode and decode `Message`, `DataEntity`, `send_all`, `recv_all` | field widths; messages sent in several pieces; what a failed receive leaves |
| Configuration | `common/config.{h,cpp}` | four fields | `init` | widths of numbers, exceptions nobody catches |
| Process | `blp.cpp` | owns all of the above | start, run, `aof.stop()`, exit, death, restart | detached threads outlive what they use; log and database survive differently |
| Ring buffer, sequence number, status | `common/*` | small | none has a caller | little |

How they interact. A handler calls `RedisServiceImpl`, which calls
`LevelDBWrapper`. `put` and `remove` call `Aof::appendCommandAsync`, fall back on
`appendCommandBlocking` when it refuses, and then write to LevelDB. After it has
queued a frame, the append function runs every registered listener in the
caller's thread; the listeners are the master's replica connections, which read
the file from `getCurrentOffset()`. The writer thread alone touches the file. On
a replicate a detached thread calls `put` and `remove` with what it receives.
`main` stops the `Aof` after brpc has stopped; the replication threads are never
stopped.

What makes each part correct:

* AOF: accepted frames reach the file once, whole and in order, or are given up
  by a fault or a death; the queue is bounded; nobody waits for ever; what
  `getCurrentOffset()` covers is final; `stop()` leaves a synced file.
* Store: replaying the log gives the database; readers do not run ahead of the
  log; expired keys go, other keys stay.
* Service: no command without a session; a client reads its own writes; a
  replicate is not written by clients.
* Replication: sender and receiver agree on message boundaries; a replica applies
  only what the master logged; no replica can stop the master's appends for ever;
  descriptors are closed once, by their owner. That a replica gets every command
  is what one would want too; it does not hold (`listener`).
* Process: what a client was told survives a death in the database; what can be read
  of the file replays to the database where it holds a key's last command; stopping
  refuses no client's append. That stopping loses no accepted command from the file
  is what one would want too; it does not hold (`aof_stop`), on a master or on a
  replicate.

`PROJECT.json` lists every hazard found while reading, at its line, with the
properties that watch it or the reason why none does yet.

## 2. Modules

| Module | Models | Used by |
|---|---|---|
| `AppendLog` | abstract specification: what an append-only file promises | `Aof` (refinement), `Replication` and `Blp` (as their file) |
| `Aof` | append functions, `writerLoop`, `stop`, `~Aof`, crash, restart | `MCAof`, `AofProofs` |
| `AofProofs` | theorems about `Aof` | TLAPS, `AofRefinementProofs` |
| `AofRefinementProofs` | `Aof` implements `AppendLog` | TLAPS |
| `Resp` | the lines and bulk strings of `serializeToRESP` and `tryParseRESPArray`, `findCRLF` | `AofReader` |
| `AofReader` | `recoverFromAOF`, `readCommandsFromOffset` | `MCAofReader`, `AofReaderProofs` |
| `AofReaderProofs` | theorems about what the readers execute | TLAPS |
| `Store` | `LevelDBWrapper` and `ttl_cleaner` | `MCStore`, `Service`, `StoreProofs` |
| `StoreProofs` | theorems about `Store` | TLAPS, `BlpProofs` |
| `Service` | the command handlers on top of `Store` | `Blp`, `MCService` |
| `Config` | `config::init` and the registered fields | `Blp` |
| `Blp` | `main`, from the configuration to its return, deaths and restarts, around `Service` | `MCBlp`, `BlpProofs` |
| `BlpProofs` | theorems about the process: its start, and the service in it | TLAPS |
| `Wire` | `Message` and `DataEntity` as bytes | `Replication`, `WireProofs` |
| `WireProofs` | what the encoders write the decoders read | TLAPS, `StreamProofs` |
| `Replication` | `startServer`, `handle_replica`, the listeners, `startReplica`, connections | `MCReplication`, `ReplicationProofs` |
| `ReplicationProofs` | theorem about the master's descriptors | TLAPS, `StreamProofs` |
| `StreamProofs` | theorems about what is sent, taken and applied | TLAPS |
| `MCAof`, `MCAofReader`, `MCStore`, `MCService`, `MCBlp`, `MCReplication` | small instances | TLC |

Definitions whose comment begins with "Mutant" are plausible bugs of the
definition that follows them. They are not part of any specification;
`PROJECT.json` pairs each with the property that must then fail.

### Aof

A frame is the number under which `queue_` accepted it. The file is a sequence of
entries `[id, whole]`; an entry that is not whole is a frame with only part of its
bytes in the file. Offsets count entries. The content of frames does not matter
to this component, and the byte limit of a batch becomes a free choice of where
the batch ends (never before its first frame: the loop of line 218 tests
`batch_bytes < max_batch_bytes` before it adds one).

The writer has one step per region that another thread can observe: `Collect` is
the critical section 211-226, `CheckStop` the unlocked read of `stop_flag_`,
`Writev` one frame's progress (a call that takes several frames is several
steps, which only adds interleavings), `WritevFails` the error path, then the
offset (which an `lseek` that fails leaves as it was), the fsync policy, the exit
test and the last fsync. A retry after EINTR
changes nothing and is a stutter. `fsync` is assumed to succeed, as the code
assumes. An appender is `idle`, about to evaluate the predicate of the blocking
append, asleep in it, or past the push. Notifications that happen outside `mu_`
are separate steps. The owner runs `stop()` in three steps (flag, notify, join)
and then the destructor, in which a thread that was not joined terminates the
process. `Crash` keeps the synced part of the file and any more of it, its last
entry perhaps torn. `Restart` is `openFile` and `startWriter`; recovery is not
called by the program.

`accepted`, `dropped`, `started`, `faults` and `restarts` are history.

### Resp and AofReader

Here bytes do matter: the question is whether frames are found again. `Resp`
has what the serialiser writes and the parser reads, a line or a bulk string at a
time, on sequences of characters; `Decimal` and `Stol` stand for the library's
conversions (a leading number, an exception when there is none). Lengths are below
100; a larger number that the parser meets is `Huge`.

`AofReader` first lays a file out, with the steps of the serialiser (`StartFrame`,
`AddPart`); a `writev` that fails, or a crash, leaves one frame torn at any byte
(`Tear`), and whole ones may follow it (a restart or the drain after a fault appends
behind a torn frame). Then one of the readers runs: read a chunk, parse as many
frames as are complete, keep the rest. The parser runs in steps too, its first line
(`ParseHeader`), a turn of its loop (`ParseBulk`), its return with a frame
(`Execute`) or without one (`KeepRest`); it starts again from the first line with
the next chunk, as in the code. Recovery reads a file at rest from the beginning (it
has no caller; it makes sense only before the first append).
`readCommandsFromOffset` starts from an offset between two frames, which
`BelowOffsetFinal` justifies, while the writer appends: a reader sees of that only
how many bytes there are when it asks, so a read may return any number of the bytes
laid out, and may find no more at any of them. `open`, `fstat`, `lseek` and `read`
may fail, and so may the `lseek` at the end of a recovery; `reserve` throws for a
negative number of parts. `ftruncate` always fails, because the descriptor is opened
`O_RDONLY`.

### Store

A string is the sequence of its tab-separated tokens, so that `value + "\t-1"`
appends a token, `find('\t')` separates the first token, and `stoull` reads the text
behind it: it skips white space, so empty tokens are passed over (`Text`), takes a
negative number modulo 2^64, and throws for a text that is no number and for a number
of more than 64 bits (`Parses`). The tests of `get`, `ttl` and
`ttl_cleaner` are the same text three times and one operator here, `Verdict`.
`U64` stands for 2^64; the instances take 16, which keeps "never" (2^64-1), the
wrap of a negative EXPIRE and the times of the clock apart. The clock does not go
back.

Each operation is cut where another thread can act: read, judgement, removal, log,
database write. LevelDB (external) is a map with atomic calls that may fail; an
iterator is a snapshot. The AOF appears as the sequence of accepted commands:
`Aof`'s liveness run justifies that an append returns, and its refinement that
the file follows the order of acceptance. `AofStop`, a failed writer or a call of
`stop()`, makes it refuse from then on; what then becomes of the commands accepted
before is in `Aof` and in `Blp`.

`applied` and `raced` are history: `raced` holds the keys whose last change in
the database is one that the log does not tell (failed or unlogged writes, writes
overtaken by a later command, removals of a value other than the one judged).

### Service

`Service` extends `Store`; its threads are the client connections and, on a
replicate, the thread of `startReplica`. A handler is one action up to its call
of the service, with its own copies of the tests for the model, the session and the
arguments; then `Store`'s steps run, then `Answer` is the rest of the handler. brpc runs the
commands of a connection one at a time. The branch `_password.empty()` is not
reachable: a session is only made with the right password. `asked` and `writers`
are history. `ServiceSpec` is the service in a process that runs; `Blp` adds how
the process gets there and how it ends.

### Config and Blp

A configuration file is a sequence of lines, a line two texts around its `=`, a
text a sequence of tokens (numbers, words, blanks), so that `trim` and `stoi` are
what they are on strings. `Config` has what `init` makes of a line; its loop is an
action of `Blp`, `ReadLine`, which sets a field, passes a line over, or ends the
process when `stoi` throws. An `int16_t` is a number modulo 2^16 around 0; `main`
hands `replica_port` on as a `uint16_t`.

`Blp` extends `Service`: `phase` is where `main` is, and the actions of `Service`
and `Store` run when the code lets them: connections from `Start` on (that is
before `main` looks at the model), the replication thread when it has been
started, the cleaner's sweeps when `db_` is set. Each step of the start that the
code tests may fail, which ends the process. Quitting closes the server, waits for the
handlers, stops the file and returns. `Kill` is a death at any point, `RoleFails` the
exception of a master's replication thread that cannot make its socket and that nobody
catches.

The file is that of `AppendLog`: `log`, the commands that `Store` had accepted, is not
what is in it. A command accepted is `pending` until the writer writes it
(`WriterPersists`) or a `writev` fails (`WriterFails`): that gives up the oldest of the
pending ones, perhaps with a torn frame in the file, makes every later append refused
and lets the handlers go on; the drain may still write the rest. At an end of the
process (`Perish`) the threads are gone and the database is as it was, because every
write is synced. The file keeps a prefix of its frames at a death, the last one
perhaps torn. At an orderly end it keeps all of them, but the pending ones may be left
out, on a master as on a replicate: `aof_stop` shows how. The next process appends
behind whatever is there, as nothing cuts a torn frame off; `Readable` is the part of
the file that a reader can make sense of, up to the first torn frame. `cut` is
history: the commands of the log whose write to the database a death came before.

### Wire and Replication

Bytes matter again, because nothing checks them: the magic number is not tested,
and a receiver that is out of step takes payload for headers. `Wire` has the
encoders and decoders on sequences of numbers below 256, including what
`recvFromSocket` leaves in the message when it fails half way (`Type`, `Payload`):
the caller does not look at its result. Lengths and offsets that occur are below
256; a larger number read from misplaced bytes is `Huge`, a payload that never
arrives in full, or `Throws` when `resize` refuses it (2^40 bytes or more).

`Replication` stands on `AppendLog`, the abstraction that `Aof` is shown to
implement: a frame is accepted, later in the file, later published. Its threads
are the appenders, each of which runs all listeners after its push; the acceptor;
a handler per connection; the replicas. A message is sent one `send_all` at a
time, so that messages of several threads mix on a connection; `mixed` (history)
has the connections on which this happened. Listeners capture `client_fd` by
reference; the build keeps it in one stack slot, which the next `accept` writes:
the variable `client_fd`. Descriptors are reused when they are closed. A
connection can be reset, which both ends notice, or die without notice; bytes under
way are lost from some point on. `applied` (history) says of each command that a
replica applied (`ok`) whether its message had arrived whole, on a connection that was
not mixed by then. The model begins with the listening socket made; its failures are
in `Blp`.

`KeptUp` bounds the model: a replica takes a message before more bytes are sent
after it. A slower one receives the same bytes. A send never blocks: socket
buffers are not modelled.

## 3. Runs

| Run | Instance | Shows |
|---|---|---|
| `aof_safety` | 3 appenders, queue 2, batch 2, 4 appends, 1 fault, 1 restart, mode 2 | all safety of `Aof`, and that it implements `AppendLog` |
| `aof_liveness` | 2 appenders, queue 2, batch 2, 4 appends, 1 fault, mode 1 | blocked appends return, `stop()` returns, accepted frames settle |
| `aof_stop` | 1 appender, 1 append | violation: `stop()` may leave an accepted frame in the queue |
| `reader` | 2 commands, files of up to 3 frames, chunks of 1 to 90 bytes | every whole frame up to the first torn one is executed, once and in order |
| `recover_tail` | files of 1 frame | violation: recovery does not truncate a torn tail |
| `store` | 2 threads, 1 key, 3 operations, 2 seconds, 1 LevelDB failure | log and database agree outside races, readers are behind the log, expired keys are reaped |
| `store_remove` | as `store`, one value | violation: a valid value is removed on a stale judgement |
| `process` | 4 configuration files, 1 connection, replication thread, 1 key, 2 operations, 1 failure (of the start, of `writev` or of the replication socket), 1 restart | sessions; read-your-writes, also over a death; file and database after a restart; a client's append is refused only after a failed `writev`; the port that is used |
| `service_replica` | 1 connection, replication thread, 1 key, 2 operations | violation: EXPIRE writes on a replicate |
| `replication` | 2 appenders, 2 commands, 1 connection, 1 failed read | message boundaries, and only logged commands are applied, until messages mix |
| `replication_conns` | 1 appender, 1 command, 2 connections, 2 descriptors, 1 loss, 1 failed accept | descriptors have one owner, appends return, broken connections are closed |
| `listener` | 1 appender, 1 command, 1 connection, no failure | violation: the command that triggers a listener is not sent |

Why the bounds are enough. Three appenders on two places give a full queue with
several sleepers for one place; a batch of two has a frame behind the one that is
cut; while the writer runs, mode 2 may sync or not after each batch, as modes 1 and
0 do; four appends
leave frames in the file, the batch and the queue at once; one restart puts
frames behind a torn tail. `max_queue_entries = 2` is the least value for which
line 223 ever wakes an appender. For the reader, chunks of any size
split every header, line end and payload, and the largest hold all three frames, so
that the inner loop takes several from a chunk; the commands are a plain one and
one with an empty part and a value that looks like a line end and a header; three
frames give every torn frame with whole ones before and behind it. In `Store` the keys do not interact, so one key
is enough; three operations give a SET, an EXPIRE and one more that races them;
the values are a plain string and one with an empty token and a number, the times of
EXPIRE 1 and -2, which lands on "never" at the first second. In `process` two
operations give a write, a death and a read, or a write on either side of a death, of
a failed `writev` or of a torn frame; one connection is enough to see a handler
without its test, and the theorems cover any number of connections and operations; the
files give the two models, an unknown one, a number that is none, a port above
32767 set twice and a name that is not registered; LevelDB failures and several
values are left to `store`. In `replication` the two appenders and the handler are
three senders on one connection, and both appenders may find the same frame, so
that it is sent twice; the values differ in length. `replication_conns` has a connection that is given up by the replica or
reset, a second one on the same or on another descriptor, and messages under way
meanwhile; a failed accept leaves -1 in the slot.

Symmetry over the appenders is used in `aof_safety` and `replication` only, which
check no liveness. `process` switches the deadlock check off, because a process
that has ended stays so; in the other passing runs something can always happen
(`Ended` marks the end of the last process of `Aof`, the cleaner of `Store` never
stops, the writer of `Replication` may publish again).

Fairness. `Aof`: weak fairness of each step of a running thread (writer,
appenders that are awake or notifying, `stop()` once begun), and of `Writev(TRUE)`:
a `writev` that neither fails nor finishes the frame for ever is excluded. These
are threads with a mutex that each holds for a bounded time, and the writer's wait
is timed. Nobody has to append, call `stop()`, fail or crash. `Store`: weak
fairness of the cleaner, a thread that sleeps for a minute at a time.
`Replication`: weak fairness of every thread of both programs (appenders in their
listeners, acceptor, handlers, replicas, the file's writer); the replicas' part
includes that they keep reading, without which a master's `send` would block.
Nobody has to append, and nothing has to fail.

### What the violations show

* `aof_stop`: the writer finds the queue empty and gives up `mu_`; a frame is
  accepted; `stop()` raises the flag; the writer reads it at line 229 and leaves.
  The frame was accepted before `stop()` began, so that it may be a client's last
  command on a master, although brpc has ended the handlers before `aof.stop()`.
* `recover_tail`: `ftruncate` on a read-only descriptor. The torn tail stays, the
  next process appends behind it, and from there on nothing in the file can be
  trusted: `*2` (torn) followed by `*3...` parses as a header of its own, so a
  command that nobody appended can be executed. `ExecutesInOrder` therefore only
  speaks of the frames before the first torn one.
* `store_remove`: get (or the cleaner) reads an expired value; a SET completes;
  the removal deletes the new value, unlogged.
* `service_replica`: EXPIRE has no test of the model.
* `listener`: the append pushes a frame and runs the listener, which reads the file
  from its published end and finds nothing; then the writer writes the frame and
  publishes the new end. The next listener starts behind it. A command reaches a
  replica only if a listener runs between a `writev` and the store of the offset.

What the models show beside these, without a run of its own. A replica whose connection
is reset never connects again: the loop at `replicate.cpp` 23 has no exit
(`ReceiveSpins`), and lines 61-63 cannot be reached. If the reset comes inside a
payload, the part that is missing is zeros, and a SET is applied with them. A
connection that dies without a reset is never noticed by the master: its timeout
is tested only after a message. With two replicas all listeners send to the one that
was accepted last. The shipped `conf/blp.conf` sets `replicate_port`, a name that is
not registered (`replica_port` is), so that line has no effect.

## 4. Proofs

`AofProofs` proves, for any set of appenders, any positive `max_queue_entries` and
`max_batch_entries`, any durability mode and any bounds (`OptionsAssumption`,
`BoundsAssumption`; no other assumption):

| Theorem | States |
|---|---|
| `TypeCorrect` | `Spec => []TypeOK` |
| `FlowCorrect` | `Spec => []FlowInv` |
| `OrderCorrect`, `NothingVanishesCorrect`, `TornCorrect`, `BoundCorrect` | the four promises about the file and the queue |
| `StopSyncsCorrect`, `UnjoinedCorrect` | what `stop()` leaves, and when it skips the join |
| `BelowOffsetFinalCorrect` | the action property on `written_offset_` |

The argument. `FileInAppendOrder` is not inductive: the next frame written must be
known to be larger than all in the file. `FlowInv` says why: the frames in flight
are the last ones accepted, consecutive over batch and queue (`InFlight`), the
file holds only settled frames below them except the one being written
(`FileBelow`), and every settled frame is whole in the file or was given up
(`Accounted`). With the types (`FlagsOK`, `StateOK`) it is inductive; there is one
lemma per action that disturbs it (`PushFlow`, `CollectFlow`, `WritevFlow`,
`FailFlow`, `DieFlow`). `FlowInv` is also checked by TLC. `stop()` needs a second
invariant, `OwnerInv` (until the join only a fault can have raised the flag; after
it the writer has ended), and the offset a third, `OffsetInv` (the offset does not
reach into the entry that is being written).

`ReplicationProofs` proves `HandlersOwn`, `ReplicationSpec => []HandlerOwnsDescriptor`,
for any appenders, replicas, descriptors and bounds (`ReplicationAssumption`). The
invariant alone is not inductive: nothing in it says that the descriptor `Register`
hands to a new thread is still its connection's, nor that no second thread has the
same one. `DescriptorInv` adds that the connection being registered owns the
descriptor in the slot and has no handler yet (`Registering`), that the connections
waiting for `accept` are distinct, made, without a handler and not the one being
registered (`Waiting`), and that a connection that was not made has no handler
(`LinkShape`). A close then frees a descriptor that only its own thread holds, because
`fds` gives each descriptor one connection. `KeepsDescriptors` covers the actions that
leave this state alone; each of the other six has its lemma.

`AofRefinementProofs` proves `RefinesAppendLog`, `Spec => ImplementsAppendLog`, from
the assumptions of `AofProofs`. The log of the abstract specification is the file
without the entry that `writev` is in, its pending frames are batch and queue. Each
action is a step of `AppendLog` or none: a push is an acceptance, the completion of a
frame a write, the store of the offset a publication, a fault or a death gives
frames up. `FlowInv` supplies what the mapping needs: the last entry of the file is the
first frame of the batch while `writev` is in it, and what is in flight is consecutive.

`StoreProofs` proves, for any threads, keys, values, clock and bounds
(`StoreAssumption`; values are non-empty sequences of tokens, which is what a string
is here):

| Theorem | States |
|---|---|
| `StoreTypes` | `Spec => []TypeOK` |
| `LogReplays` | `Spec => []ReplayAgrees` |
| `ReadersBehindLog` | `Spec => []LogAheadOfReaders` |

`StoreTypes` rests on the form of every string on its way between the database and a
`put` (`Forms`): what a thread has read, and what `expire` puts together of it.
`ReplayAgrees` speaks of keys at rest, and says nothing while a thread is between its
append and its write. `StoreInv` does: a thread about to write holds what the log has
at its position (`Carried`), the database at an unraced key is what the command at
`applied[k]` left, or that has expired and is gone, and every later command for the
key still has its thread on the way (`Together`). When no thread is, the command at
`applied[k]` is the last one for the key, and that is what replaying comes to.
`LogAheadOfReaders` needs the same of every value between the database and an answer
(`Ahead`): in the database and in the hands of a thread that judges it.

`BlpProofs` uses those lemmas for the whole process, with deaths and restarts, any
configuration files and any connections:

| Theorem | States |
|---|---|
| `OnlyWithSession` | `BlpSpec => []SessionRequired` |
| `RefusedOnlyAfterFailure` | `BlpSpec => []ClientWritesLogged` |
| `FileReplays` | `BlpSpec => []ReplayAfterRestart` |
| `ReadsOwnWrites` | `BlpSpec => []ReadYourWrites` |
| `ProcessTypes` | `BlpSpec => []BlpTypeOK` |
| `PortKept` | `BlpSpec => []ReplicaPortAsWritten` |

`ProcessInv` adds to the store's part where `main` is (`Phases`: a file that refuses
means that a `writev` has failed or that no handler runs) and restates `Together` for
commands whose write no death came before (`Kept`). Of the file it says that frames and
pending commands are strictly in the order of the log (`FileInOrder`), whatever is
torn, given up or cut off; so the last readable frame about a key is the one with the
largest position, and where `FileHas` holds that is the command the database was given
last (`LastInFile`). `ReadYourWrites` rests on a second invariant over it,
`Reading`: what the client was told, what is on its way for it and what the database
holds agree at every key that it alone writes (`Faithful`), and every thread that
changes a key is counted among its writers.

`PortKept` holds for any file whatsoever: `BlpAssumption` only says that a file is a
sequence. Its invariant, `BootInv`, follows the loop of `init`: `conf.replica_port` is
the last number that the lines read so far set for it, as an `int16_t`, or the
default if there is none (`PortRead`); no replication thread is there
before all lines have been read (`Progress`), and the one that runs was given
`conf.replica_port` (`RoleShape`). `Int16Facts` says why the `int16_t` does no harm:
it keeps every number modulo 2^16.

`WireProofs` proves `RoundTrip`: `Deserialize[Serialize(e)]` gives the three strings
of `e` back, for any bytes, as long as the message is shorter than `Huge`. Its lemmas
say how much of a message a receiver has after each `send_all`: a message without its
last piece is not complete, and one with it is complete, and is taken to its last
byte.

`StreamProofs` proves, for any appenders, replicas, descriptors, bounds and commands:

| Theorem | States |
|---|---|
| `ReplicationTypes` | `ReplicationSpec => []ReplicationTypeOK` |
| `StreamStaysInStep` | `ReplicationSpec => []StreamInStep` |
| `UnmixedTakesLogged` | `ReplicationSpec => []TakesLogged` |
| `UnmixedAppliesLogged` | `ReplicationSpec => []AppliesOnlyLogged` |

`StreamInStep` says that the bytes under way on an unmixed connection are the beginning
of a message. A step that sends a piece keeps this only if that piece is the next one
of that message, so `StreamInv` has for every thread within a message which message it
is, how many pieces have gone, that they are what is under way, and that the
descriptor it sends to is still behind the same connection (`Tracks`); that no other
thread is within a message there (`OneSender`); and that with nobody within one, what
is under way is whole (`Streams`). `TypeInv` and `DescriptorInv` complete the
induction. The actions fall into three kinds (`StepKinds`): a thread goes on without
sending (`Working`), a thread sends a piece (`Sending`), the network or a replica moves
(`Passing`). `TakesLogged` then follows with `RoundTrip`: a whole message on an
unmixed connection is an ACK or a command of the master's file, byte for byte.
`UnmixedAppliesLogged` carries this over to what replicas have applied, as the log only
grows.

`ReplicationAssumption` says that commands are strings of bytes and that a message of
them is shorter than `Huge`: `Wire` stands for lengths with one byte where the code has
four and eight, and a longer string would be one that does not fit into them. A DEL has
no value, as `LevelDBWrapper::remove` appends it: `startReplica` ignores the field for
a DEL.

`AofReaderProofs` proves, for any commands of fewer than 100 parts of fewer than 100
characters each, over any characters, any number of frames and any chunk size
(`ReaderAssumption`):

| Theorem | States |
|---|---|
| `InOrder` | `Spec => []ExecutesInOrder` |
| `Aligned` | `Spec => []StreamAligned` |
| `ToTheEnd` | `Spec => []ReadsToTheEnd` |

None of the three is inductive, as none says what the parser is in the middle of.
`ReaderInv` does. `Layout` says where the serialiser put each line and part of each
whole frame. While a reader works (`Reading`), the unparsed part of `stream_buf` is the
part of the file from the last frame executed to the file offset (`Window`); as long as
no torn frame has been met, the frames executed are the first ones behind the starting
offset and the bytes parsed end where the last of them ends (`Given`); and the parser's
number, parts and position are those of the next frame, and outside the parser that
frame has not arrived in full (`Ahead`). The step from bytes to parts is made by two
lemmas about texts, `LineRead` and `BulkRead`: if what is in the buffer at a position
agrees with a line or a bulk string as far as it goes, it is read when it is all there,
with the number or the data that was written and up to its last byte, and not read
before. A payload may hold anything, line ends and headers included, because its length
comes first. The proofs need no induction over data: `findCRLF` returns the least element
of a set of positions and `stol` takes the longest prefix of digits, and that a least
number exists (`Least`) follows from `WFMin` of the library. One lemma per action
then preserves `ReaderInv` (`ReadStep`, `HeaderStep`, `PartStep`, `ExecuteStep`,
`KeepStep`, ...). TLC has checked `ReaderInv` as well, on files of two frames.

What is only model-checked: the liveness properties (`ExpiredReaped`, `AppendReturns`,
`StopReturns`, `AcceptedSettles`, `BlockedAppendReturns`, `ClosesBroken`), which are out
of the prover's reach.

## 5. Not modelled

* Ring buffer, sequence number, `recv_all_with_event`, `LevelDBWrapper::writeBatch`,
  `createSnapshot`, `releaseSnapshot`: no caller. `Status` is empty. The ring buffer
  is a template whose members are defined in a `.cpp` file and could not be linked.
* Lifetime of objects captured by reference in detached threads (`blp.cpp` 70, 76):
  undefined behaviour at start-up and after the return from `main`; the models have
  the threads on valid objects.
* Socket buffers, and with them a `send` that blocks; `connect` that fails (it is
  retried); the listen queue of five.
* LevelDB, brpc, TCP and the file system are external: an atomic map, one command at
  a time per connection, ordered bytes, a synced prefix.

## 6. Plan

Done: all modules of section 2; every invariant that a passing run checks is stated
by a theorem of section 4, and so are the action property of `Aof` and its refinement of `AppendLog`.

Left: the liveness properties stay with TLC, on the instances of section 3. Should the
program one day call `recoverFromAOF` at its start, or unregister listeners, `Blp` and
`Replication` are the modules to extend.
