--------------------------------- MODULE Aof ---------------------------------
(***************************************************************************)
(* The append-only file of src/src/common/aof.{h,cpp}: appending threads   *)
(* put RESP frames on a bounded queue, one writer thread moves them in     *)
(* batches to the file, main() stops the writer and destroys the object.   *)
(*                                                                         *)
(* A frame is named by the position at which the queue accepted it, so     *)
(* the first accepted frame is 1.  The file is the sequence of the frames  *)
(* writev has reached, each whole or torn: a torn frame is one whose bytes *)
(* are only partly in the file.  File offsets count these entries.         *)
(***************************************************************************)
EXTENDS Naturals, Sequences

CONSTANTS
  Appenders,          \* threads that call LevelDBWrapper::put and ::remove
  max_queue_entries,  \* Options::max_queue_entries
  max_batch_entries,  \* Options::max_batch_entries
  durability_mode,    \* Options::durability_mode: 0 never, 1 batch, 2 periodic
  MaxAppends,         \* bound: appends that may be started
  MaxWriteFaults,     \* bound: writev calls of a process that fail for good
  MaxRestarts         \* bound: new processes after a crash or an exit

ASSUME OptionsAssumption ==
  /\ max_queue_entries \in Nat \ {0}
  /\ max_batch_entries \in Nat \ {0}
  /\ durability_mode \in {0, 1, 2}

ASSUME BoundsAssumption ==
  /\ MaxAppends \in Nat
  /\ MaxWriteFaults \in Nat
  /\ MaxRestarts \in Nat

VARIABLES
  queue,           \* queue_, the frames accepted and not collected
  stop_flag,       \* stop_flag_
  written_offset,  \* written_offset_
  pc,              \* where each appending thread is
  writer,          \* where the writer thread is in writerLoop
  batch,           \* the frames of the batch that are not wholly in the file
  cut,             \* is the first frame of batch partly in the file?
  file,            \* the contents of the file
  durable,         \* how many entries of file the last fsync covered
  main,            \* where the thread that owns the object is
  joined,          \* has writer_thread_ been joined?
  accepted,        \* history: how many frames the queue has accepted
  dropped,         \* history: accepted frames given up by a fault or a death
  started,         \* history: appends started, for MaxAppends
  faults,          \* history: writev failures of this process
  restarts         \* history: processes started after the first

appendVars == <<pc, started>>
writerVars == <<writer, batch, cut, file, durable, written_offset>>
ownerVars  == <<main, joined, restarts>>
history    == <<accepted, dropped, faults>>
vars       == <<queue, stop_flag, appendVars, writerVars, ownerVars, history>>

Alive == main \in {"run", "notify", "join", "stopped"}

Frames(s) == {s[i] : i \in DOMAIN s}
Whole(f)  == {f[i].id : i \in {j \in DOMAIN f : f[j].whole}}
Prefix(s, n) == SubSeq(s, 1, n)
Torn(f, n) == [Prefix(f, n) EXCEPT ![n] = [id |-> f[n].id, whole |-> FALSE]]

(* cv_space_.notify_all(): every appender asleep in line 42 tries again. *)
Woken == [p \in Appenders |-> IF pc[p] = "waiting" THEN "blocking" ELSE pc[p]]

(* The file just after open(O_APPEND | O_CREAT), the writer just started. *)
Init ==
  /\ queue = <<>> /\ stop_flag = FALSE /\ written_offset = 0
  /\ pc = [p \in Appenders |-> "idle"] /\ started = 0
  /\ writer = "collect" /\ batch = <<>> /\ cut = FALSE
  /\ file = <<>> /\ durable = 0
  /\ main = "run" /\ joined = FALSE /\ restarts = 0
  /\ accepted = 0 /\ dropped = {} /\ faults = 0

-----------------------------------------------------------------------------
(* Appending threads.  LevelDBWrapper::put and ::remove try the            *)
(* non-blocking append first and fall back on the blocking one, whose      *)
(* result they ignore.                                                     *)

(* push_back under mu_; the thread has yet to notify cv_ and the listeners. *)
Push(p) ==
  /\ queue' = Append(queue, accepted + 1)
  /\ accepted' = accepted + 1
  /\ pc' = [pc EXCEPT ![p] = "notify"]

(* appendRawAsync: refuses when stopped or full, and put then blocks. *)
AppendAsync(p) ==
  /\ Alive /\ pc[p] = "idle" /\ started < MaxAppends
  /\ started' = started + 1
  /\ \/ /\ ~stop_flag /\ Len(queue) < max_queue_entries
        /\ Push(p)
     \/ /\ stop_flag \/ Len(queue) >= max_queue_entries
        /\ pc' = [pc EXCEPT ![p] = "blocking"]
        /\ UNCHANGED <<queue, accepted>>
  /\ UNCHANGED <<stop_flag, writerVars, ownerVars, dropped, faults>>

(* Mutant: cv_space_.wait without its predicate. *)
AppendBlockingUnchecked(p) ==
  /\ Alive /\ pc[p] = "blocking"
  /\ \/ stop_flag /\ pc' = [pc EXCEPT ![p] = "idle"] /\ UNCHANGED <<queue, accepted>>
     \/ ~stop_flag /\ Push(p)
  /\ UNCHANGED <<stop_flag, started, writerVars, ownerVars, dropped, faults>>

(* appendRawBlocking, from the start or after a wake-up: the predicate is  *)
(* evaluated again under mu_ each time.                                    *)
AppendBlocking(p) ==
  /\ Alive /\ pc[p] = "blocking"
  /\ \/ /\ stop_flag
        /\ pc' = [pc EXCEPT ![p] = "idle"]
        /\ UNCHANGED <<queue, accepted>>
     \/ /\ ~stop_flag /\ Len(queue) < max_queue_entries
        /\ Push(p)
     \/ /\ ~stop_flag /\ Len(queue) >= max_queue_entries
        /\ pc' = [pc EXCEPT ![p] = "waiting"]
        /\ UNCHANGED <<queue, accepted>>
  /\ UNCHANGED <<stop_flag, started, writerVars, ownerVars, dropped, faults>>

(* A condition variable may wake a thread that nobody notified. *)
SpuriousWakeup(p) ==
  /\ Alive /\ pc[p] = "waiting"
  /\ pc' = [pc EXCEPT ![p] = "blocking"]
  /\ UNCHANGED <<queue, stop_flag, started, writerVars, ownerVars, history>>

(* cv_.notify_one() and notifyListeners() after the unlock.  The writer's  *)
(* wait on cv_ is timed, so the notification only shortens it.             *)
Notify(p) ==
  /\ Alive /\ pc[p] = "notify"
  /\ pc' = [pc EXCEPT ![p] = "idle"]
  /\ UNCHANGED <<queue, stop_flag, started, writerVars, ownerVars, history>>

-----------------------------------------------------------------------------
(* The writer thread, one step per region another thread can observe.      *)

(* Mutants of Collect: it takes n frames, leaves rest, and the appenders   *)
(* are then at pcs.                                                        *)
CollectInto(n, rest, pcs) ==
  /\ Alive /\ writer = "collect" /\ n <= max_batch_entries /\ n <= Len(queue)
  /\ batch' = Prefix(queue, n)
  /\ queue' = rest
  /\ pc' = pcs
  /\ writer' = IF n = 0 THEN "check" ELSE "write"
  /\ UNCHANGED <<stop_flag, started, cut, file, durable, written_offset,
                 ownerVars, history>>

CollectTakes == {n \in 0 .. max_batch_entries : queue # <<>> => n > 0}

(* pop_front forgotten. *)
CollectKeeps == \E n \in CollectTakes : CollectInto(n, queue, Woken)

(* A frame popped before the byte limit ends the batch. *)
CollectLoses ==
  \E n \in CollectTakes : CollectInto(n, SubSeq(queue, n + 2, Len(queue)), Woken)

(* cv_space_.notify_all() forgotten. *)
CollectSilent ==
  \E n \in CollectTakes : CollectInto(n, SubSeq(queue, n + 1, Len(queue)), pc)

(* The byte limit may end a batch before its first frame. *)
CollectIdles ==
  \E n \in 0 .. max_batch_entries :
    CollectInto(n, SubSeq(queue, n + 1, Len(queue)), Woken)

(* Lines 211-226, one critical section of mu_ (wait_for gives mu_ up and   *)
(* returns at the latest at its timeout).  The byte limit may end a batch  *)
(* after any frame but not before the first.  Half-empty wakes appenders.  *)
Collect ==
  /\ Alive /\ writer = "collect"
  /\ \E n \in 0 .. max_batch_entries :
       /\ n <= Len(queue) /\ (queue # <<>> => n > 0)
       /\ batch' = Prefix(queue, n)
       /\ queue' = SubSeq(queue, n + 1, Len(queue))
       /\ pc' = IF Len(queue) - n < max_queue_entries \div 2 THEN Woken ELSE pc
       /\ writer' = IF n = 0 THEN "check" ELSE "write"
  /\ UNCHANGED <<stop_flag, started, cut, file, durable, written_offset,
                 ownerVars, history>>

(* Mutant: an empty batch always goes on waiting. *)
CheckStopNever ==
  /\ Alive /\ writer = "check" /\ writer' = "collect"
  /\ UNCHANGED <<queue, stop_flag, appendVars, batch, cut, file, durable,
                 written_offset, ownerVars, history>>

(* Lines 228-238: an empty batch.  stop_flag_ is read without mu_. *)
CheckStop ==
  /\ Alive /\ writer = "check"
  /\ writer' = IF stop_flag THEN "exit" ELSE "collect"
  /\ durable' \in {durable} \cup
       (IF durability_mode = 2 /\ ~stop_flag THEN {Len(file)} ELSE {})
  /\ UNCHANGED <<queue, stop_flag, appendVars, batch, cut, file,
                 written_offset, ownerVars, history>>

(* Mutants of Writev: a short write counts as the whole frame; the offset  *)
(* is published inside the loop.                                           *)
WritevShortIsDone(complete) ==
  /\ Alive /\ writer = "write"
  /\ file' = Append(file, [id |-> Head(batch), whole |-> complete])
  /\ batch' = Tail(batch)
  /\ writer' = IF Len(batch) = 1 THEN "offset" ELSE "write"
  /\ UNCHANGED <<queue, stop_flag, appendVars, cut, durable, written_offset,
                 ownerVars, history>>

WritevPublishes(complete) ==
  /\ Alive /\ writer = "write" /\ (complete \/ ~cut)
  /\ file' = Append(IF cut THEN Prefix(file, Len(file) - 1) ELSE file,
                    [id |-> Head(batch), whole |-> complete])
  /\ cut' = ~complete
  /\ batch' = IF complete THEN Tail(batch) ELSE batch
  /\ writer' = IF complete /\ Len(batch) = 1 THEN "offset" ELSE "write"
  /\ written_offset' = Len(file')
  /\ UNCHANGED <<queue, stop_flag, appendVars, durable, ownerVars, history>>

(* Lines 261-283: writev takes some of the remaining bytes, ending inside  *)
(* the first remaining frame or completing it.  One call that takes        *)
(* several frames is several of these steps.                               *)
Writev(complete) ==
  /\ Alive /\ writer = "write"
  /\ complete \/ ~cut
  /\ file' = Append(IF cut THEN Prefix(file, Len(file) - 1) ELSE file,
                    [id |-> Head(batch), whole |-> complete])
  /\ cut' = ~complete
  /\ batch' = IF complete THEN Tail(batch) ELSE batch
  /\ writer' = IF complete /\ Len(batch) = 1 THEN "offset" ELSE "write"
  /\ UNCHANGED <<queue, stop_flag, appendVars, durable, written_offset,
                 ownerVars, history>>

(* Mutant: the batch goes back to the queue, behind the frames there. *)
WritevFailsRequeues ==
  /\ Alive /\ writer = "write" /\ faults < MaxWriteFaults
  /\ faults' = faults + 1
  /\ stop_flag' = TRUE
  /\ queue' = queue \o batch
  /\ batch' = <<>> /\ cut' = FALSE
  /\ writer' = "offset"
  /\ UNCHANGED <<appendVars, file, durable, written_offset, ownerVars,
                 accepted, dropped>>

(* Lines 264-269: an error other than EINTR gives the rest of the batch up *)
(* and raises stop_flag_ without mu_ and without notifying anybody.        *)
WritevFails ==
  /\ Alive /\ writer = "write" /\ faults < MaxWriteFaults
  /\ faults' = faults + 1
  /\ stop_flag' = TRUE
  /\ dropped' = dropped \cup Frames(batch)
  /\ batch' = <<>> /\ cut' = FALSE
  /\ writer' = "offset"
  /\ UNCHANGED <<queue, appendVars, file, durable, written_offset, ownerVars,
                 accepted>>

(* Mutant: lseek's error result -1 stored as an offset. *)
StoreOffsetUnchecked ==
  /\ Alive /\ writer = "offset"
  /\ written_offset' \in {Len(file), 0 - 1}
  /\ writer' = "sync"
  /\ UNCHANGED <<queue, stop_flag, appendVars, batch, cut, file, durable,
                 ownerVars, history>>

(* Lines 286-287: the offset readers see, before any fsync; it stays as it *)
(* was when lseek fails.                                                   *)
StoreOffset ==
  /\ Alive /\ writer = "offset"
  /\ written_offset' \in {Len(file), written_offset}
  /\ writer' = "sync"
  /\ UNCHANGED <<queue, stop_flag, appendVars, batch, cut, file, durable,
                 ownerVars, history>>

(* Lines 289-301; in mode 2 the interval may or may not have passed. *)
SyncBatch ==
  /\ Alive /\ writer = "sync"
  /\ durable' \in (IF durability_mode = 1 THEN {} ELSE {durable}) \cup
                  (IF durability_mode = 0 THEN {} ELSE {Len(file)})
  /\ writer' = "drain"
  /\ UNCHANGED <<queue, stop_flag, appendVars, batch, cut, file,
                 written_offset, ownerVars, history>>

(* Lines 303-307: once stopped, leave only with the queue empty. *)
Drain ==
  /\ Alive /\ writer = "drain"
  /\ writer' = IF stop_flag /\ queue = <<>> THEN "exit" ELSE "collect"
  /\ UNCHANGED <<queue, stop_flag, appendVars, batch, cut, file, durable,
                 written_offset, ownerVars, history>>

(* Line 310. *)
WriterExit ==
  /\ Alive /\ writer = "exit"
  /\ durable' = IF durability_mode > 0 THEN Len(file) ELSE durable
  /\ writer' = "done"
  /\ UNCHANGED <<queue, stop_flag, appendVars, batch, cut, file,
                 written_offset, ownerVars, history>>

-----------------------------------------------------------------------------
(* The owner: main() calls stop() and then runs ~Aof().                    *)

(* Lines 73-77: a flag that is already up ends stop() at once. *)
StopSet ==
  /\ main = "run"
  /\ main' = IF stop_flag THEN "stopped" ELSE "notify"
  /\ stop_flag' = TRUE
  /\ UNCHANGED <<queue, appendVars, writerVars, joined, restarts, history>>

(* Lines 78-79. *)
StopNotify ==
  /\ main = "notify"
  /\ main' = "join"
  /\ pc' = Woken
  /\ UNCHANGED <<queue, stop_flag, started, writerVars, joined, restarts,
                 history>>

(* Mutant: stop() does not wait for the writer. *)
StopWithoutJoin ==
  /\ main = "join"
  /\ main' = "stopped" /\ joined' = TRUE
  /\ durable' = IF durability_mode > 0 THEN Len(file) ELSE durable
  /\ UNCHANGED <<queue, stop_flag, appendVars, writer, batch, cut, file,
                 written_offset, restarts, history>>

(* Lines 80-86: join, the last fsync, close. *)
StopJoin ==
  /\ main = "join" /\ writer = "done"
  /\ main' = "stopped" /\ joined' = TRUE
  /\ durable' = IF durability_mode > 0 THEN Len(file) ELSE durable
  /\ UNCHANGED <<queue, stop_flag, appendVars, writer, batch, cut, file,
                 written_offset, restarts, history>>

(* The process is gone and the file holds f: whatever is not whole in it   *)
(* is lost.                                                                *)
Die(f, how) ==
  /\ main' = how
  /\ file' = f
  /\ queue' = <<>> /\ batch' = <<>> /\ cut' = FALSE
  /\ pc' = [p \in Appenders |-> "idle"]
  /\ dropped' = (1 .. accepted) \ Whole(f)
  /\ UNCHANGED <<stop_flag, started, writer, durable, written_offset, joined,
                 restarts, accepted, faults>>

(* ~Aof(): stop() again returns at once; then ~thread() of a thread that   *)
(* was not joined is std::terminate().                                     *)
Destroy ==
  /\ main = "stopped"
  /\ Die(file, IF joined THEN "exited" ELSE "aborted")

(* A crash keeps what fsync covered and any further part of the file, the  *)
(* last entry kept possibly torn.                                          *)
Crash ==
  /\ Alive /\ restarts < MaxRestarts
  /\ \E n \in durable .. Len(file) :
       \/ Die(Prefix(file, n), "crashed")
       \/ n > durable /\ Die(Torn(file, n), "crashed")

(* Mutant: stop_flag_ not cleared when the writer starts. *)
RestartStopped ==
  /\ ~Alive /\ restarts < MaxRestarts
  /\ restarts' = restarts + 1
  /\ main' = "run" /\ joined' = FALSE
  /\ writer' = "collect" /\ written_offset' = Len(file) /\ faults' = 0
  /\ UNCHANGED <<stop_flag, queue, appendVars, batch, cut, file, durable,
                 accepted, dropped>>

(* openFile: the offset starts at the end of the file. *)
OpenFile == written_offset' = Len(file)

(* startWriter, of an object that has not started one. *)
StartWriter == stop_flag' = FALSE /\ writer' = "collect"

(* A new process: its constructor opens the file and starts the writer.    *)
(* Nothing calls recoverFromAOF, so a torn tail stays where it is.         *)
Restart ==
  /\ ~Alive /\ restarts < MaxRestarts
  /\ restarts' = restarts + 1
  /\ main' = "run" /\ joined' = FALSE /\ faults' = 0
  /\ OpenFile /\ StartWriter
  /\ UNCHANGED <<queue, appendVars, batch, cut, file, durable, accepted,
                 dropped>>

(* Nothing is left to do once the last process has ended. *)
Ended ==
  /\ ~Alive /\ restarts = MaxRestarts
  /\ UNCHANGED vars

-----------------------------------------------------------------------------
WriterStep == \/ Collect \/ CheckStop \/ Writev(TRUE) \/ Writev(FALSE)
              \/ WritevFails \/ StoreOffset \/ SyncBatch \/ Drain \/ WriterExit

Next ==
  \/ \E p \in Appenders : \/ AppendAsync(p) \/ AppendBlocking(p)
                          \/ SpuriousWakeup(p) \/ Notify(p)
  \/ WriterStep
  \/ StopSet \/ StopNotify \/ StopJoin \/ Destroy
  \/ Crash \/ Restart
  \/ Ended

Spec == Init /\ [][Next]_vars

(* The threads run: a runnable writer, appender or owner is scheduled, and *)
(* writev eventually completes the frame it is in.  Nobody has to append,  *)
(* stop, fail or crash.                                                    *)
Fairness ==
  /\ \A p \in Appenders : WF_vars(AppendBlocking(p)) /\ WF_vars(Notify(p))
  /\ WF_vars(Collect) /\ WF_vars(CheckStop) /\ WF_vars(Writev(TRUE))
  /\ WF_vars(StoreOffset) /\ WF_vars(SyncBatch) /\ WF_vars(Drain)
  /\ WF_vars(WriterExit)
  /\ WF_vars(StopNotify) /\ WF_vars(StopJoin)

FairSpec == Spec /\ Fairness

-----------------------------------------------------------------------------
FlagsOK == stop_flag \in BOOLEAN /\ cut \in BOOLEAN /\ joined \in BOOLEAN

(* The variables hold what their declarations in aof.h and the locals of   *)
(* writerLoop can hold.                                                    *)
TypeOK ==
  /\ FlagsOK
  /\ queue \in Seq(Nat \ {0}) /\ batch \in Seq(Nat \ {0})
  /\ file \in Seq([id : Nat \ {0}, whole : BOOLEAN])
  /\ written_offset \in Nat /\ durable \in Nat
  /\ pc \in [Appenders -> {"idle", "blocking", "waiting", "notify"}]
  /\ writer \in {"collect", "check", "write", "offset", "sync", "drain",
                 "exit", "done"}
  /\ main \in {"run", "notify", "join", "stopped",
               "exited", "aborted", "crashed"}
  /\ accepted \in Nat /\ started \in Nat /\ faults \in Nat /\ restarts \in Nat
  /\ dropped \in SUBSET (Nat \ {0})

(* writerLoop never writes a frame twice and never reorders two frames     *)
(* that queue_ accepted, over any number of batches, short writes, faults, *)
(* crashes and restarts.                                                   *)
FileInAppendOrder ==
  \A i, j \in DOMAIN file : i < j => file[i].id < file[j].id

(* Only a failed writev or the death of the process loses a frame that     *)
(* queue_ accepted: every other one is still queued, in the batch, or      *)
(* wholly in the file.                                                     *)
NothingVanishes ==
  /\ 1 .. accepted = Whole(file) \cup Frames(batch) \cup Frames(queue) \cup dropped
  /\ dropped \cap (Whole(file) \cup Frames(batch) \cup Frames(queue)) = {}

(* The iovec arithmetic after a short writev: the only torn frame that was *)
(* not given up is the last entry of the file, which writev is still in.   *)
TornOnlyInProgress ==
  \A i \in DOMAIN file : ~file[i].whole =>
    \/ file[i].id \in dropped
    \/ cut /\ i = Len(file) /\ batch # <<>> /\ file[i].id = Head(batch)

(* max_queue_entries bounds queue_, however many appenders one notify_all  *)
(* wakes for the same free place.                                          *)
QueueBounded == Len(queue) <= max_queue_entries

(* How the promises above are kept.  The frames in flight are the last     *)
(* ones accepted, in order: batch continues where the settled frames end,  *)
(* queue continues batch.                                                  *)
Settled == accepted - Len(queue) - Len(batch)

InFlight ==
  /\ Len(queue) + Len(batch) <= accepted
  /\ \A i \in DOMAIN queue : queue[i] = accepted - Len(queue) + i
  /\ \A i \in DOMAIN batch : batch[i] = Settled + i

(* Where the writer holds a batch. *)
Shape ==
  /\ Alive /\ writer = "write" => batch # <<>>
  /\ batch # <<>> => Alive /\ writer = "write"

(* Of the frames in flight the file has at most a part of the first. *)
FileBelow ==
  /\ \A i \in DOMAIN file : (cut /\ i = Len(file)) \/ file[i].id <= Settled
  /\ cut => /\ batch # <<>> /\ file # <<>>
            /\ file[Len(file)].id = Settled + 1 /\ ~file[Len(file)].whole

(* A settled frame is whole in the file or was given up, never both. *)
Accounted ==
  /\ dropped \subseteq 1 .. Settled
  /\ \A n \in 1 .. Settled :
       n \in dropped \/ \E i \in DOMAIN file : file[i].whole /\ file[i].id = n
  /\ \A i \in DOMAIN file : file[i].whole => file[i].id \notin dropped

(* The invariant of writerLoop and the append functions, inductive with    *)
(* TypeOK, from which FileInAppendOrder, NothingVanishes,                  *)
(* TornOnlyInProgress and QueueBounded follow.                             *)
FlowInv ==
  /\ Shape /\ InFlight /\ FileBelow /\ Accounted
  /\ FileInAppendOrder /\ TornOnlyInProgress /\ QueueBounded

(* When stop() has joined the writer, all that the writer took from the    *)
(* queue is in the file and, unless durability_mode is 0, on the disk.     *)
StopSyncs ==
  main = "stopped" /\ joined =>
    /\ writer = "done" /\ batch = <<>>
    /\ durability_mode > 0 => durable = Len(file)

(* stop() returns without joining the writer, and ~Aof() then terminates   *)
(* the process, only when a failed writev raised stop_flag_ before it.     *)
UnjoinedOnlyAfterFault ==
  main \in {"stopped", "aborted"} /\ ~joined => faults > 0

(* The frames below the offset that getCurrentOffset() shows to listeners  *)
(* are final: while the process lives the offset does not go back and the  *)
(* file does not change below it.                                          *)
BelowOffsetFinal ==
  [][Alive /\ Alive' =>
       /\ written_offset <= written_offset'
       /\ written_offset <= Len(file')
       /\ Prefix(file', written_offset) = Prefix(file, written_offset)]_vars

(* An appender asleep in appendRawBlocking does not sleep for ever: the    *)
(* writer makes room and wakes it, or stop() or a fault does.              *)
BlockedAppendReturns ==
  \A p \in Appenders : pc[p] = "waiting" ~> pc[p] # "waiting"

(* stop() returns: the writer drains the queue and leaves its loop.        *)
StopReturns == main = "join" ~> main # "join"

(* A frame that queue_ accepted is in the end in the file, given up, or    *)
(* left behind by a writer that has ended.                                 *)
AcceptedSettles ==
  \A n \in 1 .. MaxAppends :
    n <= accepted ~> n \in Whole(file) \cup dropped \/ writer = "done"

(* What the comments of stop() ("graceful stop and flush") and of line 304 *)
(* ("empty remaining queue before exit") say: without a fault, a stop()    *)
(* that has joined the writer leaves no accepted frame in the queue.       *)
StopFlushes == main = "stopped" /\ joined /\ faults = 0 => queue = <<>>

(* The file and the frames on their way to it are an append log; a frame   *)
(* that writev is in the middle of is still pending.                       *)
Log == INSTANCE AppendLog WITH
         log     <- IF cut THEN Prefix(file, Len(file) - 1) ELSE file,
         pending <- batch \o queue,
         next    <- accepted,
         published <- written_offset

(* The writer thread, its batches and its partial writes implement the     *)
(* append log.                                                             *)
ImplementsAppendLog == Log!Spec
=============================================================================
