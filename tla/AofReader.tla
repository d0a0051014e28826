------------------------------ MODULE AofReader ------------------------------
(***************************************************************************)
(* The two readers of the append-only file in src/src/common/aof.cpp,      *)
(* recoverFromAOF and readCommandsFromOffset: they read the file in        *)
(* chunks, while the writer thread may be appending to it, and hand each   *)
(* frame they can parse to a callback.                                     *)
(*                                                                         *)
(* The file holds frames in the order in which they were accepted (module  *)
(* Aof); a failed writev or a crash may have left one of them torn, with   *)
(* only its first bytes in the file.  The reader does nothing to it, so    *)
(* that it is laid out first, with all that will be appended; a read may   *)
(* find that the writer has not got further than any byte of it.           *)
(***************************************************************************)
EXTENDS Resp

CONSTANTS
  Chars,      \* the characters that the commands are made of
  Commands,   \* the commands that may have been appended
  MaxFrames,  \* bound: frames in the file
  BUF         \* the size of the buffer given to read

ASSUME ReaderAssumption ==
  /\ MaxFrames \in Nat /\ BUF \in Nat \ {0}
  /\ Commands \subseteq Seq(Seq(Chars))
  /\ \A c \in Commands : Len(c) < Huge /\ \A i \in DOMAIN c : Len(c[i]) < Huge

VARIABLES
  file,           \* the bytes of the file
  frames,         \* its frames: the command, where it starts, where its first
                  \* line and each of its parts ended, and is it all there?
  call,           \* the function and, for recovery, whether it truncates
  first,          \* how many frames lie before the offset it starts from
  at,             \* where the reader is
  off,            \* the file offset of rfd
  stream_buf,
  parsed,         \* bytes of stream_buf that were parsed
  array,          \* num, pos and parts of tryParseRESPArray
  executed,       \* the commands given to exec_fn
  last_good,      \* last_good_offset, from the starting offset
  written_offset  \* written_offset_, as recovery leaves it; none before

fileVars   == <<file, frames>>
callVars   == <<call, first>>
readerVars == <<off, stream_buf, parsed, array, executed, last_good>>
allVars    == <<fileVars, callVars, at, readerVars, written_offset>>

NoArray == [number |-> 0, pos |-> 1, parts |-> <<>>]

Init ==
  /\ file = <<>> /\ frames = <<>> /\ call = "none" /\ first = 0
  /\ at = "write" /\ off = 0 /\ stream_buf = <<>> /\ parsed = 0
  /\ array = NoArray /\ executed = <<>> /\ last_good = 0
  /\ written_offset = "none"

-----------------------------------------------------------------------------
(* The file. *)

(* Where the k-th frame ends. *)
End(k) == IF k < Len(frames) THEN frames[k + 1].from ELSE Len(file)

(* No frame lacks a part. *)
Serialized == \A i \in DOMAIN frames : Len(frames[i].cuts) = Len(frames[i].cmd) + 1

(* serializeToRESP, before its loop and in it. *)
StartFrame(c) ==
  /\ at = "write" /\ Serialized /\ Len(frames) < MaxFrames
  /\ file' = file \o RESPLine("*", Len(c))
  /\ frames' = Append(frames, [cmd |-> c, from |-> Len(file),
                               cuts |-> <<Len(file')>>, whole |-> TRUE])
  /\ UNCHANGED <<callVars, at, readerVars, written_offset>>
AddPart ==
  LET last == frames[Len(frames)]
  IN /\ at = "write" /\ ~Serialized
     /\ file' = file \o RESPBulk(last.cmd[Len(last.cuts)])
     /\ frames' = [frames EXCEPT ![Len(frames)].cuts = Append(@, Len(file'))]
     /\ UNCHANGED <<callVars, at, readerVars, written_offset>>

(* writev, or what a crash leaves of it, stops within the last frame. *)
Tear ==
  /\ at = "write" /\ Serialized /\ frames # <<>>
  /\ \A i \in DOMAIN frames : frames[i].whole
  /\ \E n \in frames[Len(frames)].from + 1 .. Len(file) - 1 :
       file' = SubSeq(file, 1, n)
  /\ frames' = [frames EXCEPT ![Len(frames)].whole = FALSE]
  /\ UNCHANGED <<callVars, at, readerVars, written_offset>>

-----------------------------------------------------------------------------
(* The readers. *)

(* Recovery starts at 0 on a file nobody writes to; the other reader       *)
(* starts at an offset that getCurrentOffset() returned.                   *)
Call ==
  /\ at = "write" /\ Serialized
  /\ \/ call' \in {"recover", "truncate"} /\ first' = 0
     \/ call' = "read" /\ first' \in 0 .. Len(frames)
  /\ at' = "open"
  /\ UNCHANGED <<fileVars, readerVars, written_offset>>

(* Lines 90-107 and 160-170: open, fstat or lseek may fail; recovery has   *)
(* nothing to do for an empty file or for none.                            *)
Open ==
  /\ at = "open"
  /\ \/ at' = "failed" /\ UNCHANGED off
     \/ call # "read" /\ file = <<>> /\ at' = "done" /\ UNCHANGED off
     \/ (call = "read" \/ file # <<>>) /\ at' = "read" /\ off' = End(first)
  /\ UNCHANGED <<fileVars, callVars, stream_buf, parsed, array, executed,
                 last_good, written_offset>>

(* Lines 116-119 and 178-180: read returns some of the bytes there are. *)
Read ==
  /\ at = "read"
  /\ \E n \in 1 .. BUF :
       /\ off + n <= Len(file)
       /\ stream_buf' = stream_buf \o SubSeq(file, off + 1, off + n)
       /\ off' = off + n
  /\ at' = "parse" /\ parsed' = 0
  /\ UNCHANGED <<fileVars, callVars, array, executed, last_good, written_offset>>

(* Lines 134-138 and 193-197. *)
ReadFails ==
  /\ at = "read" /\ at' = "failed"
  /\ UNCHANGED <<fileVars, callVars, readerVars, written_offset>>

(* Lines 116 and 178: read returns 0, where the writer has got to. *)
ReadEnds ==
  /\ at = "read" /\ (call = "read" \/ off = Len(file))
  /\ at' = IF call = "read" THEN "done" ELSE "tail"
  /\ UNCHANGED <<fileVars, callVars, readerVars, written_offset>>

Rest == SubSeq(stream_buf, parsed + 1, Len(stream_buf))

(* tryParseRESPArray on Rest: its first line, a turn of its loop.  reserve *)
(* throws for a negative number.                                           *)
ParseHeader ==
  LET line == Line(Rest, 1, "*")
  IN /\ at = "parse" /\ line.ok
     /\ at' = IF line.number < 0 THEN "failed" ELSE "bulk"
     /\ array' = [number |-> line.number, pos |-> line.pos, parts |-> <<>>]
     /\ UNCHANGED <<fileVars, callVars, off, stream_buf, parsed, executed,
                    last_good, written_offset>>
ParseBulk ==
  LET bulk == Bulk(Rest, array.pos)
  IN /\ at = "bulk" /\ Len(array.parts) < array.number /\ bulk.ok
     /\ array' = [array EXCEPT !.pos = bulk.pos, !.parts = Append(@, bulk.data)]
     /\ UNCHANGED <<fileVars, callVars, at, off, stream_buf, parsed, executed,
                    last_good, written_offset>>

(* Mutant: one frame at most is taken from a chunk. *)
ExecuteOne ==
  /\ at = "bulk" /\ Len(array.parts) >= array.number
  /\ executed' = Append(executed, array.parts)
  /\ last_good' = last_good + array.pos - 1
  /\ stream_buf' = SubSeq(Rest, array.pos, Len(Rest)) /\ parsed' = 0
  /\ at' = "read" /\ array' = NoArray
  /\ UNCHANGED <<fileVars, callVars, off, written_offset>>

(* It returns true: lines 125-127 and 186-188. *)
Execute ==
  /\ at = "bulk" /\ Len(array.parts) >= array.number
  /\ executed' = Append(executed, array.parts)
  /\ parsed' = parsed + array.pos - 1
  /\ last_good' = last_good + array.pos - 1
  /\ at' = "parse" /\ array' = NoArray
  /\ UNCHANGED <<fileVars, callVars, off, stream_buf, written_offset>>

(* It returns false. *)
Stuck ==
  \/ at = "parse" /\ ~Line(Rest, 1, "*").ok
  \/ at = "bulk" /\ Len(array.parts) < array.number /\ ~Bulk(Rest, array.pos).ok

(* Mutant: the bytes parsed stay in stream_buf. *)
KeepAll ==
  /\ Stuck
  /\ at' = "read" /\ parsed' = 0 /\ array' = NoArray
  /\ UNCHANGED <<fileVars, callVars, off, stream_buf, executed, last_good,
                 written_offset>>

(* Lines 124-131 and 185-190. *)
KeepRest ==
  /\ Stuck
  /\ at' = "read" /\ stream_buf' = Rest /\ parsed' = 0 /\ array' = NoArray
  /\ UNCHANGED <<fileVars, callVars, off, executed, last_good, written_offset>>

(* Lines 140-156.  rfd was opened O_RDONLY, so ftruncate fails.  A failed  *)
(* lseek leaves the offset as it was.                                      *)
RecoverTail ==
  /\ at = "tail"
  /\ \/ /\ stream_buf # <<>> /\ call = "truncate"
        /\ at' = "failed" /\ UNCHANGED written_offset
     \/ /\ stream_buf = <<>> \/ call = "recover"
        /\ at' = "done"
        /\ written_offset' = Len(file) \/ UNCHANGED written_offset
  /\ UNCHANGED <<fileVars, callVars, readerVars>>

Returned == at \in {"done", "failed"} /\ UNCHANGED allVars

Next ==
  \/ (\E c \in Commands : StartFrame(c)) \/ AddPart \/ Tear
  \/ Call \/ Open \/ Read \/ ReadFails \/ ReadEnds
  \/ ParseHeader \/ ParseBulk \/ Execute \/ KeepRest
  \/ RecoverTail \/ Returned

Spec == Init /\ [][Next]_allVars

-----------------------------------------------------------------------------
(* The first n frames behind the starting offset are all there. *)
Intact(n) ==
  first + n <= Len(frames) /\ \A i \in 1 .. n : frames[first + i].whole

(* However read cuts the file and however far the writer is, the callback  *)
(* gets the appended commands in order, none cut short, left out or made   *)
(* up, as far as no torn frame lies before them.                           *)
ExecutesInOrder ==
  /\ \A i \in DOMAIN executed : Intact(i) => executed[i] = frames[first + i].cmd
  /\ (\A i \in DOMAIN frames : frames[i].whole) => Intact(Len(executed))

(* stream_buf is always the part of the file from the last frame executed  *)
(* to the file offset: no byte is lost or read twice between two chunks.   *)
StreamAligned ==
  at \notin {"write", "open"} =>
    Rest = SubSeq(file, End(first) + last_good + 1, off)

(* At the end of the file no whole frame is left behind, unless a torn one *)
(* lies before it.                                                         *)
ReadsToTheEnd ==
  at \in {"tail", "done"} =>
    \A n \in 1 .. Len(frames) - first :
      Intact(n) /\ End(first + n) <= off => n <= Len(executed)

(* What the message at line 147 says ("truncated incomplete tail"): a      *)
(* recovery that was asked to truncate and that has read the file to its   *)
(* end leaves a file that ends with a whole frame.                         *)
TruncatesTail ==
  [][at = "tail" /\ call = "truncate" /\ at' # "tail" =>
       Len(file') = last_good']_allVars
=============================================================================
