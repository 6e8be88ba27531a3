-------------------------------- MODULE IoFile --------------------------------
(***************************************************************************)
(* Files and processes of the io library: iolib.go, with the helpers for   *)
(* reading in utils.go.  One file of the system, opened through handles    *)
(* that each have the offset of their os.File, a bufio.Reader and perhaps  *)
(* a bufio.Writer; and one process started by popen.  The os, exec and     *)
(* bufio packages are external.  io.read, io.write, io.flush, io.close and *)
(* io.lines do to the default files what the methods do to theirs.         *)
(***************************************************************************)
EXTENDS Integers, Sequences, FiniteSetsExt, SequencesExt

CONSTANTS
  Handle, Writer,  \* handles (0 is none), and those that are not only opened to read
  Byte, Newline, CarriageReturn, Zero,  \* CarriageReturn is the carriage return
  ReadSize,     \* fileDefaultReadBuffer
  WriteSize,    \* the size given to setvbuf
  MaxLength,    \* bound on the file
  Habits        \* what programs do that the buffers do not bear

ASSUME IoFileAssumption ==
  /\ Writer \subseteq Handle /\ 0 \notin Handle
  /\ {Newline, CarriageReturn, Zero} \subseteq Byte /\ Newline # CarriageReturn /\ "none" \notin Byte
  /\ {ReadSize, WriteSize} \subseteq Nat \ {0} /\ ReadSize > 1 /\ MaxLength \in Nat
  /\ Habits \subseteq {"writes_after_reading", "moves_unflushed"}

VARIABLES
  disk,      \* what the file holds
  file,      \* of each handle: its lFile
  process,   \* the process of popen: its lFile and how far closing it is
  answer     \* what the last call returned, when that is text of the file
vars == <<disk, file, process, answer>>

-----------------------------------------------------------------------------
(* Files of the system and their buffers. *)

NoReader == <<"none">>
Modes == {"r", "w", "a", "r+", "w+", "a+", "input", "output"}
Truncating == {"w", "w+"}
Appending == {"a", "a+"}
Writable == Modes \ {"r", "input"}
Readable == Modes \ {"w", "output"}           \* those that get a reader
OsReadable == Readable \ {"a"}                \* those that may be read

(* All calls on a closed file are errors, so that nothing is kept of it. *)
Unopened == [open |-> FALSE, mode |-> "r", fp |-> 0, reader |-> NoReader, writer |-> "none", pending |-> << >>]
(* What is left of a mode in the open file: truncating is over. *)
Opened(mode) == CASE mode = "w+" -> "r+" [] mode = "output" -> "w" [] OTHER -> mode
newFile(mode) ==
  [open |-> TRUE, mode |-> Opened(mode), fp |-> 0,
   reader |-> IF mode \in Readable THEN << >> ELSE NoReader,
   writer |-> IF mode \in Writable THEN "direct" ELSE "none", pending |-> << >>]

Chunk == {<<b>> : b \in Byte \ {Zero}} \cup {<<b, c>> : b \in Byte \ {Zero}, c \in Byte \ {Zero, Newline}}
(* The file of the system is such a text, with an offset for each handle. *)
Os == INSTANCE TextFile WITH text <- disk, at <- [h \in Handle |-> file[h].fp], Closed <- -1

(* write(2): at the offset, or at the end of a file opened to append. *)
WriteAt(f) == IF f.mode \in Appending THEN Len(disk) ELSE f.fp
Written(f, bytes) == Os!Over(disk, WriteAt(f), bytes)
Advanced(f, bytes) == IF bytes = << >> THEN f ELSE [f EXCEPT !.fp = WriteAt(f) + Len(bytes)]

Buffered(f) == IF f.reader = NoReader THEN 0 ELSE Len(f.reader)

(* The reader is thrown away, and the offset put back to where the program
   is. *)
AbandonReadBuffer(f) == IF f.reader = NoReader THEN f ELSE [f EXCEPT !.fp = @ - Len(f.reader), !.reader = << >>]

(* How much of its buffer and of new bytes a bufio.Writer writes at once. *)
SpillCount(n, m) ==
  IF n + m <= WriteSize THEN 0
  ELSE IF n = 0 THEN m
  ELSE IF m - (WriteSize - n) > WriteSize THEN n + m
  ELSE WriteSize

(* What the program does that the buffers do not bear: it writes where the
   reader has read ahead, or reads, seeks or changes buffers while the
   writer holds something back. *)
MayWrite(f) == Buffered(f) = 0 \/ "writes_after_reading" \in Habits
MayMove(f) == f.pending = << >> \/ "moves_unflushed" \in Habits

-----------------------------------------------------------------------------
(* Operations on files.  A call that only reports an error changes nothing. *)

NoProcess == [phase |-> "none", child |-> "finite", writable |-> FALSE, writer |-> FALSE, stdout |-> FALSE, runs |-> FALSE]
Idle == process = NoProcess
Silent == [bytes |-> << >>, kind |-> "none", of |-> 0, moved |-> 0]
Quiet == answer' = Silent
SetFile(h, f) == file' = [file EXCEPT ![h] = f]

(* io.open, and io.input and io.output with a name.  One handle at a time
   writes: what two would make of each other's buffers is not the library's. *)
Open(h, mode) ==
  /\ Idle /\ ~file[h].open
  /\ h \in Writer \/ mode = "r"
  /\ mode \in Writable => \A other \in Writer : file[other].writer = "none"
  /\ SetFile(h, newFile(mode))
  /\ disk' = IF mode \in Truncating THEN << >> ELSE disk
  /\ Quiet /\ UNCHANGED process

fileWriteAux(h, bytes) ==
  LET f == file[h]
      all == f.pending \o bytes
      n == IF f.writer = "direct" THEN Len(bytes) ELSE SpillCount(Len(f.pending), Len(bytes))
      out == SubSeq(all, 1, n)
      g == [Advanced(f, out) EXCEPT !.pending = SubSeq(all, n + 1, Len(all))]
  IN  /\ Idle /\ f.writer # "none" /\ MayWrite(f)
      /\ WriteAt(f) + Len(all) <= MaxLength
      /\ disk' = Written(f, out)
      /\ SetFile(h, AbandonReadBuffer(g))
      /\ Quiet /\ UNCHANGED process

fileFlushAux(h) ==
  LET f == file[h]
  IN  /\ Idle /\ f.writer = "buffered"
      /\ disk' = Written(f, f.pending)
      /\ SetFile(h, [Advanced(f, f.pending) EXCEPT !.pending = << >>])
      /\ Quiet /\ UNCHANGED process

MutantFileCloseAux(h) ==
  /\ Idle /\ file[h].open
  /\ SetFile(h, Unopened)
  /\ Quiet /\ UNCHANGED <<disk, process>>
fileCloseAux(h) ==
  LET f == file[h]
  IN  /\ Idle /\ f.open
      /\ disk' = Written(f, f.pending)
      /\ SetFile(h, Unopened)
      /\ Quiet /\ UNCHANGED process

(* What there is to read, and the reader after k bytes of it, having read
   ahead up to its size if it had to ask the file. *)
Ahead(f) == f.reader \o SubSeq(disk, f.fp + 1, Len(disk))
Consumed(f, k) ==
  IF k < Len(f.reader) \/ (k = Len(f.reader) /\ k > 0)
  THEN {[f EXCEPT !.reader = SubSeq(@, k + 1, Len(@))]}
  ELSE LET end == f.fp + (k - Len(f.reader))
       IN  {[f EXCEPT !.fp = end + n, !.reader = SubSeq(disk, end + 1, end + n)] :
              n \in 0 .. Min({ReadSize, Max({0, Len(disk) - end})})}

(* The length of the line at the beginning of s, its newline included. *)
LineLength(s) == IF Newline \in Range(s) THEN Min({i \in DOMAIN s : s[i] = Newline}) ELSE Len(s)

(* s without the newline that ends it, and without a carriage return before
   that: the two are one line end to bufio, on every system. *)
WithoutLineEnd(s) ==
  IF s = << >> \/ Last(s) # Newline THEN s
  ELSE IF Len(s) > 1 /\ s[Len(s) - 1] = CarriageReturn THEN SubSeq(s, 1, Len(s) - 2) ELSE Front(s)

(* The answer of a call that reads k bytes, or nil when there are none. *)
Answer(h, kind, k) ==
  LET f == file[h]
      bytes == SubSeq(Ahead(f), 1, k)
  IN  answer' = [bytes |-> IF kind = "line" THEN WithoutLineEnd(bytes) ELSE bytes,
                 kind |-> IF Ahead(f) = << >> /\ kind # "all" THEN "nil" ELSE kind, of |-> h, moved |-> 0]

ReadBytes(h, kind, k) ==
  /\ \E g \in Consumed(file[h], k) : SetFile(h, g)
  /\ Answer(h, kind, k)
  /\ UNCHANGED <<disk, process>>

CanRead(h) == Idle /\ file[h].reader # NoReader /\ file[h].open /\ file[h].mode \in OsReadable /\ MayMove(file[h])

(* read(n), read("*l") and read("*a"). *)
readBufioSize(h) == \E k \in 0 .. Min({ReadSize + 1, Len(Ahead(file[h]))}) : ReadBytes(h, "size", k)
readBufioLine(h) == ReadBytes(h, "line", LineLength(Ahead(file[h])))
ReadAll(h) == ReadBytes(h, "all", Len(Ahead(file[h])))
fileReadAux(h) == CanRead(h) /\ (readBufioSize(h) \/ readBufioLine(h) \/ ReadAll(h))

(* bufio.ReadLine, of which the iterators of lines return what it does at
   once: no more than its buffer holds.  When that ends in a carriage return
   it is put back, since the newline may be next. *)
MutantReadLine(h) ==
  LET f == file[h]
      k == Min({ReadSize, LineLength(Ahead(f))})
  IN  IF k = ReadSize /\ Ahead(f)[k] = CarriageReturn
      THEN /\ SetFile(h, [f EXCEPT !.fp = @ + (ReadSize - Len(f.reader)), !.reader = << >>])
           /\ Answer(h, "line", k - 1)
           /\ UNCHANGED <<disk, process>>
      ELSE ReadBytes(h, "line", k)
ReadLine(h) ==
  LET f == file[h]
      k == Min({ReadSize, LineLength(Ahead(f))})
  IN  IF k = ReadSize /\ Ahead(f)[k] = CarriageReturn
      THEN /\ SetFile(h, [f EXCEPT !.fp = @ + (ReadSize - Len(f.reader)), !.reader = <<CarriageReturn>>])
           /\ Answer(h, "line", k - 1)
           /\ UNCHANGED <<disk, process>>
      ELSE ReadBytes(h, "line", k)

fileLinesIter(h) == CanRead(h) /\ ReadLine(h)

(* The iterator of io.lines with a name closes the file at its end. *)
ioLinesIter(h) ==
  /\ CanRead(h) /\ file[h].mode = "input"
  /\ IF Ahead(file[h]) = << >> THEN fileCloseAux(h)
     ELSE ReadLine(h)

fileSeek(h) ==
  LET f == AbandonReadBuffer(file[h])
  IN  /\ Idle /\ f.open /\ MayMove(f)
      /\ \E whence \in {"set", "cur", "end"}, offset \in -1 .. 1 :
           LET p == offset + CASE whence = "set" -> 1 [] whence = "cur" -> f.fp [] whence = "end" -> Len(disk)
           IN  /\ p <= MaxLength
               /\ SetFile(h, IF p < 0 THEN f ELSE [f EXCEPT !.fp = p])
               /\ answer' = IF p < 0 \/ whence # "cur" THEN Silent ELSE [Silent EXCEPT !.kind = "cur", !.of = h, !.moved = offset]
      /\ UNCHANGED <<disk, process>>

(* A new bufio.Writer on the file takes the place of the old one, whatever
   that still held. *)
fileSetVBuf(h) ==
  /\ Idle /\ file[h].writer # "none" /\ file[h].open /\ MayMove(file[h])
  /\ \E kind \in {"direct", "buffered"} : SetFile(h, [file[h] EXCEPT !.writer = kind, !.pending = << >>])
  /\ Quiet /\ UNCHANGED <<disk, process>>

-----------------------------------------------------------------------------
(* Processes. *)

(* A child ends by itself, or writes until nobody reads, or reads until
   there is no more.  Processes and files share nothing, so that one is used
   at a time here. *)
newProcess ==
  /\ process = NoProcess /\ \A h \in Handle : ~file[h].open
  /\ \E child \in {"finite", "source", "filter"}, writable \in BOOLEAN :
       process' = [phase |-> "open", child |-> child, writable |-> writable, writer |-> writable,
                   stdout |-> ~writable, runs |-> TRUE]
  /\ Quiet /\ UNCHANGED <<disk, file>>

(* StdinPipe can be asked for once: setvbuf fails, and "no" has by then
   stored the pipe it did not get. *)
processSetVBuf ==
  /\ process.phase = "open" /\ process.writer
  /\ \E kind \in {"no", "full"} : process' = [process EXCEPT !.writer = kind = "full"]
  /\ Quiet /\ UNCHANGED <<disk, file>>

(* Closing shuts the pipe that is read from, but not the one that is written
   to, and waits for the child. *)
MutantProcessClose ==
  /\ process.phase = "open"
  /\ process' = [process EXCEPT !.phase = "waiting"]
  /\ Quiet /\ UNCHANGED <<disk, file>>
ProcessClose ==
  /\ process.phase = "open"
  /\ process' = [process EXCEPT !.phase = "waiting", !.stdout = FALSE]
  /\ Quiet /\ UNCHANGED <<disk, file>>

(* What popen does not connect is the null device. *)
ChildExits ==
  /\ process.runs
  /\ CASE process.child = "finite" -> TRUE
     []   process.child = "source" -> ~process.writable /\ ~process.stdout
     []   process.child = "filter" -> ~process.writable
  /\ process' = [process EXCEPT !.runs = FALSE]
  /\ Quiet /\ UNCHANGED <<disk, file>>

Waited ==
  /\ process.phase = "waiting" /\ ~process.runs
  /\ process' = NoProcess
  /\ Quiet /\ UNCHANGED <<disk, file>>

-----------------------------------------------------------------------------

Init ==
  /\ disk \in {<< >>} \cup [1 .. MaxLength -> Byte \ {Zero}]
  /\ file = [h \in Handle |-> Unopened]
  /\ process = NoProcess /\ answer = Silent

Next ==
  \/ \E h \in Handle :
       \/ \E mode \in Modes : Open(h, mode)
       \/ \E bytes \in Chunk : fileWriteAux(h, bytes)
       \/ fileFlushAux(h) \/ fileCloseAux(h) \/ fileReadAux(h) \/ fileLinesIter(h) \/ ioLinesIter(h)
       \/ fileSeek(h) \/ fileSetVBuf(h)
  \/ newProcess \/ processSetVBuf \/ ProcessClose \/ ChildExits \/ Waited

(* The system runs the child, and wakes who waits for it. *)
Spec == Init /\ [][Next]_vars /\ WF_vars(ChildExits) /\ WF_vars(Waited)

-----------------------------------------------------------------------------
(* Properties. *)

(* The text is the disk with what a writer still holds; a handle is behind
   its offset by what was read ahead, or before it by what is not written. *)
Whole ==
  LET unflushed == {h \in Handle : file[h].open /\ file[h].pending # << >>}
  IN  IF unflushed = {} THEN disk
      ELSE LET f == file[CHOOSE h \in unflushed : TRUE] IN Written(f, f.pending)
Position(h) ==
  LET f == file[h]
  IN  IF ~f.open THEN -1
      ELSE IF f.pending # << >> THEN WriteAt(f) + Len(f.pending)
      ELSE f.fp - Buffered(f)

Text == INSTANCE TextFile WITH text <- Whole, at <- [h \in Handle |-> Position(h)], Closed <- -1

(* Reading ahead, holding back, flushing and abandoning do not show: to a
   program the file is a text, written where its handle is, and closing,
   flushing and buffering change nothing of it (AbandonReadBuffer,
   fileWriteAux, fileCloseAux). *)
IsTextFile == Text!Spec

(* A handle whose reader does not hold what another handle has overwritten
   reads the file from where it is, and nil only at the end; a line is the
   text up to its end, or what ReadLine had room for, and never two lines;
   seeking from the current position starts where the program is, however
   much has been read ahead. *)
Fresh(f) == Buffered(f) = 0 \/ (f.fp <= Len(disk) /\ f.reader = SubSeq(disk, f.fp - Buffered(f) + 1, f.fp))
ReadsTheText ==
  [][\A h \in Handle :
       answer'.of = h /\ Fresh(file[h]) =>
         IF answer'.kind = "cur"
         THEN Position(h)' = Position(h) + answer'.moved
         ELSE LET bytes == SubSeq(disk, Position(h) + 1, Position(h)')
              IN  /\ answer'.bytes = IF answer'.kind = "line" THEN WithoutLineEnd(bytes) ELSE bytes
                  /\ answer'.kind = "line" => Newline \notin Range(answer'.bytes)
                  /\ answer'.kind = "nil" => Position(h) >= Len(disk)]_vars

(* As in the C implementation, a line lacks only its newline. *)
OnlyNewlinesDropped ==
  [][\A h \in Handle :
       answer'.of = h /\ answer'.kind = "line" =>
         Position(h)' - Position(h) - Len(answer'.bytes) \in {0, 1}]_vars

(* Closing what popen gave for reading returns: the child that still writes
   finds its pipe shut.  (Closing one that was given for writing returns only
   if the child ends by itself, since its input is left open.) *)
CloseReturns ==
  (process.phase = "waiting" /\ (~process.writable \/ process.child = "finite")) ~> process = NoProcess
===============================================================================
