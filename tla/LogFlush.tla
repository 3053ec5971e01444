------------------------------ MODULE LogFlush ------------------------------
(***************************************************************************)
(* Where log messages end: AsyncLogger::RealFlush and the sinks of         *)
(* LogFlush.hpp (src/log_system/logs_code), over the life of several       *)
(* processes that write to the same directory.  AsyncWorker hands over     *)
(* batch after batch; RealFlush gives a batch to one sink after the other, *)
(* and a sink passes it from the stdio buffer of its FILE to the kernel    *)
(* and, with fsync, to the disk.                                           *)
(*                                                                         *)
(* A process ends by exit(), by a signal or because the machine loses      *)
(* power.  A signal loses what is in stdio buffers; a loss of power also   *)
(* what was not fsynced, of which any prefix may have reached the disk.    *)
(* The errors of fwrite, fflush and fsync are only printed by the code and *)
(* left out; fopen may fail, after which fwrite is given a null pointer.   *)
(*                                                                         *)
(* A logger has any number of sinks; a sink is its place in flushs_.  A    *)
(* FileFlush has the name of its file and a RollFileFlush the part its     *)
(* names begin with, from which no file of another one begins.  What is    *)
(* left out is a FileFlush given the name of a rolled file.  All           *)
(* StdoutFlush sinks use one FILE.                                         *)
(*                                                                         *)
(* A message is the number of its process and its number in it, and counts *)
(* 1 in sizes.  A file is what the kernel holds of it and the length of    *)
(* the prefix known to be on disk.                                         *)
(***************************************************************************)
EXTENDS Naturals, Sequences, SequencesExt

CONSTANTS Paths,       \* filename_ of FileFlush and basename_ of RollFileFlush
          Builds,      \* what LoggerBuilder may be given: sequences of sinks
          FlushModes,  \* flush_log of config.conf; 0 stands for any other value
          Clock,       \* the seconds of the run, each as its fields (month, day)
          MaxSize,     \* per basename_, the max_size_ that goes with it
          MaxBatch,    \* bound: messages in one batch
          MaxMessages, \* bound: messages of one process
          MaxLives     \* bound: processes

ToStdout == [kind |-> "stdout", path |-> "stdout"]
SinkType == {ToStdout} \union [kind : {"file", "roll"}, path : Paths]

ASSUME LogAssumption == /\ \A b \in Builds : b \in Seq(SinkType)
                        /\ FlushModes \subseteq {0, 1, 2}
                        /\ Clock \in Seq((1..12) \X (1..31)) \ {<<>>}
                        /\ MaxSize \in [Paths -> Nat]
                        /\ MaxBatch \in Nat
                        /\ MaxMessages \in Nat
                        /\ MaxLives \in Nat \ {0}

VARIABLES flushs,   \* flushs_ of the AsyncLogger
          flushLog, \* flush_log
          now,      \* index of the present second in Clock
          life,     \* number of the present process
          status,   \* "up", "exiting", or how the process ended
          files,    \* per name: what the kernel has and how much of it is on disk
          stream,   \* per FILE: the name of the file it is open on
          stdio,    \* per FILE: what waits in its buffer
          cnt, cur, \* per sink: cnt_ and cur_size_ of RollFileFlush
          batch,    \* messages in the batch that RealFlush has
          at,       \* the sink it is at; 0 between two batches
          step,     \* what the sink's Flush does next: "write", "flush" or "sync"
          done,     \* history: messages of this process RealFlush has returned with
          opened,   \* history: per sink, the files it rolled to in this process,
                    \* each with the number of messages RealFlush had returned with
          found     \* history: per name, the messages found by this process

config == <<flushs, flushLog>>

vars == <<config, now, life, status, files, stream, stdio, cnt, cur, batch, at,
          step, done, opened, found>>

(* LoggerBuilder::BuildLoggerFlush and Build *)
Build(b) == IF b = <<>> THEN <<ToStdout>> ELSE b

Sinks   == 1..Len(flushs)
Kind(s) == flushs[s].kind

(* A FILE has the number of its sink; that of stdout is 0. *)
Fps   == 0..Len(flushs)
Fp(s) == IF Kind(s) = "stdout" THEN 0 ELSE s

Name(sink, stamp, n) == [sink |-> sink, stamp |-> stamp, cnt |-> n]
Stdout     == Name(ToStdout, <<>>, 0)
LogFile(s) == Name(flushs[s], <<>>, 0)
NoFile     == Name([kind |-> "none", path |-> "none"], <<>>, 0)

EmptyFile == [data |-> <<>>, synced |-> 0]

-----------------------------------------------------------------------------
(* Mutant: mode "wb". *)
FopenTruncates(fsys, ns) == [m \in DOMAIN fsys \union ns |->
                                IF m \in ns THEN EmptyFile ELSE fsys[m]]

(* fopen in mode "ab" of the files ns: one is made if it does not exist. *)
Fopen(fsys, ns) == [m \in DOMAIN fsys \union ns |->
                       IF m \in DOMAIN fsys THEN fsys[m] ELSE EmptyFile]

Put(fsys, n, ms) == IF n = NoFile THEN fsys ELSE [fsys EXCEPT ![n].data = @ \o ms]

(* A process starts: the constructor of each FileFlush opens its file, if   *)
(* fopen does not fail, as it does not for the sinks of ok; RollFileFlush  *)
(* opens its first file when it is first used.  The FILE of stdout is open *)
(* from the start.                                                         *)
FileSinks  == {s \in Sinks : Kind(s) = "file"}
Opened(ok) == [f \in Fps |-> IF f = 0 THEN Stdout
                             ELSE IF f \in ok THEN LogFile(f) ELSE NoFile]
LogFiles(ok) == {LogFile(s) : s \in ok}

Init == /\ flushs \in {Build(b) : b \in Builds}
        /\ flushLog \in FlushModes
        /\ now = 1
        /\ life = 1
        /\ status = "up"
        /\ \E ok \in SUBSET FileSinks :
              /\ stream = Opened(ok)
              /\ files = Fopen([n \in {Stdout} |-> EmptyFile], LogFiles(ok))
        /\ stdio = [f \in Fps |-> <<>>]
        /\ cnt = [s \in Sinks |-> 0]
        /\ cur = [s \in Sinks |-> 0]
        /\ batch = 0
        /\ at = 0
        /\ step = "write"
        /\ done = 0
        /\ opened = [s \in Sinks |-> <<>>]
        /\ found = [n \in DOMAIN files |-> 0]

-----------------------------------------------------------------------------
(* AsyncLogger::RealFlush.                                                 *)

(* AsyncWorker calls it with what its buffer holds, which is not empty. *)
RealFlush(k) == /\ status = "up"
                /\ at = 0
                /\ done + k <= MaxMessages
                /\ batch' = k
                /\ at' = 1
                /\ UNCHANGED <<config, now, life, status, files, stream, stdio, cnt,
                               cur, step, done, opened, found>>

Messages == [i \in 1..batch |-> <<life, done + i>>]

(* The Flush of a sink goes on with st, or has returned ("next"). *)
GoOn(st) ==
    /\ step' = IF st = "next" THEN "write" ELSE st
    /\ at' = CASE st # "next" -> at
               [] st = "next" /\ at = Len(flushs) -> 0
               [] OTHER -> at + 1
    /\ done' = IF st = "next" /\ at = Len(flushs) THEN done + batch ELSE done
    /\ batch' = IF st = "next" /\ at = Len(flushs) THEN 0 ELSE batch

Flushing(s, kind, st) == status = "up" /\ at = s /\ Kind(s) = kind /\ step = st

(* fwrite: behind what is buffered already; stdio may pass on any prefix. *)
Fwrite(f, fsys, n, buffered) ==
    LET all == buffered \o Messages
    IN  \E k \in 0..Len(all) :
            /\ files' = Put(fsys, n, SubSeq(all, 1, k))
            /\ stdio' = [stdio EXCEPT ![f] = SubSeq(all, k + 1, Len(all))]

(* fwrite on a null FILE ends the process. *)
WriteToNull == /\ status' = "killed"
               /\ stdio' = [f \in Fps |-> <<>>]

(* StdoutFlush::Flush *)
StdoutWrite(s) ==
    /\ Flushing(s, "stdout", "write")
    /\ Fwrite(0, files, Stdout, stdio[0])
    /\ GoOn("next")
    /\ UNCHANGED <<config, now, life, status, stream, cnt, cur, opened, found>>

(* FileFlush::Flush, its fwrite. *)
FileWrite(s) ==
    /\ Flushing(s, "file", "write")
    /\ \/ /\ stream[s] # NoFile
          /\ Fwrite(s, files, stream[s], stdio[s])
          /\ GoOn(IF flushLog = 0 THEN "next" ELSE "flush")
          /\ UNCHANGED status
       \/ /\ stream[s] = NoFile
          /\ WriteToNull
          /\ UNCHANGED <<files, batch, at, step, done>>
    /\ UNCHANGED <<config, now, life, stream, cnt, cur, opened, found>>

(* Numbers are written without leading zeros and without anything between  *)
(* them, so different seconds may give the same stamp.                     *)
Digits(n) == IF n < 10 THEN <<n>> ELSE <<n \div 10, n % 10>>
Stamp(t)  == Digits(t[1]) \o Digits(t[2])

(* Mutant: the counter is not part of the name. *)
FilenameOfSecond(s) == Name(flushs[s], Stamp(Clock[now]), 0)

(* RollFileFlush::CreateFilename, which also increments cnt_. *)
CreateFilename(s) == Name(flushs[s], Stamp(Clock[now]), cnt[s] + 1)

(* Mutant: the size is that of the last batch. *)
SizeOfBatch(size) == batch

(* cur_size_ += len *)
SizeAfter(size) == size + batch

(* max_size_ *)
Limit(s) == MaxSize[flushs[s].path]

(* InitLogFile opens a file. *)
MustRoll(s) == stream[s] = NoFile \/ cur[s] >= Limit(s)

(* fclose passes on what is buffered. *)
Fclose(f) == Put(files, stream[f], stdio[f])

(* RollFileFlush::Flush, with InitLogFile, up to fflush. *)
RollWrite(s) ==
    /\ Flushing(s, "roll", "write")
    /\ ~MustRoll(s)
    /\ Fwrite(s, files, stream[s], stdio[s])
    /\ cur' = [cur EXCEPT ![s] = SizeAfter(@)]
    /\ GoOn("flush")
    /\ UNCHANGED <<config, now, life, status, stream, cnt, opened, found>>

RollToNewFile(s) ==
    /\ Flushing(s, "roll", "write")
    /\ MustRoll(s)
    /\ LET n == CreateFilename(s)
       IN  /\ Fwrite(s, Fopen(Fclose(s), {n}), n, <<>>)
           /\ stream' = [stream EXCEPT ![s] = n]
           /\ opened' = [opened EXCEPT ![s] = Append(@, [name |-> n, from |-> done])]
    /\ cnt' = [cnt EXCEPT ![s] = @ + 1]
    /\ cur' = [cur EXCEPT ![s] = SizeAfter(0)]
    /\ GoOn("flush")
    /\ UNCHANGED <<config, now, life, status, found>>

(* The file cannot be opened: the message on cerr is followed by fwrite. *)
RollFails(s) ==
    /\ Flushing(s, "roll", "write")
    /\ MustRoll(s)
    /\ files' = Fclose(s)
    /\ cnt' = [cnt EXCEPT ![s] = @ + 1]
    /\ WriteToNull
    /\ UNCHANGED <<config, now, life, stream, cur, batch, at, step, done, opened, found>>

(* Mutant: the data stays in the buffer of the FILE. *)
FflushNothing(f) == UNCHANGED <<files, stdio>>

Fflush(f) == /\ files' = Put(files, stream[f], stdio[f])
             /\ stdio' = [stdio EXCEPT ![f] = <<>>]

(* fflush, in the modes in which the sink calls it. *)
FlushFile(s) ==
    /\ \E kind \in {"file", "roll"} : Flushing(s, kind, "flush")
    /\ Fflush(s)
    /\ GoOn(IF flushLog = 2 THEN "sync" ELSE "next")
    /\ UNCHANGED <<config, now, life, status, stream, cnt, cur, opened, found>>

(* Mutant: the disk is left to the kernel. *)
FsyncNothing(f) == UNCHANGED files

Fsync(f) == files' = [files EXCEPT ![stream[f]].synced = Len(files[stream[f]].data)]

(* fsync, flush_log 2 *)
SyncFile(s) ==
    /\ \E kind \in {"file", "roll"} : Flushing(s, kind, "sync")
    /\ Fsync(s)
    /\ GoOn("next")
    /\ UNCHANGED <<config, now, life, status, stream, stdio, cnt, cur, opened, found>>

-----------------------------------------------------------------------------
(* The process and the machine.                                            *)

Tick == /\ now < Len(Clock)
        /\ now' = now + 1
        /\ UNCHANGED <<config, life, status, files, stream, stdio, cnt, cur, batch,
                       at, step, done, opened, found>>

Running == status \in {"up", "exiting"}

(* exit(), after the loggers were stopped: no batch is under way.  The C   *)
(* library passes on what is buffered in one FILE after the other.         *)
Exit == /\ status = "up"
        /\ at = 0
        /\ status' = "exiting"
        /\ UNCHANGED <<config, now, life, files, stream, stdio, cnt, cur, batch, at, step,
                       done, opened, found>>

Unload(f) == /\ status = "exiting"
             /\ stdio[f] # <<>>
             /\ Fflush(f)
             /\ UNCHANGED <<config, now, life, status, stream, cnt, cur, batch, at, step,
                            done, opened, found>>

Ends(how, fsys) == /\ Running
                   /\ status' = how
                   /\ files' = fsys
                   /\ stdio' = [f \in Fps |-> <<>>]
                   /\ UNCHANGED <<config, now, life, stream, cnt, cur, batch, at, step,
                                  done, opened, found>>

Exited == /\ status = "exiting"
          /\ \A f \in Fps : stdio[f] = <<>>
          /\ Ends("exited", files)

Kill == Ends("killed", files)

(* Files that have more than is known to be on disk. *)
Dirty == {n \in DOMAIN files : files[n].synced < Len(files[n].data)}

Cut(f, k) == [data |-> SubSeq(f.data, 1, k), synced |-> k]

Longest == Max({Len(files[n].data) : n \in DOMAIN files})

PowerLoss == \E keep \in [Dirty -> 0..Longest] :
                /\ \A n \in Dirty :
                      files[n].synced <= keep[n] /\ keep[n] <= Len(files[n].data)
                /\ Ends("power", [n \in DOMAIN files |->
                                     IF n \in Dirty THEN Cut(files[n], keep[n])
                                     ELSE files[n]])

(* The next process. *)
Restart == /\ ~Running
           /\ life < MaxLives
           /\ life' = life + 1
           /\ status' = "up"
           /\ \E ok \in SUBSET FileSinks : /\ stream' = Opened(ok)
                                          /\ files' = Fopen(files, LogFiles(ok))
           /\ cnt' = [s \in Sinks |-> 0]
           /\ cur' = [s \in Sinks |-> 0]
           /\ batch' = 0 /\ at' = 0 /\ step' = "write"
           /\ done' = 0
           /\ opened' = [s \in Sinks |-> <<>>]
           /\ found' = [n \in DOMAIN files' |-> Len(files'[n].data)]
           /\ UNCHANGED <<config, now, stdio>>

Next == \/ \E k \in 1..MaxBatch : RealFlush(k)
        \/ \E s \in Sinks : \/ StdoutWrite(s) \/ FileWrite(s)
                            \/ RollWrite(s) \/ RollToNewFile(s) \/ RollFails(s)
                            \/ FlushFile(s) \/ SyncFile(s)
        \/ \E f \in Fps : Unload(f)
        \/ Tick \/ Exit \/ Exited \/ Kill \/ PowerLoss \/ Restart

Spec == Init /\ [][Next]_vars

-----------------------------------------------------------------------------
NameType == [sink : SinkType, stamp : Seq(0..9), cnt : Nat]

MessageType == (1..MaxLives) \X (1..MaxMessages)

FileType == {f \in [data : Seq(MessageType), synced : Nat] : f.synced <= Len(f.data)}

TypeOK == /\ flushs \in {Build(b) : b \in Builds}
          /\ flushLog \in FlushModes
          /\ now \in 1..Len(Clock)
          /\ life \in 1..MaxLives
          /\ status \in {"up", "exiting", "exited", "killed", "power"}
          /\ \A n \in DOMAIN files : n \in NameType /\ files[n] \in FileType
          /\ stream \in [Fps -> DOMAIN files \union {NoFile}]
          /\ stdio \in [Fps -> Seq(MessageType)]
          /\ cnt \in [Sinks -> Nat] /\ cur \in [Sinks -> Nat]
          /\ batch \in 0..MaxBatch
          /\ at \in 0..Len(flushs)
          /\ step \in {"write", "flush", "sync"}
          /\ done \in 0..MaxMessages
          /\ opened \in [Sinks -> Seq([name : DOMAIN files, from : 0..MaxMessages])]
          /\ \A n \in DOMAIN found : found[n] \in Nat

Found(n) == IF n \in DOMAIN found THEN found[n] ELSE 0

(* What file n holds of this process, which appends to what it found. *)
OfThisLife(n) == IF n \in DOMAIN files
                 THEN SubSeq(files[n].data, Found(n) + 1, Len(files[n].data))
                 ELSE <<>>

(* A sink that shares its file, or the names of its files, with no other. *)
Alone(s) == \A t \in Sinks : flushs[t] = flushs[s] => t = s

(* What sink s has in its present file and in the buffer of its FILE, and  *)
(* the number of messages that came before the first of them.              *)
Has(s)    == OfThisLife(stream[Fp(s)]) \o stdio[Fp(s)]
Before(s) == IF opened[s] # <<>> THEN opened[s][Len(opened[s])].from ELSE 0

InOrder(ms, k) == \A i \in 1..Len(ms) : ms[i] = <<life, k + i>>

(***************************************************************************)
(* Every sink with a file of its own gets the messages of a process in     *)
(* order, none twice, and none is missing before one that is there,        *)
(* through buffering, rolling and the end of the process, whatever the     *)
(* other sinks of the logger do.  Only a loss of power without fsync may   *)
(* leave a gap, where a file that was closed loses more than its           *)
(* successor.  Two sinks that share a file both write every message to it. *)
(***************************************************************************)
SinkInOrder ==
    (status # "power" \/ flushLog = 2) =>
        \A s \in Sinks : Alone(s) =>
            LET o == opened[s]
            IN  /\ InOrder(Has(s), Before(s))
                /\ \A k \in 1..Len(o) : InOrder(OfThisLife(o[k].name), o[k].from)
                /\ \A k \in 1..Len(o) :
                      o[k].from = IF k = 1 THEN 0
                                  ELSE o[k - 1].from + Len(OfThisLife(o[k - 1].name))

(* Whether a sink promises that what RealFlush has returned with is kept:  *)
(* RollFileFlush always calls fflush, FileFlush if flush_log says so, and  *)
(* both call fsync if flush_log is 2.                                      *)
Keeps(s) == CASE Running \/ status = "exited" -> TRUE
              [] status = "killed" ->
                    Kind(s) = "roll" \/ (Kind(s) = "file" /\ flushLog # 0)
              [] OTHER -> Kind(s) # "stdout" /\ flushLog = 2

(* What was flushed before the process ended is kept, as far as flush_log  *)
(* promises it for this way to end.                                        *)
FlushedIsKept ==
    \A s \in Sinks : Alone(s) /\ Keeps(s) => Before(s) + Len(Has(s)) >= done

(***************************************************************************)
(* A rolled file is full, and no file of a RollFileFlush with a basename_  *)
(* of its own gets more from one process than max_size_ allows, up to the  *)
(* batch that filled it.                                                   *)
(***************************************************************************)
RollSizes ==
    status # "power" =>
        \A s \in Sinks : Alone(s) =>
            \A i \in 1..Len(opened[s]) :
                LET size == Len(OfThisLife(opened[s][i].name))
                IN  /\ i < Len(opened[s]) => size >= Limit(s)
                    /\ size < Limit(s) + MaxBatch \/ size <= MaxBatch

(* A process never writes to a file again from which it has rolled on,     *)
(* unless another sink of it makes the same names.                         *)
RolledFilesStay ==
    [][\A s \in Sinks : Alone(s) =>
          \A i \in 1..Len(opened[s]) - 1 :
              Running /\ status' # "power"
                  => files'[opened[s][i].name] = files[opened[s][i].name]]_vars

(* Only a loss of power takes anything out of a file: a process that finds *)
(* files of an earlier one, even under the names it makes, appends, and so *)
(* do two sinks that share a file.  (The two mains of the repository       *)
(* remove the log directory before they build their loggers; this is about *)
(* the sinks.)                                                             *)
NothingErased ==
    [][status' # "power" =>
          \A n \in DOMAIN files : /\ n \in DOMAIN files'
                                  /\ IsPrefix(files[n].data, files'[n].data)]_vars
=============================================================================
