--------------------------- MODULE LogFlushProofs ---------------------------
(***************************************************************************)
(* Proofs about LogFlush, for any number of sinks of any kinds, flush      *)
(* modes, sizes of batches and rolled files, and any number of messages    *)
(* and processes.                                                          *)
(***************************************************************************)
EXTENDS LogFlush, SequenceTheorems, TLAPS

-----------------------------------------------------------------------------
(* Types.                                                                  *)

FilesOK(fsys) == \A n \in DOMAIN fsys : n \in NameType /\ fsys[n] \in FileType

(* A batch is within the bound on messages, also while it is written. *)
Room == done + batch <= MaxMessages

Typed == TypeOK /\ Room

(* A logger has at least one sink. *)
LEMMA SinksTyped ==
  ASSUME TypeOK
  PROVE  /\ flushs \in Seq(SinkType) /\ Len(flushs) \in Nat /\ Len(flushs) >= 1
         /\ \A s \in Sinks : /\ flushs[s] \in SinkType /\ s \in Fps /\ Fp(s) \in Fps
                             /\ s \in Nat /\ s # 0
         /\ 0 \in Fps
<1>1. PICK b \in Builds : flushs = Build(b)
  BY DEF TypeOK
<1>2. b \in Seq(SinkType) /\ <<ToStdout>> \in Seq(SinkType)
  BY LogAssumption DEF SinkType
<1>3. flushs \in Seq(SinkType) /\ flushs # <<>>
  BY <1>1, <1>2 DEF Build
<1>4. Len(flushs) \in Nat /\ Len(flushs) >= 1
  BY <1>3
<1>5. \A s \in 1..Len(flushs) : flushs[s] \in SinkType
  BY <1>3, ElementOfSeq
<1>6. QED BY <1>3, <1>4, <1>5 DEF Sinks, Fps, Fp

(* What kinds there are, and which of them have a limit. *)
LEMMA KindTyped ==
  ASSUME TypeOK, NEW s \in Sinks
  PROVE  /\ Kind(s) \in {"stdout", "file", "roll"}
         /\ Kind(s) = "stdout" <=> flushs[s] = ToStdout
         /\ Kind(s) = "stdout" => Fp(s) = 0
         /\ Kind(s) # "stdout" => Fp(s) = s
         /\ Kind(s) = "roll" => Limit(s) \in Nat
<1>1. flushs[s] \in SinkType
  BY SinksTyped
<1>2. QED BY <1>1, LogAssumption DEF SinkType, Kind, Fp, Limit, ToStdout

(* The place of a sink does not change. *)
LEMMA SinksStay ==
  ASSUME UNCHANGED config
  PROVE  /\ Sinks' = Sinks /\ Fps' = Fps /\ flushLog' = flushLog /\ flushs' = flushs
         /\ \A s : Fp(s)' = Fp(s) /\ (Alone(s)' <=> Alone(s)) /\ Kind(s)' = Kind(s)
                   /\ Limit(s)' = Limit(s)
  BY DEF config, Sinks, Fps, Fp, Alone, Kind, Limit

(* The messages of a batch. *)
LEMMA MessagesTyped ==
  ASSUME Typed
  PROVE  /\ Messages \in Seq(MessageType) /\ Len(Messages) = batch
         /\ \A i \in 1..batch : Messages[i] = <<life, done + i>>
<1>1. /\ batch \in Nat /\ done \in Nat /\ MaxMessages \in Nat /\ MaxLives \in Nat
      /\ life \in 1..MaxLives /\ done + batch <= MaxMessages
  BY LogAssumption DEF Typed, TypeOK, Room
<1>2. \A i \in 1..batch : <<life, done + i>> \in MessageType
  BY <1>1 DEF MessageType
<1> HIDE DEF MessageType
<1>3. QED BY <1>1, <1>2 DEF Messages

(* Files that differ in their names only by what is appended. *)
Grows(f, g) == /\ DOMAIN f \subseteq DOMAIN g
               /\ \A n \in DOMAIN f : IsPrefix(f[n].data, g[n].data)

(* What is appended to does not lose its beginning. *)
LEMMA PrefixOfAppend ==
  ASSUME NEW S, NEW a \in Seq(S), NEW b \in Seq(S)
  PROVE  IsPrefix(a, a \o b) /\ IsPrefix(a, a)
<1>1. /\ a \o b \in Seq(S) /\ Len(a \o b) = Len(a) + Len(b)
      /\ Len(a) \in Nat /\ Len(b) \in Nat
      /\ \A i \in 1..Len(a) : (a \o b)[i] = a[i]
  BY ConcatProperties
<1>2. SubSeq(a, 1, Len(a)) = a
  OBVIOUS
<1>3. PICK c \in Seq(S) : c = a \o b
  BY <1>1
<1>4. /\ SubSeq(c, 1, Len(a)) \in Seq(S) /\ Len(SubSeq(c, 1, Len(a))) = Len(a)
      /\ \A i \in 1..Len(a) : SubSeq(c, 1, Len(a))[i] = c[i]
  <2>1. \A i \in 1..Len(c) : c[i] \in S
    BY <1>3, ElementOfSeq
  <2>2. \A i \in 1..Len(a) : c[i] \in S
    BY <1>1, <1>3, <2>1
  <2>3. 1 \in Int /\ Len(a) \in Int
    BY <1>1
  <2>4. SubSeq(c, 1, Len(a)) \in Seq(S)
    BY <2>2, <2>3, SubSeqProperties
  <2>5. QED BY <1>1, <1>3, <2>4
<1>5. SubSeq(c, 1, Len(a)) = a
  BY <1>1, <1>3, <1>4, SeqEqual
<1>6. QED BY <1>1, <1>2, <1>3, <1>5 DEF IsPrefix

(* Lists of messages are joined in any order. *)
LEMMA MessagesAssociate ==
  \A s, t, u \in Seq(MessageType) : (s \o t) \o u = s \o (t \o u)
<1> TAKE s, t, u \in Seq(MessageType)
<1>1. QED BY ConcatAssociative, SMTT(60)

(* fwrite and fclose on file n, which is open or not there. *)
LEMMA PutEffect ==
  ASSUME NEW fsys, FilesOK(fsys), NEW n \in DOMAIN fsys \union {NoFile},
         NEW ms \in Seq(MessageType)
  PROVE  LET g == Put(fsys, n, ms)
         IN  /\ FilesOK(g) /\ DOMAIN g = DOMAIN fsys /\ Grows(fsys, g)
             /\ \A m \in DOMAIN fsys : m # n => g[m] = fsys[m]
             /\ n # NoFile => /\ g[n].data = fsys[n].data \o ms
                              /\ g[n].synced = fsys[n].synced
<1>1. NoFile \notin DOMAIN fsys
  BY DEF FilesOK, NameType, NoFile, Name, SinkType, ToStdout
<1>2. \A m \in DOMAIN fsys : fsys[m].data \in Seq(MessageType)
  BY DEF FilesOK, FileType
<1>3. \A m \in DOMAIN fsys : IsPrefix(fsys[m].data, fsys[m].data)
  BY <1>2, PrefixOfAppend
<1>4. CASE n = NoFile
  BY <1>1, <1>3, <1>4 DEF Put, Grows
<1>5. CASE n # NoFile
  <2>1. n \in DOMAIN fsys /\ fsys[n] \in FileType
    BY <1>5 DEF FilesOK
  <2>2. PICK g : g = [fsys EXCEPT ![n].data = @ \o ms]
    OBVIOUS
  <2>3. PICK d : d = fsys[n].data \o ms
    OBVIOUS
  <2>4. /\ d \in Seq(MessageType) /\ Len(d) = Len(fsys[n].data) + Len(ms)
        /\ Len(ms) \in Nat /\ Len(fsys[n].data) \in Nat
    BY <1>2, <2>1, <2>3, ConcatProperties
  <2>5. /\ DOMAIN g = DOMAIN fsys
        /\ g[n] = [fsys[n] EXCEPT !.data = d]
        /\ \A m \in DOMAIN fsys : m # n => g[m] = fsys[m]
    BY <2>1, <2>2, <2>3
  <2>6. g[n] \in FileType /\ g[n].data = d /\ g[n].synced = fsys[n].synced
    <3>1. /\ fsys[n] \in [data : Seq(MessageType), synced : Nat]
          /\ fsys[n].synced <= Len(fsys[n].data)
      BY <2>1 DEF FileType
    <3>2. g[n] \in [data : Seq(MessageType), synced : Nat]
      BY <2>4, <2>5, <3>1
    <3>3. g[n].data = d /\ g[n].synced = fsys[n].synced
      BY <2>5, <3>1
    <3>4. g[n].synced <= Len(g[n].data)
      BY <2>4, <3>1, <3>3
    <3>5. QED BY <3>2, <3>3, <3>4 DEF FileType
  <2>7. IsPrefix(fsys[n].data, d)
    BY <1>2, <2>1, <2>3, PrefixOfAppend
  <2>8. Put(fsys, n, ms) = g
    BY <1>5, <2>2 DEF Put
  <2>9. FilesOK(g)
    BY <2>5, <2>6 DEF FilesOK
  <2>10. Grows(fsys, g)
    BY <1>3, <2>5, <2>6, <2>7 DEF Grows
  <2>11. QED BY <2>3, <2>5, <2>6, <2>8, <2>9, <2>10
<1>6. QED BY <1>4, <1>5

(* fopen in mode "ab". *)
LEMMA FopenEffect ==
  ASSUME NEW fsys, FilesOK(fsys), NEW ns, ns \subseteq NameType
  PROVE  LET g == Fopen(fsys, ns)
         IN  /\ FilesOK(g) /\ DOMAIN g = DOMAIN fsys \union ns /\ Grows(fsys, g)
             /\ \A m \in DOMAIN fsys : g[m] = fsys[m]
             /\ \A m \in ns : m \notin DOMAIN fsys => g[m] = EmptyFile
<1>1. \A m \in DOMAIN fsys : fsys[m].data \in Seq(MessageType)
  BY DEF FilesOK, FileType
<1>2. \A m \in DOMAIN fsys : IsPrefix(fsys[m].data, fsys[m].data)
  BY <1>1, PrefixOfAppend
<1>3. EmptyFile \in FileType
  BY DEF EmptyFile, FileType
<1>4. QED BY <1>2, <1>3 DEF Fopen, FilesOK, Grows

(* fwrite of FILE f to file n of fsys. *)
LEMMA FwriteEffect ==
  ASSUME Typed, NEW fsys, FilesOK(fsys), NEW n \in DOMAIN fsys \union {NoFile},
         NEW buffered \in Seq(MessageType), NEW f \in Fps,
         Fwrite(f, fsys, n, buffered)
  PROVE  \E k \in Nat, all \in Seq(MessageType) :
            /\ all = buffered \o Messages /\ k <= Len(all)
            /\ SubSeq(all, 1, k) \in Seq(MessageType)
            /\ SubSeq(all, k + 1, Len(all)) \in Seq(MessageType)
            /\ files' = Put(fsys, n, SubSeq(all, 1, k))
            /\ stdio' = [stdio EXCEPT ![f] = SubSeq(all, k + 1, Len(all))]
            /\ stdio' \in [Fps -> Seq(MessageType)]
<1>1. PICK all : all = buffered \o Messages
  OBVIOUS
<1>2. all \in Seq(MessageType) /\ Len(all) \in Nat
  BY <1>1, MessagesTyped, ConcatProperties
<1>3. PICK k \in 0..Len(all) : /\ files' = Put(fsys, n, SubSeq(all, 1, k))
                               /\ stdio' = [stdio EXCEPT ![f] = SubSeq(all, k + 1, Len(all))]
  BY <1>1 DEF Fwrite
<1>4. k \in Nat /\ k <= Len(all)
  BY <1>2, <1>3
<1>5. \A i \in 1..Len(all) : all[i] \in MessageType
  BY <1>2, ElementOfSeq
<1>6. SubSeq(all, 1, k) \in Seq(MessageType)
  <2>1. \A i \in 1..k : all[i] \in MessageType
    BY <1>2, <1>4, <1>5
  <2>2. QED BY <1>4, <2>1, SubSeqProperties
<1>7. SubSeq(all, k + 1, Len(all)) \in Seq(MessageType)
  <2>1. \A i \in (k + 1)..Len(all) : all[i] \in MessageType
    BY <1>2, <1>4, <1>5
  <2>2. k + 1 \in Int /\ Len(all) \in Int
    BY <1>2, <1>4
  <2>3. QED BY <2>1, <2>2, SubSeqProperties
<1>8. stdio' \in [Fps -> Seq(MessageType)]
  BY <1>3, <1>7 DEF Typed, TypeOK
<1>9. QED BY <1>1, <1>2, <1>3, <1>4, <1>6, <1>7, <1>8

(* The name that is made for a rolled file. *)
LEMMA NameTyped ==
  ASSUME TypeOK, NEW s \in Sinks
  PROVE  /\ CreateFilename(s) \in NameType /\ CreateFilename(s) # NoFile
         /\ CreateFilename(s).sink = flushs[s] /\ CreateFilename(s).cnt = cnt[s] + 1
<1>1. PICK t \in (1..12) \X (1..31) : t = Clock[now]
  BY LogAssumption, ElementOfSeq, SMTT(60) DEF TypeOK
<1>2. t[1] \in 1..31 /\ t[2] \in 1..31
  OBVIOUS
<1>3. ASSUME NEW n \in 1..31 PROVE Digits(n) \in Seq(0..9)
  <2>1. CASE n < 10
    BY <2>1 DEF Digits
  <2>2. CASE ~(n < 10)
    <3>1. n \div 10 \in 0..9 /\ n % 10 \in 0..9
      OBVIOUS
    <3>2. QED BY <2>2, <3>1 DEF Digits
  <2>3. QED BY <2>1, <2>2
<1>4. Stamp(t) \in Seq(0..9)
  <2>1. PICK a \in Seq(0..9) : a = Digits(t[1])
    BY <1>2, <1>3
  <2>2. PICK b \in Seq(0..9) : b = Digits(t[2])
    BY <1>2, <1>3
  <2>3. a \o b \in Seq(0..9)
    BY ConcatProperties
  <2>4. QED BY <2>1, <2>2, <2>3 DEF Stamp
<1>5. cnt[s] \in Nat /\ flushs[s] \in SinkType
  BY SinksTyped DEF TypeOK
<1>6. CreateFilename(s) \in NameType
  BY <1>1, <1>4, <1>5 DEF CreateFilename, Name, NameType
<1>7. QED
  BY <1>5, <1>6 DEF CreateFilename, Name, NameType, NoFile, SinkType, ToStdout

(* The next place of RealFlush. *)
LEMMA GoOnTyped ==
  ASSUME Typed, at \in 1..Len(flushs), NEW st \in {"next", "flush", "sync"}, GoOn(st)
  PROVE  /\ step' \in {"write", "flush", "sync"} /\ at' \in 0..Len(flushs)
         /\ done' \in 0..MaxMessages /\ batch' \in 0..MaxBatch
         /\ done' + batch' <= MaxMessages
<1>1. /\ Len(flushs) \in Nat /\ at \in Nat /\ done \in Nat /\ batch \in Nat
      /\ MaxMessages \in Nat /\ MaxBatch \in Nat
      /\ done + batch <= MaxMessages /\ batch <= MaxBatch /\ done <= MaxMessages
  BY SinksTyped, LogAssumption DEF Typed, TypeOK, Room
<1>2. QED BY <1>1 DEF GoOn

(* Files that are not written to have not lost anything. *)
LEMMA GrowsSelf == ASSUME NEW f, FilesOK(f) PROVE Grows(f, f)
<1>1. \A n \in DOMAIN f : f[n].data \in Seq(MessageType)
  BY DEF FilesOK, FileType
<1>2. QED BY <1>1, PrefixOfAppend DEF Grows

(* A list over a set is one over any larger set. *)
LEMMA SeqOfMore ==
  ASSUME NEW S, NEW T, \A x \in S : x \in T, NEW o \in Seq(S) PROVE o \in Seq(T)
<1>1. \A i \in 1..Len(o) : o[i] \in T
  BY ElementOfSeq
<1>2. QED BY <1>1

(* The files a sink rolled to are still there when files are made. *)
LEMMA OpenedStays ==
  ASSUME NEW D, NEW E, D \subseteq E, NEW F, NEW o \in Seq([name : D, from : F])
  PROVE  o \in Seq([name : E, from : F])
<1>1. \A r \in [name : D, from : F] : r \in [name : E, from : F]
  OBVIOUS
<1>2. QED BY <1>1, SeqOfMore

(* A step that writes: what it has to leave well typed. *)
LEMMA TypedFrom ==
  ASSUME Typed, UNCHANGED <<config, found>>,
         now' \in 1..Len(Clock), life' \in 1..MaxLives,
         status' \in {"up", "exiting", "exited", "killed", "power"},
         FilesOK(files'), DOMAIN files \subseteq DOMAIN files',
         stream' \in [Fps -> DOMAIN files' \union {NoFile}],
         stdio' \in [Fps -> Seq(MessageType)],
         cnt' \in [Sinks -> Nat], cur' \in [Sinks -> Nat],
         batch' \in 0..MaxBatch, at' \in 0..Len(flushs),
         step' \in {"write", "flush", "sync"},
         done' \in 0..MaxMessages, done' + batch' <= MaxMessages,
         \/ opened' = opened
         \/ opened' \in [Sinks -> Seq([name : DOMAIN files', from : 0..MaxMessages])]
  PROVE  Typed'
<1>1. Sinks' = Sinks /\ Fps' = Fps
  BY SinksStay
<1>2. opened' \in [Sinks -> Seq([name : DOMAIN files', from : 0..MaxMessages])]
  <2>1. SUFFICES ASSUME opened' = opened
                 PROVE  opened' \in [Sinks -> Seq([name : DOMAIN files', from : 0..MaxMessages])]
    OBVIOUS
  <2>2. opened \in [Sinks -> Seq([name : DOMAIN files, from : 0..MaxMessages])]
    BY DEF Typed, TypeOK
  <2>3. \A s \in Sinks : opened[s] \in Seq([name : DOMAIN files', from : 0..MaxMessages])
    BY <2>2, OpenedStays
  <2>4. QED BY <2>1, <2>2, <2>3
<1>3. TypeOK'
  BY <1>1, <1>2 DEF Typed, TypeOK, FilesOK, config
<1>4. QED BY <1>3 DEF Typed, Room

(* What TypedFrom asks of the parts that a step leaves alone. *)
LEMMA TypedParts ==
  ASSUME Typed
  PROVE  /\ now \in 1..Len(Clock) /\ life \in 1..MaxLives
         /\ status \in {"up", "exiting", "exited", "killed", "power"}
         /\ FilesOK(files)
         /\ stream \in [Fps -> DOMAIN files \union {NoFile}]
         /\ stdio \in [Fps -> Seq(MessageType)]
         /\ cnt \in [Sinks -> Nat] /\ cur \in [Sinks -> Nat]
         /\ batch \in 0..MaxBatch /\ at \in 0..Len(flushs)
         /\ step \in {"write", "flush", "sync"}
         /\ done \in 0..MaxMessages /\ done + batch <= MaxMessages
         /\ batch \in Nat /\ done \in Nat
  BY LogAssumption DEF Typed, TypeOK, Room, FilesOK

(* NoFile is no file. *)
LEMMA NoFileIsNone == ASSUME NEW fsys, FilesOK(fsys) PROVE NoFile \notin DOMAIN fsys
  BY DEF FilesOK, NameType, NoFile, Name, SinkType, ToStdout

-----------------------------------------------------------------------------
(* Every step keeps the types, only a loss of power takes anything out of  *)
(* a file, and a process writes only to the files it has open or opens.    *)

OnlyOpen == \A n \in DOMAIN files :
               /\ \A f \in Fps : stream[f] # n
               /\ \A s \in Sinks : n = CreateFilename(s) => opened'[s] = opened[s]
               => files'[n] = files[n]

StepOK == /\ Typed'
          /\ status' # "power" => Grows(files, files')
          /\ Running /\ status' # "power" => OnlyOpen

(* RealFlush. *)
LEMMA RealFlushTyped ==
  ASSUME Typed, NEW k \in 1..MaxBatch, RealFlush(k) PROVE StepOK
<1>1. /\ k \in 0..MaxBatch /\ done + k <= MaxMessages /\ 1 \in 0..Len(flushs)
      /\ batch' = k /\ at' = 1
      /\ UNCHANGED <<config, now, life, status, files, stream, stdio, cnt, cur, step, done,
                     opened, found>>
  BY SinksTyped, LogAssumption DEF RealFlush, Typed
<1>2. Typed'
  BY <1>1, TypedParts, TypedFrom
<1>3. QED BY <1>1, <1>2, TypedParts, GrowsSelf DEF StepOK, OnlyOpen

(* fwrite to the file that FILE f is open on. *)
LEMMA WriteTyped ==
  ASSUME Typed, NEW f \in Fps, at \in 1..Len(flushs), NEW st \in {"next", "flush"},
         Fwrite(f, files, stream[f], stdio[f]), GoOn(st), cur' \in [Sinks -> Nat],
         UNCHANGED <<config, now, life, status, stream, cnt, opened, found>>
  PROVE  StepOK /\ DOMAIN files' = DOMAIN files
<1>2. stream[f] \in DOMAIN files \union {NoFile} /\ stdio[f] \in Seq(MessageType)
  BY TypedParts
<1>3. PICK k \in Nat, all \in Seq(MessageType) :
         /\ SubSeq(all, 1, k) \in Seq(MessageType)
         /\ files' = Put(files, stream[f], SubSeq(all, 1, k))
         /\ stdio' \in [Fps -> Seq(MessageType)]
  BY <1>2, TypedParts, FwriteEffect
<1>4. FilesOK(files') /\ DOMAIN files' = DOMAIN files /\ Grows(files, files')
  BY <1>2, <1>3, TypedParts, PutEffect
<1>5. Typed'
  BY <1>3, <1>4, GoOnTyped, TypedParts, TypedFrom
<1>6. OnlyOpen
  BY <1>2, <1>3, TypedParts, PutEffect DEF OnlyOpen
<1>7. QED BY <1>4, <1>5, <1>6 DEF StepOK

(* The process ends. *)
LEMMA EndTyped ==
  ASSUME Typed, status' \in {"exited", "killed", "power"},
         FilesOK(files'), DOMAIN files' = DOMAIN files,
         status' # "power" => Grows(files, files') /\ OnlyOpen,
         stdio' = [f \in Fps |-> <<>>], cnt' \in [Sinks -> Nat],
         UNCHANGED <<config, now, life, stream, cur, batch, at, step, done, opened, found>>
  PROVE  StepOK
<1>1. stdio' \in [Fps -> Seq(MessageType)]
  OBVIOUS
<1>2. Typed'
  BY <1>1, TypedParts, TypedFrom
<1>3. QED BY <1>2 DEF StepOK

(* The sink RealFlush is at. *)
LEMMA FlushingSink ==
  ASSUME Typed, NEW s \in Sinks, NEW kind, NEW st, Flushing(s, kind, st)
  PROVE  /\ s \in Fps /\ Fp(s) \in Fps /\ 0 \in Fps /\ at = s /\ at \in 1..Len(flushs)
         /\ Kind(s) = kind /\ step = st /\ status = "up" /\ Running
         /\ kind # "stdout" => Fp(s) = s
         /\ kind = "stdout" => Fp(s) = 0
  BY SinksTyped DEF Typed, Flushing, Sinks, Fp, Running

(* StdoutFlush. *)
LEMMA StdoutTyped ==
  ASSUME Typed, NEW s \in Sinks, StdoutWrite(s), stream[0] = Stdout
  PROVE  StepOK /\ DOMAIN files' = DOMAIN files
<1>1. 0 \in Fps /\ at \in 1..Len(flushs)
  BY FlushingSink DEF StdoutWrite
<1>2. QED BY <1>1, WriteTyped, TypedParts DEF StdoutWrite

(* FileFlush: it writes, or the process ends at a null FILE. *)
LEMMA FileTyped ==
  ASSUME Typed, NEW s \in Sinks, FileWrite(s)
  PROVE  StepOK /\ DOMAIN files' = DOMAIN files
<1>1. s \in Fps /\ at \in 1..Len(flushs)
  BY FlushingSink DEF FileWrite
<1>2. CASE stream[s] # NoFile
  <2>1. PICK st \in {"next", "flush"} : st = IF flushLog = 0 THEN "next" ELSE "flush"
    OBVIOUS
  <2>2. QED BY <1>1, <1>2, <2>1, WriteTyped, TypedParts DEF FileWrite
<1>3. CASE stream[s] = NoFile
  BY <1>3, EndTyped, TypedParts, GrowsSelf DEF FileWrite, WriteToNull, OnlyOpen
<1>4. QED BY <1>2, <1>3

(* RollFileFlush. *)
LEMMA RollTyped ==
  ASSUME Typed, NEW s \in Sinks, RollWrite(s)
  PROVE  StepOK /\ DOMAIN files' = DOMAIN files
<1>1. s \in Fps /\ at \in 1..Len(flushs)
  BY FlushingSink DEF RollWrite
<1>2. cur' \in [Sinks -> Nat]
  BY TypedParts, SMTT(60) DEF RollWrite, SizeAfter
<1>3. QED BY <1>1, <1>2, WriteTyped DEF RollWrite

(* fclose of what FILE f is open on. *)
LEMMA FcloseEffect ==
  ASSUME Typed, NEW f \in Fps
  PROVE  LET g == Fclose(f)
         IN  /\ FilesOK(g) /\ DOMAIN g = DOMAIN files /\ Grows(files, g)
             /\ \A m \in DOMAIN files : m # stream[f] => g[m] = files[m]
             /\ stream[f] # NoFile => /\ g[stream[f]].data = files[stream[f]].data \o stdio[f]
                                      /\ g[stream[f]].synced = files[stream[f]].synced
<1>1. stream[f] \in DOMAIN files \union {NoFile} /\ stdio[f] \in Seq(MessageType)
  BY TypedParts
<1>2. QED BY <1>1, TypedParts, PutEffect DEF Fclose

(* The batch goes to the end of file n, which is new or as in g; the rest  *)
(* of it stays in the buffer of sink s.                                    *)
Begun(s, n, g) ==
  \E k \in Nat, all \in Seq(MessageType) :
     /\ all = Messages /\ k <= Len(all)
     /\ SubSeq(all, 1, k) \in Seq(MessageType)
     /\ SubSeq(all, k + 1, Len(all)) \in Seq(MessageType)
     /\ stdio' = [stdio EXCEPT ![s] = SubSeq(all, k + 1, Len(all))]
     /\ files'[n].data = (IF n \in DOMAIN files THEN g[n].data ELSE <<>>)
                            \o SubSeq(all, 1, k)

(* The files after a new one was opened and written to. *)
LEMMA NewFileEffect ==
  ASSUME Typed, NEW s \in Sinks, RollToNewFile(s)
  PROVE  LET n == CreateFilename(s)
             g == Fclose(s)
         IN  /\ s \in Fps
             /\ n \in NameType /\ n.sink = flushs[s] /\ n.cnt = cnt[s] + 1 /\ n # NoFile
             /\ FilesOK(files') /\ DOMAIN files' = DOMAIN files \union {n}
             /\ \A m \in DOMAIN files : m # n => files'[m] = g[m]
             /\ stdio' \in [Fps -> Seq(MessageType)]
             /\ Begun(s, n, g)
<1>1. s \in Fps
  BY FlushingSink DEF RollToNewFile
<1>2. PICK n : n = CreateFilename(s)
  OBVIOUS
<1>3. n \in NameType /\ n.sink = flushs[s] /\ n.cnt = cnt[s] + 1 /\ n # NoFile
  BY <1>2, NameTyped DEF Typed
<1>4. PICK g : g = Fclose(s)
  OBVIOUS
<1>5. FilesOK(g) /\ DOMAIN g = DOMAIN files
  BY <1>1, <1>4, FcloseEffect
<1>6. PICK h : h = Fopen(g, {n})
  OBVIOUS
<1>7. /\ FilesOK(h) /\ DOMAIN h = DOMAIN files \union {n}
      /\ \A m \in DOMAIN files : h[m] = g[m]
      /\ n \notin DOMAIN files => h[n] = EmptyFile
  <2>1. PICK ns : ns = {n} /\ ns \subseteq NameType
    BY <1>3
  <2>2. QED BY <1>5, <1>6, <2>1, FopenEffect, ZenonT(60)
<1>8. Fwrite(s, h, n, <<>>)
  BY <1>2, <1>4, <1>6 DEF RollToNewFile
<1>9. PICK k \in Nat, all \in Seq(MessageType) :
         /\ all = Messages /\ k <= Len(all)
         /\ SubSeq(all, 1, k) \in Seq(MessageType)
         /\ SubSeq(all, k + 1, Len(all)) \in Seq(MessageType)
         /\ files' = Put(h, n, SubSeq(all, 1, k))
         /\ stdio' = [stdio EXCEPT ![s] = SubSeq(all, k + 1, Len(all))]
         /\ stdio' \in [Fps -> Seq(MessageType)]
  <2>1. PICK e : e = <<>> /\ e \in Seq(MessageType)
    <3>1. <<>> \in Seq(MessageType)
      BY EmptySeq
    <3>2. QED BY <3>1, Zenon
  <2>2. n \in DOMAIN h \union {NoFile} /\ Fwrite(s, h, n, e)
    BY <1>7, <1>8, <2>1
  <2>3. e \o Messages = Messages
    BY <2>1, MessagesTyped, ConcatEmptySeq
  <2>4. \E k \in Nat, all \in Seq(MessageType) :
            /\ all = e \o Messages /\ k <= Len(all)
            /\ SubSeq(all, 1, k) \in Seq(MessageType)
            /\ SubSeq(all, k + 1, Len(all)) \in Seq(MessageType)
            /\ files' = Put(h, n, SubSeq(all, 1, k))
            /\ stdio' = [stdio EXCEPT ![s] = SubSeq(all, k + 1, Len(all))]
            /\ stdio' \in [Fps -> Seq(MessageType)]
    <3>1. FilesOK(h) /\ e \in Seq(MessageType)
      BY <1>7, <2>1
    <3>2. QED BY <1>1, <2>2, <3>1, FwriteEffect, ZenonT(60)
  <2>5. QED BY <2>3, <2>4
<1>10. /\ FilesOK(files') /\ DOMAIN files' = DOMAIN h
       /\ \A m \in DOMAIN h : m # n => files'[m] = h[m]
       /\ files'[n].data = h[n].data \o SubSeq(all, 1, k)
       /\ files'[n].synced = h[n].synced
  <2>1. PICK ms \in Seq(MessageType) : ms = SubSeq(all, 1, k)
    BY <1>9
  <2>2. files' = Put(h, n, ms) /\ n \in DOMAIN h \union {NoFile}
    BY <1>7, <1>9, <2>1
  <2>3. QED BY <1>3, <1>7, <2>1, <2>2, PutEffect, ZenonT(60)
<1>11. /\ h[n].data = IF n \in DOMAIN files THEN g[n].data ELSE <<>>
       /\ h[n].synced = IF n \in DOMAIN files THEN g[n].synced ELSE 0
  BY <1>7 DEF EmptyFile
<1>12. Begun(s, n, g)
  BY <1>9, <1>10, <1>11 DEF Begun
<1>13. QED BY <1>1, <1>2, <1>3, <1>4, <1>7, <1>9, <1>10, <1>12

(* RollFileFlush opens a file and writes to it. *)
LEMMA NewFileTyped == ASSUME Typed, NEW s \in Sinks, RollToNewFile(s) PROVE StepOK
<1>1. PICK n : n = CreateFilename(s)
  OBVIOUS
<1>2. PICK g : g = Fclose(s)
  OBVIOUS
<1>3. /\ s \in Fps /\ FilesOK(files') /\ DOMAIN files' = DOMAIN files \union {n}
      /\ \A m \in DOMAIN files : m # n => files'[m] = g[m]
      /\ stdio' \in [Fps -> Seq(MessageType)]
  BY <1>1, <1>2, NewFileEffect
<1>4. /\ FilesOK(g) /\ DOMAIN g = DOMAIN files /\ Grows(files, g)
      /\ \A m \in DOMAIN files : m # stream[s] => g[m] = files[m]
  BY <1>2, <1>3, FcloseEffect
<1>5. stream' \in [Fps -> DOMAIN files' \union {NoFile}]
  <2>1. stream' = [stream EXCEPT ![s] = n]
    BY <1>1 DEF RollToNewFile
  <2>2. QED BY <1>3, <2>1, TypedParts
<1>6. /\ opened' \in [Sinks -> Seq([name : DOMAIN files', from : 0..MaxMessages])]
      /\ opened'[s] # opened[s]
  <2>1. PICK r : r = [name |-> n, from |-> done]
    OBVIOUS
  <2>2. r \in [name : DOMAIN files', from : 0..MaxMessages]
    BY <1>3, <2>1, TypedParts
  <2>3. opened \in [Sinks -> Seq([name : DOMAIN files, from : 0..MaxMessages])]
    BY DEF Typed, TypeOK
  <2>4. \A t \in Sinks : opened[t] \in Seq([name : DOMAIN files', from : 0..MaxMessages])
    BY <1>3, <2>3, OpenedStays
  <2>5. PICK o : o = Append(opened[s], r)
    OBVIOUS
  <2>6. opened' = [opened EXCEPT ![s] = o]
    BY <1>1, <2>1, <2>5 DEF RollToNewFile
  <2>7. /\ o \in Seq([name : DOMAIN files', from : 0..MaxMessages])
        /\ Len(o) = Len(opened[s]) + 1 /\ Len(opened[s]) \in Nat
    <3>1. PICK S : S = [name : DOMAIN files', from : 0..MaxMessages]
      OBVIOUS
    <3>2. PICK q \in Seq(S) : q = opened[s]
      BY <2>4, <3>1
    <3>3. Append(q, r) \in Seq(S) /\ Len(Append(q, r)) = Len(q) + 1 /\ Len(q) \in Nat
      BY <2>2, <3>1
    <3>4. QED BY <2>5, <3>1, <3>2, <3>3
  <2>8. o # opened[s]
    BY <2>7
  <2>9. QED BY <2>3, <2>4, <2>6, <2>7, <2>8
<1>7. /\ cnt' \in [Sinks -> Nat] /\ cur' \in [Sinks -> Nat] /\ GoOn("flush")
      /\ at \in 1..Len(flushs)
      /\ UNCHANGED <<config, now, life, status, found>>
  BY TypedParts, FlushingSink, SMTT(60) DEF RollToNewFile, SizeAfter
<1>8. Typed'
  BY <1>3, <1>5, <1>6, <1>7, TypedParts, GoOnTyped, TypedFrom
<1>9. IsPrefix(files[n].data, files'[n].data) \/ n \notin DOMAIN files
  <2>1. SUFFICES ASSUME n \in DOMAIN files PROVE IsPrefix(files[n].data, files'[n].data)
    OBVIOUS
  <2>2. PICK a \in Seq(MessageType) : files'[n].data = g[n].data \o a
    BY <1>1, <1>2, <2>1, NewFileEffect DEF Begun
  <2>3. files[n].data \in Seq(MessageType) /\ stdio[s] \in Seq(MessageType)
    BY <1>3, <2>1, TypedParts DEF FilesOK, FileType
  <2>4. CASE n # stream[s]
    <3>1. files'[n].data = files[n].data \o a
      BY <1>4, <2>1, <2>2, <2>4
    <3>2. QED BY <2>3, <3>1, PrefixOfAppend
  <2>5. CASE n = stream[s]
    <3>1. stream[s] # NoFile
      BY <1>1, <2>5, NewFileEffect
    <3>2. g[n].data = files[n].data \o stdio[s]
      BY <1>2, <1>3, <2>5, <3>1, FcloseEffect
    <3>3. files'[n].data = files[n].data \o (stdio[s] \o a)
      <4>1. (files[n].data \o stdio[s]) \o a = files[n].data \o (stdio[s] \o a)
        BY <2>3, MessagesAssociate
      <4>2. QED BY <2>2, <3>2, <4>1, Zenon
    <3>4. stdio[s] \o a \in Seq(MessageType)
      BY <2>3, ConcatProperties
    <3>5. QED BY <2>3, <3>3, <3>4, PrefixOfAppend
  <2>6. QED BY <2>4, <2>5
<1>10. Grows(files, files')
  BY <1>3, <1>4, <1>9 DEF Grows
<1>11. OnlyOpen
  BY <1>1, <1>3, <1>4, <1>6 DEF OnlyOpen
<1>12. QED BY <1>8, <1>10, <1>11 DEF StepOK

(* RollFileFlush cannot open a file. *)
LEMMA RollFailsTyped ==
  ASSUME Typed, NEW s \in Sinks, RollFails(s)
  PROVE  StepOK /\ DOMAIN files' = DOMAIN files /\ cnt'[s] = cnt[s] + 1
<1>1. s \in Fps
  BY FlushingSink DEF RollFails
<1>2. /\ FilesOK(files') /\ DOMAIN files' = DOMAIN files /\ Grows(files, files')
      /\ \A m \in DOMAIN files : m # stream[s] => files'[m] = files[m]
  BY <1>1, FcloseEffect DEF RollFails
<1>3. OnlyOpen
  BY <1>1, <1>2 DEF OnlyOpen
<1>4. cnt' \in [Sinks -> Nat] /\ cnt'[s] = cnt[s] + 1
  BY TypedParts DEF RollFails
<1>5. QED BY <1>2, <1>3, <1>4, EndTyped DEF RollFails, WriteToNull

(* fflush of FILE f. *)
LEMMA FflushEffect ==
  ASSUME Typed, NEW f \in Fps, Fflush(f)
  PROVE  /\ FilesOK(files') /\ DOMAIN files' = DOMAIN files /\ Grows(files, files')
         /\ \A m \in DOMAIN files : m # stream[f] => files'[m] = files[m]
         /\ stream[f] # NoFile =>
               /\ files'[stream[f]].data = files[stream[f]].data \o stdio[f]
               /\ files'[stream[f]].synced = files[stream[f]].synced
         /\ stdio' \in [Fps -> Seq(MessageType)]
         /\ stdio' = [stdio EXCEPT ![f] = <<>>]
<1>1. files' = Fclose(f) /\ stdio' = [stdio EXCEPT ![f] = <<>>]
  BY DEF Fflush, Fclose
<1>2. stdio' \in [Fps -> Seq(MessageType)]
  BY <1>1, TypedParts
<1>3. QED BY <1>1, <1>2, FcloseEffect

(* Flush goes on behind fflush. *)
LEMMA FlushTyped ==
  ASSUME Typed, NEW s \in Sinks, FlushFile(s)
  PROVE  StepOK /\ DOMAIN files' = DOMAIN files
<1>1. s \in Fps /\ at \in 1..Len(flushs)
  BY FlushingSink DEF FlushFile
<1>2. /\ FilesOK(files') /\ DOMAIN files' = DOMAIN files /\ Grows(files, files')
      /\ \A m \in DOMAIN files : m # stream[s] => files'[m] = files[m]
      /\ stdio' \in [Fps -> Seq(MessageType)]
  BY <1>1, FflushEffect DEF FlushFile
<1>4. PICK st \in {"next", "flush", "sync"} : st = IF flushLog = 2 THEN "sync" ELSE "next"
  OBVIOUS
<1>5. /\ GoOn(st)
      /\ UNCHANGED <<config, now, life, status, stream, cnt, cur, opened, found>>
  BY <1>4 DEF FlushFile
<1>6. Typed'
  BY <1>1, <1>2, <1>5, GoOnTyped, TypedParts, TypedFrom
<1>7. QED BY <1>1, <1>2, <1>6 DEF StepOK, OnlyOpen

(* fsync moves the mark of the file of FILE f to its end. *)
LEMMA FsyncEffect ==
  ASSUME Typed, NEW f \in Fps, Fsync(f)
  PROVE  /\ FilesOK(files') /\ DOMAIN files' = DOMAIN files
         /\ \A m \in DOMAIN files : files'[m].data = files[m].data
         /\ \A m \in DOMAIN files : m # stream[f] => files'[m] = files[m]
         /\ stream[f] # NoFile => files'[stream[f]].synced = Len(files[stream[f]].data)
<1>1. PICK n \in DOMAIN files \union {NoFile} : n = stream[f]
  BY TypedParts
<1>2. PICK len \in Nat \union {Len(files[n].data)} : len = Len(files[n].data)
  OBVIOUS
<1>3. files' = [files EXCEPT ![n].synced = len]
  BY <1>1, <1>2 DEF Fsync
<1>4. DOMAIN files' = DOMAIN files /\ \A m \in DOMAIN files : m # n => files'[m] = files[m]
  BY <1>3
<1>5. ASSUME n \in DOMAIN files
      PROVE  files'[n] \in FileType /\ files'[n].data = files[n].data /\ files'[n].synced = len
  <2>1. /\ files[n] \in [data : Seq(MessageType), synced : Nat]
        /\ files'[n] = [files[n] EXCEPT !.synced = len]
    BY <1>3, <1>5, TypedParts DEF FilesOK, FileType
  <2>2. len \in Nat /\ len = Len(files[n].data)
    BY <1>2, <2>1
  <2>3. files'[n].data = files[n].data /\ files'[n].synced = len
    BY <2>1
  <2>4. files'[n] \in [data : Seq(MessageType), synced : Nat]
    BY <2>1, <2>2
  <2>5. QED BY <2>2, <2>3, <2>4 DEF FileType
<1>6. FilesOK(files')
  BY <1>4, <1>5, TypedParts DEF FilesOK
<1>7. QED BY <1>1, <1>2, <1>4, <1>5, <1>6

(* RealFlush goes on behind fsync. *)
LEMMA SyncTyped ==
  ASSUME Typed, NEW s \in Sinks, SyncFile(s)
  PROVE  StepOK /\ DOMAIN files' = DOMAIN files
<1>1. s \in Fps /\ at \in 1..Len(flushs)
  BY FlushingSink DEF SyncFile
<1>2. /\ FilesOK(files') /\ DOMAIN files' = DOMAIN files
      /\ \A m \in DOMAIN files : files'[m].data = files[m].data
      /\ \A m \in DOMAIN files : m # stream[s] => files'[m] = files[m]
  BY <1>1, FsyncEffect DEF SyncFile
<1>3. Typed'
  BY <1>1, <1>2, GoOnTyped, TypedParts, TypedFrom DEF SyncFile
<1>4. Grows(files, files')
  BY <1>2, TypedParts, GrowsSelf DEF Grows
<1>5. QED BY <1>1, <1>2, <1>3, <1>4 DEF StepOK, OnlyOpen

(* The clock. *)
LEMMA TickTyped == ASSUME Typed, Tick PROVE StepOK
<1>1. now' \in 1..Len(Clock)
  BY LogAssumption, TypedParts, SMTT(60) DEF Tick
<1>2. Typed'
  BY <1>1, TypedParts, TypedFrom DEF Tick
<1>3. QED BY <1>2, TypedParts, GrowsSelf DEF StepOK, OnlyOpen, Tick

(* exit() begins; the C library passes on what is in the buffer of FILE f. *)
LEMMA ExitTyped == ASSUME Typed, Exit PROVE StepOK
<1>1. Typed'
  BY TypedParts, TypedFrom DEF Exit
<1>2. QED BY <1>1, TypedParts, GrowsSelf DEF StepOK, OnlyOpen, Exit

LEMMA UnloadTyped ==
  ASSUME Typed, NEW f \in Fps, Unload(f)
  PROVE  StepOK /\ DOMAIN files' = DOMAIN files
<1>1. /\ FilesOK(files') /\ DOMAIN files' = DOMAIN files /\ Grows(files, files')
      /\ \A m \in DOMAIN files : m # stream[f] => files'[m] = files[m]
      /\ stdio' \in [Fps -> Seq(MessageType)]
  BY FflushEffect DEF Unload
<1>2. Typed'
  BY <1>1, TypedParts, TypedFrom DEF Unload
<1>3. QED BY <1>1, <1>2 DEF StepOK, OnlyOpen

(* The end of exit(), and a signal, change no file. *)
LEMMA KillTyped == ASSUME Typed, Kill \/ Exited PROVE StepOK /\ UNCHANGED files
  BY EndTyped, TypedParts, GrowsSelf DEF Kill, Exited, Ends, OnlyOpen

(* A file is cut. *)
LEMMA PowerEffect ==
  ASSUME Typed, PowerLoss
  PROVE  /\ FilesOK(files') /\ DOMAIN files' = DOMAIN files
         /\ \A n \in DOMAIN files :
               \/ files'[n] = files[n]
               \/ \E k \in Nat : /\ files[n].synced <= k /\ k <= Len(files[n].data)
                                 /\ files'[n] = Cut(files[n], k)
         /\ \A n \in DOMAIN files :
               files[n].synced >= Len(files[n].data) => files'[n] = files[n]
<1>1. PICK keep \in [Dirty -> 0..Longest] :
         /\ \A n \in Dirty : files[n].synced <= keep[n] /\ keep[n] <= Len(files[n].data)
         /\ files' = [n \in DOMAIN files |-> IF n \in Dirty THEN Cut(files[n], keep[n])
                                             ELSE files[n]]
  BY DEF PowerLoss, Ends
<1>2. DOMAIN files' = DOMAIN files
  BY <1>1
<1>3. ASSUME NEW n \in DOMAIN files
      PROVE  /\ files'[n] \in FileType
             /\ \/ files'[n] = files[n]
                \/ \E k \in Nat : /\ files[n].synced <= k /\ k <= Len(files[n].data)
                                  /\ files'[n] = Cut(files[n], k)
             /\ files[n].synced >= Len(files[n].data) => files'[n] = files[n]
  <2>1. files[n].data \in Seq(MessageType) /\ files[n] \in FileType
        /\ files[n].synced \in Nat /\ Len(files[n].data) \in Nat
    BY TypedParts DEF FilesOK, FileType
  <2>2. CASE n \in Dirty
    <3>1. PICK bound : bound = Longest
      OBVIOUS
    <3>2. PICK k \in 0..bound : k = keep[n]
      BY <1>1, <2>2, <3>1
    <3>3. k \in Nat
      OBVIOUS
    <3>4. files[n].synced <= k /\ k <= Len(files[n].data) /\ files'[n] = Cut(files[n], k)
      BY <1>1, <2>2, <3>2
    <3>5. PICK d : d = files[n].data
      OBVIOUS
    <3>6. SubSeq(d, 1, k) \in Seq(MessageType) /\ Len(SubSeq(d, 1, k)) = k
      <4>1. \A i \in 1..Len(d) : d[i] \in MessageType
        BY <2>1, <3>5, ElementOfSeq
      <4>2. \A i \in 1..k : d[i] \in MessageType
        BY <2>1, <3>3, <3>4, <3>5, <4>1
      <4>3. SubSeq(d, 1, k) \in Seq(MessageType)
        BY <3>3, <4>2, SubSeqProperties
      <4>4. QED BY <2>1, <3>3, <3>4, <3>5, <4>3
    <3>7. files'[n] \in FileType
      BY <3>3, <3>4, <3>5, <3>6 DEF FileType, Cut
    <3>8. files[n].synced < Len(files[n].data)
      BY <2>2 DEF Dirty
    <3>9. QED BY <2>1, <3>3, <3>4, <3>7, <3>8
  <2>3. CASE n \notin Dirty
    BY <1>1, <2>1, <2>3
  <2>4. QED BY <2>2, <2>3
<1>4. FilesOK(files')
  BY <1>2, <1>3, TypedParts DEF FilesOK
<1>5. QED BY <1>2, <1>3, <1>4

(* A loss of power leaves files of the type. *)
LEMMA PowerTyped == ASSUME Typed, PowerLoss PROVE StepOK /\ DOMAIN files' = DOMAIN files
<1>1. FilesOK(files') /\ DOMAIN files' = DOMAIN files
  BY PowerEffect
<1>2. QED BY <1>1, EndTyped, TypedParts DEF PowerLoss, Ends
-----------------------------------------------------------------------------
(* Names: sinks that are alone have files of their own, and no sink makes  *)
(* a name twice in one process.                                            *)

StreamsOK ==
  /\ Stdout \in DOMAIN files
  /\ stream[0] = Stdout
  /\ \A s \in Sinks :
        /\ Kind(s) = "stdout" => stream[s] = NoFile
        /\ Kind(s) = "file" => stream[s] \in {LogFile(s), NoFile}
        /\ Kind(s) = "roll" => stream[s] = IF opened[s] = <<>> THEN NoFile
                                           ELSE opened[s][Len(opened[s])].name
        /\ Kind(s) # "roll" => opened[s] = <<>>

NamesOK == \A s \in Sinks : \A i \in 1..Len(opened[s]) :
              /\ opened[s][i].name.sink = flushs[s]
              /\ opened[s][i].name.cnt <= cnt[s]
              /\ \A j \in 1..Len(opened[s]) : opened[s][i].name = opened[s][j].name => i = j

FileInv == Typed /\ StreamsOK /\ NamesOK

(* The files of rolling sink s, first to last. *)
LEMMA OpenedTyped ==
  ASSUME Typed, NEW s \in Sinks
  PROVE  /\ opened[s] \in Seq([name : DOMAIN files, from : 0..MaxMessages])
         /\ Len(opened[s]) \in Nat
         /\ opened[s] # <<>> => Len(opened[s]) >= 1
         /\ \A k \in 1..Len(opened[s]) : /\ opened[s][k].name \in DOMAIN files
                                         /\ opened[s][k].name.cnt \in Nat
                                         /\ opened[s][k].from \in Nat
         /\ Before(s) \in Nat
<1>1. PICK o \in Seq([name : DOMAIN files, from : 0..MaxMessages]) : o = opened[s]
  BY DEF Typed, TypeOK
<1>2. Len(o) \in Nat /\ (o # <<>> => Len(o) >= 1)
  OBVIOUS
<1>3. \A k \in 1..Len(o) : o[k].name \in DOMAIN files /\ o[k].name.cnt \in Nat /\ o[k].from \in Nat
  <2>1. ASSUME NEW k \in 1..Len(o)
        PROVE  o[k].name \in DOMAIN files /\ o[k].name.cnt \in Nat /\ o[k].from \in Nat
    <3>1. o[k] \in [name : DOMAIN files, from : 0..MaxMessages] /\ FilesOK(files)
      BY ElementOfSeq, TypedParts
    <3>2. o[k].name \in DOMAIN files /\ o[k].from \in Nat
      BY <3>1
    <3>3. QED BY <3>1, <3>2 DEF FilesOK, NameType
  <2>2. QED BY <2>1
<1>4. Before(s) \in Nat
  BY <1>1, <1>2, <1>3 DEF Before
<1>5. QED BY <1>1, <1>2, <1>3, <1>4

(* The FILEs of a process. *)
LEMMA FpsOfSinks ==
  ASSUME Typed
  PROVE  Fps = {0} \union Sinks /\ 0 \notin Sinks
<1>1. Len(flushs) \in Nat
  BY SinksTyped DEF Typed
<1>2. QED BY <1>1 DEF Fps, Sinks

(* A file that is open has the name of its sink. *)
LEMMA StreamOfSink ==
  ASSUME FileInv
  PROVE  \A f \in Fps : stream[f] # NoFile =>
            /\ stream[f] \in DOMAIN files
            /\ f = 0 => stream[f].sink = ToStdout
            /\ f # 0 => f \in Sinks /\ stream[f].sink = flushs[f] /\ Kind(f) # "stdout"
<1>1. SUFFICES ASSUME NEW f \in Fps, stream[f] # NoFile
               PROVE  /\ stream[f] \in DOMAIN files
                      /\ f = 0 => stream[f].sink = ToStdout
                      /\ f # 0 => f \in Sinks /\ stream[f].sink = flushs[f] /\ Kind(f) # "stdout"
  OBVIOUS
<1>2. stream[f] \in DOMAIN files
  BY <1>1, TypedParts DEF FileInv
<1>3. CASE f = 0
  BY <1>2, <1>3 DEF FileInv, StreamsOK, Stdout, Name
<1>4. CASE f # 0
  <2>1. f \in Sinks /\ Kind(f) \in {"stdout", "file", "roll"}
    BY <1>4, FpsOfSinks, KindTyped DEF FileInv, Typed
  <2>2. CASE Kind(f) = "roll"
    <3>1. opened[f] # <<>> => Len(opened[f]) \in 1..Len(opened[f])
      BY <2>1, OpenedTyped DEF FileInv
    <3>2. QED BY <1>1, <1>2, <1>4, <2>1, <2>2, <3>1 DEF FileInv, StreamsOK, NamesOK
  <2>3. CASE Kind(f) # "roll"
    BY <1>1, <1>2, <1>4, <2>1, <2>3 DEF FileInv, StreamsOK, LogFile, Name
  <2>4. QED BY <2>2, <2>3
<1>5. QED BY <1>3, <1>4

(* The FILE of a sink that is alone is the only one open on its files. *)
LEMMA AloneFile ==
  ASSUME FileInv, NEW s \in Sinks, Alone(s), NEW f \in Fps, stream[f] # NoFile,
         stream[f].sink = flushs[s]
  PROVE  f = Fp(s)
<1>1. CASE f = 0
  <2>1. flushs[s] = ToStdout
    BY <1>1, StreamOfSink
  <2>2. QED BY <1>1, <2>1, KindTyped DEF FileInv, Typed
<1>2. CASE f # 0
  <2>1. f \in Sinks /\ flushs[f] = flushs[s] /\ Kind(f) # "stdout"
    BY <1>2, StreamOfSink
  <2>2. f = s
    BY <2>1 DEF Alone
  <2>3. QED BY <2>1, <2>2, KindTyped DEF FileInv, Typed
<1>3. QED BY <1>1, <1>2

(* Files that are opened when a process starts. *)
LEMMA LogFilesTyped ==
  ASSUME TypeOK, NEW ok, ok \subseteq FileSinks
  PROVE  LogFiles(ok) \subseteq NameType
<1>1. ASSUME NEW s \in ok PROVE LogFile(s) \in NameType
  <2>1. flushs[s] \in SinkType
    BY SinksTyped DEF FileSinks
  <2>2. QED BY <2>1, EmptySeq DEF LogFile, Name, NameType
<1>2. QED BY <1>1 DEF LogFiles

(* The streams of a process that has just started. *)
LEMMA StreamsStart ==
  ASSUME NEW fsys, NEW ok, ok \subseteq FileSinks, LogFiles(ok) \subseteq DOMAIN fsys,
         Stdout \in DOMAIN fsys, TypeOK
  PROVE  /\ Opened(ok) \in [Fps -> DOMAIN fsys \union {NoFile}]
         /\ Opened(ok)[0] = Stdout
         /\ \A s \in Sinks :
               /\ Kind(s) = "stdout" => Opened(ok)[s] = NoFile
               /\ Kind(s) = "file" => Opened(ok)[s] \in {LogFile(s), NoFile}
               /\ Kind(s) = "roll" => Opened(ok)[s] = NoFile
<1>1. \A s \in Sinks : s \in Fps /\ s # 0
  BY SinksTyped
<1>2. 0 \in Fps /\ \A s \in ok : LogFile(s) \in DOMAIN fsys
  BY SinksTyped DEF LogFiles
<1>3. \A s \in ok : Kind(s) = "file"
  BY DEF FileSinks
<1>4. QED BY <1>1, <1>2, <1>3 DEF Opened

(* The next process. *)
LEMMA RestartTyped ==
  ASSUME FileInv, Restart
  PROVE  StepOK /\ StreamsOK' /\ NamesOK'
<1>1. /\ UNCHANGED <<config, now, stdio>> /\ life' = life + 1 /\ life < MaxLives
      /\ ~Running /\ status' = "up"
      /\ cnt' = [s \in Sinks |-> 0] /\ cur' = [s \in Sinks |-> 0]
      /\ batch' = 0 /\ at' = 0 /\ step' = "write"
      /\ done' = 0 /\ opened' = [s \in Sinks |-> <<>>]
      /\ found' = [n \in DOMAIN files' |-> Len(files'[n].data)]
  BY DEF Restart
<1>2. FilesOK(files) /\ Typed /\ TypeOK /\ Stdout \in DOMAIN files
  BY TypedParts DEF FileInv, Typed, StreamsOK
<1>3. PICK ok \in SUBSET FileSinks : stream' = Opened(ok) /\ files' = Fopen(files, LogFiles(ok))
  BY DEF Restart
<1>4. /\ FilesOK(files') /\ Grows(files, files')
      /\ DOMAIN files' = DOMAIN files \union LogFiles(ok)
  <2>1. LogFiles(ok) \subseteq NameType
    BY <1>2, LogFilesTyped
  <2>2. QED BY <1>2, <1>3, <2>1, FopenEffect
<1>5. /\ Sinks' = Sinks /\ Fps' = Fps /\ flushs' = flushs
      /\ \A s : Kind(s)' = Kind(s) /\ LogFile(s)' = LogFile(s)
  BY <1>1, SinksStay DEF LogFile
<1>6. /\ stream' \in [Fps -> DOMAIN files' \union {NoFile}]
      /\ stream'[0] = Stdout
      /\ \A s \in Sinks :
            /\ Kind(s) = "stdout" => stream'[s] = NoFile
            /\ Kind(s) = "file" => stream'[s] \in {LogFile(s), NoFile}
            /\ Kind(s) = "roll" => stream'[s] = NoFile
  BY <1>2, <1>3, <1>4, StreamsStart
<1>7. \A m \in DOMAIN found' : found'[m] \in Nat
  <2>1. \A m \in DOMAIN files' : files'[m].data \in Seq(MessageType)
    BY <1>4 DEF FilesOK, FileType
  <2>2. \A m \in DOMAIN files' : Len(files'[m].data) \in Nat
    BY <2>1, LenProperties
  <2>3. QED BY <1>1, <2>2
<1>8. /\ opened' \in [Sinks -> Seq([name : DOMAIN files', from : 0..MaxMessages])]
      /\ \A s \in Sinks : opened'[s] = <<>>
  <2>1. <<>> \in Seq([name : DOMAIN files', from : 0..MaxMessages])
    BY EmptySeq
  <2>2. QED BY <1>1, <2>1
<1>9. Typed'
  <2>1. /\ life' \in 1..MaxLives /\ batch' \in 0..MaxBatch /\ at' \in 0..Len(flushs)
        /\ done' \in 0..MaxMessages /\ done' + batch' <= MaxMessages
        /\ cnt' \in [Sinks -> Nat] /\ cur' \in [Sinks -> Nat]
    BY <1>1, <1>2, TypedParts, SinksTyped, LogAssumption, SMTT(60)
  <2>2. TypeOK'
    BY <1>1, <1>2, <1>4, <1>5, <1>6, <1>7, <1>8, <2>1 DEF TypeOK, FilesOK, config
  <2>3. QED BY <2>1, <2>2 DEF Typed, Room
<1>10. StreamsOK'
  <2>1. Stdout' = Stdout /\ NoFile' = NoFile
    BY DEF Stdout, NoFile, Name
  <2>2. QED BY <1>2, <1>4, <1>5, <1>6, <1>8, <2>1 DEF StreamsOK
<1>11. NamesOK'
  <2>1. \A s \in Sinks : 1..Len(opened'[s]) = {}
    BY <1>8
  <2>2. QED BY <1>5, <2>1 DEF NamesOK
<1>12. QED BY <1>1, <1>4, <1>9, <1>10, <1>11 DEF StepOK

(* A step that opens no file. *)
LEMMA NamesStay ==
  ASSUME FileInv, UNCHANGED <<config, stream, opened>>,
         \A s \in Sinks : cnt'[s] \in {cnt[s], cnt[s] + 1},
         DOMAIN files \subseteq DOMAIN files'
  PROVE  StreamsOK' /\ NamesOK'
<1>1. /\ Sinks' = Sinks /\ flushs' = flushs
      /\ \A s : Kind(s)' = Kind(s) /\ LogFile(s)' = LogFile(s)
  BY SinksStay DEF LogFile
<1>2. StreamsOK'
  BY <1>1 DEF FileInv, StreamsOK
<1>3. NamesOK'
  <2>0. \A s \in Sinks : cnt[s] \in Nat
    BY TypedParts DEF FileInv
  <2>1. \A s \in Sinks : cnt[s] \in Nat /\ cnt'[s] \in Nat /\ cnt[s] <= cnt'[s]
    BY <2>0
  <2>2. \A s \in Sinks : \A i \in 1..Len(opened[s]) : opened[s][i].name.cnt \in Nat
    BY OpenedTyped DEF FileInv
  <2>3. QED BY <1>1, <2>1, <2>2, SMTT(60) DEF FileInv, NamesOK
<1>4. QED BY <1>2, <1>3

(* What a sink adds to its list when it opens a file. *)
LEMMA NewOpened ==
  ASSUME FileInv, NEW s \in Sinks, RollToNewFile(s)
  PROVE  LET n == CreateFilename(s)
         IN  /\ stream' = [stream EXCEPT ![s] = n]
             /\ \A t \in Sinks : t # s => opened'[t] = opened[t]
             /\ Len(opened'[s]) = Len(opened[s]) + 1 /\ opened'[s] # <<>>
             /\ opened'[s][Len(opened[s]) + 1] = [name |-> n, from |-> done]
             /\ \A i \in 1..Len(opened[s]) : opened'[s][i] = opened[s][i]
<1>1. PICK r : r = [name |-> CreateFilename(s), from |-> done]
  OBVIOUS
<1>2. PICK o \in Seq([name : DOMAIN files, from : 0..MaxMessages]) : o = opened[s]
  BY OpenedTyped DEF FileInv
<1>3. PICK p : p = Append(o, r)
  OBVIOUS
<1>4. opened' = [opened EXCEPT ![s] = p]
  BY <1>1, <1>2, <1>3 DEF RollToNewFile
<1>5. opened'[s] = p /\ \A t \in Sinks : t # s => opened'[t] = opened[t]
  BY <1>4 DEF FileInv, Typed, TypeOK
<1>6. /\ Len(p) = Len(o) + 1 /\ p[Len(o) + 1] = r /\ p # <<>>
      /\ \A i \in 1..Len(o) : p[i] = o[i]
  BY <1>3
<1>7. QED BY <1>1, <1>2, <1>5, <1>6 DEF RollToNewFile

(* A new file: its name is none of the old ones of its sink. *)
LEMMA NamesNew ==
  ASSUME FileInv, NEW s \in Sinks, RollToNewFile(s)
  PROVE  StreamsOK' /\ NamesOK'
<1>1. PICK n : n = CreateFilename(s)
  OBVIOUS
<1>2. /\ n.sink = flushs[s] /\ n.cnt = cnt[s] + 1
      /\ DOMAIN files' = DOMAIN files \union {n}
  BY <1>1, NewFileEffect DEF FileInv
<1>3. PICK r : r = [name |-> n, from |-> done]
  OBVIOUS
<1>4. /\ Kind(s) = "roll" /\ UNCHANGED config
      /\ cnt'[s] = cnt[s] + 1 /\ \A t \in Sinks : t # s => cnt'[t] = cnt[t]
      /\ \A t \in Sinks : cnt[t] \in Nat
  BY TypedParts DEF RollToNewFile, Flushing, FileInv
<1>5. /\ stream' = [stream EXCEPT ![s] = n]
      /\ \A t \in Sinks : t # s => opened'[t] = opened[t]
      /\ Len(opened'[s]) = Len(opened[s]) + 1 /\ opened'[s] # <<>>
      /\ opened'[s][Len(opened[s]) + 1] = r
      /\ \A i \in 1..Len(opened[s]) : opened'[s][i] = opened[s][i]
  BY <1>1, <1>3, NewOpened
<1>6. /\ Sinks' = Sinks /\ flushs' = flushs
      /\ \A t : Kind(t)' = Kind(t) /\ LogFile(t)' = LogFile(t)
  BY <1>4, SinksStay DEF LogFile
<1>7. /\ stream'[0] = stream[0] /\ stream'[s] = n
      /\ \A t \in Sinks : t # s => stream'[t] = stream[t]
  BY <1>5, TypedParts, FpsOfSinks DEF FileInv
<1>8. StreamsOK'
  BY <1>2, <1>3, <1>4, <1>5, <1>6, <1>7 DEF FileInv, StreamsOK
<1>9. \A t \in Sinks : \A i \in 1..Len(opened[t]) :
         opened[t][i].name.cnt \in Nat /\ Len(opened[t]) \in Nat
  BY OpenedTyped DEF FileInv
<1>10. Len(opened[s]) \in Nat
  BY OpenedTyped DEF FileInv
<1>11. ASSUME NEW i \in 1..Len(opened'[s])
       PROVE  /\ opened'[s][i].name.sink = flushs[s] /\ opened'[s][i].name.cnt <= cnt'[s]
              /\ \A j \in 1..Len(opened'[s]) : opened'[s][i].name = opened'[s][j].name => i = j
  <2>1. \A k \in 1..Len(opened'[s]) : k \in 1..Len(opened[s]) \/ k = Len(opened[s]) + 1
    BY <1>5, <1>10
  <2>2. opened'[s][Len(opened[s]) + 1].name = n
    BY <1>3, <1>5
  <2>3. \A k \in 1..Len(opened[s]) :
           /\ opened'[s][k].name.sink = flushs[s] /\ opened'[s][k].name.cnt \in Nat
           /\ opened'[s][k].name.cnt <= cnt[s]
           /\ opened'[s][k].name # n
           /\ \A j \in 1..Len(opened[s]) : opened'[s][k].name = opened'[s][j].name => k = j
    <3>1. ASSUME NEW k \in 1..Len(opened[s])
          PROVE  /\ opened[s][k].name.sink = flushs[s] /\ opened[s][k].name.cnt \in Nat
                 /\ opened[s][k].name.cnt <= cnt[s]
                 /\ opened[s][k].name # n
                 /\ \A j \in 1..Len(opened[s]) : opened[s][k].name = opened[s][j].name => k = j
      BY <1>2, <1>4, <1>9 DEF FileInv, NamesOK
    <3>2. QED BY <1>5, <3>1
  <2>4. QED BY <1>2, <1>4, <1>10, <2>1, <2>2, <2>3, SMTT(60)
<1>12. NamesOK'
  <2>1. ASSUME NEW t \in Sinks, t # s, NEW i \in 1..Len(opened'[t])
        PROVE  /\ opened'[t][i].name.sink = flushs[t] /\ opened'[t][i].name.cnt <= cnt'[t]
               /\ \A j \in 1..Len(opened'[t]) : opened'[t][i].name = opened'[t][j].name => i = j
    BY <1>4, <1>5, <2>1, SMTT(60) DEF FileInv, NamesOK
  <2>2. QED BY <1>6, <1>11, <2>1 DEF NamesOK
<1>13. QED BY <1>8, <1>12

(* Every step keeps types and names. *)
LEMMA FileInvStep ==
  ASSUME FileInv, Next PROVE FileInv' /\ StepOK
<1> USE DEF FileInv
<1>0. /\ \A s \in Sinks : cnt[s] \in {cnt[s], cnt[s] + 1} /\ stream[0] = Stdout
      /\ DOMAIN files \subseteq DOMAIN files
  BY DEF StreamsOK
<1>1. ASSUME NEW k \in 1..MaxBatch, RealFlush(k) PROVE FileInv' /\ StepOK
  <2>1. StepOK
    BY <1>1, RealFlushTyped
  <2>2. QED BY <1>0, <1>1, <2>1, NamesStay DEF RealFlush, StepOK
<1>2. ASSUME NEW s \in Sinks, StdoutWrite(s) PROVE FileInv' /\ StepOK
  BY <1>0, <1>2, StdoutTyped, NamesStay DEF StdoutWrite, StepOK
<1>3. ASSUME NEW s \in Sinks, FileWrite(s) PROVE FileInv' /\ StepOK
  BY <1>0, <1>3, FileTyped, NamesStay DEF FileWrite, StepOK
<1>4. ASSUME NEW s \in Sinks, RollWrite(s) PROVE FileInv' /\ StepOK
  BY <1>0, <1>4, RollTyped, NamesStay DEF RollWrite, StepOK
<1>5. ASSUME NEW s \in Sinks, RollToNewFile(s) PROVE FileInv' /\ StepOK
  BY <1>5, NewFileTyped, NamesNew DEF StepOK
<1>6. ASSUME NEW s \in Sinks, RollFails(s) PROVE FileInv' /\ StepOK
  <2>1. StepOK /\ DOMAIN files' = DOMAIN files
    BY <1>6, RollFailsTyped
  <2>2. \A t \in Sinks : cnt'[t] \in {cnt[t], cnt[t] + 1}
    BY <1>6, TypedParts DEF RollFails
  <2>3. QED BY <1>6, <2>1, <2>2, NamesStay DEF RollFails, StepOK
<1>7. ASSUME NEW s \in Sinks, FlushFile(s) PROVE FileInv' /\ StepOK
  BY <1>0, <1>7, FlushTyped, NamesStay DEF FlushFile, StepOK
<1>8. ASSUME NEW s \in Sinks, SyncFile(s) PROVE FileInv' /\ StepOK
  BY <1>0, <1>8, SyncTyped, NamesStay DEF SyncFile, StepOK
<1>9. CASE Tick
  BY <1>0, <1>9, TickTyped, NamesStay DEF Tick, StepOK
<1>10. CASE Exit
  BY <1>0, <1>10, ExitTyped, NamesStay DEF Exit, StepOK
<1>11. ASSUME NEW f \in Fps, Unload(f) PROVE FileInv' /\ StepOK
  BY <1>0, <1>11, UnloadTyped, NamesStay DEF Unload, StepOK
<1>12. CASE Kill \/ Exited
  <2>1. UNCHANGED <<config, stream, opened, cnt>>
    BY <1>12 DEF Kill, Exited, Ends
  <2>2. QED BY <1>0, <1>12, <2>1, KillTyped, NamesStay DEF StepOK
<1>13. CASE PowerLoss
  <2>1. UNCHANGED <<config, stream, opened, cnt>>
    BY <1>13 DEF PowerLoss, Ends
  <2>2. QED BY <1>0, <1>13, <2>1, PowerTyped, NamesStay DEF StepOK
<1>14. CASE Restart
  BY <1>14, RestartTyped DEF StepOK
<1>15. QED
  BY <1>1, <1>2, <1>3, <1>4, <1>5, <1>6, <1>7, <1>8, <1>9, <1>10, <1>11, <1>12, <1>13, <1>14
  DEF Next

(* The first process. *)
LEMMA FileInvInit == ASSUME Init PROVE FileInv
<1>1. PICK ok \in SUBSET FileSinks :
         /\ stream = Opened(ok)
         /\ files = Fopen([n \in {Stdout} |-> EmptyFile], LogFiles(ok))
  BY DEF Init
<1>2. PICK b \in Builds : flushs = Build(b)
  BY DEF Init
<1>3. flushs \in Seq(SinkType) /\ Len(flushs) \in Nat
  <2>1. b \in Seq(SinkType) /\ <<ToStdout>> \in Seq(SinkType)
    BY LogAssumption DEF SinkType
  <2>2. QED BY <1>2, <2>1 DEF Build
<1>4. PICK fsys : fsys = [n \in {Stdout} |-> EmptyFile]
  OBVIOUS
<1>5. FilesOK(fsys) /\ DOMAIN fsys = {Stdout}
  <2>1. Stdout \in NameType /\ EmptyFile \in FileType
    BY EmptySeq DEF Stdout, Name, NameType, SinkType, EmptyFile, FileType
  <2>2. QED BY <1>4, <2>1 DEF FilesOK
<1>6. LogFiles(ok) \subseteq NameType
  <2>1. ASSUME NEW s \in ok PROVE LogFile(s) \in NameType
    <3>1. flushs[s] \in SinkType
      BY <1>3, ElementOfSeq DEF FileSinks, Sinks
    <3>2. QED BY <3>1, EmptySeq DEF LogFile, Name, NameType
  <2>2. QED BY <2>1 DEF LogFiles
<1>7. FilesOK(files) /\ DOMAIN files = {Stdout} \union LogFiles(ok)
  BY <1>1, <1>4, <1>5, <1>6, FopenEffect
<1>8. stream \in [Fps -> DOMAIN files \union {NoFile}]
  <2>1. \A s \in ok : LogFile(s) \in DOMAIN files
    BY <1>7 DEF LogFiles
  <2>2. QED BY <1>1, <1>7, <2>1 DEF Opened
<1>9. stdio \in [Fps -> Seq(MessageType)]
  BY EmptySeq DEF Init
<1>10. now \in 1..Len(Clock)
  BY LogAssumption DEF Init
<1>11. /\ opened \in [Sinks -> Seq([name : DOMAIN files, from : 0..MaxMessages])]
       /\ \A s \in Sinks : opened[s] = <<>>
  <2>1. <<>> \in Seq([name : DOMAIN files, from : 0..MaxMessages])
    BY EmptySeq
  <2>2. QED BY <2>1 DEF Init
<1>12. TypeOK
  <2>1. at \in 0..Len(flushs)
    BY <1>3 DEF Init
  <2>2. QED
    BY <1>7, <1>8, <1>9, <1>10, <1>11, <2>1, LogAssumption DEF Init, TypeOK, FilesOK
<1>13. Typed
  BY <1>12, LogAssumption DEF Typed, Room, Init
<1>14. StreamsOK
  BY <1>1, <1>7, <1>11, <1>12, StreamsStart DEF StreamsOK
<1>15. NamesOK
  <2>1. \A s \in Sinks : 1..Len(opened[s]) = {}
    BY <1>11
  <2>2. QED BY <2>1 DEF NamesOK
<1>16. QED BY <1>13, <1>14, <1>15 DEF FileInv

(* A step that changes nothing. *)
LEMMA FileInvStutter ==
  ASSUME FileInv, UNCHANGED vars PROVE FileInv' /\ Sinks' = Sinks /\ Fps' = Fps
<1>1. /\ Sinks' = Sinks /\ Fps' = Fps /\ flushs' = flushs
      /\ \A s : Kind(s)' = Kind(s) /\ LogFile(s)' = LogFile(s)
  BY SinksStay DEF vars, LogFile
<1>2. Typed'
  BY <1>1 DEF FileInv, Typed, TypeOK, Room, vars, config
<1>3. QED BY <1>1, <1>2 DEF FileInv, StreamsOK, NamesOK, vars

(* Types and names are right in every reachable state. *)
LEMMA FileInvAlways == Spec => []FileInv
<1>1. FileInv /\ [Next]_vars => FileInv'
  BY FileInvStep, FileInvStutter
<1>2. QED BY <1>1, FileInvInit, PTL DEF Spec

(***************************************************************************)
(* Type correctness of LogFlush, for any sinks, modes and bounds.          *)
(***************************************************************************)
THEOREM TypeCorrect == Spec => []TypeOK
<1>1. FileInv => TypeOK
  BY DEF FileInv, Typed
<1>2. QED BY <1>1, FileInvAlways, PTL

(***************************************************************************)
(* Only a loss of power takes anything out of a file: every fopen is in    *)
(* mode "ab", so a process appends even to a file of an earlier one whose  *)
(* name it makes again, and so does a sink to the file of another one.     *)
(***************************************************************************)
THEOREM FilesOnlyGrow == Spec => NothingErased
<1>1. FileInv /\ [Next]_vars
        => [status' # "power" =>
               \A n \in DOMAIN files : /\ n \in DOMAIN files'
                                       /\ IsPrefix(files[n].data, files'[n].data)]_vars
  <2> SUFFICES ASSUME FileInv, Next, status' # "power"
               PROVE  \A n \in DOMAIN files : /\ n \in DOMAIN files'
                                              /\ IsPrefix(files[n].data, files'[n].data)
    OBVIOUS
  <2>1. QED BY FileInvStep DEF StepOK, Grows
<1>2. QED BY <1>1, FileInvAlways, PTL DEF Spec, NothingErased

(* No FILE is open on a file that a sink which is alone has left. *)
LEMMA RolledClosed ==
  ASSUME FileInv, NEW s \in Sinks, Alone(s), NEW i \in 1..(Len(opened[s]) - 1)
  PROVE  /\ opened[s][i].name \in DOMAIN files /\ opened[s][i + 1].from \in Nat
         /\ opened[s][i].name.sink = flushs[s]
         /\ opened[s][i].name.cnt \in Nat /\ opened[s][i].name.cnt <= cnt[s]
         /\ Kind(s) = "roll"
         /\ \A f \in Fps : stream[f] # opened[s][i].name
<1>1. /\ i \in 1..Len(opened[s]) /\ i + 1 \in 1..Len(opened[s])
      /\ Len(opened[s]) \in 1..Len(opened[s]) /\ i # Len(opened[s]) /\ opened[s] # <<>>
  BY OpenedTyped DEF FileInv
<1>2. PICK n : n = opened[s][i].name
  OBVIOUS
<1>3. /\ n \in DOMAIN files /\ n.sink = flushs[s] /\ n # opened[s][Len(opened[s])].name
      /\ n.cnt \in Nat /\ n.cnt <= cnt[s] /\ Kind(s) = "roll"
      /\ stream[s] = opened[s][Len(opened[s])].name /\ opened[s][i + 1].from \in Nat
  BY <1>1, <1>2, OpenedTyped DEF FileInv, NamesOK, StreamsOK
<1>4. \A f \in Fps : stream[f] # n
  <2>1. SUFFICES ASSUME NEW f \in Fps, stream[f] = n PROVE FALSE
    OBVIOUS
  <2>2. n # NoFile
    BY <1>3, TypedParts, NoFileIsNone DEF FileInv
  <2>3. f = s
    BY <1>3, <2>1, <2>2, AloneFile, KindTyped DEF FileInv, Typed
  <2>4. QED BY <1>3, <2>1, <2>3
<1>5. QED BY <1>1, <1>2, <1>3, <1>4

(* A name that is made now is none of the files a sink that is alone has. *)
LEMMA NewNameIsNew ==
  ASSUME FileInv, NEW s \in Sinks, Alone(s), NEW n, n.sink = flushs[s],
         n.cnt \in Nat, n.cnt <= cnt[s], NEW t \in Sinks
  PROVE  n # CreateFilename(t)
<1>1. CreateFilename(t).sink = flushs[t] /\ CreateFilename(t).cnt = cnt[t] + 1
  BY NameTyped DEF FileInv, Typed
<1>2. CASE t = s
  <2>1. cnt[s] \in Nat
    BY TypedParts DEF FileInv
  <2>2. QED BY <1>1, <1>2, <2>1
<1>3. CASE t # s
  BY <1>1, <1>3 DEF Alone
<1>4. QED BY <1>2, <1>3

(* The files from which a sink has rolled on are left alone. *)
LEMMA RolledAlone ==
  ASSUME FileInv, Next, NEW s \in Sinks, Alone(s), NEW i \in 1..(Len(opened[s]) - 1),
         Running, status' # "power"
  PROVE  files'[opened[s][i].name] = files[opened[s][i].name]
<1>1. PICK n : n = opened[s][i].name
  OBVIOUS
<1>2. /\ n \in DOMAIN files /\ \A f \in Fps : stream[f] # n
      /\ n.sink = flushs[s] /\ n.cnt \in Nat /\ n.cnt <= cnt[s]
  BY <1>1, RolledClosed
<1>3. \A t \in Sinks : n # CreateFilename(t)
  BY <1>2, NewNameIsNew
<1>4. QED BY <1>1, <1>2, <1>3, FileInvStep DEF StepOK, OnlyOpen

(***************************************************************************)
(* A process never writes again to a file from which a sink with a         *)
(* basename_ of its own has rolled on: the counter in the name makes the   *)
(* names of one sink different, and no other sink has its files open.      *)
(***************************************************************************)
THEOREM RolledFilesUntouched == Spec => RolledFilesStay
<1>1. FileInv /\ [Next]_vars
        => [\A s \in Sinks : Alone(s) =>
               \A i \in 1..Len(opened[s]) - 1 :
                   Running /\ status' # "power"
                      => files'[opened[s][i].name] = files[opened[s][i].name]]_vars
  BY RolledAlone
<1>2. QED BY <1>1, FileInvAlways, PTL DEF Spec, RolledFilesStay
-----------------------------------------------------------------------------
(* What the sinks have, while the process runs.                            *)

(* The messages sink p has been given, and those it has returned with.     *)
Received(p) == IF at > p \/ (at = p /\ step # "write") THEN done + batch ELSE done
Settled(p)  == IF at > p THEN done + batch ELSE done

(* Those it has written but not flushed, if it does flush. *)
Unflushed(p) == IF at = p /\ step = "flush" THEN batch ELSE 0

PlaceOK == /\ at # 0 => batch >= 1 /\ status = "up"
           /\ at = 0 => step = "write"
           /\ step # "write" => /\ Kind(at) # "stdout"
                                /\ Kind(at) = "file" => flushLog # 0
                                /\ stream[at] # NoFile
           /\ step = "sync" => flushLog = 2

(* A sink that calls fflush after every batch. *)
Flushes(p) == Kind(p) = "roll" \/ (Kind(p) = "file" /\ flushLog # 0)

(* The file a sink has open, and what waits in the buffer of its FILE. *)
Current(p)  == stream[Fp(p)]
Buffered(p) == stdio[Fp(p)]

(* Lists of messages with consecutive numbers. *)
Consec(ms, l, k) == \A i \in 1..Len(ms) : ms[i] = <<l, k + i>>

(* v and w, one behind the other, are the messages from b to r. *)
Sound(l, b, v, w, r) == /\ Consec(v, l, b)
                        /\ Consec(w, l, b + Len(v))
                        /\ b + Len(v) + Len(w) = r

(* One sink: it has all messages it was given, in order, first in its file *)
(* and then in the buffer, and as much of them on disk as it promises.     *)
SinkOK(p) ==
  /\ Sound(life, Before(p), OfThisLife(Current(p)), Buffered(p), Received(p))
  /\ Flushes(p) => Len(Buffered(p)) <= Unflushed(p)
  /\ flushLog = 2 /\ Flushes(p) /\ Settled(p) > Before(p)
       => files[Current(p)].synced + Before(p) >= Found(Current(p)) + Settled(p)

(* What a process found in a file stays; files it has not opened hold      *)
(* nothing else.                                                           *)
Unopened(n) == /\ \A f \in Fps : stream[f] # n
               /\ \A s \in Sinks : \A i \in 1..Len(opened[s]) : opened[s][i].name # n

FoundOK == /\ DOMAIN found \subseteq DOMAIN files
           /\ \A n \in DOMAIN files : /\ Found(n) <= Len(files[n].data)
                                      /\ Unopened(n) => Found(n) = Len(files[n].data)

SizeOK(max, size) == size < max + MaxBatch \/ size <= MaxBatch

(* The files a rolling sink has left: each goes on where the one before it *)
(* ends, is full, and is on disk if the sink calls fsync.                  *)
RolledOrder(p) ==
  /\ opened[p] # <<>> => opened[p][1].from = 0
  /\ \A k \in 1..(Len(opened[p]) - 1) :
        /\ InOrder(OfThisLife(opened[p][k].name), opened[p][k].from)
        /\ opened[p][k + 1].from = opened[p][k].from + Len(OfThisLife(opened[p][k].name))

RolledSizes(p) ==
  \A k \in 1..(Len(opened[p]) - 1) :
     /\ Len(OfThisLife(opened[p][k].name)) >= Limit(p)
     /\ SizeOK(Limit(p), Len(OfThisLife(opened[p][k].name)))

RolledSynced(p) ==
  flushLog = 2 => \A k \in 1..(Len(opened[p]) - 1) :
                     files[opened[p][k].name].synced = Len(files[opened[p][k].name].data)

(* The file it is writing to. *)
RollingOK(p) == opened[p] # <<>> =>
                   /\ cur[p] = Len(OfThisLife(Current(p))) + Len(Buffered(p))
                   /\ cur[p] > 0
                   /\ SizeOK(Limit(p), cur[p])

SinkUp(p) == SinkOK(p) /\ RolledOrder(p) /\ RolledSizes(p) /\ RolledSynced(p) /\ RollingOK(p)

(* A FILE that could not be opened has nothing. *)
NullEmpty == \A f \in Fps : stream[f] = NoFile => stdio[f] = <<>>

Up == /\ PlaceOK
      /\ NullEmpty
      /\ FoundOK
      /\ \A p \in Sinks : Alone(p) => SinkUp(p)

Down == \A f \in Fps : stdio[f] = <<>>

SinkInv == /\ FileInv
           /\ Running => Up
           /\ ~Running => Down
           /\ SinkInOrder /\ FlushedIsKept /\ RollSizes
-----------------------------------------------------------------------------
(* Lists of messages with consecutive numbers.                             *)

(* A list that goes on where another ends. *)
LEMMA ConsecJoin ==
  ASSUME NEW S, NEW a \in Seq(S), NEW b \in Seq(S), NEW l, NEW k \in Nat,
         Consec(a, l, k), Consec(b, l, k + Len(a))
  PROVE  Consec(a \o b, l, k)
<1>1. /\ Len(a \o b) = Len(a) + Len(b) /\ Len(a) \in Nat /\ Len(b) \in Nat
      /\ \A i \in 1..(Len(a) + Len(b)) :
            (a \o b)[i] = IF i <= Len(a) THEN a[i] ELSE b[i - Len(a)]
  BY ConcatProperties
<1>2. ASSUME NEW i \in 1..(Len(a) + Len(b)) PROVE (a \o b)[i] = <<l, k + i>>
  <2>1. CASE i <= Len(a)
    BY <1>1, <2>1 DEF Consec
  <2>2. CASE ~(i <= Len(a))
    <3>1. i - Len(a) \in 1..Len(b) /\ k + Len(a) + (i - Len(a)) = k + i
      BY <1>1, <2>2
    <3>2. b[i - Len(a)] = <<l, k + Len(a) + (i - Len(a))>>
      BY <3>1 DEF Consec
    <3>3. QED BY <1>1, <2>2, <3>1, <3>2
  <2>3. QED BY <2>1, <2>2
<1>3. QED BY <1>1, <1>2 DEF Consec

(* The two parts of such a list. *)
LEMMA ConsecCut ==
  ASSUME NEW S, NEW c \in Seq(S), NEW j \in Nat, j <= Len(c), NEW l, NEW k \in Nat,
         Consec(c, l, k)
  PROVE  /\ Len(SubSeq(c, 1, j)) = j /\ Len(SubSeq(c, j + 1, Len(c))) = Len(c) - j
         /\ Consec(SubSeq(c, 1, j), l, k)
         /\ Consec(SubSeq(c, j + 1, Len(c)), l, k + j)
<1>1. Len(c) \in Nat
  OBVIOUS
<1>2. /\ Len(SubSeq(c, 1, j)) = j
      /\ \A i \in 1..j : SubSeq(c, 1, j)[i] = c[i]
  BY <1>1
<1>3. /\ Len(SubSeq(c, j + 1, Len(c))) = Len(c) - j
      /\ \A i \in 1..(Len(c) - j) : SubSeq(c, j + 1, Len(c))[i] = c[j + i]
  BY <1>1
<1>4. Consec(SubSeq(c, 1, j), l, k)
  BY <1>1, <1>2 DEF Consec
<1>5. ASSUME NEW i \in 1..(Len(c) - j)
      PROVE  SubSeq(c, j + 1, Len(c))[i] = <<l, k + j + i>>
  <2>1. j + i \in 1..Len(c) /\ k + (j + i) = k + j + i
    BY <1>1
  <2>2. QED BY <1>3, <2>1 DEF Consec
<1>6. QED BY <1>2, <1>3, <1>4, <1>5 DEF Consec

(* What is behind the first f elements of a list. *)
LEMMA TailTyped ==
  ASSUME NEW S, NEW d \in Seq(S), NEW f \in Nat
  PROVE  /\ SubSeq(d, f + 1, Len(d)) \in Seq(S)
         /\ Len(SubSeq(d, f + 1, Len(d))) = IF f <= Len(d) THEN Len(d) - f ELSE 0
         /\ \A i \in 1..(Len(d) - f) : SubSeq(d, f + 1, Len(d))[i] = d[f + i]
<1>1. Len(d) \in Nat
  OBVIOUS
<1>2. \A i \in 1..Len(d) : d[i] \in S
  BY ElementOfSeq
<1>3. \A i \in (f + 1)..Len(d) : d[i] \in S
  BY <1>1, <1>2
<1>4. f + 1 \in Int /\ Len(d) \in Int
  BY <1>1
<1>5. SubSeq(d, f + 1, Len(d)) \in Seq(S)
  BY <1>3, <1>4, SubSeqProperties
<1>6. QED BY <1>1, <1>5

(* To append changes only the end of what is behind. *)
LEMMA TailOfAppend ==
  ASSUME NEW S, NEW d \in Seq(S), NEW ms \in Seq(S), NEW f \in Nat, f <= Len(d)
  PROVE  SubSeq(d \o ms, f + 1, Len(d \o ms)) = SubSeq(d, f + 1, Len(d)) \o ms
<1>1. PICK e : e = d \o ms
  OBVIOUS
<1>2. /\ e \in Seq(S) /\ Len(e) = Len(d) + Len(ms) /\ Len(d) \in Nat /\ Len(ms) \in Nat
      /\ \A i \in 1..(Len(d) + Len(ms)) :
            e[i] = IF i <= Len(d) THEN d[i] ELSE ms[i - Len(d)]
  BY <1>1, ConcatProperties
<1>3. PICK t : t = SubSeq(d, f + 1, Len(d))
  OBVIOUS
<1>4. /\ t \in Seq(S) /\ Len(t) = Len(d) - f
      /\ \A i \in 1..(Len(d) - f) : t[i] = d[f + i]
  BY <1>3, TailTyped
<1>5. PICK u : u = SubSeq(e, f + 1, Len(e))
  OBVIOUS
<1>6. /\ u \in Seq(S) /\ Len(u) = Len(e) - f
      /\ \A i \in 1..(Len(e) - f) : u[i] = e[f + i]
  <2>1. u \in Seq(S)
    BY <1>2, <1>5, TailTyped
  <2>2. Len(u) = IF f <= Len(e) THEN Len(e) - f ELSE 0
    BY <1>2, <1>5, TailTyped
  <2>3. \A i \in 1..(Len(e) - f) : u[i] = e[f + i]
    BY <1>2, <1>5, TailTyped
  <2>4. QED BY <1>2, <2>1, <2>2, <2>3
<1>7. /\ t \o ms \in Seq(S) /\ Len(t \o ms) = Len(t) + Len(ms)
      /\ \A i \in 1..(Len(t) + Len(ms)) :
            (t \o ms)[i] = IF i <= Len(t) THEN t[i] ELSE ms[i - Len(t)]
  BY <1>4, ConcatProperties
<1>8. ASSUME NEW i \in 1..Len(u) PROVE u[i] = (t \o ms)[i]
  <2>1. u[i] = e[f + i] /\ f + i \in 1..(Len(d) + Len(ms)) /\ i \in 1..(Len(t) + Len(ms))
    BY <1>2, <1>4, <1>6
  <2>2. CASE i <= Len(t)
    BY <1>2, <1>4, <1>7, <2>1, <2>2
  <2>3. CASE ~(i <= Len(t))
    <3>1. ~(f + i <= Len(d)) /\ f + i - Len(d) = i - Len(t)
      BY <1>2, <1>4, <2>3
    <3>2. QED BY <1>2, <1>7, <2>1, <2>3, <3>1, SMTT(60)
  <2>4. QED BY <2>2, <2>3
<1>9. Len(u) = Len(t \o ms)
  BY <1>2, <1>4, <1>6, <1>7
<1>10. u = t \o ms
  BY <1>6, <1>7, <1>8, <1>9, SeqEqual
<1>11. QED BY <1>1, <1>3, <1>5, <1>10, Zenon

(* What a process finds is a number. *)
LEMMA FoundTyped == ASSUME Typed PROVE \A n : Found(n) \in Nat
  BY DEF Typed, TypeOK, Found

(* What a file holds of this process. *)
LEMMA PartTyped ==
  ASSUME Typed, NEW n
  PROVE  /\ OfThisLife(n) \in Seq(MessageType) /\ Len(OfThisLife(n)) \in Nat
         /\ n \in DOMAIN files => Len(OfThisLife(n)) =
               IF Found(n) <= Len(files[n].data) THEN Len(files[n].data) - Found(n) ELSE 0
<1>1. CASE n \in DOMAIN files
  <2>1. files[n].data \in Seq(MessageType) /\ Found(n) \in Nat
    BY <1>1, TypedParts, FoundTyped DEF FilesOK, FileType
  <2>2. PICK d \in Seq(MessageType), f \in Nat : d = files[n].data /\ f = Found(n)
    BY <2>1
  <2>3. /\ SubSeq(d, f + 1, Len(d)) \in Seq(MessageType)
        /\ Len(SubSeq(d, f + 1, Len(d))) = IF f <= Len(d) THEN Len(d) - f ELSE 0
        /\ Len(d) \in Nat
    BY TailTyped
  <2>4. OfThisLife(n) = SubSeq(d, f + 1, Len(d))
    BY <1>1, <2>2 DEF OfThisLife
  <2>5. QED BY <2>2, <2>3, <2>4
<1>2. CASE n \notin DOMAIN files
  BY <1>2, EmptySeq DEF OfThisLife
<1>3. QED BY <1>1, <1>2

(* A step that appends to file n, or leaves it as it is. *)
LEMMA PartAppends ==
  ASSUME Typed, found' = found, NEW n \in DOMAIN files, n \in DOMAIN files',
         Found(n) <= Len(files[n].data), NEW ms \in Seq(MessageType),
         files'[n].data = files[n].data \o ms
  PROVE  /\ OfThisLife(n)' = OfThisLife(n) \o ms
         /\ Len(OfThisLife(n)') = Len(OfThisLife(n)) + Len(ms)
         /\ Found(n)' = Found(n) /\ Len(files'[n].data) = Len(files[n].data) + Len(ms)
<1>1. files[n].data \in Seq(MessageType) /\ Found(n) \in Nat
  BY TypedParts, FoundTyped DEF FilesOK, FileType
<1>2. Found(n)' = Found(n)
  BY DEF Found
<1>3. PICK d \in Seq(MessageType) : d = files[n].data
  BY <1>1
<1>4. OfThisLife(n)' = SubSeq(d \o ms, Found(n) + 1, Len(d \o ms))
  BY <1>2, <1>3 DEF OfThisLife
<1>5. OfThisLife(n) = SubSeq(d, Found(n) + 1, Len(d))
  BY <1>3 DEF OfThisLife
<1>6. SubSeq(d \o ms, Found(n) + 1, Len(d \o ms)) = SubSeq(d, Found(n) + 1, Len(d)) \o ms
  BY <1>1, <1>3, TailOfAppend
<1>7. OfThisLife(n)' = OfThisLife(n) \o ms
  BY <1>4, <1>5, <1>6, Zenon
<1>8. Len(OfThisLife(n) \o ms) = Len(OfThisLife(n)) + Len(ms)
  BY PartTyped, ConcatProperties
<1>9. Len(d \o ms) = Len(d) + Len(ms)
  BY ConcatProperties
<1>10. QED BY <1>2, <1>3, <1>7, <1>8, <1>9

(* A step that leaves the data of file n alone. *)
LEMMA PartStays ==
  ASSUME Typed, found' = found, NEW n,
         n \in DOMAIN files => n \in DOMAIN files' /\ files'[n].data = files[n].data,
         n \in DOMAIN files' => n \in DOMAIN files
  PROVE  OfThisLife(n)' = OfThisLife(n) /\ Found(n)' = Found(n)
  BY DEF OfThisLife, Found

(* A file that is opened: nothing in it is of this process. *)
LEMMA PartStarts ==
  ASSUME Typed, found' = found, NEW n, n \in DOMAIN files',
         DOMAIN found \subseteq DOMAIN files,
         NEW ms \in Seq(MessageType),
         files'[n].data = (IF n \in DOMAIN files THEN files[n].data ELSE <<>>) \o ms,
         n \in DOMAIN files => Found(n) = Len(files[n].data)
  PROVE  /\ OfThisLife(n)' = ms
         /\ Found(n)' = Found(n) /\ Len(files'[n].data) = Found(n) + Len(ms)
<1>1. Found(n)' = Found(n)
  BY DEF Found
<1>2. PICK d : d = IF n \in DOMAIN files THEN files[n].data ELSE <<>>
  OBVIOUS
<1>3. d \in Seq(MessageType) /\ Found(n) = Len(d) /\ Len(d) \in Nat
  <2>1. CASE n \in DOMAIN files
    BY <1>2, <2>1, TypedParts DEF FilesOK, FileType
  <2>2. CASE n \notin DOMAIN files
    <3>1. d = <<>> /\ Found(n) = 0
      BY <1>2, <2>2 DEF Found
    <3>2. QED BY <3>1, EmptySeq
  <2>3. QED BY <2>1, <2>2
<1>4. files'[n].data = d \o ms
  BY <1>2
<1>5. OfThisLife(n)' = SubSeq(d \o ms, Len(d) + 1, Len(d \o ms))
  BY <1>1, <1>3, <1>4 DEF OfThisLife
<1>6. SubSeq(d \o ms, Len(d) + 1, Len(d \o ms)) = SubSeq(d, Len(d) + 1, Len(d)) \o ms
  BY <1>3, TailOfAppend
<1>7. SubSeq(d, Len(d) + 1, Len(d)) = <<>>
  BY <1>3
<1>8. <<>> \o ms = ms
  BY ConcatEmptySeq
<1>9. Len(d \o ms) = Len(d) + Len(ms)
  BY <1>3, ConcatProperties
<1>10. QED BY <1>1, <1>3, <1>4, <1>5, <1>6, <1>7, <1>8, <1>9
-----------------------------------------------------------------------------
(* What the invariant says of the properties.                              *)

(* The file of a sink. *)
LEMMA CurrentTyped ==
  ASSUME FileInv, NEW p \in Sinks
  PROVE  /\ Current(p) \in DOMAIN files \union {NoFile} /\ Buffered(p) \in Seq(MessageType)
         /\ Current(p) # NoFile => Current(p).sink = flushs[p] /\ Current(p) \in DOMAIN files
         /\ opened[p] # <<>> => /\ Kind(p) = "roll" /\ Fp(p) = p
                                /\ Current(p) = opened[p][Len(opened[p])].name
                                /\ Len(opened[p]) \in 1..Len(opened[p])
         /\ Fp(p) \in Fps /\ Before(p) \in Nat
<1>1. Typed /\ TypeOK
  BY DEF FileInv, Typed
<1>2. Fp(p) \in Fps /\ Before(p) \in Nat
  BY <1>1, SinksTyped, OpenedTyped
<1>3. Current(p) \in DOMAIN files \union {NoFile} /\ Buffered(p) \in Seq(MessageType)
  BY <1>1, <1>2, TypedParts DEF Current, Buffered
<1>4. Current(p) # NoFile => Current(p).sink = flushs[p] /\ Current(p) \in DOMAIN files
  <2>1. CASE Kind(p) = "stdout"
    BY <1>1, <1>2, <2>1, KindTyped, StreamOfSink DEF Current
  <2>2. CASE Kind(p) # "stdout"
    <3>1. Fp(p) = p /\ p # 0
      BY <1>1, <2>2, KindTyped, SinksTyped
    <3>2. QED BY <1>2, <3>1, StreamOfSink DEF Current
  <2>3. QED BY <2>1, <2>2
<1>5. ASSUME opened[p] # <<>>
      PROVE  /\ Kind(p) = "roll" /\ Fp(p) = p /\ Current(p) = opened[p][Len(opened[p])].name
             /\ Len(opened[p]) \in 1..Len(opened[p])
  <2>1. Kind(p) = "roll" /\ stream[p] = opened[p][Len(opened[p])].name
    BY <1>5 DEF FileInv, StreamsOK
  <2>2. Fp(p) = p
    BY <1>1, <2>1, KindTyped
  <2>3. Len(opened[p]) \in 1..Len(opened[p])
    BY <1>1, <1>5, OpenedTyped
  <2>4. QED BY <2>1, <2>2, <2>3 DEF Current
<1>6. QED BY <1>2, <1>3, <1>4, <1>5

Ordered(p) == /\ InOrder(OfThisLife(Current(p)), Before(p))
              /\ InOrder(Buffered(p), Before(p) + Len(OfThisLife(Current(p))))

SinkOrder(p) ==
  LET o == opened[p]
  IN  /\ InOrder(Has(p), Before(p))
      /\ \A k \in 1..Len(o) : InOrder(OfThisLife(o[k].name), o[k].from)
      /\ \A k \in 1..Len(o) :
            o[k].from = IF k = 1 THEN 0
                        ELSE o[k - 1].from + Len(OfThisLife(o[k - 1].name))

(* Order in each file and buffer is order of the whole. *)
LEMMA OrderFrom ==
  FileInv => \A q \in Sinks : Ordered(q) /\ RolledOrder(q) => SinkOrder(q)
<1> SUFFICES ASSUME FileInv, NEW p \in Sinks, Ordered(p), RolledOrder(p) PROVE SinkOrder(p)
  OBVIOUS
<1>1. InOrder(Has(p), Before(p))
  <2>1. PICK v \in Seq(MessageType) : v = OfThisLife(Current(p))
    BY PartTyped DEF FileInv
  <2>2. PICK w \in Seq(MessageType) : w = Buffered(p)
    BY CurrentTyped
  <2>3. PICK b \in Nat : b = Before(p)
    BY CurrentTyped
  <2>4. Consec(v, life, b) /\ Consec(w, life, b + Len(v))
    BY <2>1, <2>2, <2>3 DEF Ordered, InOrder, Consec
  <2>5. Consec(v \o w, life, b)
    BY <2>4, ConsecJoin
  <2>6. Has(p) = v \o w
    BY <2>1, <2>2 DEF Has, Current, Buffered
  <2>7. QED BY <2>3, <2>5, <2>6 DEF InOrder, Consec
<1>2. Len(opened[p]) \in Nat
  BY OpenedTyped DEF FileInv
<1>3. ASSUME NEW k \in 1..Len(opened[p])
      PROVE  InOrder(OfThisLife(opened[p][k].name), opened[p][k].from)
  <2>1. CASE k < Len(opened[p])
    BY <1>2, <2>1 DEF RolledOrder
  <2>2. CASE k = Len(opened[p])
    <3>1. opened[p] # <<>>
      BY <1>2
    <3>2. Current(p) = opened[p][k].name
      BY <2>2, <3>1, CurrentTyped
    <3>3. Before(p) = opened[p][k].from
      BY <2>2, <3>1 DEF Before
    <3>4. QED BY <3>2, <3>3 DEF Ordered
  <2>3. QED BY <1>2, <2>1, <2>2
<1>4. ASSUME NEW k \in 1..Len(opened[p])
      PROVE  opened[p][k].from = IF k = 1 THEN 0
                ELSE opened[p][k - 1].from + Len(OfThisLife(opened[p][k - 1].name))
  <2>1. CASE k = 1
    <3>1. opened[p] # <<>>
      BY <1>2
    <3>2. QED BY <2>1, <3>1 DEF RolledOrder
  <2>2. CASE k # 1
    <3>1. k - 1 \in 1..(Len(opened[p]) - 1) /\ k - 1 + 1 = k
      BY <1>2, <2>2
    <3>2. opened[p][(k - 1) + 1].from
             = opened[p][k - 1].from + Len(OfThisLife(opened[p][k - 1].name))
      BY <3>1 DEF RolledOrder
    <3>3. QED BY <2>2, <3>1, <3>2
  <2>3. QED BY <2>1, <2>2
<1>5. QED BY <1>1, <1>3, <1>4 DEF SinkOrder

Sizes(p) == \A i \in 1..Len(opened[p]) :
               LET size == Len(OfThisLife(opened[p][i].name))
               IN  /\ i < Len(opened[p]) => size >= Limit(p)
                   /\ SizeOK(Limit(p), size)

(* The sizes of all files from those left and the present one. *)
LEMMA SizesFrom ==
  FileInv => \A q \in Sinks :
                /\ RolledSizes(q)
                /\ opened[q] # <<>> => SizeOK(Limit(q), Len(OfThisLife(Current(q))))
                => Sizes(q)
<1> SUFFICES ASSUME FileInv, NEW p \in Sinks, RolledSizes(p),
                    opened[p] # <<>> => SizeOK(Limit(p), Len(OfThisLife(Current(p))))
             PROVE  Sizes(p)
  OBVIOUS
<1>1. Len(opened[p]) \in Nat
  BY OpenedTyped DEF FileInv
<1>2. ASSUME NEW k \in 1..Len(opened[p])
      PROVE  /\ k < Len(opened[p]) => Len(OfThisLife(opened[p][k].name)) >= Limit(p)
             /\ SizeOK(Limit(p), Len(OfThisLife(opened[p][k].name)))
  <2>1. CASE k < Len(opened[p])
    BY <1>1, <2>1 DEF RolledSizes
  <2>2. CASE k = Len(opened[p])
    <3>1. opened[p] # <<>>
      BY <1>1
    <3>2. Current(p) = opened[p][k].name
      BY <2>2, <3>1, CurrentTyped
    <3>3. QED BY <1>1, <2>2, <3>1, <3>2
  <2>3. QED BY <1>1, <2>1, <2>2
<1>3. QED BY <1>2 DEF Sizes

(* A smaller file is within the bound, too. *)
LEMMA SmallerIsOK ==
  ASSUME NEW m \in Nat, NEW a \in Nat, NEW b \in Nat, a <= b, SizeOK(m, b) PROVE SizeOK(m, a)
  BY LogAssumption DEF SizeOK

(* Received and Settled in numbers. *)
LEMMA CountsTyped ==
  ASSUME Typed, NEW p \in Sinks
  PROVE  /\ Received(p) \in Nat /\ Settled(p) \in Nat
         /\ Received(p) >= done /\ Settled(p) >= done /\ Settled(p) <= Received(p)
         /\ Unflushed(p) \in Nat /\ Settled(p) + Unflushed(p) <= Received(p)
<1>1. done \in Nat /\ batch \in Nat /\ at \in Nat /\ p \in Nat
  BY TypedParts, SinksTyped DEF Typed
<1>2. QED BY <1>1 DEF Received, Settled, Unflushed

(* What a sink has, in numbers. *)
LEMMA EndSink ==
  ASSUME FileInv, NEW p \in Sinks, SinkUp(p)
  PROVE  \E b \in Nat, v \in Seq(MessageType), w \in Seq(MessageType) :
            /\ b = Before(p) /\ v = OfThisLife(Current(p)) /\ w = Buffered(p)
            /\ Consec(v, life, b) /\ Consec(w, life, b + Len(v))
            /\ b + Len(v) + Len(w) = Received(p)
            /\ Flushes(p) => b + Len(v) >= Settled(p)
            /\ Settled(p) >= done /\ Received(p) >= done
            /\ opened[p] # <<>> => /\ SizeOK(Limit(p), Len(v))
                                   /\ SizeOK(Limit(p), Len(v) + Len(w))
<1>1. PICK b \in Nat, v \in Seq(MessageType), w \in Seq(MessageType) :
         b = Before(p) /\ v = OfThisLife(Current(p)) /\ w = Buffered(p)
  BY CurrentTyped, PartTyped DEF FileInv
<1>2. PICK i \in Nat, j \in Nat : i = Len(v) /\ j = Len(w)
  BY LenProperties
<1>3. /\ Consec(v, life, b) /\ Consec(w, life, b + Len(v))
      /\ b + Len(v) + Len(w) = Received(p)
      /\ Flushes(p) => Len(w) <= Unflushed(p)
  BY <1>1 DEF SinkUp, SinkOK, Sound
<1>4. PICK r \in Nat, c \in Nat, u \in Nat, d \in Nat :
         /\ r = Received(p) /\ c = Settled(p) /\ u = Unflushed(p) /\ d = done
         /\ c + u <= r /\ c >= d /\ r >= d
  BY CountsTyped, TypedParts DEF FileInv
<1>5. b + i + j = r /\ (Flushes(p) => j <= u)
  BY <1>2, <1>3, <1>4
<1>6. Flushes(p) => b + i >= c
  <2>1. c + u <= r
    BY <1>4
  <2>2. QED BY <1>5, <2>1
<1>7. opened[p] # <<>> => SizeOK(Limit(p), i) /\ SizeOK(Limit(p), i + j)
  <2>1. SUFFICES ASSUME opened[p] # <<>> PROVE SizeOK(Limit(p), i) /\ SizeOK(Limit(p), i + j)
    OBVIOUS
  <2>2. cur[p] = Len(v) + Len(w) /\ SizeOK(Limit(p), cur[p])
    BY <1>1, <2>1 DEF SinkUp, RollingOK
  <2>3. i + j \in Nat /\ i <= i + j /\ SizeOK(Limit(p), i + j)
    BY <1>2, <2>2
  <2>4. Limit(p) \in Nat
    BY <2>1, CurrentTyped, KindTyped DEF FileInv, Typed
  <2>5. SizeOK(Limit(p), i)
    BY <2>3, <2>4, SmallerIsOK
  <2>6. QED BY <2>3, <2>5
<1>8. /\ Flushes(p) => b + Len(v) >= Settled(p)
      /\ Settled(p) >= done /\ Received(p) >= done
      /\ opened[p] # <<>> => SizeOK(Limit(p), Len(v)) /\ SizeOK(Limit(p), Len(v) + Len(w))
  BY <1>2, <1>4, <1>6, <1>7
<1>9. QED BY <1>1, <1>3, <1>8

Kept(p) == Before(p) + Len(Has(p)) >= done

(* The properties, sink by sink. *)
LEMMA PropertiesFrom ==
  /\ (\A p \in Sinks : Alone(p) => SinkOrder(p)) => SinkInOrder
  /\ (\A p \in Sinks : Alone(p) /\ Keeps(p) => Kept(p)) => FlushedIsKept
  /\ (\A p \in Sinks : Alone(p) => Sizes(p)) => RollSizes
<1>1. (\A p \in Sinks : Alone(p) => SinkOrder(p)) => SinkInOrder
  BY DEF SinkOrder, SinkInOrder
<1>2. (\A p \in Sinks : Alone(p) /\ Keeps(p) => Kept(p)) => FlushedIsKept
  BY DEF Kept, FlushedIsKept
<1>3. (\A p \in Sinks : Alone(p) => Sizes(p)) => RollSizes
  BY DEF Sizes, SizeOK, RollSizes
<1>4. QED BY <1>1, <1>2, <1>3

(* While the process runs, the invariant gives the properties. *)
LEMMA UpImplies ==
  ASSUME FileInv, Up PROVE SinkInOrder /\ FlushedIsKept /\ RollSizes
<1>1. ASSUME NEW p \in Sinks, Alone(p) PROVE SinkOrder(p) /\ Kept(p) /\ Sizes(p)
  <2>1. SinkUp(p)
    BY <1>1 DEF Up
  <2>2. PICK b \in Nat, v \in Seq(MessageType), w \in Seq(MessageType) :
            /\ b = Before(p) /\ v = OfThisLife(Current(p)) /\ w = Buffered(p)
            /\ Consec(v, life, b) /\ Consec(w, life, b + Len(v))
            /\ b + Len(v) + Len(w) = Received(p)
            /\ Received(p) >= done
            /\ opened[p] # <<>> => SizeOK(Limit(p), Len(v))
    BY <2>1, EndSink
  <2>3. Ordered(p)
    BY <2>2 DEF Ordered, InOrder, Consec
  <2>4. SinkOrder(p)
    BY <2>1, <2>3, OrderFrom DEF SinkUp
  <2>5. Sizes(p)
    BY <2>1, <2>2, SizesFrom DEF SinkUp
  <2>6. Kept(p)
    <3>1. Has(p) = v \o w
      BY <2>2 DEF Has, Current, Buffered
    <3>2. PICK i \in Nat, j \in Nat, r \in Nat, d \in Nat :
             i = Len(v) /\ j = Len(w) /\ r = Received(p) /\ d = done
      BY LenProperties, CountsTyped, TypedParts DEF FileInv
    <3>3. Len(Has(p)) = i + j
      BY <3>1, <3>2, ConcatProperties
    <3>4. b + i + j = r /\ r >= d
      BY <2>2, <3>2
    <3>5. b + (i + j) >= d
      BY <3>4
    <3>6. QED BY <2>2, <3>2, <3>3, <3>5 DEF Kept
  <2>7. QED BY <2>4, <2>5, <2>6
<1>2. QED BY <1>1, PropertiesFrom
-----------------------------------------------------------------------------
(* Steps of a process that runs.                                           *)

(* The first k elements of a list, and the others. *)
Split(all, k, x, y) == /\ k <= Len(all)
                       /\ x = SubSeq(all, 1, k)
                       /\ y = SubSeq(all, k + 1, Len(all))

(* What FILE f has in its buffer and in the batch, and what is appended to *)
(* file n.                                                                 *)
Given(f, all)  == all = stdio[f] \o Messages
Appended(n, x) == /\ files'[n].data = files[n].data \o x
                  /\ files'[n].synced = files[n].synced
Wrote(f, n)    == \E k \in Nat : \E all, x, y \in Seq(MessageType) :
                     /\ Given(f, all) /\ Split(all, k, x, y)
                     /\ Appended(n, x) /\ stdio'[f] = y

(* The files and buffers after fwrite on FILE f. *)
LEMMA WriteEffect ==
  ASSUME Typed, NEW f \in Fps, NEW n \in DOMAIN files, n # NoFile,
         Fwrite(f, files, n, stdio[f])
  PROVE  /\ FilesOK(files') /\ DOMAIN files' = DOMAIN files /\ Grows(files, files')
         /\ \A m \in DOMAIN files : m # n => files'[m] = files[m]
         /\ \A g \in Fps : g # f => stdio'[g] = stdio[g]
         /\ stdio'[f] \in Seq(MessageType)
         /\ Wrote(f, n)
<1>1. /\ FilesOK(files) /\ stdio[f] \in Seq(MessageType) /\ n \in DOMAIN files \union {NoFile}
      /\ stdio \in [Fps -> Seq(MessageType)]
  BY TypedParts
<1>2. PICK k \in Nat, all \in Seq(MessageType) :
         /\ all = stdio[f] \o Messages /\ k <= Len(all)
         /\ SubSeq(all, 1, k) \in Seq(MessageType)
         /\ SubSeq(all, k + 1, Len(all)) \in Seq(MessageType)
         /\ files' = Put(files, n, SubSeq(all, 1, k))
         /\ stdio' = [stdio EXCEPT ![f] = SubSeq(all, k + 1, Len(all))]
  <2>1. PICK w \in Seq(MessageType) : w = stdio[f]
    BY <1>1
  <2>2. Fwrite(f, files, n, w)
    BY <2>1, Zenon
  <2>3. \E k \in Nat, all \in Seq(MessageType) :
            /\ all = w \o Messages /\ k <= Len(all)
            /\ SubSeq(all, 1, k) \in Seq(MessageType)
            /\ SubSeq(all, k + 1, Len(all)) \in Seq(MessageType)
            /\ files' = Put(files, n, SubSeq(all, 1, k))
            /\ stdio' = [stdio EXCEPT ![f] = SubSeq(all, k + 1, Len(all))]
            /\ stdio' \in [Fps -> Seq(MessageType)]
    BY <1>1, <2>2, FwriteEffect, ZenonT(60)
  <2>4. QED BY <2>1, <2>3, Zenon
<1>3. PICK x \in Seq(MessageType), y \in Seq(MessageType) :
         x = SubSeq(all, 1, k) /\ y = SubSeq(all, k + 1, Len(all))
  BY <1>2
<1>4. Split(all, k, x, y) /\ Given(f, all)
  BY <1>2, <1>3 DEF Split, Given
<1>5. files' = Put(files, n, x) /\ stdio' = [stdio EXCEPT ![f] = y]
  BY <1>2, <1>3
<1>6. /\ FilesOK(files') /\ DOMAIN files' = DOMAIN files /\ Grows(files, files')
      /\ \A m \in DOMAIN files : m # n => files'[m] = files[m]
      /\ Appended(n, x)
  <2>1. LET g == Put(files, n, x)
        IN  /\ FilesOK(g) /\ DOMAIN g = DOMAIN files /\ Grows(files, g)
            /\ \A m \in DOMAIN files : m # n => g[m] = files[m]
            /\ n # NoFile => /\ g[n].data = files[n].data \o x
                             /\ g[n].synced = files[n].synced
    BY <1>1, PutEffect
  <2>2. QED BY <1>5, <2>1, Zenon DEF Appended
<1>7. stdio'[f] = y /\ \A g \in Fps : g # f => stdio'[g] = stdio[g]
  BY <1>1, <1>5
<1>8. Wrote(f, n)
  BY <1>4, <1>6, <1>7 DEF Wrote
<1>9. QED BY <1>6, <1>7, <1>8

(* What is buffered goes on to the file. *)
LEMMA SoundFlush ==
  ASSUME NEW v \in Seq(MessageType), NEW w \in Seq(MessageType),
         NEW l, NEW b \in Nat, NEW r, Sound(l, b, v, w, r)
  PROVE  Sound(l, b, v \o w, <<>>, r)
<1>1. Consec(v \o w, l, b)
  BY ConsecJoin DEF Sound
<1>2. PICK u \in Seq(MessageType), e \in Seq(MessageType) : u = v \o w /\ e = <<>>
  BY ConcatProperties, EmptySeq
<1>3. PICK c1 \in Nat, c2 \in Nat : c1 = Len(v) /\ c2 = Len(w)
  BY LenProperties
<1>4. Len(u) = c1 + c2 /\ Len(e) = 0
  BY <1>2, <1>3, ConcatProperties, EmptySeq
<1>5. b + c1 + c2 = r
  BY <1>3 DEF Sound
<1>6. b + Len(u) + Len(e) = r
  BY <1>4, <1>5
<1>7. Consec(u, l, b) /\ Consec(e, l, b + Len(u))
  <2>1. \A i \in 1..Len(e) : FALSE
    BY <1>4
  <2>2. Consec(e, l, b + Len(u))
    BY <2>1 DEF Consec
  <2>3. QED BY <1>1, <1>2, <2>2
<1>8. Sound(l, b, u, e, r)
  BY <1>6, <1>7 DEF Sound
<1>9. QED BY <1>2, <1>8

(* The messages of a batch are the next ones. *)
LEMMA BatchConsec == ASSUME Typed PROVE Consec(Messages, life, done)
  BY MessagesTyped DEF Consec

(* RealFlush goes on with the sink at place a. *)
LEMMA GoOnCounts ==
  ASSUME Typed, PlaceOK, NEW a \in Sinks, at = a, UNCHANGED config,
         NEW st \in {"next", "flush", "sync"}, GoOn(st)
  PROVE  /\ \A p \in Sinks : p # a =>
               /\ Received(p)' = Received(p) /\ Settled(p)' = Settled(p)
               /\ Unflushed(p)' = Unflushed(p)
         /\ Received(a)' = done + batch
         /\ Settled(a)' = IF st = "next" THEN done + batch ELSE done
         /\ Settled(a) = done
         /\ Received(a) = IF step = "write" THEN done ELSE done + batch
         /\ Unflushed(a)' = IF st = "flush" THEN batch ELSE 0
         /\ Unflushed(a) = IF step = "flush" THEN batch ELSE 0
<1>1. Len(flushs) \in Nat /\ at \in Nat /\ done \in Nat /\ batch \in Nat
  BY SinksTyped, TypedParts DEF Typed
<1>2. Sinks = 1..Len(flushs)
  BY DEF Sinks
<1>3. CASE st # "next"
  <2>1. step' = st /\ at' = at /\ done' = done /\ batch' = batch /\ st # "write"
    BY <1>3 DEF GoOn
  <2>2. QED BY <1>1, <1>2, <1>3, <2>1 DEF Received, Settled, Unflushed
<1>4. CASE st = "next" /\ at = Len(flushs)
  <2>1. step' = "write" /\ at' = 0 /\ done' = done + batch /\ batch' = 0
    BY <1>4 DEF GoOn
  <2>2. QED BY <1>1, <1>2, <1>4, <2>1 DEF Received, Settled, Unflushed
<1>5. CASE st = "next" /\ at # Len(flushs)
  <2>1. step' = "write" /\ at' = at + 1 /\ done' = done /\ batch' = batch
    BY <1>5 DEF GoOn
  <2>2. QED BY <1>1, <1>2, <1>5, <2>1 DEF Received, Settled, Unflushed
<1>6. QED BY <1>3, <1>4, <1>5

(* The place of RealFlush after that. *)
LEMMA GoOnPlace ==
  ASSUME Typed, PlaceOK, NEW a \in Sinks, at = a, UNCHANGED <<config, status>>,
         NEW st \in {"next", "flush", "sync"}, GoOn(st),
         st # "next" => /\ Kind(a) # "stdout"
                        /\ Kind(a) = "file" => flushLog # 0
                        /\ stream'[a] # NoFile,
         st = "sync" => flushLog = 2
  PROVE  PlaceOK'
<1>1. Len(flushs) \in Nat /\ at \in Nat /\ batch \in Nat /\ at # 0
  BY SinksTyped, TypedParts DEF Typed
<1>2. batch >= 1 /\ status = "up" /\ status' = "up"
  BY <1>1 DEF PlaceOK
<1>3. CASE st # "next"
  <2>1. step' = st /\ at' = a /\ batch' = batch /\ flushLog' = flushLog /\ Kind(a)' = Kind(a)
    BY <1>3, SinksStay DEF GoOn
  <2>2. QED BY <1>1, <1>2, <1>3, <2>1 DEF PlaceOK, Kind
<1>4. CASE st = "next" /\ at = Len(flushs)
  <2>1. step' = "write" /\ at' = 0
    BY <1>4 DEF GoOn
  <2>2. QED BY <2>1 DEF PlaceOK
<1>5. CASE st = "next" /\ at # Len(flushs)
  <2>1. step' = "write" /\ at' = at + 1 /\ batch' = batch
    BY <1>5 DEF GoOn
  <2>2. QED BY <1>1, <1>2, <2>1 DEF PlaceOK
<1>6. QED BY <1>3, <1>4, <1>5

(* What a step does to the sinks whose files it leaves alone. *)
SameCounts(p) == /\ Received(p)' = Received(p) /\ Settled(p)' = Settled(p)
                 /\ Unflushed(p)' = Unflushed(p)

SameFiles(p) == \A n \in DOMAIN files :
                   n.sink = flushs[p] => n \in DOMAIN files' /\ files'[n] = files[n]

(* The files that sink p has left, while others are written to. *)
LEMMA RolledRest ==
  ASSUME FileInv, NEW p \in Sinks, UNCHANGED <<config, life, found>>, opened'[p] = opened[p],
         \A i \in 1..(Len(opened[p]) - 1) :
            /\ opened[p][i].name \in DOMAIN files'
            /\ files'[opened[p][i].name] = files[opened[p][i].name]
  PROVE  /\ RolledOrder(p) => RolledOrder(p)'
         /\ RolledSizes(p) => RolledSizes(p)'
         /\ RolledSynced(p) => RolledSynced(p)'
<1>0. Len(opened[p]) \in Nat
  BY OpenedTyped DEF FileInv
<1>1. ASSUME NEW k \in 1..(Len(opened[p]) - 1)
      PROVE  OfThisLife(opened[p][k].name)' = OfThisLife(opened[p][k].name)
  <2>1. PICK n : n = opened[p][k].name
    OBVIOUS
  <2>2. k \in 1..Len(opened[p])
    BY <1>0
  <2>3. n \in DOMAIN files /\ n \in DOMAIN files' /\ files'[n] = files[n]
    BY <2>1, <2>2, OpenedTyped DEF FileInv
  <2>4. OfThisLife(n)' = OfThisLife(n)
    BY <2>3, PartStays DEF FileInv
  <2>5. OfThisLife(opened[p][k].name)' = OfThisLife(n)'
    BY <2>1 DEF OfThisLife, Found
  <2>6. QED BY <2>1, <2>4, <2>5
<1>2. RolledOrder(p) => RolledOrder(p)'
  BY <1>1, ZenonT(60) DEF RolledOrder, InOrder
<1>3. RolledSizes(p) => RolledSizes(p)'
  <2>1. Limit(p)' = Limit(p)
    BY SinksStay
  <2>2. QED BY <1>1, <2>1 DEF RolledSizes
<1>4. RolledSynced(p) => RolledSynced(p)'
  BY DEF RolledSynced, config
<1>5. QED BY <1>2, <1>3, <1>4

(* A sink that is not touched. *)
LEMMA SinkRests ==
  ASSUME FileInv, NEW p \in Sinks, SinkUp(p), UNCHANGED <<config, life, found>>,
         opened'[p] = opened[p], cur'[p] = cur[p], stream'[Fp(p)] = stream[Fp(p)],
         stdio'[Fp(p)] = stdio[Fp(p)], SameFiles(p), NoFile \notin DOMAIN files',
         SameCounts(p)
  PROVE  SinkUp(p)'
<1>1. PICK n \in DOMAIN files \union {NoFile} : n = Current(p)
  BY CurrentTyped
<1>2. NoFile \notin DOMAIN files
  BY TypedParts, NoFileIsNone DEF FileInv
<1>3. /\ n \in DOMAIN files => n \in DOMAIN files' /\ files'[n] = files[n]
      /\ n \in DOMAIN files' => n \in DOMAIN files
  BY <1>1, <1>2, CurrentTyped DEF SameFiles
<1>4. OfThisLife(n)' = OfThisLife(n) /\ Found(n)' = Found(n)
  BY <1>3, PartStays DEF FileInv
<1>5. /\ flushLog' = flushLog /\ life' = life /\ Limit(p)' = Limit(p) /\ Fp(p)' = Fp(p)
      /\ (Flushes(p)' <=> Flushes(p)) /\ Before(p)' = Before(p)
  BY SinksStay DEF Flushes, Before
<1>6. Current(p)' = n /\ Buffered(p)' = Buffered(p)
  BY <1>1, <1>5 DEF Current, Buffered
<1>7. OfThisLife(Current(p))' = OfThisLife(n) /\ Found(Current(p))' = Found(n)
  BY <1>4, <1>6 DEF OfThisLife, Found
<1>8. /\ Sound(life, Before(p), OfThisLife(n), Buffered(p), Received(p))
      /\ Flushes(p) => Len(Buffered(p)) <= Unflushed(p)
      /\ flushLog = 2 /\ Flushes(p) /\ Settled(p) > Before(p)
            => files[n].synced + Before(p) >= Found(n) + Settled(p)
  BY <1>1 DEF SinkUp, SinkOK
<1>9. ASSUME n = NoFile, Flushes(p) PROVE ~(Settled(p) > Before(p))
  <2>1. OfThisLife(n) = <<>>
    BY <1>2, <1>9 DEF OfThisLife
  <2>2. PICK b \in Nat, c \in Nat, w \in Seq(MessageType) :
           b = Before(p) /\ w = Buffered(p) /\ c = Len(w)
    BY CurrentTyped, LenProperties
  <2>3. PICK e : e = OfThisLife(n)
    OBVIOUS
  <2>4. Len(e) = 0
    BY <2>1, <2>3
  <2>5. b + Len(e) + c = Received(p) /\ c <= Unflushed(p)
    BY <1>8, <1>9, <2>2, <2>3 DEF Sound
  <2>6. QED BY <2>2, <2>4, <2>5, CountsTyped DEF FileInv
<1>10. flushLog = 2 /\ Flushes(p) /\ Settled(p)' > Before(p)
         => files'[n].synced + Before(p) >= Found(n) + Settled(p)'
  BY <1>3, <1>8, <1>9 DEF SameCounts
<1>11. SinkOK(p)'
  <2>1. Sound(life, Before(p), OfThisLife(Current(p)), Buffered(p), Received(p))'
    BY <1>5, <1>6, <1>7, <1>8 DEF SameCounts
  <2>2. (Flushes(p) => Len(Buffered(p)) <= Unflushed(p))'
    BY <1>5, <1>6, <1>8 DEF SameCounts
  <2>3. (flushLog = 2 /\ Flushes(p) /\ Settled(p) > Before(p)
            => files[Current(p)].synced + Before(p) >= Found(Current(p)) + Settled(p))'
    BY <1>5, <1>6, <1>7, <1>10
  <2>4. QED BY <2>1, <2>2, <2>3 DEF SinkOK
<1>12. RolledOrder(p)' /\ RolledSizes(p)' /\ RolledSynced(p)'
  <2>1. ASSUME NEW i \in 1..(Len(opened[p]) - 1)
        PROVE  /\ opened[p][i].name \in DOMAIN files'
               /\ files'[opened[p][i].name] = files[opened[p][i].name]
    <3>1. i \in 1..Len(opened[p])
      BY OpenedTyped DEF FileInv
    <3>2. opened[p][i].name \in DOMAIN files /\ opened[p][i].name.sink = flushs[p]
      BY <3>1, OpenedTyped DEF FileInv, NamesOK
    <3>3. QED BY <3>2 DEF SameFiles
  <2>2. QED BY <2>1, RolledRest DEF SinkUp
<1>13. RollingOK(p)'
  BY <1>1, <1>5, <1>6, <1>7 DEF SinkUp, RollingOK
<1>14. QED BY <1>11, <1>12, <1>13 DEF SinkUp

(* What was found, while files are appended to. *)
LEMMA FoundRests ==
  ASSUME FileInv, FoundOK, UNCHANGED found, FilesOK(files'), Grows(files, files'),
         \A n \in DOMAIN files' : Unopened(n)' => /\ n \in DOMAIN files /\ Unopened(n)
                                                  /\ files'[n] = files[n]
  PROVE  FoundOK'
<1>1. \A n : Found(n)' = Found(n) /\ Found(n) \in Nat
  BY FoundTyped DEF Found, FileInv
<1>2. \A n \in DOMAIN files' : Len(files'[n].data) \in Nat
  <2>1. \A n \in DOMAIN files' : files'[n].data \in Seq(MessageType)
    BY DEF FilesOK, FileType
  <2>2. QED BY <2>1, LenProperties
<1>3. ASSUME NEW n \in DOMAIN files' PROVE Found(n) <= Len(files'[n].data)
  <2>1. CASE n \in DOMAIN files
    <3>1. Found(n) <= Len(files[n].data)
      BY <2>1 DEF FoundOK
    <3>2. IsPrefix(files[n].data, files'[n].data)
      BY <2>1 DEF Grows
    <3>3. Len(files[n].data) <= Len(files'[n].data)
      BY <3>2 DEF IsPrefix
    <3>4. PICK c : c = Len(files[n].data)
      OBVIOUS
    <3>5. c \in Nat
      <4>1. files[n].data \in Seq(MessageType)
        BY <2>1, TypedParts DEF FileInv, FilesOK, FileType
      <4>2. QED BY <3>4, <4>1, LenProperties
    <3>6. QED BY <1>1, <1>2, <3>1, <3>3, <3>4, <3>5
  <2>2. CASE n \notin DOMAIN files
    <3>1. Found(n) = 0
      BY <2>2 DEF Found, FoundOK
    <3>2. QED BY <1>2, <3>1
  <2>3. QED BY <2>1, <2>2
<1>4. \A n \in DOMAIN files' : Unopened(n)' => Found(n) = Len(files'[n].data)
  BY DEF FoundOK
<1>5. DOMAIN found' \subseteq DOMAIN files'
  BY DEF FoundOK, Grows
<1>6. QED BY <1>1, <1>3, <1>4, <1>5 DEF FoundOK

(* The FILE of a sink that is alone is that of no other sink. *)
LEMMA FpsApart ==
  ASSUME TypeOK, NEW p \in Sinks, Alone(p), NEW a \in Sinks, a # p
  PROVE  Fp(p) # Fp(a)
<1>1. p # 0 /\ a # 0
  BY SinksTyped
<1>2. CASE Kind(p) = "stdout" /\ Kind(a) = "stdout"
  <2>1. flushs[p] = flushs[a]
    BY <1>2, KindTyped
  <2>2. QED BY <2>1 DEF Alone
<1>3. CASE ~(Kind(p) = "stdout" /\ Kind(a) = "stdout")
  BY <1>1, <1>3, KindTyped
<1>4. QED BY <1>2, <1>3

(* A step on FILE f and the file it is open on. *)
LEMMA FileStep ==
  ASSUME FileInv, Up, UNCHANGED <<config, life, found, opened, stream>>, NEW f \in Fps,
         DOMAIN files' = DOMAIN files, FilesOK(files'), Grows(files, files'),
         \A m \in DOMAIN files : m # stream[f] => files'[m] = files[m],
         \A g \in Fps : g # f => stdio'[g] = stdio[g],
         stream[f] # NoFile \/ stdio'[f] = <<>>,
         PlaceOK',
         \A p \in Sinks : Alone(p) /\ Fp(p) # f => SameCounts(p) /\ cur'[p] = cur[p],
         \A p \in Sinks : Alone(p) /\ Fp(p) = f => SinkUp(p)'
  PROVE  Up'
<1>1. NoFile \notin DOMAIN files' /\ NoFile \notin DOMAIN files
  BY TypedParts, NoFileIsNone DEF FileInv
<1>2. ASSUME NEW p \in Sinks, Alone(p), Fp(p) # f PROVE SinkUp(p)'
  <2>1. stream[f] # NoFile => stream[f].sink # flushs[p]
    BY <1>2, AloneFile
  <2>2. SameFiles(p)
    BY <1>1, <2>1 DEF SameFiles
  <2>3. Fp(p) \in Fps /\ SinkUp(p)
    BY <1>2, CurrentTyped DEF Up
  <2>4. QED BY <1>1, <1>2, <2>2, <2>3, SinkRests
<1>3. Sinks' = Sinks /\ Fps' = Fps /\ \A p : Alone(p)' <=> Alone(p)
  BY SinksStay
<1>4. \A p \in Sinks' : Alone(p)' => SinkUp(p)'
  BY <1>2, <1>3
<1>5. FoundOK'
  <2>1. ASSUME NEW n \in DOMAIN files', Unopened(n)'
        PROVE  n \in DOMAIN files /\ Unopened(n) /\ files'[n] = files[n]
    BY <1>3, <2>1 DEF Unopened
  <2>2. QED BY <2>1, FoundRests DEF Up
<1>6. NullEmpty'
  BY <1>3 DEF Up, NullEmpty
<1>7. QED BY <1>4, <1>5, <1>6 DEF Up

(* A step that leaves the sinks and their files alone. *)
LEMMA SinksRest ==
  ASSUME FileInv, Up,
         UNCHANGED <<config, life, files, stream, stdio, cur, opened, found>>, PlaceOK',
         \A p \in Sinks : SameCounts(p)
  PROVE  Up'
<1>1. NoFile \notin DOMAIN files /\ FilesOK(files) /\ Grows(files, files)
  BY TypedParts, NoFileIsNone, GrowsSelf DEF FileInv
<1>2. ASSUME NEW p \in Sinks, Alone(p) PROVE SinkUp(p)'
  BY <1>1, <1>2, SinkRests DEF Up, SameFiles
<1>3. Sinks' = Sinks /\ Fps' = Fps /\ \A p : Alone(p)' <=> Alone(p)
  BY SinksStay
<1>4. \A n : Found(n)' = Found(n) /\ (Unopened(n)' <=> Unopened(n))
  BY <1>3 DEF Found, Unopened
<1>5. FoundOK'
  BY <1>4 DEF Up, FoundOK
<1>6. NullEmpty'
  BY <1>3 DEF Up, NullEmpty
<1>7. QED BY <1>2, <1>3, <1>5, <1>6 DEF Up

(* RealFlush starts with a batch. *)
LEMMA RealFlushUp == ASSUME FileInv, Up, NEW k \in 1..MaxBatch, RealFlush(k) PROVE Up'
<1>1. /\ at = 0 /\ at' = 1 /\ batch' = k /\ status = "up"
      /\ UNCHANGED <<config, life, status, files, stream, stdio, cur, opened, found, step, done>>
  BY DEF RealFlush
<1>2. step = "write"
  BY <1>1 DEF Up, PlaceOK
<1>3. PlaceOK'
  BY <1>1, <1>2 DEF PlaceOK
<1>4. \A p \in Sinks : SameCounts(p)
  <2>1. Len(flushs) \in Nat
    BY SinksTyped DEF FileInv, Typed
  <2>2. QED BY <1>1, <1>2, <2>1 DEF Received, Settled, Unflushed, SameCounts, Sinks
<1>5. QED BY <1>1, <1>3, <1>4, SinksRest

(* The clock, and the beginning of exit(). *)
LEMMA TickUp ==
  ASSUME FileInv, Up, UNCHANGED <<config, life, files, stream, stdio, cur, opened, found, step,
                                  done, at, batch>>,
         status' = status \/ at = 0
  PROVE  Up'
<1>1. PlaceOK'
  BY DEF Up, PlaceOK, config, Kind
<1>2. \A p \in Sinks : SameCounts(p)
  BY DEF Received, Settled, Unflushed, SameCounts
<1>3. QED BY <1>1, <1>2, SinksRest

(* The parts of SinkOK that follow from an unchanged logger and FILE. *)
LEMMA SinkSame ==
  ASSUME UNCHANGED <<config, life, found, opened, stream>>, NEW a \in Sinks
  PROVE  /\ flushLog' = flushLog /\ life' = life /\ Current(a)' = Current(a)
         /\ Before(a)' = Before(a) /\ (Flushes(a)' <=> Flushes(a)) /\ Fp(a)' = Fp(a)
         /\ Buffered(a)' = stdio'[Fp(a)] /\ Limit(a)' = Limit(a) /\ opened'[a] = opened[a]
         /\ \A n : Found(n)' = Found(n)
         /\ \A n : n = Current(a) => /\ OfThisLife(Current(a))' = OfThisLife(n)'
                                     /\ Found(Current(a))' = Found(n)
<1>1. flushLog' = flushLog /\ Fp(a)' = Fp(a) /\ Kind(a)' = Kind(a) /\ Limit(a)' = Limit(a)
  BY SinksStay
<1>2. Current(a)' = Current(a) /\ Buffered(a)' = stdio'[Fp(a)]
  BY <1>1 DEF Current, Buffered
<1>3. QED BY <1>1, <1>2 DEF Before, Flushes, Found, OfThisLife

(* fwrite: the sink has the batch, in the buffer as far as not in the file. *)
LEMMA WriteSink ==
  ASSUME FileInv, FoundOK, NEW a \in Sinks, at = a, SinkOK(a), PlaceOK,
         step = "write", UNCHANGED <<config, life, found, opened, stream>>,
         NEW st \in {"next", "flush"}, GoOn(st), Flushes(a) => st = "flush",
         NEW n \in DOMAIN files, n = Current(a), n \in DOMAIN files',
         NEW f \in Fps, f = Fp(a), Wrote(f, n)
  PROVE  /\ SinkOK(a)'
         /\ Len(OfThisLife(n)') + Len(stdio'[f]) = Len(OfThisLife(n)) + Len(stdio[f]) + batch
         /\ Len(OfThisLife(n)') \in Nat
<1>0. Typed
  BY DEF FileInv
<1>1. PICK k \in Nat, all \in Seq(MessageType), x \in Seq(MessageType), y \in Seq(MessageType) :
         /\ Given(f, all) /\ Split(all, k, x, y)
         /\ Appended(n, x) /\ stdio'[f] = y
  BY DEF Wrote
<1>2. PICK v \in Seq(MessageType), w \in Seq(MessageType), ms \in Seq(MessageType) :
         v = OfThisLife(n) /\ w = stdio[f] /\ w = Buffered(a) /\ ms = Messages
  BY <1>0, PartTyped, TypedParts, MessagesTyped DEF Buffered
<1>3. PICK b \in Nat, d \in Nat, z \in Nat : b = Before(a) /\ d = done /\ z = batch
  BY <1>0, OpenedTyped, TypedParts
<1>4. Len(ms) = z /\ Consec(ms, life, d)
  BY <1>0, <1>2, <1>3, MessagesTyped, BatchConsec
<1>5. /\ Received(a)' = d + z /\ Received(a) = d
      /\ Settled(a)' = IF st = "next" THEN d + z ELSE d
      /\ Settled(a) = d /\ Unflushed(a)' = IF st = "flush" THEN z ELSE 0
      /\ Unflushed(a) = 0
  <2>1. st \in {"next", "flush", "sync"}
    OBVIOUS
  <2>2. QED BY <1>0, <1>3, <2>1, GoOnCounts
<1>6. /\ Sound(life, b, v, w, d)
      /\ Flushes(a) => Len(w) <= 0
      /\ flushLog = 2 /\ Flushes(a) /\ d > b => files[n].synced + b >= Found(n) + d
  BY <1>2, <1>3, <1>5 DEF SinkOK
<1>7. PICK u \in Seq(MessageType) : u = v \o x
  BY ConcatProperties
<1>8. /\ Sound(life, b, u, y, d + z)
      /\ Len(u) + Len(y) = Len(v) + Len(w) + z
      /\ Len(y) <= Len(w) + z
  <2>1. PICK c1 \in Nat, c2 \in Nat, c4 \in Nat, c5 \in Nat :
           c1 = Len(v) /\ c2 = Len(w) /\ c4 = Len(u) /\ c5 = Len(y)
    BY LenProperties
  <2>2. all = w \o ms /\ Len(all) = c2 + z
    BY <1>1, <1>2, <1>4, <2>1, ConcatProperties, ZenonT(60) DEF Given
  <2>3. PICK c \in Nat : c = b + c1
    OBVIOUS
  <2>4. Consec(v, life, b) /\ Consec(w, life, c) /\ c + c2 = d
    BY <1>6, <2>1, <2>3 DEF Sound
  <2>5. Consec(all, life, c)
    BY <1>4, <2>1, <2>2, <2>4, ConsecJoin
  <2>6. Len(x) = k /\ Len(y) = Len(all) - k /\ Consec(x, life, c) /\ Consec(y, life, c + k)
    <3>1. k <= Len(all)
      BY <1>1 DEF Split
    <3>2. /\ Len(SubSeq(all, 1, k)) = k /\ Len(SubSeq(all, k + 1, Len(all))) = Len(all) - k
          /\ Consec(SubSeq(all, 1, k), life, c)
          /\ Consec(SubSeq(all, k + 1, Len(all)), life, c + k)
      BY <2>5, <3>1, ConsecCut
    <3>3. QED BY <1>1, <3>2 DEF Split
  <2>7. Consec(u, life, b)
    BY <1>7, <2>1, <2>3, <2>4, <2>6, ConsecJoin
  <2>8. c4 = c1 + k /\ c5 = c2 + z - k
    <3>1. Len(u) = Len(v) + Len(x)
      BY <1>7, ConcatProperties
    <3>2. c4 = c1 + k
      BY <2>1, <2>6, <3>1
    <3>3. c5 = c2 + z - k
      BY <2>1, <2>2, <2>6
    <3>4. QED BY <3>2, <3>3
  <2>9. b + c4 = c + k /\ b + c4 + c5 = d + z /\ c4 + c5 = c1 + c2 + z /\ c5 <= c2 + z
    <3>1. b + c4 = c + k
      BY <2>3, <2>8
    <3>2. c4 + c5 = c1 + c2 + z
      BY <2>8
    <3>3. b + c4 + c5 = d + z
      BY <2>3, <2>4, <2>8
    <3>4. c5 <= c2 + z
      BY <2>8
    <3>5. QED BY <3>1, <3>2, <3>3, <3>4
  <2>10. Consec(y, life, b + c4)
    BY <2>6, <2>9
  <2>11. Sound(life, b, u, y, d + z)
    BY <2>1, <2>7, <2>9, <2>10 DEF Sound
  <2>12. QED BY <2>1, <2>9, <2>11
<1>9. Found(n) <= Len(files[n].data)
  BY DEF FoundOK
<1>10. OfThisLife(n)' = u /\ Found(n)' = Found(n)
  BY <1>0, <1>1, <1>2, <1>7, <1>9, PartAppends DEF Appended
<1>11. /\ flushLog' = flushLog /\ life' = life /\ Current(a)' = n /\ Buffered(a)' = y
       /\ Before(a)' = b /\ (Flushes(a)' <=> Flushes(a))
       /\ OfThisLife(Current(a))' = u /\ Found(Current(a))' = Found(n)
  BY <1>1, <1>3, <1>10, SinkSame
<1>12. Flushes(a) => Len(y) <= Unflushed(a)'
  <2>1. PICK i \in Nat, j \in Nat : i = Len(y) /\ j = Len(w)
    BY LenProperties
  <2>2. QED BY <1>5, <1>6, <1>8, <2>1
<1>13. flushLog = 2 /\ Flushes(a) /\ Settled(a)' > b
          => files'[n].synced + b >= Found(n) + Settled(a)'
  BY <1>1, <1>5, <1>6 DEF Appended
<1>14. Sound(life, b, u, y, Received(a)')
  BY <1>5, <1>8
<1>15. SinkOK(a)'
  BY <1>11, <1>12, <1>13, <1>14 DEF SinkOK
<1>16. Len(u) \in Nat
  BY LenProperties
<1>17. QED BY <1>1, <1>2, <1>3, <1>8, <1>10, <1>15, <1>16

(* fflush: it is all in the file. *)
LEMMA FlushSink ==
  ASSUME FileInv, FoundOK, NEW a \in Sinks, SinkOK(a),
         UNCHANGED <<config, life, found, opened, stream>>,
         Received(a)' = Received(a), Unflushed(a)' \in Nat,
         flushLog # 2 \/ Settled(a)' = Settled(a),
         NEW n \in DOMAIN files, n = Current(a), n \in DOMAIN files',
         NEW f \in Fps, f = Fp(a),
         files'[n].data = files[n].data \o stdio[f], files'[n].synced = files[n].synced,
         stdio'[f] = <<>>
  PROVE  /\ SinkOK(a)'
         /\ Len(OfThisLife(n)') = Len(OfThisLife(n)) + Len(stdio[f])
         /\ Len(OfThisLife(n)') \in Nat
<1>0. Typed
  BY DEF FileInv
<1>1. PICK v \in Seq(MessageType), w \in Seq(MessageType) :
         v = OfThisLife(n) /\ w = stdio[f] /\ w = Buffered(a)
  BY <1>0, PartTyped, TypedParts DEF Buffered
<1>2. PICK b \in Nat : b = Before(a)
  BY <1>0, OpenedTyped
<1>3. PICK r : r = Received(a)
  OBVIOUS
<1>4. /\ Sound(life, b, v, w, r)
      /\ flushLog = 2 /\ Flushes(a) /\ Settled(a) > b
            => files[n].synced + b >= Found(n) + Settled(a)
  BY <1>1, <1>2, <1>3 DEF SinkOK
<1>5. PICK u \in Seq(MessageType), e \in Seq(MessageType) : u = v \o w /\ e = <<>>
  BY ConcatProperties, EmptySeq
<1>6. Sound(life, b, u, e, r)
  BY <1>4, <1>5, SoundFlush
<1>7. Found(n) <= Len(files[n].data)
  BY DEF FoundOK
<1>8. OfThisLife(n)' = u /\ Found(n)' = Found(n) /\ Len(u) = Len(v) + Len(w)
  <2>1. files'[n].data = files[n].data \o w
    BY <1>1
  <2>2. OfThisLife(n)' = v \o w /\ Found(n)' = Found(n)
    BY <1>0, <1>1, <1>7, <2>1, PartAppends
  <2>3. QED BY <1>5, <2>2, ConcatProperties
<1>9. /\ flushLog' = flushLog /\ life' = life /\ Current(a)' = n /\ Buffered(a)' = e
      /\ Before(a)' = b /\ (Flushes(a)' <=> Flushes(a))
      /\ OfThisLife(Current(a))' = u /\ Found(Current(a))' = Found(n)
  BY <1>2, <1>5, <1>8, SinkSame
<1>10. Len(e) = 0
  BY <1>5
<1>11. Flushes(a) => Len(e) <= Unflushed(a)'
  BY <1>10
<1>12. flushLog = 2 /\ Flushes(a) /\ Settled(a)' > b
          => files'[n].synced + b >= Found(n) + Settled(a)'
  BY <1>4
<1>13. Sound(life, b, u, e, Received(a)')
  BY <1>3, <1>6
<1>14. SinkOK(a)'
  BY <1>9, <1>11, <1>12, <1>13 DEF SinkOK
<1>15. QED BY <1>1, <1>8, <1>14, LenProperties

(* fsync: and on disk. *)
LEMMA SyncSink ==
  ASSUME FileInv, FoundOK, NEW a \in Sinks, at = a, SinkOK(a), PlaceOK,
         step = "sync", UNCHANGED <<config, life, found, opened, stream, stdio>>,
         GoOn("next"),
         NEW n \in DOMAIN files, n = Current(a), n \in DOMAIN files',
         files'[n].data = files[n].data, files'[n].synced = Len(files[n].data)
  PROVE  SinkOK(a)' /\ OfThisLife(n)' = OfThisLife(n)
<1>0. Typed
  BY DEF FileInv
<1>1. PICK v \in Seq(MessageType), w \in Seq(MessageType) : v = OfThisLife(n) /\ w = Buffered(a)
  BY <1>0, PartTyped, CurrentTyped
<1>2. PICK b \in Nat, d \in Nat, z \in Nat : b = Before(a) /\ d = done /\ z = batch
  BY <1>0, OpenedTyped, TypedParts
<1>3. /\ Received(a)' = d + z /\ Received(a) = d + z
      /\ Settled(a)' = d + z /\ Unflushed(a)' = 0 /\ Unflushed(a) = 0
  <2>1. PICK st \in {"next", "flush", "sync"} : st = "next"
    OBVIOUS
  <2>2. GoOn(st)
    BY <2>1
  <2>3. QED BY <1>0, <1>2, <2>1, <2>2, GoOnCounts
<1>4. /\ Sound(life, b, v, w, d + z)
      /\ Flushes(a) => Len(w) <= 0
  BY <1>1, <1>2, <1>3 DEF SinkOK
<1>5. OfThisLife(n)' = v /\ Found(n)' = Found(n)
  <2>1. n \in DOMAIN files => n \in DOMAIN files' /\ files'[n].data = files[n].data
    OBVIOUS
  <2>2. QED BY <1>0, <1>1, <2>1, PartStays
<1>6. PICK f \in Nat, c \in Nat, i \in Nat, j \in Nat :
         f = Found(n) /\ c = Len(files[n].data) /\ i = Len(v) /\ j = Len(w)
  <2>1. files[n].data \in Seq(MessageType) /\ Found(n) \in Nat
    BY <1>0, TypedParts, FoundTyped DEF FilesOK, FileType
  <2>2. QED BY <2>1, LenProperties
<1>7. f <= c /\ i = c - f
  BY <1>0, <1>1, <1>6, PartTyped DEF FoundOK
<1>8. Flushes(a) => c + b >= f + (d + z)
  <2>1. b + i + j = d + z
    BY <1>4, <1>6 DEF Sound
  <2>2. Flushes(a) => j = 0
    BY <1>4, <1>6
  <2>3. QED BY <1>7, <2>1, <2>2, SMTT(60)
<1>9. /\ flushLog' = flushLog /\ life' = life /\ Current(a)' = n /\ Buffered(a)' = w
      /\ Before(a)' = b /\ (Flushes(a)' <=> Flushes(a))
      /\ OfThisLife(Current(a))' = v /\ Found(Current(a))' = f
  BY <1>1, <1>2, <1>5, <1>6, SinkSame DEF Buffered
<1>10. /\ Flushes(a) => Len(w) <= Unflushed(a)'
       /\ Flushes(a) => files'[n].synced + b >= f + Settled(a)'
       /\ Sound(life, b, v, w, Received(a)')
  BY <1>3, <1>4, <1>6, <1>8
<1>11. SinkOK(a)'
  BY <1>9, <1>10 DEF SinkOK
<1>12. QED BY <1>1, <1>5, <1>11

(* The files that were left, when a FILE of the process is used. *)
LEMMA RolledKept ==
  ASSUME FileInv, NEW p \in Sinks, Alone(p), SinkUp(p),
         UNCHANGED <<config, life, found, opened>>,
         DOMAIN files' = DOMAIN files, NEW f \in Fps,
         \A m \in DOMAIN files : m # stream[f] => files'[m] = files[m]
  PROVE  RolledOrder(p)' /\ RolledSizes(p)' /\ RolledSynced(p)'
<1>1. ASSUME NEW i \in 1..(Len(opened[p]) - 1)
      PROVE  /\ opened[p][i].name \in DOMAIN files'
             /\ files'[opened[p][i].name] = files[opened[p][i].name]
  BY RolledClosed
<1>2. QED BY <1>1, RolledRest DEF SinkUp

(* The sink at place a does something with the file its FILE is open on. *)
LEMMA ActiveStep ==
  ASSUME FileInv, Up, UNCHANGED <<config, life, found, opened, stream>>, NEW a \in Sinks,
         at = a, NEW f \in Fps, f = Fp(a), NEW st \in {"next", "flush", "sync"}, GoOn(st),
         DOMAIN files' = DOMAIN files, FilesOK(files'), Grows(files, files'),
         \A m \in DOMAIN files : m # stream[f] => files'[m] = files[m],
         \A g \in Fps : g # f => stdio'[g] = stdio[g],
         stream[f] # NoFile, PlaceOK',
         \A p \in Sinks : p # a => cur'[p] = cur[p],
         Alone(a) => SinkOK(a)' /\ RollingOK(a)'
  PROVE  Up'
<1>1. \A p \in Sinks : p # a => SameCounts(p)
  BY GoOnCounts DEF FileInv, Up, SameCounts
<1>2. \A p \in Sinks : Alone(p) /\ Fp(p) # f => SameCounts(p) /\ cur'[p] = cur[p]
  BY <1>1
<1>3. ASSUME NEW p \in Sinks, Alone(p), Fp(p) = f PROVE SinkUp(p)'
  <2>1. p = a
    BY <1>3, FpsApart DEF FileInv, Typed
  <2>2. SinkUp(p)
    BY <1>3 DEF Up
  <2>3. RolledOrder(p)' /\ RolledSizes(p)' /\ RolledSynced(p)'
    BY <1>3, <2>2, RolledKept
  <2>4. QED BY <1>3, <2>1, <2>3 DEF SinkUp
<1>4. QED BY <1>2, <1>3, FileStep

(* fwrite of sink a to the file it has open. *)
LEMMA WriteUp ==
  ASSUME FileInv, Up, NEW a \in Sinks, at = a, step = "write", NEW f \in Fps, f = Fp(a),
         NEW st \in {"next", "flush"},
         stream[f] # NoFile, Flushes(a) => st = "flush", st = "flush" => Flushes(a),
         Fwrite(f, files, stream[f], stdio[f]), GoOn(st),
         UNCHANGED <<config, life, status, stream, opened, found>>,
         \A p \in Sinks : p # a => cur'[p] = cur[p],
         Kind(a) = "roll" => cur[a] < Limit(a) /\ cur'[a] = cur[a] + batch
  PROVE  Up'
<1>1. PICK n \in DOMAIN files : n = stream[f] /\ n = Current(a) /\ n # NoFile
  BY StreamOfSink DEF Current
<1>2. Typed /\ stdio[f] \in Seq(MessageType)
  BY TypedParts DEF FileInv
<1>3. Fwrite(f, files, n, stdio[f])
  BY <1>1, Zenon
<1>4. /\ FilesOK(files') /\ DOMAIN files' = DOMAIN files /\ Grows(files, files')
      /\ \A m \in DOMAIN files : m # n => files'[m] = files[m]
      /\ \A g \in Fps : g # f => stdio'[g] = stdio[g]
      /\ stdio'[f] \in Seq(MessageType)
      /\ Wrote(f, n)
  BY <1>1, <1>2, <1>3, WriteEffect
<1>5. PICK y \in Seq(MessageType) : y = stdio'[f]
  BY <1>4
<1>6. FoundOK /\ PlaceOK
  BY DEF Up
<1>7. st \in {"next", "flush", "sync"}
  OBVIOUS
<1>8. PlaceOK'
  <2>1. st # "next" => /\ Kind(a) # "stdout"
                       /\ Kind(a) = "file" => flushLog # 0
                       /\ stream'[a] # NoFile
    <3>1. Kind(a) # "stdout" => Fp(a) = a
      BY KindTyped DEF FileInv, Typed
    <3>2. QED BY <3>1 DEF Flushes
  <2>2. QED BY <1>2, <1>6, <1>7, <2>1, GoOnPlace
<1>9. ASSUME Alone(a) PROVE SinkOK(a)' /\ RollingOK(a)'
  <2>1. SinkUp(a) /\ SinkOK(a)
    BY <1>9 DEF Up, SinkUp
  <2>2. /\ SinkOK(a)'
        /\ Len(OfThisLife(n)') + Len(y) = Len(OfThisLife(n)) + Len(stdio[f]) + batch
        /\ Len(OfThisLife(n)') \in Nat
    BY <1>1, <1>4, <1>5, <1>6, <2>1, WriteSink, ZenonT(60)
  <2>3. ASSUME opened[a] # <<>>
        PROVE  /\ cur'[a] = Len(OfThisLife(n)') + Len(y) /\ cur'[a] > 0
               /\ SizeOK(Limit(a), cur'[a])
    <3>1. PICK i \in Nat, j \in Nat : i = Len(OfThisLife(n)) /\ j = Len(stdio[f])
      BY <1>2, PartTyped, LenProperties
    <3>2. Kind(a) = "roll" /\ Limit(a) \in Nat
      BY <2>3, CurrentTyped, KindTyped DEF FileInv, Typed
    <3>3. cur[a] = i + j /\ cur[a] > 0
      BY <1>1, <2>1, <2>3, <3>1 DEF SinkUp, RollingOK, Buffered
    <3>4. PICK i1 \in Nat, j1 \in Nat : i1 = Len(OfThisLife(n)') /\ j1 = Len(y)
      BY <2>2, LenProperties
    <3>5. /\ i1 + j1 = i + j + batch /\ batch \in 0..MaxBatch
          /\ cur[a] < Limit(a) /\ cur'[a] = cur[a] + batch
      BY <1>2, <2>2, <3>1, <3>2, <3>4, TypedParts
    <3>6. cur'[a] = i1 + j1 /\ cur'[a] > 0 /\ cur'[a] < Limit(a) + MaxBatch
      BY <3>2, <3>3, <3>5, LogAssumption, SMTT(60)
    <3>7. QED BY <3>4, <3>6 DEF SizeOK
  <2>4. /\ OfThisLife(Current(a))' = OfThisLife(n)' /\ Buffered(a)' = y
        /\ opened'[a] = opened[a] /\ Limit(a)' = Limit(a)
    BY <1>1, <1>5, SinkSame
  <2>5. RollingOK(a)'
    BY <2>3, <2>4 DEF RollingOK
  <2>6. QED BY <2>2, <2>5
<1>10. QED
  BY <1>1, <1>4, <1>7, <1>8, <1>9, ActiveStep, ZenonT(60)

(* StdoutFlush writes. *)
LEMMA StdoutUp == ASSUME FileInv, Up, NEW a \in Sinks, StdoutWrite(a) PROVE Up'
<1>1. PICK f \in Fps, st \in {"next", "flush"} : f = 0 /\ f = Fp(a) /\ st = "next"
  BY FlushingSink DEF StdoutWrite, FileInv
<1>2. at = a /\ step = "write" /\ Kind(a) = "stdout"
  BY DEF StdoutWrite, Flushing
<1>3. stream[f] = Stdout /\ Stdout # NoFile
  BY <1>1 DEF FileInv, StreamsOK, Stdout, NoFile, Name, ToStdout
<1>4. /\ ~Flushes(a) /\ GoOn(st) /\ Fwrite(f, files, stream[f], stdio[f])
      /\ UNCHANGED <<config, life, status, stream, opened, found, cur>>
  BY <1>1, <1>2, <1>3, SMTT(60) DEF StdoutWrite, Flushes
<1>5. QED BY <1>1, <1>2, <1>3, <1>4, WriteUp

(* FileFlush writes. *)
LEMMA FileUp ==
  ASSUME FileInv, Up, NEW a \in Sinks, FileWrite(a), stream[a] # NoFile PROVE Up'
<1>1. PICK f \in Fps, st \in {"next", "flush"} :
         f = a /\ f = Fp(a) /\ st = IF flushLog = 0 THEN "next" ELSE "flush"
  BY FlushingSink DEF FileWrite, FileInv
<1>2. at = a /\ step = "write" /\ Kind(a) = "file"
  BY SMTT(60) DEF FileWrite, Flushing
<1>3. /\ GoOn(st) /\ stream[f] # NoFile /\ Fwrite(f, files, stream[f], stdio[f])
      /\ UNCHANGED <<config, life, status, stream, opened, found, cur>>
  BY <1>1, ZenonT(60) DEF FileWrite
<1>4. Flushes(a) <=> st = "flush"
  BY <1>1, <1>2, ZenonT(60) DEF Flushes
<1>5. QED BY <1>1, <1>2, <1>3, <1>4, WriteUp

(* RollFileFlush writes to the file it has. *)
LEMMA RollUp == ASSUME FileInv, Up, NEW a \in Sinks, RollWrite(a) PROVE Up'
<1>1. PICK f \in Fps, st \in {"next", "flush"} : f = a /\ f = Fp(a) /\ st = "flush"
  BY FlushingSink DEF RollWrite, FileInv
<1>2. at = a /\ step = "write" /\ Kind(a) = "roll"
  BY SMTT(60) DEF RollWrite, Flushing
<1>3. /\ GoOn(st) /\ stream[f] # NoFile /\ Fwrite(f, files, stream[f], stdio[f])
      /\ UNCHANGED <<config, life, status, stream, opened, found>>
      /\ ~(cur[a] >= Limit(a)) /\ cur' = [cur EXCEPT ![a] = @ + batch]
  BY <1>1 DEF RollWrite, MustRoll, SizeAfter
<1>4. /\ cur[a] < Limit(a) /\ cur'[a] = cur[a] + batch
      /\ \A p \in Sinks : p # a => cur'[p] = cur[p]
  <2>1. cur \in [Sinks -> Nat] /\ Limit(a) \in Nat
    BY <1>2, TypedParts, KindTyped DEF FileInv, Typed
  <2>2. cur[a] \in Nat
    BY <2>1
  <2>3. QED BY <1>3, <2>1, <2>2
<1>5. Flushes(a)
  BY <1>2 DEF Flushes
<1>6. QED BY <1>1, <1>2, <1>3, <1>4, <1>5, WriteUp

(* What fflush leaves of the sink a whose FILE it is: all it has is in the *)
(* file, and cur_size_ is still what it has there.                         *)
LEMMA FlushedSink ==
  ASSUME FileInv, Up, NEW a \in Sinks, Alone(a),
         UNCHANGED <<config, life, found, opened, stream>>, cur'[a] = cur[a],
         NEW f \in Fps, f = Fp(a), stream[f] # NoFile, Fflush(f),
         Received(a)' = Received(a), Unflushed(a)' \in Nat,
         flushLog # 2 \/ Settled(a)' = Settled(a)
  PROVE  SinkOK(a)' /\ RollingOK(a)'
<1>1. PICK n \in DOMAIN files : n = stream[f] /\ n = Current(a) /\ n # NoFile
  BY StreamOfSink DEF Current
<1>2. /\ DOMAIN files' = DOMAIN files
      /\ files'[n].data = files[n].data \o stdio[f] /\ files'[n].synced = files[n].synced
      /\ stdio' = [stdio EXCEPT ![f] = <<>>]
  BY <1>1, FflushEffect DEF FileInv
<1>3. Typed /\ FoundOK /\ SinkUp(a) /\ SinkOK(a)
  BY DEF FileInv, Up, SinkUp
<1>4. stdio'[f] = <<>> /\ stdio[f] \in Seq(MessageType)
  BY <1>2, <1>3, TypedParts
<1>5. /\ SinkOK(a)'
      /\ Len(OfThisLife(n)') = Len(OfThisLife(n)) + Len(stdio[f])
      /\ Len(OfThisLife(n)') \in Nat
  BY <1>1, <1>2, <1>3, <1>4, FlushSink, ZenonT(60)
<1>6. ASSUME opened[a] # <<>>
      PROVE  cur[a] = Len(OfThisLife(n)') + Len(stdio'[f])
  <2>1. PICK i \in Nat, j \in Nat : i = Len(OfThisLife(n)) /\ j = Len(stdio[f])
    BY <1>3, <1>4, PartTyped, LenProperties
  <2>2. cur[a] = i + j
    BY <1>1, <1>3, <1>6, <2>1 DEF SinkUp, RollingOK, Buffered
  <2>3. PICK e : e = stdio'[f]
    OBVIOUS
  <2>4. Len(e) = 0
    BY <1>4, <2>3
  <2>5. PICK i1 \in Nat : i1 = Len(OfThisLife(n)')
    BY <1>5
  <2>6. i1 = i + j /\ i1 + Len(e) = i + j
    BY <1>5, <2>1, <2>4, <2>5
  <2>7. QED BY <2>2, <2>3, <2>5, <2>6
<1>7. /\ OfThisLife(Current(a))' = OfThisLife(n)' /\ Buffered(a)' = stdio'[f]
      /\ opened'[a] = opened[a] /\ Limit(a)' = Limit(a)
  BY <1>1, SinkSame
<1>8. RollingOK(a)'
  BY <1>3, <1>6, <1>7, SMTT(60) DEF SinkUp, RollingOK
<1>9. QED BY <1>5, <1>8

(* A sink flushes. *)
LEMMA FlushUp == ASSUME FileInv, Up, NEW a \in Sinks, FlushFile(a) PROVE Up'
<1>1. PICK f \in Fps : f = a /\ f = Fp(a) /\ at = a /\ step = "flush"
  BY FlushingSink, SMTT(60) DEF FileInv, FlushFile
<1>2. Typed /\ PlaceOK /\ stream[f] # NoFile
  BY <1>1 DEF FileInv, Up, PlaceOK
<1>3. PICK st \in {"next", "flush", "sync"} : st = IF flushLog = 2 THEN "sync" ELSE "next"
  BY SMTT(60)
<1>4. /\ GoOn(st) /\ UNCHANGED <<config, life, status, stream, opened, found, cur>> /\ Fflush(f)
  BY <1>1, <1>3 DEF FlushFile
<1>5. /\ FilesOK(files') /\ DOMAIN files' = DOMAIN files /\ Grows(files, files')
      /\ \A m \in DOMAIN files : m # stream[f] => files'[m] = files[m]
      /\ stdio' = [stdio EXCEPT ![f] = <<>>]
  BY <1>2, <1>4, FflushEffect
<1>6. \A g \in Fps : g # f => stdio'[g] = stdio[g]
  BY <1>2, <1>5, TypedParts
<1>7. PlaceOK'
  <2>1. st # "next" => /\ Kind(a) # "stdout"
                       /\ Kind(a) = "file" => flushLog # 0
                       /\ stream'[a] # NoFile
    BY <1>1, <1>2, <1>4, ZenonT(60) DEF PlaceOK
  <2>2. QED BY <1>1, <1>2, <1>3, <1>4, <2>1, GoOnPlace
<1>8. ASSUME Alone(a) PROVE SinkOK(a)' /\ RollingOK(a)'
  <2>1. /\ Received(a)' = Received(a) /\ Unflushed(a)' \in Nat
        /\ flushLog # 2 \/ Settled(a)' = Settled(a)
    <3>1. /\ Received(a)' = done + batch /\ Received(a) = done + batch
          /\ Settled(a) = done /\ (st # "next" => Settled(a)' = done)
          /\ Unflushed(a)' = 0
      BY <1>1, <1>2, <1>3, <1>4, GoOnCounts, ZenonT(60)
    <3>2. QED BY <1>3, <3>1, SMTT(60)
  <2>2. QED BY <1>1, <1>2, <1>4, <1>8, <2>1, FlushedSink
<1>9. QED
  BY <1>1, <1>2, <1>4, <1>5, <1>6, <1>7, <1>8, ActiveStep

(* A sink syncs. *)
LEMMA SyncUp == ASSUME FileInv, Up, NEW a \in Sinks, SyncFile(a) PROVE Up'
<1>1. PICK f \in Fps : f = a /\ f = Fp(a) /\ at = a /\ step = "sync"
  BY FlushingSink, SMTT(60) DEF FileInv, SyncFile
<1>2. Typed /\ PlaceOK /\ FoundOK /\ stream[f] # NoFile
  BY <1>1, ZenonT(60) DEF FileInv, Up, PlaceOK
<1>3. PICK n \in DOMAIN files : n = stream[f] /\ n = Current(a) /\ n # NoFile
  BY <1>1, <1>2, StreamOfSink DEF Current
<1>4. PICK st \in {"next", "flush", "sync"} : st = "next"
  BY SMTT(60)
<1>5. /\ GoOn(st) /\ GoOn("next") /\ Fsync(f)
      /\ UNCHANGED <<config, life, status, stream, opened, found, cur, stdio>>
  BY <1>1, <1>4 DEF SyncFile
<1>6. /\ FilesOK(files') /\ DOMAIN files' = DOMAIN files
      /\ \A m \in DOMAIN files : files'[m].data = files[m].data
      /\ \A m \in DOMAIN files : m # n => files'[m] = files[m]
      /\ files'[n].data = files[n].data /\ files'[n].synced = Len(files[n].data)
  BY <1>2, <1>3, <1>5, FsyncEffect
<1>7. Grows(files, files')
  BY <1>2, <1>6, TypedParts, GrowsSelf DEF Grows
<1>8. PlaceOK'
  BY <1>1, <1>2, <1>4, <1>5, GoOnPlace
<1>9. ASSUME Alone(a) PROVE SinkOK(a)' /\ RollingOK(a)'
  <2>1. SinkUp(a) /\ SinkOK(a)
    BY <1>9, SMTT(60) DEF Up, SinkUp
  <2>2. SinkOK(a)' /\ OfThisLife(n)' = OfThisLife(n)
    BY <1>1, <1>2, <1>3, <1>5, <1>6, <2>1, SyncSink
  <2>3. /\ OfThisLife(Current(a))' = OfThisLife(n)' /\ Buffered(a)' = Buffered(a)
        /\ opened'[a] = opened[a] /\ Limit(a)' = Limit(a)
    BY <1>3, <1>5, SinkSame DEF Buffered
  <2>4. RollingOK(a)'
    BY <1>3, <1>5, <2>1, <2>2, <2>3 DEF SinkUp, RollingOK
  <2>5. QED BY <2>2, <2>4
<1>10. QED
  BY <1>1, <1>2, <1>3, <1>4, <1>5, <1>6, <1>7, <1>8, <1>9, ActiveStep

(* exit() passes on what is in the buffer of FILE f. *)
LEMMA UnloadUp == ASSUME FileInv, Up, NEW f \in Fps, Unload(f) PROVE Up'
<1>1. /\ Fflush(f) /\ status = "exiting"
      /\ UNCHANGED <<config, life, status, stream, opened, found, cur, batch, at, step, done>>
  BY DEF Unload
<1>2. Typed /\ PlaceOK
  BY DEF FileInv, Up
<1>3. /\ FilesOK(files') /\ DOMAIN files' = DOMAIN files /\ Grows(files, files')
      /\ \A m \in DOMAIN files : m # stream[f] => files'[m] = files[m]
      /\ stdio' = [stdio EXCEPT ![f] = <<>>]
  BY <1>1, <1>2, FflushEffect
<1>4. stdio'[f] = <<>> /\ \A g \in Fps : g # f => stdio'[g] = stdio[g]
  BY <1>2, <1>3, TypedParts
<1>5. PlaceOK'
  BY <1>1, <1>2 DEF PlaceOK, config, Kind
<1>6. \A p \in Sinks : SameCounts(p) /\ cur'[p] = cur[p]
  BY <1>1 DEF Received, Settled, Unflushed, SameCounts
<1>7. stream[f] # NoFile
  BY DEF Unload, Up, NullEmpty
<1>8. ASSUME NEW p \in Sinks, Alone(p), Fp(p) = f PROVE SinkUp(p)'
  <2>1. SinkUp(p)
    BY <1>8 DEF Up
  <2>2. RolledOrder(p)' /\ RolledSizes(p)' /\ RolledSynced(p)'
    BY <1>1, <1>3, <1>8, <2>1, RolledKept
  <2>3. Unflushed(p)' \in Nat
    BY <1>2, <1>6, CountsTyped DEF SameCounts
  <2>4. SinkOK(p)' /\ RollingOK(p)'
    BY <1>1, <1>6, <1>7, <1>8, <2>3, FlushedSink DEF SameCounts
  <2>5. QED BY <2>2, <2>4 DEF SinkUp
<1>9. QED BY <1>1, <1>3, <1>4, <1>5, <1>6, <1>7, <1>8, FileStep

(* fclose of a FILE with nothing in its buffer. *)
LEMMA CloseEmpty ==
  ASSUME Typed, NEW f \in Fps, stdio[f] = <<>>
  PROVE  \A m \in DOMAIN files : Fclose(f)[m] = files[m]
<1>1. PICK g : g = Fclose(f)
  OBVIOUS
<1>2. /\ FilesOK(g) /\ DOMAIN g = DOMAIN files
      /\ \A m \in DOMAIN files : m # stream[f] => g[m] = files[m]
      /\ stream[f] # NoFile => /\ g[stream[f]].data = files[stream[f]].data \o stdio[f]
                               /\ g[stream[f]].synced = files[stream[f]].synced
  BY <1>1, FcloseEffect
<1>3. ASSUME NEW m \in DOMAIN files, m = stream[f] PROVE g[m] = files[m]
  <2>1. /\ g[m] \in [data : Seq(MessageType), synced : Nat]
        /\ files[m] \in [data : Seq(MessageType), synced : Nat] /\ m # NoFile
    <3>1. g[m] \in FileType /\ files[m] \in FileType
      BY <1>2, TypedParts DEF FilesOK
    <3>2. m # NoFile
      BY TypedParts, NoFileIsNone
    <3>3. QED BY <3>1, <3>2 DEF FileType
  <2>2. g[m].data = files[m].data \o <<>> /\ g[m].synced = files[m].synced
    BY <1>2, <1>3, <2>1
  <2>3. files[m].data \o <<>> = files[m].data
    BY <2>1, ConcatEmptySeq
  <2>4. QED BY <2>1, <2>2, <2>3
<1>4. QED BY <1>1, <1>2, <1>3

(* Rolling sink s goes on with file n: x is in it and y in the buffer. *)
NewFile(s, n, x, y) ==
  /\ n # NoFile /\ Unopened(n) /\ n \in DOMAIN files'
  /\ \A m \in DOMAIN files : m # n => m \in DOMAIN files' /\ files'[m] = files[m]
  /\ files'[n].data = (IF n \in DOMAIN files THEN files[n].data ELSE <<>>) \o x
  /\ stream'[s] = n /\ stdio'[s] = y
  /\ Consec(x, life, done) /\ Consec(y, life, done + Len(x)) /\ Len(x) + Len(y) = batch

(* The counter makes a name this process has not opened. *)
LEMMA NewNameUnopened ==
  ASSUME FileInv, NEW s \in Sinks, Alone(s), Kind(s) = "roll",
         NEW n, n.sink = flushs[s], n.cnt = cnt[s] + 1, n # NoFile
  PROVE  Unopened(n)
<1>1. cnt[s] \in Nat /\ Fp(s) = s
  BY TypedParts, KindTyped DEF FileInv, Typed
<1>2. \A i \in 1..Len(opened[s]) : opened[s][i].name # n
  <2>1. ASSUME NEW i \in 1..Len(opened[s]), opened[s][i].name = n PROVE FALSE
    <3>1. n.cnt <= cnt[s]
      BY <2>1 DEF FileInv, NamesOK
    <3>2. QED BY <1>1, <3>1
  <2>2. QED BY <2>1
<1>3. ASSUME NEW t \in Sinks, NEW i \in 1..Len(opened[t]), opened[t][i].name = n PROVE FALSE
  <2>1. flushs[t] = flushs[s]
    BY <1>3 DEF FileInv, NamesOK
  <2>2. t = s
    BY <2>1 DEF Alone
  <2>3. QED BY <1>2, <1>3, <2>2
<1>4. ASSUME NEW f \in Fps, stream[f] = n PROVE FALSE
  <2>1. f = s
    BY <1>1, <1>4, AloneFile
  <2>2. opened[s] # <<>> /\ stream[s] = opened[s][Len(opened[s])].name
    BY <1>4, <2>1 DEF FileInv, StreamsOK
  <2>3. Len(opened[s]) \in 1..Len(opened[s])
    BY <2>2, OpenedTyped DEF FileInv
  <2>4. QED BY <1>2, <1>4, <2>1, <2>2, <2>3
<1>5. QED BY <1>3, <1>4 DEF Unopened

(* When a rolling sink writes, nothing is left in its buffer. *)
LEMMA RollerFlushed ==
  ASSUME FileInv, Up, NEW s \in Sinks, Alone(s), Flushing(s, "roll", "write")
  PROVE  /\ at = s /\ s \in Fps /\ Fp(s) = s /\ stdio[s] = <<>> /\ Kind(s) = "roll"
         /\ Received(s) = done /\ Settled(s) = done /\ SinkUp(s) /\ batch >= 1
<1>1. /\ at = s /\ s \in Fps /\ Fp(s) = s /\ step = "write" /\ Kind(s) = "roll"
      /\ s \in Nat /\ s # 0
  BY FlushingSink, SinksTyped DEF FileInv, Typed
<1>2. Received(s) = done /\ Settled(s) = done /\ Unflushed(s) = 0
  BY <1>1 DEF Received, Settled, Unflushed
<1>3. SinkUp(s) /\ batch >= 1
  BY <1>1 DEF Up, PlaceOK
<1>4. PICK w \in Seq(MessageType) : w = stdio[s] /\ w = Buffered(s)
  BY <1>1, TypedParts DEF FileInv, Buffered
<1>5. Len(w) <= 0
  BY <1>1, <1>2, <1>3, <1>4 DEF SinkUp, SinkOK, Flushes
<1>6. w = <<>>
  BY <1>5
<1>7. QED BY <1>1, <1>2, <1>3, <1>4, <1>6

(* RollToNewFile is such a step. *)
LEMMA NewFileStep ==
  ASSUME FileInv, Up, NEW s \in Sinks, Alone(s), RollToNewFile(s)
  PROVE  \E x, y \in Seq(MessageType) : NewFile(s, CreateFilename(s), x, y)
<1>1. s \in Fps /\ stdio[s] = <<>> /\ Kind(s) = "roll"
  BY RollerFlushed DEF RollToNewFile
<1>2. PICK n : n = CreateFilename(s)
  OBVIOUS
<1>3. PICK g : g = Fclose(s)
  OBVIOUS
<1>4. \A m \in DOMAIN files : g[m] = files[m]
  BY <1>1, <1>3, CloseEmpty DEF FileInv
<1>5. /\ n.sink = flushs[s] /\ n.cnt = cnt[s] + 1 /\ n # NoFile
      /\ DOMAIN files' = DOMAIN files \union {n}
      /\ \A m \in DOMAIN files : m # n => files'[m] = g[m]
      /\ Begun(s, n, g)
  BY <1>2, <1>3, NewFileEffect DEF FileInv
<1>6. PICK k \in Nat, all \in Seq(MessageType) :
            /\ all = Messages /\ k <= Len(all)
            /\ SubSeq(all, 1, k) \in Seq(MessageType)
            /\ SubSeq(all, k + 1, Len(all)) \in Seq(MessageType)
            /\ stdio' = [stdio EXCEPT ![s] = SubSeq(all, k + 1, Len(all))]
            /\ files'[n].data = (IF n \in DOMAIN files THEN g[n].data ELSE <<>>)
                                   \o SubSeq(all, 1, k)
  BY <1>5 DEF Begun
<1>7. PICK x \in Seq(MessageType), y \in Seq(MessageType) :
         x = SubSeq(all, 1, k) /\ y = SubSeq(all, k + 1, Len(all))
  BY <1>6
<1>8. /\ Consec(x, life, done) /\ Consec(y, life, done + Len(x)) /\ Len(x) + Len(y) = batch
  <2>1. Consec(all, life, done) /\ Len(all) = batch /\ done \in Nat
    BY <1>6, BatchConsec, MessagesTyped, TypedParts DEF FileInv
  <2>2. /\ Len(SubSeq(all, 1, k)) = k /\ Len(SubSeq(all, k + 1, Len(all))) = Len(all) - k
        /\ Consec(SubSeq(all, 1, k), life, done)
        /\ Consec(SubSeq(all, k + 1, Len(all)), life, done + k)
    BY <1>6, <2>1, ConsecCut
  <2>3. Len(x) = k /\ Len(y) = batch - k /\ Consec(x, life, done) /\ Consec(y, life, done + k)
    BY <1>7, <2>1, <2>2
  <2>4. batch \in Nat
    BY TypedParts DEF FileInv
  <2>5. QED BY <2>3, <2>4
<1>9. files'[n].data = (IF n \in DOMAIN files THEN files[n].data ELSE <<>>) \o x
  BY <1>4, <1>6, <1>7
<1>10. stdio'[s] = y /\ stream'[s] = n
  <2>1. stdio' = [stdio EXCEPT ![s] = y]
    BY <1>6, <1>7
  <2>2. stream' = [stream EXCEPT ![s] = n]
    BY <1>2 DEF RollToNewFile
  <2>3. QED BY <1>1, <2>1, <2>2, TypedParts DEF FileInv
<1>11. Unopened(n)
  BY <1>1, <1>5, NewNameUnopened
<1>12. NewFile(s, n, x, y)
  BY <1>4, <1>5, <1>8, <1>9, <1>10, <1>11 DEF NewFile
<1>13. QED BY <1>2, <1>12

(* The rolling sink and its new file. *)
LEMMA NewFileSink ==
  ASSUME FileInv, FoundOK, PlaceOK, NEW s \in Sinks, at = s, Fp(s) = s,
         GoOn("flush"), UNCHANGED <<config, life, found>>, Before(s)' = done,
         NEW n, NEW x \in Seq(MessageType), NEW y \in Seq(MessageType), NewFile(s, n, x, y)
  PROVE  SinkOK(s)' /\ OfThisLife(Current(s))' = x /\ Buffered(s)' = y
<1>1. Typed
  BY DEF FileInv
<1>2. PICK d \in Nat, z \in Nat : d = done /\ z = batch
  BY <1>1, TypedParts
<1>3. Received(s)' = d + z /\ Settled(s)' = d /\ Unflushed(s)' = z
  <2>1. PICK st \in {"next", "flush", "sync"} : st = "flush"
    OBVIOUS
  <2>2. GoOn(st)
    BY <2>1
  <2>3. QED BY <1>1, <1>2, <2>1, <2>2, GoOnCounts
<1>4. OfThisLife(n)' = x
  <2>1. n \in DOMAIN files => Found(n) = Len(files[n].data)
    BY DEF FoundOK, NewFile
  <2>2. n \in DOMAIN files' /\ DOMAIN found \subseteq DOMAIN files
    BY DEF FoundOK, NewFile
  <2>3. files'[n].data = (IF n \in DOMAIN files THEN files[n].data ELSE <<>>) \o x
    BY DEF NewFile
  <2>4. QED BY <1>1, <2>1, <2>2, <2>3, PartStarts
<1>5. PICK i \in Nat, j \in Nat : i = Len(x) /\ j = Len(y)
  BY LenProperties
<1>6. i + j = z /\ Consec(x, life, d) /\ Consec(y, life, d + i)
  BY <1>2, <1>5 DEF NewFile
<1>7. Sound(life, d, x, y, d + z)
  BY <1>5, <1>6 DEF Sound
<1>8. Fp(s)' = s /\ life' = life /\ Before(s)' = d
  BY <1>2, SinksStay
<1>9. Current(s)' = n /\ Buffered(s)' = y
  BY <1>8 DEF Current, Buffered, NewFile
<1>10. OfThisLife(Current(s))' = x
  BY <1>4, <1>9 DEF OfThisLife, Found
<1>11. Len(y) <= Unflushed(s)' /\ ~(Settled(s)' > d)
  BY <1>3, <1>5, <1>6
<1>12. Sound(life, Before(s), OfThisLife(Current(s)), Buffered(s), Received(s))'
  BY <1>3, <1>7, <1>8, <1>9, <1>10
<1>13. SinkOK(s)'
  BY <1>8, <1>9, <1>11, <1>12 DEF SinkOK
<1>14. QED BY <1>9, <1>10, <1>13

(* The file that is left when the rolling sink goes on to the next. *)
LEMMA LastIsFull ==
  ASSUME FileInv, Up, NEW s \in Sinks, Alone(s), Flushing(s, "roll", "write"), MustRoll(s),
         opened[s] # <<>>, NEW n, n = opened[s][Len(opened[s])].name
  PROVE  /\ InOrder(OfThisLife(n), opened[s][Len(opened[s])].from)
         /\ done = opened[s][Len(opened[s])].from + Len(OfThisLife(n))
         /\ Len(OfThisLife(n)) >= Limit(s) /\ SizeOK(Limit(s), Len(OfThisLife(n)))
         /\ flushLog = 2 => files[n].synced = Len(files[n].data)
<1>1. /\ stdio[s] = <<>> /\ Fp(s) = s /\ Kind(s) = "roll"
      /\ Received(s) = done /\ Settled(s) = done /\ SinkUp(s)
  BY RollerFlushed
<1>2. stream[s] = n /\ Current(s) = n /\ n \in DOMAIN files
  <2>1. stream[s] = n
    BY <1>1 DEF FileInv, StreamsOK
  <2>2. Len(opened[s]) \in 1..Len(opened[s])
    BY OpenedTyped DEF FileInv
  <2>3. QED BY <1>1, <2>1, <2>2, OpenedTyped DEF FileInv, Current
<1>3. PICK b \in Nat, d \in Nat :
         b = opened[s][Len(opened[s])].from /\ b = Before(s) /\ d = done
  <2>1. Before(s) = opened[s][Len(opened[s])].from
    BY DEF Before
  <2>2. QED BY <2>1, OpenedTyped, TypedParts DEF FileInv
<1>4. PICK v \in Seq(MessageType), w \in Seq(MessageType) :
         v = OfThisLife(n) /\ w = Buffered(s) /\ w = <<>>
  BY <1>1, PartTyped, CurrentTyped DEF FileInv, Buffered
<1>5. PICK i \in Nat : i = Len(v)
  BY LenProperties
<1>6. Len(w) = 0
  BY <1>4
<1>7. Sound(life, b, v, w, d)
  BY <1>1, <1>2, <1>3, <1>4 DEF SinkUp, SinkOK
<1>8. Consec(v, life, b) /\ b + i + Len(w) = d
  BY <1>5, <1>7 DEF Sound
<1>9. d = b + i
  BY <1>6, <1>8
<1>10. cur[s] = i /\ cur[s] > 0 /\ SizeOK(Limit(s), cur[s])
  <2>1. cur[s] = Len(v) + Len(w) /\ cur[s] > 0 /\ SizeOK(Limit(s), cur[s])
    BY <1>1, <1>2, <1>4 DEF SinkUp, RollingOK
  <2>2. QED BY <1>5, <1>6, <2>1
<1>11. i >= Limit(s)
  <2>1. stream[s] # NoFile
    BY <1>2, TypedParts, NoFileIsNone DEF FileInv
  <2>2. QED BY <1>10, <2>1 DEF MustRoll
<1>12. ASSUME flushLog = 2 PROVE files[n].synced = Len(files[n].data)
  <2>1. PICK c \in Nat, f \in Nat, y \in Nat :
           c = Len(files[n].data) /\ f = Found(n) /\ y = files[n].synced /\ y <= c
    <3>1. files[n].data \in Seq(MessageType) /\ files[n].synced \in Nat
          /\ files[n].synced <= Len(files[n].data)
      BY <1>2, TypedParts DEF FileInv, FilesOK, FileType
    <3>2. Len(files[n].data) \in Nat /\ Found(n) \in Nat
      BY <3>1, FoundTyped, LenProperties DEF FileInv
    <3>3. QED BY <3>1, <3>2
  <2>2. f <= c /\ i = c - f
    <3>1. f <= c
      BY <1>2, <2>1 DEF Up, FoundOK
    <3>2. QED BY <1>2, <1>4, <1>5, <2>1, <3>1, PartTyped DEF FileInv
  <2>3. d > b
    BY <1>9, <1>10
  <2>4. y + b >= f + d
    BY <1>1, <1>2, <1>3, <1>12, <2>1, <2>3 DEF SinkUp, SinkOK, Flushes
  <2>5. y = c
    <3>1. y + b >= f + (b + i) /\ f + i = c
      BY <1>9, <2>2, <2>4
    <3>2. y >= f + i
      BY <3>1
    <3>3. y <= c
      BY <2>1
    <3>4. QED BY <3>1, <3>2, <3>3
  <2>6. QED BY <2>1, <2>5
<1>13. InOrder(v, b)
  BY <1>8 DEF InOrder, Consec
<1>14. QED BY <1>3, <1>4, <1>5, <1>9, <1>10, <1>11, <1>12, <1>13

(* Nothing was flushed before the first file is opened. *)
LEMMA FirstIsAtZero ==
  ASSUME FileInv, Up, NEW s \in Sinks, Alone(s), Flushing(s, "roll", "write"),
         opened[s] = <<>>
  PROVE  done = 0
<1>1. /\ stdio[s] = <<>> /\ Fp(s) = s /\ Kind(s) = "roll"
      /\ Received(s) = done /\ SinkUp(s)
  BY RollerFlushed
<1>2. Current(s) = NoFile /\ Before(s) = 0 /\ Buffered(s) = <<>>
  BY <1>1 DEF FileInv, StreamsOK, Before, Current, Buffered
<1>3. NoFile \notin DOMAIN files
  BY TypedParts, NoFileIsNone DEF FileInv
<1>4. OfThisLife(NoFile) = <<>>
  BY <1>3 DEF OfThisLife
<1>5. PICK e : e = <<>>
  OBVIOUS
<1>6. Sound(life, 0, e, e, done) /\ Len(e) = 0
  BY <1>1, <1>2, <1>4, <1>5 DEF SinkUp, SinkOK
<1>7. 0 + Len(e) + Len(e) = done
  BY <1>6 DEF Sound
<1>8. QED BY <1>6, <1>7

(* The files a sink has left when it goes on to a new one. *)
LEMMA NewFileRolled ==
  ASSUME FileInv, Up, NEW s \in Sinks, Alone(s), RollToNewFile(s),
         NEW n, n = CreateFilename(s),
         NEW x \in Seq(MessageType), NEW y \in Seq(MessageType), NewFile(s, n, x, y)
  PROVE  RolledOrder(s)' /\ RolledSizes(s)' /\ RolledSynced(s)'
<1>0. /\ UNCHANGED <<config, life, found>> /\ Flushing(s, "roll", "write") /\ MustRoll(s)
      /\ SinkUp(s) /\ flushLog' = flushLog /\ Limit(s)' = Limit(s) /\ life' = life
  BY SinksStay DEF RollToNewFile, Up
<1>1. /\ Len(opened'[s]) = Len(opened[s]) + 1 /\ opened'[s] # <<>> /\ Len(opened[s]) \in Nat
      /\ opened'[s][Len(opened[s]) + 1].name = n /\ opened'[s][Len(opened[s]) + 1].from = done
      /\ \A i \in 1..Len(opened[s]) : opened'[s][i] = opened[s][i]
  <2>1. PICK r : r = [name |-> n, from |-> done]
    OBVIOUS
  <2>2. /\ Len(opened'[s]) = Len(opened[s]) + 1 /\ opened'[s] # <<>>
        /\ opened'[s][Len(opened[s]) + 1] = r
        /\ \A i \in 1..Len(opened[s]) : opened'[s][i] = opened[s][i]
    BY <2>1, NewOpened
  <2>3. QED BY <2>1, <2>2, OpenedTyped, SMTT(60) DEF FileInv
<1>2. ASSUME NEW k \in 1..Len(opened[s])
      PROVE  /\ opened[s][k].name \in DOMAIN files
             /\ files'[opened[s][k].name] = files[opened[s][k].name]
             /\ OfThisLife(opened[s][k].name)' = OfThisLife(opened[s][k].name)
  <2>1. PICK m : m = opened[s][k].name
    OBVIOUS
  <2>2. m \in DOMAIN files /\ m # n
    BY <2>1, OpenedTyped DEF FileInv, NewFile, Unopened
  <2>3. m \in DOMAIN files' /\ files'[m] = files[m] /\ opened'[s][k].name = m
    BY <1>1, <2>1, <2>2 DEF NewFile
  <2>4. OfThisLife(m)' = OfThisLife(m)
    BY <1>0, <2>2, <2>3, PartStays DEF FileInv
  <2>5. OfThisLife(opened[s][k].name)' = OfThisLife(m)'
    BY <2>3 DEF OfThisLife, Found
  <2>6. QED BY <2>1, <2>2, <2>3, <2>4, <2>5
<1>3. 1..(Len(opened'[s]) - 1) = 1..Len(opened[s])
  BY <1>1
<1>4. opened'[s][1].from = 0
  <2>1. CASE opened[s] = <<>>
    <3>1. Len(opened[s]) = 0 /\ done = 0
      BY <1>0, <2>1, FirstIsAtZero
    <3>2. QED BY <1>1, <3>1
  <2>2. CASE opened[s] # <<>>
    <3>1. 1 \in 1..Len(opened[s])
      BY <2>2, OpenedTyped DEF FileInv
    <3>2. QED BY <1>0, <1>1, <2>2, <3>1 DEF SinkUp, RolledOrder
  <2>3. QED BY <2>1, <2>2
<1>5. ASSUME NEW k \in 1..Len(opened[s])
      PROVE  /\ InOrder(OfThisLife(opened[s][k].name), opened[s][k].from)
             /\ opened'[s][k + 1].from = opened[s][k].from + Len(OfThisLife(opened[s][k].name))
             /\ Len(OfThisLife(opened[s][k].name)) >= Limit(s)
             /\ SizeOK(Limit(s), Len(OfThisLife(opened[s][k].name)))
             /\ flushLog = 2 => files[opened[s][k].name].synced
                                   = Len(files[opened[s][k].name].data)
  <2>1. CASE k = Len(opened[s])
    <3>1. opened[s] # <<>>
      BY <1>1
    <3>2. QED BY <1>0, <1>1, <2>1, <3>1, LastIsFull
  <2>2. CASE k # Len(opened[s])
    <3>1. k \in 1..(Len(opened[s]) - 1) /\ k + 1 \in 1..Len(opened[s])
      BY <1>1, <2>2
    <3>2. opened'[s][k + 1].from = opened[s][k + 1].from
      BY <1>1, <3>1
    <3>3. QED BY <1>0, <3>1, <3>2 DEF SinkUp, RolledOrder, RolledSizes, RolledSynced
  <2>3. QED BY <2>1, <2>2
<1>6. RolledOrder(s)'
  <2>1. ASSUME NEW k \in 1..Len(opened[s])
        PROVE  /\ InOrder(OfThisLife(opened[s][k].name), opened[s][k].from)'
               /\ opened'[s][k + 1].from
                     = opened'[s][k].from + Len(OfThisLife(opened[s][k].name)')
    <3>1. PICK v, b : v = OfThisLife(opened[s][k].name) /\ b = opened[s][k].from
      OBVIOUS
    <3>2. OfThisLife(opened[s][k].name)' = v /\ opened'[s][k].from = b
      BY <1>1, <1>2, <3>1
    <3>3. InOrder(v, b) /\ opened'[s][k + 1].from = b + Len(v)
      BY <1>5, <3>1
    <3>4. InOrder(OfThisLife(opened[s][k].name), opened[s][k].from)'
      BY <1>0, <3>2, <3>3 DEF InOrder
    <3>5. QED BY <3>2, <3>3, <3>4
  <2>2. QED BY <1>3, <1>4, <2>1, ZenonT(60) DEF RolledOrder
<1>7. RolledSizes(s)'
  BY <1>0, <1>2, <1>3, <1>5 DEF RolledSizes
<1>8. RolledSynced(s)'
  BY <1>0, <1>1, <1>2, <1>3, <1>5, ZenonT(60) DEF RolledSynced
<1>9. QED BY <1>6, <1>7, <1>8

(* The other sinks and what was found, when sink s opens a file. *)
LEMMA NewFileOthers ==
  ASSUME FileInv, Up, NEW s \in Sinks, RollToNewFile(s)
  PROVE  /\ FoundOK' /\ NullEmpty' /\ PlaceOK'
         /\ \A p \in Sinks : p # s /\ Alone(p) => SinkUp(p)'
<1>1. PICK n : n = CreateFilename(s)
  OBVIOUS
<1>2. PICK g : g = Fclose(s)
  OBVIOUS
<1>3. /\ Typed /\ s \in Fps /\ n.sink = flushs[s] /\ n # NoFile /\ FilesOK(files')
      /\ DOMAIN files' = DOMAIN files \union {n}
      /\ \A m \in DOMAIN files : m # n => files'[m] = g[m]
      /\ Begun(s, n, g)
  BY <1>1, <1>2, NewFileEffect DEF FileInv
<1>4. \A m \in DOMAIN files : m # stream[s] => g[m] = files[m]
  BY <1>2, <1>3, FcloseEffect
<1>5. \A m \in DOMAIN files : m # n /\ m # stream[s] => files'[m] = files[m]
  BY <1>3, <1>4
<1>6. /\ at = s /\ Kind(s) = "roll" /\ Fp(s) = s /\ status = "up" /\ status' = "up"
      /\ UNCHANGED <<config, life, status, found>> /\ GoOn("flush")
      /\ cur' = [cur EXCEPT ![s] = 0 + batch]
  BY <1>3, FlushingSink DEF RollToNewFile, SizeAfter
<1>7. /\ stream' = [stream EXCEPT ![s] = n]
      /\ \A t \in Sinks : t # s => opened'[t] = opened[t]
      /\ Len(opened'[s]) = Len(opened[s]) + 1
      /\ opened'[s][Len(opened[s]) + 1] = [name |-> n, from |-> done]
      /\ \A i \in 1..Len(opened[s]) : opened'[s][i] = opened[s][i]
      /\ Len(opened[s]) \in Nat
  BY <1>1, NewOpened, OpenedTyped DEF FileInv
<1>8. /\ stream'[s] = n /\ \A f \in Fps : f # s => stream'[f] = stream[f] /\ stdio'[f] = stdio[f]
      /\ \A p \in Sinks : p # s => cur'[p] = cur[p]
  <2>1. PICK b : stdio' = [stdio EXCEPT ![s] = b]
    BY <1>3 DEF Begun
  <2>2. QED BY <1>3, <1>6, <1>7, <2>1, TypedParts
<1>9. Sinks' = Sinks /\ Fps' = Fps /\ \A p : Alone(p)' <=> Alone(p)
  BY <1>6, SinksStay
<1>10. FoundOK'
  <2>1. Grows(files, files')
    BY <1>3, <1>6, NewFileTyped DEF StepOK
  <2>2. ASSUME NEW m \in DOMAIN files', Unopened(m)'
        PROVE  m \in DOMAIN files /\ Unopened(m) /\ files'[m] = files[m]
    <3>1. m # n
      BY <1>3, <1>8, <1>9, <2>2 DEF Unopened
    <3>2. \A t \in Sinks : \A i \in 1..Len(opened[t]) : opened[t][i].name # m
      <4>1. ASSUME NEW t \in Sinks, NEW i \in 1..Len(opened[t]) PROVE opened[t][i].name # m
        <5>1. i \in 1..Len(opened'[t]) /\ opened'[t][i] = opened[t][i]
          BY <1>7, <4>1
        <5>2. QED BY <1>9, <2>2, <5>1 DEF Unopened
      <4>2. QED BY <4>1
    <3>3. stream[s] # m
      <4>1. SUFFICES ASSUME stream[s] = m PROVE FALSE
        OBVIOUS
      <4>2. m # NoFile
        BY <1>3, <2>2, NoFileIsNone
      <4>3. opened[s] # <<>> /\ stream[s] = opened[s][Len(opened[s])].name
        BY <1>6, <4>1, <4>2 DEF FileInv, StreamsOK
      <4>4. Len(opened[s]) \in 1..Len(opened[s])
        BY <1>3, <4>3, OpenedTyped
      <4>5. QED BY <3>2, <4>1, <4>3, <4>4
    <3>4. \A f \in Fps : stream[f] # m
      BY <1>8, <1>9, <2>2, <3>3 DEF Unopened
    <3>5. QED BY <1>3, <1>5, <2>2, <3>1, <3>2, <3>3, <3>4 DEF Unopened
  <2>3. QED BY <1>3, <1>6, <2>1, <2>2, FoundRests DEF Up
<1>11. NullEmpty'
  BY <1>3, <1>8, <1>9 DEF Up, NullEmpty
<1>12. PICK st \in {"next", "flush", "sync"} : st = "flush"
  OBVIOUS
<1>13. GoOn(st) /\ PlaceOK
  BY <1>6, <1>12 DEF Up
<1>14. PlaceOK'
  <2>1. st # "next" => Kind(s) # "stdout" /\ (Kind(s) = "file" => flushLog # 0) /\ stream'[s] # NoFile
    BY <1>3, <1>6, <1>8
  <2>2. st # "sync"
    BY <1>12
  <2>3. QED BY <1>3, <1>6, <1>13, <2>1, <2>2, GoOnPlace
<1>15. ASSUME NEW p \in Sinks, p # s, Alone(p) PROVE SinkUp(p)'
  <2>1. SinkUp(p) /\ Fp(p) \in Fps /\ Fp(p) # s
    BY <1>3, <1>6, <1>15, CurrentTyped, FpsApart DEF Up, Typed
  <2>2. flushs[p] # flushs[s]
    BY <1>15 DEF Alone
  <2>3. stream[s] # NoFile => stream[s].sink # flushs[p]
    BY <1>3, <1>15, <2>1, AloneFile
  <2>4. NoFile \notin DOMAIN files' /\ NoFile \notin DOMAIN files
    BY <1>3, TypedParts, NoFileIsNone
  <2>5. SameFiles(p)
    BY <1>3, <1>5, <2>2, <2>3, <2>4 DEF SameFiles
  <2>6. SameCounts(p)
    BY <1>3, <1>6, <1>13, <1>15, GoOnCounts DEF SameCounts
  <2>7. opened'[p] = opened[p] /\ cur'[p] = cur[p] /\ stream'[Fp(p)] = stream[Fp(p)]
        /\ stdio'[Fp(p)] = stdio[Fp(p)]
    BY <1>7, <1>8, <1>15, <2>1
  <2>8. QED BY <1>6, <2>1, <2>4, <2>5, <2>6, <2>7, SinkRests
<1>16. QED BY <1>10, <1>11, <1>14, <1>15

(* RollFileFlush goes on to a new file. *)
LEMMA NewFileUp == ASSUME FileInv, Up, NEW s \in Sinks, RollToNewFile(s) PROVE Up'
<1>1. /\ FoundOK' /\ NullEmpty' /\ PlaceOK'
      /\ \A p \in Sinks : p # s /\ Alone(p) => SinkUp(p)'
  BY NewFileOthers
<1>2. ASSUME Alone(s) PROVE SinkUp(s)'
  <2>1. PICK n : n = CreateFilename(s)
    OBVIOUS
  <2>2. PICK x \in Seq(MessageType), y \in Seq(MessageType) : NewFile(s, n, x, y)
    BY <1>2, <2>1, NewFileStep
  <2>3. /\ UNCHANGED <<config, life, found>> /\ Flushing(s, "roll", "write") /\ GoOn("flush")
        /\ cur' = [cur EXCEPT ![s] = 0 + batch]
    BY DEF RollToNewFile, SizeAfter
  <2>4. at = s /\ Fp(s) = s /\ batch >= 1
    BY <1>2, <2>3, RollerFlushed
  <2>5. Before(s)' = done
    <3>1. PICK r : r = [name |-> CreateFilename(s), from |-> done]
      OBVIOUS
    <3>2. /\ opened'[s] # <<>> /\ Len(opened'[s]) = Len(opened[s]) + 1
          /\ opened'[s][Len(opened[s]) + 1] = r
      BY <3>1, NewOpened
    <3>3. opened'[s][Len(opened'[s])].from = done
      BY <3>1, <3>2
    <3>4. QED BY <3>2, <3>3 DEF Before
  <2>6. SinkOK(s)' /\ OfThisLife(Current(s))' = x /\ Buffered(s)' = y
    BY <2>2, <2>3, <2>4, <2>5, NewFileSink DEF Up
  <2>7. RolledOrder(s)' /\ RolledSizes(s)' /\ RolledSynced(s)'
    BY <1>2, <2>1, <2>2, NewFileRolled
  <2>8. RollingOK(s)'
    <3>1. Len(x) + Len(y) = batch
      BY <2>2 DEF NewFile
    <3>2. batch \in 0..MaxBatch /\ MaxBatch \in Nat /\ cur \in [Sinks -> Nat]
      BY TypedParts, LogAssumption DEF FileInv
    <3>3. cur'[s] = batch /\ batch > 0 /\ batch <= MaxBatch
      BY <2>3, <2>4, <3>2
    <3>4. SizeOK(Limit(s)', cur'[s])
      BY <3>3 DEF SizeOK
    <3>5. QED BY <2>6, <3>1, <3>3, <3>4 DEF RollingOK
  <2>9. QED BY <2>6, <2>7, <2>8 DEF SinkUp
<1>3. Sinks' = Sinks /\ \A p : Alone(p)' <=> Alone(p)
  BY SinksStay DEF RollToNewFile
<1>4. \A p \in Sinks' : Alone(p)' => SinkUp(p)'
  BY <1>1, <1>2, <1>3
<1>5. QED BY <1>1, <1>4 DEF Up
-----------------------------------------------------------------------------
(* The end of a process: nothing is left in the buffers, and of what a     *)
(* sink had enough is in its file.                                         *)

(* Order and sizes after a step. *)
LEMMA AfterStep ==
  /\ (FileInv => \A q \in Sinks : Ordered(q) /\ RolledOrder(q) => SinkOrder(q))'
  /\ (FileInv => \A q \in Sinks :
         /\ RolledSizes(q)
         /\ opened[q] # <<>> => SizeOK(Limit(q), Len(OfThisLife(Current(q))))
         => Sizes(q))'
  BY OrderFrom, SizesFrom, PTL

(* What is left to show of a sink when a process ends: v is what its file  *)
(* has then.                                                               *)
LEMMA EndOfSink ==
  ASSUME FileInv', UNCHANGED <<config, life, stream, opened, found, done>>,
         stdio' = [f \in Fps |-> <<>>], NEW p \in Sinks, Fp(p) \in Fps,
         NEW v \in Seq(MessageType), v = OfThisLife(Current(p))', Consec(v, life, Before(p))
  PROVE  /\ RolledOrder(p)' => SinkOrder(p)'
         /\ Before(p) + Len(v) >= done => Kept(p)'
         /\ RolledSizes(p)' /\ (opened[p] # <<>> => SizeOK(Limit(p), Len(v))) => Sizes(p)'
<1>1. /\ Sinks' = Sinks /\ life' = life /\ done' = done /\ Before(p)' = Before(p)
      /\ Fp(p)' = Fp(p) /\ Limit(p)' = Limit(p) /\ opened'[p] = opened[p] /\ p \in Sinks'
  BY SinksStay DEF Before
<1>2. PICK e \in Seq(MessageType) : e = <<>> /\ Len(e) = 0
  BY EmptySeq
<1>3. Buffered(p)' = e
  BY <1>1, <1>2 DEF Buffered
<1>4. ASSUME RolledOrder(p)' PROVE SinkOrder(p)'
  <2>1. Ordered(p)'
    <3>1. InOrder(OfThisLife(Current(p)), Before(p))'
      BY <1>1 DEF InOrder, Consec
    <3>2. \A i \in 1..Len(e) : FALSE
      BY <1>2
    <3>3. InOrder(Buffered(p), Before(p) + Len(OfThisLife(Current(p))))'
      BY <1>3, <3>2 DEF InOrder
    <3>4. QED BY <3>1, <3>3 DEF Ordered
  <2>2. (FileInv => \A q \in Sinks : Ordered(q) /\ RolledOrder(q) => SinkOrder(q))'
    BY AfterStep
  <2>3. QED BY <1>1, <1>4, <2>1, <2>2
<1>5. ASSUME Before(p) + Len(v) >= done PROVE Kept(p)'
  <2>1. Has(p)' = v \o e
    BY <1>3 DEF Has, Current, Buffered
  <2>2. v \o e = v
    BY <1>2, ConcatEmptySeq
  <2>3. Has(p)' = v
    BY <2>1, <2>2
  <2>4. QED BY <1>1, <1>5, <2>3 DEF Kept
<1>6. ASSUME RolledSizes(p)', opened[p] # <<>> => SizeOK(Limit(p), Len(v)) PROVE Sizes(p)'
  <2>1. (FileInv => \A q \in Sinks :
            /\ RolledSizes(q)
            /\ opened[q] # <<>> => SizeOK(Limit(q), Len(OfThisLife(Current(q))))
            => Sizes(q))'
    BY AfterStep
  <2>2. (opened[p] # <<>> => SizeOK(Limit(p), Len(OfThisLife(Current(p)))))'
    BY <1>1, <1>6 DEF SizeOK
  <2>3. QED BY <1>1, <1>6, <2>1, <2>2
<1>7. QED BY <1>4, <1>5, <1>6

Ended == Down' /\ SinkInOrder' /\ FlushedIsKept' /\ RollSizes'

(* The end of a process, from the ends of its sinks. *)
LEMMA EndOfAll ==
  ASSUME UNCHANGED config, stdio' = [f \in Fps |-> <<>>]
  PROVE  /\ Down'
         /\ (\A p \in Sinks : Alone(p) => SinkOrder(p)') => SinkInOrder'
         /\ (\A p \in Sinks : Alone(p) /\ Keeps(p)' => Kept(p)') => FlushedIsKept'
         /\ (\A p \in Sinks : Alone(p) => Sizes(p)') => RollSizes'
<1>1. Sinks' = Sinks /\ Fps' = Fps /\ \A p : Alone(p)' <=> Alone(p)
  BY SinksStay
<1>2. Down'
  BY <1>1 DEF Down
<1>3. (/\ (\A p \in Sinks : Alone(p) => SinkOrder(p)) => SinkInOrder
       /\ (\A p \in Sinks : Alone(p) /\ Keeps(p) => Kept(p)) => FlushedIsKept
       /\ (\A p \in Sinks : Alone(p) => Sizes(p)) => RollSizes)'
  BY PropertiesFrom, PTL
<1>4. QED BY <1>1, <1>2, <1>3

(* A process ends and leaves the files of sinks that are alone as they     *)
(* are: killed, or after exit() has emptied the buffers.                   *)
LEMMA KilledEnds ==
  ASSUME FileInv, FileInv', Up, UNCHANGED <<config, life, stream, opened, found, done>>,
         stdio' = [f \in Fps |-> <<>>],
         status' = "killed" \/ (status' = "exited" /\ \A f \in Fps : stdio[f] = <<>>),
         DOMAIN files' = DOMAIN files,
         \A p \in Sinks : Alone(p) => SameFiles(p)
  PROVE  Ended
<1>1. ASSUME NEW p \in Sinks, Alone(p)
      PROVE  SinkOrder(p)' /\ (Keeps(p)' => Kept(p)') /\ Sizes(p)'
  <2>1. SinkUp(p) /\ SameFiles(p)
    BY <1>1 DEF Up
  <2>2. PICK b \in Nat, v \in Seq(MessageType), w \in Seq(MessageType) :
            /\ b = Before(p) /\ v = OfThisLife(Current(p)) /\ w = Buffered(p)
            /\ Consec(v, life, b)
            /\ b + Len(v) + Len(w) = Received(p)
            /\ Flushes(p) => b + Len(v) >= Settled(p)
            /\ Settled(p) >= done /\ Received(p) >= done
            /\ opened[p] # <<>> => SizeOK(Limit(p), Len(v))
    BY <2>1, EndSink, ZenonT(60)
  <2>3. PICK n : n = Current(p)
    OBVIOUS
  <2>4. Fp(p) \in Fps /\ Current(p)' = n
    BY <2>3, CurrentTyped, SinksStay DEF Current
  <2>5. n \in DOMAIN files => files'[n] = files[n]
    <3>1. NoFile \notin DOMAIN files
      BY TypedParts, NoFileIsNone DEF FileInv
    <3>2. QED BY <2>1, <2>3, <3>1, CurrentTyped DEF SameFiles
  <2>6. OfThisLife(n)' = OfThisLife(n)
    BY <2>5, PartStays DEF FileInv
  <2>7. OfThisLife(Current(p))' = v
    BY <2>2, <2>3, <2>4, <2>6 DEF OfThisLife, Found
  <2>8. RolledOrder(p)' /\ RolledSizes(p)'
    <3>1. ASSUME NEW i \in 1..(Len(opened[p]) - 1)
          PROVE  /\ opened[p][i].name \in DOMAIN files'
                 /\ files'[opened[p][i].name] = files[opened[p][i].name]
      BY <1>1, <2>1, RolledClosed, ZenonT(60) DEF SameFiles
    <3>2. QED BY <2>1, <3>1, RolledRest DEF SinkUp
  <2>9. SinkOrder(p)' /\ Sizes(p)'
    BY <2>2, <2>4, <2>7, <2>8, EndOfSink
  <2>10. ASSUME Keeps(p)' PROVE Kept(p)'
    <3>1. PICK c \in Nat, r \in Nat, d \in Nat, i \in Nat :
             c = Settled(p) /\ r = Received(p) /\ d = done /\ i = Len(v)
      BY CountsTyped, TypedParts, LenProperties DEF FileInv
    <3>2. CASE status' = "killed"
      <4>1. Flushes(p)
        BY <2>10, <3>2, SinksStay DEF Keeps, Flushes, Running
      <4>2. b + i >= c /\ c >= d
        BY <2>2, <3>1, <4>1
      <4>3. b + i >= d
        BY <4>2
      <4>4. QED BY <2>2, <2>4, <2>7, <3>1, <4>3, EndOfSink
    <3>3. CASE \A f \in Fps : stdio[f] = <<>>
      <4>1. w = <<>>
        BY <2>2, <2>4, <3>3 DEF Buffered
      <4>2. Len(w) = 0
        BY <4>1
      <4>3. b + i + Len(w) = r /\ r >= d
        BY <2>2, <3>1
      <4>4. b + i >= d
        BY <4>2, <4>3
      <4>5. QED BY <2>2, <2>4, <2>7, <3>1, <4>4, EndOfSink
    <3>4. QED BY <3>2, <3>3
  <2>11. QED BY <2>9, <2>10
<1>2. QED BY <1>1, EndOfAll DEF Ended

(* A signal, and the end of exit(). *)
LEMMA KillEnds == ASSUME FileInv, FileInv', Up, Kill \/ Exited PROVE Ended
<1>1. /\ UNCHANGED <<config, life, stream, opened, found, done, files>>
      /\ stdio' = [f \in Fps |-> <<>>]
      /\ status' = "killed" \/ (status' = "exited" /\ \A f \in Fps : stdio[f] = <<>>)
  BY DEF Kill, Exited, Ends
<1>2. \A p \in Sinks : SameFiles(p)
  BY <1>1 DEF SameFiles
<1>3. QED BY <1>1, <1>2, KilledEnds

(* fwrite of FileFlush on a null FILE. *)
LEMMA NullEnds ==
  ASSUME FileInv, FileInv', Up, NEW s \in Sinks, FileWrite(s), stream[s] = NoFile PROVE Ended
<1>1. /\ UNCHANGED <<config, life, stream, opened, found, done, files>>
      /\ stdio' = [f \in Fps |-> <<>>] /\ status' = "killed"
  BY DEF FileWrite, WriteToNull
<1>2. \A p \in Sinks : SameFiles(p)
  BY <1>1 DEF SameFiles
<1>3. QED BY <1>1, <1>2, KilledEnds

(* fwrite of RollFileFlush on a null FILE; the old one is closed. *)
LEMMA RollFailsEnds ==
  ASSUME FileInv, FileInv', Up, NEW s \in Sinks, RollFails(s) PROVE Ended
<1>1. /\ UNCHANGED <<config, life, stream, opened, found, done>> /\ files' = Fclose(s)
      /\ stdio' = [f \in Fps |-> <<>>] /\ status' = "killed" /\ Flushing(s, "roll", "write")
  BY DEF RollFails, WriteToNull
<1>2. Typed /\ TypeOK /\ s \in Fps /\ Fp(s) = s
  BY <1>1, FlushingSink DEF FileInv, Typed
<1>3. DOMAIN files' = DOMAIN files /\ \A m \in DOMAIN files : m # stream[s] => files'[m] = files[m]
  BY <1>1, <1>2, FcloseEffect
<1>4. ASSUME NEW p \in Sinks, Alone(p) PROVE SameFiles(p)
  <2>1. CASE p = s
    <3>1. stdio[s] = <<>>
      BY <1>1, <1>4, <2>1, RollerFlushed
    <3>2. \A m \in DOMAIN files : files'[m] = files[m]
      BY <1>1, <1>2, <3>1, CloseEmpty
    <3>3. QED BY <1>3, <3>2 DEF SameFiles
  <2>2. CASE p # s
    <3>1. Fp(p) # s
      BY <1>2, <1>4, <2>2, FpsApart
    <3>2. stream[s] # NoFile => stream[s].sink # flushs[p]
      BY <1>2, <1>4, <3>1, AloneFile
    <3>3. NoFile \notin DOMAIN files
      BY <1>2, TypedParts, NoFileIsNone
    <3>4. QED BY <1>3, <3>2, <3>3 DEF SameFiles
  <2>3. QED BY <2>1, <2>2
<1>5. QED BY <1>1, <1>3, <1>4, KilledEnds

(* A loss of power cuts a file, but not below what is on disk. *)
LEMMA PowerFile ==
  ASSUME Typed, PowerLoss, NEW n \in DOMAIN files
  PROVE  \E k \in Nat : /\ files[n].synced <= k /\ k <= Len(files[n].data)
                        /\ files'[n].data \in Seq(MessageType) /\ Len(files'[n].data) = k
                        /\ \A i \in 1..k : files'[n].data[i] = files[n].data[i]
<1>1. PICK d \in Seq(MessageType), y \in Nat :
         d = files[n].data /\ y = files[n].synced /\ y <= Len(d)
  BY TypedParts DEF FilesOK, FileType
<1>2. Len(d) \in Nat
  BY LenProperties
<1>3. files'[n].data \in Seq(MessageType)
  BY PowerEffect DEF FilesOK, FileType
<1>4. CASE files'[n] = files[n]
  BY <1>1, <1>2, <1>3, <1>4
<1>5. ASSUME NEW k \in Nat, files[n].synced <= k, k <= Len(files[n].data),
             files'[n] = Cut(files[n], k)
      PROVE  /\ Len(files'[n].data) = k
             /\ \A i \in 1..k : files'[n].data[i] = files[n].data[i]
  <2>1. files'[n].data = SubSeq(d, 1, k)
    BY <1>1, <1>5 DEF Cut
  <2>2. Len(SubSeq(d, 1, k)) = k /\ \A i \in 1..k : SubSeq(d, 1, k)[i] = d[i]
    BY <1>1, <1>2, <1>5
  <2>3. QED BY <1>1, <2>1, <2>2
<1>6. QED BY <1>3, <1>4, <1>5, PowerEffect

(* What a file holds of this process after that. *)
LEMMA PowerPart ==
  ASSUME FileInv, FoundOK, PowerLoss, found' = found, NEW n \in DOMAIN files
  PROVE  /\ OfThisLife(n)' \in Seq(MessageType)
         /\ Len(OfThisLife(n)') + Found(n) >= files[n].synced
         /\ \A l, b : Consec(OfThisLife(n), l, b) => Consec(OfThisLife(n)', l, b)
<1>1. PICK d \in Seq(MessageType), y \in Nat, f \in Nat :
         d = files[n].data /\ y = files[n].synced /\ f = Found(n) /\ f <= Len(d)
  BY TypedParts, FoundTyped DEF FileInv, FilesOK, FileType, FoundOK
<1>2. PICK e \in Seq(MessageType), k \in Nat :
         /\ e = files'[n].data /\ Len(e) = k /\ y <= k /\ k <= Len(d)
         /\ \A i \in 1..k : e[i] = d[i]
  BY <1>1, PowerFile DEF FileInv
<1>3. PICK v : v = OfThisLife(n)
  OBVIOUS
<1>4. PICK u : u = OfThisLife(n)'
  OBVIOUS
<1>5. n \in DOMAIN files' /\ Found(n)' = f
  BY <1>1, PowerEffect DEF FileInv, Found
<1>6. v = SubSeq(d, f + 1, Len(d)) /\ u = SubSeq(e, f + 1, Len(e))
  BY <1>1, <1>2, <1>3, <1>4, <1>5 DEF OfThisLife
<1>7. PICK c \in Nat : c = Len(d)
  BY LenProperties
<1>8. /\ v \in Seq(MessageType) /\ Len(v) = IF f <= c THEN c - f ELSE 0
      /\ \A i \in 1..(c - f) : v[i] = d[f + i]
  BY <1>6, <1>7, TailTyped
<1>9. /\ u \in Seq(MessageType) /\ Len(u) = IF f <= k THEN k - f ELSE 0
      /\ \A i \in 1..(k - f) : u[i] = e[f + i]
  BY <1>2, <1>6, TailTyped, ZenonT(60)
<1>10. Len(u) + f >= y
  BY <1>2, <1>9
<1>11. Len(v) = c - f /\ f <= c /\ k <= c
  BY <1>1, <1>2, <1>7, <1>8
<1>12. ASSUME NEW i \in 1..Len(u) PROVE i \in 1..Len(v) /\ u[i] = v[i]
  <2>1. f <= k /\ i \in 1..(k - f) /\ f + i \in 1..k /\ i \in 1..(c - f)
    BY <1>9, <1>11
  <2>2. QED BY <1>2, <1>8, <1>9, <1>11, <2>1
<1>13. \A l, b : Consec(v, l, b) => Consec(u, l, b)
  BY <1>12 DEF Consec
<1>14. QED BY <1>1, <1>3, <1>4, <1>9, <1>10, <1>13

(* A loss of power: with fsync, no file loses what RealFlush returned with. *)
LEMMA PowerEnds == ASSUME FileInv, FileInv', Up, PowerLoss PROVE Ended
<1>1. /\ UNCHANGED <<config, life, stream, opened, found, done>>
      /\ stdio' = [f \in Fps |-> <<>>] /\ status' = "power"
  BY DEF PowerLoss, Ends
<1>2. /\ DOMAIN files' = DOMAIN files
      /\ \A n \in DOMAIN files :
            files[n].synced >= Len(files[n].data) => files'[n] = files[n]
  BY PowerEffect DEF FileInv
<1>3. RollSizes'
  BY <1>1 DEF RollSizes
<1>4. CASE flushLog # 2
  <2>1. SinkInOrder'
    BY <1>1, <1>4 DEF SinkInOrder, config
  <2>2. \A s : ~Keeps(s)'
    BY <1>1, <1>4 DEF Keeps, Running, config
  <2>3. FlushedIsKept'
    BY <2>2 DEF FlushedIsKept
  <2>4. QED BY <1>1, <1>3, <2>1, <2>3, EndOfAll DEF Ended
<1>5. CASE flushLog = 2
  <2>1. ASSUME NEW p \in Sinks, Alone(p) PROVE SinkOrder(p)' /\ (Keeps(p)' => Kept(p)')
    <3>0. SinkUp(p) /\ SinkOK(p)
      BY <2>1 DEF Up, SinkUp
    <3>1. PICK b \in Nat, v \in Seq(MessageType), w \in Seq(MessageType) :
              /\ b = Before(p) /\ v = OfThisLife(Current(p)) /\ w = Buffered(p)
              /\ Consec(v, life, b)
              /\ Flushes(p) => b + Len(v) >= Settled(p)
              /\ Settled(p) >= done
      BY <3>0, EndSink, ZenonT(60)
    <3>2. PICK n : n = Current(p)
      OBVIOUS
    <3>3. Fp(p) \in Fps /\ Current(p)' = n
      BY <1>1, <3>2, CurrentTyped, SinksStay DEF Current
    <3>4. OfThisLife(Current(p))' = OfThisLife(n)'
      BY <3>3 DEF OfThisLife, Found
    <3>5. Keeps(p)' => Flushes(p)
      BY <1>1, <1>5, SinksStay, KindTyped DEF Keeps, Flushes, Running, FileInv, Typed
    <3>6. PICK c \in Nat, d \in Nat : c = Settled(p) /\ d = done /\ c >= d
      BY <3>1, CountsTyped, TypedParts DEF FileInv
    <3>7. PICK u \in Seq(MessageType) :
             u = OfThisLife(n)' /\ Consec(u, life, b) /\ (Flushes(p) => b + Len(u) >= d)
      <4>1. CASE n = NoFile
        <5>1. NoFile \notin DOMAIN files
          BY TypedParts, NoFileIsNone DEF FileInv
        <5>2. OfThisLife(n)' = v
          BY <1>2, <3>1, <3>2, <4>1, <5>1 DEF OfThisLife
        <5>3. PICK i \in Nat : i = Len(v)
          BY LenProperties
        <5>4. Flushes(p) => b + i >= d
          BY <3>1, <3>6, <5>3
        <5>5. QED BY <3>1, <5>2, <5>3, <5>4
      <4>2. CASE n # NoFile
        <5>1. n \in DOMAIN files
          BY <3>2, <4>2, CurrentTyped
        <5>2. PICK u \in Seq(MessageType) :
                 /\ u = OfThisLife(n)' /\ Len(u) + Found(n) >= files[n].synced
                 /\ Consec(u, life, b)
          BY <1>1, <3>1, <3>2, <5>1, PowerPart DEF Up
        <5>3. PICK i \in Nat, f \in Nat, y \in Nat :
                 i = Len(u) /\ f = Found(n) /\ y = files[n].synced /\ i + f >= y
          <6>1. files[n].synced \in Nat /\ Found(n) \in Nat
            BY <5>1, TypedParts, FoundTyped DEF FileInv, FilesOK, FileType
          <6>2. QED BY <5>2, <6>1, LenProperties
        <5>4. Flushes(p) /\ c > b => y + b >= f + c
          BY <1>5, <3>0, <3>1, <3>2, <3>6, <5>3 DEF SinkOK
        <5>5. i + f >= y /\ c >= d
          BY <3>6, <5>3
        <5>6. Flushes(p) => b + i >= d
          BY <5>4, <5>5
        <5>7. QED BY <5>2, <5>3, <5>6
      <4>3. QED BY <4>1, <4>2
    <3>8. RolledOrder(p)'
      <4>1. ASSUME NEW i \in 1..(Len(opened[p]) - 1)
            PROVE  /\ opened[p][i].name \in DOMAIN files'
                   /\ files'[opened[p][i].name] = files[opened[p][i].name]
        <5>1. PICK n1 : n1 = opened[p][i].name
          OBVIOUS
        <5>2. n1 \in DOMAIN files /\ files[n1].synced = Len(files[n1].data)
          BY <1>5, <2>1, <3>0, <5>1, RolledClosed DEF SinkUp, RolledSynced
        <5>3. PICK c1 \in Nat : c1 = Len(files[n1].data)
          BY <5>2, TypedParts DEF FileInv, FilesOK, FileType
        <5>4. files[n1].synced >= Len(files[n1].data)
          BY <5>2, <5>3
        <5>5. QED BY <1>2, <5>1, <5>2, <5>4
      <4>2. QED BY <1>1, <3>0, <4>1, RolledRest DEF SinkUp
    <3>9. OfThisLife(Current(p))' = u /\ Consec(u, life, Before(p))
      BY <3>1, <3>4, <3>7
    <3>10. SinkOrder(p)'
      BY <1>1, <3>3, <3>8, <3>9, EndOfSink
    <3>11. ASSUME Keeps(p)' PROVE Kept(p)'
      <4>1. Before(p) + Len(u) >= done
        BY <3>1, <3>5, <3>6, <3>7, <3>11
      <4>2. QED BY <1>1, <3>3, <3>9, <4>1, EndOfSink
    <3>12. QED BY <3>10, <3>11
  <2>2. QED BY <1>1, <1>3, <2>1, EndOfAll DEF Ended
<1>6. QED BY <1>4, <1>5
-----------------------------------------------------------------------------
(* The start of a process: nothing in any file is of it.                   *)

(* Nothing is flushed, and what the files hold was found there. *)
Fresh == /\ at = 0 /\ step = "write" /\ done = 0
         /\ \A s \in Sinks : opened[s] = <<>>
         /\ DOMAIN found = DOMAIN files /\ \A n \in DOMAIN files : found[n] = Len(files[n].data)
         /\ \A f \in Fps : stdio[f] = <<>>

LEMMA FreshUp == FileInv /\ Fresh => Up
<1> SUFFICES ASSUME FileInv, Fresh PROVE Up
  OBVIOUS
<1>0. Typed
  BY DEF FileInv
<1>1. \A n : OfThisLife(n) = <<>>
  <2>1. ASSUME NEW n \in DOMAIN files PROVE OfThisLife(n) = <<>>
    <3>1. PICK d \in Seq(MessageType) : d = files[n].data
      BY <1>0, TypedParts DEF FilesOK, FileType
    <3>2. Found(n) = Len(d) /\ Len(d) \in Nat
      BY <3>1, LenProperties DEF Found, Fresh
    <3>3. OfThisLife(n) = SubSeq(d, Len(d) + 1, Len(d))
      BY <3>1, <3>2 DEF OfThisLife
    <3>4. SubSeq(d, Len(d) + 1, Len(d)) = <<>>
      BY <3>2
    <3>5. QED BY <3>3, <3>4
  <2>2. QED BY <2>1 DEF OfThisLife
<1>2. PlaceOK
  BY DEF PlaceOK, Fresh
<1>3. NullEmpty
  BY DEF NullEmpty, Fresh
<1>4. ASSUME NEW p \in Sinks PROVE SinkUp(p)
  <2>1. Received(p) = 0 /\ Settled(p) = 0 /\ Unflushed(p) = 0
    <3>1. p \in Nat /\ ~(0 > p) /\ p # 0
      BY <1>0, SinksTyped DEF Typed
    <3>2. QED BY <3>1 DEF Received, Settled, Unflushed, Fresh
  <2>2. Before(p) = 0 /\ opened[p] = <<>> /\ Fp(p) \in Fps
    BY CurrentTyped DEF Before, Fresh
  <2>3. PICK e : e = <<>> /\ Len(e) = 0 /\ e = OfThisLife(Current(p)) /\ e = Buffered(p)
    BY <1>1, <2>2 DEF Buffered, Fresh
  <2>4. Consec(e, life, 0) /\ Consec(e, life, 0 + Len(e)) /\ 0 + Len(e) + Len(e) = 0
    <3>1. \A i \in 1..Len(e) : FALSE
      BY <2>3
    <3>2. Consec(e, life, 0) /\ Consec(e, life, 0 + Len(e))
      BY <3>1 DEF Consec
    <3>3. QED BY <2>3, <3>2
  <2>5. Sound(life, Before(p), OfThisLife(Current(p)), Buffered(p), Received(p))
    BY <2>1, <2>2, <2>3, <2>4 DEF Sound
  <2>6. Len(Buffered(p)) <= Unflushed(p) /\ ~(Settled(p) > Before(p))
    BY <2>1, <2>2, <2>3
  <2>7. SinkOK(p)
    BY <2>5, <2>6 DEF SinkOK
  <2>8. \A k \in 1..(Len(opened[p]) - 1) : FALSE
    <3>1. Len(opened[p]) = 0
      BY <2>2
    <3>2. QED BY <3>1
  <2>9. RolledOrder(p) /\ RolledSizes(p) /\ RolledSynced(p) /\ RollingOK(p)
    BY <2>2, <2>8 DEF RolledOrder, RolledSizes, RolledSynced, RollingOK
  <2>10. QED BY <2>7, <2>9 DEF SinkUp
<1>5. FoundOK
  <2>1. \A n \in DOMAIN files : Found(n) = Len(files[n].data) /\ Len(files[n].data) \in Nat
    <3>1. \A n \in DOMAIN files : files[n].data \in Seq(MessageType)
      BY <1>0, TypedParts DEF FilesOK, FileType
    <3>2. QED BY <3>1, LenProperties DEF Found, Fresh
  <2>2. QED BY <2>1 DEF FoundOK, Fresh
<1>6. QED BY <1>2, <1>3, <1>4, <1>5 DEF Up

(* The first process. *)
LEMMA InitUp == ASSUME Init PROVE Up
<1>1. FileInv
  BY FileInvInit
<1>2. \A n \in DOMAIN files : files[n].data = <<>>
  <2>1. PICK ok \in SUBSET FileSinks :
           files = Fopen([n \in {Stdout} |-> EmptyFile], LogFiles(ok))
    BY DEF Init
  <2>2. QED BY <2>1 DEF Fopen, EmptyFile
<1>3. \A n \in DOMAIN files : Len(files[n].data) = 0
  BY <1>2
<1>4. Fresh
  BY <1>3 DEF Init, Fresh
<1>5. QED BY <1>1, <1>4, FreshUp

(* The next process. *)
LEMMA RestartUp == ASSUME FileInv, FileInv', Down, Restart PROVE Up'
<1>1. Sinks' = Sinks /\ Fps' = Fps
  BY SinksStay DEF Restart
<1>2. Fresh'
  BY <1>1 DEF Restart, Down, Fresh
<1>3. (FileInv /\ Fresh => Up)'
  BY FreshUp, PTL
<1>4. QED BY <1>2, <1>3

(* A step of a process that runs: it goes on, or ends. *)
LEMMA UpStep ==
  ASSUME FileInv, FileInv', Running, Up, Next
  PROVE  (Running' /\ Up') \/ (~Running' /\ Ended)
<1>1. ASSUME NEW k \in 1..MaxBatch, RealFlush(k) PROVE Running' /\ Up'
  BY <1>1, RealFlushUp DEF RealFlush, Running
<1>2. ASSUME NEW s \in Sinks, StdoutWrite(s) PROVE Running' /\ Up'
  BY <1>2, StdoutUp DEF StdoutWrite, Running
<1>3. ASSUME NEW s \in Sinks, FileWrite(s) PROVE (Running' /\ Up') \/ (~Running' /\ Ended)
  <2>1. CASE stream[s] # NoFile
    BY <1>3, <2>1, FileUp DEF FileWrite, Running
  <2>2. CASE stream[s] = NoFile
    BY <1>3, <2>2, NullEnds DEF FileWrite, WriteToNull, Running
  <2>3. QED BY <2>1, <2>2
<1>4. ASSUME NEW s \in Sinks, RollWrite(s) PROVE Running' /\ Up'
  BY <1>4, RollUp DEF RollWrite, Running
<1>5. ASSUME NEW s \in Sinks, RollToNewFile(s) PROVE Running' /\ Up'
  BY <1>5, NewFileUp DEF RollToNewFile, Running
<1>6. ASSUME NEW s \in Sinks, RollFails(s) PROVE ~Running' /\ Ended
  BY <1>6, RollFailsEnds DEF RollFails, WriteToNull, Running
<1>7. ASSUME NEW s \in Sinks, FlushFile(s) PROVE Running' /\ Up'
  BY <1>7, FlushUp DEF FlushFile, Running
<1>8. ASSUME NEW s \in Sinks, SyncFile(s) PROVE Running' /\ Up'
  BY <1>8, SyncUp DEF SyncFile, Running
<1>9. ASSUME NEW f \in Fps, Unload(f) PROVE Running' /\ Up'
  BY <1>9, UnloadUp DEF Unload, Running
<1>10. CASE Tick
  BY <1>10, TickUp DEF Tick, Running
<1>11. CASE Exit
  BY <1>11, TickUp DEF Exit, Running
<1>12. CASE Kill \/ Exited
  BY <1>12, KillEnds DEF Kill, Exited, Ends, Running
<1>13. CASE PowerLoss
  BY <1>13, PowerEnds DEF PowerLoss, Ends, Running
<1>14. CASE Restart
  BY <1>14 DEF Restart
<1>15. QED
  BY <1>1, <1>2, <1>3, <1>4, <1>5, <1>6, <1>7, <1>8, <1>9, <1>10, <1>11, <1>12, <1>13,
     <1>14 DEF Next

(* A process that has ended: its files stay as they are until the next one *)
(* starts.                                                                 *)
LEMMA DownStep ==
  ASSUME ~Running, Next
  PROVE  Restart \/ Tick
  BY DEF Next, RealFlush, StdoutWrite, FileWrite, RollWrite, RollToNewFile, RollFails,
         FlushFile, SyncFile, Exit, Unload, Exited, Kill, PowerLoss, Ends, Flushing, Running

(* A step after the end that changes no file. *)
LEMMA SameSinks ==
  ASSUME SinkInv, FileInv',
         UNCHANGED <<config, life, status, files, stream, stdio, done, opened, found>>,
         ~Running
  PROVE  SinkInv'
<1>1. /\ Sinks' = Sinks /\ Fps' = Fps /\ (Running' <=> Running)
      /\ \A n : Found(n)' = Found(n)
      /\ \A s : /\ Fp(s)' = Fp(s) /\ (Alone(s)' <=> Alone(s)) /\ Kind(s)' = Kind(s)
                /\ Limit(s)' = Limit(s)
      /\ flushLog' = flushLog
  BY SinksStay DEF Found, Running
<1>2. \A n : OfThisLife(n)' = OfThisLife(n)
  BY <1>1 DEF OfThisLife
<1>3. \A s : Has(s)' = Has(s) /\ Before(s)' = Before(s) /\ (Keeps(s)' <=> Keeps(s))
  <2>1. \A s : Before(s)' = Before(s)
    BY DEF Before
  <2>2. \A s : Keeps(s)' <=> Keeps(s)
    BY <1>1 DEF Keeps
  <2>3. \A s : Has(s)' = Has(s)
    BY <1>1, <1>2 DEF Has
  <2>4. QED BY <2>1, <2>2, <2>3
<1>4. SinkInOrder'
  BY <1>1, <1>2, <1>3, ZenonT(60) DEF SinkInv, SinkInOrder, InOrder
<1>5. FlushedIsKept'
  BY <1>1, <1>3 DEF SinkInv, FlushedIsKept
<1>6. RollSizes'
  BY <1>1, <1>2 DEF SinkInv, RollSizes
<1>7. Down'
  BY <1>1 DEF SinkInv, Down
<1>8. QED BY <1>1, <1>4, <1>5, <1>6, <1>7 DEF SinkInv

(* A step after which the process runs. *)
LEMMA UpIsSound == ASSUME FileInv', Running', Up' PROVE SinkInv'
<1>1. (FileInv /\ Up => SinkInOrder /\ FlushedIsKept /\ RollSizes)'
  BY UpImplies, PTL
<1>2. QED BY <1>1 DEF SinkInv

(* Every step keeps the invariant. *)
LEMMA SinkInvStep == ASSUME SinkInv, Next PROVE SinkInv'
<1>1. FileInv /\ FileInv'
  BY FileInvStep DEF SinkInv
<1>2. CASE Running
  <2>1. Up
    BY <1>2 DEF SinkInv
  <2>2. CASE Running' /\ Up'
    BY <1>1, <2>2, UpIsSound
  <2>3. CASE ~Running' /\ Ended
    BY <1>1, <2>3 DEF SinkInv, Ended
  <2>4. QED BY <1>1, <1>2, <2>1, <2>2, <2>3, UpStep
<1>3. CASE ~Running
  <2>1. CASE Restart
    <3>1. Up' /\ Running'
      BY <1>1, <1>3, <2>1, RestartUp DEF SinkInv, Restart, Running
    <3>2. QED BY <1>1, <3>1, UpIsSound
  <2>2. CASE Tick
    BY <1>1, <1>3, <2>2, SameSinks DEF Tick
  <2>3. QED BY <1>3, <2>1, <2>2, DownStep
<1>4. QED BY <1>2, <1>3

(* So does a step that changes nothing. *)
LEMMA SinkInvStutter == ASSUME SinkInv, UNCHANGED vars PROVE SinkInv'
<1>1. FileInv /\ FileInv'
  BY FileInvStutter DEF SinkInv
<1>2. UNCHANGED <<config, life, status, files, stream, stdio, cur, opened, found, step, done,
                  at, batch>>
  BY DEF vars
<1>3. CASE Running
  <2>1. Up' /\ Running'
    BY <1>1, <1>2, <1>3, TickUp DEF SinkInv, Running
  <2>2. QED BY <1>1, <2>1, UpIsSound
<1>4. CASE ~Running
  BY <1>1, <1>2, <1>4, SameSinks
<1>5. QED BY <1>3, <1>4

(* The invariant holds in every reachable state. *)
LEMMA SinkInvAlways == Spec => []SinkInv
<1>1. Init => SinkInv
  <2>1. SUFFICES ASSUME Init PROVE SinkInv
    OBVIOUS
  <2>2. FileInv /\ Up /\ Running
    BY <2>1, FileInvInit, InitUp DEF Init, Running
  <2>3. QED BY <2>2, UpImplies DEF SinkInv
<1>2. SinkInv /\ [Next]_vars => SinkInv'
  BY SinkInvStep, SinkInvStutter
<1>3. QED BY <1>1, <1>2, PTL DEF Spec

(***************************************************************************)
(* Every sink with a file of its own gets the messages of a process in     *)
(* order, none twice and none missing before one that is there, through    *)
(* stdio buffers, rolling and any end of the process but a loss of power   *)
(* without fsync, whatever other sinks the logger has: any number of them, *)
(* of any kinds, and those that share a file, too.                         *)
(***************************************************************************)
THEOREM SinksGetAllInOrder == Spec => []SinkInOrder
<1>1. SinkInv => SinkInOrder
  BY DEF SinkInv
<1>2. QED BY <1>1, SinkInvAlways, PTL

(***************************************************************************)
(* What RealFlush has returned with outlives the process as far as         *)
(* flush_log promises it: fflush saves it from a signal, fsync from a loss *)
(* of power, for every sink of the logger with a file of its own.          *)
(***************************************************************************)
THEOREM FlushedOutlives == Spec => []FlushedIsKept
<1>1. SinkInv => FlushedIsKept
  BY DEF SinkInv
<1>2. QED BY <1>1, SinkInvAlways, PTL

(***************************************************************************)
(* A RollFileFlush with a basename_ of its own leaves a file only when it  *)
(* is full, and puts no more into one than max_size_ and the batch that    *)
(* filled it.                                                              *)
(***************************************************************************)
THEOREM RolledFilesFull == Spec => []RollSizes
<1>1. SinkInv => RollSizes
  BY DEF SinkInv
<1>2. QED BY <1>1, SinkInvAlways, PTL

=============================================================================
