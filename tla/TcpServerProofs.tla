--------------------------- MODULE TcpServerProofs ---------------------------
(***************************************************************************)
(* Proofs about TcpServer for any connections, threads and loops, messages *)
(* of any length, sockets with any room and any bounds: the types, the     *)
(* channels and the byte stream.  The life of a connection is in           *)
(* ConnectionProofs.                                                       *)
(***************************************************************************)
EXTENDS TcpServer, SequenceTheorems, TLAPS

-----------------------------------------------------------------------------
(* What the operations of a Channel do, seen from outside.                 *)

(* index_ is right, though the kernel may not have the present events_. *)
Registered(ch) == /\ ch.index = "ADDED" <=> ch.watched
                  /\ ch.index # "NEW" <=> ch.listed

(* Channel::update, once events_ is set. *)
LEMMA UpdateEffect ==
  ASSUME NEW ch \in ChannelType
  PROVE  LET d == UpdateChannel(ch)
         IN  /\ d \in ChannelType
             /\ d.events = ch.events /\ d.revents = ch.revents
             /\ Registered(ch) => Consistent(d)
             /\ ch.index # "ADDED" => d.index = "ADDED"
             /\ ch.index = "ADDED" =>
                   d.index = IF ch.events = {} THEN "DELETED" ELSE "ADDED"
  BY ZenonT(60) DEF ChannelType, UpdateChannel, EpollAdd, EpollMod, EpollDel, IsNoneEvent,
     Registered, Consistent, ReadEvent, WriteEvent

(* A change of events_ alone. *)
LEMMA EventsEffect ==
  ASSUME NEW ch \in ChannelType, NEW e \in SUBSET {ReadEvent, WriteEvent}
  PROVE  LET d == [ch EXCEPT !.events = e]
         IN  /\ d \in ChannelType
             /\ d.events = e /\ d.revents = ch.revents /\ d.index = ch.index
             /\ Consistent(ch) => Registered(d)
  BY DEF ChannelType, Consistent, Registered

(* enableReading, enableWriting, disableWriting and disableAll. *)
OpEffect(ch, d, e) == /\ d \in ChannelType
                      /\ d.events = e /\ d.revents = ch.revents
                      /\ Consistent(ch) => Consistent(d)
                      /\ ch.index # "ADDED" => d.index = "ADDED"
                      /\ ch.index = "ADDED" =>
                            d.index = IF e = {} THEN "DELETED" ELSE "ADDED"

(* Channel::remove keeps the channel true to the poller, too. *)
LEMMA RemoveEffect ==
  ASSUME NEW ch \in ChannelType
  PROVE  LET d == RemoveChannel(ch)
         IN  /\ d \in ChannelType
             /\ d.events = ch.events /\ d.revents = ch.revents /\ d.index = "NEW"
             /\ Consistent(ch) => Consistent(d)
  BY DEF ChannelType, RemoveChannel, EpollDel, Consistent, ReadEvent, WriteEvent

(* The effect of each of the operations. *)
LEMMA ChannelEffect ==
  ASSUME NEW ch \in ChannelType
  PROVE  /\ OpEffect(ch, EnableReading(ch), ch.events \union {ReadEvent})
         /\ OpEffect(ch, EnableWriting(ch), ch.events \union {WriteEvent})
         /\ OpEffect(ch, DisableWriting(ch), ch.events \ {WriteEvent})
         /\ OpEffect(ch, DisableAll(ch), {})
<1>1. ASSUME NEW e \in SUBSET {ReadEvent, WriteEvent}
      PROVE  OpEffect(ch, UpdateChannel([ch EXCEPT !.events = e]), e)
  <2>1. PICK d \in ChannelType : d = [ch EXCEPT !.events = e]
    BY EventsEffect
  <2>2. d.events = e /\ d.revents = ch.revents /\ d.index = ch.index
        /\ (Consistent(ch) => Registered(d))
    BY <2>1, EventsEffect
  <2>3. QED BY <2>1, <2>2, UpdateEffect DEF OpEffect
<1>2. /\ ch.events \union {ReadEvent} \in SUBSET {ReadEvent, WriteEvent}
      /\ ch.events \union {WriteEvent} \in SUBSET {ReadEvent, WriteEvent}
      /\ ch.events \ {WriteEvent} \in SUBSET {ReadEvent, WriteEvent}
  BY DEF ChannelType
<1>3. QED
  BY <1>1, <1>2 DEF EnableReading, EnableWriting, DisableWriting, DisableAll
-----------------------------------------------------------------------------
(* The types, and that whoever acts on a connection has one.               *)

ConnType == [state : {"none", "backlog", "refused", "kConnecting",
                      "kConnected", "kDisconnected"},
             loop : Loops, chan : ChannelType, out : Seq(1..MaxSends)]
SockType == [rcv : {0, 1}, fin : BOOLEAN, rst : BOOLEAN,
             err : {"none", "EPIPE"} \union PendingErrors, room : 0..Room,
             wrShut : BOOLEAN]
FrameType == [c : Conns \union {NoConn},
              cb : {"none", "up", "message", "close", "down", "writeComplete",
                    "highWaterMark"},
              due : SUBSET Callbacks]
UserType == [pc : {"idle", "send", "sendFile", "shutdown", "shutting"},
             c : Conns \union {NoConn}, msg : 0..MaxSends]
ByteType == [call : 1..MaxSends, pos : 1..FileLen, after : Nat]
HistType == [sent : Seq(1..MaxSends), accepted : Seq(1..MaxSends), downs : Nat,
             closed : BOOLEAN, lateShut : BOOLEAN, file : Seq(ByteType)]

(* Functors that send carry the number of their call. *)
Functors == {f \in FunctorType : f.kind \in {"sendInLoop", "sendFileInLoop"} => f.msg # 0}

ConnTyped  == conn \in [Conns -> ConnType]
SockTyped  == sock \in [Conns -> SockType]
HistTyped  == hist \in [Conns -> HistType]
QueueTyped == pending \in [Loops -> Seq(Functors)]
BatchTyped == batch \in [Loops -> Seq(Functors)] /\ pos \in [Loops -> Nat]
PhaseTyped == /\ phase \in [Loops -> {"poll", "dispatch", "run"}]
              /\ active \in [Loops -> SUBSET (Conns \union {Acceptor})]
FrameTyped == /\ frame \in [Loops -> FrameType]
              /\ \A l \in Loops : frame[l].cb # "none" \/ frame[l].due # {}
                                    => frame[l].c \in Conns
UserTyped  == /\ user \in [Users -> UserType]
              /\ \A u \in Users : /\ user[u].pc # "idle" => user[u].c \in Conns
                                  /\ user[u].pc \in {"send", "sendFile"} => user[u].msg # 0
NextTyped  == /\ connections \subseteq Conns
              /\ next \in 1..(IF SubLoops = <<>> THEN 1 ELSE Len(SubLoops))
CountTyped == /\ sends \in 0..MaxSends
              /\ data \in 0..MaxData
              /\ fault \in {"none", "SIGPIPE", "bad_function_call", "dangling"}

Typed == /\ ConnTyped /\ SockTyped /\ HistTyped
         /\ QueueTyped /\ BatchTyped /\ PhaseTyped /\ FrameTyped
         /\ UserTyped /\ NextTyped /\ CountTyped

(* Typed says what TypeOK says and more. *)
LEMMA TypedIsTypeOK == Typed => TypeOK
<1> SUFFICES ASSUME Typed PROVE TypeOK
  OBVIOUS
<1>1. Functors \subseteq FunctorType
  BY DEF Functors
<1>2. pending \in [Loops -> Seq(FunctorType)] /\ batch \in [Loops -> Seq(FunctorType)]
  <2>1. \A l \in Loops : pending[l] \in Seq(FunctorType) /\ batch[l] \in Seq(FunctorType)
    BY <1>1, SeqMonotonic DEF Typed, QueueTyped, BatchTyped
  <2>2. QED BY <2>1 DEF Typed, QueueTyped, BatchTyped
<1>3. QED
  BY <1>2 DEF Typed, TypeOK, ConnTyped, SockTyped, HistTyped, BatchTyped, PhaseTyped,
     FrameTyped, UserTyped, NextTyped, CountTyped, ConnType, SockType, HistType, ByteType,
     FrameType, UserType

(* Every loop is one, and the pool has next_ among its own. *)
LEMMA NextLoopIsLoop == NextTyped => NextLoop \in Loops /\ Main \in Loops
<1>1. DEFINE pool == {SubLoops[i] : i \in DOMAIN SubLoops}
<1>2. SubLoops \in Seq(pool)
  BY LoopAssumption
<1>3. Loops = {Main} \union pool
  BY DEF Loops
<1> HIDE DEF pool
<1>4. QED BY <1>2, <1>3 DEF NextTyped, NextLoop

(* The functors that the code makes. *)
LEMMA FunctorsMade ==
  ASSUME NEW c \in Conns
  PROVE  /\ \A kind \in {"connectEstablished", "removeConnectionInLoop",
                          "connectDestroyed", "writeComplete", "highWaterMark",
                          "shutdownInLoop"} : Functor(kind, c) \in Functors
         /\ \A m \in 1..MaxSends : SendFunctor(c, m) \in Functors
         /\ \A m \in 1..MaxSends, off \in 0..FileLen :
               FileFunctor(c, m, off) \in Functors
  BY ServerAssumption DEF Functors, FunctorType, Functor, SendFunctor, FileFunctor, Owning

(* What is queued behind functors. *)
LEMMA QueueKeeps ==
  ASSUME QueueTyped, NEW l \in Loops, NEW fs \in Seq(Functors), Queue(l, fs)
  PROVE  QueueTyped'
<1>1. pending[l] \o fs \in Seq(Functors)
  BY ConcatProperties DEF QueueTyped
<1>2. QED BY <1>1 DEF QueueTyped, Queue

(* Functors on c that neither establish nor remove nor destroy it. *)
Quiet(c) == {f \in Functors : /\ f.c = c
                              /\ f.kind \in {"writeComplete", "highWaterMark", "sendInLoop",
                                             "sendFileInLoop", "shutdownInLoop"}}

(* Some of those are queued in loop l, or none. *)
QueuesQuiet(l, c) == \E fs \in Seq(Quiet(c)) : Queue(l, fs)

(* Those that the code makes. *)
LEMMA QuietMade ==
  ASSUME NEW c \in Conns
  PROVE  /\ \A kind \in {"writeComplete", "highWaterMark", "shutdownInLoop"} :
               Functor(kind, c) \in Quiet(c)
         /\ \A m \in 1..MaxSends : SendFunctor(c, m) \in Quiet(c)
         /\ \A m \in 1..MaxSends, off \in 0..FileLen :
               FileFunctor(c, m, off) \in Quiet(c)
<1>1. \A kind \in {"writeComplete", "highWaterMark", "shutdownInLoop"} :
         Functor(kind, c).c = c /\ Functor(kind, c).kind = kind
  BY DEF Functor
<1>2. \A m \in 1..MaxSends : /\ SendFunctor(c, m).c = c
                             /\ SendFunctor(c, m).kind = "sendInLoop"
  BY DEF SendFunctor
<1>3. \A m \in 1..MaxSends, off \in 0..FileLen :
         FileFunctor(c, m, off).c = c /\ FileFunctor(c, m, off).kind = "sendFileInLoop"
  BY DEF FileFunctor
<1>4. QED BY <1>1, <1>2, <1>3, FunctorsMade DEF Quiet

(* They are typed. *)
LEMMA QuietKeeps ==
  ASSUME QueueTyped, NEW l \in Loops, NEW c \in Conns, QueuesQuiet(l, c)
  PROVE  QueueTyped'
<1>1. PICK fs \in Seq(Quiet(c)) : Queue(l, fs)
  BY DEF QueuesQuiet
<1>2. fs \in Seq(Functors)
  BY SeqMonotonic DEF Quiet
<1>3. QED BY <1>1, <1>2, QueueKeeps

(* If: one functor or none, and two of them. *)
LEMMA IfQuiet ==
  ASSUME NEW S, NEW t1 \in BOOLEAN, NEW t2 \in BOOLEAN, NEW f1 \in S, NEW f2 \in S
  PROVE  If(t1, f1) \in Seq(S) /\ If(t1, f1) \o If(t2, f2) \in Seq(S)
<1>1. If(t1, f1) \in Seq(S) /\ If(t2, f2) \in Seq(S)
  BY DEF If
<1>2. QED BY <1>1, ConcatProperties

(* Init is typed. *)
LEMMA TypedInit == Init => Typed
<1> SUFFICES ASSUME Init PROVE Typed
  OBVIOUS
<1> USE ServerAssumption DEF Init
<1>1. NewChannel \in ChannelType
  BY DEF NewChannel, ChannelType
<1>2. ConnTyped
  BY <1>1 DEF ConnTyped, ConnType, Unborn, Loops
<1>3. SockTyped
  BY DEF SockTyped, SockType, NewSock
<1>4. HistTyped
  <2>1. NoHist \in HistType
    BY DEF NoHist, HistType
  <2>2. QED BY <2>1 DEF HistTyped
<1>5. QueueTyped /\ BatchTyped
  BY DEF QueueTyped, BatchTyped
<1>6. PhaseTyped /\ FrameTyped
  BY DEF PhaseTyped, FrameTyped, FrameType, NoFrame
<1>7. UserTyped
  BY DEF UserTyped, UserType
<1>8. NextTyped /\ CountTyped
  BY DEF NextTyped, CountTyped
<1>9. QED
  BY <1>2, <1>3, <1>4, <1>5, <1>6, <1>7, <1>8 DEF Typed
-----------------------------------------------------------------------------
(* What the steps do to connections, field by field.                       *)

(* Nothing but connection c and its history changes. *)
Only(c) == \A d \in Conns \ {c} : conn'[d] = conn[d] /\ hist'[d] = hist[d]

(* The parts of a connection and of its history that writing leaves. *)
SameLife(c) == /\ conn'[c].state = conn[c].state /\ conn'[c].loop = conn[c].loop
               /\ hist'[c].closed = hist[c].closed /\ hist'[c].downs = hist[c].downs
               /\ hist'[c].lateShut = hist[c].lateShut

(* What sendInLoop does unless it ends the process: n bytes of message m   *)
(* go to the kernel and the rest is kept, or all of it is given up.        *)
Sends(c, m, n, given) ==
  /\ conn'[c].out = IF given THEN conn[c].out \o Repeat(m, MsgLen - n) ELSE conn[c].out
  /\ conn'[c].chan = IF given /\ n < MsgLen /\ ~IsWriting(conn[c].chan)
                     THEN EnableWriting(conn[c].chan) ELSE conn[c].chan
  /\ hist'[c].sent = hist[c].sent \o Repeat(m, n)
  /\ hist'[c].accepted = IF given THEN Append(hist[c].accepted, m) ELSE hist[c].accepted
  /\ hist'[c].file = hist[c].file
  /\ n > 0 => given /\ ~IsWriting(conn[c].chan) /\ conn[c].out = <<>>

(* A part of a message is a sequence of bytes. *)
LEMMA RepeatIsSeq ==
  ASSUME NEW m \in 1..MaxSends, NEW k \in Nat
  PROVE  Repeat(m, k) \in Seq(1..MaxSends) /\ Len(Repeat(m, k)) = k
         /\ \A i \in 1..k : Repeat(m, k)[i] = m
  BY DEF Repeat

(* sendInLoop *)
LEMMA SendEffect ==
  ASSUME Typed, NEW c \in Conns, NEW m \in 1..MaxSends, SendInLoop(c, m)
  PROVE  \/ fault' = "SIGPIPE" /\ UNCHANGED <<conn, sock, pending, hist>>
         \/ /\ fault' = fault
            /\ ConnTyped' /\ SockTyped' /\ HistTyped'
            /\ Only(c) /\ SameLife(c)
            /\ \E n \in 0..MsgLen, given \in BOOLEAN : Sends(c, m, n, given)
            /\ \A d \in Conns : sock'[d].wrShut = sock[d].wrShut
            /\ QueuesQuiet(conn[c].loop, c)
<1> DEFINE k == conn[c]
           result == IF MayWriteDirectly(k) THEN WriteResult(sock[c]) ELSE "buffered"
           nwrote == IF result = "ok" THEN Smaller(MsgLen, sock[c].room) ELSE 0
           remaining  == MsgLen - nwrote
           faultError == result = "ECONNRESET"
           keep       == ~faultError /\ remaining > 0
           out == IF keep THEN k.out \o Repeat(m, remaining) ELSE k.out
           ch  == IF keep /\ ~IsWriting(k.chan) THEN EnableWriting(k.chan) ELSE k.chan
           err == ErrorAfter(result, sock[c].err)
           took == IF faultError THEN hist[c].accepted ELSE Append(hist[c].accepted, m)
<1>1. CASE result = "SIGPIPE"
  BY <1>1 DEF SendInLoop
<1>2. CASE result # "SIGPIPE"
  <2>1. fault' = fault
    BY <1>2 DEF SendInLoop
  <2>2. conn' = [conn EXCEPT ![c].out = out, ![c].chan = ch]
    BY <1>2, Zenon DEF SendInLoop
  <2>3. sock' = [sock EXCEPT ![c].room = sock[c].room - nwrote, ![c].err = err]
    BY <1>2, Zenon DEF SendInLoop
  <2>4. hist' = [hist EXCEPT ![c].sent = hist[c].sent \o Repeat(m, nwrote),
                             ![c].accepted = took]
    BY <1>2, Zenon DEF SendInLoop
  <2>5. k \in ConnType /\ hist[c] \in HistType /\ sock[c] \in SockType
    BY DEF Typed, ConnTyped, HistTyped, SockTyped
  <2>6. /\ nwrote \in 0..MsgLen /\ nwrote <= sock[c].room
        /\ nwrote > 0 => ~faultError /\ MayWriteDirectly(k)
        /\ remaining \in Nat
    BY <2>5, ServerAssumption DEF SockType, Smaller
  <2>7. EnableWriting(k.chan) \in ChannelType
    BY <2>5, ChannelEffect DEF ConnType, OpEffect
  <2>8. faultError \in BOOLEAN /\ remaining = MsgLen - nwrote
    OBVIOUS
  <2> HIDE DEF result, nwrote, remaining, faultError
  <2>9. k.out \in Seq(1..MaxSends) /\ k.chan \in ChannelType
        /\ hist[c].sent \in Seq(1..MaxSends) /\ hist[c].accepted \in Seq(1..MaxSends)
    BY <2>5 DEF ConnType, HistType
  <2>10. Repeat(m, remaining) \in Seq(1..MaxSends) /\ Repeat(m, nwrote) \in Seq(1..MaxSends)
    BY <2>6, RepeatIsSeq
  <2>11. /\ out \in Seq(1..MaxSends) /\ took \in Seq(1..MaxSends)
         /\ hist[c].sent \o Repeat(m, nwrote) \in Seq(1..MaxSends)
    BY <2>9, <2>10, ConcatProperties, AppendProperties
  <2>12. ch \in ChannelType
    BY <2>7, <2>9
  <2>13. err \in {"none", "EPIPE"} \union PendingErrors /\ sock[c].room - nwrote \in 0..Room
    BY <2>5, <2>6, ServerAssumption DEF SockType, ErrorAfter
  <2>14. Sends(c, m, nwrote, ~faultError)
    <3>1. conn'[c].out = out /\ conn'[c].chan = ch
      <4> HIDE DEF out, ch, keep
      <4>1. QED BY <2>2, <2>5 DEF Typed, ConnTyped, ConnType
    <3>2. hist'[c].sent = hist[c].sent \o Repeat(m, nwrote) /\ hist'[c].accepted = took
          /\ hist'[c].file = hist[c].file
      <4> HIDE DEF took
      <4>1. QED BY <2>4, <2>5 DEF Typed, HistTyped, HistType
    <3>3. remaining = 0 => k.out \o Repeat(m, remaining) = k.out
      <4>1. SUFFICES ASSUME remaining = 0 PROVE k.out \o Repeat(m, remaining) = k.out
        OBVIOUS
      <4>2. Repeat(m, remaining) = <<>>
        BY <2>10, <4>1, RepeatIsSeq
      <4>3. QED BY <2>9, <4>2, ConcatEmptySeq
    <3>4. Repeat(m, remaining) = Repeat(m, MsgLen - nwrote)
      BY <2>8
    <3>5. out = IF ~faultError THEN k.out \o Repeat(m, MsgLen - nwrote) ELSE k.out
      <4>1. CASE faultError
        BY <4>1
      <4>2. CASE ~faultError /\ remaining > 0
        BY <3>4, <4>2
      <4>3. CASE ~faultError /\ ~(remaining > 0)
        <5>1. remaining = 0
          BY <2>6, <4>3
        <5>2. k.out = k.out \o Repeat(m, MsgLen - nwrote)
          BY <3>3, <3>4, <5>1
        <5>3. QED BY <4>3, <5>2
      <4>4. QED BY <4>1, <4>2, <4>3
    <3>6. ch = IF ~faultError /\ nwrote < MsgLen /\ ~IsWriting(k.chan)
               THEN EnableWriting(k.chan) ELSE k.chan
      BY <2>6, <2>8, ServerAssumption
    <3>7. nwrote > 0 => ~faultError /\ ~IsWriting(k.chan) /\ k.out = <<>>
      BY <2>6 DEF MayWriteDirectly
    <3> HIDE DEF out, ch, keep
    <3>8. QED BY <3>1, <3>2, <3>5, <3>6, <3>7 DEF Sends
  <2> HIDE DEF out, ch, keep, err, took
  <2>15. ConnTyped'
    BY <2>2, <2>11, <2>12, ZenonT(60) DEF Typed, ConnTyped, ConnType
  <2>16. SockTyped' /\ \A d \in Conns : sock'[d].wrShut = sock[d].wrShut
    BY <2>3, <2>13, ZenonT(60) DEF Typed, SockTyped, SockType
  <2>17. HistTyped'
    BY <2>4, <2>11, ZenonT(60) DEF Typed, HistTyped, HistType
  <2>18. Only(c) /\ SameLife(c)
    BY <2>2, <2>4 DEF Only, SameLife, Typed, ConnTyped, ConnType, HistTyped, HistType
  <2>19. QueuesQuiet(k.loop, c)
    <3>1. \E t1 \in BOOLEAN, t2 \in BOOLEAN :
             Queue(k.loop, If(t1, Functor("writeComplete", c))
                             \o If(t2, Functor("highWaterMark", c)))
      BY <1>2, Zenon DEF SendInLoop, result
    <3>2. QED BY <3>1, IfQuiet, QuietMade DEF QueuesQuiet
  <2>20. QED BY <2>1, <2>6, <2>8, <2>14, <2>15, <2>16, <2>17, <2>18, <2>19
<1>3. QED BY <1>1, <1>2
(* sendFileInLoop *)
LEMMA SendFileEffect ==
  ASSUME Typed, NEW c \in Conns, NEW m \in 1..MaxSends, NEW off \in 0..FileLen,
         SendFileInLoop(c, m, off)
  PROVE  \/ fault' = "SIGPIPE" /\ UNCHANGED <<sock, pending, hist>>
         \/ /\ fault' = fault
            /\ SockTyped' /\ HistTyped'
            /\ \A d \in Conns :
                  /\ d # c => hist'[d] = hist[d]
                  /\ hist'[d].sent = hist[d].sent /\ hist'[d].accepted = hist[d].accepted
                  /\ hist'[d].closed = hist[d].closed /\ hist'[d].downs = hist[d].downs
                  /\ hist'[d].lateShut = hist[d].lateShut
            /\ \A d \in Conns : sock'[d].wrShut = sock[d].wrShut
            /\ QueuesQuiet(conn[c].loop, c)
<1> DEFINE k == conn[c]
           result     == CASE ~MaySendFile(k) -> "waits"
                           [] MaySendFile(k) /\ off >= FileLen -> "ok"
                           [] OTHER -> WriteResult(sock[c])
           bytesSent  == IF result = "ok"
                         THEN Smaller(Smaller(FileCount, FileLen - off), sock[c].room) ELSE 0
           faultError == result = "ECONNRESET"
           err == ErrorAfter(result, sock[c].err)
           bytes == [i \in 1..bytesSent |->
                        [call |-> m, pos |-> off + i, after |-> Len(hist[c].sent)]]
           file == hist[c].file \o bytes
<1>1. CASE result = "SIGPIPE"
  BY <1>1, Zenon DEF SendFileInLoop
<1>2. CASE result # "SIGPIPE"
  <2>1. fault' = fault
    BY <1>2, Zenon DEF SendFileInLoop
  <2>2. sock' = [sock EXCEPT ![c].room = sock[c].room - bytesSent, ![c].err = err]
    BY <1>2, Zenon DEF SendFileInLoop
  <2>3. hist' = [hist EXCEPT ![c].file = file]
    BY <1>2, Zenon DEF SendFileInLoop
  <2>4. \E t1 \in BOOLEAN, t2 \in BOOLEAN :
           Queue(k.loop, If(t1, Functor("writeComplete", c))
                           \o If(t2, FileFunctor(c, m, off + bytesSent)))
    BY <1>2, Zenon DEF SendFileInLoop, FileAgain, FileRest
  <2>5. hist[c] \in HistType /\ sock[c] \in SockType
    BY DEF Typed, HistTyped, SockTyped
  <2>6. bytesSent \in Nat /\ bytesSent <= sock[c].room /\ off + bytesSent \in 0..FileLen
    BY <2>5, ServerAssumption DEF SockType, Smaller
  <2>7. err \in {"none", "EPIPE"} \union PendingErrors
    BY <2>5 DEF SockType, ErrorAfter
  <2> HIDE DEF result, bytesSent, faultError, err
  <2>8. sock[c].room - bytesSent \in 0..Room
    BY <2>5, <2>6, ServerAssumption DEF SockType
  <2>9. file \in Seq(ByteType)
    <3>1. Len(hist[c].sent) \in Nat
      BY <2>5 DEF HistType
    <3>2. \A i \in 1..bytesSent :
             [call |-> m, pos |-> off + i, after |-> Len(hist[c].sent)] \in ByteType
      <4> SUFFICES ASSUME NEW i \in 1..bytesSent
                   PROVE [call |-> m, pos |-> off + i, after |-> Len(hist[c].sent)] \in ByteType
        OBVIOUS
      <4>1. off + i \in 1..FileLen
        BY <2>6, ServerAssumption
      <4>2. QED BY <3>1, <4>1 DEF ByteType
    <3>3. bytes \in Seq(ByteType)
      BY <2>6, <3>2, IsASeq
    <3> HIDE DEF bytes
    <3>4. QED BY <2>5, <3>3, ConcatProperties DEF HistType
  <2> HIDE DEF file
  <2>10. SockTyped' /\ \A d \in Conns : sock'[d].wrShut = sock[d].wrShut
    BY <2>2, <2>7, <2>8, ZenonT(60) DEF Typed, SockTyped, SockType
  <2>11. /\ HistTyped'
         /\ \A d \in Conns :
               /\ d # c => hist'[d] = hist[d]
               /\ hist'[d].sent = hist[d].sent /\ hist'[d].accepted = hist[d].accepted
               /\ hist'[d].closed = hist[d].closed /\ hist'[d].downs = hist[d].downs
               /\ hist'[d].lateShut = hist[d].lateShut
    BY <2>3, <2>9, ZenonT(60) DEF Typed, HistTyped, HistType
  <2>12. QueuesQuiet(k.loop, c)
    <3>1. PICK rest \in 0..FileLen : rest = off + bytesSent
      BY <2>6
    <3>2. \E t1 \in BOOLEAN, t2 \in BOOLEAN :
             Queue(k.loop, If(t1, Functor("writeComplete", c)) \o If(t2, FileFunctor(c, m, rest)))
      BY <2>4, <3>1
    <3>3. Functor("writeComplete", c) \in Quiet(c) /\ FileFunctor(c, m, rest) \in Quiet(c)
      BY <3>1, QuietMade
    <3>4. QED BY <3>2, <3>3, IfQuiet DEF QueuesQuiet
  <2>13. QED BY <2>1, <2>10, <2>11, <2>12
<1>3. QED BY <1>1, <1>2

(* What handleWrite does to connection c: n bytes leave outputBuffer_, and *)
(* write events are turned off once it is empty.                           *)
Drains(c, n) ==
  /\ n \in 0..Len(conn[c].out)
  /\ conn'[c].out = SubSeq(conn[c].out, n + 1, Len(conn[c].out))
  /\ hist'[c].sent = hist[c].sent \o SubSeq(conn[c].out, 1, n)
  /\ hist'[c].accepted = hist[c].accepted /\ hist'[c].file = hist[c].file
  /\ \/ /\ IsWriting(conn[c].chan) /\ n = Len(conn[c].out)
        /\ conn'[c].chan = DisableWriting(conn[c].chan)
     \/ /\ n < Len(conn[c].out) \/ n = 0
        /\ conn'[c].chan = conn[c].chan
        /\ sock'[c].wrShut = sock[c].wrShut

(* handleWrite *)
LEMMA WriteEffect ==
  ASSUME Typed, NEW l \in Loops, WriteCallback(l)
  PROVE  /\ frame[l].c \in Conns
         /\ ConnTyped' /\ SockTyped' /\ HistTyped'
         /\ Only(frame[l].c) /\ SameLife(frame[l].c)
         /\ \E n \in Nat : Drains(frame[l].c, n)
         /\ \A d \in Conns \ {frame[l].c} : sock'[d] = sock[d]
         /\ QueuesQuiet(l, frame[l].c)
         /\ fault' \in {fault, "SIGPIPE"}
<1>1. PICK c : c = frame[l].c
  OBVIOUS
<1>2. c \in Conns
  BY <1>1 DEF WriteCallback, Handling, IsNext, Typed, FrameTyped
<1> DEFINE k       == conn[c]
           result  == IF IsWriting(k.chan) THEN WriteResult(sock[c]) ELSE "down"
           n       == IF result = "ok" THEN Smaller(Len(k.out), sock[c].room) ELSE 0
           emptied == result = "ok" /\ n = Len(k.out)
           s       == [sock[c] EXCEPT !.room = @ - n,
                                      !.err = ErrorAfter(result, @)]
           ch      == DisableWriting(k.chan)
           out     == SubSeq(k.out, n + 1, Len(k.out))
           chan    == IF emptied THEN ch ELSE k.chan
           after   == IF emptied THEN AfterOutput(k.state, ch, s) ELSE s
           sent    == hist[c].sent \o SubSeq(k.out, 1, n)
<1>3. fault' = IF result = "SIGPIPE" THEN "SIGPIPE" ELSE fault
  BY <1>1, Zenon DEF WriteCallback
<1>4. conn' = [conn EXCEPT ![c].out = out, ![c].chan = chan]
  BY <1>1, Zenon DEF WriteCallback
<1>5. sock' = [sock EXCEPT ![c] = after]
  BY <1>1, Zenon DEF WriteCallback
<1>6. hist' = [hist EXCEPT ![c].sent = sent]
  BY <1>1, Zenon DEF WriteCallback
<1>7. Queue(l, If(emptied /\ "writeComplete" \in UserCallbacks, Functor("writeComplete", c)))
  BY <1>1, Zenon DEF WriteCallback
<1>8. k \in ConnType /\ hist[c] \in HistType /\ sock[c] \in SockType
  BY <1>2 DEF Typed, ConnTyped, HistTyped, SockTyped
<1>9. k.out \in Seq(1..MaxSends) /\ k.chan \in ChannelType /\ Len(k.out) \in Nat
      /\ hist[c].sent \in Seq(1..MaxSends) /\ sock[c].room \in Nat
  BY <1>8, ServerAssumption, SMTT(60) DEF ConnType, HistType, SockType
<1>10. n \in 0..Len(k.out) /\ n <= sock[c].room /\ (n < Len(k.out) \/ n = 0 \/ emptied)
       /\ (emptied => IsWriting(k.chan) /\ n = Len(k.out))
  BY <1>9 DEF Smaller
<1>11. s \in SockType /\ s.wrShut = sock[c].wrShut
  <2> DEFINE room == sock[c].room - n
             err  == ErrorAfter(result, sock[c].err)
  <2>1. room \in 0..Room
    BY <1>8, <1>10, ServerAssumption DEF SockType
  <2>2. err \in {"none", "EPIPE"} \union PendingErrors
    BY <1>8 DEF SockType, ErrorAfter
  <2>3. s = [sock[c] EXCEPT !.room = room, !.err = err]
    BY Zenon
  <2> HIDE DEF room, err, s
  <2>4. QED BY <1>8, <2>1, <2>2, <2>3 DEF SockType
<1>12. ch \in ChannelType
  BY <1>9, ChannelEffect DEF OpEffect
<1>13. emptied \in BOOLEAN
  OBVIOUS
<1> HIDE DEF result, n, emptied, s
<1>14. after \in SockType /\ (~emptied => after.wrShut = sock[c].wrShut)
  BY <1>8, <1>11, <1>13 DEF AfterOutput, ShutdownInLoop, ShutdownWrite, SockType
<1>15. out \in Seq(1..MaxSends) /\ chan \in ChannelType /\ sent \in Seq(1..MaxSends)
  <2>1. SubSeq(k.out, 1, n) \in Seq(1..MaxSends) /\ out \in Seq(1..MaxSends)
    <3>1. \A i \in 1..Len(k.out) : k.out[i] \in 1..MaxSends
      BY <1>9, ElementOfSeq
    <3>2. \A i \in 1..n : k.out[i] \in 1..MaxSends
      BY <1>9, <1>10, <3>1
    <3>3. \A i \in (n + 1)..Len(k.out) : k.out[i] \in 1..MaxSends
      BY <1>9, <1>10, <3>1
    <3>4. n \in Int /\ n + 1 \in Int /\ Len(k.out) \in Int
      BY <1>9, <1>10
    <3>5. QED BY <3>2, <3>3, <3>4, SubSeqProperties
  <2>2. QED BY <1>9, <1>12, <2>1, ConcatProperties
<1>16. fault' \in {fault, "SIGPIPE"}
  BY <1>3
<1>17. QueuesQuiet(l, c)
  BY <1>2, <1>7, <1>13, IfQuiet, QuietMade DEF QueuesQuiet
<1> HIDE DEF out, chan, after, sent
<1>18. ConnTyped' /\ SockTyped' /\ HistTyped'
  <2>1. ConnTyped'
    BY <1>2, <1>4, <1>15, ZenonT(60) DEF Typed, ConnTyped, ConnType
  <2>2. SockTyped'
    BY <1>2, <1>5, <1>14 DEF Typed, SockTyped
  <2>3. HistTyped'
    BY <1>2, <1>6, <1>15, ZenonT(60) DEF Typed, HistTyped, HistType
  <2>4. QED BY <2>1, <2>2, <2>3
<1>19. Only(c) /\ SameLife(c) /\ \A d \in Conns \ {c} : sock'[d] = sock[d]
  BY <1>2, <1>4, <1>5, <1>6 DEF Only, SameLife, Typed, ConnTyped, ConnType, SockTyped, HistTyped, HistType
<1>20. /\ conn'[c].out = out /\ conn'[c].chan = chan /\ sock'[c] = after
       /\ hist'[c].sent = sent /\ hist'[c].accepted = hist[c].accepted
       /\ hist'[c].file = hist[c].file
  BY <1>2, <1>4, <1>5, <1>6 DEF Typed, ConnTyped, ConnType, SockTyped, HistTyped, HistType
<1>21. Drains(c, n)
  BY <1>10, <1>14, <1>20 DEF Drains, out, chan, sent
<1>22. QED BY <1>1, <1>2, <1>10, <1>16, <1>17, <1>18, <1>19, <1>21
(* The state or the channel of one connection is set, and nothing else of  *)
(* it.                                                                     *)
Becomes(c, state, ch) ==
  /\ \A d \in Conns \ {c} : conn'[d] = conn[d]
  /\ conn'[c].state = state /\ conn'[c].chan = ch
  /\ conn'[c].loop = conn[c].loop /\ conn'[c].out = conn[c].out

(* It stays typed. *)
LEMMA BecomesEffect ==
  ASSUME ConnTyped, NEW c \in Conns,
         NEW state \in {"backlog", "refused", "kConnecting", "kConnected", "kDisconnected"},
         NEW ch \in ChannelType
  PROVE  /\ conn' = [conn EXCEPT ![c].state = state, ![c].chan = ch]
                => ConnTyped' /\ Becomes(c, state, ch)
         /\ conn' = [conn EXCEPT ![c].state = state]
                => ConnTyped' /\ Becomes(c, state, conn[c].chan)
         /\ conn' = [conn EXCEPT ![c].chan = ch]
                => ConnTyped' /\ Becomes(c, conn[c].state, ch)
<1>1. ASSUME conn' = [conn EXCEPT ![c].state = state, ![c].chan = ch]
      PROVE  ConnTyped' /\ Becomes(c, state, ch)
  BY <1>1 DEF ConnTyped, ConnType, Becomes
<1>2. ASSUME conn' = [conn EXCEPT ![c].state = state]
      PROVE  ConnTyped' /\ Becomes(c, state, conn[c].chan)
  BY <1>2 DEF ConnTyped, ConnType, Becomes
<1>3. ASSUME conn' = [conn EXCEPT ![c].chan = ch]
      PROVE  ConnTyped' /\ Becomes(c, conn[c].state, ch)
  BY <1>3 DEF ConnTyped, ConnType, Becomes
<1>4. QED BY <1>1, <1>2, <1>3

(* connectEstablished *)
LEMMA EstablishedEffect ==
  ASSUME Typed, NEW l \in Loops, NEW c \in Conns, ConnectEstablished(l, c)
  PROVE  /\ ConnTyped'
         /\ Becomes(c, "kConnected", EnableReading(conn[c].chan))
         /\ Call(l, c, "up", {})
<1>1. EnableReading(conn[c].chan) \in ChannelType
  BY ChannelEffect DEF Typed, ConnTyped, ConnType, OpEffect
<1>2. conn' = [conn EXCEPT ![c].state = "kConnected", ![c].chan = EnableReading(conn[c].chan)]
  BY Zenon DEF ConnectEstablished
<1>3. QED BY <1>1, <1>2, BecomesEffect DEF ConnectEstablished, Typed

(* handleClose, up to the connection callback. *)
Closes(c) ==
  /\ Becomes(c, conn[c].state, DisableAll(conn[c].chan))
  /\ \A d \in Conns \ {c} : hist'[d] = hist[d]
  /\ hist'[c].closed = TRUE /\ hist'[c].lateShut = hist[c].lateShut
  /\ hist'[c].downs = IF conn[c].state = "kConnected" THEN hist[c].downs
                      ELSE hist[c].downs + 1
  /\ hist'[c].sent = hist[c].sent /\ hist'[c].accepted = hist[c].accepted
  /\ hist'[c].file = hist[c].file

(* handleClose *)
LEMMA CloseEffect ==
  ASSUME Typed, NEW l \in Loops, NEW c \in Conns, NEW due, HandleClose(l, c, due)
  PROVE  ConnTyped' /\ HistTyped' /\ Closes(c)
<1>1. DisableAll(conn[c].chan) \in ChannelType /\ conn[c] \in ConnType
  BY ChannelEffect DEF Typed, ConnTyped, ConnType, OpEffect
<1>2. conn' = [conn EXCEPT ![c].chan = DisableAll(conn[c].chan)]
  BY Zenon DEF HandleClose
<1> DEFINE downs == IF conn[c].state = "kConnected" THEN hist[c].downs ELSE hist[c].downs + 1
<1>3. hist' = [hist EXCEPT ![c].downs = downs, ![c].closed = TRUE]
  BY Zenon DEF HandleClose, CountDown
<1>4. downs \in Nat
  BY DEF Typed, HistTyped, HistType
<1>5. ConnTyped' /\ Becomes(c, conn[c].state, DisableAll(conn[c].chan))
  <2>1. ConnTyped' /\ conn'[c].state = conn[c].state
    BY <1>1, <1>2 DEF Typed, ConnTyped, ConnType
  <2>2. QED BY <1>1, <1>2, <2>1 DEF Becomes, Typed, ConnTyped, ConnType
<1>6. conn[c].state = "kConnected" => downs = hist[c].downs
  OBVIOUS
<1>7. conn[c].state # "kConnected" => downs = hist[c].downs + 1
  OBVIOUS
<1> HIDE DEF downs
<1>8. /\ HistTyped'
      /\ \A d \in Conns \ {c} : hist'[d] = hist[d]
      /\ hist'[c].closed = TRUE /\ hist'[c].lateShut = hist[c].lateShut
      /\ hist'[c].downs = downs
      /\ hist'[c].sent = hist[c].sent /\ hist'[c].accepted = hist[c].accepted
      /\ hist'[c].file = hist[c].file
  BY <1>3, <1>4, ZenonT(60) DEF Typed, HistTyped, HistType
<1>9. QED BY <1>5, <1>6, <1>7, <1>8 DEF Closes

(* connectDestroyed, up to the connection callback if it makes one. *)
Destroys(l, c) ==
  \/ /\ conn[c].state = "kConnected"
     /\ Becomes(c, "kDisconnected", DisableAll(conn[c].chan))
     /\ \A d \in Conns \ {c} : hist'[d] = hist[d]
     /\ hist'[c].closed = hist[c].closed /\ hist'[c].lateShut = hist[c].lateShut
     /\ hist'[c].downs = hist[c].downs + 1
     /\ hist'[c].sent = hist[c].sent /\ hist'[c].accepted = hist[c].accepted
     /\ hist'[c].file = hist[c].file
     /\ Call(l, c, "down", {})
  \/ /\ conn[c].state # "kConnected"
     /\ Becomes(c, conn[c].state, RemoveChannel(conn[c].chan))
     /\ UNCHANGED <<hist, frame>>

(* connectDestroyed *)
LEMMA DestroyedEffect ==
  ASSUME Typed, NEW l \in Loops, NEW c \in Conns, ConnectDestroyed(l, c)
  PROVE  ConnTyped' /\ HistTyped' /\ Destroys(l, c)
<1>1. /\ DisableAll(conn[c].chan) \in ChannelType /\ RemoveChannel(conn[c].chan) \in ChannelType
      /\ conn[c] \in ConnType
  BY ChannelEffect, RemoveEffect DEF Typed, ConnTyped, ConnType, OpEffect
<1>2. CASE conn[c].state = "kConnected"
  <2>1. /\ conn' = [conn EXCEPT ![c].state = "kDisconnected",
                                ![c].chan = DisableAll(conn[c].chan)]
        /\ hist' = [hist EXCEPT ![c].downs = hist[c].downs + 1]
        /\ Call(l, c, "down", {})
    BY <1>2, Zenon DEF ConnectDestroyed
  <2>2. ConnTyped' /\ Becomes(c, "kDisconnected", DisableAll(conn[c].chan))
    BY <1>1, <2>1, BecomesEffect DEF Typed
  <2>3. /\ HistTyped'
        /\ \A d \in Conns \ {c} : hist'[d] = hist[d]
        /\ hist'[c].closed = hist[c].closed /\ hist'[c].lateShut = hist[c].lateShut
        /\ hist'[c].downs = hist[c].downs + 1
        /\ hist'[c].sent = hist[c].sent /\ hist'[c].accepted = hist[c].accepted
        /\ hist'[c].file = hist[c].file
    <3>1. hist' = [hist EXCEPT ![c].downs = hist[c].downs + 1]
      BY <2>1
    <3>2. hist[c].downs + 1 \in Nat
      BY DEF Typed, HistTyped, HistType
    <3>3. QED BY <3>1, <3>2 DEF Typed, HistTyped, HistType
  <2>4. QED BY <1>2, <2>1, <2>2, <2>3 DEF Destroys
<1>3. CASE conn[c].state # "kConnected"
  <2>1. /\ conn' = [conn EXCEPT ![c].chan = RemoveChannel(conn[c].chan)]
        /\ UNCHANGED <<hist, frame>>
    BY <1>3, Zenon DEF ConnectDestroyed
  <2>2. ConnTyped' /\ Becomes(c, conn[c].state, RemoveChannel(conn[c].chan))
    <3>1. ConnTyped' /\ conn'[c].state = conn[c].state
      BY <1>1, <2>1 DEF Typed, ConnTyped, ConnType
    <3>2. QED BY <1>1, <2>1, <3>1 DEF Becomes, Typed, ConnTyped, ConnType
  <2>3. QED BY <1>3, <2>1, <2>2 DEF Destroys, Typed, HistTyped
<1>4. QED BY <1>2, <1>3

(* The frame of a loop after a call and after the end of a callback. *)
LEMMA FrameEffect ==
  ASSUME FrameTyped, NEW l \in Loops
  PROVE  /\ \A c \in Conns, due \in SUBSET Callbacks :
               \A cb \in {"none", "up", "message", "close", "down", "writeComplete",
                           "highWaterMark"} :
                 Call(l, c, cb, due) => FrameTyped'
         /\ \A due \in SUBSET frame[l].due : Resume(l, due) => FrameTyped'
<1>1. ASSUME NEW c \in Conns, NEW due \in SUBSET Callbacks,
             NEW cb \in {"none", "up", "message", "close", "down", "writeComplete",
                         "highWaterMark"},
             Call(l, c, cb, due)
      PROVE  FrameTyped'
  BY <1>1 DEF Call, FrameTyped, FrameType
<1>2. ASSUME NEW due \in SUBSET frame[l].due, Resume(l, due)
      PROVE  FrameTyped'
  <2>1. CASE due = {}
    <3>1. frame' = [frame EXCEPT ![l] = NoFrame]
      BY <1>2, <2>1, Zenon DEF Resume
    <3>2. NoFrame \in FrameType
      BY DEF NoFrame, FrameType
    <3>3. NoFrame.cb = "none" /\ NoFrame.due = {}
      BY DEF NoFrame
    <3>4. QED BY <3>1, <3>2, <3>3 DEF FrameTyped
  <2>2. CASE due # {}
    <3>1. frame' = [frame EXCEPT ![l] = [frame[l] EXCEPT !.cb = "none", !.due = due]]
      BY <1>2, <2>2, Zenon DEF Resume
    <3>2. frame[l] \in FrameType /\ due \subseteq Callbacks /\ frame[l].c \in Conns
      BY <2>2 DEF FrameTyped, FrameType
    <3>3. QED BY <3>1, <3>2 DEF FrameTyped, FrameType
  <2>3. QED BY <2>1, <2>2
<1>3. QED BY <1>1, <1>2
-----------------------------------------------------------------------------
(* Every step keeps the types.                                             *)

(* The peers. *)
LEMMA PeerTyped ==
  ASSUME Typed, NEW c \in Conns, PeerStep(c) \/ PeerRead(c)
  PROVE  Typed' /\ hist' = hist /\ pending' = pending
<1>1. CASE Connect(c)
  <2>1. ConnTyped'
    <3>1. conn' = [conn EXCEPT ![c].state = "backlog"]
      BY <1>1 DEF Connect
    <3>2. QED BY <3>1 DEF Typed, ConnTyped, ConnType
  <2>2. UNCHANGED <<sock, connections, next, pending, loopVars, frame, user, sends, data,
                    hist, fault>>
    BY <1>1 DEF Connect
  <2>3. QED
    BY <2>1, <2>2 DEF Typed, SockTyped, HistTyped, QueueTyped, BatchTyped, PhaseTyped,
       FrameTyped, UserTyped, NextTyped, CountTyped, loopVars
<1>2. ASSUME NEW s \in SockType, PeerActs(c, s), data' \in 0..MaxData
      PROVE  Typed' /\ hist' = hist /\ pending' = pending
  <2>1. SockTyped'
    BY <1>2 DEF PeerActs, Typed, SockTyped
  <2>2. UNCHANGED <<conn, connections, next, pending, loopVars, frame, user, sends, hist,
                    fault>>
    BY <1>2 DEF PeerActs
  <2>3. QED
    BY <1>2, <2>1, <2>2 DEF Typed, ConnTyped, HistTyped, QueueTyped, BatchTyped, PhaseTyped,
       FrameTyped, UserTyped, NextTyped, CountTyped, loopVars
<1>3. sock[c] \in SockType /\ data \in 0..MaxData
  BY DEF Typed, SockTyped, CountTyped
<1>4. CASE PeerSend(c)
  <2>1. [sock[c] EXCEPT !.rcv = 1] \in SockType
    BY <1>3 DEF SockType
  <2>2. data' \in 0..MaxData
    BY <1>3, <1>4, ServerAssumption DEF PeerSend
  <2>3. QED BY <1>2, <1>4, <2>1, <2>2 DEF PeerSend
<1>5. CASE PeerFin(c)
  <2>1. [sock[c] EXCEPT !.fin = TRUE] \in SockType
    BY <1>3 DEF SockType
  <2>2. QED BY <1>2, <1>3, <1>5, <2>1 DEF PeerFin
<1>6. CASE PeerReset(c)
  <2>1. PICK e \in {"EPIPE"} \union PendingErrors :
           PeerActs(c, [sock[c] EXCEPT !.rst = TRUE, !.err = e]) /\ data' = data
    BY <1>6 DEF PeerReset, PendingErrors
  <2>2. [sock[c] EXCEPT !.rst = TRUE, !.err = e] \in SockType
    BY <1>3, <2>1 DEF SockType
  <2>3. QED BY <1>2, <1>3, <2>1, <2>2
<1>7. CASE PeerRead(c)
  <2>1. sock[c].room + 1 \in 0..Room
    BY <1>3, <1>7, ServerAssumption DEF PeerRead, SockType
  <2>2. [sock[c] EXCEPT !.room = sock[c].room + 1] \in SockType
    BY <1>3, <2>1 DEF SockType
  <2>3. PeerActs(c, [sock[c] EXCEPT !.room = sock[c].room + 1]) /\ data' = data
    BY <1>7 DEF PeerRead
  <2>4. QED BY <1>2, <1>3, <2>2, <2>3
<1>8. QED BY <1>1, <1>4, <1>5, <1>6, <1>7 DEF PeerStep

(* epoll_wait returns. *)
LEMMA PollTyped ==
  ASSUME Typed, NEW l \in Loops, Poll(l)
  PROVE  /\ Typed'
         /\ \A c \in Conns :
               /\ conn'[c].state = conn[c].state /\ conn'[c].loop = conn[c].loop
               /\ conn'[c].out = conn[c].out
               /\ conn'[c].chan.events = conn[c].chan.events
               /\ conn'[c].chan.index = conn[c].chan.index
               /\ conn'[c].chan.watched = conn[c].chan.watched
               /\ conn'[c].chan.listed = conn[c].chan.listed
               /\ conn'[c].chan.mask = conn[c].chan.mask
<1>1. ASSUME NEW c \in Conns
      PROVE  /\ conn'[c] \in ConnType
             /\ conn'[c].state = conn[c].state /\ conn'[c].loop = conn[c].loop
             /\ conn'[c].out = conn[c].out
             /\ conn'[c].chan.events = conn[c].chan.events
             /\ conn'[c].chan.index = conn[c].chan.index
             /\ conn'[c].chan.watched = conn[c].chan.watched
             /\ conn'[c].chan.listed = conn[c].chan.listed
             /\ conn'[c].chan.mask = conn[c].chan.mask
  <2>1. conn[c] \in ConnType
    BY DEF Typed, ConnTyped
  <2>2. CASE c \notin ReadyConns(l)
    <3>1. conn'[c] = conn[c]
      BY <2>2 DEF Poll
    <3>2. QED BY <2>1, <3>1
  <2>3. CASE c \in ReadyConns(l)
    <3>1. PICK r \in SUBSET {"IN", "OUT", "HUP", "ERR"} :
             r = Reported(conn[c].chan, Readiness(sock[c]))
      BY DEF Reported, Readiness
    <3>2. conn'[c] = [conn[c] EXCEPT !.chan.revents = r]
      BY <2>3, <3>1 DEF Poll
    <3>3. QED BY <2>1, <3>1, <3>2 DEF ConnType, ChannelType
  <2>4. QED BY <2>2, <2>3
<1>2. ConnTyped'
  <2>1. conn' = [c \in Conns |-> conn'[c]]
    BY DEF Poll
  <2>2. QED BY <1>1, <2>1 DEF ConnTyped
<1>3. PhaseTyped'
  <2>1. ReadyConns(l) \union ReadyAcceptor(l) \in SUBSET (Conns \union {Acceptor})
    BY DEF ReadyConns, ReadyAcceptor
  <2>2. phase' = [phase EXCEPT ![l] = "dispatch"]
        /\ active' = [active EXCEPT ![l] = ReadyConns(l) \union ReadyAcceptor(l)]
    BY DEF Poll
  <2>3. QED BY <2>1, <2>2 DEF Typed, PhaseTyped
<1>4. UNCHANGED <<sock, connections, next, pending, batch, pos, frame, user, sends, data,
                  hist, fault>>
  BY DEF Poll
<1>5. QED
  BY <1>1, <1>2, <1>3, <1>4 DEF Typed, SockTyped, HistTyped, QueueTyped, BatchTyped,
     FrameTyped, UserTyped, NextTyped, CountTyped
(* What newConnection does to the connection and to the queues. *)
Arrives(c) ==
  \/ /\ Becomes(c, "kConnected", EnableReading(conn[c].chan))
     /\ Call(Main, c, "up", {})
     /\ UNCHANGED pending
  \/ /\ \A d \in Conns \ {c} : conn'[d] = conn[d]
     /\ conn'[c] = NewConn(NextLoop)
     /\ Queue(NextLoop, <<Functor("connectEstablished", c)>>)
     /\ UNCHANGED frame

(* The Acceptor. *)
LEMMA AcceptTyped ==
  ASSUME Typed, NEW c \in Conns, NewConnection(c) \/ AcceptFails(c)
  PROVE  /\ Typed'
         /\ UNCHANGED hist
         /\ NewConnection(c) => Arrives(c)
         /\ AcceptFails(c) => Becomes(c, "refused", conn[c].chan)
<1>1. Main \in Loops /\ NextLoop \in Loops
  BY NextLoopIsLoop DEF Typed
<1>2. PhaseTyped'
  BY <1>1 DEF NewConnection, AcceptFails, AcceptorHandleRead, Typed, PhaseTyped
<1>3. UNCHANGED <<sock, batch, pos, user, sends, data, hist, fault>>
  BY DEF NewConnection, AcceptFails
<1>4. CASE AcceptFails(c)
  <2>1. conn' = [conn EXCEPT ![c].state = "refused"]
        /\ UNCHANGED <<connections, next, pending, frame>>
    BY <1>4 DEF AcceptFails
  <2>2. ConnTyped' /\ Becomes(c, "refused", conn[c].chan)
    BY <2>1 DEF Typed, ConnTyped, ConnType, Becomes
  <2>3. ~NewConnection(c)
    BY <1>4, <2>1, <2>2 DEF NewConnection, ConnectEstablished, NewConn, Typed, ConnTyped, ConnType
  <2>4. QED
    BY <1>2, <1>3, <2>1, <2>2, <2>3 DEF Typed, SockTyped, HistTyped, QueueTyped, BatchTyped,
       FrameTyped, UserTyped, NextTyped, CountTyped
<1>5. CASE NewConnection(c)
  <2>1. NextTyped'
    <3>1. connections' = connections \union {c} /\ next' = AdvanceNext
      BY <1>5 DEF NewConnection
    <3>2. Len(SubLoops) \in Nat /\ (SubLoops # <<>> => Len(SubLoops) > 0)
      <4> DEFINE pool == {SubLoops[i] : i \in DOMAIN SubLoops}
      <4>1. SubLoops \in Seq(pool)
        BY LoopAssumption
      <4> HIDE DEF pool
      <4>2. QED BY <4>1
    <3>3. QED BY <3>1, <3>2 DEF Typed, NextTyped, AdvanceNext
  <2>2. CASE NextLoop = Main
    <3>1. ConnectEstablished(Main, c) /\ UNCHANGED pending
      BY <1>5, <2>2 DEF NewConnection
    <3>2. ConnTyped' /\ Becomes(c, "kConnected", EnableReading(conn[c].chan))
          /\ Call(Main, c, "up", {})
      BY <1>1, <3>1, EstablishedEffect
    <3>3. FrameTyped'
      BY <1>1, <3>2, FrameEffect DEF Typed
    <3>4. QED
      <4>1. ~AcceptFails(c)
        BY <3>2 DEF AcceptFails, Becomes, Typed, ConnTyped, ConnType
      <4>2. QED
        BY <1>2, <1>3, <2>1, <3>1, <3>2, <3>3, <4>1 DEF Typed, SockTyped, HistTyped,
           QueueTyped, BatchTyped, UserTyped, CountTyped, Arrives
  <2>3. CASE NextLoop # Main
    <3>1. /\ conn' = [conn EXCEPT ![c] = NewConn(NextLoop)]
          /\ Queue(NextLoop, <<Functor("connectEstablished", c)>>)
          /\ UNCHANGED frame
      BY <1>5, <2>3 DEF NewConnection
    <3>2. NewConn(NextLoop) \in ConnType /\ NewConn(NextLoop).state = "kConnecting"
      BY <1>1 DEF NewConn, ConnType, NewChannel, ChannelType
    <3>3. ConnTyped' /\ conn'[c] = NewConn(NextLoop) /\ \A d \in Conns \ {c} : conn'[d] = conn[d]
      BY <3>1, <3>2 DEF Typed, ConnTyped
    <3>4. QueueTyped'
      <4>1. <<Functor("connectEstablished", c)>> \in Seq(Functors)
        BY FunctorsMade
      <4>2. QED BY <1>1, <3>1, <4>1, QueueKeeps DEF Typed
    <3>5. ~AcceptFails(c)
      BY <3>2, <3>3 DEF AcceptFails, Typed, ConnTyped, ConnType
    <3>6. QED
      BY <1>2, <1>3, <2>1, <3>1, <3>3, <3>4, <3>5 DEF Typed, SockTyped, HistTyped,
         FrameTyped, BatchTyped, UserTyped, CountTyped, Arrives
  <2>4. QED BY <2>2, <2>3
<1>6. QED BY <1>4, <1>5

(* The Acceptor, when the connection stays in the backlog. *)
LEMMA RetryTyped ==
  ASSUME Typed, NEW c \in Conns, AcceptRetried(c)
  PROVE  /\ Typed'
         /\ UNCHANGED <<conn, sock, connections, next, pending, phase, batch, pos, frame,
                        user, sends, data, hist, fault>>
<1>1. UNCHANGED <<conn, sock, connections, next, pending, phase, batch, pos, frame,
                  user, sends, data, hist, fault>>
  BY DEF AcceptRetried
<1>2. PhaseTyped'
  BY NextLoopIsLoop DEF AcceptRetried, AcceptorHandleRead, Typed, PhaseTyped
<1>3. QED
  BY <1>1, <1>2 DEF Typed, ConnTyped, SockTyped, HistTyped, QueueTyped, BatchTyped,
     FrameTyped, UserTyped, NextTyped, CountTyped

(* The handlers of a channel. *)
LEMMA HandlerTyped ==
  ASSUME Typed, NEW l \in Loops,
         \/ \E c \in Conns : HandleEvent(l, c)
         \/ CloseCallback(l) \/ ErrorCallback(l) \/ ReadCallback(l) \/ WriteCallback(l)
  PROVE  Typed'
<1> USE DEF Typed
<1>1. ASSUME NEW c \in Conns, HandleEvent(l, c) PROVE Typed'
  <2>1. PhaseTyped'
    BY <1>1 DEF HandleEvent, PhaseTyped
  <2>2. Due(conn[c].chan.revents) \in SUBSET Callbacks
    BY DEF Due
  <2>3. FrameTyped'
    BY <1>1, <2>2, FrameEffect DEF HandleEvent
  <2>4. QED
    BY <1>1, <2>1, <2>3 DEF HandleEvent, ConnTyped, SockTyped, HistTyped, QueueTyped,
       BatchTyped, UserTyped, NextTyped, CountTyped
<1>2. ASSUME NEW k, Handling(l, k) PROVE frame[l].c \in Conns /\ frame[l].due \ {k} \in SUBSET Callbacks
                                         /\ frame[l].due \ {k} \in SUBSET frame[l].due
  BY <1>2 DEF Handling, IsNext, FrameTyped, FrameType
<1>3. ASSUME NEW s \in SockType, sock' = [sock EXCEPT ![frame[l].c] = s] PROVE SockTyped'
  BY <1>3 DEF SockTyped
<1>4. CASE CloseCallback(l)
  <2>1. HandleClose(l, frame[l].c, frame[l].due \ {"close"}) /\ frame[l].c \in Conns
    BY <1>2, <1>4 DEF CloseCallback
  <2>2. ConnTyped' /\ HistTyped'
    BY <2>1, CloseEffect
  <2>3. FrameTyped'
    BY <1>2, <1>4, <2>1, FrameEffect DEF CloseCallback, HandleClose
  <2>4. QED
    BY <1>4, <2>2, <2>3 DEF CloseCallback, SockTyped, QueueTyped, BatchTyped, PhaseTyped,
       UserTyped, NextTyped, CountTyped, loopVars
<1>5. CASE ErrorCallback(l)
  <2>1. frame[l].c \in Conns /\ sock' = [sock EXCEPT ![frame[l].c].err = "none"]
    BY <1>2, <1>5 DEF ErrorCallback
  <2>2. SockTyped'
    BY <2>1 DEF SockTyped, SockType
  <2>3. FrameTyped'
    BY <1>2, <1>5, FrameEffect DEF ErrorCallback
  <2>4. QED
    BY <1>5, <2>2, <2>3 DEF ErrorCallback, ConnTyped, HistTyped, QueueTyped, BatchTyped,
       PhaseTyped, UserTyped, NextTyped, CountTyped, loopVars
<1>6. CASE ReadCallback(l)
  <2>1. /\ frame[l].c \in Conns
        /\ UNCHANGED <<connections, next, pending, loopVars, user, sends, data, fault>>
    BY <1>2, <1>6 DEF ReadCallback
  <2>2. PICK due \in SUBSET Callbacks : due = frame[l].due \ {"read"}
    BY <1>2, <1>6 DEF ReadCallback
  <2>3. CASE sock' = [sock EXCEPT ![frame[l].c].rcv = 0] /\ Call(l, frame[l].c, "message", due)
             /\ UNCHANGED <<conn, hist>>
    <3>1. SockTyped'
      BY <2>1, <2>3 DEF SockTyped, SockType
    <3>2. FrameTyped'
      BY <2>1, <2>3, FrameEffect
    <3>3. QED
      BY <2>1, <2>3, <3>1, <3>2 DEF ConnTyped, HistTyped, QueueTyped, BatchTyped, PhaseTyped,
         UserTyped, NextTyped, CountTyped, loopVars
  <2>4. CASE HandleClose(l, frame[l].c, due) /\ UNCHANGED sock
    <3>1. ConnTyped' /\ HistTyped'
      BY <2>1, <2>4, CloseEffect
    <3>2. FrameTyped'
      BY <2>1, <2>4, FrameEffect DEF HandleClose
    <3>3. QED
      BY <2>1, <2>4, <3>1, <3>2 DEF SockTyped, QueueTyped, BatchTyped, PhaseTyped,
         UserTyped, NextTyped, CountTyped, loopVars
  <2>5. CASE sock' = [sock EXCEPT ![frame[l].c].err = "none"] /\ Resume(l, due)
             /\ UNCHANGED <<conn, hist>>
    <3>1. SockTyped'
      BY <2>1, <2>5, SMTT(60) DEF SockTyped, SockType
    <3>2. FrameTyped'
      BY <1>2, <1>6, <2>2, <2>5, FrameEffect DEF ReadCallback
    <3>3. QED
      BY <2>1, <2>5, <3>1, <3>2 DEF ConnTyped, HistTyped, QueueTyped, BatchTyped, PhaseTyped,
         UserTyped, NextTyped, CountTyped, loopVars
  <2>6. QED BY <1>6, <2>2, <2>3, <2>4, <2>5 DEF ReadCallback
<1>7. CASE WriteCallback(l)
  <2>1. ConnTyped' /\ SockTyped' /\ HistTyped' /\ QueueTyped'
        /\ fault' \in {fault, "SIGPIPE"}
    BY <1>7, WriteEffect, QuietKeeps, SMTT(60)
  <2>2. FrameTyped'
    BY <1>2, <1>7, FrameEffect, ZenonT(60) DEF WriteCallback
  <2>3. UNCHANGED <<connections, next, loopVars, user, sends, data>>
    BY <1>7 DEF WriteCallback
  <2>4. QED
    BY <2>1, <2>2, <2>3 DEF BatchTyped, PhaseTyped, UserTyped, NextTyped, CountTyped, loopVars
<1>8. QED BY <1>1, <1>4, <1>5, <1>6, <1>7
(* doPendingFunctions starts a functor. *)
LEMMA StartsTyped ==
  ASSUME Typed, NEW l \in Loops, NEW f, Starts(l, f)
  PROVE  /\ f \in Functors /\ f.c \in Conns
         /\ f.kind \in {"sendInLoop", "sendFileInLoop"} => f.msg \in 1..MaxSends
         /\ f.off \in 0..FileLen
         /\ BatchTyped' /\ PhaseTyped' /\ UserTyped'
         /\ UNCHANGED <<sends, data, next>>
<1>1. pos[l] + 1 \in 1..Len(batch[l]) /\ batch[l] \in Seq(Functors)
  BY DEF Starts, Typed, BatchTyped
<1>2. f \in Functors
  BY <1>1, ElementOfSeq DEF Starts
<1>3. /\ f.c \in Conns /\ f.off \in 0..FileLen
      /\ f.kind \in {"sendInLoop", "sendFileInLoop"} => f.msg \in 1..MaxSends
  BY <1>2, ServerAssumption DEF Functors, FunctorType
<1>4. BatchTyped'
  BY DEF Starts, Typed, BatchTyped
<1>5. PhaseTyped' /\ UserTyped' /\ UNCHANGED <<sends, data, next>>
  BY DEF Starts, Typed, PhaseTyped, UserTyped
<1>6. QED BY <1>2, <1>3, <1>4, <1>5

(* The functors. *)
LEMMA FunctorTyped ==
  ASSUME Typed, NEW l \in Loops, RunFunctor(l)
  PROVE  Typed'
<1>1. PICK f : /\ Starts(l, f)
               /\ \/ RunConnectEstablished(l, f) \/ RunConnectDestroyed(l, f)
                  \/ RunRemoveConnection(l, f) \/ RunUserCallback(l, f)
                  \/ RunSend(l, f) \/ RunSendFile(l, f) \/ RunShutdown(l, f)
  BY DEF RunFunctor, RunConnectEstablished, RunConnectDestroyed, RunRemoveConnection,
     RunUserCallback, RunSend, RunSendFile, RunShutdown
<1>2. /\ f \in Functors /\ f.c \in Conns /\ f.off \in 0..FileLen
      /\ f.kind \in {"sendInLoop", "sendFileInLoop"} => f.msg \in 1..MaxSends
      /\ BatchTyped' /\ PhaseTyped' /\ UserTyped'
      /\ UNCHANGED <<sends, data, next>>
  BY <1>1, StartsTyped
<1>3. SUFFICES /\ ConnTyped' /\ SockTyped' /\ HistTyped' /\ QueueTyped' /\ FrameTyped'
               /\ connections' \subseteq Conns
               /\ fault' \in {"none", "SIGPIPE", "bad_function_call", "dangling"}
  BY <1>2 DEF Typed, NextTyped, CountTyped
<1> USE DEF Typed
<1>4. CASE RunConnectEstablished(l, f)
  <2>1. ConnTyped' /\ Call(l, f.c, "up", {})
    BY <1>2, <1>4, EstablishedEffect DEF RunConnectEstablished
  <2>2. FrameTyped'
    BY <1>2, <2>1, FrameEffect
  <2>3. QED
    BY <1>4, <2>1, <2>2 DEF RunConnectEstablished, SockTyped, HistTyped, QueueTyped,
       NextTyped, CountTyped
<1>5. CASE RunConnectDestroyed(l, f)
  <2>1. ConnTyped' /\ HistTyped' /\ Destroys(l, f.c)
    BY <1>2, <1>5, DestroyedEffect DEF RunConnectDestroyed
  <2>2. FrameTyped'
    <3>1. CASE Call(l, f.c, "down", {})
      BY <1>2, <3>1, FrameEffect
    <3>2. CASE UNCHANGED frame
      BY <3>2 DEF FrameTyped
    <3>3. QED BY <2>1, <3>1, <3>2 DEF Destroys
  <2>3. QED
    BY <1>5, <2>1, <2>2 DEF RunConnectDestroyed, SockTyped, QueueTyped, NextTyped, CountTyped
<1>6. CASE RunRemoveConnection(l, f)
  <2>1. connections' = connections \ {f.c}
        /\ Queue(conn[f.c].loop, <<Functor("connectDestroyed", f.c)>>)
    BY <1>6 DEF RunRemoveConnection, RemoveConnectionInLoop
  <2>2. QueueTyped'
    <3>1. <<Functor("connectDestroyed", f.c)>> \in Seq(Functors)
      BY <1>2, FunctorsMade
    <3>2. conn[f.c].loop \in Loops
      BY <1>2 DEF ConnTyped, ConnType
    <3>3. QED BY <2>1, <3>1, <3>2, QueueKeeps
  <2>3. QED
    BY <1>6, <2>1, <2>2 DEF RunRemoveConnection, ConnTyped, SockTyped, FrameTyped,
       HistTyped, NextTyped, CountTyped
<1>7. CASE RunUserCallback(l, f)
  <2>1. FrameTyped'
    <3>1. CASE Call(l, f.c, f.kind, {})
      BY <1>2, <1>7, <3>1, FrameEffect DEF RunUserCallback
    <3>2. CASE UNCHANGED frame
      BY <3>2 DEF FrameTyped
    <3>3. QED BY <1>7, <3>1, <3>2 DEF RunUserCallback
  <2>2. fault' \in {fault, "bad_function_call"}
    BY <1>7 DEF RunUserCallback
  <2>3. QED
    BY <1>7, <2>1, <2>2 DEF RunUserCallback, ConnTyped, SockTyped, HistTyped, QueueTyped,
       NextTyped, CountTyped
<1>8. CASE RunSend(l, f)
  <2>1. UNCHANGED <<connections, frame>>
    BY <1>8 DEF RunSend
  <2>2. CASE UNCHANGED <<conn, sock, pending, hist>> /\ fault' \in {fault, "dangling"}
    BY <2>1, <2>2 DEF ConnTyped, SockTyped, HistTyped, QueueTyped, FrameTyped, NextTyped, CountTyped
  <2>3. CASE SendInLoop(f.c, f.msg)
    <3>1. f.msg \in 1..MaxSends
      BY <1>2, <1>8 DEF RunSend
    <3>2. CASE fault' = "SIGPIPE" /\ UNCHANGED <<conn, sock, pending, hist>>
      BY <2>1, <3>2 DEF ConnTyped, SockTyped, HistTyped, QueueTyped, FrameTyped, NextTyped
    <3>3. CASE fault' = fault /\ ConnTyped' /\ SockTyped' /\ HistTyped'
               /\ QueuesQuiet(conn[f.c].loop, f.c)
      <4>1. conn[f.c].loop \in Loops
        BY <1>2 DEF ConnTyped, ConnType
      <4>2. QED
        BY <1>2, <2>1, <3>3, <4>1, QuietKeeps DEF FrameTyped, NextTyped, CountTyped
    <3>4. QED BY <1>2, <2>3, <3>1, <3>2, <3>3, SendEffect
  <2>4. QED BY <1>8, <2>2, <2>3 DEF RunSend
<1>9. CASE RunSendFile(l, f)
  <2>1. UNCHANGED <<conn, connections, frame>>
    BY <1>9 DEF RunSendFile
  <2>2. CASE UNCHANGED <<sock, pending, hist, fault>>
    BY <2>1, <2>2 DEF ConnTyped, SockTyped, HistTyped, QueueTyped, FrameTyped, NextTyped, CountTyped
  <2>3. CASE SendFileInLoop(f.c, f.msg, f.off)
    <3>1. f.msg \in 1..MaxSends
      BY <1>2, <1>9 DEF RunSendFile
    <3>2. CASE fault' = "SIGPIPE" /\ UNCHANGED <<sock, pending, hist>>
      BY <2>1, <3>2 DEF ConnTyped, SockTyped, HistTyped, QueueTyped, FrameTyped, NextTyped
    <3>3. CASE fault' = fault /\ SockTyped' /\ HistTyped' /\ QueuesQuiet(conn[f.c].loop, f.c)
      <4>1. conn[f.c].loop \in Loops
        BY <1>2 DEF ConnTyped, ConnType
      <4>2. QED
        BY <1>2, <2>1, <3>3, <4>1, QuietKeeps DEF ConnTyped, FrameTyped, NextTyped, CountTyped
    <3>4. QED BY <1>2, <2>3, <3>1, <3>2, <3>3, SendFileEffect
  <2>4. QED BY <1>9, <2>2, <2>3 DEF RunSendFile
<1>10. CASE RunShutdown(l, f)
  <2> DEFINE s == IF Alive(f.c) THEN ShutdownInLoop(conn[f.c].chan, sock[f.c]) ELSE sock[f.c]
  <2>1. sock' = [sock EXCEPT ![f.c] = s]
    BY <1>10, Zenon DEF RunShutdown
  <2>2. s \in SockType
    <3>1. sock[f.c] \in SockType
      BY <1>2 DEF SockTyped
    <3>2. ShutdownInLoop(conn[f.c].chan, sock[f.c]) \in SockType
      BY <3>1 DEF ShutdownInLoop, ShutdownWrite, SockType
    <3>3. QED BY <3>1, <3>2
  <2> HIDE DEF s
  <2>3. SockTyped'
    BY <2>1, <2>2 DEF SockTyped
  <2>4. UNCHANGED <<conn, connections, pending, frame, hist>> /\ fault' \in {fault, "dangling"}
    BY <1>10 DEF RunShutdown
  <2>5. QED
    BY <2>3, <2>4 DEF ConnTyped, HistTyped, QueueTyped, FrameTyped, NextTyped, CountTyped
<1>11. QED BY <1>1, <1>4, <1>5, <1>6, <1>7, <1>8, <1>9, <1>10

(* The ends of a round of a loop. *)
LEMMA RoundTyped ==
  ASSUME Typed, NEW l \in Loops, SwapFunctors(l) \/ EndFunctors(l)
  PROVE  Typed'
<1>1. CASE SwapFunctors(l)
  BY <1>1 DEF SwapFunctors, Typed, ConnTyped, SockTyped, HistTyped, QueueTyped, BatchTyped,
     PhaseTyped, FrameTyped, UserTyped, NextTyped, CountTyped
<1>2. CASE EndFunctors(l)
  BY <1>2 DEF EndFunctors, Typed, ConnTyped, SockTyped, HistTyped, QueueTyped, BatchTyped,
     PhaseTyped, FrameTyped, UserTyped, NextTyped, CountTyped
<1>3. QED BY <1>1, <1>2
(* What CallbackReturns does to the channel of the connection. *)
Returns(l) ==
  \/ /\ frame[l].cb = "down"
     /\ Becomes(frame[l].c, conn[frame[l].c].state, RemoveChannel(conn[frame[l].c].chan))
  \/ frame[l].cb # "down" /\ UNCHANGED conn

(* A user callback returns. *)
LEMMA ReturnTyped ==
  ASSUME Typed, NEW l \in Loops, CallbackReturns(l)
  PROVE  Typed' /\ frame[l].c \in Conns /\ Returns(l)
<1>1. frame[l].c \in Conns /\ frame[l].due \in SUBSET frame[l].due
  BY DEF CallbackReturns, InCallback, Typed, FrameTyped
<1>2. PICK c \in Conns : c = frame[l].c
  BY <1>1
<1>3. FrameTyped'
  BY <1>1, FrameEffect DEF CallbackReturns, Typed
<1>4. connections' \subseteq Conns /\ QueueTyped'
  <2>1. CASE UNCHANGED <<connections, pending>>
    BY <2>1 DEF Typed, NextTyped, QueueTyped
  <2>2. CASE RemoveConnectionInLoop(c)
    <3>1. <<Functor("connectDestroyed", c)>> \in Seq(Functors)
      BY FunctorsMade
    <3>2. conn[c].loop \in Loops
      BY DEF Typed, ConnTyped, ConnType
    <3>3. QED
      BY <2>2, <3>1, <3>2, QueueKeeps DEF RemoveConnectionInLoop, Typed, NextTyped
  <2>3. CASE /\ Queue(Main, <<Functor("removeConnectionInLoop", c)>>)
             /\ UNCHANGED connections
    <3>1. <<Functor("removeConnectionInLoop", c)>> \in Seq(Functors) /\ Main \in Loops
      BY FunctorsMade, NextLoopIsLoop DEF Typed
    <3>2. QED BY <2>3, <3>1, QueueKeeps DEF Typed, NextTyped
  <2>4. QED BY <1>2, <2>1, <2>2, <2>3 DEF CallbackReturns, RemoveConnection
<1>5. ConnTyped' /\ Returns(l)
  <2>1. CASE frame[l].cb = "down"
    <3>1. conn' = [conn EXCEPT ![c].chan = RemoveChannel(conn[c].chan)]
      BY <1>2, <2>1, Zenon DEF CallbackReturns
    <3>2. RemoveChannel(conn[c].chan) \in ChannelType
      BY RemoveEffect DEF Typed, ConnTyped, ConnType
    <3>3. ConnTyped' /\ Becomes(c, conn[c].state, RemoveChannel(conn[c].chan))
      <4>1. ConnTyped' /\ conn'[c].state = conn[c].state
        BY <3>1, <3>2 DEF Typed, ConnTyped, ConnType
      <4>2. QED BY <3>1, <3>2, <4>1 DEF Becomes, Typed, ConnTyped, ConnType
    <3>4. QED BY <1>2, <2>1, <3>3 DEF Returns
  <2>2. CASE frame[l].cb # "down"
    <3>1. UNCHANGED conn
      BY <2>2, Zenon DEF CallbackReturns
    <3>2. QED BY <2>2, <3>1 DEF Returns, Typed, ConnTyped
  <2>3. QED BY <2>1, <2>2
<1>6. UNCHANGED <<sock, next, loopVars, user, sends, data, hist, fault>>
  BY DEF CallbackReturns
<1>7. QED
  BY <1>1, <1>3, <1>4, <1>5, <1>6 DEF Typed, SockTyped, HistTyped, BatchTyped, PhaseTyped,
     UserTyped, NextTyped, CountTyped, loopVars

(* shutdown() sets state_: of a connection whose handleClose has run, the  *)
(* history remembers it.                                                   *)
ShutsDown(c) ==
  /\ Becomes(c, "kDisconnected", conn[c].chan)
  /\ \A d \in Conns \ {c} : hist'[d] = hist[d]
  /\ hist'[c].lateShut = (hist[c].lateShut \/ hist[c].closed)
  /\ hist'[c].closed = hist[c].closed /\ hist'[c].downs = hist[c].downs
  /\ hist'[c].sent = hist[c].sent /\ hist'[c].accepted = hist[c].accepted
  /\ hist'[c].file = hist[c].file

(* That part of shutdown(). *)
LEMMA ShutsDownEffect ==
  ASSUME Typed, NEW c \in Conns,
         conn' = [conn EXCEPT ![c].state = "kDisconnected"],
         hist' = [hist EXCEPT ![c].lateShut = @ \/ hist[c].closed]
  PROVE  ConnTyped' /\ HistTyped' /\ ShutsDown(c)
<1>1. conn[c].chan \in ChannelType
  BY DEF Typed, ConnTyped, ConnType
<1>2. ConnTyped' /\ Becomes(c, "kDisconnected", conn[c].chan)
  BY <1>1, BecomesEffect DEF Typed
<1>3. PICK b \in BOOLEAN : b = (hist[c].lateShut \/ hist[c].closed)
  OBVIOUS
<1>4. hist' = [hist EXCEPT ![c].lateShut = b]
  BY <1>3
<1>5. /\ HistTyped'
      /\ \A d \in Conns \ {c} : hist'[d] = hist[d]
      /\ hist'[c].lateShut = b
      /\ hist'[c].closed = hist[c].closed /\ hist'[c].downs = hist[c].downs
      /\ hist'[c].sent = hist[c].sent /\ hist'[c].accepted = hist[c].accepted
      /\ hist'[c].file = hist[c].file
  <2>1. CASE b = TRUE
    <3>1. hist' = [hist EXCEPT ![c].lateShut = TRUE]
      BY <1>4, <2>1
    <3>2. HistTyped' /\ \A d \in Conns \ {c} : hist'[d] = hist[d]
      BY <3>1, ZenonT(60) DEF Typed, HistTyped, HistType
    <3>3. hist'[c].lateShut = TRUE
      BY <3>1 DEF Typed, HistTyped, HistType
    <3>4. /\ hist'[c].closed = hist[c].closed /\ hist'[c].downs = hist[c].downs
          /\ hist'[c].sent = hist[c].sent /\ hist'[c].accepted = hist[c].accepted
          /\ hist'[c].file = hist[c].file
      BY <3>1 DEF Typed, HistTyped, HistType
    <3>5. QED BY <2>1, <3>2, <3>3, <3>4
  <2>2. CASE b = FALSE
    <3>1. hist' = [hist EXCEPT ![c].lateShut = FALSE]
      BY <1>4, <2>2
    <3>2. QED BY <2>2, <3>1, SMTT(60) DEF Typed, HistTyped, HistType
  <2>3. QED BY <2>1, <2>2
<1>6. QED BY <1>2, <1>3, <1>5 DEF ShutsDown

(* The user code in a callback. *)
LEMMA UserCodeTyped ==
  ASSUME Typed, NEW l \in Loops, UserCode(l)
  PROVE  Typed' /\ frame[l].c \in Conns
<1> USE DEF Typed
<1>1. frame[l].c \in Conns
  BY DEF UserCode, CallbackSends, CallbackSendsFile, CallbackShutsDown, CallbackShares,
     InCallback, FrameTyped
<1>2. PICK c \in Conns : c = frame[l].c
  BY <1>1
<1>3. conn[c].loop \in Loops
  BY DEF ConnTyped, ConnType
<1>4. CASE CallbackSends(l)
  <2>1. sends' \in 0..MaxSends /\ sends + 1 \in 1..MaxSends
    BY <1>4, ServerAssumption DEF CallbackSends, CountTyped
  <2>2. UNCHANGED <<connections, next, loopVars, frame, user, data>>
    BY <1>4 DEF CallbackSends
  <2>3. PICK m \in 1..MaxSends : m = sends + 1 /\ SendInLoop(c, m)
    BY <1>2, <1>4, <2>1 DEF CallbackSends
  <2>4. CASE fault' = "SIGPIPE" /\ UNCHANGED <<conn, sock, pending, hist>>
    BY <1>1, <2>1, <2>2, <2>4 DEF ConnTyped, SockTyped, HistTyped, QueueTyped, BatchTyped,
       PhaseTyped, FrameTyped, UserTyped, NextTyped, CountTyped, loopVars
  <2>5. CASE fault' = fault /\ ConnTyped' /\ SockTyped' /\ HistTyped'
             /\ QueuesQuiet(conn[c].loop, c)
    <3>1. QueueTyped'
      BY <1>3, <2>5, QuietKeeps
    <3>2. QED
      BY <1>1, <2>1, <2>2, <2>5, <3>1 DEF BatchTyped, PhaseTyped, FrameTyped, UserTyped,
         NextTyped, CountTyped, loopVars
  <2>6. QED BY <2>3, <2>4, <2>5, SendEffect
<1>5. CASE CallbackSendsFile(l)
  <2>1. sends' \in 0..MaxSends /\ sends + 1 \in 1..MaxSends /\ 0 \in 0..FileLen
    BY <1>5, ServerAssumption DEF CallbackSendsFile, CountTyped
  <2>2. UNCHANGED <<conn, connections, next, loopVars, frame, user, data>>
    BY <1>5 DEF CallbackSendsFile
  <2>3. PICK m \in 1..MaxSends : m = sends + 1 /\ SendFileInLoop(c, m, 0)
    BY <1>2, <1>5, <2>1 DEF CallbackSendsFile
  <2>4. CASE fault' = "SIGPIPE" /\ UNCHANGED <<sock, pending, hist>>
    BY <1>1, <2>1, <2>2, <2>4 DEF ConnTyped, SockTyped, HistTyped, QueueTyped, BatchTyped,
       PhaseTyped, FrameTyped, UserTyped, NextTyped, CountTyped, loopVars
  <2>5. CASE fault' = fault /\ SockTyped' /\ HistTyped' /\ QueuesQuiet(conn[c].loop, c)
    <3>1. QueueTyped'
      BY <1>3, <2>5, QuietKeeps
    <3>2. QED
      BY <1>1, <2>1, <2>2, <2>5, <3>1 DEF ConnTyped, BatchTyped, PhaseTyped, FrameTyped,
         UserTyped, NextTyped, CountTyped, loopVars
  <2>6. QED BY <2>1, <2>3, <2>4, <2>5, SendFileEffect
<1>6. CASE CallbackShutsDown(l)
  <2>1. /\ conn' = [conn EXCEPT ![c].state = "kDisconnected"]
        /\ sock' = [sock EXCEPT ![c] = ShutdownInLoop(conn[c].chan, sock[c])]
        /\ hist' = [hist EXCEPT ![c].lateShut = @ \/ hist[c].closed]
        /\ UNCHANGED <<connections, next, pending, loopVars, frame, user, sends, data, fault>>
    BY <1>2, <1>6 DEF CallbackShutsDown
  <2>2. ConnTyped' /\ HistTyped'
    BY <2>1, ShutsDownEffect
  <2>3. SockTyped'
    <3>1. ShutdownInLoop(conn[c].chan, sock[c]) \in SockType
      BY DEF ShutdownInLoop, ShutdownWrite, SockTyped, SockType
    <3>2. QED BY <2>1, <3>1 DEF SockTyped
  <2>4. QED
    BY <1>1, <2>1, <2>2, <2>3 DEF QueueTyped, BatchTyped, PhaseTyped, FrameTyped, UserTyped,
       NextTyped, CountTyped, loopVars
<1>7. ASSUME NEW u \in Users, CallbackShares(l, u) PROVE Typed'
  <2>1. UserTyped'
    BY <1>1, <1>7 DEF CallbackShares, UserTyped, UserType
  <2>2. QED
    BY <1>7, <2>1 DEF CallbackShares, ConnTyped, SockTyped, HistTyped, QueueTyped, BatchTyped,
       PhaseTyped, FrameTyped, NextTyped, CountTyped, loopVars
<1>8. QED BY <1>1, <1>4, <1>5, <1>6, <1>7 DEF UserCode

(* The threads that are not loops. *)
LEMMA UserThreadTyped ==
  ASSUME Typed, NEW u \in Users, UserStep(u) \/ UserFinishes(u)
  PROVE  Typed'
<1> USE DEF Typed
<1>1. user[u] \in UserType
  BY DEF UserTyped
<1>2. ASSUME UserTyped', UNCHANGED <<conn, sock, connections, next, pending, loopVars, frame,
                                     data, hist, fault>>, sends' \in 0..MaxSends
      PROVE  Typed'
  BY <1>2 DEF ConnTyped, SockTyped, HistTyped, QueueTyped, BatchTyped, PhaseTyped, FrameTyped,
     NextTyped, CountTyped, loopVars
<1>3. ASSUME NEW call \in {"send", "sendFile"}, UserTestsForSend(u, call) PROVE Typed'
  <2>1. sends' \in 0..MaxSends /\ sends + 1 \in 1..MaxSends
    BY <1>3, ServerAssumption DEF UserTestsForSend, CountTyped
  <2>2. user[u].c \in Conns
    BY <1>1, <1>3 DEF UserTestsForSend, SeesConnected, UserType
  <2>3. PICK m \in 1..MaxSends : m = sends + 1
    BY <2>1
  <2>4. user' = [user EXCEPT ![u].pc = call, ![u].msg = m]
    BY <1>3, <2>3 DEF UserTestsForSend
  <2>5. m \in 0..MaxSends /\ m # 0
    BY ServerAssumption
  <2>6. UserTyped'
    BY <2>2, <2>4, <2>5, ZenonT(60) DEF UserTyped, UserType
  <2>7. QED BY <1>2, <1>3, <2>1, <2>6 DEF UserTestsForSend
<1>4. CASE UserTestsForShutdown(u)
  <2>1. user[u].c \in Conns
    BY <1>1, <1>4 DEF UserTestsForShutdown, SeesConnected, UserType
  <2>2. UserTyped'
    BY <1>4, <2>1 DEF UserTestsForShutdown, UserGoes, UserTyped, UserType
  <2>3. QED BY <1>2, <1>4, <2>2 DEF UserTestsForShutdown, CountTyped
<1>5. CASE UserDrops(u)
  <2>1. UserTyped'
    BY <1>5 DEF UserDrops, UserTyped, UserType
  <2>2. QED BY <1>2, <1>5, <2>1 DEF UserDrops, CountTyped
<1>6. ASSUME UserTyped', UNCHANGED <<conn, sock, connections, next, loopVars, frame, sends,
                                     data, hist, fault>>,
             NEW c \in Conns, NEW f \in Quiet(c), Queue(conn[c].loop, <<f>>)
      PROVE  Typed'
  <2>1. conn[c].loop \in Loops /\ <<f>> \in Seq(Quiet(c))
    BY DEF ConnTyped, ConnType
  <2>2. QueueTyped'
    BY <1>6, <2>1, QuietKeeps DEF QueuesQuiet
  <2>3. QED
    BY <1>6, <2>2 DEF ConnTyped, SockTyped, HistTyped, BatchTyped, PhaseTyped, FrameTyped,
       NextTyped, CountTyped, loopVars
<1>7. CASE UserQueuesSend(u) \/ UserQueuesFile(u)
  <2>1. user[u].c \in Conns /\ user[u].msg \in 1..MaxSends /\ 0 \in 0..FileLen
    BY <1>1, <1>7, ServerAssumption DEF UserQueuesSend, UserQueuesFile, UserTyped, UserType
  <2>2. user' = [user EXCEPT ![u].pc = "idle", ![u].msg = 0]
    BY <1>7 DEF UserQueuesSend, UserQueuesFile
  <2>3. 0 \in 0..MaxSends
    BY ServerAssumption
  <2>4. UserTyped'
    BY <2>2, <2>3, ZenonT(60) DEF UserTyped, UserType
  <2>5. SendFunctor(user[u].c, user[u].msg) \in Quiet(user[u].c)
        /\ FileFunctor(user[u].c, user[u].msg, 0) \in Quiet(user[u].c)
    BY <2>1, QuietMade
  <2>6. QED BY <1>6, <1>7, <2>1, <2>4, <2>5 DEF UserQueuesSend, UserQueuesFile
<1>8. CASE UserQueuesShutdown(u)
  <2>1. user[u].c \in Conns
    BY <1>8 DEF UserQueuesShutdown, UserGoes, UserTyped
  <2>2. UserTyped'
    BY <1>8 DEF UserQueuesShutdown, UserGoes, UserTyped, UserType
  <2>3. Functor("shutdownInLoop", user[u].c) \in Quiet(user[u].c)
    BY <2>1, QuietMade
  <2>4. QED BY <1>6, <1>8, <2>1, <2>2, <2>3 DEF UserQueuesShutdown
<1>9. CASE UserSetsState(u)
  <2>1. user[u].c \in Conns
    BY <1>9 DEF UserSetsState, UserGoes, UserTyped
  <2>2. UserTyped'
    BY <1>9, <2>1 DEF UserSetsState, UserGoes, UserTyped, UserType
  <2>3. ConnTyped' /\ HistTyped'
    BY <1>9, <2>1, ShutsDownEffect DEF UserSetsState
  <2>4. QED
    BY <1>9, <2>2, <2>3 DEF UserSetsState, SockTyped, QueueTyped, BatchTyped, PhaseTyped,
       FrameTyped, NextTyped, CountTyped, loopVars
<1>10. QED BY <1>3, <1>4, <1>5, <1>7, <1>8, <1>9 DEF UserStep, UserFinishes

(* Every step. *)
LEMMA TypedStep == Typed /\ [Next]_vars => Typed'
<1> SUFFICES ASSUME Typed, [Next]_vars PROVE Typed'
  OBVIOUS
<1>1. CASE UNCHANGED vars
  BY <1>1 DEF vars, Typed, ConnTyped, SockTyped, HistTyped, QueueTyped, BatchTyped,
     PhaseTyped, FrameTyped, UserTyped, NextTyped, CountTyped
<1>2. ASSUME NEW l \in Loops, LoopStep(l) PROVE Typed'
  BY <1>2, PollTyped, HandlerTyped, RoundTyped, FunctorTyped, ReturnTyped DEF LoopStep
<1>3. ASSUME NEW l \in Loops, UserCode(l) PROVE Typed'
  BY <1>3, UserCodeTyped
<1>4. CASE AcceptStep
  BY <1>4, AcceptTyped, RetryTyped DEF AcceptStep
<1>5. ASSUME NEW c \in Conns, PeerStep(c) \/ PeerRead(c) PROVE Typed'
  BY <1>5, PeerTyped
<1>6. ASSUME NEW u \in Users, UserStep(u) \/ UserFinishes(u) PROVE Typed'
  BY <1>6, UserThreadTyped
<1>7. QED BY <1>1, <1>2, <1>3, <1>4, <1>5, <1>6 DEF Next

(* Typed holds throughout. *)
LEMMA TypedAlways == Spec => []Typed
  BY TypedInit, TypedStep, PTL DEF Spec

(* The types are right; in particular no handler or callback runs without  *)
(* its connection, and no queue holds anything but functors of the code.   *)
THEOREM TypeCorrect == Spec => []TypeOK
  BY TypedAlways, TypedIsTypeOK, PTL
-----------------------------------------------------------------------------
(* index_ tells the truth about the epoll set.                             *)

(* A channel goes through one of the operations of Channel, or epoll_wait  *)
(* sets its revents_.                                                      *)
Operated(ch, d) ==
  \/ d \in {ch, NewChannel, EnableReading(ch), EnableWriting(ch), DisableWriting(ch),
            DisableAll(ch), RemoveChannel(ch)}
  \/ /\ d.events = ch.events /\ d.index = ch.index /\ d.watched = ch.watched
     /\ d.listed = ch.listed /\ d.mask = ch.mask

(* Each of them leaves the channel true to the poller. *)
LEMMA OperatedEffect ==
  ASSUME NEW ch \in ChannelType, NEW d, Operated(ch, d), Consistent(ch)
  PROVE  Consistent(d)
<1>1. CASE d = NewChannel
  BY <1>1 DEF NewChannel, Consistent
<1>2. CASE d \in {EnableReading(ch), EnableWriting(ch), DisableWriting(ch), DisableAll(ch)}
  BY <1>2, ChannelEffect DEF OpEffect
<1>3. CASE d = RemoveChannel(ch)
  BY <1>3, RemoveEffect
<1>4. CASE /\ d.events = ch.events /\ d.index = ch.index /\ d.watched = ch.watched
           /\ d.listed = ch.listed /\ d.mask = ch.mask
  BY <1>4 DEF Consistent
<1>5. QED BY <1>1, <1>2, <1>3, <1>4 DEF Operated

(* A step does nothing else to a channel. *)
LEMMA StepOperates ==
  ASSUME Typed, [Next]_vars
  PROVE  \A d \in Conns : Operated(conn[d].chan, conn'[d].chan)
<1>1. ASSUME UNCHANGED conn PROVE \A d \in Conns : Operated(conn[d].chan, conn'[d].chan)
  BY <1>1 DEF Operated
<1>2. ASSUME NEW c \in Conns, NEW state, NEW ch, Becomes(c, state, ch), Operated(conn[c].chan, ch)
      PROVE  \A d \in Conns : Operated(conn[d].chan, conn'[d].chan)
  BY <1>2 DEF Becomes, Operated
<1>3. ASSUME NEW c \in Conns, NEW m \in 1..MaxSends, SendInLoop(c, m)
      PROVE  \A d \in Conns : Operated(conn[d].chan, conn'[d].chan)
  <2>1. CASE UNCHANGED conn
    BY <1>1, <2>1
  <2>2. CASE Only(c) /\ \E n \in 0..MsgLen, given \in BOOLEAN : Sends(c, m, n, given)
    BY <2>2 DEF Only, Sends, Operated
  <2>3. QED BY <1>3, <2>1, <2>2, SendEffect
<1>4. ASSUME NEW l \in Loops, NEW c \in Conns, NEW due, HandleClose(l, c, due)
      PROVE  \A d \in Conns : Operated(conn[d].chan, conn'[d].chan)
  <2>1. Becomes(c, conn[c].state, DisableAll(conn[c].chan))
    BY <1>4, CloseEffect DEF Closes
  <2>2. Operated(conn[c].chan, DisableAll(conn[c].chan))
    BY DEF Operated
  <2>3. QED BY <1>2, <2>1, <2>2
<1>5. ASSUME NEW c \in Conns, conn' = [conn EXCEPT ![c].state = "kDisconnected"]
      PROVE  \A d \in Conns : Operated(conn[d].chan, conn'[d].chan)
  <2>1. conn[c].chan \in ChannelType
    BY DEF Typed, ConnTyped, ConnType
  <2>2. Becomes(c, "kDisconnected", conn[c].chan)
    BY <1>5, <2>1, BecomesEffect DEF Typed
  <2>3. QED BY <1>2, <2>2 DEF Operated
<1>6. CASE UNCHANGED vars
  BY <1>1, <1>6 DEF vars
<1>7. ASSUME NEW c \in Conns, PeerStep(c) \/ PeerRead(c)
      PROVE  \A d \in Conns : Operated(conn[d].chan, conn'[d].chan)
  <2>1. CASE Connect(c)
    <3>1. conn[c].chan \in ChannelType /\ conn' = [conn EXCEPT ![c].state = "backlog"]
      BY <2>1 DEF Connect, Typed, ConnTyped, ConnType
    <3>2. Becomes(c, "backlog", conn[c].chan)
      BY <3>1, BecomesEffect DEF Typed
    <3>3. QED BY <1>2, <3>2 DEF Operated
  <2>2. CASE UNCHANGED conn
    BY <1>1, <2>2
  <2>3. QED BY <1>7, <2>1, <2>2 DEF PeerStep, PeerSend, PeerFin, PeerReset, PeerRead, PeerActs
<1>8. ASSUME NEW c \in Conns, NewConnection(c) \/ AcceptFails(c) \/ AcceptRetried(c)
      PROVE  \A d \in Conns : Operated(conn[d].chan, conn'[d].chan)
  <2>1. CASE Becomes(c, "kConnected", EnableReading(conn[c].chan))
    BY <1>2, <2>1 DEF Operated
  <2>2. CASE conn'[c] = NewConn(NextLoop) /\ \A d \in Conns \ {c} : conn'[d] = conn[d]
    BY <2>2 DEF NewConn, Operated
  <2>3. CASE Becomes(c, "refused", conn[c].chan)
    BY <1>2, <2>3 DEF Operated
  <2>4. CASE UNCHANGED conn
    BY <1>1, <2>4
  <2>5. QED BY <1>8, <2>1, <2>2, <2>3, <2>4, AcceptTyped, RetryTyped DEF Arrives
<1>9. ASSUME NEW l \in Loops, RunFunctor(l)
      PROVE  \A d \in Conns : Operated(conn[d].chan, conn'[d].chan)
  <2>1. PICK f : /\ Starts(l, f)
                 /\ \/ RunConnectEstablished(l, f) \/ RunConnectDestroyed(l, f)
                    \/ RunRemoveConnection(l, f) \/ RunUserCallback(l, f)
                    \/ RunSend(l, f) \/ RunSendFile(l, f) \/ RunShutdown(l, f)
    BY <1>9 DEF RunFunctor, RunConnectEstablished, RunConnectDestroyed, RunRemoveConnection,
       RunUserCallback, RunSend, RunSendFile, RunShutdown
  <2>2. f.c \in Conns /\ (f.kind = "sendInLoop" => f.msg \in 1..MaxSends)
    BY <2>1, StartsTyped
  <2>3. CASE UNCHANGED conn
    BY <1>1, <2>3
  <2>4. CASE RunConnectEstablished(l, f)
    <3>1. Becomes(f.c, "kConnected", EnableReading(conn[f.c].chan))
      BY <2>2, <2>4, EstablishedEffect DEF RunConnectEstablished
    <3>2. QED BY <1>2, <2>2, <3>1 DEF Operated
  <2>5. CASE RunConnectDestroyed(l, f)
    <3>1. Destroys(l, f.c)
      BY <2>2, <2>5, DestroyedEffect DEF RunConnectDestroyed
    <3>2. Operated(conn[f.c].chan, DisableAll(conn[f.c].chan))
          /\ Operated(conn[f.c].chan, RemoveChannel(conn[f.c].chan))
      BY DEF Operated
    <3>3. QED BY <1>2, <2>2, <3>1, <3>2 DEF Destroys
  <2>6. CASE RunSend(l, f)
    BY <1>3, <2>2, <2>3, <2>6 DEF RunSend
  <2>7. QED
    BY <2>1, <2>3, <2>4, <2>5, <2>6 DEF RunRemoveConnection, RunUserCallback, RunSendFile,
       RunShutdown
<1>10. ASSUME NEW l \in Loops, LoopStep(l)
       PROVE  \A d \in Conns : Operated(conn[d].chan, conn'[d].chan)
  <2>1. CASE Poll(l)
    BY <2>1, PollTyped DEF Operated
  <2>2. CASE UNCHANGED conn
    BY <1>1, <2>2
  <2>3. CASE CloseCallback(l)
    <3>1. frame[l].c \in Conns
      BY <2>3 DEF CloseCallback, Handling, IsNext, Typed, FrameTyped
    <3>2. QED BY <1>4, <2>3, <3>1 DEF CloseCallback
  <2>4. CASE ReadCallback(l)
    <3>1. frame[l].c \in Conns
      BY <2>4, SMTT(60) DEF ReadCallback, Handling, IsNext, Typed, FrameTyped
    <3>2. QED BY <1>4, <2>2, <2>4, <3>1 DEF ReadCallback
  <2>5. CASE WriteCallback(l)
    <3>1. frame[l].c \in Conns /\ Only(frame[l].c) /\ \E n \in Nat : Drains(frame[l].c, n)
      BY <2>5, WriteEffect
    <3>2. QED BY <3>1 DEF Only, Drains, Operated
  <2>6. CASE RunFunctor(l)
    BY <1>9, <2>6
  <2>7. CASE CallbackReturns(l)
    <3>1. frame[l].c \in Conns /\ Returns(l)
      BY <2>7, ReturnTyped
    <3>2. Operated(conn[frame[l].c].chan, RemoveChannel(conn[frame[l].c].chan))
      BY DEF Operated
    <3>3. QED BY <1>2, <2>2, <3>1, <3>2 DEF Returns
  <2>8. QED
    BY <1>10, <2>1, <2>2, <2>3, <2>4, <2>5, <2>6, <2>7 DEF LoopStep, HandleEvent,
       ErrorCallback, SwapFunctors, EndFunctors
<1>11. ASSUME NEW l \in Loops, UserCode(l)
       PROVE  \A d \in Conns : Operated(conn[d].chan, conn'[d].chan)
  <2>1. frame[l].c \in Conns
    BY <1>11, UserCodeTyped
  <2>2. CASE CallbackSends(l)
    <3>1. sends + 1 \in 1..MaxSends
      BY <2>2, ServerAssumption DEF CallbackSends, Typed, CountTyped
    <3>2. QED BY <1>3, <2>1, <2>2, <3>1 DEF CallbackSends
  <2>3. CASE CallbackShutsDown(l)
    BY <1>5, <2>1, <2>3 DEF CallbackShutsDown
  <2>4. CASE UNCHANGED conn
    BY <1>1, <2>4
  <2>5. QED
    BY <1>11, <2>2, <2>3, <2>4 DEF UserCode, CallbackSendsFile, CallbackShares
<1>12. ASSUME NEW u \in Users, UserStep(u) \/ UserFinishes(u)
       PROVE  \A d \in Conns : Operated(conn[d].chan, conn'[d].chan)
  <2>1. CASE UserSetsState(u)
    <3>1. user[u].c \in Conns
      BY <2>1 DEF UserSetsState, UserGoes, Typed, UserTyped
    <3>2. QED BY <1>5, <2>1, <3>1 DEF UserSetsState
  <2>2. CASE UNCHANGED conn
    BY <1>1, <2>2
  <2>3. QED
    BY <1>12, <2>1, <2>2 DEF UserStep, UserFinishes, UserTestsForSend, UserTestsForShutdown,
       UserDrops, UserQueuesSend, UserQueuesFile, UserQueuesShutdown
<1>13. QED BY <1>6, <1>7, <1>8, <1>10, <1>11, <1>12 DEF Next, AcceptStep

(* Through every enable, disable, re-registration and removal, index_ says *)
(* whether the descriptor is in the epoll set and in channels_, and the    *)
(* kernel was told the present events_.                                    *)
THEOREM PollerAgrees == Spec => []ChannelsConsistent
<1>1. Init => ChannelsConsistent
  BY DEF Init, Unborn, NewChannel, ChannelsConsistent, Consistent
<1>2. Typed /\ ChannelsConsistent /\ [Next]_vars => ChannelsConsistent'
  <2> SUFFICES ASSUME Typed, ChannelsConsistent, [Next]_vars, NEW d \in Conns
               PROVE  Consistent(conn'[d].chan)
    BY DEF ChannelsConsistent
  <2>1. conn[d].chan \in ChannelType /\ Consistent(conn[d].chan)
    BY DEF Typed, ConnTyped, ConnType, ChannelsConsistent
  <2>2. QED BY <2>1, StepOperates, OperatedEffect
<1>3. QED BY <1>1, <1>2, TypedAlways, PTL DEF Spec
=============================================================================
