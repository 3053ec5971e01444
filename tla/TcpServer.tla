------------------------------ MODULE TcpServer ------------------------------
(***************************************************************************)
(* The life of the connections of a started TcpServer: Acceptor,           *)
(* TcpServer, TcpConnection, Channel, EpollPoller and the loops composed.  *)
(*                                                                         *)
(* Every loop is a thread that waits in epoll_wait ("poll"), serves the    *)
(* active channels ("dispatch") and then executes the functors it swapped  *)
(* out of its queue ("run"); that no functor is lost or reordered on the   *)
(* way is what module EventLoop shows.  A handler is one step up to the    *)
(* user callback it makes and one step after it: user code runs in         *)
(* between, in the loop's thread, and may use the connection or hand its   *)
(* TcpConnectionPtr to another thread.  Those threads (Users) call send,   *)
(* sendFile and shutdown while every loop runs.                            *)
(*                                                                         *)
(* sock[c] is the kernel's side of a connection and external to the code:  *)
(* what has arrived, whether the peer finished (fin) or reset (rst), the   *)
(* pending socket error, room in the send buffer and whether the code shut *)
(* the write side down.  A byte is the number of the message it belongs    *)
(* to, a message has MsgLen bytes.                                         *)
(***************************************************************************)
EXTENDS Naturals, Sequences, Channel

CONSTANTS Conns,        \* connections that clients may open
          Users,        \* threads that are not loops
          Main,         \* the loop of the TcpServer, loop_
          SubLoops,     \* the loops of the thread pool, in order; may be empty
          MsgLen,       \* bytes in a message
          Room,         \* bytes the send buffer of a socket holds
          HighWaterMark,\* highWaterMark_
          UserCallbacks,\* which optional callbacks are set
          PeerMayReset, \* a peer may reset its connection
          SendsFiles,   \* sendFile is called, too
          FileLen,      \* bytes in a file that is sent
          FileCount,    \* count, the bytes of it that sendFile is to send
          MaxSends,     \* bound: calls of send and sendFile on a connection that is up
          MaxData       \* bound: times a peer sends something

ASSUME ServerAssumption == /\ MsgLen \in Nat \ {0}
                           /\ Room \in Nat \ {0}
                           /\ HighWaterMark \in Nat
                           /\ MaxSends \in Nat
                           /\ SendsFiles \in BOOLEAN
                           /\ FileLen \in Nat
                           /\ FileCount \in Nat \ {0}
                           /\ MaxData \in Nat
                           /\ UserCallbacks \subseteq {"writeComplete", "highWaterMark"}
                           /\ PeerMayReset \in BOOLEAN

(* What stands where no connection is meant. *)
NoConn   == "no connection"
Acceptor == "acceptor"

ASSUME NameAssumption == NoConn \notin Conns /\ Acceptor \notin Conns

ASSUME LoopAssumption == LET pool == {SubLoops[i] : i \in DOMAIN SubLoops}
                         IN  SubLoops \in Seq(pool) /\ Main \notin pool

VARIABLES conn,         \* per connection: the TcpConnection object
          sock,         \* per connection: the kernel's socket
          connections,  \* connections_ of the TcpServer
          next,         \* next_ of the EventLoopThreadPool, counted from 1
          pending,      \* per loop: the functors queued
          batch,        \* per loop: the functors swapped out, until all have run
          pos,          \* per loop: how many functors of batch have been started
          phase,        \* per loop: "poll", "dispatch" or "run"
          active,       \* per loop: active channels not yet served
          frame,        \* per loop: the handler or callback being executed
          user,         \* per thread: the call in progress and the pointer held
          sends, data,  \* counters behind MaxSends and MaxData
          hist,         \* per connection: history, see HistType
          fault         \* what ended the process, or "none"

vars == <<conn, sock, connections, next, pending, batch, pos, phase, active,
          frame, user, sends, data, hist, fault>>

Loops    == {Main} \union {SubLoops[i] : i \in DOMAIN SubLoops}
(* Functors that hold a TcpConnectionPtr; the others hold a bare this. *)
Owning == {"connectEstablished", "removeConnectionInLoop", "connectDestroyed",
           "writeComplete", "highWaterMark", "sendFileInLoop"}

(* msg: the number of the call of send or sendFile; off: the file offset. *)
Functor(kind, c)       == [kind |-> kind, c |-> c, msg |-> 0, off |-> 0]
SendFunctor(c, m)      == [kind |-> "sendInLoop", c |-> c, msg |-> m, off |-> 0]
FileFunctor(c, m, off) == [kind |-> "sendFileInLoop", c |-> c, msg |-> m, off |-> off]

NoFrame == [c |-> NoConn, cb |-> "none", due |-> {}]

NewSock == [rcv |-> 0, fin |-> FALSE, rst |-> FALSE, err |-> "none",
            room |-> Room, wrShut |-> FALSE]

(* sent: bytes given to the kernel; accepted: messages sendInLoop took on; *)
(* downs: connection callbacks that found connected() false; closed:       *)
(* handleClose has run; lateShut: shutdown was called after that; file:    *)
(* the bytes of files given to the kernel, each by its call, its position  *)
(* in the file and the number of message bytes that went before it.        *)
NoHist == [sent |-> <<>>, accepted |-> <<>>, downs |-> 0, closed |-> FALSE,
           lateShut |-> FALSE, file |-> <<>>]

(* The constructor of TcpConnection: a connection that loop l will serve. *)
NewConn(l) == [state |-> "kConnecting", loop |-> l, chan |-> NewChannel, out |-> <<>>]

(* Before that: no TcpConnection. *)
Unborn == [state |-> "none", loop |-> Main, chan |-> NewChannel, out |-> <<>>]

Init == /\ conn = [c \in Conns |-> Unborn]
        /\ sock = [c \in Conns |-> NewSock]
        /\ connections = {}
        /\ next = 1
        /\ pending = [l \in Loops |-> <<>>]
        /\ batch = [l \in Loops |-> <<>>]
        /\ pos = [l \in Loops |-> 0]
        /\ phase = [l \in Loops |-> "poll"]
        /\ active = [l \in Loops |-> {}]
        /\ frame = [l \in Loops |-> NoFrame]
        /\ user = [u \in Users |-> [pc |-> "idle", c |-> NoConn, msg |-> 0]]
        /\ sends = 0
        /\ data = 0
        /\ hist = [c \in Conns |-> NoHist]
        /\ fault = "none"

Elements(s) == {s[i] : i \in 1..Len(s)}

(* Someone holds a TcpConnectionPtr to c: the map, a functor (the vector   *)
(* of doPendingFunctions keeps its functors until all of them have run),   *)
(* the handler in progress or a user thread.                               *)
Alive(c) == \/ c \in connections
            \/ \E l \in Loops :
                  \/ frame[l].c = c
                  \/ \E f \in Elements(pending[l]) \union Elements(batch[l]) :
                        f.c = c /\ f.kind \in Owning
            \/ \E u \in Users : user[u].c = c

Created(c) == conn[c].state \in {"kConnecting", "kConnected", "kDisconnected"}

loopVars == <<phase, active, batch, pos>>

(* Nothing happens any more once the process has been terminated. *)
Running == fault = "none"

-----------------------------------------------------------------------------
(* The peers and the kernel.                                               *)

Connect(c) == /\ Running
              /\ conn[c].state = "none"
              /\ conn' = [conn EXCEPT ![c].state = "backlog"]
              /\ UNCHANGED <<sock, connections, next, pending, loopVars, frame,
                             user, sends, data, hist, fault>>

PeerIsUp(c) == Running /\ conn[c].state # "none" /\ ~sock[c].fin /\ ~sock[c].rst

PeerActs(c, s) == /\ sock' = [sock EXCEPT ![c] = s]
                  /\ UNCHANGED <<conn, connections, next, pending, loopVars,
                                 frame, user, sends, hist, fault>>

PeerSend(c) == /\ PeerIsUp(c)
               /\ data < MaxData
               /\ data' = data + 1
               /\ PeerActs(c, [sock[c] EXCEPT !.rcv = 1])

PeerFin(c) == /\ PeerIsUp(c)
              /\ PeerActs(c, [sock[c] EXCEPT !.fin = TRUE])
              /\ UNCHANGED data

(* The peer resets the connection, or the kernel gives it up because the   *)
(* peer does not answer.                                                   *)
PeerReset(c) == /\ Running
                /\ PeerMayReset
                /\ conn[c].state # "none"
                /\ ~sock[c].rst
                /\ \E e \in {IF sock[c].fin THEN "EPIPE" ELSE "ECONNRESET", "ETIMEDOUT"} :
                      PeerActs(c, [sock[c] EXCEPT !.rst = TRUE, !.err = e])
                /\ UNCHANGED data

PeerRead(c) == /\ Running
               /\ sock[c].room < Room
               /\ PeerActs(c, [sock[c] EXCEPT !.room = @ + 1])
               /\ UNCHANGED data

(* tcp_poll *)
Readiness(s) == {e \in {"IN", "OUT", "HUP", "ERR"} :
                    \/ e = "IN"  /\ (s.rcv > 0 \/ s.fin \/ s.rst)
                    \/ e = "OUT" /\ (s.room > 0 \/ s.wrShut \/ s.rst)
                    \/ e = "HUP" /\ (s.rst \/ (s.fin /\ s.wrShut))
                    \/ e = "ERR" /\ s.err # "none"}

(* write(2): what it returns.  A pending error other than EPIPE is         *)
(* reported once; any other write to a connection that is broken, or whose *)
(* write side is shut down, raises SIGPIPE, which nothing in the program   *)
(* ignores or handles.                                                     *)
PendingErrors == {"ECONNRESET", "ETIMEDOUT"}

WriteResult(s) ==
    LET broken == s.rst \/ s.wrShut
    IN  CASE broken /\ s.err \in PendingErrors    -> s.err
          [] broken /\ s.err \notin PendingErrors -> "SIGPIPE"
          [] ~broken /\ s.room = 0                -> "EWOULDBLOCK"
          [] OTHER                                -> "ok"

(* The socket's error after a call of write(2) with that result. *)
ErrorAfter(result, err) == IF result \in PendingErrors THEN "none" ELSE err

Smaller(a, b) == IF a < b THEN a ELSE b

Repeat(m, k) == [i \in 1..k |-> m]

-----------------------------------------------------------------------------
(* What the code does to a connection c.                                   *)

Queue(l, fs) == pending' = [pending EXCEPT ![l] = @ \o fs]

If(test, f) == IF test THEN <<f>> ELSE <<>>

(* Socket::shutdownWrite fails on a connection that was reset. *)
ShutdownWrite(s) == IF s.rst THEN s ELSE [s EXCEPT !.wrShut = TRUE]

(* Mutant: the write side is shut down while output is waiting. *)
ShutdownAtOnce(ch, s) == ShutdownWrite(s)

(* TcpConnection::shutdownInLoop *)
ShutdownInLoop(ch, s) == IF IsWriting(ch) THEN s ELSE ShutdownWrite(s)

(* Mutant: handleWrite forgets the shutdown that waited for it. *)
NothingAfterOutput(state, ch, s) == s

(* The end of handleWrite once outputBuffer_ is empty. *)
AfterOutput(state, ch, s) == IF state = "kDisconnected" THEN ShutdownInLoop(ch, s) ELSE s

(* Mutant: what is waiting in outputBuffer_ is overtaken. *)
MayAlwaysWrite(k) == TRUE

(* sendInLoop writes to the socket itself only if nothing waits. *)
MayWriteDirectly(k) == ~IsWriting(k.chan) /\ k.out = <<>>

(* TcpConnection::sendInLoop past its test of state_.  Only EPIPE and      *)
(* ECONNRESET are a faultError: after any other error the data is kept.    *)
SendInLoop(c, m) ==
    LET k          == conn[c]
        result     == IF MayWriteDirectly(k) THEN WriteResult(sock[c]) ELSE "buffered"
        nwrote     == IF result = "ok" THEN Smaller(MsgLen, sock[c].room) ELSE 0
        remaining  == MsgLen - nwrote
        faultError == result = "ECONNRESET"
        keep       == ~faultError /\ remaining > 0
        oldLen     == Len(k.out)
        high       == /\ keep
                      /\ oldLen + remaining >= HighWaterMark
                      /\ oldLen < HighWaterMark
        complete   == remaining = 0 /\ "writeComplete" \in UserCallbacks
    IN  IF result = "SIGPIPE"
        THEN fault' = "SIGPIPE" /\ UNCHANGED <<conn, sock, pending, hist>>
        ELSE /\ conn' = [conn EXCEPT
                   ![c].out = IF keep THEN @ \o Repeat(m, remaining) ELSE @,
                   ![c].chan = IF keep /\ ~IsWriting(@) THEN EnableWriting(@) ELSE @]
             /\ sock' = [sock EXCEPT ![c].room = @ - nwrote,
                                     ![c].err = ErrorAfter(result, @)]
             /\ hist' = [hist EXCEPT ![c].sent = @ \o Repeat(m, nwrote),
                                     ![c].accepted = IF faultError THEN @ ELSE Append(@, m)]
             /\ Queue(k.loop, If(complete, Functor("writeComplete", c))
                                \o If(high, Functor("highWaterMark", c)))
             /\ UNCHANGED fault

(* Mutant: the rest of the file is sent from where this part began. *)
FileFromStart(off, n) == off

(* sendfile(2) moves the offset, which goes into the functor for the rest. *)
FileRest(off, n) == off + n

(* sendFileInLoop leaves the socket alone while output waits. *)
MaySendFile(k) == ~IsWriting(k.chan) /\ k.out = <<>>

(* Mutant: a part of the file is taken for all of it. *)
FileOnce(faultError, remaining) == FALSE

(* The condition for another round. *)
FileAgain(faultError, remaining) == ~faultError /\ remaining > 0

(* TcpConnection::sendFileInLoop past its test of state_.  At the end of   *)
(* the file sendfile(2) returns 0 and does not touch the socket.  What     *)
(* remains is tested, but the functor for it is given count again.         *)
SendFileInLoop(c, m, off) ==
    LET k          == conn[c]
        result     == CASE ~MaySendFile(k) -> "waits"
                        [] MaySendFile(k) /\ off >= FileLen -> "ok"
                        [] OTHER -> WriteResult(sock[c])
        bytesSent  == IF result = "ok"
                      THEN Smaller(Smaller(FileCount, FileLen - off), sock[c].room) ELSE 0
        remaining  == FileCount - bytesSent
        faultError == result = "ECONNRESET"
        complete   == remaining = 0 /\ "writeComplete" \in UserCallbacks
    IN  IF result = "SIGPIPE"
        THEN fault' = "SIGPIPE" /\ UNCHANGED <<sock, pending, hist>>
        ELSE /\ sock' = [sock EXCEPT ![c].room = @ - bytesSent,
                                     ![c].err = ErrorAfter(result, @)]
             /\ hist' = [hist EXCEPT ![c].file = @ \o [i \in 1..bytesSent |->
                            [call |-> m, pos |-> off + i, after |-> Len(hist[c].sent)]]]
             /\ Queue(k.loop, If(complete, Functor("writeComplete", c))
                                \o If(FileAgain(faultError, remaining),
                                      FileFunctor(c, m, FileRest(off, bytesSent))))
             /\ UNCHANGED fault

(* Mutant: the connection is forgotten and never destroyed. *)
EraseOnly(c) == connections' = connections \ {c} /\ UNCHANGED pending

(* TcpServer::removeConnectionInLoop, in the thread of Main. *)
RemoveConnectionInLoop(c) ==
    /\ connections' = connections \ {c}
    /\ Queue(conn[c].loop, <<Functor("connectDestroyed", c)>>)

(* TcpServer::removeConnection, called in the thread of loop l. *)
RemoveConnection(l, c) ==
    IF l = Main THEN RemoveConnectionInLoop(c)
    ELSE /\ Queue(Main, <<Functor("removeConnectionInLoop", c)>>)
         /\ UNCHANGED connections

(* Loop l continues with what is left of the event, or has finished it. *)
Resume(l, due) == frame' = [frame EXCEPT ![l] =
                      IF due = {} THEN NoFrame ELSE [@ EXCEPT !.cb = "none", !.due = due]]

(* Loop l calls a user callback on c. *)
Call(l, c, cb, due) == frame' = [frame EXCEPT ![l] = [c |-> c, cb |-> cb, due |-> due]]

(* The connection callback counts as a DOWN if connected() is false. *)
CountDown(k, downs) == IF k.state = "kConnected" THEN downs ELSE downs + 1

(* TcpConnection::connectEstablished up to the connection callback. *)
ConnectEstablished(l, c) ==
    /\ conn' = [conn EXCEPT ![c].state = "kConnected", ![c].chan = EnableReading(@)]
    /\ Call(l, c, "up", {})

-----------------------------------------------------------------------------
(* The loops: epoll_wait and the active channels.                          *)

ReadyConns(l) == {c \in Conns : /\ Created(c)
                                /\ conn[c].loop = l
                                /\ Reported(conn[c].chan, Readiness(sock[c])) # {}}

ReadyAcceptor(l) == IF l = Main /\ \E c \in Conns : conn[c].state = "backlog"
                    THEN {Acceptor} ELSE {}

(* EpollPoller::poll and fillActiveChannels.  A wakeup shows as a queue    *)
(* that is not empty; a return with nothing to do leaves no trace.         *)
Poll(l) == /\ Running
           /\ phase[l] = "poll"
           /\ ReadyConns(l) \union ReadyAcceptor(l) # {} \/ pending[l] # <<>>
           /\ phase' = [phase EXCEPT ![l] = "dispatch"]
           /\ active' = [active EXCEPT ![l] = ReadyConns(l) \union ReadyAcceptor(l)]
           /\ conn' = [c \in Conns |->
                  IF c \in ReadyConns(l)
                  THEN [conn[c] EXCEPT !.chan.revents =
                           Reported(conn[c].chan, Readiness(sock[c]))]
                  ELSE conn[c]]
           /\ UNCHANGED <<sock, connections, next, pending, batch, pos, frame,
                          user, sends, data, hist, fault>>

(* Loop l is between two active channels. *)
Dispatching(l) == Running /\ phase[l] = "dispatch" /\ frame[l] = NoFrame

(* EventLoopThreadPool::getNextLoop: the loop it returns and, below, how   *)
(* it moves next_ on.                                                      *)
NextLoop == IF SubLoops = <<>> THEN Main ELSE SubLoops[next]

AdvanceNext == IF next >= Len(SubLoops) THEN 1 ELSE next + 1

(* Acceptor::handleRead accepts one connection; what it then does with it  *)
(* depends on what accept4 returned.                                       *)
AcceptorHandleRead(c) ==
    /\ Dispatching(Main)
    /\ Acceptor \in active[Main]
    /\ conn[c].state = "backlog"
    /\ active' = [active EXCEPT ![Main] = @ \ {Acceptor}]

(* TcpServer::newConnection *)
NewConnection(c) ==
    /\ AcceptorHandleRead(c)
    /\ connections' = connections \union {c}
    /\ next' = AdvanceNext
    /\ IF NextLoop = Main
       THEN ConnectEstablished(Main, c) /\ UNCHANGED pending
       ELSE /\ conn' = [conn EXCEPT ![c] = NewConn(NextLoop)]
            /\ Queue(NextLoop, <<Functor("connectEstablished", c)>>)
            /\ UNCHANGED frame
    /\ UNCHANGED <<sock, phase, batch, pos, user, sends, data, hist, fault>>

(* accept4 is given a client_len nobody initialised: with a negative value *)
(* it fails and the kernel drops the connection it had accepted.           *)
AcceptFails(c) ==
    /\ AcceptorHandleRead(c)
    /\ conn' = [conn EXCEPT ![c].state = "refused"]
    /\ UNCHANGED <<sock, connections, next, pending, phase, batch, pos, frame,
                   user, sends, data, hist, fault>>

(* accept4 fails and leaves the connection in the backlog, as for want of  *)
(* a descriptor: the acceptor is told of it again.                         *)
AcceptRetried(c) ==
    /\ AcceptorHandleRead(c)
    /\ UNCHANGED <<conn, sock, connections, next, pending, phase, batch, pos, frame,
                   user, sends, data, hist, fault>>

(* Channel::handleEvent: the guard is taken, the callbacks that are due    *)
(* are called one by one.                                                  *)
HandleEvent(l, c) ==
    /\ Dispatching(l)
    /\ c \in active[l]
    /\ active' = [active EXCEPT ![l] = @ \ {c}]
    /\ Call(l, c, "none", Due(conn[c].chan.revents))
    /\ UNCHANGED <<conn, sock, connections, next, pending, phase, batch, pos,
                   user, sends, data, hist, fault>>

(* Loop l is about to call the callback k of its current channel. *)
Handling(l, k) == Running /\ frame[l].cb = "none" /\ IsNext(k, frame[l].due)

(* TcpConnection::handleClose up to the connection callback. *)
HandleClose(l, c, due) ==
    /\ conn' = [conn EXCEPT ![c].chan = DisableAll(@)]
    /\ hist' = [hist EXCEPT ![c].downs = CountDown(conn[c], @), ![c].closed = TRUE]
    /\ Call(l, c, "close", due)

CloseCallback(l) ==
    /\ Handling(l, "close")
    /\ HandleClose(l, frame[l].c, frame[l].due \ {"close"})
    /\ UNCHANGED <<sock, connections, next, pending, loopVars, user, sends, data, fault>>

(* TcpConnection::handleError: reading SO_ERROR clears it. *)
ErrorCallback(l) ==
    /\ Handling(l, "error")
    /\ sock' = [sock EXCEPT ![frame[l].c].err = "none"]
    /\ Resume(l, frame[l].due \ {"error"})
    /\ UNCHANGED <<conn, connections, next, pending, loopVars, user, sends, data,
                   hist, fault>>

(* TcpConnection::handleRead: data, then the end of the stream or, if it   *)
(* was reset without one, the error and then the end.                      *)
ReadCallback(l) ==
    LET c   == frame[l].c
        s   == sock[c]
        due == frame[l].due \ {"read"}
    IN  /\ Handling(l, "read")
        /\ \/ /\ s.rcv > 0
              /\ sock' = [sock EXCEPT ![c].rcv = 0]
              /\ Call(l, c, "message", due)
              /\ UNCHANGED <<conn, hist>>
           \/ /\ s.rcv = 0
              /\ s.fin \/ s.err = "none"
              /\ HandleClose(l, c, due)
              /\ UNCHANGED sock
           \/ /\ s.rcv = 0
              /\ ~s.fin /\ s.err # "none"
              /\ sock' = [sock EXCEPT ![c].err = "none"]
              /\ Resume(l, due)
              /\ UNCHANGED <<conn, hist>>
        /\ UNCHANGED <<connections, next, pending, loopVars, user, sends, data, fault>>

(* TcpConnection::handleWrite *)
WriteCallback(l) ==
    LET c       == frame[l].c
        k       == conn[c]
        result  == IF IsWriting(k.chan) THEN WriteResult(sock[c]) ELSE "down"
        n       == IF result = "ok" THEN Smaller(Len(k.out), sock[c].room) ELSE 0
        emptied == result = "ok" /\ n = Len(k.out)
        s       == [sock[c] EXCEPT !.room = @ - n,
                                   !.err = ErrorAfter(result, @)]
        ch      == DisableWriting(k.chan)
    IN  /\ Handling(l, "write")
        /\ Resume(l, frame[l].due \ {"write"})
        /\ fault' = IF result = "SIGPIPE" THEN "SIGPIPE" ELSE fault
        /\ conn' = [conn EXCEPT ![c].out = SubSeq(@, n + 1, Len(@)),
                                ![c].chan = IF emptied THEN ch ELSE @]
        /\ sock' = [sock EXCEPT ![c] = IF emptied THEN AfterOutput(k.state, ch, s) ELSE s]
        /\ hist' = [hist EXCEPT ![c].sent = @ \o SubSeq(k.out, 1, n)]
        /\ Queue(l, If(emptied /\ "writeComplete" \in UserCallbacks,
                       Functor("writeComplete", c)))
        /\ UNCHANGED <<connections, next, loopVars, user, sends, data>>

-----------------------------------------------------------------------------
(* The loops: doPendingFunctions.                                          *)

SwapFunctors(l) ==
    /\ Dispatching(l)
    /\ active[l] = {}
    /\ phase' = [phase EXCEPT ![l] = "run"]
    /\ batch' = [batch EXCEPT ![l] = pending[l]]
    /\ pending' = [pending EXCEPT ![l] = <<>>]
    /\ UNCHANGED <<conn, sock, connections, next, pos, active, frame, user, sends,
                   data, hist, fault>>

(* The functors are destroyed together, when all have run. *)
EndFunctors(l) ==
    /\ Running
    /\ phase[l] = "run" /\ frame[l] = NoFrame
    /\ pos[l] = Len(batch[l])
    /\ phase' = [phase EXCEPT ![l] = "poll"]
    /\ batch' = [batch EXCEPT ![l] = <<>>]
    /\ pos' = [pos EXCEPT ![l] = 0]
    /\ UNCHANGED <<conn, sock, connections, next, pending, active, frame, user, sends,
                   data, hist, fault>>

(* Loop l starts the next functor f of its batch. *)
Starts(l, f) == /\ Running
                /\ phase[l] = "run" /\ frame[l] = NoFrame
                /\ pos[l] < Len(batch[l])
                /\ f = batch[l][pos[l] + 1]
                /\ pos' = [pos EXCEPT ![l] = @ + 1]
                /\ UNCHANGED <<sends, data, next, user, phase, active, batch>>

RunConnectEstablished(l, f) ==
    /\ f.kind = "connectEstablished"
    /\ Starts(l, f)
    /\ ConnectEstablished(l, f.c)
    /\ UNCHANGED <<sock, connections, pending, hist, fault>>

(* Mutant: the channel stays with the poller. *)
DestroyWithoutRemove(l, c) ==
    IF conn[c].state = "kConnected"
    THEN /\ conn' = [conn EXCEPT ![c].state = "kDisconnected", ![c].chan = DisableAll(@)]
         /\ hist' = [hist EXCEPT ![c].downs = @ + 1]
         /\ Call(l, c, "down", {})
    ELSE UNCHANGED <<conn, hist, frame>>

(* Mutant: the connection callback is made whatever state_ is. *)
DestroyAlwaysReports(l, c) ==
    /\ conn' = [conn EXCEPT ![c].state = "kDisconnected", ![c].chan = DisableAll(@)]
    /\ hist' = [hist EXCEPT ![c].downs = @ + 1]
    /\ Call(l, c, "down", {})

(* TcpConnection::connectDestroyed, up to the connection callback if it    *)
(* makes one.                                                              *)
ConnectDestroyed(l, c) ==
    IF conn[c].state = "kConnected"
    THEN /\ conn' = [conn EXCEPT ![c].state = "kDisconnected", ![c].chan = DisableAll(@)]
         /\ hist' = [hist EXCEPT ![c].downs = @ + 1]
         /\ Call(l, c, "down", {})
    ELSE /\ conn' = [conn EXCEPT ![c].chan = RemoveChannel(@)]
         /\ UNCHANGED <<hist, frame>>

RunConnectDestroyed(l, f) ==
    /\ f.kind = "connectDestroyed"
    /\ Starts(l, f)
    /\ ConnectDestroyed(l, f.c)
    /\ UNCHANGED <<sock, connections, pending, fault>>

RunRemoveConnection(l, f) ==
    /\ f.kind = "removeConnectionInLoop"
    /\ Starts(l, f)
    /\ RemoveConnectionInLoop(f.c)
    /\ UNCHANGED <<conn, sock, frame, hist, fault>>

(* A user callback queued by send or by a handler; an empty std::function  *)
(* throws when it is called.                                               *)
RunUserCallback(l, f) ==
    /\ f.kind \in {"writeComplete", "highWaterMark"}
    /\ Starts(l, f)
    /\ IF f.kind \in UserCallbacks
       THEN Call(l, f.c, f.kind, {}) /\ UNCHANGED fault
       ELSE fault' = "bad_function_call" /\ UNCHANGED frame
    /\ UNCHANGED <<conn, sock, connections, pending, hist>>

(* sendInLoop and shutdownInLoop were bound to a bare this, sendFileInLoop *)
(* to shared_from_this().                                                  *)
RunSend(l, f) ==
    /\ f.kind = "sendInLoop"
    /\ Starts(l, f)
    /\ \/ /\ ~Alive(f.c)
          /\ fault' = "dangling"
          /\ UNCHANGED <<conn, sock, pending, hist>>
       \/ /\ Alive(f.c)
          /\ conn[f.c].state = "kDisconnected"
          /\ UNCHANGED <<conn, sock, pending, hist, fault>>
       \/ /\ Alive(f.c)
          /\ conn[f.c].state # "kDisconnected"
          /\ SendInLoop(f.c, f.msg)
    /\ UNCHANGED <<connections, frame>>

RunSendFile(l, f) ==
    /\ f.kind = "sendFileInLoop"
    /\ Starts(l, f)
    /\ IF conn[f.c].state = "kDisconnected"
       THEN UNCHANGED <<sock, pending, hist, fault>>
       ELSE SendFileInLoop(f.c, f.msg, f.off)
    /\ UNCHANGED <<conn, connections, frame>>

RunShutdown(l, f) ==
    /\ f.kind = "shutdownInLoop"
    /\ Starts(l, f)
    /\ fault' = IF Alive(f.c) THEN fault ELSE "dangling"
    /\ sock' = [sock EXCEPT ![f.c] = IF Alive(f.c)
                                     THEN ShutdownInLoop(conn[f.c].chan, @) ELSE @]
    /\ UNCHANGED <<conn, connections, pending, frame, hist>>

-----------------------------------------------------------------------------
(* User code in the thread of loop l, inside a callback on a connection.   *)

InCallback(l) == Running /\ frame[l].cb # "none"

(* send: the connection is up, so sendInLoop is called at once. *)
CallbackSends(l) ==
    /\ InCallback(l)
    /\ conn[frame[l].c].state = "kConnected"
    /\ sends < MaxSends
    /\ sends' = sends + 1
    /\ SendInLoop(frame[l].c, sends + 1)
    /\ UNCHANGED <<connections, next, loopVars, frame, user, data>>

(* sendFile: likewise with sendFileInLoop; here of a whole file. *)
CallbackSendsFile(l) ==
    /\ InCallback(l)
    /\ SendsFiles
    /\ conn[frame[l].c].state = "kConnected"
    /\ sends < MaxSends
    /\ sends' = sends + 1
    /\ SendFileInLoop(frame[l].c, sends + 1, 0)
    /\ UNCHANGED <<conn, connections, next, loopVars, frame, user, data>>

(* shutdown: state_ is set and shutdownInLoop is called at once. *)
CallbackShutsDown(l) ==
    LET c == frame[l].c
    IN  /\ InCallback(l)
        /\ conn[c].state = "kConnected"
        /\ conn' = [conn EXCEPT ![c].state = "kDisconnected"]
        /\ sock' = [sock EXCEPT ![c] = ShutdownInLoop(conn[c].chan, @)]
        /\ hist' = [hist EXCEPT ![c].lateShut = @ \/ hist[c].closed]
        /\ UNCHANGED <<connections, next, pending, loopVars, frame, user, sends,
                       data, fault>>

(* The callback's TcpConnectionPtr is copied for another thread. *)
CallbackShares(l, u) ==
    /\ InCallback(l)
    /\ user[u].c = NoConn
    /\ user' = [user EXCEPT ![u].c = frame[l].c]
    /\ UNCHANGED <<conn, sock, connections, next, pending, loopVars, frame, sends,
                   data, hist, fault>>

(* The callback returns: handleClose goes on with closeCallback_,          *)
(* connectDestroyed with channel_->remove().                               *)
CallbackReturns(l) ==
    LET c == frame[l].c
    IN  /\ InCallback(l)
        /\ Resume(l, frame[l].due)
        /\ IF frame[l].cb = "close"
           THEN RemoveConnection(l, c)
           ELSE UNCHANGED <<connections, pending>>
        /\ conn' = IF frame[l].cb = "down"
                   THEN [conn EXCEPT ![c].chan = RemoveChannel(@)] ELSE conn
        /\ UNCHANGED <<sock, next, loopVars, user, sends, data, hist, fault>>

-----------------------------------------------------------------------------
(* Threads that are not loops.  send and shutdown test state_, and act on  *)
(* what they saw in a later step.                                          *)

UserGoes(u, from, to) == /\ Running
                         /\ user[u].pc = from
                         /\ user' = [user EXCEPT ![u].pc = to]

SeesConnected(u) == /\ Running
                    /\ user[u].c # NoConn
                    /\ conn[user[u].c].state = "kConnected"

UserTestsForSend(u, call) ==
    /\ SeesConnected(u)
    /\ user[u].pc = "idle"
    /\ call = "sendFile" => SendsFiles
    /\ sends < MaxSends
    /\ sends' = sends + 1
    /\ user' = [user EXCEPT ![u].pc = call, ![u].msg = sends + 1]
    /\ UNCHANGED <<conn, sock, connections, next, pending, loopVars, frame, data,
                   hist, fault>>

UserQueuesSend(u) ==
    /\ Running
    /\ user[u].pc = "send"
    /\ user' = [user EXCEPT ![u].pc = "idle", ![u].msg = 0]
    /\ Queue(conn[user[u].c].loop, <<SendFunctor(user[u].c, user[u].msg)>>)
    /\ UNCHANGED <<conn, sock, connections, next, loopVars, frame, sends, data, hist, fault>>

UserQueuesFile(u) ==
    /\ Running
    /\ user[u].pc = "sendFile"
    /\ user' = [user EXCEPT ![u].pc = "idle", ![u].msg = 0]
    /\ Queue(conn[user[u].c].loop, <<FileFunctor(user[u].c, user[u].msg, 0)>>)
    /\ UNCHANGED <<conn, sock, connections, next, loopVars, frame, sends, data, hist, fault>>

UserTestsForShutdown(u) ==
    /\ SeesConnected(u)
    /\ UserGoes(u, "idle", "shutdown")
    /\ UNCHANGED <<conn, sock, connections, next, pending, loopVars, frame, sends,
                   data, hist, fault>>

UserSetsState(u) ==
    /\ UserGoes(u, "shutdown", "shutting")
    /\ conn' = [conn EXCEPT ![user[u].c].state = "kDisconnected"]
    /\ hist' = [hist EXCEPT ![user[u].c].lateShut = @ \/ hist[user[u].c].closed]
    /\ UNCHANGED <<sock, connections, next, pending, loopVars, frame, sends, data, fault>>

UserQueuesShutdown(u) ==
    /\ UserGoes(u, "shutting", "idle")
    /\ Queue(conn[user[u].c].loop, <<Functor("shutdownInLoop", user[u].c)>>)
    /\ UNCHANGED <<conn, sock, connections, next, loopVars, frame, sends, data, hist, fault>>

UserDrops(u) ==
    /\ Running
    /\ user[u].c # NoConn
    /\ user[u].pc = "idle"
    /\ user' = [user EXCEPT ![u].c = NoConn]
    /\ UNCHANGED <<conn, sock, connections, next, pending, loopVars, frame, sends,
                   data, hist, fault>>

-----------------------------------------------------------------------------
RunFunctor(l) == \E f \in Elements(batch[l]) :
                    \/ RunConnectEstablished(l, f) \/ RunConnectDestroyed(l, f)
                    \/ RunRemoveConnection(l, f) \/ RunUserCallback(l, f)
                    \/ RunSend(l, f) \/ RunSendFile(l, f) \/ RunShutdown(l, f)

LoopStep(l) == \/ Poll(l)
               \/ \E c \in Conns : HandleEvent(l, c)
               \/ CloseCallback(l) \/ ErrorCallback(l) \/ ReadCallback(l) \/ WriteCallback(l)
               \/ SwapFunctors(l) \/ RunFunctor(l) \/ EndFunctors(l)
               \/ CallbackReturns(l)

AcceptStep == \E c \in Conns : NewConnection(c) \/ AcceptFails(c) \/ AcceptRetried(c)

UserCode(l) == \/ CallbackSends(l) \/ CallbackSendsFile(l) \/ CallbackShutsDown(l)
               \/ \E u \in Users : CallbackShares(l, u)

UserFinishes(u) == \/ UserQueuesSend(u) \/ UserQueuesFile(u)
                   \/ UserSetsState(u) \/ UserQueuesShutdown(u)

PeerStep(c) == Connect(c) \/ PeerSend(c) \/ PeerFin(c) \/ PeerReset(c)

UserStep(u) == \/ \E call \in {"send", "sendFile"} : UserTestsForSend(u, call)
               \/ UserTestsForShutdown(u) \/ UserDrops(u)

Next == \/ \E l \in Loops : LoopStep(l) \/ UserCode(l)
        \/ AcceptStep
        \/ \E c \in Conns : PeerStep(c) \/ PeerRead(c)
        \/ \E u \in Users : UserStep(u) \/ UserFinishes(u)

Spec == Init /\ [][Next]_vars

(* The loops are scheduled and user callbacks return; a call that a thread *)
(* has begun is finished; the kernel keeps sending what it was given.      *)
Fairness == /\ \A l \in Loops : WF_vars(LoopStep(l))
            /\ WF_vars(AcceptStep)
            /\ \A u \in Users : WF_vars(UserFinishes(u))
            /\ \A c \in Conns : WF_vars(PeerRead(c))

FairSpec == Spec /\ Fairness

-----------------------------------------------------------------------------
FunctorType == [kind : Owning \union {"sendInLoop", "shutdownInLoop"},
                c : Conns, msg : 0..MaxSends, off : 0..FileLen]

TypeOK ==
    /\ conn \in [Conns -> [state : {"none", "backlog", "refused", "kConnecting",
                                    "kConnected", "kDisconnected"},
                           loop : Loops, chan : ChannelType, out : Seq(1..MaxSends)]]
    /\ sock \in [Conns -> [rcv : {0, 1}, fin : BOOLEAN, rst : BOOLEAN,
                           err : {"none", "EPIPE"} \union PendingErrors, room : 0..Room,
                           wrShut : BOOLEAN]]
    /\ connections \subseteq Conns
    /\ next \in 1..(IF SubLoops = <<>> THEN 1 ELSE Len(SubLoops))
    /\ pending \in [Loops -> Seq(FunctorType)]
    /\ batch \in [Loops -> Seq(FunctorType)]
    /\ pos \in [Loops -> Nat]
    /\ phase \in [Loops -> {"poll", "dispatch", "run"}]
    /\ active \in [Loops -> SUBSET (Conns \union {Acceptor})]
    /\ frame \in [Loops -> [c : Conns \union {NoConn},
                            cb : {"none", "up", "message", "close", "down",
                                  "writeComplete", "highWaterMark"},
                            due : SUBSET Callbacks]]
    /\ user \in [Users -> [pc : {"idle", "send", "sendFile", "shutdown", "shutting"},
                           c : Conns \union {NoConn}, msg : 0..MaxSends]]
    /\ sends \in 0..MaxSends
    /\ data \in 0..MaxData
    /\ hist \in [Conns -> [sent : Seq(1..MaxSends), accepted : Seq(1..MaxSends),
                           downs : Nat, closed : BOOLEAN, lateShut : BOOLEAN,
                           file : Seq([call : 1..MaxSends, pos : 1..FileLen, after : Nat])]]
    /\ fault \in {"none", "SIGPIPE", "bad_function_call", "dangling"}

(***************************************************************************)
(* EpollPoller never hands out a dead Channel: a TcpConnection that no     *)
(* TcpConnectionPtr refers to any more is out of the epoll set and of      *)
(* channels_, and waits in no list of active channels, whatever thread     *)
(* dropped the last pointer (connectDestroyed, removeConnection, tie).     *)
(***************************************************************************)
DeadIsUnregistered ==
    \A c \in Conns : Created(c) /\ ~Alive(c) =>
        /\ ~conn[c].chan.watched /\ ~conn[c].chan.listed
        /\ \A l \in Loops : c \notin active[l]

(* index_ tells the truth about the epoll set and channels_ through every  *)
(* enable, disable, re-registration and removal.                           *)
ChannelsConsistent == \A c \in Conns : Consistent(conn[c].chan)

(***************************************************************************)
(* sendInLoop and handleWrite together keep the byte stream: what was      *)
(* written, followed by what waits in outputBuffer_, is the concatenation  *)
(* of the messages taken on, in order, across partial writes.              *)
(***************************************************************************)
StreamIntact ==
    \A c \in Conns : hist[c].sent \o conn[c].out =
        [i \in 1..(Len(hist[c].accepted) * MsgLen) |->
            hist[c].accepted[(i - 1) \div MsgLen + 1]]

(* Until handleClose, write events are on exactly while output is waiting. *)
WritingIffBuffered ==
    \A c \in Conns : Created(c) /\ ~hist[c].closed =>
        (IsWriting(conn[c].chan) <=> conn[c].out # <<>>)

(* shutdown() is a half close that lets waiting output go first: the write *)
(* side is shut down with output waiting only after handleClose.           *)
FinAfterOutput ==
    [][\A c \in Conns : ~sock[c].wrShut /\ sock[c].wrShut'
          => conn[c].out' = <<>> \/ hist[c].closed]_vars

(***************************************************************************)
(* A connection whose peer has finished or reset it is taken out of        *)
(* connections_ and of the poller, over the hops from its loop to Main and *)
(* back.                                                                   *)
(***************************************************************************)
PeerGoneIsRemoved ==
    \A c \in Conns :
        (Created(c) /\ (sock[c].fin \/ sock[c].rst))
            ~> (\/ c \notin connections /\ conn[c].chan.index = "NEW"
                \/ fault # "none")

(* Output that waits is written, also beside files that are sent in rounds *)
(* on the same loop, or the connection is closed.                          *)
OutputDrains ==
    \A c \in Conns : (conn[c].out # <<>>)
                        ~> (conn[c].out = <<>> \/ hist[c].closed \/ fault # "none")

(* The positions of the bytes that call m of sendFile has sent on c. *)
Positions(c, m) == {b.pos : b \in {x \in Elements(hist[c].file) : x.call = m}}

(* A file of which a part was sent is sent to the end of what was asked    *)
(* for, over as many rounds as it takes and whatever is sent beside it,    *)
(* unless the connection is shut down or closed.                           *)
FileDrains ==
    \A c \in Conns, m \in 1..MaxSends :
        (Positions(c, m) # {})
            ~> (\/ Smaller(FileCount, FileLen) \in Positions(c, m)
                \/ conn[c].state = "kDisconnected" \/ hist[c].closed
                \/ fault # "none")

(* A shutdown is followed by the half close of the socket, however it      *)
(* meets output that waits, unless the connection is closed before.        *)
ShutdownSendsFin ==
    \A c \in Conns : (conn[c].state = "kDisconnected")
                        ~> (sock[c].wrShut \/ hist[c].closed \/ fault # "none")

(***************************************************************************)
(* However close, shutdown and destruction interleave, a connection is     *)
(* reported down once and before it is destroyed: by handleClose if        *)
(* shutdown came before it, else by connectDestroyed.  Excepted is a       *)
(* shutdown between the two, which finds the connection still up and takes *)
(* the report away from connectDestroyed.                                  *)
(***************************************************************************)
DownIsReported ==
    \A c \in Conns :
        /\ hist[c].downs <= 1
        /\ Created(c) /\ ~Alive(c) /\ ~hist[c].lateShut => hist[c].downs = 1

(* The positions of the bytes of the same file that went before byte i. *)
Earlier(bytes, i) == {bytes[j].pos : j \in {k \in 1..(i - 1) : bytes[k].call = bytes[i].call}}

(***************************************************************************)
(* sendFileInLoop, which queues itself for what remains, sends the bytes   *)
(* of a file in order, without a gap and without sending one twice, and    *)
(* none of them inside a message that was written in part: it lets         *)
(* outputBuffer_ drain first.                                              *)
(***************************************************************************)
FileIntact ==
    \A c \in Conns : \A i \in 1..Len(hist[c].file) :
        /\ Earlier(hist[c].file, i) = 1..(hist[c].file[i].pos - 1)
        /\ hist[c].file[i].after % MsgLen = 0

(* sendFile sends count bytes of the file and no more. *)
FileWithinCount ==
    \A c \in Conns : \A i \in 1..Len(hist[c].file) : hist[c].file[i].pos <= FileCount

(* A functor that is executed finds its TcpConnection. *)
FunctorsFindConnection == fault # "dangling"
=============================================================================
