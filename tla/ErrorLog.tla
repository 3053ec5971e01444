------------------------------- MODULE ErrorLog -------------------------------
(***************************************************************************)
(* What a call of the logger does before the message is in the log: an     *)
(* ERROR or a FATAL is first sent to the backup server by a task of the    *)
(* thread pool (ThreadPool.hpp), and the caller waits for it.  The module  *)
(* composes AsyncLogger::serialize, the pool, start_backup                 *)
(* (backlog/CliBackupLog.cpp) and the server (backlog/ServerBackuplog.hpp  *)
(* and .cpp), which is a process of its own and may die and come back.     *)
(*                                                                         *)
(* A message is the number of the call that logs it.  That Push itself     *)
(* ends, and what becomes of the message then, is module AsyncWorker.      *)
(***************************************************************************)
EXTENDS ThreadPool

CONSTANTS Callers,    \* threads that log
          Retries,    \* cnt of start_backup, 5 in the code
          FdLimit,    \* sockets the process may have open for the backup
          MsgLen,     \* bytes of a message
          BufSize,    \* bytes of the buffer of service, 1024 in the code
          MayDelete,  \* the pool is deleted
          MaxCalls,   \* bound: calls
          MaxStops    \* bound: times the server dies

ASSUME LogAssumption == /\ IsFiniteSet(Callers)
                        /\ Retries \in Nat
                        /\ FdLimit \in Nat
                        /\ MsgLen \in Nat \ {0}
                        /\ BufSize \in Nat \ {0}
                        /\ MayDelete \in BOOLEAN
                        /\ MaxCalls \in Nat
                        /\ MaxStops \in Nat

VARIABLES caller,   \* per thread: where it is in serialize and its message
          calls,    \* the level of each call, in order
          ready,    \* messages whose future is ready
          logged,   \* messages given to AsyncWorker::Push, in order
          client,   \* per worker: start_backup's step, cnt and sock
          open,     \* descriptors open
          link,     \* per message: the connection it is sent on
          sent,     \* messages written to their connection
          up,       \* the backup server runs
          stops,    \* counter behind MaxStops
          file,     \* the records of logfile.log
          leaked    \* history: messages whose start_backup left its socket open

callVars   == <<caller, calls, logged>>
clientVars == <<client, open, ready, leaked>>
linkVars   == <<link, sent>>
serverVars == <<up, stops, file>>
vars       == <<poolVars, callVars, clientVars, linkVars, serverVars>>

Messages == 1..MaxCalls
Urgent   == {m \in 1..Len(calls) : calls[m] = "ERROR"}

(* A connection: accepted or not, with a thread or without one, closed     *)
(* behind a record or behind a read that failed, or gone with the server.  *)
LinkStates == {"none", "backlog", "served", "unserved", "closed", "unread", "lost"}

Idle     == [pc |-> "idle", m |-> 0]
NoClient == [step |-> "none", cnt |-> 0, sock |-> FALSE]

Init == /\ PoolInit
        /\ caller = [t \in Callers |-> Idle]
        /\ calls = <<>>
        /\ ready = {}
        /\ logged = <<>>
        /\ client = [w \in Workers |-> NoClient]
        /\ open = 0
        /\ link = [m \in Messages |-> "none"]
        /\ sent = {}
        /\ up \in BOOLEAN
        /\ stops = 0
        /\ file = <<>>
        /\ leaked = {}

-----------------------------------------------------------------------------
(* The threads that log.                                                   *)

(* Flush of AsyncLogger: the message is given to the AsyncWorker. *)
Flush(m) == logged' = Append(logged, m)

(* Thread t makes a call, whose message is the next number. *)
Calls(t, level) == /\ caller[t] = Idle
                   /\ Len(calls) < MaxCalls
                   /\ calls' = Append(calls, level)

(* It is then at pc in the call. *)
Enters(t, pc) == caller' = [caller EXCEPT ![t] = [pc |-> pc, m |-> Len(calls) + 1]]

(* Debug, Info or Warn: the message is not backed up. *)
LogPlain(t) == /\ Calls(t, "INFO")
               /\ Flush(Len(calls) + 1)
               /\ UNCHANGED <<caller, poolVars, clientVars, linkVars, serverVars>>

(* Error or Fatal, and serialize up to the unlock of enqueue.  Once stop   *)
(* is set enqueue throws, which serialize catches; once the pool has been  *)
(* freed, tp is no pointer to a pool any more and nothing is known of the  *)
(* thread that uses it.                                                    *)
LogError(t) ==
    /\ Calls(t, "ERROR")
    /\ \/ /\ dtor # "freed" /\ ~stop
          /\ Enters(t, "notify")
          /\ Enqueue(Len(calls) + 1)
          /\ UNCHANGED logged
       \/ /\ dtor # "freed" /\ stop
          /\ Flush(Len(calls) + 1)
          /\ UNCHANGED <<caller, poolVars>>
       \/ /\ dtor = "freed"
          /\ Enters(t, "undefined")
          /\ UNCHANGED <<poolVars, logged>>
    /\ UNCHANGED <<clientVars, linkVars, serverVars>>

(* The notify of enqueue, after the unlock. *)
NotifyWorker(t) ==
    /\ caller[t].pc = "notify"
    /\ \/ /\ dtor # "freed"
          /\ NotifyOne
          /\ caller' = [caller EXCEPT ![t].pc = "get"]
       \/ /\ dtor = "freed"
          /\ caller' = [caller EXCEPT ![t].pc = "undefined"]
          /\ UNCHANGED poolVars
    /\ UNCHANGED <<calls, logged, clientVars, linkVars, serverVars>>

(* ret.get() returns, and serialize ends with the flush. *)
GetAndFlush(t) == /\ caller[t].pc = "get"
                  /\ caller[t].m \in ready
                  /\ caller' = [caller EXCEPT ![t] = Idle]
                  /\ Flush(caller[t].m)
                  /\ UNCHANGED <<poolVars, calls, clientVars, linkVars, serverVars>>

CallerStep(t) == NotifyWorker(t) \/ GetAndFlush(t)

-----------------------------------------------------------------------------
(* The workers: start_backup.                                              *)

(* Worker w executes start_backup and is at this step of it. *)
Backing(w, step) == worker[w] = "run" /\ client[w].step = step

WorkerTakes(w) == /\ Take(w)
                  /\ client' = [client EXCEPT
                        ![w] = [step |-> "socket", cnt |-> 0, sock |-> FALSE]]
                  /\ UNCHANGED <<callVars, open, ready, leaked, linkVars, serverVars>>

WorkerSleeps(w) == /\ Sleep(w)
                   /\ UNCHANGED <<callVars, clientVars, linkVars, serverVars>>

WorkerWakes(w) == /\ Spurious(w)
                  /\ UNCHANGED <<callVars, clientVars, linkVars, serverVars>>

WorkerExits(w) == /\ Exit(w)
                  /\ UNCHANGED <<callVars, clientVars, linkVars, serverVars>>

(* start_backup returns: the future is ready and the worker is free. *)
Return(w) == /\ Finish(w)
             /\ ready' = ready \union {task[w]}
             /\ client' = [client EXCEPT ![w] = NoClient]

(* socket: when there is no descriptor left it fails, which is reported    *)
(* and otherwise ignored.                                                  *)
Socket(w) ==
    LET got == open < FdLimit
    IN  /\ Backing(w, "socket")
        /\ client' = [client EXCEPT ![w] = [step |-> "connect", cnt |-> Retries, sock |-> got]]
        /\ open' = IF got THEN open + 1 ELSE open
        /\ UNCHANGED <<poolVars, callVars, ready, leaked, linkVars, serverVars>>

(* connect reaches a server that runs. *)
MayConnect(w) == client[w].sock /\ up

Connected(w) ==
    /\ Backing(w, "connect")
    /\ MayConnect(w)
    /\ client' = [client EXCEPT ![w].step = "write"]
    /\ link' = [link EXCEPT ![task[w]] = "backlog"]
    /\ UNCHANGED <<poolVars, callVars, open, ready, leaked, sent, serverVars>>

(* Mutant: the retries are not counted. *)
RetryForever(w) ==
    /\ Backing(w, "connect")
    /\ ~MayConnect(w)
    /\ UNCHANGED <<poolVars, callVars, clientVars, linkVars, serverVars>>

(* connect fails: it is tried again, or start_backup returns and leaves    *)
(* sock open, if it has one.                                               *)
ConnectFails(w) ==
    /\ Backing(w, "connect")
    /\ ~MayConnect(w)
    /\ \/ /\ client[w].cnt > 0
          /\ client' = [client EXCEPT ![w].cnt = @ - 1]
          /\ UNCHANGED <<poolVars, ready, leaked>>
       \/ /\ client[w].cnt = 0
          /\ Return(w)
          /\ leaked' = IF client[w].sock THEN leaked \union {task[w]} ELSE leaked
    /\ UNCHANGED <<callVars, open, linkVars, serverVars>>

(* write: the message goes to the kernel of the server, unless the server  *)
(* has died since and the connection with it.                              *)
Write(w) ==
    /\ Backing(w, "write")
    /\ client' = [client EXCEPT ![w].step = "close"]
    /\ sent' = IF link[task[w]] = "lost" THEN sent ELSE sent \union {task[w]}
    /\ UNCHANGED <<poolVars, callVars, open, ready, leaked, link, serverVars>>

(* Mutant: start_backup never closes its socket. *)
ReturnOnly(w) ==
    /\ Backing(w, "close")
    /\ Return(w)
    /\ UNCHANGED <<callVars, open, leaked, linkVars, serverVars>>

Close(w) ==
    /\ Backing(w, "close")
    /\ Return(w)
    /\ open' = open - 1
    /\ UNCHANGED <<callVars, leaked, linkVars, serverVars>>

WorkerStep(w) == \/ WorkerTakes(w) \/ WorkerSleeps(w) \/ WorkerExits(w)
                 \/ Socket(w) \/ Connected(w) \/ ConnectFails(w)
                 \/ Write(w) \/ Close(w)

-----------------------------------------------------------------------------
(* delete(tp)                                                              *)

DeletePool == /\ MayDelete
              /\ SetStop
              /\ UNCHANGED <<callVars, clientVars, linkVars, serverVars>>

DestructorStep == /\ NotifyAll \/ Join
                  /\ UNCHANGED <<callVars, clientVars, linkVars, serverVars>>

-----------------------------------------------------------------------------
(* The backup server.                                                      *)

(* start_service accepts a connection and gives it a thread.  A failed     *)
(* accept is tried again; a failed pthread_create is not noticed, and the  *)
(* connection stays open without a thread.                                 *)
Accept(m) == /\ up
             /\ link[m] = "backlog"
             /\ \E l \in {"served", "unserved"} : link' = [link EXCEPT ![m] = l]
             /\ UNCHANGED <<poolVars, callVars, clientVars, sent, serverVars>>

(* backup_log: a record of n bytes of message m. *)
AppendRecord(m, n) == file' = Append(file, [m |-> m, n |-> n])

Smaller(a, b) == IF a < b THEN a ELSE b

(* Mutant: what fills the buffer is not recorded. *)
ServiceShort(m) ==
    /\ m \in sent
    /\ \E n \in 1..Smaller(MsgLen, BufSize) :
           IF n < BufSize THEN AppendRecord(m, n) ELSE UNCHANGED file
    /\ link' = [link EXCEPT ![m] = "closed"]

(* service, and the close after it: one read of at most BufSize bytes and  *)
(* perhaps fewer than were sent, or a read that fails, of which nothing is *)
(* recorded.  A read that fills the buffer has its terminator written      *)
(* behind it, which is undefined: either nothing comes of it or the        *)
(* process dies, and that is a ServerStops.                                *)
Service(m) ==
    \/ /\ m \in sent
       /\ \E n \in 1..Smaller(MsgLen, BufSize) : AppendRecord(m, n)
       /\ link' = [link EXCEPT ![m] = "closed"]
    \/ /\ link' = [link EXCEPT ![m] = "unread"]
       /\ UNCHANGED file

(* Mutant: the connection is read on, a record for every read. *)
RoutineInLoop(m) ==
    /\ up
    /\ link[m] = "served" /\ m \in sent
    /\ Len(file) < 2 * MaxCalls
    /\ AppendRecord(m, 1)
    /\ UNCHANGED <<poolVars, callVars, clientVars, linkVars, up, stops>>

(* A thread of the server. *)
ThreadRoutine(m) ==
    /\ up
    /\ link[m] = "served"
    /\ Service(m)
    /\ UNCHANGED <<poolVars, callVars, clientVars, sent, up, stops>>

(* The process of the server dies, with every connection, and is started   *)
(* again.                                                                  *)
ServerStops == /\ up
               /\ stops < MaxStops
               /\ stops' = stops + 1
               /\ up' = FALSE
               /\ link' = [m \in Messages |->
                              IF link[m] \in {"backlog", "served", "unserved"}
                              THEN "lost" ELSE link[m]]
               /\ UNCHANGED <<poolVars, callVars, clientVars, sent, file>>

ServerStarts == /\ ~up
                /\ up' = TRUE
                /\ UNCHANGED <<poolVars, callVars, clientVars, linkVars, stops, file>>

ServerStep(m) == Accept(m) \/ ThreadRoutine(m)

-----------------------------------------------------------------------------
Next == \/ \E t \in Callers : LogPlain(t) \/ LogError(t) \/ CallerStep(t)
        \/ \E w \in Workers : WorkerStep(w) \/ WorkerWakes(w)
        \/ DeletePool
        \/ DestructorStep
        \/ \E m \in Messages : ServerStep(m)
        \/ ServerStops
        \/ ServerStarts

Spec == Init /\ [][Next]_vars

(* Every thread that can go on does: the loggers, the workers, the thread  *)
(* in the destructor and those of a server that runs, where a read waits   *)
(* for the message.  Nothing makes the server come back, nobody has to     *)
(* delete the pool or to log, and no wait ends for no reason.              *)
Fairness == /\ \A t \in Callers : WF_vars(CallerStep(t))
            /\ \A w \in Workers : WF_vars(WorkerStep(w))
            /\ WF_vars(DestructorStep)
            /\ \A m \in Messages : WF_vars(Accept(m))
            /\ \A m \in Messages : WF_vars(m \in sent /\ ThreadRoutine(m))

FairSpec == Spec /\ Fairness

-----------------------------------------------------------------------------
TypeOK ==
    /\ PoolTypeOK(Messages)
    /\ caller \in [Callers -> [pc : {"idle", "notify", "get", "undefined"},
                               m : 0..MaxCalls]]
    /\ calls \in Seq({"ERROR", "INFO"})
    /\ ready \subseteq Messages
    /\ logged \in Seq(Messages)
    /\ client \in [Workers -> [step : {"none", "socket", "connect", "write", "close"},
                               cnt : 0..Retries, sock : BOOLEAN]]
    /\ open \in 0..FdLimit
    /\ link \in [Messages -> LinkStates]
    /\ sent \subseteq Messages
    /\ up \in BOOLEAN
    /\ stops \in 0..MaxStops
    /\ file \in Seq([m : Messages, n : 1..BufSize])
    /\ leaked \subseteq Messages

(* No wakeup of the pool is lost (ThreadPool::enqueue notifies after the   *)
(* unlock, once for every task): TasksCovered, counting the threads        *)
(* between the two.                                                        *)
WakeupPerTask == TasksCovered(Cardinality({t \in Callers : caller[t].pc = "notify"}))

(* The destructor of the pool drops no task (a worker leaves only when the *)
(* queue is empty): once it has ended, every future that was handed out is *)
(* ready and no thread waits for one in vain.                              *)
NoTaskDropped == dtor = "freed" =>
    \A t \in Callers : caller[t].pc \in {"notify", "get"} => caller[t].m \in ready

(* The backup has one record at most of a message, and only of one that    *)
(* was sent to it (one read and one connection for each, start_backup and  *)
(* service), whenever the server dies and comes back.                      *)
OneRecord == \A i, j \in 1..Len(file) : /\ file[i].m \in sent \cap Urgent
                                        /\ file[i].m = file[j].m => i = j

(* start_backup loses a descriptor exactly when it gives up connecting on  *)
(* one it has (the early return leaves sock open): every other one that is *)
(* open is the socket of a start_backup that still runs, and a call that   *)
(* got no descriptor loses none.                                           *)
DescriptorsLeft ==
    open = Cardinality({w \in Workers : client[w].sock}) + Cardinality(leaked)

(* Every call ends (serialize waits for a task that retries a bounded      *)
(* number of times), whether the server is up or not and though the pool   *)
(* is closed meanwhile; only a thread that uses the freed pool is lost.    *)
CallEnds == \A t \in Callers :
                (caller[t].pc # "idle") ~> (caller[t].pc \in {"idle", "undefined"})

(* The destructor of the pool returns (stop, notify_all, join). *)
DeletionEnds == (dtor # "none") ~> (dtor = "freed")

(* What was written to the server is recorded in part or whole, unless the *)
(* server dies with the connection, had no thread for it (pthread_create   *)
(* is not checked) or cannot read it (the listen queue of start_service,   *)
(* one thread per connection, one read in service).                        *)
SentIsRecorded == \A m \in Messages :
    (m \in sent) ~> \/ link[m] \in {"lost", "unserved", "unread"}
                     \/ \E i \in 1..Len(file) : file[i].m = m
=============================================================================
