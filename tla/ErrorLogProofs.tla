---------------------------- MODULE ErrorLogProofs ----------------------------
(***************************************************************************)
(* Proofs about ErrorLog and the thread pool in it, for any finite sets of *)
(* workers and callers, any number of calls, retries, descriptors and      *)
(* deaths of the backup server, and messages and buffers of any length.    *)
(***************************************************************************)
EXTENDS ErrorLog, FiniteSetTheorems, SequenceTheorems, TLAPS

(* The destructor and the flag: a worker leaves only when stop is set and  *)
(* nothing is queued, and the pool is freed after the last of them.        *)
PoolInv == /\ dtor # "none" <=> stop
           /\ \A w \in Workers : worker[w] = "exit" => stop /\ tasks = <<>>
           /\ dtor = "freed" => \A w \in Workers : worker[w] = "exit"

(* A task is in one place: once in the queue, or with one worker, or its   *)
(* future is ready.                                                        *)
TaskInv == /\ Len(calls) <= MaxCalls
           /\ \A i \in 1..Len(tasks) : tasks[i] \in Urgent \ ready
           /\ \A i, j \in 1..Len(tasks) : tasks[i] = tasks[j] => i = j
           /\ \A w \in Workers : task[w] # NoTask => task[w] \in Urgent \ ready
           /\ \A w \in Workers : \A i \in 1..Len(tasks) : task[w] # tasks[i]
           /\ \A v, w \in Workers : task[v] = task[w] /\ task[w] # NoTask => v = w
           /\ leaked \subseteq ready
           /\ ready \subseteq Urgent

(* Whoever waits for a future waits for a task that is still somewhere. *)
Waiting(t) == caller[t].pc \in {"notify", "get"}

FutureInv == \A t \in Callers : Waiting(t) =>
                /\ caller[t].m \in Messages
                /\ \/ caller[t].m \in ready
                   \/ \E w \in Workers : task[w] = caller[t].m
                   \/ \E i \in 1..Len(tasks) : tasks[i] = caller[t].m

(* start_backup: where it is, whether it has a socket, and that it has not *)
(* connected before it does.                                               *)
ClientInv == \A w \in Workers :
                /\ client[w].step = "none" <=> worker[w] # "run"
                /\ client[w].sock => client[w].step \in {"connect", "write", "close"}
                /\ client[w].step \in {"write", "close"} => client[w].sock

(* Nobody has connected for a message that is queued or not yet connected. *)
FreshInv == /\ \A i \in 1..Len(tasks) : link[tasks[i]] = "none"
            /\ \A w \in Workers : client[w].step \in {"socket", "connect"}
                                    => link[task[w]] = "none"

(* What the server has: connections of urgent messages, and a record only  *)
(* behind a connection that is closed.                                     *)
LinkInv == /\ \A m \in Messages : link[m] # "none" => m \in Urgent
           /\ sent \subseteq Urgent
           /\ \A i \in 1..Len(file) : link[file[i].m] = "closed"

IInv == /\ TypeOK
        /\ PoolInv
        /\ TaskInv
        /\ FutureInv
        /\ ClientInv
        /\ FreshInv
        /\ LinkInv
        /\ OneRecord
        /\ DescriptorsLeft
        /\ WakeupPerTask

-----------------------------------------------------------------------------
(* The calls of the logger only add messages, and a call of Error adds one *)
(* that nobody has backed up before.                                       *)
LEMMA CallsGrow ==
  ASSUME TypeOK, NEW l \in {"ERROR", "INFO"}, calls' = Append(calls, l)
  PROVE  /\ calls' \in Seq({"ERROR", "INFO"})
         /\ Len(calls') = Len(calls) + 1 /\ Len(calls) \in Nat
         /\ Urgent \subseteq Urgent'
         /\ Len(calls) + 1 \notin Urgent
         /\ l = "ERROR" => Len(calls) + 1 \in Urgent'
<1>1. calls \in Seq({"ERROR", "INFO"}) /\ Len(calls) \in Nat
  BY DEF TypeOK
<1>2. /\ calls' \in Seq({"ERROR", "INFO"})
      /\ Len(calls') = Len(calls) + 1
      /\ \A i \in 1..Len(calls) : calls'[i] = calls[i]
      /\ calls'[Len(calls) + 1] = l
  BY <1>1, AppendProperties
<1>3. QED BY <1>1, <1>2 DEF Urgent

(* Init is typed. *)
LEMMA TypeInit == Init => TypeOK
<1> SUFFICES ASSUME Init PROVE TypeOK
  OBVIOUS
<1> USE LogAssumption, PoolAssumption DEF Init, PoolInit
<1>1. PoolTypeOK(Messages)
  <2>1. \A w \in Workers : worker[w] = "lock" /\ task[w] = NoTask
    OBVIOUS
  <2>2. tasks \in Seq(Messages) /\ task \in [Workers -> Messages \union {NoTask}]
    OBVIOUS
  <2>3. QED BY <2>1, <2>2 DEF PoolTypeOK
<1>2. caller \in [Callers -> [pc : {"idle", "notify", "get", "undefined"}, m : 0..MaxCalls]]
  BY DEF Idle
<1>3. client \in [Workers -> [step : {"none", "socket", "connect", "write", "close"},
                              cnt : 0..Retries, sock : BOOLEAN]]
  BY DEF NoClient
<1>4. calls \in Seq({"ERROR", "INFO"}) /\ logged \in Seq(Messages)
      /\ file \in Seq([m : Messages, n : 1..BufSize])
  OBVIOUS
<1>5. QED BY <1>1, <1>2, <1>3, <1>4 DEF TypeOK, LinkStates

(* A step of the thread pool, or none. *)
PoolStep == \/ \E w \in Workers : Sleep(w) \/ Spurious(w) \/ Take(w) \/ Exit(w) \/ Finish(w)
            \/ \E m \in Messages : Enqueue(m)
            \/ NotifyOne \/ SetStop \/ NotifyAll \/ Join
            \/ UNCHANGED poolVars

(* The variables of the pool keep their types in every step of the pool. *)
LEMMA PoolTypeStep ==
  ASSUME PoolTypeOK(Messages), PoolStep
  PROVE  PoolTypeOK(Messages)'
<1> USE DEF PoolTypeOK, Moves, NoTask
<1>1. NoTask \notin Messages /\ Messages' = Messages
  BY LogAssumption DEF Messages
<1>2. ASSUME NEW w \in Workers, Sleep(w) \/ Spurious(w) \/ Exit(w)
      PROVE PoolTypeOK(Messages)'
  BY <1>1, <1>2 DEF Sleep, Spurious, Exit
<1>3. ASSUME NEW w \in Workers, Take(w) PROVE PoolTypeOK(Messages)'
  <2>1. Head(tasks) \in Messages /\ Tail(tasks) \in Seq(Messages)
    BY <1>3, HeadTailProperties DEF Take
  <2>2. QED BY <1>1, <1>3, <2>1 DEF Take
<1>4. ASSUME NEW w \in Workers, Finish(w) PROVE PoolTypeOK(Messages)'
  BY <1>1, <1>4 DEF Finish
<1>5. ASSUME NEW m \in Messages, Enqueue(m) PROVE PoolTypeOK(Messages)'
  BY <1>1, <1>5, AppendProperties DEF Enqueue
<1>6. CASE NotifyOne
  BY <1>1, <1>6 DEF NotifyOne, At
<1>7. CASE SetStop \/ Join
  BY <1>1, <1>7 DEF SetStop, Join
<1>8. CASE NotifyAll
  BY <1>1, <1>8 DEF NotifyAll
<1>9. CASE UNCHANGED poolVars
  BY <1>1, <1>9 DEF poolVars
<1>10. QED BY <1>2, <1>3, <1>4, <1>5, <1>6, <1>7, <1>8, <1>9 DEF PoolStep

(* Workers leave an empty queue only, and the pool is freed after them. *)
LEMMA PoolInvStep ==
  ASSUME PoolTypeOK(Messages), PoolInv, PoolStep
  PROVE  PoolInv'
<1> USE DEF PoolTypeOK, PoolInv, Moves
<1>1. ASSUME NEW w \in Workers, Sleep(w) \/ Spurious(w) \/ Exit(w) PROVE PoolInv'
  BY <1>1 DEF Sleep, Spurious, Exit
<1>2. ASSUME NEW w \in Workers, Take(w) \/ Finish(w) PROVE PoolInv'
  BY <1>2 DEF Take, Finish
<1>3. ASSUME NEW m \in Messages, Enqueue(m) PROVE PoolInv'
  BY <1>3 DEF Enqueue
<1>4. CASE NotifyOne
  BY <1>4 DEF NotifyOne, At
<1>5. CASE SetStop
  BY <1>5 DEF SetStop
<1>6. CASE NotifyAll
  BY <1>6 DEF NotifyAll
<1>7. CASE Join
  BY <1>7 DEF Join, At
<1>8. CASE UNCHANGED poolVars
  BY <1>8 DEF poolVars
<1>9. QED BY <1>1, <1>2, <1>3, <1>4, <1>5, <1>6, <1>7, <1>8 DEF PoolStep

(* What TypeOK says of the variables outside the pool. *)
CallTypes == /\ caller \in [Callers -> [pc : {"idle", "notify", "get", "undefined"},
                                        m : 0..MaxCalls]]
             /\ calls \in Seq({"ERROR", "INFO"})
             /\ logged \in Seq(Messages)

ClientTypes == /\ client \in [Workers ->
                     [step : {"none", "socket", "connect", "write", "close"},
                      cnt : 0..Retries, sock : BOOLEAN]]
               /\ open \in 0..FdLimit
               /\ ready \subseteq Messages
               /\ leaked \subseteq Messages

LinkTypes == /\ link \in [Messages -> LinkStates]
             /\ sent \subseteq Messages

ServerTypes == /\ up \in BOOLEAN
               /\ stops \in 0..MaxStops
               /\ file \in Seq([m : Messages, n : 1..BufSize])

(* The parts make up TypeOK. *)
LEMMA TypeParts ==
  TypeOK <=> PoolTypeOK(Messages) /\ CallTypes /\ ClientTypes /\ LinkTypes /\ ServerTypes
  BY DEF TypeOK, CallTypes, ClientTypes, LinkTypes, ServerTypes

(* The steps of the threads that log keep the types. *)
LEMMA CallTypeStep ==
  ASSUME IInv, NEW t \in Callers,
         LogPlain(t) \/ LogError(t) \/ NotifyWorker(t) \/ GetAndFlush(t)
  PROVE  CallTypes'
<1>1. CallTypes
  BY TypeParts DEF IInv
<1>2. Len(calls) \in Nat /\ MaxCalls \in Nat
  BY <1>1, LogAssumption DEF CallTypes
<1>3. ASSUME NEW l, Calls(t, l), l \in {"ERROR", "INFO"}
      PROVE calls' \in Seq({"ERROR", "INFO"}) /\ Len(calls) + 1 \in Messages
  BY <1>1, <1>2, <1>3, AppendProperties DEF Calls, Messages, CallTypes
<1>4. ASSUME NEW m \in Messages, Flush(m) PROVE logged' \in Seq(Messages)
  BY <1>1, <1>4, AppendProperties DEF Flush, CallTypes, Messages
<1>5. CASE LogPlain(t)
  <2>1. Len(calls) + 1 \in Messages /\ calls' \in Seq({"ERROR", "INFO"})
    BY <1>3, <1>5 DEF LogPlain
  <2>2. logged' \in Seq(Messages)
    BY <1>4, <1>5, <2>1 DEF LogPlain
  <2>3. UNCHANGED caller
    BY <1>5 DEF LogPlain
  <2>4. QED BY <1>1, <2>1, <2>2, <2>3 DEF CallTypes
<1>6. CASE LogError(t)
  <2>1. Len(calls) + 1 \in Messages /\ calls' \in Seq({"ERROR", "INFO"})
    BY <1>3, <1>6 DEF LogError
  <2>2. logged' \in Seq(Messages)
    <3>1. logged' = logged \/ Flush(Len(calls) + 1)
      BY <1>6 DEF LogError
    <3>2. QED BY <1>1, <1>4, <2>1, <3>1 DEF CallTypes
  <2>3. caller' \in [Callers -> [pc : {"idle", "notify", "get", "undefined"}, m : 0..MaxCalls]]
    <3>1. caller' = caller \/ Enters(t, "notify") \/ Enters(t, "undefined")
      BY <1>6 DEF LogError
    <3>2. Len(calls) + 1 \in 0..MaxCalls
      BY <1>2, <2>1 DEF Messages
    <3>3. QED BY <1>1, <3>1, <3>2, SMTT(60) DEF Enters, CallTypes
  <2>4. QED BY <2>1, <2>2, <2>3 DEF CallTypes
<1>7. CASE NotifyWorker(t)
  <2>1. caller' \in [Callers -> [pc : {"idle", "notify", "get", "undefined"}, m : 0..MaxCalls]]
    BY <1>1, <1>7, ZenonT(60) DEF NotifyWorker, CallTypes
  <2>2. UNCHANGED <<calls, logged>>
    BY <1>7 DEF NotifyWorker
  <2>3. QED BY <1>1, <2>1, <2>2 DEF CallTypes
<1>8. CASE GetAndFlush(t)
  <2>1. caller[t].m \in Messages
    BY <1>8 DEF GetAndFlush, IInv, FutureInv, Waiting
  <2>2. logged' \in Seq(Messages)
    BY <1>4, <1>8, <2>1 DEF GetAndFlush
  <2>3. caller' \in [Callers -> [pc : {"idle", "notify", "get", "undefined"}, m : 0..MaxCalls]]
    BY <1>1, <1>2, <1>8 DEF GetAndFlush, CallTypes, Idle
  <2>4. QED BY <1>1, <1>8, <2>2, <2>3 DEF CallTypes, GetAndFlush
<1>9. QED BY <1>5, <1>6, <1>7, <1>8

(* The steps of a worker keep the types of start_backup and its links. *)
LEMMA WorkerTypeStep ==
  ASSUME IInv, NEW w \in Workers, WorkerStep(w) \/ WorkerWakes(w)
  PROVE  ClientTypes' /\ LinkTypes'
<1>1. PoolTypeOK(Messages) /\ ClientTypes /\ LinkTypes
  BY TypeParts DEF IInv
<1>2. client[w] \in [step : {"none", "socket", "connect", "write", "close"},
                     cnt : 0..Retries, sock : BOOLEAN]
  BY <1>1 DEF ClientTypes
<1>3. worker[w] = "run" => task[w] \in Messages
  BY <1>1 DEF PoolTypeOK
<1>4. Retries \in Nat /\ FdLimit \in Nat /\ open \in Nat /\ open <= FdLimit
  BY <1>1, LogAssumption DEF ClientTypes
<1>5. CASE WorkerTakes(w)
  <2>1. client' = [client EXCEPT ![w] = [step |-> "socket", cnt |-> 0, sock |-> FALSE]]
        /\ UNCHANGED <<open, ready, leaked, link, sent>>
    BY <1>5 DEF WorkerTakes, linkVars
  <2>2. QED BY <1>1, <1>4, <2>1 DEF ClientTypes, LinkTypes
<1>6. CASE WorkerSleeps(w) \/ WorkerWakes(w) \/ WorkerExits(w)
  <2>1. UNCHANGED <<client, open, ready, leaked, link, sent>>
    BY <1>6 DEF WorkerSleeps, WorkerWakes, WorkerExits, clientVars, linkVars
  <2>2. QED BY <1>1, <2>1 DEF ClientTypes, LinkTypes
<1>7. CASE Socket(w)
  <2>1. /\ client' = [client EXCEPT ![w] = [step |-> "connect", cnt |-> Retries,
                                           sock |-> open < FdLimit]]
        /\ open' = IF open < FdLimit THEN open + 1 ELSE open
        /\ UNCHANGED <<ready, leaked, link, sent>>
    BY <1>7 DEF Socket, linkVars
  <2>2. open' \in 0..FdLimit
    BY <1>4, <2>1
  <2>3. QED BY <1>1, <1>4, <2>1, <2>2 DEF ClientTypes, LinkTypes
<1>8. CASE Connected(w)
  BY <1>1, <1>3, <1>8 DEF Connected, Backing, ClientTypes, LinkTypes, LinkStates
<1>9. CASE ConnectFails(w)
  <2>1. LinkTypes' /\ open' = open
    BY <1>1, <1>9 DEF ConnectFails, LinkTypes, linkVars
  <2>2. ready' \subseteq Messages /\ leaked' \subseteq Messages
    BY <1>1, <1>3, <1>9 DEF ConnectFails, Backing, Return, ClientTypes
  <2>3. client' \in [Workers -> [step : {"none", "socket", "connect", "write", "close"},
                                 cnt : 0..Retries, sock : BOOLEAN]]
    <3>1. CASE client[w].cnt > 0 /\ client' = [client EXCEPT ![w].cnt = @ - 1]
      <4>1. client[w].cnt - 1 \in 0..Retries
        BY <1>2, <1>4, <3>1
      <4>2. QED BY <1>1, <3>1, <4>1 DEF ClientTypes
    <3>2. CASE client' = [client EXCEPT ![w] = NoClient]
      BY <1>1, <1>4, <3>2 DEF ClientTypes, NoClient
    <3>3. QED BY <1>9, <3>1, <3>2 DEF ConnectFails, Return
  <2>4. QED BY <1>1, <2>1, <2>2, <2>3 DEF ClientTypes
<1>10. CASE Write(w)
  BY <1>1, <1>3, <1>10 DEF Write, Backing, ClientTypes, LinkTypes
<1>11. CASE Close(w)
  <2>1. /\ client' = [client EXCEPT ![w] = [step |-> "none", cnt |-> 0, sock |-> FALSE]]
        /\ ready' = ready \union {task[w]} /\ task[w] \in Messages
        /\ UNCHANGED <<leaked, link, sent>>
    BY <1>3, <1>11 DEF Close, Return, Backing, NoClient, linkVars
  <2>2. open' \in 0..FdLimit
    <3>1. w \in {v \in Workers : client[v].sock}
      BY <1>11 DEF Close, Backing, IInv, ClientInv
    <3>2. IsFiniteSet({v \in Workers : client[v].sock})
      BY PoolAssumption, FS_Subset
    <3>3. Cardinality({v \in Workers : client[v].sock}) \in Nat \ {0}
      BY <3>1, <3>2, FS_EmptySet, FS_CardinalityType
    <3>4. Cardinality(leaked) \in Nat
      <4>1. leaked \subseteq Messages /\ IsFiniteSet(Messages)
        BY <1>1, LogAssumption, FS_Interval DEF ClientTypes, Messages
      <4>2. QED BY <4>1, FS_Subset, FS_CardinalityType
    <3>5. open >= 1
      BY <1>4, <3>3, <3>4 DEF IInv, DescriptorsLeft
    <3>6. QED BY <1>4, <1>11, <3>5 DEF Close
  <2>3. QED BY <1>1, <1>4, <2>1, <2>2 DEF ClientTypes, LinkTypes
<1>12. QED
  BY <1>5, <1>6, <1>7, <1>8, <1>9, <1>10, <1>11 DEF WorkerStep

(* The steps of the server keep the types of the links and of the file. *)
LEMMA ServerTypeStep ==
  ASSUME TypeOK,
         \/ \E m \in Messages : ServerStep(m)
         \/ ServerStops \/ ServerStarts
  PROVE  LinkTypes' /\ ServerTypes'
<1>1. LinkTypes /\ ServerTypes
  BY TypeParts
<1>2. ASSUME NEW m \in Messages, Accept(m) PROVE LinkTypes' /\ ServerTypes'
  BY <1>1, <1>2 DEF Accept, LinkTypes, LinkStates, ServerTypes, serverVars
<1>3. ASSUME NEW m \in Messages, ThreadRoutine(m) PROVE LinkTypes' /\ ServerTypes'
  <2>1. ASSUME NEW n \in 1..Smaller(MsgLen, BufSize), AppendRecord(m, n)
        PROVE  file' \in Seq([m : Messages, n : 1..BufSize])
    <3>1. [m |-> m, n |-> n] \in [m : Messages, n : 1..BufSize]
      BY LogAssumption DEF Smaller
    <3>2. QED BY <1>1, <2>1, <3>1, AppendProperties DEF AppendRecord, ServerTypes
  <2>2. file' \in Seq([m : Messages, n : 1..BufSize])
    BY <1>1, <1>3, <2>1 DEF ThreadRoutine, Service, ServerTypes
  <2>3. link' \in [Messages -> LinkStates]
    BY <1>1, <1>3 DEF ThreadRoutine, Service, LinkTypes, LinkStates
  <2>4. QED BY <1>1, <1>3, <2>2, <2>3 DEF ThreadRoutine, LinkTypes, ServerTypes
<1>4. CASE ServerStops
  <2>1. link' \in [Messages -> LinkStates]
    BY <1>1, <1>4 DEF ServerStops, LinkTypes, LinkStates
  <2>2. stops' \in 0..MaxStops
    BY <1>1, <1>4, LogAssumption DEF ServerStops, ServerTypes
  <2>3. up' = FALSE /\ UNCHANGED <<sent, file>>
    BY <1>4 DEF ServerStops
  <2>4. QED BY <1>1, <2>1, <2>2, <2>3 DEF LinkTypes, ServerTypes
<1>5. CASE ServerStarts
  BY <1>1, <1>5 DEF ServerStarts, LinkTypes, ServerTypes, linkVars
<1>6. QED BY <1>2, <1>3, <1>4, <1>5 DEF ServerStep

(* Every step is a step of the pool, or leaves the pool alone. *)
LEMMA NextIsPoolStep == IInv /\ [Next]_vars => PoolStep
<1> SUFFICES ASSUME IInv, [Next]_vars PROVE PoolStep
  OBVIOUS
<1> USE DEF PoolStep
<1>1. ASSUME NEW t \in Callers, LogError(t) PROVE PoolStep
  <2>1. Len(calls) + 1 \in Messages
    BY <1>1, LogAssumption DEF LogError, Calls, IInv, TypeOK, Messages
  <2>2. Enqueue(Len(calls) + 1) \/ UNCHANGED poolVars
    BY <1>1 DEF LogError
  <2>3. QED BY <2>1, <2>2
<1>2. ASSUME NEW t \in Callers, LogPlain(t) \/ CallerStep(t) PROVE PoolStep
  BY <1>2 DEF LogPlain, CallerStep, NotifyWorker, GetAndFlush
<1>3. ASSUME NEW w \in Workers, WorkerStep(w) \/ WorkerWakes(w) PROVE PoolStep
  BY <1>3 DEF WorkerStep, WorkerWakes, WorkerTakes, WorkerSleeps, WorkerExits, Socket,
     Connected, ConnectFails, Return, Write, Close
<1>4. CASE DeletePool \/ DestructorStep
  BY <1>4 DEF DeletePool, DestructorStep
<1>5. ASSUME NEW m \in Messages, ServerStep(m) PROVE PoolStep
  BY <1>5 DEF ServerStep, Accept, ThreadRoutine
<1>6. CASE ServerStops \/ ServerStarts
  BY <1>6 DEF ServerStops, ServerStarts
<1>7. CASE UNCHANGED vars
  BY <1>7 DEF vars
<1>8. QED BY <1>1, <1>2, <1>3, <1>4, <1>5, <1>6, <1>7 DEF Next

(* Every step keeps the types. *)
LEMMA TypeStep == IInv /\ [Next]_vars => TypeOK'
<1> SUFFICES ASSUME IInv, [Next]_vars PROVE TypeOK'
  OBVIOUS
<1>1. /\ TypeOK /\ PoolTypeOK(Messages) /\ CallTypes /\ ClientTypes /\ LinkTypes
      /\ ServerTypes
  BY TypeParts DEF IInv
<1>2. PoolTypeOK(Messages)'
  BY <1>1, NextIsPoolStep, PoolTypeStep
<1>3. UNCHANGED callVars => CallTypes'
  BY <1>1 DEF callVars, CallTypes
<1>4. UNCHANGED clientVars => ClientTypes'
  BY <1>1 DEF clientVars, ClientTypes
<1>5. UNCHANGED linkVars => LinkTypes'
  BY <1>1 DEF linkVars, LinkTypes
<1>6. UNCHANGED serverVars => ServerTypes'
  BY <1>1 DEF serverVars, ServerTypes
<1>7. CallTypes' /\ ClientTypes' /\ LinkTypes' /\ ServerTypes'
  <2>1. ASSUME NEW t \in Callers, LogPlain(t) \/ LogError(t) \/ CallerStep(t)
        PROVE CallTypes' /\ UNCHANGED <<clientVars, linkVars, serverVars>>
    BY <2>1, CallTypeStep DEF CallerStep, LogPlain, LogError, NotifyWorker, GetAndFlush
  <2>2. ASSUME NEW w \in Workers, WorkerStep(w) \/ WorkerWakes(w)
        PROVE ClientTypes' /\ LinkTypes' /\ UNCHANGED <<callVars, serverVars>>
    <3>1. UNCHANGED <<callVars, serverVars>>
      BY <2>2 DEF WorkerStep, WorkerWakes, WorkerTakes, WorkerSleeps, WorkerExits, Socket,
         Connected, ConnectFails, Write, Close
    <3>2. QED BY <2>2, <3>1, WorkerTypeStep
  <2>3. CASE DeletePool \/ DestructorStep
    BY <1>3, <1>4, <1>5, <1>6, <2>3 DEF DeletePool, DestructorStep
  <2>4. CASE (\E m \in Messages : ServerStep(m)) \/ ServerStops \/ ServerStarts
    <3>1. UNCHANGED <<callVars, clientVars>>
      BY <2>4 DEF ServerStep, Accept, ThreadRoutine, ServerStops, ServerStarts
    <3>2. LinkTypes' /\ ServerTypes'
      BY <1>1, <2>4, ServerTypeStep
    <3>3. QED BY <1>3, <1>4, <3>1, <3>2
  <2>5. CASE UNCHANGED vars
    BY <1>3, <1>4, <1>5, <1>6, <2>5 DEF vars
  <2>6. QED BY <1>3, <1>4, <1>5, <1>6, <2>1, <2>2, <2>3, <2>4, <2>5 DEF Next
<1>8. QED
  BY <1>2, <1>7 DEF TypeOK, CallTypes, ClientTypes, LinkTypes, ServerTypes

-----------------------------------------------------------------------------
(* A task is in one place at a time.                                       *)

(* enqueue adds a message that is nowhere yet. *)
LEMMA TaskEnqueue ==
  ASSUME TypeOK, TaskInv, Len(calls) < MaxCalls, calls' = Append(calls, "ERROR"),
         tasks' = Append(tasks, Len(calls) + 1), UNCHANGED <<task, ready, leaked>>
  PROVE  TaskInv'
<1> DEFINE n == Len(calls) + 1
<1>1. /\ Len(calls') = Len(calls) + 1 /\ Len(calls) \in Nat
      /\ Urgent \subseteq Urgent' /\ n \notin Urgent /\ n \in Urgent'
  BY CallsGrow
<1>2. n \in Nat /\ MaxCalls \in Nat /\ n # NoTask /\ n \in Messages
  BY <1>1, LogAssumption DEF NoTask, Messages
<1> HIDE DEF n
<1>3. tasks \in Seq(Messages) /\ Len(tasks) \in Nat
  BY DEF TypeOK, PoolTypeOK
<1>4. /\ Len(tasks') = Len(tasks) + 1
      /\ \A i \in 1..Len(tasks) : tasks'[i] = tasks[i]
      /\ tasks'[Len(tasks) + 1] = n
  BY <1>2, <1>3, AppendProperties DEF n
<1>5. n \notin ready /\ (\A i \in 1..Len(tasks) : tasks[i] # n)
      /\ \A w \in Workers : task[w] # n
  BY <1>1, <1>2 DEF TaskInv
<1>6. \A i \in 1..Len(tasks') : i \in 1..Len(tasks) \/ i = Len(tasks) + 1
  BY <1>3, <1>4
<1>7. Len(calls') <= MaxCalls
  BY <1>1, <1>2
<1>8. \A i \in 1..Len(tasks') : tasks'[i] \in Urgent' \ ready'
  BY <1>1, <1>4, <1>5, <1>6 DEF TaskInv
<1>9. \A i, j \in 1..Len(tasks') : tasks'[i] = tasks'[j] => i = j
  BY <1>4, <1>5, <1>6 DEF TaskInv
<1>10. \A w \in Workers : \A i \in 1..Len(tasks') : task'[w] # tasks'[i]
  BY <1>4, <1>5, <1>6 DEF TaskInv
<1>11. QED BY <1>1, <1>7, <1>8, <1>9, <1>10 DEF TaskInv

(* What Take does to the queue. *)
LEMMA TakeEffect ==
  ASSUME TypeOK, NEW w \in Workers, Take(w)
  PROVE  /\ Len(tasks) \in Nat \ {0}
         /\ Len(tasks') = Len(tasks) - 1
         /\ \A i \in 1..Len(tasks') : i + 1 \in 1..Len(tasks) /\ tasks'[i] = tasks[i + 1]
         /\ task[w] = NoTask
         /\ task' = [task EXCEPT ![w] = tasks[1]]
<1>1. tasks \in Seq(Messages) /\ tasks # <<>>
  BY DEF TypeOK, PoolTypeOK, Take
<1>2. Len(tasks) \in Nat \ {0}
  BY <1>1, EmptySeq
<1>3. /\ Len(Tail(tasks)) = Len(tasks) - 1
      /\ \A i \in 1..Len(Tail(tasks)) : Tail(tasks)[i] = tasks[i + 1]
  BY <1>1, HeadTailProperties
<1>4. \A i \in 1..Len(Tail(tasks)) : i + 1 \in 1..Len(tasks)
  BY <1>2, <1>3
<1>5. Head(tasks) = tasks[1]
  BY <1>1
<1>6. task[w] = NoTask
  BY DEF Take, TypeOK, PoolTypeOK
<1>7. QED BY <1>2, <1>3, <1>4, <1>5, <1>6 DEF Take

(* Take moves the oldest message from the queue to the worker. *)
LEMMA TaskTake ==
  ASSUME TypeOK, TaskInv, NEW w \in Workers, Take(w), UNCHANGED <<calls, ready, leaked>>
  PROVE  TaskInv'
<1>1. /\ Len(tasks) \in Nat \ {0}
      /\ Len(tasks') = Len(tasks) - 1
      /\ \A i \in 1..Len(tasks') : i + 1 \in 1..Len(tasks) /\ tasks'[i] = tasks[i + 1]
      /\ task[w] = NoTask
      /\ task' = [task EXCEPT ![w] = tasks[1]]
  BY TakeEffect
<1>2. Urgent' = Urgent
  BY DEF Urgent
<1>3. 1 \in 1..Len(tasks)
  BY <1>1
<1>4. task \in [Workers -> Messages \union {NoTask}]
  BY DEF TypeOK, PoolTypeOK
<1>5. task'[w] = tasks[1] /\ \A v \in Workers \ {w} : task'[v] = task[v]
  BY <1>1, <1>4
<1>6. \A i \in 1..Len(tasks') : i \in Nat /\ i + 1 # 1
  BY <1>1
<1>7. \A i \in 1..Len(tasks') : tasks'[i] \in Urgent' \ ready'
  BY <1>1, <1>2 DEF TaskInv
<1>8. \A i, j \in 1..Len(tasks') : tasks'[i] = tasks'[j] => i = j
  <2> SUFFICES ASSUME NEW i \in 1..Len(tasks'), NEW j \in 1..Len(tasks'),
                      tasks'[i] = tasks'[j]
               PROVE i = j
    OBVIOUS
  <2>1. i + 1 = j + 1
    BY <1>1, SMTT(60) DEF TaskInv
  <2>2. QED BY <1>6, <2>1
<1>9. \A v \in Workers : task'[v] # NoTask => task'[v] \in Urgent' \ ready'
  BY <1>2, <1>3, <1>5 DEF TaskInv
<1>10. \A v \in Workers : \A i \in 1..Len(tasks') : task'[v] # tasks'[i]
  BY <1>1, <1>3, <1>5, <1>6 DEF TaskInv
<1>11. \A u, v \in Workers : task'[u] = task'[v] /\ task'[v] # NoTask => u = v
  BY <1>3, <1>5 DEF TaskInv
<1>12. QED BY <1>2, <1>7, <1>8, <1>9, <1>10, <1>11 DEF TaskInv

(* When a task returns its future becomes ready and the worker is free. *)
LEMMA TaskReturn ==
  ASSUME TypeOK, TaskInv, NEW w \in Workers, Return(w), UNCHANGED calls,
         leaked' \in {leaked, leaked \union {task[w]}}
  PROVE  TaskInv'
<1>1. Urgent' = Urgent
  BY DEF Urgent
<1>2. task \in [Workers -> Messages \union {NoTask}] /\ task[w] # NoTask
  BY DEF TypeOK, PoolTypeOK, Return, Finish
<1>3. /\ task'[w] = NoTask /\ \A v \in Workers \ {w} : task'[v] = task[v]
      /\ tasks' = tasks /\ ready' = ready \union {task[w]}
  BY <1>2 DEF Return, Finish
<1>4. \A i \in 1..Len(tasks') : tasks'[i] \in Urgent' \ ready'
  BY <1>1, <1>3 DEF TaskInv
<1>5. \A v \in Workers : task'[v] # NoTask => task'[v] \in Urgent' \ ready'
  BY <1>1, <1>2, <1>3 DEF TaskInv
<1>6. \A v \in Workers : \A i \in 1..Len(tasks') : task'[v] # tasks'[i]
  <2>1. NoTask \notin Urgent
    BY DEF NoTask, Urgent
  <2>2. QED BY <1>3, <2>1 DEF TaskInv
<1>7. \A u, v \in Workers : task'[u] = task'[v] /\ task'[v] # NoTask => u = v
  BY <1>3 DEF TaskInv
<1>8. leaked' \subseteq ready' /\ ready' \subseteq Urgent'
  BY <1>1, <1>2, <1>3 DEF TaskInv
<1>9. QED BY <1>1, <1>3, <1>4, <1>5, <1>6, <1>7, <1>8 DEF TaskInv

(* Every step keeps each task in one place. *)
LEMMA TaskStep == IInv /\ [Next]_vars => TaskInv'
<1> SUFFICES ASSUME IInv, [Next]_vars PROVE TaskInv'
  OBVIOUS
<1>1. TypeOK /\ TaskInv
  BY DEF IInv
<1>2. CASE UNCHANGED <<calls, tasks, task, ready, leaked>>
  BY <1>1, <1>2 DEF TaskInv, Urgent
<1>3. ASSUME NEW l \in {"ERROR", "INFO"}, NEW t, Calls(t, l),
             UNCHANGED <<tasks, task, ready, leaked>>
      PROVE TaskInv'
  <2>1. /\ Len(calls') = Len(calls) + 1 /\ Len(calls) \in Nat
        /\ Urgent \subseteq Urgent'
    BY <1>1, <1>3, CallsGrow DEF Calls
  <2>2. Len(calls') <= MaxCalls
    BY <1>3, <2>1, LogAssumption DEF Calls
  <2>3. QED BY <1>1, <1>3, <2>1, <2>2 DEF TaskInv
<1>4. ASSUME NEW t \in Callers, LogPlain(t) PROVE TaskInv'
  BY <1>3, <1>4 DEF LogPlain, poolVars, clientVars
<1>5. ASSUME NEW t \in Callers, LogError(t) PROVE TaskInv'
  <2>1. Calls(t, "ERROR") /\ UNCHANGED <<ready, leaked>>
    BY <1>5 DEF LogError, clientVars
  <2>2. CASE Enqueue(Len(calls) + 1)
    BY <1>1, <2>1, <2>2, TaskEnqueue DEF Calls, Enqueue
  <2>3. CASE UNCHANGED poolVars
    BY <1>3, <2>1, <2>3 DEF poolVars
  <2>4. QED BY <1>5, <2>2, <2>3 DEF LogError
<1>6. ASSUME NEW t \in Callers, CallerStep(t) PROVE TaskInv'
  BY <1>2, <1>6 DEF CallerStep, NotifyWorker, NotifyOne, GetAndFlush, poolVars, clientVars
<1>7. ASSUME NEW w \in Workers, WorkerTakes(w) PROVE TaskInv'
  BY <1>1, <1>7, TaskTake DEF WorkerTakes, callVars
<1>8. ASSUME NEW w \in Workers, ConnectFails(w) PROVE TaskInv'
  <2>1. CASE Return(w) /\ leaked' \in {leaked, leaked \union {task[w]}}
    BY <1>1, <1>8, <2>1, TaskReturn DEF ConnectFails, callVars
  <2>2. CASE UNCHANGED <<poolVars, ready, leaked>>
    BY <1>2, <1>8, <2>2 DEF ConnectFails, callVars, poolVars
  <2>3. QED BY <1>8, <2>1, <2>2 DEF ConnectFails
<1>9. ASSUME NEW w \in Workers, Close(w) PROVE TaskInv'
  BY <1>1, <1>9, TaskReturn DEF Close, callVars
<1>10. ASSUME NEW w \in Workers,
              \/ WorkerSleeps(w) \/ WorkerExits(w) \/ WorkerWakes(w)
              \/ Socket(w) \/ Connected(w) \/ Write(w)
       PROVE TaskInv'
  BY <1>2, <1>10 DEF WorkerSleeps, WorkerExits, WorkerWakes, Sleep, Exit, Spurious, Socket,
     Connected, Write, poolVars, callVars, clientVars
<1>11. CASE DeletePool \/ DestructorStep
  BY <1>2, <1>11 DEF DeletePool, DestructorStep, SetStop, NotifyAll, Join, callVars,
     clientVars
<1>12. CASE (\E m \in Messages : ServerStep(m)) \/ ServerStops \/ ServerStarts
  BY <1>2, <1>12 DEF ServerStep, Accept, ThreadRoutine, ServerStops, ServerStarts,
     poolVars, callVars, clientVars
<1>13. CASE UNCHANGED vars
  BY <1>2, <1>13 DEF vars, poolVars, callVars, clientVars
<1>14. QED
  BY <1>4, <1>5, <1>6, <1>7, <1>8, <1>9, <1>10, <1>11, <1>12, <1>13 DEF Next, WorkerStep

-----------------------------------------------------------------------------
(* Nobody waits in ret.get() for a task that is nowhere.                   *)

(* Message m is queued, with a worker, or done. *)
Somewhere(m) == \/ m \in ready
                \/ \E w \in Workers : task[w] = m
                \/ \E i \in 1..Len(tasks) : tasks[i] = m

(* No step of the pool loses a task. *)
LEMMA TaskStaysSomewhere ==
  ASSUME IInv, [Next]_vars, NEW m \in Messages, Somewhere(m)
  PROVE  Somewhere(m)'
<1>1. TypeOK /\ TaskInv /\ NoTask # m
  BY LogAssumption DEF IInv, NoTask, Messages
<1>2. tasks \in Seq(Messages) /\ Len(tasks) \in Nat
      /\ task \in [Workers -> Messages \union {NoTask}]
  BY <1>1 DEF TypeOK, PoolTypeOK
<1>3. CASE UNCHANGED <<tasks, task, ready>>
  BY <1>3 DEF Somewhere
<1>4. ASSUME NEW t \in Callers, LogError(t) PROVE Somewhere(m)'
  <2>1. CASE Enqueue(Len(calls) + 1)
    <3>1. Len(calls) + 1 \in Messages
      BY <1>1, <1>4, LogAssumption DEF LogError, Calls, TypeOK, Messages
    <3>2. /\ Len(tasks') = Len(tasks) + 1
          /\ \A i \in 1..Len(tasks) : tasks'[i] = tasks[i]
      BY <1>2, <2>1, <3>1, AppendProperties DEF Enqueue
    <3>3. \A i \in 1..Len(tasks) : i \in 1..Len(tasks')
      BY <1>2, <3>2
    <3>4. UNCHANGED <<task, ready>>
      BY <1>4, <2>1 DEF LogError, Enqueue, clientVars
    <3>5. QED BY <3>2, <3>3, <3>4 DEF Somewhere
  <2>2. CASE UNCHANGED poolVars
    BY <1>3, <1>4, <2>2 DEF LogError, poolVars, clientVars
  <2>3. QED BY <1>4, <2>1, <2>2 DEF LogError
<1>5. ASSUME NEW w \in Workers, WorkerTakes(w) PROVE Somewhere(m)'
  <2>1. /\ Len(tasks) \in Nat \ {0}
        /\ Len(tasks') = Len(tasks) - 1
        /\ \A i \in 1..Len(tasks') : i + 1 \in 1..Len(tasks) /\ tasks'[i] = tasks[i + 1]
        /\ task[w] = NoTask
        /\ task' = [task EXCEPT ![w] = tasks[1]]
    BY <1>1, <1>5, TakeEffect DEF WorkerTakes
  <2>2. task'[w] = tasks[1] /\ \A v \in Workers \ {w} : task'[v] = task[v]
    BY <1>2, <2>1
  <2>3. ready' = ready
    BY <1>5 DEF WorkerTakes
  <2>4. CASE m \in ready
    BY <2>3, <2>4 DEF Somewhere
  <2>5. CASE \E v \in Workers : task[v] = m
    BY <1>1, <2>1, <2>2, <2>5 DEF Somewhere
  <2>6. ASSUME NEW i \in 1..Len(tasks), tasks[i] = m PROVE Somewhere(m)'
    <3>1. CASE i = 1
      BY <2>2, <2>6, <3>1 DEF Somewhere
    <3>2. CASE i # 1
      <4>1. i - 1 \in 1..Len(tasks') /\ (i - 1) + 1 = i
        BY <2>1, <3>2
      <4>2. tasks'[i - 1] = m
        BY <2>1, <2>6, <4>1
      <4>3. QED BY <4>1, <4>2 DEF Somewhere
    <3>3. QED BY <3>1, <3>2
  <2>7. QED BY <2>4, <2>5, <2>6 DEF Somewhere
<1>6. ASSUME NEW w \in Workers, Return(w) PROVE Somewhere(m)'
  <2>1. /\ \A v \in Workers \ {w} : task'[v] = task[v]
        /\ tasks' = tasks /\ ready' = ready \union {task[w]}
    BY <1>2, <1>6 DEF Return, Finish
  <2>2. QED BY <2>1 DEF Somewhere
<1>7. ASSUME NEW w \in Workers, ConnectFails(w) \/ Close(w) PROVE Somewhere(m)'
  BY <1>3, <1>6, <1>7 DEF ConnectFails, Close, poolVars
<1>8. ASSUME NEW w \in Workers,
             \/ WorkerSleeps(w) \/ WorkerExits(w) \/ WorkerWakes(w)
             \/ Socket(w) \/ Connected(w) \/ Write(w)
      PROVE Somewhere(m)'
  BY <1>3, <1>8 DEF WorkerSleeps, WorkerExits, WorkerWakes, Sleep, Exit, Spurious, Socket,
     Connected, Write, poolVars, clientVars
<1>9. ASSUME NEW t \in Callers, LogPlain(t) \/ CallerStep(t) PROVE Somewhere(m)'
  BY <1>3, <1>9 DEF LogPlain, CallerStep, NotifyWorker, NotifyOne, GetAndFlush, poolVars,
     clientVars
<1>10. CASE DeletePool \/ DestructorStep
  BY <1>3, <1>10 DEF DeletePool, DestructorStep, SetStop, NotifyAll, Join, clientVars
<1>11. CASE (\E k \in Messages : ServerStep(k)) \/ ServerStops \/ ServerStarts
  BY <1>3, <1>11 DEF ServerStep, Accept, ThreadRoutine, ServerStops, ServerStarts,
     poolVars, clientVars
<1>12. CASE UNCHANGED vars
  BY <1>3, <1>12 DEF vars, poolVars, clientVars
<1>13. QED
  BY <1>4, <1>5, <1>7, <1>8, <1>9, <1>10, <1>11, <1>12 DEF Next, WorkerStep

(* A thread that begins to wait has just queued its task. *)
LEMMA FutureStep == IInv /\ [Next]_vars => FutureInv'
<1> SUFFICES ASSUME IInv, [Next]_vars PROVE FutureInv'
  OBVIOUS
<1>1. TypeOK /\ FutureInv
  BY DEF IInv
<1>2. caller \in [Callers -> [pc : {"idle", "notify", "get", "undefined"}, m : 0..MaxCalls]]
  BY <1>1 DEF TypeOK
<1>3. SUFFICES ASSUME NEW t \in Callers, Waiting(t)'
               PROVE \E m \in Messages : caller'[t].m = m /\ Somewhere(m)'
  BY DEF FutureInv, Somewhere
<1>4. CASE Waiting(t) /\ caller'[t].m = caller[t].m
  <2>1. PICK m \in Messages : caller[t].m = m /\ Somewhere(m)
    BY <1>1, <1>4 DEF FutureInv, Somewhere
  <2>2. Somewhere(m)'
    BY <2>1, TaskStaysSomewhere
  <2>3. QED BY <1>4, <2>1, <2>2
<1>5. CASE caller' = caller
  <2>1. Waiting(t) /\ caller'[t].m = caller[t].m
    BY <1>3, <1>5 DEF Waiting
  <2>2. QED BY <1>4, <2>1
<1>6. ASSUME NEW s \in Callers, LogError(s)
      PROVE \E m \in Messages : caller'[t].m = m /\ Somewhere(m)'
  <2>1. CASE s # t
    BY <1>2, <1>3, <1>4, <1>6, <2>1 DEF LogError, Enters, Waiting
  <2>2. CASE s = t /\ Enters(t, "notify") /\ Enqueue(Len(calls) + 1)
    <3>1. Len(calls) + 1 \in Messages
      BY <1>1, <1>6, LogAssumption DEF LogError, Calls, TypeOK, Messages
    <3>2. PICK m \in Messages : m = Len(calls) + 1
      BY <3>1
    <3>3. tasks \in Seq(Messages) /\ Len(tasks) \in Nat
      BY <1>1 DEF TypeOK, PoolTypeOK
    <3>4. Len(tasks') = Len(tasks) + 1 /\ tasks'[Len(tasks) + 1] = m
      BY <2>2, <3>2, <3>3, AppendProperties DEF Enqueue
    <3>5. Len(tasks) + 1 \in 1..Len(tasks')
      BY <3>3, <3>4
    <3>6. Somewhere(m)'
      BY <3>4, <3>5 DEF Somewhere
    <3>7. caller'[t].m = m
      BY <1>2, <2>2, <3>2 DEF Enters
    <3>8. QED BY <3>6, <3>7
  <2>3. CASE s = t /\ Enters(t, "undefined")
    BY <1>2, <1>3, <2>3 DEF Enters, Waiting
  <2>4. QED BY <1>5, <1>6, <2>1, <2>2, <2>3 DEF LogError
<1>7. ASSUME NEW s \in Callers, NotifyWorker(s)
      PROVE \E m \in Messages : caller'[t].m = m /\ Somewhere(m)'
  <2>1. Waiting(t) /\ caller'[t].m = caller[t].m
    BY <1>2, <1>3, <1>7 DEF NotifyWorker, Waiting
  <2>2. QED BY <1>4, <2>1
<1>8. ASSUME NEW s \in Callers, GetAndFlush(s)
      PROVE \E m \in Messages : caller'[t].m = m /\ Somewhere(m)'
  <2>1. Waiting(t) /\ caller'[t].m = caller[t].m
    BY <1>2, <1>3, <1>8 DEF GetAndFlush, Waiting, Idle
  <2>2. QED BY <1>4, <2>1
<1>9. ASSUME NEW s \in Callers, LogPlain(s)
      PROVE \E m \in Messages : caller'[t].m = m /\ Somewhere(m)'
  BY <1>5, <1>9 DEF LogPlain
<1>10. ASSUME NEW w \in Workers, WorkerStep(w) \/ WorkerWakes(w)
      PROVE \E m \in Messages : caller'[t].m = m /\ Somewhere(m)'
  BY <1>5, <1>10 DEF WorkerStep, WorkerWakes, WorkerTakes, WorkerSleeps, WorkerExits, Socket,
     Connected, ConnectFails, Write, Close, callVars
<1>11. CASE DeletePool \/ DestructorStep \/ ServerStops \/ ServerStarts
            \/ \E k \in Messages : ServerStep(k)
  BY <1>5, <1>11 DEF DeletePool, DestructorStep, ServerStops, ServerStarts, ServerStep,
     Accept, ThreadRoutine, callVars
<1>12. CASE UNCHANGED vars
  BY <1>5, <1>12 DEF vars, callVars
<1>13. QED
  BY <1>6, <1>7, <1>8, <1>9, <1>10, <1>11, <1>12 DEF Next, CallerStep

-----------------------------------------------------------------------------
(* start_backup follows its worker, and has a socket when it writes. *)
LEMMA ClientStep == IInv /\ [Next]_vars => ClientInv'
<1> SUFFICES ASSUME IInv, [Next]_vars PROVE ClientInv'
  OBVIOUS
<1>1. /\ ClientInv
      /\ worker \in [Workers -> {"lock", "wait", "run", "exit"}]
      /\ client \in [Workers -> [step : {"none", "socket", "connect", "write", "close"},
                                 cnt : 0..Retries, sock : BOOLEAN]]
  BY DEF IInv, TypeOK, PoolTypeOK
<1>2. CASE client' = client /\ \A w \in Workers : worker'[w] = "run" <=> worker[w] = "run"
  BY <1>1, <1>2 DEF ClientInv
<1>3. CASE UNCHANGED <<worker, client>>
  BY <1>2, <1>3
<1>4. ASSUME NEW t \in Callers, NotifyWorker(t) PROVE ClientInv'
  <2>1. CASE NotifyOne
    BY <1>1, <1>2, <1>4, <2>1 DEF NotifyWorker, NotifyOne, At, Moves, clientVars
  <2>2. CASE UNCHANGED poolVars
    BY <1>3, <1>4, <2>2 DEF NotifyWorker, poolVars, clientVars
  <2>3. QED BY <1>4, <2>1, <2>2 DEF NotifyWorker
<1>5. ASSUME NEW t \in Callers, LogPlain(t) \/ LogError(t) \/ GetAndFlush(t) PROVE ClientInv'
  BY <1>3, <1>5 DEF LogPlain, LogError, Enqueue, GetAndFlush, poolVars, clientVars
<1>6. ASSUME NEW w \in Workers, WorkerSleeps(w) \/ WorkerExits(w) \/ WorkerWakes(w)
      PROVE ClientInv'
  BY <1>1, <1>2, <1>6 DEF WorkerSleeps, WorkerExits, WorkerWakes, Sleep, Exit, Spurious,
     Moves, clientVars
<1>7. ASSUME NEW w \in Workers, WorkerTakes(w) PROVE ClientInv'
  BY <1>1, <1>7 DEF WorkerTakes, Take, Moves, ClientInv
<1>8. ASSUME NEW w \in Workers, Return(w) PROVE ClientInv'
  BY <1>1, <1>8 DEF Return, Finish, Moves, NoClient, ClientInv
<1>9. ASSUME NEW w \in Workers, Socket(w) PROVE ClientInv'
  BY <1>1, <1>9 DEF Socket, Backing, poolVars, ClientInv
<1>10. ASSUME NEW w \in Workers, Connected(w) PROVE ClientInv'
  BY <1>1, <1>10 DEF Connected, Backing, MayConnect, poolVars, ClientInv
<1>11. ASSUME NEW w \in Workers, ConnectFails(w) PROVE ClientInv'
  <2>1. CASE client' = [client EXCEPT ![w].cnt = @ - 1] /\ UNCHANGED poolVars
    BY <1>1, <2>1 DEF poolVars, ClientInv
  <2>2. QED BY <1>8, <1>11, <2>1 DEF ConnectFails
<1>12. ASSUME NEW w \in Workers, Write(w) PROVE ClientInv'
  BY <1>1, <1>12 DEF Write, Backing, poolVars, ClientInv
<1>13. ASSUME NEW w \in Workers, Close(w) PROVE ClientInv'
  BY <1>8, <1>13 DEF Close
<1>14. CASE DeletePool \/ DestructorStep
  <2>1. CASE NotifyAll
    BY <1>1, <1>2, <1>14, <2>1 DEF DeletePool, DestructorStep, NotifyAll, clientVars
  <2>2. CASE SetStop \/ Join
    BY <1>3, <1>14, <2>2 DEF DeletePool, DestructorStep, SetStop, Join, clientVars
  <2>3. QED BY <1>14, <2>1, <2>2 DEF DeletePool, DestructorStep
<1>15. CASE \/ ServerStops \/ ServerStarts \/ \E k \in Messages : ServerStep(k)
            \/ UNCHANGED vars
  BY <1>3, <1>15 DEF ServerStops, ServerStarts, ServerStep, Accept, ThreadRoutine, vars,
     poolVars, clientVars
<1>16. QED
  BY <1>4, <1>5, <1>6, <1>7, <1>9, <1>10, <1>11, <1>12, <1>13, <1>14, <1>15
     DEF Next, CallerStep, WorkerStep

(* The steps that change a link move it forward from where it is; only     *)
(* start_backup opens one, for a message that has none.                    *)
LEMMA LinkMoves ==
  ASSUME IInv, [Next]_vars
  PROVE  \/ UNCHANGED <<link, sent, file>>
         \/ \E w \in Workers : Connected(w) \/ Write(w)
         \/ \E m \in Messages : Accept(m) \/ ThreadRoutine(m)
         \/ ServerStops
<1> DEFINE Goal == \/ UNCHANGED <<link, sent, file>>
                   \/ \E w \in Workers : Connected(w) \/ Write(w)
                   \/ \E m \in Messages : Accept(m) \/ ThreadRoutine(m)
                   \/ ServerStops
<1>1. ASSUME NEW t \in Callers, LogPlain(t) \/ LogError(t) \/ CallerStep(t) PROVE Goal
  BY <1>1 DEF LogPlain, LogError, CallerStep, NotifyWorker, GetAndFlush, linkVars, serverVars
<1>2. ASSUME NEW w \in Workers, WorkerStep(w) \/ WorkerWakes(w) PROVE Goal
  BY <1>2 DEF WorkerStep, WorkerWakes, WorkerTakes, WorkerSleeps, WorkerExits, Socket,
     ConnectFails, Close, linkVars, serverVars
<1>3. CASE DeletePool \/ DestructorStep \/ ServerStarts \/ UNCHANGED vars
  BY <1>3 DEF DeletePool, DestructorStep, ServerStarts, vars, linkVars, serverVars
<1>4. QED BY <1>1, <1>2, <1>3 DEF Next, ServerStep

(* What TaskInv and ClientInv say of the message a worker is sending. *)
LEMMA SendingFacts ==
  ASSUME IInv, NEW w \in Workers, client[w].step # "none"
  PROVE  /\ task[w] # NoTask /\ task[w] \in Messages /\ task[w] \in Urgent \ ready
         /\ \A v \in Workers : v # w => task[v] # task[w]
         /\ \A i \in 1..Len(tasks) : tasks[i] # task[w]
<1>1. worker[w] = "run"
  BY DEF IInv, ClientInv
<1>2. task[w] # NoTask /\ task[w] \in Messages
  BY <1>1 DEF IInv, TypeOK, PoolTypeOK
<1>3. QED BY <1>2 DEF IInv, TaskInv

(* Connections belong to urgent messages, records to closed connections,   *)
(* and there is one record of each message at most.                        *)
LEMMA LinkStep == IInv /\ [Next]_vars => LinkInv' /\ OneRecord'
<1> SUFFICES ASSUME IInv, [Next]_vars PROVE LinkInv' /\ OneRecord'
  OBVIOUS
<1>1. TypeOK /\ LinkInv /\ OneRecord /\ TypeOK'
  BY TypeStep DEF IInv
<1>2. /\ link \in [Messages -> LinkStates]
      /\ file \in Seq([m : Messages, n : 1..BufSize])
      /\ \A i \in 1..Len(file) : file[i].m \in Messages
  <2>1. file \in Seq([m : Messages, n : 1..BufSize])
    BY <1>1 DEF TypeOK
  <2>2. \A i \in 1..Len(file) : file[i] \in [m : Messages, n : 1..BufSize]
    BY <2>1, ElementOfSeq
  <2>3. QED BY <1>1, <2>1, <2>2 DEF TypeOK
<1>3. Urgent \subseteq Urgent'
  <2>1. ASSUME NEW t, NEW l \in {"ERROR", "INFO"}, Calls(t, l) PROVE Urgent \subseteq Urgent'
    BY <1>1, <2>1, CallsGrow DEF Calls
  <2>2. ASSUME UNCHANGED calls PROVE Urgent \subseteq Urgent'
    BY <2>2 DEF Urgent
  <2>3. ASSUME NEW t \in Callers, LogPlain(t) \/ LogError(t) PROVE Urgent \subseteq Urgent'
    BY <2>1, <2>3 DEF LogPlain, LogError
  <2>4. ASSUME NEW t \in Callers, CallerStep(t) PROVE UNCHANGED calls
    BY <2>4 DEF CallerStep, NotifyWorker, GetAndFlush
  <2>5. ASSUME NEW w \in Workers, WorkerStep(w) \/ WorkerWakes(w) PROVE UNCHANGED calls
    BY <2>5 DEF WorkerStep, WorkerWakes, WorkerTakes, WorkerSleeps, WorkerExits, Socket,
       Connected, ConnectFails, Write, Close, callVars
  <2>6. CASE \/ DeletePool \/ DestructorStep \/ ServerStops \/ ServerStarts
             \/ (\E m \in Messages : ServerStep(m)) \/ UNCHANGED vars
    BY <2>2, <2>6 DEF DeletePool, DestructorStep, ServerStops, ServerStarts, ServerStep,
       Accept, ThreadRoutine, vars, callVars
  <2>7. QED BY <2>2, <2>3, <2>4, <2>5, <2>6 DEF Next
<1>4. ASSUME UNCHANGED file, sent \subseteq sent' PROVE OneRecord'
  BY <1>1, <1>3, <1>4 DEF OneRecord
<1>5. CASE UNCHANGED <<link, sent, file>>
  BY <1>1, <1>3, <1>4, <1>5 DEF LinkInv
<1>6. ASSUME NEW w \in Workers, Connected(w) PROVE LinkInv' /\ OneRecord'
  <2>1. client[w].step = "connect" /\ link[task[w]] = "none"
    BY <1>6 DEF Connected, Backing, IInv, FreshInv
  <2>2. task[w] \in Messages /\ task[w] \in Urgent
    BY <2>1, SendingFacts
  <2>3. link' = [link EXCEPT ![task[w]] = "backlog"] /\ UNCHANGED <<sent, file>>
    BY <1>6 DEF Connected, serverVars
  <2>4. \A i \in 1..Len(file) : link'[file[i].m] = "closed"
    BY <1>1, <1>2, <2>1, <2>3 DEF LinkInv
  <2>5. QED BY <1>1, <1>2, <1>3, <1>4, <2>2, <2>3, <2>4 DEF LinkInv
<1>7. ASSUME NEW w \in Workers, Write(w) PROVE LinkInv' /\ OneRecord'
  <2>1. task[w] \in Urgent
    BY <1>7, SendingFacts DEF Write, Backing
  <2>2. sent' \subseteq sent \union {task[w]} /\ sent \subseteq sent'
        /\ UNCHANGED <<link, file>>
    BY <1>7 DEF Write, serverVars
  <2>3. QED BY <1>1, <1>3, <1>4, <2>1, <2>2 DEF LinkInv
<1>8. ASSUME NEW m \in Messages, Accept(m) PROVE LinkInv' /\ OneRecord'
  <2>1. PICK l \in {"served", "unserved"} :
           link[m] = "backlog" /\ link' = [link EXCEPT ![m] = l] /\ UNCHANGED <<sent, file>>
    BY <1>8 DEF Accept, serverVars
  <2>2. \A i \in 1..Len(file) : link'[file[i].m] = "closed"
    BY <1>1, <1>2, <2>1 DEF LinkInv
  <2>3. QED BY <1>1, <1>2, <1>3, <1>4, <2>1, <2>2 DEF LinkInv
<1>9. ASSUME NEW m \in Messages, ThreadRoutine(m) PROVE LinkInv' /\ OneRecord'
  <2>1. link[m] = "served" /\ UNCHANGED sent
    BY <1>9 DEF ThreadRoutine
  <2>2. \A i \in 1..Len(file) : file[i].m # m
    BY <1>1, <2>1 DEF LinkInv
  <2>3. m \in Urgent
    BY <1>1, <2>1 DEF LinkInv
  <2>4. CASE link' = [link EXCEPT ![m] = "unread"] /\ UNCHANGED file
    <3>1. \A i \in 1..Len(file) : link'[file[i].m] = "closed"
      BY <1>1, <1>2, <2>2, <2>4 DEF LinkInv
    <3>2. QED BY <1>1, <1>2, <1>3, <1>4, <2>1, <2>3, <2>4, <3>1 DEF LinkInv
  <2>5. ASSUME m \in sent, link' = [link EXCEPT ![m] = "closed"],
               NEW n \in 1..Smaller(MsgLen, BufSize), AppendRecord(m, n)
        PROVE  LinkInv' /\ OneRecord'
    <3>1. [m |-> m, n |-> n] \in [m : Messages, n : 1..BufSize]
      BY LogAssumption DEF Smaller
    <3>2. /\ Len(file') = Len(file) + 1 /\ Len(file) \in Nat
          /\ \A i \in 1..Len(file) : file'[i] = file[i]
          /\ file'[Len(file) + 1].m = m
      BY <1>2, <2>5, <3>1, AppendProperties DEF AppendRecord
    <3>3. \A i \in 1..Len(file') : i \in 1..Len(file) \/ i = Len(file) + 1
      BY <3>2
    <3>4. \A i \in 1..Len(file') : link'[file'[i].m] = "closed"
      BY <1>1, <1>2, <2>5, <3>2, <3>3 DEF LinkInv
    <3>5. OneRecord'
      BY <1>1, <1>3, <2>1, <2>2, <2>3, <2>5, <3>2, <3>3 DEF OneRecord
    <3>6. QED BY <1>1, <1>2, <1>3, <2>1, <2>3, <2>5, <3>4, <3>5 DEF LinkInv
  <2>6. QED BY <1>9, <2>4, <2>5 DEF ThreadRoutine, Service
<1>10. CASE ServerStops
  <2>1. /\ link' = [m \in Messages |->
                      IF link[m] \in {"backlog", "served", "unserved"}
                      THEN "lost" ELSE link[m]]
        /\ UNCHANGED <<sent, file>>
    BY <1>10 DEF ServerStops
  <2>2. \A i \in 1..Len(file) : link'[file[i].m] = "closed"
    BY <1>1, <1>2, <2>1 DEF LinkInv
  <2>3. \A m \in Messages : link'[m] # "none" => link[m] # "none"
    BY <2>1
  <2>4. QED BY <1>1, <1>3, <1>4, <2>1, <2>2, <2>3 DEF LinkInv
<1>11. QED BY <1>5, <1>6, <1>7, <1>8, <1>9, <1>10, LinkMoves

(* A message that is queued, or whose start_backup has not connected yet,  *)
(* has no connection.                                                      *)
LEMMA FreshStep == IInv /\ [Next]_vars => FreshInv'
<1> SUFFICES ASSUME IInv, [Next]_vars PROVE FreshInv'
  OBVIOUS
<1>1. TypeOK /\ FreshInv /\ LinkInv /\ ClientInv
  BY DEF IInv
<1>2. /\ client \in [Workers -> [step : {"none", "socket", "connect", "write", "close"},
                                 cnt : 0..Retries, sock : BOOLEAN]]
      /\ task \in [Workers -> Messages \union {NoTask}]
      /\ tasks \in Seq(Messages) /\ Len(tasks) \in Nat
      /\ \A i \in 1..Len(tasks) : tasks[i] \in Messages
      /\ link \in [Messages -> LinkStates]
  BY <1>1, ElementOfSeq DEF TypeOK, PoolTypeOK
<1>3. CASE UNCHANGED <<tasks, task, client, link>>
  BY <1>1, <1>3 DEF FreshInv
<1>4. ASSUME UNCHANGED <<tasks, task, client>>,
             \A m \in Messages : link[m] = "none" => link'[m] = "none"
      PROVE FreshInv'
  <2>1. \A w \in Workers : client[w].step \in {"socket", "connect"} => task[w] \in Messages
    BY SendingFacts
  <2>2. QED BY <1>1, <1>2, <1>4, <2>1 DEF FreshInv
<1>5. ASSUME NEW t \in Callers, LogError(t) PROVE FreshInv'
  <2>1. CASE Enqueue(Len(calls) + 1)
    <3>1. Len(calls) + 1 \in Messages /\ Len(calls) + 1 \notin Urgent
      BY <1>1, <1>5, LogAssumption DEF LogError, Calls, TypeOK, Messages, Urgent
    <3>2. /\ Len(tasks') = Len(tasks) + 1
          /\ \A i \in 1..Len(tasks) : tasks'[i] = tasks[i]
          /\ tasks'[Len(tasks) + 1] = Len(calls) + 1
      BY <1>2, <2>1, <3>1, AppendProperties DEF Enqueue
    <3>3. link[Len(calls) + 1] = "none"
      BY <1>1, <3>1 DEF LinkInv
    <3>4. \A i \in 1..Len(tasks') : i \in 1..Len(tasks) \/ i = Len(tasks) + 1
      BY <1>2, <3>2
    <3>5. UNCHANGED <<task, client, link>>
      BY <1>5, <2>1 DEF LogError, Enqueue, clientVars, linkVars
    <3>6. QED BY <1>1, <3>2, <3>3, <3>4, <3>5 DEF FreshInv
  <2>2. CASE UNCHANGED poolVars
    BY <1>3, <1>5, <2>2 DEF LogError, poolVars, clientVars, linkVars
  <2>3. QED BY <1>5, <2>1, <2>2 DEF LogError
<1>6. ASSUME NEW t \in Callers, LogPlain(t) \/ CallerStep(t) PROVE FreshInv'
  BY <1>3, <1>6 DEF LogPlain, CallerStep, NotifyWorker, NotifyOne, GetAndFlush, poolVars,
     clientVars, linkVars
<1>7. ASSUME NEW w \in Workers, WorkerTakes(w) PROVE FreshInv'
  <2>1. /\ Len(tasks) \in Nat \ {0}
        /\ \A i \in 1..Len(tasks') : i + 1 \in 1..Len(tasks) /\ tasks'[i] = tasks[i + 1]
        /\ task' = [task EXCEPT ![w] = tasks[1]]
    BY <1>1, <1>7, TakeEffect DEF WorkerTakes
  <2>2. /\ client' = [client EXCEPT ![w] = [step |-> "socket", cnt |-> 0, sock |-> FALSE]]
        /\ link' = link
    BY <1>7 DEF WorkerTakes, linkVars
  <2>3. \A i \in 1..Len(tasks') : link'[tasks'[i]] = "none"
    BY <1>1, <2>1, <2>2 DEF FreshInv
  <2>4. link[tasks[1]] = "none"
    BY <1>1, <2>1 DEF FreshInv
  <2>5. \A v \in Workers : client'[v].step \in {"socket", "connect"} => link'[task'[v]] = "none"
    BY <1>1, <1>2, <2>1, <2>2, <2>4 DEF FreshInv
  <2>6. QED BY <2>3, <2>5 DEF FreshInv
<1>8. ASSUME NEW w \in Workers, Return(w), UNCHANGED link PROVE FreshInv'
  BY <1>1, <1>2, <1>8 DEF Return, Finish, NoClient, FreshInv
<1>9. ASSUME NEW w \in Workers, Socket(w) \/ Write(w) PROVE FreshInv'
  BY <1>1, <1>2, <1>9, ZenonT(60) DEF Socket, Write, Backing, poolVars, linkVars, FreshInv
<1>10. ASSUME NEW w \in Workers, Connected(w) PROVE FreshInv'
  <2>1. client[w].step = "connect" /\ UNCHANGED <<tasks, task>>
        /\ client' = [client EXCEPT ![w].step = "write"]
        /\ link' = [link EXCEPT ![task[w]] = "backlog"]
    BY <1>10 DEF Connected, Backing, poolVars
  <2>2. /\ \A v \in Workers : v # w => task[v] # task[w]
        /\ \A i \in 1..Len(tasks) : tasks[i] # task[w]
    BY <2>1, SendingFacts
  <2>3. \A v \in Workers : client[v].step \in {"socket", "connect"} => task[v] \in Messages
    BY SendingFacts
  <2>4. \A i \in 1..Len(tasks') : link'[tasks'[i]] = "none"
    BY <1>1, <1>2, <2>1, <2>2 DEF FreshInv
  <2>5. \A v \in Workers : client'[v].step \in {"socket", "connect"} => link'[task'[v]] = "none"
    BY <1>1, <1>2, <2>1, <2>2, <2>3 DEF FreshInv
  <2>6. QED BY <2>4, <2>5 DEF FreshInv
<1>11. ASSUME NEW w \in Workers, ConnectFails(w) PROVE FreshInv'
  <2>1. CASE client' = [client EXCEPT ![w].cnt = @ - 1] /\ UNCHANGED poolVars
    BY <1>1, <1>2, <1>11, <2>1 DEF ConnectFails, poolVars, linkVars, FreshInv
  <2>2. QED BY <1>8, <1>11, <2>1 DEF ConnectFails, linkVars
<1>12. ASSUME NEW w \in Workers, Close(w) PROVE FreshInv'
  BY <1>8, <1>12 DEF Close, linkVars
<1>13. ASSUME NEW w \in Workers, WorkerSleeps(w) \/ WorkerExits(w) \/ WorkerWakes(w)
       PROVE FreshInv'
  BY <1>3, <1>13 DEF WorkerSleeps, WorkerExits, WorkerWakes, Sleep, Exit, Spurious,
     clientVars, linkVars
<1>14. CASE DeletePool \/ DestructorStep \/ ServerStarts \/ UNCHANGED vars
  BY <1>3, <1>14 DEF DeletePool, DestructorStep, SetStop, NotifyAll, Join, ServerStarts,
     vars, poolVars, clientVars, linkVars
<1>15. ASSUME NEW m \in Messages, Accept(m) \/ ThreadRoutine(m) PROVE FreshInv'
  BY <1>2, <1>4, <1>15 DEF Accept, ThreadRoutine, Service, poolVars, clientVars
<1>16. CASE ServerStops
  BY <1>4, <1>16 DEF ServerStops, poolVars, clientVars
<1>17. QED
  BY <1>5, <1>6, <1>7, <1>9, <1>10, <1>11, <1>12, <1>13, <1>14, <1>15, <1>16
     DEF Next, WorkerStep, ServerStep

-----------------------------------------------------------------------------
(* Descriptors: one for each start_backup that has a socket, and one for   *)
(* each message that was given up on a socket.                             *)
Socks == {w \in Workers : client[w].sock}

(* What the steps of start_backup do to the count of its sockets. *)
LEMMA SocksChange ==
  ASSUME TypeOK, NEW w \in Workers, client'[w].sock \in BOOLEAN,
         \A v \in Workers \ {w} : client'[v] = client[v]
  PROVE  /\ client'[w].sock /\ ~client[w].sock
              => Cardinality(Socks') = Cardinality(Socks) + 1
         /\ ~client'[w].sock /\ client[w].sock
              => Cardinality(Socks') = Cardinality(Socks) - 1
         /\ (client'[w].sock <=> client[w].sock) => Socks' = Socks
<1>1. IsFiniteSet(Socks)
  BY PoolAssumption, FS_Subset DEF Socks
<1>2. client'[w].sock /\ ~client[w].sock => Socks' = Socks \union {w} /\ w \notin Socks
  BY DEF Socks
<1>3. ~client'[w].sock /\ client[w].sock => Socks' = Socks \ {w} /\ w \in Socks
  BY DEF Socks
<1>4. (client'[w].sock <=> client[w].sock) => Socks' = Socks
  BY DEF Socks
<1>5. QED BY <1>1, <1>2, <1>3, <1>4, FS_AddElement, FS_RemoveElement

(* Every step accounts for its descriptors. *)
LEMMA DescriptorStep == IInv /\ [Next]_vars => DescriptorsLeft'
<1> SUFFICES ASSUME IInv, [Next]_vars PROVE DescriptorsLeft'
  OBVIOUS
<1>1. TypeOK /\ ClientInv /\ TaskInv
  BY DEF IInv
<1>2. open = Cardinality(Socks) + Cardinality(leaked)
  BY DEF IInv, DescriptorsLeft, Socks
<1>3. SUFFICES open' = Cardinality(Socks') + Cardinality(leaked')
  BY DEF DescriptorsLeft, Socks
<1>4. open \in Nat
  BY <1>1 DEF TypeOK
<1>5. IsFiniteSet(leaked) /\ Cardinality(leaked) \in Nat
  <2>1. IsFiniteSet(Messages) /\ leaked \subseteq Messages
    BY <1>1, FS_Interval, LogAssumption DEF Messages, TypeOK
  <2>2. QED BY <2>1, FS_Subset, FS_CardinalityType
<1>6. IsFiniteSet(Socks) /\ Cardinality(Socks) \in Nat
  BY PoolAssumption, FS_Subset, FS_CardinalityType DEF Socks
<1>7. CASE UNCHANGED <<client, open, leaked>>
  BY <1>2, <1>7 DEF Socks
<1>8. CASE UNCHANGED clientVars
  BY <1>7, <1>8 DEF clientVars
<1>9. ASSUME NEW t \in Callers, LogPlain(t) \/ LogError(t) \/ CallerStep(t)
      PROVE UNCHANGED clientVars
  BY <1>9 DEF LogPlain, LogError, CallerStep, NotifyWorker, GetAndFlush
<1>10. ASSUME NEW w \in Workers, WorkerStep(w) \/ WorkerWakes(w)
       PROVE open' = Cardinality(Socks') + Cardinality(leaked')
  <2>1. client[w].sock \in BOOLEAN
    BY <1>1 DEF TypeOK
  <2>2. CASE WorkerSleeps(w) \/ WorkerExits(w) \/ WorkerWakes(w)
    BY <1>8, <2>2 DEF WorkerSleeps, WorkerExits, WorkerWakes
  <2>3. CASE WorkerTakes(w)
    <3>1. ~client[w].sock
      BY <1>1, <2>3 DEF WorkerTakes, Take, ClientInv
    <3>2. client'[w].sock = FALSE /\ \A v \in Workers \ {w} : client'[v] = client[v]
      BY <1>1, <2>3 DEF WorkerTakes, TypeOK
    <3>3. Socks' = Socks
      BY <1>1, <3>1, <3>2, SocksChange
    <3>4. QED BY <1>2, <2>3, <3>3 DEF WorkerTakes
  <2>4. CASE Socket(w)
    <3>1. ~client[w].sock
      BY <1>1, <2>4 DEF Socket, Backing, ClientInv
    <3>2. CASE open < FdLimit
      <4>1. /\ client'[w].sock = TRUE /\ \A v \in Workers \ {w} : client'[v] = client[v]
            /\ open' = open + 1 /\ leaked' = leaked
        BY <1>1, <2>4, <3>2 DEF Socket, TypeOK
      <4>2. Cardinality(Socks') = Cardinality(Socks) + 1
        BY <1>1, <3>1, <4>1, SocksChange
      <4>3. QED BY <1>2, <1>4, <1>5, <1>6, <4>1, <4>2
    <3>3. CASE ~(open < FdLimit)
      <4>1. /\ ~client'[w].sock /\ \A v \in Workers \ {w} : client'[v] = client[v]
            /\ open' = open /\ leaked' = leaked
        BY <1>1, <2>4, <3>3 DEF Socket, TypeOK
      <4>2. client'[w].sock \in BOOLEAN
        BY TypeStep DEF TypeOK
      <4>3. Socks' = Socks
        BY <1>1, <3>1, <4>1, <4>2, SocksChange
      <4>4. QED BY <1>2, <4>1, <4>3
    <3>4. QED BY <3>2, <3>3
  <2>5. CASE Connected(w) \/ Write(w)
    <3>1. UNCHANGED <<open, leaked>> /\ \A v \in Workers : client'[v].sock = client[v].sock
      BY <1>1, <2>5 DEF Connected, Write, TypeOK
    <3>2. Socks' = Socks
      BY <3>1 DEF Socks
    <3>3. QED BY <1>2, <3>1, <3>2
  <2>6. CASE ConnectFails(w)
    <3>1. open' = open
      BY <2>6 DEF ConnectFails
    <3>2. CASE client' = [client EXCEPT ![w].cnt = @ - 1] /\ UNCHANGED leaked
      <4>1. \A v \in Workers : client'[v].sock = client[v].sock
        BY <1>1, <3>2 DEF TypeOK
      <4>2. Socks' = Socks
        BY <4>1 DEF Socks
      <4>3. QED BY <1>2, <3>1, <3>2, <4>2
    <3>3. CASE Return(w) /\ leaked' = IF client[w].sock THEN leaked \union {task[w]} ELSE leaked
      <4>1. task[w] \notin leaked
        BY <1>1, <2>6, SendingFacts DEF ConnectFails, Backing, TaskInv
      <4>2. client'[w].sock = FALSE /\ \A v \in Workers \ {w} : client'[v] = client[v]
        BY <1>1, <3>3 DEF Return, NoClient, TypeOK
      <4>3. CASE client[w].sock
        <5>1. Cardinality(leaked') = Cardinality(leaked) + 1
          BY <1>5, <3>3, <4>1, <4>3, FS_AddElement
        <5>2. Cardinality(Socks') = Cardinality(Socks) - 1
          BY <1>1, <4>2, <4>3, SocksChange
        <5>3. QED BY <1>2, <1>4, <1>5, <1>6, <3>1, <5>1, <5>2
      <4>4. CASE ~client[w].sock
        <5>1. leaked' = leaked
          BY <3>3, <4>4
        <5>2. Socks' = Socks
          BY <1>1, <2>1, <4>2, <4>4, SocksChange
        <5>3. QED BY <1>2, <3>1, <5>1, <5>2
      <4>5. QED BY <4>3, <4>4
    <3>4. QED BY <2>6, <3>2, <3>3 DEF ConnectFails
  <2>7. CASE Close(w)
    <3>1. client[w].sock
      BY <1>1, <2>7 DEF Close, Backing, ClientInv
    <3>2. /\ client'[w].sock = FALSE /\ \A v \in Workers \ {w} : client'[v] = client[v]
          /\ open' = open - 1 /\ leaked' = leaked
      BY <1>1, <2>7 DEF Close, Return, NoClient, TypeOK
    <3>3. Cardinality(Socks') = Cardinality(Socks) - 1
      BY <1>1, <3>1, <3>2, SocksChange
    <3>4. QED BY <1>2, <1>4, <1>5, <1>6, <3>2, <3>3
  <2>8. QED
    BY <1>10, <2>2, <2>3, <2>4, <2>5, <2>6, <2>7 DEF WorkerStep
<1>11. CASE \/ DeletePool \/ DestructorStep \/ ServerStops \/ ServerStarts
            \/ (\E m \in Messages : ServerStep(m)) \/ UNCHANGED vars
  BY <1>8, <1>11 DEF DeletePool, DestructorStep, ServerStops, ServerStarts, ServerStep,
     Accept, ThreadRoutine, vars
<1>12. QED BY <1>8, <1>9, <1>10, <1>11 DEF Next

-----------------------------------------------------------------------------
(* No wakeup is lost: while a worker sleeps, every queued task has a       *)
(* worker on its way or a notification to come.                            *)
Notifying == {t \in Callers : caller[t].pc = "notify"}

(* The set of workers at a place when one of them moves. *)
LEMMA AtMoves ==
  ASSUME TypeOK, NEW w \in Workers, NEW from, NEW to, from # to,
         worker[w] = from, Moves(w, to)
  PROVE  /\ At(from)' = At(from) \ {w} /\ w \in At(from)
         /\ At(to)' = At(to) \union {w} /\ w \notin At(to)
         /\ \A pc : pc # from /\ pc # to => At(pc)' = At(pc)
  BY DEF TypeOK, PoolTypeOK, Moves, At

(* The sets that WakeupPerTask counts are finite. *)
LEMMA CountsAreNumbers ==
  ASSUME TypeOK
  PROVE  /\ IsFiniteSet(At("lock")) /\ Cardinality(At("lock")) \in Nat
         /\ IsFiniteSet(Notifying) /\ Cardinality(Notifying) \in Nat
         /\ Len(tasks) \in Nat
<1>1. IsFiniteSet(At("lock")) /\ IsFiniteSet(Notifying)
  BY PoolAssumption, LogAssumption, FS_Subset DEF At, Notifying
<1>2. QED BY <1>1, FS_CardinalityType DEF TypeOK, PoolTypeOK

(* Every step leaves each queued task its worker. *)
LEMMA WakeupStep == IInv /\ [Next]_vars => WakeupPerTask'
<1> SUFFICES ASSUME IInv, [Next]_vars PROVE WakeupPerTask'
  OBVIOUS
<1>1. TypeOK /\ PoolInv /\ TypeOK'
  BY TypeStep DEF IInv
<1>2. At("wait") # {} => Len(tasks) <= Cardinality(At("lock")) + Cardinality(Notifying)
  BY DEF IInv, WakeupPerTask, TasksCovered, Notifying
<1>3. SUFFICES ASSUME At("wait")' # {}
               PROVE  Len(tasks') <= Cardinality(At("lock")') + Cardinality(Notifying')
  BY DEF WakeupPerTask, TasksCovered, Notifying
<1>4. /\ IsFiniteSet(At("lock")) /\ Cardinality(At("lock")) \in Nat
      /\ IsFiniteSet(Notifying) /\ Cardinality(Notifying) \in Nat
      /\ Len(tasks) \in Nat
  BY <1>1, CountsAreNumbers
<1>5. /\ IsFiniteSet(At("lock")') /\ Cardinality(At("lock")') \in Nat
      /\ IsFiniteSet(Notifying') /\ Cardinality(Notifying') \in Nat
  <2>1. At("lock")' \subseteq Workers /\ Notifying' \subseteq Callers
    BY DEF At, Notifying
  <2>2. QED BY <2>1, PoolAssumption, LogAssumption, FS_Subset, FS_CardinalityType
<1>6. CASE UNCHANGED <<worker, tasks>> /\ Notifying \subseteq Notifying'
  <2>1. At("lock")' = At("lock") /\ At("wait")' = At("wait")
    BY <1>6 DEF At
  <2>2. Cardinality(Notifying) <= Cardinality(Notifying')
    BY <1>5, <1>6, FS_Subset
  <2>3. QED BY <1>2, <1>3, <1>4, <1>5, <1>6, <2>1, <2>2
<1>7. ASSUME UNCHANGED caller PROVE Notifying' = Notifying
  BY <1>7 DEF Notifying
<1>8. ASSUME NEW t \in Callers, LogPlain(t) PROVE Len(tasks') <= Cardinality(At("lock")') + Cardinality(Notifying')
  BY <1>6, <1>7, <1>8 DEF LogPlain, poolVars
<1>9. ASSUME NEW t \in Callers, LogError(t)
      PROVE  Len(tasks') <= Cardinality(At("lock")') + Cardinality(Notifying')
  <2>1. caller[t] = Idle /\ caller[t].pc # "notify"
    BY <1>9 DEF LogError, Calls, Idle
  <2>2. CASE Enters(t, "notify") /\ Enqueue(Len(calls) + 1)
    <3>1. Notifying' = Notifying \union {t} /\ t \notin Notifying
      BY <1>1, <2>1, <2>2, SMTT(60) DEF Enters, Notifying, TypeOK
    <3>2. Cardinality(Notifying') = Cardinality(Notifying) + 1
      BY <1>4, <3>1, FS_AddElement
    <3>3. At("lock")' = At("lock") /\ At("wait")' = At("wait")
      BY <2>2 DEF Enqueue, At
    <3>4. Len(tasks') = Len(tasks) + 1
      BY <1>1, <2>2 DEF Enqueue, TypeOK, PoolTypeOK
    <3>5. QED BY <1>2, <1>3, <1>4, <3>2, <3>3, <3>4
  <2>3. CASE UNCHANGED <<caller, poolVars>>
    BY <1>6, <1>7, <2>3 DEF poolVars
  <2>4. CASE Enters(t, "undefined") /\ UNCHANGED poolVars
    <3>1. Notifying' = Notifying
      BY <1>1, <2>1, <2>4 DEF Enters, Notifying, TypeOK
    <3>2. QED BY <1>6, <2>4, <3>1 DEF poolVars
  <2>5. QED BY <1>9, <2>2, <2>3, <2>4 DEF LogError
<1>10. ASSUME NEW t \in Callers, NotifyWorker(t)
       PROVE  Len(tasks') <= Cardinality(At("lock")') + Cardinality(Notifying')
  <2>1. Notifying' = Notifying \ {t} /\ t \in Notifying
    BY <1>1, <1>10, SMTT(60) DEF NotifyWorker, Notifying, TypeOK
  <2>2. Cardinality(Notifying') = Cardinality(Notifying) - 1
    BY <1>4, <2>1, FS_RemoveElement
  <2>3. CASE NotifyOne
    <3>1. CASE At("wait") = {} /\ UNCHANGED worker
      BY <1>3, <3>1 DEF At
    <3>2. ASSUME NEW w \in At("wait"), Moves(w, "lock")
          PROVE  Len(tasks') <= Cardinality(At("lock")') + Cardinality(Notifying')
      <4>1. w \in Workers /\ worker[w] = "wait"
        BY DEF At
      <4>2. At("lock")' = At("lock") \union {w} /\ w \notin At("lock")
        BY <1>1, <3>2, <4>1, AtMoves
      <4>3. Cardinality(At("lock")') = Cardinality(At("lock")) + 1
        BY <1>4, <4>2, FS_AddElement
      <4>4. At("wait") # {} /\ tasks' = tasks
        BY <2>3 DEF NotifyOne
      <4>5. QED BY <1>2, <1>4, <2>2, <4>3, <4>4
    <3>3. QED BY <2>3, <3>1, <3>2 DEF NotifyOne
  <2>4. CASE dtor = "freed" /\ UNCHANGED poolVars
    <3>1. \A w \in Workers : worker'[w] = "exit"
      BY <1>1, <2>4 DEF PoolInv, poolVars
    <3>2. QED BY <1>3, <3>1 DEF At
  <2>5. QED BY <1>10, <2>3, <2>4 DEF NotifyWorker
<1>11. ASSUME NEW t \in Callers, GetAndFlush(t)
       PROVE  Len(tasks') <= Cardinality(At("lock")') + Cardinality(Notifying')
  <2>1. Notifying' = Notifying
    BY <1>1, <1>11 DEF GetAndFlush, Notifying, Idle, TypeOK
  <2>2. QED BY <1>6, <1>11, <2>1 DEF GetAndFlush, poolVars
<1>12. ASSUME NEW w \in Workers, WorkerTakes(w)
       PROVE  Len(tasks') <= Cardinality(At("lock")') + Cardinality(Notifying')
  <2>1. worker[w] = "lock" /\ Moves(w, "run") /\ tasks # <<>> /\ tasks' = Tail(tasks)
        /\ UNCHANGED caller
    BY <1>12 DEF WorkerTakes, Take, callVars
  <2>2. At("lock")' = At("lock") \ {w} /\ w \in At("lock") /\ At("wait")' = At("wait")
    BY <1>1, <2>1, AtMoves
  <2>3. Cardinality(At("lock")') = Cardinality(At("lock")) - 1
    BY <1>4, <2>2, FS_RemoveElement
  <2>4. Len(tasks') = Len(tasks) - 1
    BY <1>1, <2>1, HeadTailProperties DEF TypeOK, PoolTypeOK
  <2>5. QED BY <1>2, <1>3, <1>4, <1>7, <2>1, <2>2, <2>3, <2>4
<1>13. ASSUME NEW w \in Workers, WorkerSleeps(w) \/ WorkerExits(w)
       PROVE  Len(tasks') <= Cardinality(At("lock")') + Cardinality(Notifying')
  <2>1. tasks' = <<>>
    BY <1>13 DEF WorkerSleeps, WorkerExits, Sleep, Exit
  <2>2. Len(tasks') = 0
    BY <2>1
  <2>3. QED BY <1>5, <2>2
<1>14. ASSUME NEW w \in Workers, NEW from \in {"wait", "run"},
              worker[w] = from, Moves(w, "lock"), UNCHANGED <<tasks, caller>>
       PROVE  Len(tasks') <= Cardinality(At("lock")') + Cardinality(Notifying')
  <2>1. At("lock")' = At("lock") \union {w} /\ w \notin At("lock")
    BY <1>1, <1>14, AtMoves
  <2>2. Cardinality(At("lock")') = Cardinality(At("lock")) + 1
    BY <1>4, <2>1, FS_AddElement
  <2>3. At("wait") # {}
    BY <1>1, <1>3, <1>14 DEF At, Moves, TypeOK, PoolTypeOK
  <2>4. QED BY <1>2, <1>4, <1>7, <1>14, <2>2, <2>3
<1>15. ASSUME NEW w \in Workers, WorkerWakes(w)
       PROVE  Len(tasks') <= Cardinality(At("lock")') + Cardinality(Notifying')
  BY <1>14, <1>15 DEF WorkerWakes, Spurious, callVars
<1>16. ASSUME NEW w \in Workers, Return(w), UNCHANGED caller
       PROVE  Len(tasks') <= Cardinality(At("lock")') + Cardinality(Notifying')
  BY <1>14, <1>16 DEF Return, Finish
<1>17. ASSUME NEW w \in Workers, Socket(w) \/ Connected(w) \/ Write(w)
       PROVE  Len(tasks') <= Cardinality(At("lock")') + Cardinality(Notifying')
  BY <1>6, <1>7, <1>17 DEF Socket, Connected, Write, poolVars, callVars
<1>18. ASSUME NEW w \in Workers, ConnectFails(w)
       PROVE  Len(tasks') <= Cardinality(At("lock")') + Cardinality(Notifying')
  <2>1. UNCHANGED caller /\ (UNCHANGED poolVars \/ Return(w))
    BY <1>18 DEF ConnectFails, callVars
  <2>2. QED BY <1>6, <1>7, <1>16, <2>1 DEF poolVars
<1>19. ASSUME NEW w \in Workers, Close(w)
       PROVE  Len(tasks') <= Cardinality(At("lock")') + Cardinality(Notifying')
  BY <1>16, <1>19 DEF Close, callVars
<1>20. CASE DestructorStep
  <2>1. CASE NotifyAll
    BY <1>3, <2>1 DEF NotifyAll, At
  <2>2. CASE Join
    BY <1>6, <1>7, <1>20, <2>2 DEF Join, DestructorStep, callVars
  <2>3. QED BY <1>20, <2>1, <2>2 DEF DestructorStep
<1>21. CASE \/ DeletePool \/ ServerStops \/ ServerStarts
            \/ (\E m \in Messages : ServerStep(m)) \/ UNCHANGED vars
  BY <1>6, <1>7, <1>21 DEF DeletePool, SetStop, ServerStops, ServerStarts, ServerStep,
     Accept, ThreadRoutine, vars, poolVars, callVars
<1>22. QED
  BY <1>8, <1>9, <1>10, <1>11, <1>12, <1>13, <1>15, <1>17, <1>18, <1>19, <1>20, <1>21
     DEF Next, CallerStep, WorkerStep

-----------------------------------------------------------------------------
(* Init satisfies the invariant. *)
LEMMA InvInit == Init => IInv
<1> SUFFICES ASSUME Init PROVE IInv
  OBVIOUS
<1>1. TypeOK
  BY TypeInit
<1>2. /\ tasks = <<>> /\ file = <<>> /\ calls = <<>> /\ dtor = "none" /\ stop = FALSE
      /\ ready = {} /\ sent = {} /\ leaked = {} /\ open = 0
      /\ \A w \in Workers : /\ worker[w] = "lock" /\ task[w] = NoTask
                            /\ client[w].step = "none" /\ client[w].sock = FALSE
      /\ \A t \in Callers : caller[t].pc = "idle"
      /\ \A m \in Messages : link[m] = "none"
  BY DEF Init, PoolInit, Idle, NoClient
<1>3. Len(tasks) = 0 /\ Len(file) = 0 /\ Len(calls) = 0
  BY <1>2
<1>4. PoolInv /\ TaskInv /\ FutureInv /\ ClientInv /\ FreshInv /\ LinkInv /\ OneRecord
  BY <1>2, <1>3, LogAssumption
     DEF PoolInv, TaskInv, FutureInv, Waiting, ClientInv, FreshInv, LinkInv, OneRecord
<1>5. DescriptorsLeft
  <2>1. {w \in Workers : client[w].sock} = {}
    BY <1>2
  <2>2. QED BY <1>2, <2>1, FS_EmptySet DEF DescriptorsLeft
<1>6. WakeupPerTask
  BY <1>2 DEF WakeupPerTask, TasksCovered, At
<1>7. QED BY <1>1, <1>4, <1>5, <1>6 DEF IInv

(* Every step keeps it. *)
LEMMA InvStep == IInv /\ [Next]_vars => IInv'
<1> SUFFICES ASSUME IInv, [Next]_vars PROVE IInv'
  OBVIOUS
<1>1. PoolInv'
  <2>1. PoolTypeOK(Messages) /\ PoolInv
    BY DEF IInv, TypeOK
  <2>2. QED BY <2>1, NextIsPoolStep, PoolInvStep
<1>2. TypeOK' /\ TaskInv' /\ FutureInv' /\ ClientInv' /\ FreshInv'
  BY TypeStep, TaskStep, FutureStep, ClientStep, FreshStep
<1>3. LinkInv' /\ OneRecord' /\ DescriptorsLeft' /\ WakeupPerTask'
  BY LinkStep, DescriptorStep, WakeupStep
<1>4. QED BY <1>1, <1>2, <1>3 DEF IInv

(* The invariant holds throughout. *)
LEMMA Invariance == Spec => []IInv
  BY InvInit, InvStep, PTL DEF Spec

-----------------------------------------------------------------------------
(* The types are right: in particular the descriptors that start_backup    *)
(* leaves open never pass FdLimit, since socket fails first.               *)
THEOREM TypeCorrect == Spec => []TypeOK
<1>1. IInv => TypeOK
  BY DEF IInv
<1>2. QED BY <1>1, Invariance, PTL

(* No wakeup of the pool is lost, however many threads enqueue and however *)
(* their unlocks and notifications interleave with waits and wakeups       *)
(* (ThreadPool::enqueue, ThreadPool::ThreadPool).                          *)
THEOREM NoWakeupLost == Spec => []WakeupPerTask
<1>1. IInv => WakeupPerTask
  BY DEF IInv
<1>2. QED BY <1>1, Invariance, PTL

(* ~ThreadPool drops no task: every future handed out before it is ready   *)
(* when it returns, so no serialize waits for ever on a pool that is gone. *)
THEOREM EveryFutureIsMade == Spec => []NoTaskDropped
<1>1. IInv => NoTaskDropped
  <2> SUFFICES ASSUME IInv, dtor = "freed", NEW t \in Callers,
                      caller[t].pc \in {"notify", "get"}
               PROVE  caller[t].m \in ready
    BY DEF NoTaskDropped
  <2>1. TypeOK /\ PoolInv /\ FutureInv
    BY DEF IInv
  <2>2. \A w \in Workers : worker[w] = "exit" /\ task[w] = NoTask
    BY <2>1 DEF PoolInv, TypeOK, PoolTypeOK
  <2>3. tasks = <<>>
    BY <2>1, <2>2, PoolAssumption DEF PoolInv
  <2>4. Len(tasks) = 0
    BY <2>3
  <2>5. caller[t].m \in Messages /\ NoTask \notin Messages
    BY <2>1, LogAssumption DEF FutureInv, Waiting, Messages, NoTask
  <2>6. QED BY <2>1, <2>2, <2>4, <2>5 DEF FutureInv, Waiting
<1>2. QED BY <1>1, Invariance, PTL

(* The backup file has at most one record of a message, and only of an     *)
(* ERROR that start_backup wrote to it, however often the server dies      *)
(* (start_backup, TcpServer::service of the backup server).                *)
THEOREM BackedUpOnce == Spec => []OneRecord
<1>1. IInv => OneRecord
  BY DEF IInv
<1>2. QED BY <1>1, Invariance, PTL

(* start_backup leaves a descriptor open for each message it could not     *)
(* connect for on a socket it had, and for no other (the early return of   *)
(* start_backup against its close).                                        *)
THEOREM DescriptorsAccounted == Spec => []DescriptorsLeft
<1>1. IInv => DescriptorsLeft
  BY DEF IInv
<1>2. QED BY <1>1, Invariance, PTL
=============================================================================
