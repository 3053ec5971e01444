----------------------------- MODULE AsyncWorker -----------------------------
(***************************************************************************)
(* The double buffer of the logger (AsyncWorker.hpp and AsyncBuffer.hpp in *)
(* src/log_system/logs_code): producers Push messages into one buffer, a   *)
(* thread swaps it with the one it has emptied and hands the messages to   *)
(* the flush callback.  Stop sets a flag, notifies and joins the thread.   *)
(*                                                                         *)
(* mtx_ is held over a whole step or, where another thread can come in     *)
(* between, recorded in `mtx'.  stop_ is an atomic flag that Stop sets     *)
(* without the mutex; so the consumer's test of its condition and its      *)
(* going to sleep, one atom for whoever holds the mutex, are two steps for *)
(* Stop.  A condition variable may also wake a thread for no reason.       *)
(*                                                                         *)
(* A buffer is its capacity and its messages; a message is the number of   *)
(* its arrival, len[m] its length.  The consumer's pc:                     *)
(*   "lock"  about to lock mtx_ and test      "sleep" going to sleep       *)
(*   "wait"  asleep on cond_consumer_         "swap"  the condition held   *)
(*   "flush" in the callback, unlocked        "last"  in it, locked        *)
(*   "done"  ThreadEntry has returned                                      *)
(***************************************************************************)
EXTENDS Naturals, Sequences, FiniteSets

CONSTANTS Producers,     \* threads that log
          AsyncTypes,    \* what a logger may be built with, of SAFE and UNSAFE
          BufferSize,    \* buffer_size of config.conf
          Growth,        \* linear_growth of config.conf
          Lengths,       \* lengths a message may have
          MayStop,       \* Stop is called
          MaxPushes      \* bound: calls of Push that are not refused

ASSUME WorkerAssumption == /\ AsyncTypes \subseteq {"SAFE", "UNSAFE"}
                           /\ MayStop \in BOOLEAN
                           /\ BufferSize \in Nat \ {0}
                           /\ Growth \in Nat
                           /\ Lengths \subseteq Nat \ {0}
                           /\ MaxPushes \in Nat

VARIABLES asyncType, \* async_type_, fixed by the constructor
          stop,      \* stop_
          mtx,       \* "free", or "consumer" between two of its steps
          productor, \* buffer_productor_
          consumer,  \* buffer_consumer_
          cpc,       \* where the consumer is
          ppc,       \* per producer: "idle", "wait" or "woken"
          plen,      \* per producer: the length of the message it is pushing
          spc,       \* the thread that calls Stop
          len,       \* history: the length of each message pushed, in order
          flushed,   \* history: messages given to the callback, in order
          stopLen    \* history: how many messages had been pushed before Stop

vars == <<asyncType, stopLen, stop, mtx, productor, consumer, cpc, ppc, plen, spc, len, flushed>>

EmptyBuffer == [size |-> BufferSize, pos |-> 0, msgs |-> <<>>]

Init == /\ asyncType \in AsyncTypes
        /\ stop = FALSE
        /\ mtx = "free"
        /\ productor = EmptyBuffer
        /\ consumer = EmptyBuffer
        /\ cpc = "lock"
        /\ ppc = [p \in Producers |-> "idle"]
        /\ plen = [p \in Producers |-> 0]
        /\ spc = "idle"
        /\ len = <<>>
        /\ flushed = <<>>
        /\ stopLen = 0

WriteableSize(b) == b.size - b.pos
IsEmpty(b)       == b.pos = 0

(* Mutant: Reset forgets the messages it should drop. *)
ResetKeepsData(b) == b

(* Buffer::Reset *)
Reset(b) == [size |-> b.size, pos |-> 0, msgs |-> <<>>]

(* Mutant: the buffer grows only after it has overflowed. *)
GrowTooLate(b, n) == IF n > WriteableSize(b) + 1 THEN b.size + Growth ELSE b.size

(* Buffer::ToBeEnough.  config.conf names the threshold "threshold" and    *)
(* the code reads "threadhold": it is always 0 and growth always linear.   *)
ToBeEnough(b, n) == IF n >= WriteableSize(b) THEN b.size + Growth ELSE b.size

(* Buffer::Push of message m of length n. *)
BufferPush(b, m, n) == [size |-> ToBeEnough(b, n), pos |-> b.pos + n,
                        msgs |-> Append(b.msgs, m)]

-----------------------------------------------------------------------------
(* Mutant: the consumer is not told. *)
NotifyNever == UNCHANGED cpc

(* cond_consumer_.notify_one(): only the consumer waits there.             *)
NotifyConsumer == cpc' = IF cpc = "wait" THEN "lock" ELSE cpc

(* A producer's condition holds: its message is put into the buffer. *)
DoPush(p, n) == /\ productor' = BufferPush(productor, Len(len) + 1, n)
                /\ len' = Append(len, n)
                /\ NotifyConsumer
                /\ ppc' = [ppc EXCEPT ![p] = "idle"]
                /\ plen' = [plen EXCEPT ![p] = 0]

(* The wait of Push: in safe mode the message must fit. *)
MustWait(n) == asyncType = "SAFE" /\ n > WriteableSize(productor)

(* Producers inside Push. *)
InFlight == {p \in Producers : ppc[p] # "idle"}

(* Push, up to its end or to its wait on cond_productor_. *)
Push(p, n) == /\ mtx = "free"
              /\ ppc[p] = "idle"
              /\ ~stop
              /\ Len(len) + Cardinality(InFlight) < MaxPushes
              /\ IF MustWait(n)
                 THEN /\ ppc' = [ppc EXCEPT ![p] = "wait"]
                      /\ plen' = [plen EXCEPT ![p] = n]
                      /\ UNCHANGED <<productor, len, cpc>>
                 ELSE DoPush(p, n)
              /\ UNCHANGED <<asyncType, stopLen, stop, mtx, consumer, spc, flushed>>

(* A notified producer locks mtx_ again and tests its condition again; it  *)
(* does not look at stop_.                                                 *)
PushAgain(p) == /\ mtx = "free"
                /\ ppc[p] = "woken"
                /\ IF MustWait(plen[p])
                   THEN /\ ppc' = [ppc EXCEPT ![p] = "wait"]
                        /\ UNCHANGED <<productor, len, cpc, plen>>
                   ELSE DoPush(p, plen[p])
                /\ UNCHANGED <<asyncType, stopLen, stop, mtx, consumer, spc, flushed>>

SpuriousProducer(p) == /\ ppc[p] = "wait"
                       /\ ppc' = [ppc EXCEPT ![p] = "woken"]
                       /\ UNCHANGED <<asyncType, stopLen, stop, mtx, productor, consumer,
                                      cpc, plen,
                                      spc, len, flushed>>

-----------------------------------------------------------------------------
(* ThreadEntry.                                                            *)

(* The mutex is taken and the condition of the wait tested. *)
Test == /\ mtx = "free"
        /\ cpc = "lock"
        /\ mtx' = "consumer"
        /\ cpc' = IF stop \/ ~IsEmpty(productor) THEN "swap" ELSE "sleep"
        /\ UNCHANGED <<asyncType, stopLen, stop, productor, consumer, ppc, plen, spc,
                       len, flushed>>

(* The thread is queued on cond_consumer_ and the mutex is released. *)
Sleep == /\ cpc = "sleep"
         /\ cpc' = "wait"
         /\ mtx' = "free"
         /\ UNCHANGED <<asyncType, stopLen, stop, productor, consumer, ppc, plen, spc,
                        len, flushed>>

SpuriousConsumer == /\ cpc = "wait"
                    /\ cpc' = "lock"
                    /\ UNCHANGED <<asyncType, stopLen, stop, mtx, productor, consumer,
                                   ppc, plen, spc,
                                   len, flushed>>

(* cond_productor_.notify_one(): any one of the waiting producers. *)
NotifyProducer ==
    \/ \E p \in Producers : ppc[p] = "wait" /\ ppc' = [ppc EXCEPT ![p] = "woken"]
    \/ (\A p \in Producers : ppc[p] # "wait") /\ UNCHANGED ppc

(* Mutant: no producer hears of the space. *)
NotifyNobody == UNCHANGED ppc

(* The notification that follows a swap in safe mode. *)
NotifySpace == IF asyncType = "SAFE" THEN NotifyProducer ELSE UNCHANGED ppc

(* Buffer::Swap *)
BufferSwap == productor' = consumer /\ consumer' = productor

(* The rest of the block under the lock: swap, notify, and the exit test. *)
Swap == /\ cpc = "swap"
        /\ IF IsEmpty(productor)
           THEN UNCHANGED <<productor, consumer, ppc>>
           ELSE BufferSwap /\ NotifySpace
        /\ IF stop /\ IsEmpty(productor')
           THEN cpc' = "last" /\ UNCHANGED mtx
           ELSE cpc' = "flush" /\ mtx' = "free"
        /\ UNCHANGED <<asyncType, stopLen, stop, plen, spc, len, flushed>>

(* callback_ and Reset *)
CallAndReset == /\ flushed' = flushed \o consumer.msgs
                /\ consumer' = Reset(consumer)

Flush == /\ cpc = "flush"
         /\ cpc' = "lock"
         /\ CallAndReset
         /\ UNCHANGED <<asyncType, stopLen, stop, mtx, productor, ppc, plen, spc, len>>

(* Mutant: the thread leaves without a last call. *)
LeaveAtOnce == /\ cpc = "last"
               /\ cpc' = "done"
               /\ mtx' = "free"
               /\ UNCHANGED <<asyncType, stopLen, stop, productor, consumer, ppc, plen, spc,
                              len, flushed>>

LastFlush == /\ cpc = "last"
             /\ cpc' = "done"
             /\ mtx' = "free"
             /\ CallAndReset
             /\ UNCHANGED <<asyncType, stopLen, stop, productor, ppc, plen, spc, len>>

-----------------------------------------------------------------------------
(* Stop: three statements, without the mutex.                              *)

SetStop == /\ MayStop
           /\ spc = "idle"
           /\ spc' = "notify"
           /\ stop' = TRUE
           /\ stopLen' = Len(len)
           /\ UNCHANGED <<asyncType, mtx, productor, consumer, cpc, ppc, plen, len,
                          flushed>>

NotifyAll == /\ spc = "notify"
             /\ spc' = "join"
             /\ NotifyConsumer
             /\ UNCHANGED <<asyncType, stopLen, stop, mtx, productor, consumer, ppc,
                            plen, len, flushed>>

Join == /\ spc = "join"
        /\ cpc = "done"
        /\ spc' = "stopped"
        /\ UNCHANGED <<asyncType, stopLen, stop, mtx, productor, consumer, cpc, ppc,
                       plen, len, flushed>>

-----------------------------------------------------------------------------
ConsumerStep == Test \/ Sleep \/ Swap \/ Flush \/ LastFlush

StopStep == NotifyAll \/ Join

Next == \/ ConsumerStep
        \/ StopStep
        \/ SetStop
        \/ SpuriousConsumer
        \/ \E p \in Producers : \/ \E n \in Lengths : Push(p, n)
                                \/ PushAgain(p)
                                \/ SpuriousProducer(p)

Spec == Init /\ [][Next]_vars

(* Every thread that can go on does, the flush callback returns, and a     *)
(* woken producer that finds mtx_ free again and again obtains it.         *)
(* Nothing is assumed about wakeups for no reason.                         *)
Fairness == /\ WF_vars(ConsumerStep)
            /\ WF_vars(StopStep)
            /\ \A p \in Producers : SF_vars(PushAgain(p))

FairSpec == Spec /\ Fairness

-----------------------------------------------------------------------------
BufferType == [size : {BufferSize + k * Growth : k \in 0..MaxPushes},
               pos : Nat, msgs : Seq(Nat)]

TypeOK == /\ asyncType \in AsyncTypes
          /\ stop \in BOOLEAN
          /\ mtx \in {"free", "consumer"}
          /\ productor \in BufferType
          /\ consumer \in BufferType
          /\ cpc \in {"lock", "sleep", "wait", "swap", "flush", "last", "done"}
          /\ ppc \in [Producers -> {"idle", "wait", "woken"}]
          /\ plen \in [Producers -> Lengths \union {0}]
          /\ spc \in {"idle", "notify", "join", "stopped"}
          /\ len \in Seq(Lengths)
          /\ flushed \in Seq(Nat)
          /\ stopLen \in 0..MaxPushes

(***************************************************************************)
(* Exactly once and in order (Push, Swap, Reset): the messages flushed,    *)
(* those the consumer holds and those in the producers' buffer are, in     *)
(* this order, all the messages pushed.                                    *)
(***************************************************************************)
FlushedInOrder == flushed \o consumer.msgs \o productor.msgs = [i \in 1..Len(len) |-> i]

(* Neither buffer is written beyond its end, given that a message is no    *)
(* longer than the space one step of growth adds.                          *)
WithinBuffer == productor.pos <= productor.size /\ consumer.pos <= consumer.size

(***************************************************************************)
(* The consumer never sleeps on data (Push notifies after each message):   *)
(* while it is asleep the producers' buffer is empty.                      *)
(***************************************************************************)
NoSleepOnData == cpc \in {"sleep", "wait"} => IsEmpty(productor)

(***************************************************************************)
(* Stop loses nothing that was pushed before it (ThreadEntry leaves only   *)
(* when the producers' buffer is empty, and flushes once more).  A         *)
(* producer that was waiting for space does not look at stop_ again and    *)
(* may push behind the back of a thread that has left; only such messages  *)
(* are lost.                                                               *)
(***************************************************************************)
StopKeepsPushed == cpc = "done" => Len(flushed) >= stopLen

(* A producer that waits for space gets it and its message in, however     *)
(* notify_one chooses among the waiting ones, unless Stop is called.       *)
PushEnds == \A p \in Producers : (ppc[p] # "idle") ~> (ppc[p] = "idle" \/ stop)

(* Every message is flushed in the end, unless Stop is called. *)
EverythingFlushed ==
    \A m \in 1..MaxPushes :
        (Len(len) >= m) ~> ((\E i \in 1..Len(flushed) : flushed[i] = m) \/ stop)

(* Stop waits for the thread to end, and the thread ends. *)
StopReturns == (spc # "idle") ~> (spc = "stopped")
=============================================================================
