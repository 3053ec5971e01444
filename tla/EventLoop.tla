------------------------------ MODULE EventLoop ------------------------------
(***************************************************************************)
(* One EventLoop (src/src/EventLoop.cpp, src/include/EventLoop.hpp): the   *)
(* thread that runs it, from the construction of the loop object in        *)
(* EventLoopThread::threadFunc to the return of loop(), and the other      *)
(* threads that call queueInLoop, runInLoop and quit on it.                *)
(*                                                                         *)
(* The loop thread is a program counter `pc':                              *)
(*   "init"      the object exists, only its own thread knows it; the      *)
(*               thread-init callback runs here                            *)
(*   "published" loop_ = &loop has been handed to the other threads        *)
(*   "top"       at the test while (!quit_)                                *)
(*   "poll"      inside epoll_wait                                         *)
(*   "dispatch"  between two channels of activecChannels_                  *)
(*   "handler"   inside the read callback of an I/O channel (user code)    *)
(*   "swap"      doPendingFunctions, callingPendingFuntors_ already set    *)
(*   "run"       doPendingFunctions, between two functors                  *)
(*   "functor"   inside a functor (user code)                              *)
(*   "stopped"   loop() has returned                                       *)
(* User code of the loop thread may call queueInLoop and quit any number   *)
(* of times; runInLoop from that thread only calls its argument.           *)
(*                                                                         *)
(* A functor is the number of its arrival.  eventfd: wakeupFd is 1 when    *)
(* the counter is non-zero; a read resets the counter whatever its value,  *)
(* and its value is never used.  looping_ is written and never read.       *)
(***************************************************************************)
EXTENDS Naturals, Sequences

CONSTANTS Threads,    \* threads other than the one that runs the loop
          MaxPosts    \* bound: at most this many functors are ever queued

ASSUME MaxPostsAssumption == MaxPosts \in Nat

VARIABLES pc,         \* where the loop thread is
          quit,       \* quit_
          calling,    \* callingPendingFuntors_
          pending,    \* pengdingFuntors_
          functors,   \* the local vector of doPendingFunctions, rest to run
          wakeupFd,   \* 1: the eventfd is readable
          ioReady,    \* some other channel of this loop is ready
          active,     \* activecChannels_, rest to dispatch
          tpc,        \* per thread: "wake" between its update and wakeup()
          posted,     \* history: number of functors queued so far
          initPosted, \* history: how many of them in the init callback
          executed    \* history: functors started, in order

vars == <<pc, quit, calling, pending, functors, wakeupFd, ioReady, active,
          tpc, posted, initPosted, executed>>

loopVars == <<pc, calling, functors, active, executed>>

Channels == {"wakeup", "io"}

PcValues == {"init", "published", "top", "poll", "dispatch", "handler",
             "swap", "run", "functor", "stopped"}

(* The places where the loop thread executes user code. *)
UserCode == {"init", "handler", "functor"}

Init == /\ pc = "init"
        /\ quit = FALSE
        /\ calling = FALSE
        /\ pending = <<>>
        /\ functors = <<>>
        /\ wakeupFd = 0
        /\ ioReady = FALSE
        /\ active = {}
        /\ tpc = [t \in Threads |-> "idle"]
        /\ posted = 0
        /\ initPosted = 0
        /\ executed = <<>>

-----------------------------------------------------------------------------
(* The critical section of queueInLoop. *)
EmplaceBack == /\ posted < MaxPosts
               /\ posted' = posted + 1
               /\ pending' = Append(pending, posted + 1)

(* queueInLoop, and runInLoop which calls it, in a thread that is not the  *)
(* loop's: the functor is queued under mutex_, which is released before    *)
(* wakeup() is called.                                                     *)
QueueInLoop(t) == /\ pc # "init"
                  /\ tpc[t] = "idle"
                  /\ EmplaceBack
                  /\ tpc' = [tpc EXCEPT ![t] = "wake"]
                  /\ UNCHANGED <<loopVars, quit, wakeupFd, ioReady, initPosted>>

(* quit() in a thread that is not the loop's, up to its wakeup(). *)
Quit(t) == /\ pc # "init"
           /\ tpc[t] = "idle"
           /\ quit' = TRUE
           /\ tpc' = [tpc EXCEPT ![t] = "wake"]
           /\ UNCHANGED <<loopVars, pending, wakeupFd, ioReady, posted, initPosted>>

(* wakeup(): the write to the eventfd that ends both calls. *)
Wakeup(t) == /\ tpc[t] = "wake"
             /\ wakeupFd' = 1
             /\ tpc' = [tpc EXCEPT ![t] = "idle"]
             /\ UNCHANGED <<loopVars, quit, pending, ioReady, posted, initPosted>>

(* A descriptor of another channel becomes ready. *)
IoEvent == /\ ~ioReady
           /\ ioReady' = TRUE
           /\ UNCHANGED <<loopVars, quit, pending, wakeupFd, tpc, posted, initPosted>>

-----------------------------------------------------------------------------
(* The loop thread's own calls, from user code.                            *)

(* Mutant: a functor queues another one and nobody wakes the loop. *)
WakeupNeverInLoopThread == UNCHANGED wakeupFd

(* wakeup() of queueInLoop when the caller is the loop thread. *)
WakeupInLoopThread == IF calling THEN wakeupFd' = 1 ELSE UNCHANGED wakeupFd

QueueInOwnLoop ==
    /\ pc \in UserCode
    /\ EmplaceBack
    /\ WakeupInLoopThread
    /\ initPosted' = IF pc = "init" THEN posted + 1 ELSE initPosted
    /\ UNCHANGED <<loopVars, quit, ioReady, tpc>>

QuitOwnLoop == /\ pc \in UserCode
               /\ quit' = TRUE
               /\ UNCHANGED <<loopVars, pending, wakeupFd, ioReady, tpc, posted, initPosted>>

-----------------------------------------------------------------------------
(* The loop thread.                                                        *)

Goto(from, to) == pc = from /\ pc' = to

(* threadFunc hands the loop to the thread waiting in startLoop. *)
Publish == /\ Goto("init", "published")
           /\ UNCHANGED <<quit, calling, pending, functors, wakeupFd, ioReady,
                          active, tpc, posted, initPosted, executed>>

(* The first statements of loop(). *)
EnterLoop == /\ Goto("published", "top")
             /\ quit' = FALSE
             /\ UNCHANGED <<calling, pending, functors, wakeupFd, ioReady,
                            active, tpc, posted, initPosted, executed>>

(* while (!quit_) *)
TestQuit == /\ pc = "top"
            /\ pc' = IF quit THEN "stopped" ELSE "poll"
            /\ UNCHANGED <<quit, calling, pending, functors, wakeupFd, ioReady,
                           active, tpc, posted, initPosted, executed>>

(* What epoll_wait reports: level triggered, every ready channel. *)
Ready == {c \in Channels : \/ c = "wakeup" /\ wakeupFd = 1
                           \/ c = "io" /\ ioReady}

PollReturns == /\ Goto("poll", "dispatch")
               /\ Ready # {}
               /\ active' = Ready
               /\ UNCHANGED <<quit, calling, pending, functors, wakeupFd, ioReady,
                              tpc, posted, initPosted, executed>>

(* Nothing happens for POLLTIMEMS, or a signal interrupts the wait. *)
PollTimeout == /\ Goto("poll", "dispatch")
               /\ Ready = {}
               /\ active' = {}
               /\ UNCHANGED <<quit, calling, pending, functors, wakeupFd, ioReady,
                              tpc, posted, initPosted, executed>>

(* EventLoop::handleRead, the read callback of wakeupChannel_. *)
HandleWakeup == /\ Goto("dispatch", "dispatch")
                /\ "wakeup" \in active
                /\ active' = active \ {"wakeup"}
                /\ wakeupFd' = 0
                /\ UNCHANGED <<quit, calling, pending, functors, ioReady,
                               tpc, posted, initPosted, executed>>

(* The read callback of another channel consumes its event and runs user code. *)
HandleIo == /\ Goto("dispatch", "handler")
            /\ "io" \in active
            /\ active' = active \ {"io"}
            /\ ioReady' = FALSE
            /\ UNCHANGED <<quit, calling, pending, functors, wakeupFd,
                           tpc, posted, initPosted, executed>>

HandlerReturns == /\ Goto("handler", "dispatch")
                  /\ UNCHANGED <<quit, calling, pending, functors, wakeupFd, ioReady,
                                 active, tpc, posted, initPosted, executed>>

(* doPendingFunctions is called once every channel has been served. *)
StartPending == /\ Goto("dispatch", "swap")
                /\ active = {}
                /\ calling' = TRUE
                /\ UNCHANGED <<quit, pending, functors, wakeupFd, ioReady,
                               active, tpc, posted, initPosted, executed>>

(* Mutant: the vector is copied and not swapped. *)
CopyFunctors == /\ Goto("swap", "run")
                /\ functors' = pending
                /\ UNCHANGED <<quit, calling, pending, wakeupFd, ioReady,
                               active, tpc, posted, initPosted, executed>>

(* functors.swap(pengdingFuntors_), under mutex_; functors was empty. *)
SwapFunctors == /\ Goto("swap", "run")
                /\ functors' = pending
                /\ pending' = functors
                /\ UNCHANGED <<quit, calling, wakeupFd, ioReady,
                               active, tpc, posted, initPosted, executed>>

RunFunctor == /\ Goto("run", "functor")
              /\ functors # <<>>
              /\ functors' = Tail(functors)
              /\ executed' = Append(executed, Head(functors))
              /\ UNCHANGED <<quit, calling, pending, wakeupFd, ioReady,
                             active, tpc, posted, initPosted>>

FunctorReturns == /\ Goto("functor", "run")
                  /\ UNCHANGED <<quit, calling, pending, functors, wakeupFd, ioReady,
                                 active, tpc, posted, initPosted, executed>>

EndPending == /\ Goto("run", "top")
              /\ functors = <<>>
              /\ calling' = FALSE
              /\ UNCHANGED <<quit, pending, functors, wakeupFd, ioReady,
                             active, tpc, posted, initPosted, executed>>

-----------------------------------------------------------------------------
(* What the loop thread does by itself: everything but waiting out the     *)
(* timeout of epoll_wait and the calls user code chooses to make.  Module  *)
(* LoopThread composes these steps with the thread that owns the loop and  *)
(* states the fairness they need.                                          *)
LoopStep == \/ Publish \/ EnterLoop \/ TestQuit \/ PollReturns
            \/ HandleWakeup \/ HandleIo \/ HandlerReturns
            \/ StartPending \/ SwapFunctors
            \/ RunFunctor \/ FunctorReturns \/ EndPending

ThreadStep(t) == QueueInLoop(t) \/ Quit(t) \/ Wakeup(t)

Next == \/ LoopStep
        \/ PollTimeout
        \/ QueueInOwnLoop
        \/ QuitOwnLoop
        \/ IoEvent
        \/ \E t \in Threads : ThreadStep(t)

Spec == Init /\ [][Next]_vars

-----------------------------------------------------------------------------
TypeOK == /\ pc \in PcValues
          /\ quit \in BOOLEAN
          /\ calling \in BOOLEAN
          /\ pending \in Seq(Nat)
          /\ functors \in Seq(Nat)
          /\ wakeupFd \in {0, 1}
          /\ ioReady \in BOOLEAN
          /\ active \in SUBSET Channels
          /\ tpc \in [Threads -> {"idle", "wake"}]
          /\ posted \in 0..MaxPosts
          /\ initPosted \in 0..posted
          /\ executed \in Seq(Nat)

(* A thread is between its update and the write that announces it. *)
WakeupPending == wakeupFd = 1 \/ \E t \in Threads : tpc[t] = "wake"

(***************************************************************************)
(* No lost wakeup (queueInLoop, handleRead and doPendingFunctions): a      *)
(* functor queued once the loop is known to others never waits behind a    *)
(* blocked epoll_wait; if the loop is, or is about to be, blocked while    *)
(* such a functor is queued then the eventfd is readable or the write to   *)
(* it is on its way.  Functors queued by the thread-init callback are      *)
(* excepted: that callback runs in the loop's thread, outside              *)
(* doPendingFunctions, so nobody writes to the eventfd and the first       *)
(* epoll_wait may sleep on them until it times out.                        *)
(***************************************************************************)
NoSleepOnWork == (/\ pc \in {"top", "poll"}
                  /\ \E i \in 1..Len(pending) : pending[i] > initPosted)
                 => WakeupPending

(***************************************************************************)
(* Exactly once and in order: across the swap and whatever is queued       *)
(* while functors run, the functors started, the rest of the swapped       *)
(* vector and the queue are, in this order, 1, 2, ..., posted.             *)
(***************************************************************************)
ExactlyOnceInOrder ==
    /\ Len(executed) + Len(functors) + Len(pending) = posted
    /\ \A i \in 1..Len(executed) : executed[i] = i
    /\ \A i \in 1..Len(functors) : functors[i] = Len(executed) + i
    /\ \A i \in 1..Len(pending) :
          pending[i] = Len(executed) + Len(functors) + i

(***************************************************************************)
(* Every functor queued after the init callback is started without the     *)
(* help of the poll timeout, unless loop() returns first.                  *)
(***************************************************************************)
PromptExecution ==
    \A i \in 1..MaxPosts :
        (initPosted < i /\ i <= posted)
            ~> ((\E k \in 1..Len(executed) : executed[k] = i) \/ pc = "stopped")

(***************************************************************************)
(* The loop implements the abstract queue: what was swapped out and not    *)
(* yet started, followed by what is queued, is the abstract queue.         *)
(***************************************************************************)
Abstract == INSTANCE TaskQueue WITH todo <- functors \o pending,
                                    done <- executed,
                                    open <- (pc # "stopped")

ImplementsTaskQueue == Abstract!Spec
=============================================================================
