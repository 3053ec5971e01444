----------------------------- MODULE LoopThread -----------------------------
(***************************************************************************)
(* The life of a loop of the pool: EventLoopThread (EventLoopThread.cpp),  *)
(* Thread (Thread.cpp) and EventLoop composed, from                        *)
(* EventLoopThreadPool::start, which calls startLoop, to the destructors.  *)
(*                                                                         *)
(* Owner is the thread that calls startLoop and destroys the               *)
(* EventLoopThread; between the two it uses the loop as every other thread *)
(* may to which it gave the pointer.  Its place is `opc':                  *)
(*   "start"  to call Thread::start       "sem"   in sem_wait              *)
(*   "cond"   to wait on cond_ for loop_  "have"  startLoop has returned   *)
(*   "quit"   ~EventLoopThread has seen loop_ and calls quit()             *)
(*   "wake"   in it, before wakeup()      "join"  in Thread::join          *)
(*   "gone"   the EventLoopThread is destroyed                             *)
(* `life' is the loop's thread around the steps of EventLoop:              *)
(*   "none"   not created                 "born"  before sem_post          *)
(*   "func"   in threadFunc, from the constructor of the EventLoop to the  *)
(*            return of loop()                                             *)
(*   "locked" loop_ is null again, mutex_ held                             *)
(*   "ended"  mutex_ unlocked, the EventLoop destroyed                     *)
(* threadFunc declares its lock after the loop, so mutex_ is unlocked      *)
(* first; nobody takes mutex_ after that and the two are one step here.    *)
(***************************************************************************)
EXTENDS EventLoop

CONSTANT Owner

ASSUME OwnerAssumption == Owner \in Threads

VARIABLES opc,       \* where the owner is
          life,      \* where the loop's thread is
          loopSet,   \* loop_ of the EventLoopThread is not null
          otherQuit  \* history: somebody else than the destructor called quit()

threadVars == <<opc, life, loopSet, otherQuit>>

allVars == <<vars, threadVars>>

LTInit == /\ Init
          /\ opc = "start"
          /\ life = "none"
          /\ loopSet = FALSE
          /\ otherQuit = FALSE

OwnerGoes(from, to) == opc = from /\ opc' = to

-----------------------------------------------------------------------------
(* Thread::start and startLoop.                                            *)

CreateThread == /\ OwnerGoes("start", "sem")
                /\ life = "none"
                /\ life' = "born"
                /\ UNCHANGED <<vars, loopSet, otherQuit>>

(* The first statements of the new thread, sem_post the last of them. *)
SemPost == /\ life = "born"
           /\ life' = "func"
           /\ UNCHANGED <<vars, opc, loopSet, otherQuit>>

SemWait == /\ OwnerGoes("sem", "cond")
           /\ life # "born"
           /\ UNCHANGED <<vars, life, loopSet, otherQuit>>

(* The wait on cond_ tests loop_ under mutex_ before it sleeps and after   *)
(* every notification, so it ends when it finds loop_ set and not before.  *)
LoopIsThere == /\ OwnerGoes("cond", "have")
               /\ loopSet
               /\ UNCHANGED <<vars, life, loopSet, otherQuit>>

-----------------------------------------------------------------------------
(* threadFunc around the steps of EventLoop.                               *)

(* Mutant: nobody is told that the loop is there. *)
PublishNothing == UNCHANGED loopSet

(* loop_ = &loop, when EventLoop's Publish is taken. *)
SetLoop == loopSet' = (loopSet \/ (pc = "init" /\ pc' = "published"))

InThreadFunc == /\ life = "func"
                /\ LoopStep
                /\ SetLoop
                /\ UNCHANGED <<opc, life, otherQuit>>

InPollTimeout == /\ life = "func"
                 /\ PollTimeout
                 /\ UNCHANGED threadVars

(* User code in the loop's thread. *)
InUserCode == /\ life = "func"
              /\ \/ QueueInOwnLoop /\ UNCHANGED otherQuit
                 \/ QuitOwnLoop /\ otherQuit' = TRUE
              /\ UNCHANGED <<opc, life, loopSet>>

(* loop_ = nullptr *)
ResetLoop == loopSet' = FALSE

LeaveLoop == /\ life = "func"
             /\ pc = "stopped"
             /\ life' = "locked"
             /\ ResetLoop
             /\ UNCHANGED <<vars, opc, otherQuit>>

(* The unlock and ~EventLoop: what is still queued is never executed. *)
EndThread == /\ life = "locked"
             /\ life' = "ended"
             /\ UNCHANGED <<vars, opc, loopSet, otherQuit>>

-----------------------------------------------------------------------------
(* The users of the loop: the owner and the threads it gave the pointer;   *)
(* they begin no call on a loop that has been destroyed.                   *)

UseLoop(t) == /\ opc = "have"
              /\ life = "func"
              /\ \/ QueueInLoop(t) /\ UNCHANGED otherQuit
                 \/ Quit(t) /\ otherQuit' = TRUE
              /\ UNCHANGED <<opc, life, loopSet>>

EndCall(t) == /\ t = Owner => opc = "have"
              /\ Wakeup(t)
              /\ UNCHANGED threadVars

DescriptorReady == IoEvent /\ UNCHANGED threadVars

-----------------------------------------------------------------------------
(* ~EventLoopThread.                                                       *)

(* loop_ is read without mutex_.  If it is null there is no join: ~Thread  *)
(* detaches the thread.                                                    *)
DtorReadsLoop == /\ opc = "have"
                 /\ tpc[Owner] = "idle"
                 /\ opc' = IF loopSet THEN "quit" ELSE "gone"
                 /\ UNCHANGED <<vars, life, loopSet, otherQuit>>

DtorQuits == /\ OwnerGoes("quit", "wake")
             /\ Quit(Owner)
             /\ UNCHANGED <<life, loopSet, otherQuit>>

(* Mutants: quit() without its wakeup; a destructor that does not join. *)
NoWakeup == /\ OwnerGoes("wake", "join")
            /\ tpc' = [tpc EXCEPT ![Owner] = "idle"]
            /\ UNCHANGED <<loopVars, quit, pending, wakeupFd, ioReady, posted, initPosted>>
            /\ UNCHANGED <<life, loopSet, otherQuit>>
NoJoin   == /\ OwnerGoes("join", "gone")
            /\ UNCHANGED <<vars, life, loopSet, otherQuit>>

DtorWakes == /\ OwnerGoes("wake", "join")
             /\ Wakeup(Owner)
             /\ UNCHANGED <<life, loopSet, otherQuit>>

DtorJoins == /\ OwnerGoes("join", "gone")
             /\ life = "ended"
             /\ UNCHANGED <<vars, life, loopSet, otherQuit>>

-----------------------------------------------------------------------------
LoopThreadStep == SemPost \/ InThreadFunc \/ LeaveLoop \/ EndThread

(* What the owner does once it has begun to start or to destroy the loop. *)
OwnerStep == \/ CreateThread \/ SemWait \/ LoopIsThere
             \/ DtorQuits \/ DtorWakes \/ DtorJoins

LTNext == \/ LoopThreadStep
          \/ InPollTimeout
          \/ InUserCode
          \/ OwnerStep
          \/ DtorReadsLoop
          \/ DescriptorReady
          \/ \E t \in Threads : UseLoop(t) \/ EndCall(t)

LTSpec == LTInit /\ [][LTNext]_allVars

(* The scheduler runs the loop's thread and the owner and finishes every   *)
(* call to queueInLoop and quit; user callbacks return.  Nothing is        *)
(* assumed about the timeout of epoll_wait.                                *)
LTFairness == /\ WF_allVars(LoopThreadStep)
              /\ WF_allVars(OwnerStep)
              /\ \A t \in Threads : WF_allVars(EndCall(t))

LTFairSpec == LTSpec /\ LTFairness

(* epoll_wait also returns after POLLTIMEMS when nothing happens. *)
LTTimedSpec == LTFairSpec /\ WF_allVars(InPollTimeout)

-----------------------------------------------------------------------------
LTTypeOK == /\ opc \in {"start", "sem", "cond", "have", "quit", "wake", "join", "gone"}
            /\ life \in {"none", "born", "func", "locked", "ended"}
            /\ loopSet \in BOOLEAN
            /\ otherQuit \in BOOLEAN

(* Every step of the composition is a step of EventLoop or leaves it       *)
(* alone: what is shown of EventLoop holds of the loops of the pool.       *)
ImplementsEventLoop == Spec

(***************************************************************************)
(* loop_ never dangles, though the loop lives on the stack of threadFunc:  *)
(* while it is set the EventLoop exists and is known to have been made.    *)
(***************************************************************************)
LoopPointerValid == loopSet => life = "func" /\ pc # "init"

(***************************************************************************)
(* The EventLoopThread, whose members threadFunc uses, outlives its        *)
(* thread, and the loop that ~EventLoopThread is about to quit still       *)
(* exists, unless the loop was told to quit by somebody else before.       *)
(***************************************************************************)
OwnerOutlivesThread ==
    ~otherQuit => /\ opc = "gone" => life = "ended"
                  /\ opc = "quit" => life = "func"

(***************************************************************************)
(* EventLoopThreadPool::start gets through the semaphore and the condition *)
(* variable, unless the loop has quit before startLoop looks: then loop_   *)
(* is null again and startLoop waits for ever.                             *)
(***************************************************************************)
StartReturns == (opc = "start") ~> (opc = "have" \/ otherQuit)

(***************************************************************************)
(* ~EventLoopThread, and with it ~TcpServer, returns without the help of   *)
(* the poll timeout, if loop() had been entered when it began.             *)
(***************************************************************************)
DestructorReturns ==
    (opc = "quit" /\ pc # "published") ~> (opc = "gone")

(* ~EventLoopThread returns, as its quit() and join() intend. *)
DestructorAlwaysReturns == (opc = "quit") ~> (opc = "gone")
=============================================================================
