-------------------------- MODULE LoopThreadProofs --------------------------
(***************************************************************************)
(* Theorems about LoopThread, for any set of threads and any number of     *)
(* functors: the loops of the pool behave as EventLoop says, loop_ never   *)
(* dangles, and an EventLoopThread outlives its thread.                    *)
(***************************************************************************)
EXTENDS LoopThread, EventLoopProofs, TLAPS

(* A step of the composition is a step of EventLoop, or none of its.       *)
LEMMA StepIsLoopStep == LTNext => [Next]_vars
<1> SUFFICES ASSUME LTNext PROVE [Next]_vars
  OBVIOUS
<1>1. CASE LoopThreadStep
  BY <1>1 DEF LoopThreadStep, SemPost, InThreadFunc, LeaveLoop, EndThread, Next
<1>2. CASE InPollTimeout
  BY <1>2 DEF InPollTimeout, Next
<1>3. CASE InUserCode
  BY <1>3 DEF InUserCode, Next
<1>4. CASE OwnerStep
  BY <1>4, OwnerAssumption DEF OwnerStep, CreateThread, SemWait, LoopIsThere, DtorQuits,
     DtorWakes, DtorJoins, Next, ThreadStep
<1>5. CASE DtorReadsLoop
  BY <1>5 DEF DtorReadsLoop
<1>6. CASE DescriptorReady
  BY <1>6 DEF DescriptorReady, Next
<1>7. ASSUME NEW t \in Threads, UseLoop(t) \/ EndCall(t) PROVE [Next]_vars
  BY <1>7 DEF UseLoop, EndCall, Next, ThreadStep
<1> QED
  BY <1>1, <1>2, <1>3, <1>4, <1>5, <1>6, <1>7 DEF LTNext

(***************************************************************************)
(* A loop of the pool, between startLoop and the destructor, implements    *)
(* EventLoop.                                                              *)
(***************************************************************************)
THEOREM LoopThreadImplements == LTSpec => ImplementsEventLoop
<1>1. LTInit => Init
  BY DEF LTInit
<1>2. [LTNext]_allVars => [Next]_vars
  BY StepIsLoopStep DEF allVars
<1> QED
  BY <1>1, <1>2, PTL DEF LTSpec, ImplementsEventLoop, Spec

(* What EventLoop guarantees, no functor behind a blocked epoll_wait, is   *)
(* therefore guaranteed by every loop of the pool.                         *)
THEOREM NoLostWakeupInPool == LTSpec => []NoSleepOnWork
  BY LoopThreadImplements, NoLostWakeup, PTL DEF ImplementsEventLoop

(* So does every loop of the pool implement the queue of TaskQueue, until  *)
(* its EventLoopThread is destroyed.                                       *)
THEOREM PoolLoopIsTaskQueue == LTSpec => ImplementsTaskQueue
  BY LoopThreadImplements, LoopIsTaskQueue, PTL DEF ImplementsEventLoop

-----------------------------------------------------------------------------
(* loop() does not stop by itself: until the destructor calls quit(), and  *)
(* nobody else does, quit_ is false.                                       *)
NotToldToQuit == ~otherQuit /\ opc \in {"start", "sem", "cond", "have", "quit"}
                    => ~quit /\ pc # "stopped"

(* Once startLoop has returned loop_ is set, until then. *)
LoopSetForOwner == ~otherQuit /\ opc \in {"have", "quit"} => loopSet

(* The inductive invariant. *)
LTInv == LTTypeOK /\ LoopPointerValid /\ NotToldToQuit /\ LoopSetForOwner
         /\ OwnerOutlivesThread

(* No step of the loop's thread goes back to before the publication, and   *)
(* it stops only if it was told to.                                        *)
LEMMA LoopStepPc == LoopStep => /\ pc' # "init"
                                /\ pc' = "stopped" => quit
                                /\ quit' => quit
  BY DEF LoopStep, Publish, EnterLoop, TestQuit, PollReturns, HandleWakeup, HandleIo,
     HandlerReturns, StartPending, SwapFunctors, RunFunctor, FunctorReturns, EndPending, Goto

LEMMA LTInitInv == LTInit => LTInv
  BY DEF LTInit, Init, LTInv, LTTypeOK, LoopPointerValid, NotToldToQuit, LoopSetForOwner,
     OwnerOutlivesThread

(* No call of a user tells the loop anything but to quit, and none moves   *)
(* the loop's thread.                                                      *)
LEMMA CallPc == ASSUME NEW t \in Threads
                PROVE  /\ QueueInLoop(t) => UNCHANGED <<pc, quit>>
                       /\ Quit(t) => UNCHANGED pc
                       /\ Wakeup(t) => UNCHANGED <<pc, quit>>
  BY DEF QueueInLoop, Quit, Wakeup, loopVars

LEMMA OwnCallPc == /\ QueueInOwnLoop => UNCHANGED <<pc, quit>>
                   /\ QuitOwnLoop => UNCHANGED pc
                   /\ PollTimeout => UNCHANGED quit /\ pc' = "dispatch"
                   /\ IoEvent => UNCHANGED <<pc, quit>>
  BY DEF QueueInOwnLoop, QuitOwnLoop, PollTimeout, IoEvent, loopVars, Goto

LEMMA LTNextInv == LTInv /\ [LTNext]_allVars => LTInv'
<1> SUFFICES ASSUME LTInv, [LTNext]_allVars PROVE LTInv'
  OBVIOUS
<1> USE DEF LTInv, LTTypeOK, LoopPointerValid, NotToldToQuit, LoopSetForOwner,
            OwnerOutlivesThread, OwnerGoes
<1>1. CASE UNCHANGED allVars
  BY <1>1 DEF allVars, vars, threadVars
<1>2. CASE CreateThread
  BY <1>2 DEF CreateThread, vars
<1>3. CASE SemPost
  BY <1>3 DEF SemPost, vars
<1>4. CASE SemWait
  BY <1>4 DEF SemWait, vars
<1>5. CASE LoopIsThere
  BY <1>5 DEF LoopIsThere, vars
<1>6. CASE InThreadFunc
  BY <1>6, LoopStepPc DEF InThreadFunc, SetLoop
<1>7. CASE InPollTimeout
  BY <1>7, OwnCallPc DEF InPollTimeout, threadVars
<1>8. CASE InUserCode
  <2>1. CASE QueueInOwnLoop /\ UNCHANGED otherQuit
    BY <1>8, <2>1, OwnCallPc DEF InUserCode
  <2>2. CASE QuitOwnLoop /\ otherQuit' = TRUE
    BY <1>8, <2>2, OwnCallPc DEF InUserCode
  <2> QED
    BY <1>8, <2>1, <2>2 DEF InUserCode
<1>9. CASE LeaveLoop
  BY <1>9 DEF LeaveLoop, ResetLoop, vars
<1>10. CASE EndThread
  BY <1>10 DEF EndThread, vars
<1>11. CASE \E t \in Threads : UseLoop(t) \/ EndCall(t)
  <2>1. PICK t \in Threads : UseLoop(t) \/ EndCall(t)
    BY <1>11
  <2>2. CASE UseLoop(t)
    BY <2>2, CallPc DEF UseLoop
  <2>3. CASE EndCall(t)
    BY <2>3, CallPc DEF EndCall, threadVars
  <2> QED
    BY <2>1, <2>2, <2>3
<1>12. CASE DescriptorReady
  BY <1>12, OwnCallPc DEF DescriptorReady, threadVars
<1>13. CASE DtorReadsLoop
  BY <1>13 DEF DtorReadsLoop, vars
<1>14. CASE DtorQuits
  BY <1>14, CallPc, OwnerAssumption DEF DtorQuits
<1>15. CASE DtorWakes
  BY <1>15, CallPc, OwnerAssumption DEF DtorWakes
<1>16. CASE DtorJoins
  BY <1>16 DEF DtorJoins, vars
<1> QED
  BY <1>1, <1>2, <1>3, <1>4, <1>5, <1>6, <1>7, <1>8, <1>9, <1>10, <1>11, <1>12, <1>13,
     <1>14, <1>15, <1>16 DEF LTNext, LoopThreadStep, OwnerStep

(***************************************************************************)
(* The invariant holds of every EventLoopThread: what loop_ points to, and *)
(* that a loop nobody told to quit runs until ~EventLoopThread does.       *)
(***************************************************************************)
THEOREM LTInvariant == LTSpec => []LTInv
  BY LTInitInv, LTNextInv, PTL DEF LTSpec

(***************************************************************************)
(* loop_ of an EventLoopThread never points to a loop that does not exist, *)
(* for any number of threads that use the loop.                            *)
(***************************************************************************)
THEOREM LoopPointerNeverDangles == LTSpec => []LoopPointerValid
<1>1. LTInv => LoopPointerValid
  BY DEF LTInv
<1> QED
  BY <1>1, LTInvariant, PTL

(***************************************************************************)
(* ~EventLoopThread finds the loop it quits, and the EventLoopThread does  *)
(* not go before its thread has ended, unless somebody else told the loop  *)
(* to quit.                                                                *)
(***************************************************************************)
THEOREM OwnerGoesLast == LTSpec => []OwnerOutlivesThread
<1>1. LTInv => OwnerOutlivesThread
  BY DEF LTInv
<1> QED
  BY <1>1, LTInvariant, PTL
=============================================================================
