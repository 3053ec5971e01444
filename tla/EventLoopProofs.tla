--------------------------- MODULE EventLoopProofs ---------------------------
(***************************************************************************)
(* Proofs about EventLoop, for any set of threads and any number of        *)
(* functors.                                                               *)
(***************************************************************************)
EXTENDS EventLoop, SequenceTheorems, TLAPS

(* callingPendingFuntors_ is set exactly while doPendingFunctions runs. *)
CallingWhilePending == calling <=> pc \in {"swap", "run", "functor"}

(* The local vector holds functors only between the swap and its end. *)
SwappedWhileRunning == functors # <<>> => pc \in {"run", "functor"}

(* Only the init callback queues anything before the loop is published. *)
InitOwnsQueue == pc = "init" => initPosted = posted

(* A functor that the init callback did not queue is announced unless the  *)
(* loop thread is on its way to the swap, past epoll_wait.                 *)
Announced == (/\ pc \notin {"dispatch", "handler", "swap"}
              /\ \E i \in 1..Len(pending) : pending[i] > initPosted)
             => WakeupPending

IInv == /\ TypeOK
        /\ CallingWhilePending
        /\ SwappedWhileRunning
        /\ InitOwnsQueue
        /\ ExactlyOnceInOrder
        /\ Announced

-----------------------------------------------------------------------------
(* The variables of EventLoop keep their types: Spec => []TypeOK.          *)
LEMMA TypeInit == Init => TypeOK
<1> SUFFICES ASSUME Init PROVE TypeOK
  OBVIOUS
<1> USE DEF Init
<1>1. posted \in 0..MaxPosts /\ initPosted \in 0..posted
  BY MaxPostsAssumption
<1>2. pending \in Seq(Nat) /\ functors \in Seq(Nat) /\ executed \in Seq(Nat)
  OBVIOUS
<1>3. tpc \in [Threads -> {"idle", "wake"}]
  OBVIOUS
<1>4. QED BY <1>1, <1>2, <1>3 DEF TypeOK, PcValues, Channels

(* Every step of the loop and of the other threads keeps the types. *)
LEMMA TypeStep == TypeOK /\ [Next]_vars => TypeOK'
<1> SUFFICES ASSUME TypeOK, [Next]_vars PROVE TypeOK'
  OBVIOUS
<1> USE DEF TypeOK, PcValues, Channels, loopVars
<1>1. CASE LoopStep
  <2>1. CASE Publish \/ EnterLoop \/ TestQuit
    BY <2>1 DEF Publish, EnterLoop, TestQuit, Goto
  <2>2. CASE PollReturns
    BY <2>2 DEF PollReturns, Ready, Goto
  <2>3. CASE HandleWakeup \/ HandleIo \/ HandlerReturns
    BY <2>3 DEF HandleWakeup, HandleIo, HandlerReturns, Goto
  <2>4. CASE StartPending \/ SwapFunctors
    BY <2>4 DEF StartPending, SwapFunctors, Goto
  <2>5. CASE RunFunctor
    BY <2>5 DEF RunFunctor, Goto
  <2>6. CASE FunctorReturns \/ EndPending
    BY <2>6 DEF FunctorReturns, EndPending, Goto
  <2>7. QED BY <1>1, <2>1, <2>2, <2>3, <2>4, <2>5, <2>6 DEF LoopStep
<1>2. CASE PollTimeout
  BY <1>2 DEF PollTimeout, Goto
<1>3. CASE QueueInOwnLoop
  BY <1>3, MaxPostsAssumption DEF QueueInOwnLoop, EmplaceBack, WakeupInLoopThread
<1>4. CASE QuitOwnLoop
  BY <1>4 DEF QuitOwnLoop
<1>5. CASE IoEvent
  BY <1>5 DEF IoEvent
<1>6. ASSUME NEW t \in Threads, ThreadStep(t) PROVE TypeOK'
  <2>1. CASE QueueInLoop(t)
    BY <2>1, MaxPostsAssumption DEF QueueInLoop, EmplaceBack
  <2>2. CASE Quit(t)
    BY <2>2 DEF Quit
  <2>3. CASE Wakeup(t)
    BY <2>3 DEF Wakeup
  <2>4. QED BY <1>6, <2>1, <2>2, <2>3 DEF ThreadStep
<1>7. CASE UNCHANGED vars
  BY <1>7 DEF vars
<1>8. QED BY <1>1, <1>2, <1>3, <1>4, <1>5, <1>6, <1>7 DEF Next

(* Type correctness of the loop for any set of threads. *)
THEOREM TypeCorrect == Spec => []TypeOK
<1>1. QED BY TypeInit, TypeStep, PTL DEF Spec

-----------------------------------------------------------------------------
(* Where the loop thread is, as far as the flags and vectors show it.      *)
Flags == CallingWhilePending /\ SwappedWhileRunning /\ InitOwnsQueue

(* callingPendingFuntors_ and the local vector follow the place of the loop. *)
LEMMA FlagsStep == TypeOK /\ Flags /\ [Next]_vars => Flags'
<1> SUFFICES ASSUME TypeOK, Flags, [Next]_vars PROVE Flags'
  OBVIOUS
<1> USE DEF TypeOK, Flags, CallingWhilePending, SwappedWhileRunning,
            InitOwnsQueue, loopVars
<1>1. CASE LoopStep
  <2>1. CASE Publish \/ EnterLoop \/ TestQuit
    BY <2>1 DEF Publish, EnterLoop, TestQuit, Goto
  <2>2. CASE PollReturns \/ HandleWakeup \/ HandleIo \/ HandlerReturns
    BY <2>2 DEF PollReturns, HandleWakeup, HandleIo, HandlerReturns, Goto
  <2>3. CASE StartPending
    BY <2>3 DEF StartPending, Goto
  <2>4. CASE SwapFunctors
    BY <2>4 DEF SwapFunctors, Goto
  <2>5. CASE RunFunctor
    BY <2>5 DEF RunFunctor, Goto
  <2>6. CASE FunctorReturns
    BY <2>6 DEF FunctorReturns, Goto
  <2>7. CASE EndPending
    BY <2>7 DEF EndPending, Goto
  <2>8. QED BY <1>1, <2>1, <2>2, <2>3, <2>4, <2>5, <2>6, <2>7 DEF LoopStep
<1>2. CASE PollTimeout
  BY <1>2 DEF PollTimeout, Goto
<1>3. CASE QueueInOwnLoop
  BY <1>3 DEF QueueInOwnLoop, EmplaceBack
<1>4. CASE QuitOwnLoop
  BY <1>4 DEF QuitOwnLoop
<1>5. CASE IoEvent
  BY <1>5 DEF IoEvent
<1>6. ASSUME NEW t \in Threads, ThreadStep(t) PROVE Flags'
  BY <1>6 DEF ThreadStep, QueueInLoop, EmplaceBack, Quit, Wakeup
<1>7. CASE UNCHANGED vars
  BY <1>7 DEF vars
<1>8. QED BY <1>1, <1>2, <1>3, <1>4, <1>5, <1>6, <1>7 DEF Next

-----------------------------------------------------------------------------
(* The queue as one list: executed, then functors, then pending.           *)

(* Appending the next number to pending keeps the order. *)
LEMMA OrderEmplace ==
  TypeOK /\ ExactlyOnceInOrder /\ EmplaceBack /\ UNCHANGED <<executed, functors>>
    => ExactlyOnceInOrder'
<1> SUFFICES ASSUME TypeOK, ExactlyOnceInOrder, EmplaceBack,
                    UNCHANGED <<executed, functors>>
             PROVE ExactlyOnceInOrder'
  OBVIOUS
<1>1. posted \in Nat /\ pending \in Seq(Nat) /\ functors \in Seq(Nat)
      /\ executed \in Seq(Nat)
  BY MaxPostsAssumption DEF TypeOK
<1>2. Len(pending') = Len(pending) + 1 /\ posted' = posted + 1
      /\ pending'[Len(pending) + 1] = posted + 1
      /\ \A i \in 1..Len(pending) : pending'[i] = pending[i]
  BY <1>1 DEF EmplaceBack
<1>3. /\ Len(executed) + Len(functors) + Len(pending) = posted
      /\ \A i \in 1..Len(pending) : pending[i] = Len(executed) + Len(functors) + i
  BY DEF ExactlyOnceInOrder
<1>4. Len(executed') + Len(functors') + Len(pending') = posted'
  BY <1>1, <1>2, <1>3
<1>5. ASSUME NEW i \in 1..Len(pending')
      PROVE pending'[i] = Len(executed') + Len(functors') + i
  <2>1. CASE i = Len(pending) + 1
    <3>1. pending'[i] = posted + 1
      BY <1>2, <2>1
    <3>2. QED BY <1>1, <1>3, <2>1, <3>1
  <2>2. CASE i \in 1..Len(pending)
    BY <1>1, <1>2, <1>3, <2>2
  <2>3. QED BY <1>1, <1>2, <2>1, <2>2
<1>6. QED BY <1>4, <1>5 DEF ExactlyOnceInOrder

(* functors.swap moves the whole queue into an empty vector: order kept. *)
LEMMA OrderSwap ==
  TypeOK /\ Flags /\ ExactlyOnceInOrder /\ SwapFunctors => ExactlyOnceInOrder'
<1> SUFFICES ASSUME TypeOK, Flags, ExactlyOnceInOrder, SwapFunctors
             PROVE ExactlyOnceInOrder'
  OBVIOUS
<1>1. functors = <<>>
  BY DEF Flags, SwappedWhileRunning, SwapFunctors, Goto
<1>2. functors' = pending /\ pending' = <<>> /\ UNCHANGED <<executed, posted>>
  BY <1>1 DEF SwapFunctors
<1>3. QED BY <1>1, <1>2 DEF TypeOK, ExactlyOnceInOrder

(* Starting the head of the swapped vector keeps the order. *)
LEMMA OrderRun ==
  TypeOK /\ ExactlyOnceInOrder /\ RunFunctor => ExactlyOnceInOrder'
<1> SUFFICES ASSUME TypeOK, ExactlyOnceInOrder, RunFunctor
             PROVE ExactlyOnceInOrder'
  OBVIOUS
<1>1. posted \in Nat /\ pending \in Seq(Nat) /\ functors \in Seq(Nat)
      /\ executed \in Seq(Nat) /\ functors # <<>>
  BY MaxPostsAssumption DEF TypeOK, RunFunctor
<1>2. Len(functors') = Len(functors) - 1
      /\ \A i \in 1..Len(functors) - 1 : functors'[i] = functors[i + 1]
  BY <1>1 DEF RunFunctor
<1>3. Len(functors) > 0 /\ Head(functors) = functors[1]
  BY <1>1
<1>4. Len(executed') = Len(executed) + 1
      /\ executed'[Len(executed) + 1] = functors[1]
      /\ \A i \in 1..Len(executed) : executed'[i] = executed[i]
  BY <1>1, <1>3 DEF RunFunctor
<1>5. UNCHANGED <<pending, posted>>
  BY DEF RunFunctor
<1>6. /\ Len(executed) + Len(functors) + Len(pending) = posted
      /\ \A i \in 1..Len(executed) : executed[i] = i
      /\ \A i \in 1..Len(functors) : functors[i] = Len(executed) + i
      /\ \A i \in 1..Len(pending) : pending[i] = Len(executed) + Len(functors) + i
  BY DEF ExactlyOnceInOrder
<1>7. Len(executed') + Len(functors') = Len(executed) + Len(functors)
  BY <1>1, <1>2, <1>4
<1>8. Len(executed') + Len(functors') + Len(pending') = posted'
  BY <1>5, <1>6, <1>7
<1>9. ASSUME NEW i \in 1..Len(executed') PROVE executed'[i] = i
  <2>1. CASE i = Len(executed) + 1
    <3>1. functors[1] = Len(executed) + 1
      BY <1>1, <1>3, <1>6
    <3>2. executed'[i] = functors[1]
      BY <1>4, <2>1
    <3>3. QED BY <2>1, <3>1, <3>2
  <2>2. CASE i \in 1..Len(executed)
    BY <1>4, <1>6, <2>2
  <2>3. i \in 1..Len(executed) + 1 /\ Len(executed) \in Nat
    BY <1>1, <1>4
  <2>4. QED BY <2>1, <2>2, <2>3
<1>10. ASSUME NEW i \in 1..Len(functors') PROVE functors'[i] = Len(executed') + i
  <2>1. i \in 1..Len(functors) - 1 /\ i + 1 \in 1..Len(functors)
    BY <1>1, <1>2
  <2>2. functors'[i] = functors[i + 1] /\ functors[i + 1] = Len(executed) + i + 1
    BY <1>1, <1>2, <1>6, <2>1
  <2>3. QED BY <1>1, <1>4, <2>1, <2>2
<1>11. ASSUME NEW i \in 1..Len(pending')
       PROVE pending'[i] = Len(executed') + Len(functors') + i
  BY <1>5, <1>6, <1>7
<1>12. QED BY <1>8, <1>9, <1>10, <1>11 DEF ExactlyOnceInOrder

(* No step loses, duplicates or reorders a functor. *)
LEMMA OrderStep ==
  TypeOK /\ Flags /\ ExactlyOnceInOrder /\ [Next]_vars => ExactlyOnceInOrder'
<1> SUFFICES ASSUME TypeOK, Flags, ExactlyOnceInOrder, [Next]_vars
             PROVE ExactlyOnceInOrder'
  OBVIOUS
<1>1. CASE SwapFunctors
  BY <1>1, OrderSwap
<1>2. CASE RunFunctor
  BY <1>2, OrderRun
<1>3. CASE QueueInOwnLoop
  BY <1>3, OrderEmplace DEF QueueInOwnLoop, loopVars
<1>4. ASSUME NEW t \in Threads, QueueInLoop(t) PROVE ExactlyOnceInOrder'
  BY <1>4, OrderEmplace DEF QueueInLoop, loopVars
<1>5. CASE UNCHANGED <<executed, functors, pending, posted>>
  BY <1>5 DEF ExactlyOnceInOrder
<1>6. ASSUME NEW t \in Threads, Quit(t) \/ Wakeup(t) PROVE ExactlyOnceInOrder'
  BY <1>6, <1>5 DEF Quit, Wakeup, loopVars
<1>7. CASE \/ Publish \/ EnterLoop \/ TestQuit \/ PollReturns \/ HandleWakeup
           \/ HandleIo \/ HandlerReturns \/ StartPending \/ FunctorReturns
           \/ EndPending \/ PollTimeout \/ QuitOwnLoop \/ IoEvent
           \/ UNCHANGED vars
  BY <1>7, <1>5 DEF Publish, EnterLoop, TestQuit, PollReturns, HandleWakeup,
       HandleIo, HandlerReturns, StartPending, FunctorReturns, EndPending,
       PollTimeout, QuitOwnLoop, IoEvent, vars, loopVars
<1>8. QED
  BY <1>1, <1>2, <1>3, <1>4, <1>6, <1>7 DEF Next, LoopStep, ThreadStep

-----------------------------------------------------------------------------
(* Nobody sleeps on announced work.                                        *)
LEMMA AnnouncedStep ==
  TypeOK /\ Flags /\ ExactlyOnceInOrder /\ Announced /\ [Next]_vars => Announced'
<1> SUFFICES ASSUME TypeOK, Flags, ExactlyOnceInOrder, Announced, [Next]_vars
             PROVE Announced'
  OBVIOUS
<1> USE DEF Announced, WakeupPending
<1>1. CASE UNCHANGED <<pending, initPosted, wakeupFd, tpc>>
           /\ (pc' \in {"dispatch", "handler", "swap"}
               \/ pc \notin {"dispatch", "handler", "swap"})
  BY <1>1
<1>2. CASE LoopStep
  <2>1. CASE SwapFunctors
    <3>1. pending' = <<>>
      BY <2>1 DEF SwapFunctors, Goto, Flags, SwappedWhileRunning
    <3>2. QED BY <3>1
  <2>2. CASE HandleWakeup
    BY <2>2 DEF HandleWakeup, Goto
  <2>3. CASE \/ Publish \/ EnterLoop \/ TestQuit \/ PollReturns \/ HandleIo
             \/ HandlerReturns \/ StartPending \/ RunFunctor
             \/ FunctorReturns \/ EndPending
    BY <2>3, <1>1 DEF Publish, EnterLoop, TestQuit, PollReturns, HandleIo,
         HandlerReturns, StartPending, RunFunctor, FunctorReturns, EndPending, Goto
  <2>4. QED BY <1>2, <2>1, <2>2, <2>3 DEF LoopStep
<1>3. CASE PollTimeout \/ QuitOwnLoop \/ IoEvent \/ UNCHANGED vars
  BY <1>1, <1>3 DEF PollTimeout, QuitOwnLoop, IoEvent, Goto, vars, loopVars
<1>4. CASE QueueInOwnLoop
  <2>1. CASE pc = "init"
    <3>1. initPosted' = posted + 1
      BY <1>4, <2>1 DEF QueueInOwnLoop
    <3>2. ASSUME NEW i \in 1..Len(pending') PROVE pending'[i] <= posted + 1
      BY <1>4 DEF QueueInOwnLoop, EmplaceBack, TypeOK, ExactlyOnceInOrder
    <3>3. QED BY <1>4, <3>1, <3>2, MaxPostsAssumption
                 DEF QueueInOwnLoop, EmplaceBack, TypeOK
  <2>2. CASE pc = "handler"
    BY <1>4, <2>2 DEF QueueInOwnLoop, loopVars
  <2>3. CASE pc = "functor"
    BY <1>4, <2>3 DEF QueueInOwnLoop, WakeupInLoopThread, Flags, CallingWhilePending
  <2>4. QED BY <1>4, <2>1, <2>2, <2>3 DEF QueueInOwnLoop, UserCode
<1>5. ASSUME NEW t \in Threads, ThreadStep(t) PROVE Announced'
  <2>1. CASE QueueInLoop(t) \/ Quit(t)
    <3>1. tpc'[t] = "wake"
      BY <2>1 DEF QueueInLoop, Quit, TypeOK
    <3>2. QED BY <3>1
  <2>2. CASE Wakeup(t)
    BY <2>2 DEF Wakeup
  <2>3. QED BY <1>5, <2>1, <2>2 DEF ThreadStep
<1>6. QED BY <1>2, <1>3, <1>4, <1>5 DEF Next

-----------------------------------------------------------------------------
(* The loop object of threadFunc starts in the inductive invariant. *)
LEMMA InvInit == Init => IInv
<1> SUFFICES ASSUME Init PROVE IInv
  OBVIOUS
<1>1. TypeOK
  BY TypeInit
<1>2. CallingWhilePending /\ SwappedWhileRunning /\ InitOwnsQueue
  BY DEF Init, CallingWhilePending, SwappedWhileRunning, InitOwnsQueue
<1>3. Len(pending) = 0 /\ Len(functors) = 0 /\ Len(executed) = 0 /\ posted = 0
  BY DEF Init
<1>4. ExactlyOnceInOrder /\ Announced
  BY <1>3 DEF ExactlyOnceInOrder, Announced
<1>5. QED BY <1>1, <1>2, <1>4 DEF IInv

(* The inductive invariant is kept by every step of queueInLoop, quit and loop. *)
LEMMA InvStep == IInv /\ [Next]_vars => IInv'
  BY TypeStep, FlagsStep, OrderStep, AnnouncedStep DEF IInv, Flags

(* The inductive invariant of EventLoop. *)
LEMMA Invariance == Spec => []IInv
  BY InvInit, InvStep, PTL DEF Spec

(* For any number of threads, no functor queued through the published loop *)
(* waits behind a blocked epoll_wait.                                      *)
THEOREM NoLostWakeup == Spec => []NoSleepOnWork
<1>1. IInv => NoSleepOnWork
  BY DEF IInv, Announced, NoSleepOnWork
<1>2. QED BY <1>1, Invariance, PTL

(* For any number of threads and functors, each functor is started at most *)
(* once, in the order of arrival, and none is lost between the queue, the  *)
(* swapped vector and the execution.                                       *)
THEOREM ExactlyOnce == Spec => []ExactlyOnceInOrder
<1>1. IInv => ExactlyOnceInOrder
  BY DEF IInv
<1>2. QED BY <1>1, Invariance, PTL

-----------------------------------------------------------------------------
(* The refinement of TaskQueue.                                            *)

(* Starting the head of the first of two sequences starts the head of      *)
(* their concatenation.                                                    *)
LEMMA HeadOfConcat ==
  ASSUME NEW s \in Seq(Nat), NEW t \in Seq(Nat), s # <<>>
  PROVE  /\ s \o t # <<>>
         /\ Head(s \o t) = Head(s)
         /\ Tail(s \o t) = Tail(s) \o t
<1>1. /\ s \o t \in Seq(Nat) /\ Len(s \o t) = Len(s) + Len(t)
      /\ \A i \in 1..(Len(s) + Len(t)) :
            (s \o t)[i] = IF i <= Len(s) THEN s[i] ELSE t[i - Len(s)]
  BY ConcatProperties
<1>2. Len(s) \in Nat \ {0} /\ Len(t) \in Nat
  BY EmptySeq
<1>3. s \o t # <<>>
  BY <1>1, <1>2
<1>4. Head(s \o t) = Head(s)
  <2>1. (s \o t)[1] = s[1]
    BY <1>1, <1>2
  <2>2. QED BY <1>1, <1>3, <2>1
<1>5. /\ Tail(s) \in Seq(Nat) /\ Len(Tail(s)) = Len(s) - 1
      /\ \A i \in 1..Len(Tail(s)) : Tail(s)[i] = s[i + 1]
  BY HeadTailProperties
<1>6. /\ Tail(s \o t) \in Seq(Nat) /\ Len(Tail(s \o t)) = Len(s \o t) - 1
      /\ \A i \in 1..Len(Tail(s \o t)) : Tail(s \o t)[i] = (s \o t)[i + 1]
  BY <1>1, <1>3, HeadTailProperties
<1>7. /\ Tail(s) \o t \in Seq(Nat) /\ Len(Tail(s) \o t) = Len(Tail(s)) + Len(t)
      /\ \A i \in 1..(Len(Tail(s)) + Len(t)) :
            (Tail(s) \o t)[i] = IF i <= Len(Tail(s)) THEN Tail(s)[i] ELSE t[i - Len(Tail(s))]
  BY <1>5, ConcatProperties
<1>8. Len(Tail(s \o t)) = Len(Tail(s) \o t)
  BY <1>1, <1>2, <1>5, <1>6, <1>7
<1>9. ASSUME NEW i \in 1..Len(Tail(s \o t))
      PROVE Tail(s \o t)[i] = (Tail(s) \o t)[i]
  <2>1. /\ i \in Nat /\ i + 1 \in 1..(Len(s) + Len(t))
        /\ i \in 1..(Len(Tail(s)) + Len(t))
    BY <1>1, <1>2, <1>5, <1>6
  <2>2. Tail(s \o t)[i] = IF i + 1 <= Len(s) THEN s[i + 1] ELSE t[(i + 1) - Len(s)]
    BY <1>1, <1>6, <2>1
  <2>3. CASE i + 1 <= Len(s)
    <3>1. i \in 1..Len(Tail(s))
      BY <1>2, <1>5, <2>1, <2>3
    <3>2. (Tail(s) \o t)[i] = s[i + 1]
      BY <1>5, <1>7, <2>1, <3>1
    <3>3. QED BY <2>2, <2>3, <3>2
  <2>4. CASE ~(i + 1 <= Len(s))
    <3>1. ~(i <= Len(Tail(s))) /\ i - Len(Tail(s)) = (i + 1) - Len(s)
      BY <1>2, <1>5, <2>1, <2>4
    <3>2. (Tail(s) \o t)[i] = t[i - Len(Tail(s))]
      BY <1>7, <2>1, <3>1
    <3>3. QED BY <2>2, <2>4, <3>1, <3>2
  <2>5. QED BY <2>3, <2>4
<1>10. Tail(s \o t) = Tail(s) \o t
  BY <1>6, <1>7, <1>8, <1>9, SeqEqual
<1>11. QED BY <1>3, <1>4, <1>10

(* emplace_back is the Post of the abstract queue. *)
LEMMA EmplaceIsPost ==
  ASSUME IInv, EmplaceBack, UNCHANGED <<pc, functors, executed>>
  PROVE  Abstract!Post
<1>1. functors \in Seq(Nat) /\ pending \in Seq(Nat) /\ posted \in Nat
      /\ posted + 1 \in Nat
  BY MaxPostsAssumption DEF IInv, TypeOK
<1>2. Len(functors \o pending) = Len(functors) + Len(pending)
      /\ Len(functors) \in Nat /\ Len(pending) \in Nat /\ Len(executed) \in Nat
  BY <1>1, ConcatProperties DEF IInv, TypeOK
<1>3. Abstract!Arrived = posted
  BY <1>2 DEF Abstract!Arrived, IInv, ExactlyOnceInOrder
<1>4. functors \o Append(pending, posted + 1) = Append(functors \o pending, posted + 1)
  <2>1. Append(pending, posted + 1) = pending \o <<posted + 1>>
        /\ <<posted + 1>> \in Seq(Nat)
    BY <1>1, AppendIsConcat
  <2>2. functors \o pending \in Seq(Nat)
    BY <1>1, ConcatProperties
  <2>3. Append(functors \o pending, posted + 1) = (functors \o pending) \o <<posted + 1>>
    BY <1>1, <2>2, AppendIsConcat
  <2>4. (functors \o pending) \o <<posted + 1>> = functors \o (pending \o <<posted + 1>>)
    BY <1>1, <2>1, ConcatAssociative, SMTT(60)
  <2>5. QED BY <2>1, <2>3, <2>4
<1>5. functors' \o pending' = Append(functors \o pending, posted + 1)
  BY <1>4 DEF EmplaceBack
<1>6. posted < MaxPosts
  BY DEF EmplaceBack
<1>7. QED BY <1>3, <1>5, <1>6 DEF Abstract!Post

(* The swap moves functors within the abstract queue. *)
LEMMA SwapIsStutter ==
  ASSUME IInv, SwapFunctors
  PROVE  UNCHANGED Abstract!vars
<1>1. functors = <<>> /\ pending \in Seq(Nat)
  BY DEF IInv, TypeOK, SwappedWhileRunning, SwapFunctors, Goto
<1>2. <<>> \o pending = pending \o <<>>
  BY <1>1, ConcatEmptySeq
<1>3. functors' \o pending' = functors \o pending
  BY <1>1, <1>2 DEF SwapFunctors
<1>4. executed' = executed /\ (pc' # "stopped") = (pc # "stopped")
  BY DEF SwapFunctors, Goto
<1>5. QED BY <1>3, <1>4 DEF Abstract!vars

(* Starting the head of the local vector is the Run of the abstract queue. *)
LEMMA RunIsRun ==
  ASSUME IInv, RunFunctor
  PROVE  Abstract!Run
<1>1. functors \in Seq(Nat) /\ pending \in Seq(Nat) /\ functors # <<>>
  BY DEF IInv, TypeOK, RunFunctor
<1>2. /\ functors \o pending # <<>>
      /\ Head(functors \o pending) = Head(functors)
      /\ Tail(functors \o pending) = Tail(functors) \o pending
  BY <1>1, HeadOfConcat
<1>3. pc # "stopped" /\ (pc' # "stopped") = (pc # "stopped")
  BY DEF RunFunctor, Goto
<1>4. /\ executed' = Append(executed, Head(functors))
      /\ functors' = Tail(functors) /\ pending' = pending
  BY DEF RunFunctor
<1>5. QED BY <1>2, <1>3, <1>4 DEF Abstract!Run

(* Every step of the loop is a step of the abstract queue or invisible. *)
LEMMA RefinementStep == IInv /\ [Next]_vars => [Abstract!Next]_(Abstract!vars)
<1> SUFFICES ASSUME IInv, [Next]_vars PROVE [Abstract!Next]_(Abstract!vars)
  OBVIOUS
<1>1. CASE UNCHANGED <<functors, pending, executed>>
           /\ (pc' # "stopped") = (pc # "stopped")
  BY <1>1 DEF Abstract!vars
<1>2. CASE SwapFunctors
  BY <1>2, SwapIsStutter
<1>3. CASE RunFunctor
  BY <1>3, RunIsRun DEF Abstract!Next
<1>4. CASE QueueInOwnLoop
  BY <1>4, EmplaceIsPost DEF QueueInOwnLoop, loopVars, Abstract!Next
<1>5. ASSUME NEW t \in Threads, QueueInLoop(t) PROVE Abstract!Next
  BY <1>5, EmplaceIsPost DEF QueueInLoop, loopVars, Abstract!Next
<1>6. CASE TestQuit
  <2>1. CASE quit
    BY <1>6, <2>1 DEF TestQuit, Abstract!Next, Abstract!Close
  <2>2. CASE ~quit
    BY <1>1, <1>6, <2>2 DEF TestQuit
  <2>3. QED BY <2>1, <2>2
<1>7. CASE \/ Publish \/ EnterLoop \/ PollReturns \/ HandleWakeup \/ HandleIo
           \/ HandlerReturns \/ StartPending \/ FunctorReturns \/ EndPending
           \/ PollTimeout
  BY <1>1, <1>7 DEF Publish, EnterLoop, PollReturns, HandleWakeup, HandleIo,
     HandlerReturns, StartPending, FunctorReturns, EndPending, PollTimeout, Goto
<1>8. CASE QuitOwnLoop \/ IoEvent \/ UNCHANGED vars
  BY <1>1, <1>8 DEF QuitOwnLoop, IoEvent, vars, loopVars
<1>9. ASSUME NEW t \in Threads, Quit(t) \/ Wakeup(t)
      PROVE [Abstract!Next]_(Abstract!vars)
  BY <1>1, <1>9 DEF Quit, Wakeup, loopVars
<1>10. QED
  BY <1>2, <1>3, <1>4, <1>5, <1>6, <1>7, <1>8, <1>9 DEF Next, LoopStep, ThreadStep

(* For any number of threads and functors, the loop with its two vectors,  *)
(* its lock and its eventfd implements the queue of TaskQueue: what        *)
(* queueInLoop promises its callers.                                       *)
THEOREM LoopIsTaskQueue == Spec => ImplementsTaskQueue
<1>1. Init => Abstract!Init
  BY ConcatEmptySeq DEF Init, Abstract!Init
<1>2. QED
  BY <1>1, RefinementStep, Invariance, PTL
     DEF Spec, ImplementsTaskQueue, Abstract!Spec
=============================================================================
