-------------------------- MODULE AsyncWorkerProofs --------------------------
(***************************************************************************)
(* Proofs about AsyncWorker, for any set of producers, any sizes of the    *)
(* buffers, either mode and any number of messages.                        *)
(***************************************************************************)
EXTENDS AsyncWorker, SequenceTheorems, TLAPS

(* A buffer as far as the proofs look into it: nothing is said of its      *)
(* capacity, and its write position is 0 exactly when it has no message.   *)
ABuffer(b) == /\ b \in [size : Nat, pos : Nat, msgs : Seq(Nat)]
              /\ b.pos = 0 <=> b.msgs = <<>>

Types == /\ cpc \in {"lock", "sleep", "wait", "swap", "flush", "last", "done"}
         /\ ABuffer(productor)
         /\ ABuffer(consumer)
         /\ ppc \in [Producers -> {"idle", "wait", "woken"}]
         /\ plen \in [Producers -> Lengths \union {0}]
         /\ \A p \in Producers : ppc[p] # "idle" => plen[p] \in Lengths
         /\ len \in Seq(Lengths)
         /\ flushed \in Seq(Nat)
         /\ stopLen \in Nat

(* Where ThreadEntry holds mtx_ from one of its steps to the next. *)
LockHeld == mtx = "consumer" <=> cpc \in {"sleep", "swap", "last"}

(* The consumer's buffer has messages only between a swap and the reset    *)
(* that follows the callback.                                              *)
EmptyOutsideFlush == cpc \notin {"flush", "last"} => consumer.msgs = <<>>

(* The thread leaves only after stop_, and with an empty producers' buffer *)
(* in front of the last callback.                                          *)
LeavesStopped == /\ cpc \in {"last", "done"} => stop
                 /\ cpc = "last" => productor.msgs = <<>>
                 /\ stop => spc # "idle"

StopCounts == stopLen <= Len(len)

IInv == /\ Types
        /\ LockHeld
        /\ EmptyOutsideFlush
        /\ NoSleepOnData
        /\ LeavesStopped
        /\ StopCounts
        /\ FlushedInOrder
        /\ StopKeepsPushed

-----------------------------------------------------------------------------
(* Lemmas about the operators of the buffers.                              *)

(* Buffer::Push of a message keeps position and messages in step. *)
LEMMA PushKeepsBuffer ==
  ASSUME NEW b, ABuffer(b), NEW m \in Nat, NEW n \in Nat \ {0}
  PROVE  /\ ABuffer(BufferPush(b, m, n))
         /\ BufferPush(b, m, n).msgs = Append(b.msgs, m)
<1>1. ToBeEnough(b, n) \in Nat
  BY WorkerAssumption DEF ABuffer, ToBeEnough
<1>2. Append(b.msgs, m) \in Seq(Nat) /\ Append(b.msgs, m) # <<>>
  BY AppendProperties, SMTT(60) DEF ABuffer
<1>3. b.pos + n \in Nat /\ b.pos + n # 0
  BY DEF ABuffer
<1>4. QED BY <1>1, <1>2, <1>3 DEF ABuffer, BufferPush

(* Buffer::Reset leaves an empty buffer of the same capacity. *)
LEMMA ResetEmpties ==
  ASSUME NEW b, ABuffer(b)
  PROVE  /\ ABuffer(Reset(b))
         /\ Reset(b).msgs = <<>>
         /\ Reset(b).size = b.size
         /\ Reset(b).pos = 0
  BY DEF ABuffer, Reset

(* The numbers 1..n and the next one are the numbers 1..n+1. *)
LEMMA CountAppend ==
  ASSUME NEW n \in Nat
  PROVE  Append([i \in 1..n |-> i], n + 1) = [i \in 1..(n + 1) |-> i]
<1> DEFINE s == [i \in 1..n |-> i]
           t == [i \in 1..(n + 1) |-> i]
<1>1. s \in Seq(Nat) /\ Len(s) = n /\ t \in Seq(Nat) /\ Len(t) = n + 1
  OBVIOUS
<1>2. /\ Append(s, n + 1) \in Seq(Nat)
      /\ Len(Append(s, n + 1)) = n + 1
      /\ \A i \in 1..n : Append(s, n + 1)[i] = s[i]
      /\ Append(s, n + 1)[n + 1] = n + 1
  BY <1>1, AppendProperties
<1>3. \A i \in 1..(n + 1) : Append(s, n + 1)[i] = t[i]
  BY <1>2
<1> HIDE DEF s, t
<1>4. Append(s, n + 1) = t
  BY <1>1, <1>2, <1>3, SeqEqual
<1>5. QED BY <1>4 DEF s, t

(* Appending to the last of three sequences appends to their concatenation. *)
LEMMA AppendToLast ==
  ASSUME NEW f \in Seq(Nat), NEW c \in Seq(Nat), NEW p \in Seq(Nat), NEW m \in Nat
  PROVE  f \o c \o Append(p, m) = Append(f \o c \o p, m)
<1>1. f \o c \in Seq(Nat) /\ f \o c \o p \in Seq(Nat) /\ <<m>> \in Seq(Nat)
  BY ConcatProperties
<1>2. Append(p, m) = p \o <<m>>
  BY AppendIsConcat
<1>3. Append(f \o c \o p, m) = (f \o c \o p) \o <<m>>
  BY <1>1, AppendIsConcat
<1> DEFINE fc == f \o c
<1>4. fc \in Seq(Nat)
  BY <1>1
<1> HIDE DEF fc
<1>5. (fc \o p) \o <<m>> = fc \o (p \o <<m>>)
  BY <1>1, <1>4, ConcatAssociative, SMTT(60)
<1>6. QED BY <1>2, <1>3, <1>5 DEF fc

-----------------------------------------------------------------------------
(* The constructor of AsyncWorker establishes the invariant. *)
LEMMA InvInit == Init => IInv
<1> SUFFICES ASSUME Init PROVE IInv
  OBVIOUS
<1> USE DEF Init
<1>1. ABuffer(productor) /\ ABuffer(consumer)
  BY WorkerAssumption DEF ABuffer, EmptyBuffer
<1>2. Types
  BY <1>1 DEF Types
<1>3. LockHeld /\ EmptyOutsideFlush /\ NoSleepOnData /\ LeavesStopped
  BY DEF LockHeld, EmptyOutsideFlush, NoSleepOnData, LeavesStopped, EmptyBuffer
<1>4. StopCounts /\ StopKeepsPushed
  BY DEF StopCounts, StopKeepsPushed
<1>5. <<>> \o <<>> \o <<>> = <<>> /\ [i \in 1..0 |-> i] = <<>>
  BY ConcatEmptySeq
<1>6. FlushedInOrder
  BY <1>5 DEF FlushedInOrder, EmptyBuffer
<1>7. QED BY <1>2, <1>3, <1>4, <1>6 DEF IInv

(* Push whose message fits, at once or after a wait: the message becomes   *)
(* the last one, and a consumer asleep is sent back to its test.           *)
LEMMA PushStep ==
  ASSUME IInv, NEW p \in Producers, NEW n \in Lengths, mtx = "free", DoPush(p, n),
         UNCHANGED <<stopLen, stop, mtx, consumer, spc, flushed>>
  PROVE  IInv'
<1>1. /\ Types /\ LockHeld /\ EmptyOutsideFlush /\ NoSleepOnData /\ LeavesStopped
      /\ StopCounts /\ FlushedInOrder /\ StopKeepsPushed
  BY DEF IInv
<1>2. n \in Nat \ {0} /\ Len(len) \in Nat /\ Len(len) + 1 \in Nat
  BY <1>1, WorkerAssumption DEF Types
<1>3. ABuffer(productor') /\ productor'.msgs = Append(productor.msgs, Len(len) + 1)
  BY <1>1, <1>2, PushKeepsBuffer DEF Types, DoPush
<1>4. len' \in Seq(Lengths) /\ Len(len') = Len(len) + 1
  BY <1>1, AppendProperties DEF Types, DoPush
<1>5. cpc \notin {"sleep", "swap", "last"}
  BY <1>1 DEF LockHeld
<1>6. cpc' = IF cpc = "wait" THEN "lock" ELSE cpc
  BY DEF DoPush, NotifyConsumer
<1>7. Types'
  <2>1. ppc' \in [Producers -> {"idle", "wait", "woken"}]
        /\ plen' \in [Producers -> Lengths \union {0}]
        /\ \A q \in Producers : ppc'[q] # "idle" => plen'[q] \in Lengths
    BY <1>1 DEF Types, DoPush
  <2>2. QED BY <1>1, <1>3, <1>4, <1>6, <2>1 DEF Types
<1>8. LockHeld' /\ EmptyOutsideFlush' /\ NoSleepOnData' /\ LeavesStopped'
  BY <1>1, <1>5, <1>6 DEF LockHeld, EmptyOutsideFlush, NoSleepOnData, LeavesStopped
<1>9. StopCounts' /\ StopKeepsPushed'
  BY <1>1, <1>2, <1>4, <1>6 DEF Types, StopCounts, StopKeepsPushed
<1>10. FlushedInOrder'
  <2>1. flushed \in Seq(Nat) /\ consumer.msgs \in Seq(Nat) /\ productor.msgs \in Seq(Nat)
    BY <1>1 DEF Types, ABuffer
  <2>2. flushed \o consumer.msgs \o productor'.msgs
          = Append(flushed \o consumer.msgs \o productor.msgs, Len(len) + 1)
    <3>1. flushed \o consumer.msgs \o Append(productor.msgs, Len(len) + 1)
            = Append(flushed \o consumer.msgs \o productor.msgs, Len(len) + 1)
      <4>1. Len(len) + 1 \in Nat
        BY <1>2
      <4>2. QED BY <2>1, <4>1, AppendToLast, ZenonT(60)
    <3>2. QED BY <1>3, <3>1
  <2>3. Append([i \in 1..Len(len) |-> i], Len(len) + 1) = [i \in 1..(Len(len) + 1) |-> i]
    BY <1>2, CountAppend
  <2>4. flushed \o consumer.msgs \o productor.msgs = [i \in 1..Len(len) |-> i]
    BY <1>1 DEF FlushedInOrder
  <2>5. flushed \o consumer.msgs \o productor'.msgs = [i \in 1..(Len(len) + 1) |-> i]
    BY <2>2, <2>3, <2>4
  <2>6. QED BY <1>4, <2>5 DEF FlushedInOrder
<1>11. QED BY <1>7, <1>8, <1>9, <1>10 DEF IInv

(* Steps that leave the buffers and the histories alone. *)
Still == UNCHANGED <<productor, consumer, len, flushed>>

(* Nothing moves: the order stays. *)
LEMMA StillKeepsOrder == FlushedInOrder /\ Still => FlushedInOrder'
  BY DEF FlushedInOrder, Still

(* A producer goes to wait, or is woken. *)
LEMMA WaitStep ==
  ASSUME IInv, Still, UNCHANGED <<stopLen, stop, mtx, cpc, spc>>,
         ppc' \in [Producers -> {"idle", "wait", "woken"}],
         plen' \in [Producers -> Lengths \union {0}],
         \A q \in Producers : ppc'[q] # "idle" => plen'[q] \in Lengths
  PROVE  IInv'
<1>1. Types'
  BY DEF IInv, Types, Still
<1>2. LockHeld' /\ EmptyOutsideFlush' /\ NoSleepOnData' /\ LeavesStopped'
  BY DEF IInv, LockHeld, EmptyOutsideFlush, NoSleepOnData, LeavesStopped, Still, IsEmpty
<1>3. StopCounts' /\ StopKeepsPushed'
  BY DEF IInv, StopCounts, StopKeepsPushed, Still
<1>4. QED BY <1>1, <1>2, <1>3, StillKeepsOrder DEF IInv

(* Buffer::Swap under the lock: the messages change places with an empty   *)
(* buffer, and the thread takes its last turn only when nothing is left.   *)
LEMMA SwapStep == IInv /\ Swap => IInv'
<1> SUFFICES ASSUME IInv, Swap PROVE IInv'
  OBVIOUS
<1>1. /\ Types /\ LockHeld /\ EmptyOutsideFlush /\ NoSleepOnData /\ LeavesStopped
      /\ StopCounts /\ FlushedInOrder /\ StopKeepsPushed
  BY DEF IInv
<1>2. cpc = "swap" /\ cpc' \in {"last", "flush"}
      /\ UNCHANGED <<stopLen, stop, plen, spc, len, flushed>>
  BY DEF Swap
<1>3. consumer.msgs = <<>>
  BY <1>1, <1>2 DEF EmptyOutsideFlush
<1>4. \/ UNCHANGED <<productor, consumer>>
      \/ productor' = consumer /\ consumer' = productor
  BY DEF Swap, BufferSwap
<1>5. ABuffer(productor') /\ ABuffer(consumer')
  BY <1>1, <1>4 DEF Types
<1>6. ppc' \in [Producers -> {"idle", "wait", "woken"}]
      /\ \A q \in Producers : ppc'[q] # "idle" => ppc[q] # "idle"
  BY <1>1 DEF Swap, NotifySpace, NotifyProducer, Types
<1>7. Types'
  BY <1>1, <1>2, <1>5, <1>6 DEF Types
<1>8. LockHeld'
  BY <1>1, <1>2 DEF Swap, LockHeld
<1>9. EmptyOutsideFlush' /\ NoSleepOnData' /\ StopCounts' /\ StopKeepsPushed'
  BY <1>1, <1>2 DEF EmptyOutsideFlush, NoSleepOnData, StopCounts, StopKeepsPushed
<1>10. LeavesStopped'
  <2>1. cpc' = "last" => stop /\ productor'.pos = 0
    BY DEF Swap, IsEmpty
  <2>2. QED BY <1>1, <1>2, <1>5, <2>1 DEF LeavesStopped, ABuffer
<1>11. FlushedInOrder'
  <2>1. CASE UNCHANGED <<productor, consumer>>
    BY <1>1, <1>2, <2>1 DEF FlushedInOrder
  <2>2. CASE productor' = consumer /\ consumer' = productor
    <3>1. flushed \in Seq(Nat) /\ productor.msgs \in Seq(Nat)
      BY <1>1 DEF Types, ABuffer
    <3>2. flushed \o productor.msgs \in Seq(Nat) /\ flushed \o <<>> = flushed
      BY <3>1, ConcatProperties, ConcatEmptySeq
    <3>3. (flushed \o productor.msgs) \o <<>> = flushed \o productor.msgs
      BY <3>2, ConcatEmptySeq
    <3>4. (flushed \o <<>>) \o productor.msgs = [i \in 1..Len(len) |-> i]
      BY <1>1, <1>3 DEF FlushedInOrder
    <3>5. (flushed \o productor.msgs) \o <<>> = [i \in 1..Len(len) |-> i]
      BY <3>2, <3>3, <3>4
    <3>6. QED BY <1>2, <1>3, <2>2, <3>5 DEF FlushedInOrder
  <2>3. QED BY <1>4, <2>1, <2>2
<1>12. QED BY <1>7, <1>8, <1>9, <1>10, <1>11 DEF IInv

(* The callback and the reset move the consumer's messages to the flushed  *)
(* ones and leave an empty buffer.                                         *)
LEMMA CallMoves ==
  ASSUME Types, FlushedInOrder, CallAndReset, UNCHANGED <<productor, len>>
  PROVE  /\ FlushedInOrder'
         /\ ABuffer(consumer') /\ consumer'.msgs = <<>>
         /\ flushed' \in Seq(Nat) /\ Len(flushed') = Len(flushed) + Len(consumer.msgs)
<1>1. flushed \in Seq(Nat) /\ consumer.msgs \in Seq(Nat) /\ productor.msgs \in Seq(Nat)
  BY DEF Types, ABuffer
<1>2. ABuffer(consumer') /\ consumer'.msgs = <<>>
  BY ResetEmpties DEF CallAndReset, Types
<1>3. flushed' = flushed \o consumer.msgs
      /\ flushed' \in Seq(Nat) /\ Len(flushed') = Len(flushed) + Len(consumer.msgs)
  BY <1>1, ConcatProperties DEF CallAndReset
<1>4. flushed' \o <<>> = flushed'
  BY <1>3, ConcatEmptySeq
<1>5. flushed' \o consumer'.msgs \o productor'.msgs
        = flushed \o consumer.msgs \o productor.msgs
  BY <1>2, <1>3, <1>4
<1>6. QED BY <1>2, <1>3, <1>5 DEF FlushedInOrder

(* When the thread leaves, everything pushed has been flushed: nothing is  *)
(* left in either buffer.                                                  *)
LEMMA LastTakesAll ==
  ASSUME Types, FlushedInOrder, productor.msgs = <<>>
  PROVE  Len(flushed) + Len(consumer.msgs) = Len(len)
<1>1. flushed \in Seq(Nat) /\ consumer.msgs \in Seq(Nat) /\ Len(len) \in Nat
  BY DEF Types, ABuffer
<1>2. flushed \o consumer.msgs \in Seq(Nat)
      /\ Len(flushed \o consumer.msgs) = Len(flushed) + Len(consumer.msgs)
  BY <1>1, ConcatProperties
<1>3. (flushed \o consumer.msgs) \o <<>> = flushed \o consumer.msgs
  BY <1>2, ConcatEmptySeq
<1>4. flushed \o consumer.msgs = [i \in 1..Len(len) |-> i]
  BY <1>3 DEF FlushedInOrder
<1>5. Len([i \in 1..Len(len) |-> i]) = Len(len)
  BY <1>1
<1>6. QED BY <1>2, <1>4, <1>5

(* The callback outside the lock, and the last one inside it. *)
LEMMA FlushStep == IInv /\ (Flush \/ LastFlush) => IInv'
<1> SUFFICES ASSUME IInv, Flush \/ LastFlush PROVE IInv'
  OBVIOUS
<1>1. /\ Types /\ LockHeld /\ EmptyOutsideFlush /\ NoSleepOnData /\ LeavesStopped
      /\ StopCounts /\ FlushedInOrder /\ StopKeepsPushed
  BY DEF IInv
<1>2. CallAndReset /\ UNCHANGED <<stopLen, stop, productor, ppc, plen, spc, len>>
  BY DEF Flush, LastFlush
<1>3. \/ cpc = "flush" /\ cpc' = "lock" /\ mtx' = mtx
      \/ cpc = "last" /\ cpc' = "done" /\ mtx' = "free"
  BY DEF Flush, LastFlush
<1>4. /\ FlushedInOrder'
      /\ ABuffer(consumer') /\ consumer'.msgs = <<>>
      /\ flushed' \in Seq(Nat) /\ Len(flushed') = Len(flushed) + Len(consumer.msgs)
  BY <1>1, <1>2, CallMoves
<1>5. Types'
  BY <1>1, <1>2, <1>3, <1>4 DEF Types
<1>6. LockHeld' /\ EmptyOutsideFlush' /\ NoSleepOnData' /\ LeavesStopped' /\ StopCounts'
  BY <1>1, <1>2, <1>3, <1>4
     DEF LockHeld, EmptyOutsideFlush, NoSleepOnData, LeavesStopped, StopCounts
<1>7. StopKeepsPushed'
  <2>1. CASE cpc = "last"
    <3>1. Len(flushed') = Len(len)
      BY <1>1, <1>4, <2>1, LastTakesAll DEF LeavesStopped
    <3>2. QED BY <1>1, <1>2, <3>1 DEF StopKeepsPushed, StopCounts, Types
  <2>2. CASE cpc' = "lock"
    BY <2>2 DEF StopKeepsPushed
  <2>3. QED BY <1>3, <2>1, <2>2
<1>8. QED BY <1>4, <1>5, <1>6, <1>7 DEF IInv

(* The other steps of ThreadEntry and of Stop: they move program counters, *)
(* the mutex and stop_ only.                                               *)
LEMMA ControlStep ==
  ASSUME IInv,
         Test \/ Sleep \/ SpuriousConsumer \/ SetStop \/ NotifyAll \/ Join
  PROVE  IInv'
<1>1. /\ Types /\ LockHeld /\ EmptyOutsideFlush /\ NoSleepOnData /\ LeavesStopped
      /\ StopCounts /\ FlushedInOrder /\ StopKeepsPushed
  BY DEF IInv
<1>2. Still /\ UNCHANGED <<ppc, plen>>
  BY DEF Test, Sleep, SpuriousConsumer, SetStop, NotifyAll, Join, Still
<1>3. FlushedInOrder'
  BY <1>1, <1>2, StillKeepsOrder
<1>4. Types' /\ StopCounts'
  <2>1. cpc' \in {"lock", "sleep", "wait", "swap", "flush", "last", "done"}
    BY <1>1 DEF Test, Sleep, SpuriousConsumer, SetStop, NotifyAll, NotifyConsumer,
         Join, Types
  <2>2. stopLen' = stopLen \/ stopLen' = Len(len)
    BY DEF Test, Sleep, SpuriousConsumer, SetStop, NotifyAll, Join
  <2>3. Len(len) \in Nat
    BY <1>1 DEF Types
  <2>4. QED BY <1>1, <1>2, <2>1, <2>2, <2>3 DEF Types, StopCounts, Still
<1>5. CASE Test
  BY <1>1, <1>2, <1>3, <1>4, <1>5
     DEF Test, IInv, LockHeld, EmptyOutsideFlush, NoSleepOnData, LeavesStopped,
         StopKeepsPushed, IsEmpty, Still
<1>6. CASE Sleep \/ SpuriousConsumer
  BY <1>1, <1>2, <1>3, <1>4, <1>6
     DEF Sleep, SpuriousConsumer, IInv, LockHeld, EmptyOutsideFlush, NoSleepOnData,
         LeavesStopped, StopKeepsPushed, IsEmpty, Still
<1>7. CASE SetStop
  BY <1>1, <1>2, <1>3, <1>4, <1>7
     DEF SetStop, IInv, LockHeld, EmptyOutsideFlush, NoSleepOnData, LeavesStopped,
         StopKeepsPushed, IsEmpty, Still
<1>8. CASE NotifyAll \/ Join
  BY <1>1, <1>2, <1>3, <1>4, <1>8
     DEF NotifyAll, NotifyConsumer, Join, IInv, LockHeld, EmptyOutsideFlush,
         NoSleepOnData, LeavesStopped, StopKeepsPushed, IsEmpty, Still
<1>9. QED BY <1>5, <1>6, <1>7, <1>8

(* Push, up to its end or its wait, and its repetition after a wakeup. *)
LEMMA ProducerStep ==
  ASSUME IInv, NEW p \in Producers,
         \/ \E n \in Lengths : Push(p, n)
         \/ PushAgain(p)
         \/ SpuriousProducer(p)
  PROVE  IInv'
<1>1. Types
  BY DEF IInv
<1>2. ASSUME NEW n \in Lengths, Push(p, n) PROVE IInv'
  <2>1. CASE MustWait(n)
    <3>1. /\ Still /\ UNCHANGED <<stopLen, stop, mtx, cpc, spc>>
          /\ ppc' = [ppc EXCEPT ![p] = "wait"] /\ plen' = [plen EXCEPT ![p] = n]
      BY <1>2, <2>1 DEF Push, Still
    <3>2. ppc' \in [Producers -> {"idle", "wait", "woken"}]
          /\ plen' \in [Producers -> Lengths \union {0}]
          /\ \A q \in Producers : ppc'[q] # "idle" => plen'[q] \in Lengths
      BY <1>1, <3>1 DEF Types
    <3>3. QED BY <3>1, <3>2, WaitStep
  <2>2. CASE ~MustWait(n)
    BY <1>2, <2>2, PushStep DEF Push
  <2>3. QED BY <2>1, <2>2
<1>3. CASE PushAgain(p)
  <2>1. plen[p] \in Lengths
    BY <1>1, <1>3 DEF Types, PushAgain
  <2>2. CASE MustWait(plen[p])
    <3>1. /\ Still /\ UNCHANGED <<stopLen, stop, mtx, cpc, spc, plen>>
          /\ ppc' = [ppc EXCEPT ![p] = "wait"]
      BY <1>3, <2>2 DEF PushAgain, Still
    <3>2. ppc' \in [Producers -> {"idle", "wait", "woken"}]
          /\ plen' \in [Producers -> Lengths \union {0}]
          /\ \A q \in Producers : ppc'[q] # "idle" => plen'[q] \in Lengths
      BY <1>1, <2>1, <3>1 DEF Types
    <3>3. QED BY <3>1, <3>2, WaitStep
  <2>3. CASE ~MustWait(plen[p])
    BY <1>3, <2>1, <2>3, PushStep DEF PushAgain
  <2>4. QED BY <2>2, <2>3
<1>4. CASE SpuriousProducer(p)
  <2>1. /\ Still /\ UNCHANGED <<stopLen, stop, mtx, cpc, spc, plen>>
        /\ ppc[p] = "wait" /\ ppc' = [ppc EXCEPT ![p] = "woken"]
    BY <1>4 DEF SpuriousProducer, Still
  <2>2. ppc' \in [Producers -> {"idle", "wait", "woken"}]
        /\ plen' \in [Producers -> Lengths \union {0}]
        /\ \A q \in Producers : ppc'[q] # "idle" => plen'[q] \in Lengths
    BY <1>1, <2>1 DEF Types
  <2>3. QED BY <2>1, <2>2, WaitStep
<1>5. QED BY <1>2, <1>3, <1>4

(* Every step of the producers, of ThreadEntry and of Stop keeps IInv. *)
LEMMA InvStep == IInv /\ [Next]_vars => IInv'
<1> SUFFICES ASSUME IInv, [Next]_vars PROVE IInv'
  OBVIOUS
<1>1. CASE Swap
  BY <1>1, SwapStep
<1>2. CASE Flush \/ LastFlush
  BY <1>2, FlushStep
<1>3. CASE Test \/ Sleep \/ SpuriousConsumer \/ SetStop \/ NotifyAll \/ Join
  BY <1>3, ControlStep
<1>4. CASE \E p \in Producers : \/ \E n \in Lengths : Push(p, n)
                               \/ PushAgain(p)
                               \/ SpuriousProducer(p)
  BY <1>4, ProducerStep
<1>5. CASE UNCHANGED vars
  BY <1>5, WaitStep DEF vars, Still, IInv, Types
<1>6. QED BY <1>1, <1>2, <1>3, <1>4, <1>5 DEF Next, ConsumerStep, StopStep

(* The inductive invariant of AsyncWorker. *)
LEMMA Invariance == Spec => []IInv
  BY InvInit, InvStep, PTL DEF Spec

(* For any producers, modes and sizes, the messages flushed, those in the  *)
(* consumer's buffer and those in the producers' are all that were pushed, *)
(* each once, in the order of Push.                                        *)
THEOREM OnceAndInOrder == Spec => []FlushedInOrder
<1>1. IInv => FlushedInOrder
  BY DEF IInv
<1>2. QED BY <1>1, Invariance, PTL

(* For any producers, the consumer is never asleep on cond_consumer_ while *)
(* a message is in the producers' buffer: no notification is lost.         *)
THEOREM NoLostNotification == Spec => []NoSleepOnData
<1>1. IInv => NoSleepOnData
  BY DEF IInv
<1>2. QED BY <1>1, Invariance, PTL

(* For any producers and whenever Stop comes, the thread that has left has *)
(* flushed every message pushed before Stop.                               *)
THEOREM NothingLostByStop == Spec => []StopKeepsPushed
<1>1. IInv => StopKeepsPushed
  BY DEF IInv
<1>2. QED BY <1>1, Invariance, PTL

-----------------------------------------------------------------------------
(* A message fits into what one step of growth adds, or the logger waits   *)
(* for space: without one of the two ToBeEnough does not make enough room. *)
GrowthSuffices == (\A n \in Lengths : n <= Growth) \/ "UNSAFE" \notin AsyncTypes

(* The mode is one the logger may be built with, and no buffer is overrun. *)
FitsInv == asyncType \in AsyncTypes /\ WithinBuffer

(* Buffer::Push of a message that need not wait stays within the buffer. *)
LEMMA PushFits ==
  ASSUME GrowthSuffices, IInv, FitsInv, NEW n \in Lengths, ~MustWait(n), NEW m
  PROVE  BufferPush(productor, m, n).pos <= BufferPush(productor, m, n).size
<1>1. /\ productor.pos \in Nat /\ productor.size \in Nat
      /\ productor.pos <= productor.size
      /\ n \in Nat /\ Growth \in Nat
  BY WorkerAssumption DEF IInv, Types, ABuffer, FitsInv, WithinBuffer
<1>2. n <= productor.size - productor.pos \/ n <= Growth
  <2>1. CASE \A k \in Lengths : k <= Growth
    BY <2>1
  <2>2. CASE "UNSAFE" \notin AsyncTypes
    <3>1. asyncType = "SAFE"
      BY <2>2, WorkerAssumption DEF FitsInv
    <3>2. QED BY <1>1, <3>1 DEF MustWait, WriteableSize
  <2>3. QED BY <2>1, <2>2 DEF GrowthSuffices
<1>3. productor.pos + n <= ToBeEnough(productor, n)
  BY <1>1, <1>2 DEF ToBeEnough, WriteableSize
<1>4. QED BY <1>3 DEF BufferPush

(* No step writes beyond the end of a buffer. *)
LEMMA FitsStep ==
  GrowthSuffices /\ IInv /\ FitsInv /\ [Next]_vars => FitsInv'
<1> SUFFICES ASSUME GrowthSuffices, IInv, FitsInv, [Next]_vars PROVE FitsInv'
  OBVIOUS
<1>1. asyncType' = asyncType
  BY DEF Next, ConsumerStep, StopStep, Test, Sleep, Swap, Flush, LastFlush, NotifyAll,
     Join, SetStop, SpuriousConsumer, Push, PushAgain, SpuriousProducer, vars
<1>2. CASE UNCHANGED <<productor, consumer>>
  BY <1>1, <1>2 DEF FitsInv, WithinBuffer
<1>3. CASE Swap
  BY <1>1, <1>3 DEF Swap, BufferSwap, FitsInv, WithinBuffer
<1>4. CASE Flush \/ LastFlush
  <2>1. consumer'.pos = 0 /\ consumer'.size = consumer.size /\ productor' = productor
    BY <1>4 DEF Flush, LastFlush, CallAndReset, Reset
  <2>2. QED BY <1>1, <2>1 DEF FitsInv, WithinBuffer, IInv, Types, ABuffer
<1>5. ASSUME NEW p \in Producers, NEW n \in Lengths, DoPush(p, n), ~MustWait(n),
             consumer' = consumer
      PROVE FitsInv'
  BY <1>1, <1>5, PushFits DEF DoPush, FitsInv, WithinBuffer
<1>6. ASSUME NEW p \in Producers, NEW n \in Lengths, Push(p, n) PROVE FitsInv'
  BY <1>2, <1>5, <1>6 DEF Push
<1>7. ASSUME NEW p \in Producers, PushAgain(p) PROVE FitsInv'
  <2>1. plen[p] \in Lengths
    BY <1>7 DEF IInv, Types, PushAgain
  <2>2. QED BY <1>2, <1>5, <1>7, <2>1 DEF PushAgain
<1>8. CASE \/ Test \/ Sleep \/ SpuriousConsumer \/ SetStop \/ NotifyAll \/ Join
           \/ UNCHANGED vars \/ \E p \in Producers : SpuriousProducer(p)
  BY <1>2, <1>8 DEF Test, Sleep, SpuriousConsumer, SetStop, NotifyAll, Join, vars,
     SpuriousProducer
<1>9. QED BY <1>3, <1>4, <1>6, <1>7, <1>8 DEF Next, ConsumerStep, StopStep

(* For any sizes such that a message fits into one step of growth, and for *)
(* any sizes in safe mode, neither buffer is ever written past its end.    *)
THEOREM BuffersNotOverrun == GrowthSuffices => (Spec => []WithinBuffer)
<1> SUFFICES ASSUME GrowthSuffices PROVE Spec => []WithinBuffer
  OBVIOUS
<1>1. Init => FitsInv
  BY WorkerAssumption DEF Init, FitsInv, WithinBuffer, EmptyBuffer
<1>2. FitsInv => WithinBuffer
  BY DEF FitsInv
<1>3. IInv /\ FitsInv /\ [Next]_vars => FitsInv'
  BY FitsStep
<1>4. QED BY <1>1, <1>2, <1>3, Invariance, PTL DEF Spec
=============================================================================
