------------------------------ MODULE TaskQueue ------------------------------
(***************************************************************************)
(* What EventLoop promises to a caller of queueInLoop: the functors handed *)
(* to one loop are executed one at a time, in the order in which they were *)
(* put into pengdingFuntors_, each exactly once, for as long as the loop   *)
(* has not left loop().  No thread, lock, eventfd or vector appears here.  *)
(*                                                                         *)
(* A functor is named by its position in the order of arrival: the n-th    *)
(* functor ever queued is the number n.                                    *)
(***************************************************************************)
EXTENDS Naturals, Sequences

CONSTANT MaxPosts   \* bound: at most this many functors are ever queued

VARIABLES todo,     \* functors queued and not yet started, oldest first
          done,     \* functors started, in the order in which they started
          open      \* FALSE once loop() has returned

vars == <<todo, done, open>>

Arrived == Len(todo) + Len(done)

Init == todo = <<>> /\ done = <<>> /\ open = TRUE

(* A functor is queued; this is possible even after loop() has returned. *)
Post == /\ Arrived < MaxPosts
        /\ todo' = Append(todo, Arrived + 1)
        /\ UNCHANGED <<done, open>>

(* The loop starts the oldest functor. *)
Run == /\ open
       /\ todo # <<>>
       /\ done' = Append(done, Head(todo))
       /\ todo' = Tail(todo)
       /\ UNCHANGED open

(* loop() returns; whatever is queued stays queued. *)
Close == /\ open
         /\ open' = FALSE
         /\ UNCHANGED <<todo, done>>

Next == Post \/ Run \/ Close

Spec == Init /\ [][Next]_vars
=============================================================================
