------------------------------ MODULE ThreadPool ------------------------------
(***************************************************************************)
(* The thread pool of the logger (ThreadPool.hpp in                        *)
(* src/log_system/logs_code): workers that take tasks from a queue,        *)
(* enqueue, and the destructor that lets them finish what is queued.       *)
(*                                                                         *)
(* stop and tasks change only under queue_mutex, so a worker's test of its *)
(* condition and its going to sleep are one step.  enqueue and the         *)
(* destructor notify after they have unlocked, which is a step of its own. *)
(* What a task does between its being taken and its end is left to the     *)
(* module that uses the pool.                                              *)
(***************************************************************************)
EXTENDS Naturals, Sequences, FiniteSets

CONSTANT Workers    \* the threads of the pool

ASSUME PoolAssumption == IsFiniteSet(Workers) /\ Workers # {}

VARIABLES tasks,    \* the queue
          stop,     \* the flag the destructor sets
          worker,   \* per worker: "lock", "wait", "run" or "exit"
          task,     \* per worker: the task it executes
          dtor      \* the destructor: "none", "notify", "join" or "freed"

poolVars == <<tasks, stop, worker, task, dtor>>

NoTask == 0     \* tasks are numbered from 1

PoolInit == /\ tasks = <<>>
            /\ stop = FALSE
            /\ worker = [w \in Workers |-> "lock"]
            /\ task = [w \in Workers |-> NoTask]
            /\ dtor = "none"

At(pc) == {w \in Workers : worker[w] = pc}

Moves(w, pc) == worker' = [worker EXCEPT ![w] = pc]

-----------------------------------------------------------------------------
(* A worker.                                                               *)

Sleep(w) == /\ worker[w] = "lock"
            /\ ~stop /\ tasks = <<>>
            /\ Moves(w, "wait")
            /\ UNCHANGED <<tasks, stop, task, dtor>>

(* A condition variable may wake a thread for no reason. *)
Spurious(w) == /\ worker[w] = "wait"
               /\ Moves(w, "lock")
               /\ UNCHANGED <<tasks, stop, task, dtor>>

Take(w) == /\ worker[w] = "lock"
           /\ tasks # <<>>
           /\ Moves(w, "run")
           /\ task' = [task EXCEPT ![w] = Head(tasks)]
           /\ tasks' = Tail(tasks)
           /\ UNCHANGED <<stop, dtor>>

(* Mutant: a worker returns as soon as it sees stop. *)
ExitAtOnce(w) == /\ worker[w] = "lock"
                 /\ stop
                 /\ Moves(w, "exit")
                 /\ UNCHANGED <<tasks, stop, task, dtor>>

Exit(w) == /\ worker[w] = "lock"
           /\ stop /\ tasks = <<>>
           /\ Moves(w, "exit")
           /\ UNCHANGED <<tasks, stop, task, dtor>>

(* The task has returned: its future is ready and the worker tests again. *)
Finish(w) == /\ worker[w] = "run"
             /\ Moves(w, "lock")
             /\ task' = [task EXCEPT ![w] = NoTask]
             /\ UNCHANGED <<tasks, stop, dtor>>

-----------------------------------------------------------------------------
(* enqueue: the critical section, when it does not throw, and the notify.  *)

Enqueue(t) == /\ ~stop
              /\ tasks' = Append(tasks, t)
              /\ UNCHANGED <<stop, worker, task, dtor>>

(* Mutant: only the first task of an empty queue is worth a notification. *)
NotifyIfFirst == /\ \/ Len(tasks) # 1 /\ UNCHANGED worker
                    \/ /\ Len(tasks) = 1
                       /\ \/ At("wait") = {} /\ UNCHANGED worker
                          \/ \E w \in At("wait") : Moves(w, "lock")
                 /\ UNCHANGED <<tasks, stop, task, dtor>>

(* Mutant: enqueue does not notify. *)
NotifyNobody == UNCHANGED poolVars

NotifyOne == /\ \/ At("wait") = {} /\ UNCHANGED worker
                \/ \E w \in At("wait") : Moves(w, "lock")
             /\ UNCHANGED <<tasks, stop, task, dtor>>

-----------------------------------------------------------------------------
(* The destructor.                                                         *)

SetStop == /\ dtor = "none"
           /\ dtor' = "notify"
           /\ stop' = TRUE
           /\ UNCHANGED <<tasks, worker, task>>

(* Mutant: the destructor wakes one worker only. *)
StopNotifiesOne == /\ dtor = "notify"
                   /\ dtor' = "join"
                   /\ \/ At("wait") = {} /\ UNCHANGED worker
                      \/ \E w \in At("wait") : Moves(w, "lock")
                   /\ UNCHANGED <<tasks, stop, task>>

NotifyAll == /\ dtor = "notify"
             /\ dtor' = "join"
             /\ worker' = [w \in Workers |-> IF worker[w] = "wait" THEN "lock"
                                             ELSE worker[w]]
             /\ UNCHANGED <<tasks, stop, task>>

Join == /\ dtor = "join"
        /\ At("exit") = Workers
        /\ dtor' = "freed"
        /\ UNCHANGED <<tasks, stop, worker, task>>

-----------------------------------------------------------------------------
(* The variables of the pool when its tasks are those of Tasks. *)
PoolTypeOK(Tasks) == /\ tasks \in Seq(Tasks)
                     /\ stop \in BOOLEAN
                     /\ worker \in [Workers -> {"lock", "wait", "run", "exit"}]
                     /\ task \in [Workers -> Tasks \union {NoTask}]
                     /\ dtor \in {"none", "notify", "join", "freed"}
                     /\ \A w \in Workers : worker[w] = "run" <=> task[w] # NoTask

(***************************************************************************)
(* A worker of its own for every task (condition.wait, notify_one): while  *)
(* some worker sleeps, each queued task has a worker that is on its way to *)
(* the queue or one of the n calls of enqueue that have still to notify.   *)
(***************************************************************************)
TasksCovered(n) == At("wait") # {} => Len(tasks) <= Cardinality(At("lock")) + n
=============================================================================
