-------------------------- MODULE ConnectionProofs --------------------------
(***************************************************************************)
(* Proofs about the life of a connection in TcpServer: it is established   *)
(* once, before anything else happens to it, its channel is with the       *)
(* poller only while somebody will take it out again, and it is reported   *)
(* down at most once.  Then what goes out on it: the bytes of messages and *)
(* the bytes of files.  Module TcpServerProofs has the types and what the  *)
(* single steps do.                                                        *)
(***************************************************************************)
EXTENDS TcpServerProofs

-----------------------------------------------------------------------------
(* What a loop still has to execute.                                       *)

(* The functors of loop l that have not been started, in order. *)
Todo(l) == SubSeq(batch[l], pos[l] + 1, Len(batch[l])) \o pending[l]

Ahead(l) == Elements(Todo(l))

(* No connection is to be established twice. *)
EstablishedOnce(t) ==
  \A i, j \in 1..Len(t) :
     /\ t[i].kind = "connectEstablished" /\ t[j].kind = "connectEstablished"
     /\ t[i].c = t[j].c
     => i = j

(* Loop l starts the functors gone (at most one) and is given those of     *)
(* fresh.                                                                  *)
TodoStep(l, gone, fresh) ==
  /\ Ahead(l)' \subseteq Ahead(l) \union fresh
  /\ Ahead(l) \ gone \subseteq Ahead(l)'
  /\ fresh \subseteq Ahead(l)'
  /\ Todo(l)' \in Seq(Functors)
  /\ /\ EstablishedOnce(Todo(l))
     /\ \A f \in fresh : f.kind # "connectEstablished"
     => /\ EstablishedOnce(Todo(l)')
        /\ \A f \in gone, g \in Ahead(l)' :
              f.kind = "connectEstablished" /\ g.kind = "connectEstablished" => f.c # g.c

(* Lists of functors are concatenated in any order. *)
LEMMA Associates ==
  \A s, t, u \in Seq(Functors) : (s \o t) \o u = s \o (t \o u)
<1> TAKE s, t, u \in Seq(Functors)
<1>1. QED BY ConcatAssociative, SMTT(60)

(* Something is appended to a list of functors. *)
LEMMA AppendedTodo ==
  ASSUME NEW t \in Seq(Functors), NEW fs \in Seq(Functors), NEW u, u = t \o fs
  PROVE  /\ u \in Seq(Functors)
         /\ Elements(u) = Elements(t) \union Elements(fs)
         /\ /\ EstablishedOnce(t)
            /\ \A f \in Elements(fs) : f.kind # "connectEstablished"
            => EstablishedOnce(u)
<1>1. /\ u \in Seq(Functors) /\ Len(u) = Len(t) + Len(fs)
      /\ Len(t) \in Nat /\ Len(fs) \in Nat
      /\ \A i \in 1..Len(t) : u[i] = t[i]
      /\ \A i \in (Len(t) + 1)..(Len(t) + Len(fs)) : u[i] = fs[i - Len(t)]
  BY ConcatProperties
<1>2. \A i \in 1..Len(u) : i \in 1..Len(t) \/ (i - Len(t) \in 1..Len(fs) /\ u[i] = fs[i - Len(t)])
  BY <1>1
<1>3. Elements(u) \subseteq Elements(t) \union Elements(fs)
  BY <1>1, <1>2 DEF Elements
<1>4. Elements(t) \subseteq Elements(u)
  BY <1>1 DEF Elements
<1>5. Elements(fs) \subseteq Elements(u)
  <2>1. \A i \in 1..Len(fs) : Len(t) + i \in 1..Len(u) /\ u[Len(t) + i] = fs[i]
    BY <1>1
  <2>2. QED BY <2>1 DEF Elements
<1>6. ASSUME EstablishedOnce(t), \A f \in Elements(fs) : f.kind # "connectEstablished"
      PROVE  EstablishedOnce(u)
  <2>1. \A i \in 1..Len(u) : u[i].kind = "connectEstablished" => i \in 1..Len(t)
    BY <1>2, <1>6 DEF Elements
  <2>2. SUFFICES ASSUME NEW i \in 1..Len(u), NEW j \in 1..Len(u),
                        u[i].kind = "connectEstablished", u[j].kind = "connectEstablished",
                        u[i].c = u[j].c
                 PROVE  i = j
    BY DEF EstablishedOnce
  <2>3. i \in 1..Len(t) /\ j \in 1..Len(t)
    BY <2>1, <2>2
  <2>4. u[i] = t[i] /\ u[j] = t[j]
    BY <1>1, <2>3
  <2>5. QED BY <1>6, <2>2, <2>3, <2>4 DEF EstablishedOnce
<1>7. QED BY <1>1, <1>3, <1>4, <1>5, <1>6

(* The first functor of a list is taken. *)
LEMMA TakenTodo ==
  ASSUME NEW t \in Seq(Functors), NEW f, NEW u \in Seq(Functors), t = <<f>> \o u
  PROVE  /\ Elements(u) \subseteq Elements(t)
         /\ Elements(t) \ {f} \subseteq Elements(u)
         /\ EstablishedOnce(t)
            => /\ EstablishedOnce(u)
               /\ \A g \in Elements(u) :
                     f.kind = "connectEstablished" /\ g.kind = "connectEstablished"
                        => f.c # g.c
<1>1. /\ Len(t) = Len(u) + 1 /\ Len(u) \in Nat
      /\ t[1] = f
      /\ \A i \in 1..Len(u) : t[i + 1] = u[i]
  OBVIOUS
<1>2. \A i \in 1..Len(u) : i + 1 \in 1..Len(t) /\ i + 1 # 1 /\ 1 \in 1..Len(t)
  BY <1>1
<1>3. Elements(u) \subseteq Elements(t)
  BY <1>1, <1>2 DEF Elements
<1>4. Elements(t) \ {f} \subseteq Elements(u)
  <2>1. \A i \in 1..Len(t) : i = 1 \/ (i - 1 \in 1..Len(u) /\ t[i] = u[i - 1])
    BY <1>1
  <2>2. QED BY <1>1, <2>1 DEF Elements
<1>5. ASSUME EstablishedOnce(t)
      PROVE  /\ EstablishedOnce(u)
             /\ \A g \in Elements(u) :
                   f.kind = "connectEstablished" /\ g.kind = "connectEstablished"
                      => f.c # g.c
  <2>1. EstablishedOnce(u)
    <3>1. SUFFICES ASSUME NEW i \in 1..Len(u), NEW j \in 1..Len(u),
                          u[i].kind = "connectEstablished", u[j].kind = "connectEstablished",
                          u[i].c = u[j].c
                   PROVE  i = j
      BY DEF EstablishedOnce
    <3>2. i + 1 = j + 1
      BY <1>1, <1>2, <1>5, <3>1, ZenonT(60) DEF EstablishedOnce
    <3>3. QED BY <3>2
  <2>2. ASSUME NEW g \in Elements(u), f.kind = "connectEstablished",
               g.kind = "connectEstablished", f.c = g.c
        PROVE  FALSE
    <3>1. PICK i \in 1..Len(u) : g = u[i]
      BY DEF Elements
    <3>2. QED BY <1>1, <1>2, <1>5, <2>2, <3>1 DEF EstablishedOnce
  <2>3. QED BY <2>1, <2>2
<1>6. QED BY <1>3, <1>4, <1>5

(* The functors that wait are functors. *)
LEMMA TodoTyped ==
  ASSUME BatchTyped, QueueTyped, NEW l \in Loops
  PROVE  Todo(l) \in Seq(Functors)
<1>1. batch[l] \in Seq(Functors) /\ pending[l] \in Seq(Functors) /\ pos[l] \in Nat
  BY DEF BatchTyped, QueueTyped
<1>2. SubSeq(batch[l], pos[l] + 1, Len(batch[l])) \in Seq(Functors)
  <2>1. \A i \in 1..Len(batch[l]) : batch[l][i] \in Functors
    BY <1>1, ElementOfSeq
  <2>2. \A i \in (pos[l] + 1)..Len(batch[l]) : batch[l][i] \in Functors
    BY <1>1, <2>1
  <2>3. pos[l] + 1 \in Int /\ Len(batch[l]) \in Int
    BY <1>1
  <2>4. QED BY <2>2, <2>3, SubSeqProperties
<1>3. QED BY <1>1, <1>2, ConcatProperties DEF Todo

(* Nothing is queued or started. *)
LEMMA TodoStays ==
  ASSUME BatchTyped, QueueTyped, NEW l \in Loops, Todo(l)' = Todo(l)
  PROVE  TodoStep(l, {}, {})
<1>1. Todo(l) \in Seq(Functors)
  BY TodoTyped
<1>2. Ahead(l)' = Ahead(l)
  BY DEF Ahead, Elements
<1> HIDE DEF Todo
<1>3. QED BY <1>1, <1>2 DEF TodoStep

(* Something is queued in loop l. *)
LEMMA TodoQueued ==
  ASSUME BatchTyped, QueueTyped, NEW l \in Loops, NEW fs \in Seq(Functors), Queue(l, fs),
         batch'[l] = batch[l], pos'[l] = pos[l]
  PROVE  /\ TodoStep(l, {}, Elements(fs))
         /\ Todo(l)' = Todo(l) \o fs
         /\ \A k \in Loops \ {l} : pending'[k] = pending[k]
<1> DEFINE rest == SubSeq(batch[l], pos[l] + 1, Len(batch[l]))
<1>1. Todo(l) \in Seq(Functors) /\ pending[l] \in Seq(Functors)
  BY TodoTyped DEF QueueTyped
<1>2. rest \in Seq(Functors)
  <2>1. batch[l] \in Seq(Functors) /\ pos[l] \in Nat
    BY DEF BatchTyped
  <2>2. \A i \in 1..Len(batch[l]) : batch[l][i] \in Functors
    BY <2>1, ElementOfSeq
  <2>3. \A i \in (pos[l] + 1)..Len(batch[l]) : batch[l][i] \in Functors
    BY <2>1, <2>2
  <2>4. pos[l] + 1 \in Int /\ Len(batch[l]) \in Int
    BY <2>1
  <2>5. QED BY <2>3, <2>4, SubSeqProperties
<1>3. pending'[l] = pending[l] \o fs /\ \A k \in Loops \ {l} : pending'[k] = pending[k]
  BY DEF Queue, QueueTyped
<1>4. Todo(l) = rest \o pending[l] /\ Todo(l)' = rest \o (pending[l] \o fs)
  BY <1>3 DEF Todo
<1> HIDE DEF rest
<1>5. Todo(l)' = Todo(l) \o fs
  <2>1. (rest \o pending[l]) \o fs = rest \o (pending[l] \o fs)
    BY <1>1, <1>2, Associates
  <2>2. QED BY <1>4, <2>1, Zenon
<1> HIDE DEF Todo
<1>6. /\ Todo(l)' \in Seq(Functors)
      /\ Elements(Todo(l)') = Elements(Todo(l)) \union Elements(fs)
      /\ /\ EstablishedOnce(Todo(l))
         /\ \A f \in Elements(fs) : f.kind # "connectEstablished"
         => EstablishedOnce(Todo(l)')
  BY <1>1, <1>5, AppendedTodo
<1>7. Ahead(l)' = Elements(Todo(l)')
  BY DEF Ahead, Elements
<1>8. QED BY <1>3, <1>5, <1>6, <1>7 DEF TodoStep, Ahead

(* Loop l starts f, the first functor of its list, and fs goes to the end. *)
Advances(l, f, fs) ==
  \E u \in Seq(Functors) : Todo(l) = <<f>> \o u /\ Todo(l)' = u \o fs

(* Loop l starts a functor, and something may be queued in loop l. *)
LEMMA TodoStarted ==
  ASSUME BatchTyped, QueueTyped, NEW l \in Loops, NEW f, Starts(l, f),
         NEW fs \in Seq(Functors), pending'[l] = pending[l] \o fs
  PROVE  /\ f \in Ahead(l)
         /\ TodoStep(l, {f}, Elements(fs))
         /\ Advances(l, f, fs)
<1> DEFINE b == batch[l]
           p == pos[l]
           rest == SubSeq(b, p + 1, Len(b))
           more == SubSeq(b, p + 2, Len(b))
<1>1. b \in Seq(Functors) /\ p \in Nat /\ Len(b) \in Nat /\ p < Len(b) /\ f = b[p + 1]
      /\ pending[l] \in Seq(Functors)
  BY DEF Starts, BatchTyped, QueueTyped
<1>2. batch'[l] = b /\ pos'[l] = p + 1
  BY DEF Starts, BatchTyped
<1>3. \A i \in 1..Len(b) : b[i] \in Functors
  BY <1>1, ElementOfSeq
<1>4. f \in Functors
  BY <1>1, <1>3
<1>5. /\ more \in Seq(Functors) /\ Len(more) = Len(b) - (p + 1)
      /\ \A i \in 1..(Len(b) - (p + 1)) : more[i] = b[p + 1 + i]
  <2>1. \A i \in (p + 2)..Len(b) : b[i] \in Functors
    BY <1>1, <1>3
  <2>2. p + 2 \in Int /\ Len(b) \in Int
    BY <1>1
  <2>3. more \in Seq(Functors)
    BY <2>1, <2>2, SubSeqProperties
  <2>4. Len(more) = Len(b) - (p + 1)
    BY <1>1, <2>1, <2>2, SubSeqProperties, SMTT(60)
  <2>5. \A i \in 1..(Len(b) - (p + 1)) : more[i] = b[p + 1 + i]
    BY <1>1, SMTT(60)
  <2>6. QED BY <2>3, <2>4, <2>5
<1>6. /\ rest \in Seq(Functors) /\ Len(rest) = Len(b) - p
      /\ \A i \in 1..(Len(b) - p) : rest[i] = b[p + i]
  <2>1. \A i \in (p + 1)..Len(b) : b[i] \in Functors
    BY <1>1, <1>3
  <2>2. p + 1 \in Int /\ Len(b) \in Int
    BY <1>1
  <2>3. rest \in Seq(Functors)
    BY <2>1, <2>2, SubSeqProperties
  <2>4. Len(rest) = Len(b) - p
    BY <1>1, <2>1, <2>2, SubSeqProperties, SMTT(60)
  <2>5. \A i \in 1..(Len(b) - p) : rest[i] = b[p + i]
    BY <1>1, SMTT(60)
  <2>6. QED BY <2>3, <2>4, <2>5
<1>7. Todo(l) = rest \o pending[l] /\ Todo(l)' = more \o (pending[l] \o fs)
  <2>1. p + 1 + 1 = p + 2
    BY <1>1
  <2>2. QED BY <1>2, <2>1 DEF Todo
<1> HIDE DEF rest, more, b, p
<1>8. <<f>> \in Seq(Functors)
  BY <1>4
<1>9. rest = <<f>> \o more
  <2>1. /\ <<f>> \o more \in Seq(Functors)
        /\ Len(<<f>> \o more) = Len(b) - p
        /\ \A i \in 1..(Len(b) - p) : (<<f>> \o more)[i] = b[p + i]
    <3>1. /\ <<f>> \o more \in Seq(Functors)
          /\ Len(<<f>> \o more) = 1 + Len(more)
      BY <1>5, <1>8
    <3>2. Len(<<f>> \o more) = Len(b) - p
      BY <1>1, <1>5, <3>1
    <3>3. \A i \in 1..(1 + Len(more)) :
             (<<f>> \o more)[i] = IF i = 1 THEN f ELSE more[i - 1]
      BY <1>5, <1>8
    <3>4. ASSUME NEW i \in 1..(Len(b) - p) PROVE (<<f>> \o more)[i] = b[p + i]
      <4>1. i \in 1..(1 + Len(more)) /\ (i # 1 => i - 1 \in 1..(Len(b) - (p + 1)))
            /\ p + 1 + (i - 1) = p + i
        BY <1>1, <1>5
      <4>2. QED BY <1>1, <1>5, <3>3, <4>1
    <3>5. QED BY <3>1, <3>2, <3>4
  <2>2. \A i \in 1..Len(rest) : rest[i] = (<<f>> \o more)[i]
    BY <1>6, <2>1
  <2>3. QED BY <1>6, <2>1, <2>2, SeqEqual
<1>10. PICK u : u = more \o pending[l]
  OBVIOUS
<1>11. u \in Seq(Functors)
  BY <1>1, <1>5, <1>10, ConcatProperties
<1>12. Todo(l) = <<f>> \o u
  <2>1. (<<f>> \o more) \o pending[l] = <<f>> \o (more \o pending[l])
    BY <1>1, <1>5, <1>8, Associates, ZenonT(60)
  <2>2. QED BY <1>7, <1>9, <1>10, <2>1, Zenon
<1>13. Todo(l)' = u \o fs
  <2>1. (more \o pending[l]) \o fs = more \o (pending[l] \o fs)
    BY <1>1, <1>5, Associates, ZenonT(60)
  <2>2. QED BY <1>7, <1>10, <2>1, Zenon
<1>14. Todo(l) \in Seq(Functors)
  BY TodoTyped
<1>15. f \in Ahead(l)
  <2>1. Len(Todo(l)) >= 1 /\ Todo(l)[1] = f
    BY <1>11, <1>12
  <2>2. 1 \in 1..Len(Todo(l))
    BY <1>14, <2>1
  <2>3. QED BY <2>1, <2>2 DEF Ahead, Elements
<1>16. Ahead(l)' = Elements(Todo(l)') /\ Ahead(l) = Elements(Todo(l))
  BY DEF Ahead, Elements
<1> HIDE DEF Todo
<1>17. /\ Elements(u) \subseteq Elements(Todo(l))
       /\ Elements(Todo(l)) \ {f} \subseteq Elements(u)
       /\ EstablishedOnce(Todo(l))
            => /\ EstablishedOnce(u)
               /\ \A g \in Elements(u) :
                     f.kind = "connectEstablished" /\ g.kind = "connectEstablished"
                        => f.c # g.c
  BY <1>11, <1>12, <1>14, TakenTodo, ZenonT(60)
<1>18. /\ Todo(l)' \in Seq(Functors)
       /\ Elements(Todo(l)') = Elements(u) \union Elements(fs)
       /\ /\ EstablishedOnce(u)
          /\ \A g \in Elements(fs) : g.kind # "connectEstablished"
          => EstablishedOnce(Todo(l)')
  BY <1>11, <1>13, AppendedTodo
<1>19. QED BY <1>11, <1>12, <1>13, <1>15, <1>16, <1>17, <1>18 DEF TodoStep, Advances

(* A loop takes what was queued, or ends its round. *)
LEMMA TodoRound ==
  ASSUME BatchTyped, QueueTyped, NEW l \in Loops,
         \/ batch[l] = <<>> /\ pos[l] = 0 /\ SwapFunctors(l)
         \/ EndFunctors(l)
  PROVE  Todo(l)' = Todo(l)
<1>1. batch[l] \in Seq(Functors) /\ pending[l] \in Seq(Functors) /\ pos[l] \in Nat
  BY DEF BatchTyped, QueueTyped
<1>2. CASE batch[l] = <<>> /\ pos[l] = 0 /\ SwapFunctors(l)
  <2>1. batch'[l] = pending[l] /\ pending'[l] = <<>> /\ pos'[l] = 0
    BY <1>2 DEF SwapFunctors, BatchTyped, QueueTyped
  <2>2. Todo(l)' = SubSeq(pending[l], 1, Len(pending[l])) \o <<>>
    BY <2>1 DEF Todo
  <2>3. Todo(l) = SubSeq(<<>>, 1, 0) \o pending[l]
    BY <1>2 DEF Todo
  <2>4. SubSeq(<<>>, 1, 0) = <<>>
    OBVIOUS
  <2>5. SubSeq(pending[l], 1, Len(pending[l])) = pending[l]
    BY <1>1
  <2>6. QED BY <1>1, <2>2, <2>3, <2>4, <2>5, ConcatEmptySeq
<1>3. CASE EndFunctors(l)
  <2>1. batch'[l] = <<>> /\ pos'[l] = 0 /\ pending'[l] = pending[l] /\ pos[l] = Len(batch[l])
    BY <1>3 DEF EndFunctors, BatchTyped
  <2>2. Todo(l)' = SubSeq(<<>>, 1, 0) \o pending[l]
    BY <2>1 DEF Todo
  <2>3. SubSeq(<<>>, 1, 0) = <<>>
    OBVIOUS
  <2>4. SubSeq(batch[l], pos[l] + 1, Len(batch[l])) = <<>>
    BY <1>1, <2>1
  <2>5. QED BY <2>2, <2>3, <2>4 DEF Todo
<1>4. QED BY <1>2, <1>3
-----------------------------------------------------------------------------
(* The invariant.                                                          *)

(* connectEstablished has run. *)
Settled(c) == conn[c].state \in {"kConnected", "kDisconnected"}

(* A loop has functors in hand only while it runs them, and active         *)
(* channels only while it serves them; connectDestroyed is a functor.      *)
PhaseOK(l) ==
  /\ pos[l] <= Len(batch[l])
  /\ phase[l] # "run" => batch[l] = <<>> /\ pos[l] = 0
  /\ phase[l] # "dispatch" => active[l] = {} /\ frame[l].due = {}
  /\ phase[l] = "poll" => frame[l].c \notin Conns
  /\ frame[l].cb = "down" => phase[l] = "run"

(* A channel that waits to be served is registered, in its own loop, and   *)
(* is not the one being served.                                            *)
ActiveOK(l) ==
  \A c \in Conns : c \in active[l] =>
     /\ Settled(c) /\ conn[c].loop = l
     /\ conn[c].chan.index = "ADDED"
     /\ frame[l].c # c

(* A handler runs in the loop of its connection.  The callbacks that are   *)
(* still due are not those of a channel that has been removed.             *)
FrameOK(l) ==
  frame[l].c \in Conns =>
     LET c == frame[l].c
     IN  /\ Settled(c) /\ conn[c].loop = l
         /\ frame[l].due # {} => conn[c].chan.index # "NEW"
         /\ "close" \in frame[l].due \/ "read" \in frame[l].due => conn[c].chan.index = "ADDED"
         /\ "close" \notin frame[l].due \/ "read" \notin frame[l].due
         /\ frame[l].cb \in {"close", "down"} => hist[c].closed
         /\ frame[l].cb = "down" => conn[c].state = "kDisconnected"
         /\ frame[l].cb = "close" => conn[c].chan.index # "NEW"

(* No thread gets hold of a connection that is not established yet. *)
UserOK(u) == user[u].c \in Conns => Settled(user[u].c)

(* Functor f waits in the right loop and at the right time: the one that   *)
(* establishes before all others, those that destroy after handleClose.    *)
Fit(l, f) ==
  /\ f.kind = "removeConnectionInLoop" => l = Main
  /\ f.kind # "removeConnectionInLoop" => conn[f.c].loop = l
  /\ f.kind = "connectEstablished" => conn[f.c].state = "kConnecting"
  /\ f.kind # "connectEstablished" => Settled(f.c)
  /\ f.kind \in {"removeConnectionInLoop", "connectDestroyed"} => hist[f.c].closed

TodoOK(l) == /\ \A f \in Ahead(l) : Fit(l, f)
             /\ EstablishedOnce(Todo(l))

(* connectDestroyed is in its connection callback, or is still to run. *)
InDown(c)  == \E l \in Loops : frame[l].c = c /\ frame[l].cb = "down"
Falling(c) == \/ InDown(c)
              \/ \E l \in Loops : \E f \in Ahead(l) : f.kind = "connectDestroyed" /\ f.c = c

(* Not established yet: nothing has happened. *)
Untouched(c) == /\ conn[c].chan.index = "NEW" /\ conn[c].chan.events = {}
                /\ conn[c].out = <<>>
                /\ ~hist[c].closed /\ hist[c].downs = 0

(* The connection itself. *)
ConnOK(c) ==
  /\ ~Created(c) => Untouched(c) /\ conn[c].loop = Main /\ c \notin connections
  /\ conn[c].state = "kConnecting" => Untouched(c) /\ c \in connections
  /\ conn[c].state = "kConnected" => conn[c].chan.index # "NEW" /\ hist[c].downs = 0
  /\ Created(c) /\ c \notin connections => hist[c].closed
  /\ conn[c].chan.index = "DELETED" => conn[c].chan.events = {}
  /\ conn[c].chan.index # "NEW" => c \in connections \/ Falling(c)
  /\ hist[c].downs \in {0, 1}
  /\ hist[c].downs = 1 => /\ hist[c].closed /\ conn[c].state = "kDisconnected"
                          /\ conn[c].chan.events = {}
                          /\ conn[c].chan.index # "ADDED" \/ InDown(c)
  /\ conn[c].state = "kDisconnected" /\ hist[c].closed /\ ~hist[c].lateShut
        => hist[c].downs = 1

LoopOK(l) == PhaseOK(l) /\ ActiveOK(l) /\ FrameOK(l)

Life == /\ \A l \in Loops : LoopOK(l) /\ TodoOK(l)
        /\ \A u \in Users : UserOK(u)
        /\ \A c \in Conns : ConnOK(c)

-----------------------------------------------------------------------------
(* What most steps leave as it was.                                        *)

(* A step never takes a connection back in its life. *)
Grows(c) == /\ Created(c) => Created(c)' /\ conn'[c].loop = conn[c].loop
            /\ Settled(c) => Settled(c)'
            /\ conn[c].state = "kDisconnected" => conn'[c].state = "kDisconnected"
            /\ hist[c].closed => hist'[c].closed

(* All that ConnOK reads of a connection and its history is the same. *)
Same(c) == /\ conn'[c].state = conn[c].state /\ conn'[c].loop = conn[c].loop
           /\ conn'[c].out = conn[c].out
           /\ conn'[c].chan.events = conn[c].chan.events
           /\ conn'[c].chan.index = conn[c].chan.index
           /\ hist'[c].closed = hist[c].closed /\ hist'[c].downs = hist[c].downs
           /\ hist'[c].lateShut = hist[c].lateShut

(* Then the connection has not changed in any other respect, either. *)
LEMMA SameGrows == ASSUME NEW c, Same(c) PROVE Grows(c)
  BY DEF Same, Grows, Created, Settled

(* No TcpConnection is "no connection". *)
LEMMA NoFrameIsEmpty ==
  NoConn \notin Conns /\ NoFrame.c = NoConn /\ NoFrame.cb = "none" /\ NoFrame.due = {}
  BY NameAssumption DEF NoFrame

(* The thread of loop l does nothing. *)
LoopRests(l) == /\ phase'[l] = phase[l] /\ active'[l] = active[l] /\ frame'[l] = frame[l]
                /\ batch'[l] = batch[l] /\ pos'[l] = pos[l]

(* Then what is true of it stays true, whatever happens elsewhere. *)
LEMMA LoopKeeps ==
  ASSUME NEW l \in Loops, LoopOK(l), LoopRests(l),
         \A c \in Conns : Grows(c),
         \A c \in Conns : conn[c].loop = l /\ Settled(c) =>
            conn'[c].chan.index \in {conn[c].chan.index, "ADDED"}
  PROVE  LoopOK(l)'
<1>1. PhaseOK(l)'
  BY DEF LoopOK, LoopRests, PhaseOK
<1>2. ActiveOK(l)'
  <2> SUFFICES ASSUME NEW c \in Conns, c \in active'[l]
               PROVE  /\ Settled(c)' /\ conn'[c].loop = l
                      /\ conn'[c].chan.index = "ADDED"
                      /\ frame'[l].c # c
    BY DEF ActiveOK
  <2>1. Settled(c) /\ conn[c].loop = l /\ conn[c].chan.index = "ADDED" /\ frame[l].c # c
    BY SMTT(60) DEF LoopRests, LoopOK, ActiveOK
  <2>2. QED BY <2>1 DEF LoopRests, Grows, Settled, Created
<1>3. FrameOK(l)'
  <2> SUFFICES ASSUME frame'[l].c \in Conns PROVE FrameOK(l)'
    BY DEF FrameOK
  <2>1. PICK c \in Conns : c = frame[l].c
    BY DEF LoopRests
  <2>2. Settled(c) /\ conn[c].loop = l /\ Grows(c)
        /\ conn'[c].chan.index \in {conn[c].chan.index, "ADDED"}
    BY <2>1 DEF LoopOK, FrameOK
  <2>3. Settled(c)' /\ conn'[c].loop = l
    BY <2>2 DEF Grows, Settled, Created
  <2>4. QED BY <2>1, <2>2, <2>3 DEF LoopOK, LoopRests, FrameOK, Grows
<1>4. QED BY <1>1, <1>2, <1>3 DEF LoopOK

(* The functors that wait stay fit. *)
LEMMA FitKeeps ==
  ASSUME NEW l, NEW f, Fit(l, f), Grows(f.c),
         f.kind = "connectEstablished" => conn'[f.c].state = "kConnecting"
  PROVE  Fit(l, f)'
<1>1. Created(f.c)
  BY DEF Fit, Settled, Created
<1>2. QED BY <1>1 DEF Fit, Grows

(* What a step does to the lists of functors, when it may touch the        *)
(* connections T.                                                          *)
TodosKept(T) ==
  \A l \in Loops : \E gone, fresh \in SUBSET Functors :
     /\ TodoStep(l, gone, fresh)
     /\ \A f \in gone : f.kind = "connectDestroyed" => f.c \in T
     /\ \A f \in fresh : f.kind # "connectEstablished" /\ Fit(l, f)'
     /\ \A f \in Ahead(l) : f.kind = "connectEstablished" /\ f \in Ahead(l)'
                               => conn'[f.c].state = "kConnecting"

(* The connection callback of connectDestroyed goes on, unless on T. *)
DownKept(T) == \A l \in Loops : frame[l].cb = "down" /\ frame[l].c \notin T
                                   => frame'[l].cb = "down" /\ frame'[l].c = frame[l].c

(* A connection that is still to be destroyed remains so. *)
LEMMA FallingKeeps ==
  ASSUME NEW T, NEW c, c \notin T, TodosKept(T), DownKept(T)
  PROVE  (InDown(c) => InDown(c)') /\ (Falling(c) => Falling(c)')
<1>1. InDown(c) => InDown(c)'
  BY DEF InDown, DownKept
<1>2. ASSUME NEW l \in Loops, NEW f \in Ahead(l), f.kind = "connectDestroyed", f.c = c
      PROVE  f \in Ahead(l)'
  BY <1>2 DEF TodosKept, TodoStep
<1>3. QED BY <1>1, <1>2 DEF Falling

(* What a step may do to fewer connections. *)
LEMMA KeptMore ==
  ASSUME NEW T PROVE (TodosKept({}) => TodosKept(T)) /\ (DownKept({}) => DownKept(T))
  BY DEF TodosKept, DownKept

(* What has to be shown of a step. *)
LEMMA LifeStep ==
  ASSUME Typed, Life, NEW T \in SUBSET Conns,
         \A c \in Conns : Grows(c),
         \A c \in Conns \ T : Same(c) /\ (c \in connections' <=> c \in connections),
         TodosKept(T), DownKept(T),
         \A c \in T : ConnOK(c)',
         \A l \in Loops : LoopOK(l)',
         \A u \in Users : UserOK(u)'
  PROVE  Life'
<1>1. ASSUME NEW l \in Loops PROVE TodoOK(l)'
  <2>1. PICK gone \in SUBSET Functors, fresh \in SUBSET Functors :
           /\ TodoStep(l, gone, fresh)
           /\ \A f \in fresh : f.kind # "connectEstablished" /\ Fit(l, f)'
           /\ \A f \in Ahead(l) : f.kind = "connectEstablished" /\ f \in Ahead(l)'
                                     => conn'[f.c].state = "kConnecting"
    BY DEF TodosKept
  <2>2. EstablishedOnce(Todo(l)')
    BY <2>1 DEF Life, TodoOK, TodoStep
  <2>3. EstablishedOnce(Todo(l))'
    BY <2>2 DEF EstablishedOnce
  <2>4. ASSUME NEW f \in Ahead(l)' PROVE Fit(l, f)'
    <3>1. CASE f \in fresh
      BY <2>1, <3>1
    <3>2. CASE f \in Ahead(l)
      <4>1. Fit(l, f)
        BY <3>2 DEF Life, TodoOK
      <4>2. f.c \in Conns
        <5>1. Todo(l) \in Seq(Functors)
          BY TodoTyped DEF Typed
        <5>2. f \in Functors
          <6> HIDE DEF Todo
          <6>1. PICK i \in 1..Len(Todo(l)) : f = Todo(l)[i]
            BY <3>2 DEF Ahead, Elements
          <6>2. QED BY <5>1, <6>1, ElementOfSeq
        <5>3. QED BY <5>2 DEF Functors, FunctorType
      <4>3. QED BY <2>1, <2>4, <3>2, <4>1, <4>2, FitKeeps
    <3>3. QED BY <2>1, <2>4, <3>1, <3>2 DEF TodoStep
  <2>5. QED BY <2>3, <2>4 DEF TodoOK
<1>2. ASSUME NEW c \in Conns \ T PROVE ConnOK(c)'
  <2>1. ConnOK(c) /\ Same(c) /\ (c \in connections' <=> c \in connections)
    BY DEF Life
  <2>2. (InDown(c) => InDown(c)') /\ (Falling(c) => Falling(c)')
    BY FallingKeeps
  <2>3. QED BY <2>1, <2>2 DEF ConnOK, Same, Untouched, Created
<1>3. QED BY <1>1, <1>2 DEF Life

(* What waits is a functor on a connection. *)
LEMMA AheadTyped ==
  ASSUME Typed, NEW l \in Loops
  PROVE  \A f \in Ahead(l) : f \in Functors /\ f.c \in Conns
<1>1. Todo(l) \in Seq(Functors)
  BY TodoTyped DEF Typed
<1> SUFFICES ASSUME NEW f \in Ahead(l) PROVE f \in Functors /\ f.c \in Conns
  OBVIOUS
<1> HIDE DEF Todo
<1>2. PICK i \in 1..Len(Todo(l)) : f = Todo(l)[i]
  BY DEF Ahead, Elements
<1>3. f \in Functors
  BY <1>1, <1>2, ElementOfSeq
<1>4. QED BY <1>3 DEF Functors, FunctorType

(* Queueing nothing. *)
LEMMA QueueNothing ==
  ASSUME QueueTyped, NEW l \in Loops, pending' = pending
  PROVE  Queue(l, <<>>) /\ <<>> \in Seq(Functors) /\ Elements(<<>>) = {}
<1>1. pending[l] \o <<>> = pending[l]
  <2>1. pending[l] \in Seq(Functors)
    BY DEF QueueTyped
  <2>2. QED BY <2>1, ConcatEmptySeq
<1>2. Queue(l, <<>>)
  BY <1>1 DEF Queue, QueueTyped
<1>3. QED BY <1>2 DEF Elements

(* No list changes but that of loop k, which is given fs. *)
LEMMA TodosQueue ==
  ASSUME Typed, NEW k \in Loops, NEW fs \in Seq(Functors), Queue(k, fs),
         UNCHANGED <<batch, pos>>,
         \A f \in Elements(fs) : f.kind # "connectEstablished" /\ Fit(k, f)',
         \A l \in Loops : \A f \in Ahead(l) : f.kind = "connectEstablished"
                                                => conn'[f.c].state = "kConnecting"
  PROVE  TodosKept({})
<1>1. Elements(fs) \in SUBSET Functors
  BY ElementOfSeq DEF Elements
<1>2. TodoStep(k, {}, Elements(fs)) /\ \A l \in Loops \ {k} : pending'[l] = pending[l]
  BY TodoQueued DEF Typed
<1>3. ASSUME NEW l \in Loops \ {k} PROVE TodoStep(l, {}, {})
  <2>1. Todo(l)' = Todo(l)
    BY <1>2 DEF Todo
  <2>2. QED BY <2>1, TodoStays DEF Typed
<1>4. QED BY <1>1, <1>2, <1>3 DEF TodosKept

(* Loop k starts functor f, and fs is queued in loop q. *)
LEMMA TodosStart ==
  ASSUME Typed, Life, NEW k \in Loops, NEW f, Starts(k, f), NEW T \in SUBSET Conns,
         NEW q \in Loops, NEW fs \in Seq(Functors), Queue(q, fs),
         f.kind = "connectDestroyed" => f.c \in T,
         \A g \in Elements(fs) : g.kind # "connectEstablished" /\ Fit(q, g)',
         \A c \in Conns : conn[c].state = "kConnecting" =>
            \/ conn'[c].state = "kConnecting"
            \/ f.kind = "connectEstablished" /\ f.c = c
  PROVE  TodosKept(T) /\ Fit(k, f) /\ f \in Functors /\ f.c \in Conns
<1>1. Elements(fs) \in SUBSET Functors /\ Elements(<<>>) = {} /\ <<>> \in Seq(Functors)
  BY ElementOfSeq DEF Elements
<1>2. /\ pending[k] \in Seq(Functors)
      /\ pending'[q] = pending[q] \o fs
      /\ \A l \in Loops \ {q} : pending'[l] = pending[l]
  BY DEF Queue, Typed, QueueTyped
<1>3. \A l \in Loops \ {k} : batch'[l] = batch[l] /\ pos'[l] = pos[l]
  BY DEF Starts, Typed, BatchTyped
<1>4. CASE k = q
  <2>1. f \in Ahead(k) /\ TodoStep(k, {f}, Elements(fs))
    BY <1>2, <1>4, TodoStarted DEF Typed
  <2>2. ASSUME NEW l \in Loops \ {k} PROVE TodoStep(l, {}, {})
    <3>1. Todo(l)' = Todo(l)
      BY <1>2, <1>3, <1>4 DEF Todo
    <3>2. QED BY <3>1, TodoStays DEF Typed
  <2>3. Fit(k, f) /\ f \in Functors /\ f.c \in Conns
    BY <2>1, AheadTyped DEF Life, TodoOK
  <2>4. \A l \in Loops : \A g \in Ahead(l) :
           g.kind = "connectEstablished" /\ g \in Ahead(l)' => conn'[g.c].state = "kConnecting"
    <3> SUFFICES ASSUME NEW l \in Loops, NEW g \in Ahead(l), g \in Ahead(l)',
                        g.kind = "connectEstablished"
                 PROVE  conn'[g.c].state = "kConnecting"
      OBVIOUS
    <3>1. Fit(l, g) /\ g.c \in Conns
      BY AheadTyped DEF Life, TodoOK
    <3>2. ~(f.kind = "connectEstablished" /\ f.c = g.c)
      <4>1. CASE l = k
        BY <2>1, <4>1 DEF TodoStep, Life, TodoOK
      <4>2. CASE l # k
        BY <2>3, <3>1, <4>2 DEF Fit
      <4>3. QED BY <4>1, <4>2
    <3>3. QED BY <3>1, <3>2 DEF Fit
  <2>5. QED BY <1>1, <1>4, <2>1, <2>2, <2>3, <2>4 DEF TodosKept
<1>5. CASE k # q
  <2>1. f \in Ahead(k) /\ TodoStep(k, {f}, {})
    <3>1. pending'[k] = pending[k] \o <<>>
      BY <1>2, <1>5, ConcatEmptySeq
    <3>2. QED BY <1>1, <3>1, TodoStarted DEF Typed
  <2>2. TodoStep(q, {}, Elements(fs))
    BY <1>3, <1>5, TodoQueued DEF Typed
  <2>3. ASSUME NEW l \in Loops \ {k, q} PROVE TodoStep(l, {}, {})
    <3>1. Todo(l)' = Todo(l)
      BY <1>2, <1>3 DEF Todo
    <3>2. QED BY <3>1, TodoStays DEF Typed
  <2>4. Fit(k, f) /\ f \in Functors /\ f.c \in Conns
    BY <2>1, AheadTyped DEF Life, TodoOK
  <2>5. \A l \in Loops : \A g \in Ahead(l) :
           g.kind = "connectEstablished" /\ g \in Ahead(l)' => conn'[g.c].state = "kConnecting"
    <3> SUFFICES ASSUME NEW l \in Loops, NEW g \in Ahead(l), g \in Ahead(l)',
                        g.kind = "connectEstablished"
                 PROVE  conn'[g.c].state = "kConnecting"
      OBVIOUS
    <3>1. Fit(l, g) /\ g.c \in Conns
      BY AheadTyped DEF Life, TodoOK
    <3>2. ~(f.kind = "connectEstablished" /\ f.c = g.c)
      <4>1. CASE l = k
        BY <2>1, <4>1 DEF TodoStep, Life, TodoOK
      <4>2. CASE l # k
        BY <2>4, <3>1, <4>2 DEF Fit
      <4>3. QED BY <4>1, <4>2
    <3>3. QED BY <3>1, <3>2 DEF Fit
  <2>6. QED
    <3> SUFFICES ASSUME NEW l \in Loops
                 PROVE  \E gone, fresh \in SUBSET Functors :
                           /\ TodoStep(l, gone, fresh)
                           /\ \A g \in gone : g.kind = "connectDestroyed" => g.c \in T
                           /\ \A g \in fresh : g.kind # "connectEstablished" /\ Fit(l, g)'
      BY <2>4, <2>5 DEF TodosKept
    <3>1. CASE l = k
      BY <2>1, <2>4, <3>1
    <3>2. CASE l = q
      BY <1>1, <2>2, <3>2
    <3>3. CASE l \notin {k, q}
      BY <2>3, <3>3
    <3>4. QED BY <3>1, <3>2, <3>3
<1>6. QED BY <1>4, <1>5

(* Functors on a settled connection that neither establish nor destroy it  *)
(* are fit for its loop.                                                   *)
LEMMA QuietFits ==
  ASSUME NEW c \in Conns, Settled(c), Grows(c), NEW fs \in Seq(Quiet(c)),
         NEW l, conn[c].loop = l
  PROVE  /\ fs \in Seq(Functors)
         /\ \A f \in Elements(fs) : f.kind # "connectEstablished" /\ Fit(l, f)'
<1>1. fs \in Seq(Functors)
  BY SeqMonotonic DEF Quiet
<1>2. ASSUME NEW f \in Elements(fs) PROVE f.kind # "connectEstablished" /\ Fit(l, f)'
  <2>1. f \in Quiet(c)
    BY ElementOfSeq DEF Elements
  <2>2. Settled(c)' /\ conn'[c].loop = conn[c].loop
    BY DEF Grows, Settled, Created
  <2>3. QED BY <2>1, <2>2 DEF Quiet, Fit
<1>3. QED BY <1>1, <1>2

(* The threads hold what they held, or a settled connection, or nothing. *)
LEMMA UsersKeep ==
  ASSUME Life, \A c \in Conns : Grows(c),
         \A u \in Users : user'[u].c \in Conns => user'[u].c = user[u].c \/ Settled(user'[u].c)
  PROVE  \A u \in Users : UserOK(u)'
  BY DEF Life, UserOK, Grows

(* Only sockets, counters and threads change. *)
LEMMA CalmLife ==
  ASSUME Typed, Life, UNCHANGED <<conn, hist, connections, pending, loopVars, frame>>,
         \A u \in Users : user'[u].c \in Conns => user'[u].c = user[u].c \/ Settled(user'[u].c)
  PROVE  Life'
<1>1. \A c \in Conns : Same(c) /\ Grows(c) /\ (c \in connections' <=> c \in connections)
  BY SameGrows DEF Same
<1>2. Main \in Loops
  BY NextLoopIsLoop DEF Typed
<1>3. Queue(Main, <<>>) /\ <<>> \in Seq(Functors) /\ Elements(<<>>) = {}
  BY <1>2, QueueNothing DEF Typed
<1>4. UNCHANGED <<batch, pos>>
  BY DEF loopVars
<1>5. \A l \in Loops : \A f \in Ahead(l) : f.kind = "connectEstablished"
                                                => conn'[f.c].state = "kConnecting"
  BY DEF Life, TodoOK, Fit
<1>6. TodosKept({})
  BY <1>2, <1>3, <1>4, <1>5, TodosQueue
<1>7. DownKept({})
  BY DEF DownKept
<1>8. \A l \in Loops : LoopOK(l)'
  <2>1. ASSUME NEW l \in Loops PROVE LoopOK(l)'
    <3>1. LoopRests(l) /\ LoopOK(l)
      BY DEF LoopRests, loopVars, Life
    <3>2. QED BY <1>1, <3>1, LoopKeeps DEF Same
  <2>2. QED BY <2>1
<1>9. \A u \in Users : UserOK(u)'
  BY <1>1, UsersKeep
<1>10. QED BY <1>1, <1>6, <1>7, <1>8, <1>9, LifeStep

(* Only connection c changes, which no loop has seen yet. *)
LEMMA UnseenLife ==
  ASSUME Typed, Life, NEW c \in Conns, ~Created(c), ConnOK(c)',
         \A d \in Conns \ {c} : conn'[d] = conn[d],
         UNCHANGED <<hist, connections, pending, batch, pos, user>>,
         \A l \in Loops : LoopOK(l)',
         DownKept({})
  PROVE  Life'
<1>1. \A d \in Conns \ {c} : Same(d) /\ Grows(d) /\ (d \in connections' <=> d \in connections)
  BY SameGrows DEF Same
<1>2. Grows(c)
  BY DEF Grows, Created, Settled
<1>3. Main \in Loops
  BY NextLoopIsLoop DEF Typed
<1>4. Queue(Main, <<>>) /\ <<>> \in Seq(Functors) /\ Elements(<<>>) = {}
  BY <1>3, QueueNothing DEF Typed
<1>5. \A l \in Loops : \A f \in Ahead(l) : f.kind = "connectEstablished"
                                                => conn'[f.c].state = "kConnecting"
  <2> SUFFICES ASSUME NEW l \in Loops, NEW f \in Ahead(l), f.kind = "connectEstablished"
               PROVE  conn'[f.c].state = "kConnecting"
    OBVIOUS
  <2>1. f.c \in Conns /\ conn[f.c].state = "kConnecting"
    BY AheadTyped DEF Life, TodoOK, Fit
  <2>2. QED BY <2>1 DEF Created
<1>6. TodosKept({c}) /\ DownKept({c})
  BY <1>3, <1>4, <1>5, TodosQueue, KeptMore
<1>7. \A u \in Users : UserOK(u)'
  BY <1>1, <1>2, UsersKeep
<1>8. QED BY <1>1, <1>2, <1>6, <1>7, LifeStep
-----------------------------------------------------------------------------
(* Every step keeps the invariant.                                         *)

(* The peers. *)
LEMMA PeerLife ==
  ASSUME Typed, Life, NEW c \in Conns, PeerStep(c) \/ PeerRead(c)
  PROVE  Life'
<1>1. CASE Connect(c)
  <2>1. conn[c].chan \in ChannelType /\ conn' = [conn EXCEPT ![c].state = "backlog"]
        /\ conn[c].state = "none"
    BY <1>1 DEF Connect, Typed, ConnTyped, ConnType
  <2>2. Becomes(c, "backlog", conn[c].chan)
    BY <2>1, BecomesEffect DEF Typed
  <2>3. UNCHANGED <<hist, connections, pending, batch, pos, user, frame, active, phase>>
    BY <1>1 DEF Connect, loopVars
  <2>4. ConnOK(c)
    BY DEF Life
  <2>5. ~Created(c) /\ ConnOK(c)'
    BY <2>1, <2>2, <2>3, <2>4 DEF Becomes, Created, ConnOK, Untouched
  <2>6. \A d \in Conns : Grows(d) /\ conn'[d].chan.index = conn[d].chan.index
    BY <2>2, <2>3, <2>5 DEF Becomes, Grows, Created, Settled
  <2>7. \A l \in Loops : LoopOK(l)'
    <3>1. ASSUME NEW l \in Loops PROVE LoopOK(l)'
      <4>1. LoopRests(l) /\ LoopOK(l)
        BY <2>3 DEF LoopRests, Life
      <4>2. QED BY <2>6, <4>1, LoopKeeps
    <3>2. QED BY <3>1
  <2>8. DownKept({})
    BY <2>3 DEF DownKept
  <2>9. QED BY <2>2, <2>3, <2>5, <2>7, <2>8, UnseenLife DEF Becomes
<1>2. CASE UNCHANGED <<conn, hist, connections, pending, loopVars, frame, user>>
  BY <1>2, CalmLife
<1>3. QED
  BY <1>1, <1>2 DEF PeerStep, PeerSend, PeerFin, PeerReset, PeerRead, PeerActs

(* sendInLoop on a connection that is up. *)
LEMMA SendsConn ==
  ASSUME Typed, Life, NEW c \in Conns, conn[c].state = "kConnected",
         Only(c), SameLife(c), NEW m, NEW n \in 0..MsgLen, NEW given \in BOOLEAN,
         Sends(c, m, n, given), connections' = connections
  PROVE  /\ \A d \in Conns : Grows(d)
         /\ \A d \in Conns \ {c} : Same(d)
         /\ conn'[c].chan.index \in {conn[c].chan.index, "ADDED"}
         /\ (InDown(c) => InDown(c)') /\ (Falling(c) => Falling(c)') => ConnOK(c)'
<1>1. \A d \in Conns \ {c} : Same(d) /\ Grows(d)
  BY SameGrows DEF Only, Same
<1>2. Grows(c)
  BY DEF SameLife, Grows, Created, Settled
<1>3. ConnOK(c) /\ conn[c].chan \in ChannelType
  BY DEF Life, Typed, ConnTyped, ConnType
<1>4. CASE conn'[c].chan = conn[c].chan
  BY <1>1, <1>2, <1>3, <1>4 DEF ConnOK, SameLife, Created
<1>5. CASE conn'[c].chan = EnableWriting(conn[c].chan)
  <2>1. conn'[c].chan.index = "ADDED"
    BY <1>3, <1>5, ChannelEffect DEF OpEffect
  <2>2. QED BY <1>1, <1>2, <1>3, <2>1 DEF ConnOK, SameLife, Created
<1>6. QED BY <1>4, <1>5 DEF Sends

(* shutdown() on an established connection. *)
LEMMA ShutsDownConn ==
  ASSUME Typed, Life, NEW c \in Conns, Settled(c), ShutsDown(c), connections' = connections
  PROVE  /\ \A d \in Conns : Grows(d)
         /\ \A d \in Conns \ {c} : Same(d)
         /\ conn'[c].chan.index = conn[c].chan.index
         /\ (InDown(c) => InDown(c)') /\ (Falling(c) => Falling(c)') => ConnOK(c)'
<1>1. \A d \in Conns \ {c} : Same(d) /\ Grows(d)
  BY SameGrows DEF ShutsDown, Becomes, Same
<1>2. Grows(c) /\ conn'[c].chan = conn[c].chan /\ conn'[c].state = "kDisconnected"
      /\ conn'[c].out = conn[c].out
  BY DEF ShutsDown, Becomes, Grows, Created, Settled
<1>3. ConnOK(c) /\ hist[c].lateShut \in BOOLEAN /\ hist[c].closed \in BOOLEAN
  BY DEF Life, Typed, HistTyped, HistType
<1>4. /\ hist'[c].closed = hist[c].closed /\ hist'[c].downs = hist[c].downs
      /\ hist[c].closed => hist'[c].lateShut
  BY <1>3 DEF ShutsDown
<1>5. Created(c) /\ conn[c].state # "kConnecting"
  BY DEF Settled, Created
<1>6. (InDown(c) => InDown(c)') /\ (Falling(c) => Falling(c)') => ConnOK(c)'
  BY <1>2, <1>3, <1>4, <1>5 DEF ConnOK, Created
<1>7. QED BY <1>1, <1>2, <1>6

(* A step on the settled connection c that no loop notices, but for what   *)
(* is queued.                                                              *)
LEMMA TouchLife ==
  ASSUME Typed, Life, NEW c \in Conns, Settled(c),
         \A d \in Conns : Grows(d), \A d \in Conns \ {c} : Same(d),
         conn'[c].chan.index \in {conn[c].chan.index, "ADDED"},
         (InDown(c) => InDown(c)') /\ (Falling(c) => Falling(c)') => ConnOK(c)',
         QueuesQuiet(conn[c].loop, c) \/ pending' = pending,
         UNCHANGED <<connections, loopVars, frame>>,
         \A u \in Users : user'[u].c = user[u].c
  PROVE  Life'
<1>1. PICK l \in Loops : l = conn[c].loop
  BY DEF Typed, ConnTyped, ConnType
<1>2. PICK fs \in Seq(Quiet(c)) : Queue(l, fs)
  <2>1. CASE pending' = pending
    <3>1. Queue(l, <<>>) /\ <<>> \in Seq(Quiet(c))
      BY <1>1, <2>1, QueueNothing DEF Typed
    <3>2. QED BY <3>1
  <2>2. QED BY <1>1, <2>1 DEF QueuesQuiet
<1>3. fs \in Seq(Functors)
      /\ \A f \in Elements(fs) : f.kind # "connectEstablished" /\ Fit(l, f)'
  BY <1>1, QuietFits
<1>4. \A k \in Loops : \A f \in Ahead(k) : f.kind = "connectEstablished"
                                                => conn'[f.c].state = "kConnecting"
  <2> SUFFICES ASSUME NEW k \in Loops, NEW f \in Ahead(k), f.kind = "connectEstablished"
               PROVE  conn'[f.c].state = "kConnecting"
    OBVIOUS
  <2>1. f.c \in Conns /\ conn[f.c].state = "kConnecting"
    BY AheadTyped DEF Life, TodoOK, Fit
  <2>2. f.c # c
    BY <2>1 DEF Settled
  <2>3. QED BY <2>1, <2>2 DEF Same
<1>5. UNCHANGED <<batch, pos>>
  BY DEF loopVars
<1>6. TodosKept({})
  BY <1>1, <1>2, <1>3, <1>4, <1>5, TodosQueue
<1>7. DownKept({})
  BY DEF DownKept
<1>8. ConnOK(c)'
  BY <1>6, <1>7, FallingKeeps
<1>9. \A k \in Loops : LoopOK(k)'
  <2>1. ASSUME NEW k \in Loops PROVE LoopOK(k)'
    <3>1. LoopRests(k) /\ LoopOK(k)
      BY DEF LoopRests, loopVars, Life
    <3>2. \A d \in Conns : conn'[d].chan.index \in {conn[d].chan.index, "ADDED"}
      BY DEF Same
    <3>3. QED BY <3>1, <3>2, LoopKeeps
  <2>2. QED BY <2>1
<1>10. \A u \in Users : UserOK(u)'
  BY UsersKeep
<1>11. TodosKept({c}) /\ DownKept({c})
  BY <1>6, <1>7, KeptMore
<1>12. QED BY <1>8, <1>9, <1>10, <1>11, LifeStep

(* The threads that are not loops. *)
LEMMA UserThreadLife ==
  ASSUME Typed, Life, NEW u \in Users, UserStep(u) \/ UserFinishes(u)
  PROVE  Life'
<1>1. user \in [Users -> UserType] /\ NoConn \notin Conns
  BY NoFrameIsEmpty DEF Typed, UserTyped
<1>2. CASE UserStep(u)
  <2>1. UNCHANGED <<conn, hist, connections, pending, loopVars, frame>>
    BY <1>2 DEF UserStep, UserTestsForSend, UserTestsForShutdown, UserDrops
  <2>2. ASSUME NEW v \in Users PROVE user'[v].c \in {user[v].c, NoConn}
    <3>1. ASSUME NEW call, UserTestsForSend(u, call) PROVE user'[v].c = user[v].c
      <4>1. user' = [user EXCEPT ![u].pc = call, ![u].msg = sends + 1]
        BY <3>1 DEF UserTestsForSend
      <4>2. QED BY <1>1, <4>1 DEF UserType
    <3>2. CASE UserTestsForShutdown(u)
      BY <1>1, <3>2 DEF UserTestsForShutdown, UserGoes, UserType
    <3>3. CASE UserDrops(u)
      BY <1>1, <3>3 DEF UserDrops, UserType
    <3>4. QED BY <1>2, <3>1, <3>2, <3>3 DEF UserStep
  <2>3. QED BY <1>1, <2>1, <2>2, CalmLife
<1>3. CASE UserFinishes(u)
  <2>1. PICK c \in Conns : c = user[u].c
    BY <1>3 DEF UserFinishes, UserQueuesSend, UserQueuesFile, UserSetsState, UserQueuesShutdown,
       UserGoes, Typed, UserTyped
  <2>2. Settled(c)
    BY <2>1 DEF Life, UserOK
  <2>3. UNCHANGED <<connections, loopVars, frame>>
    BY <1>3, SMTT(60) DEF UserFinishes, UserQueuesSend, UserQueuesFile, UserSetsState, UserQueuesShutdown
  <2>4. \A v \in Users : user'[v].c = user[v].c
    <3>1. CASE user' = [user EXCEPT ![u].pc = "idle", ![u].msg = 0]
      BY <1>1, <3>1 DEF UserType
    <3>2. CASE user' = [user EXCEPT ![u].pc = "idle"] \/ user' = [user EXCEPT ![u].pc = "shutting"]
      BY <1>1, <3>2 DEF UserType
    <3>3. QED
      BY <1>3, <3>1, <3>2 DEF UserFinishes, UserQueuesSend, UserQueuesFile, UserSetsState,
         UserQueuesShutdown, UserGoes
  <2>5. CASE UserSetsState(u)
    <3>1. conn' = [conn EXCEPT ![c].state = "kDisconnected"]
          /\ hist' = [hist EXCEPT ![c].lateShut = @ \/ hist[c].closed]
          /\ UNCHANGED pending
      BY <2>1, <2>5 DEF UserSetsState
    <3>2. ShutsDown(c)
      BY <3>1, ShutsDownEffect
    <3>3. QED BY <2>2, <2>3, <2>4, <3>1, <3>2, ShutsDownConn, TouchLife
  <2>6. ASSUME NEW f \in Quiet(c), Queue(conn[c].loop, <<f>>), UNCHANGED <<conn, hist>>
        PROVE  Life'
    <3>1. <<f>> \in Seq(Quiet(c))
      OBVIOUS
    <3>2. QueuesQuiet(conn[c].loop, c)
      BY <2>6, <3>1 DEF QueuesQuiet
    <3>3. \A d \in Conns : Same(d) /\ Grows(d)
      BY <2>6, SameGrows DEF Same
    <3>4. ConnOK(c)
      BY DEF Life
    <3>5. (InDown(c) => InDown(c)') /\ (Falling(c) => Falling(c)') => ConnOK(c)'
      BY <2>3, <2>6, <3>4 DEF ConnOK, Created, Untouched
    <3>6. conn'[c].chan.index \in {conn[c].chan.index, "ADDED"}
      BY <2>6
    <3>7. QED BY <2>2, <2>3, <2>4, <3>2, <3>3, <3>5, <3>6, TouchLife
  <2>7. CASE UserQueuesSend(u) \/ UserQueuesFile(u)
    <3>1. user[u].msg \in 1..MaxSends /\ 0 \in 0..FileLen
      BY <1>1, <2>7, ServerAssumption DEF UserQueuesSend, UserQueuesFile, Typed, UserTyped, UserType
    <3>2. SendFunctor(c, user[u].msg) \in Quiet(c)
          /\ FileFunctor(c, user[u].msg, 0) \in Quiet(c)
      BY <3>1, QuietMade
    <3>3. QED BY <2>1, <2>6, <2>7, <3>2 DEF UserQueuesSend, UserQueuesFile
  <2>8. CASE UserQueuesShutdown(u)
    <3>1. Functor("shutdownInLoop", c) \in Quiet(c)
      BY QuietMade
    <3>2. QED BY <2>1, <2>6, <2>8, <3>1 DEF UserQueuesShutdown
  <2>9. QED BY <1>3, <2>5, <2>7, <2>8 DEF UserFinishes
<1>4. QED BY <1>2, <1>3

(* The user code in a callback. *)
LEMMA UserCodeLife ==
  ASSUME Typed, Life, NEW l \in Loops, UserCode(l)
  PROVE  Life'
<1>1. PICK c \in Conns : c = frame[l].c
  BY UserCodeTyped
<1>2. Settled(c) /\ conn[c].loop = l
  BY <1>1 DEF Life, LoopOK, FrameOK
<1>3. CASE CallbackSends(l)
  <2>1. sends + 1 \in 1..MaxSends
    BY <1>3, ServerAssumption DEF CallbackSends, Typed, CountTyped
  <2>2. PICK m \in 1..MaxSends : m = sends + 1 /\ SendInLoop(c, m)
    BY <1>1, <1>3, <2>1 DEF CallbackSends
  <2>3. UNCHANGED <<connections, loopVars, frame, user>> /\ conn[c].state = "kConnected"
    BY <1>1, <1>3 DEF CallbackSends
  <2>4. CASE UNCHANGED <<conn, sock, pending, hist>>
    BY <2>3, <2>4, CalmLife
  <2>5. CASE /\ Only(c) /\ SameLife(c) /\ QueuesQuiet(conn[c].loop, c)
             /\ \E n \in 0..MsgLen, given \in BOOLEAN : Sends(c, m, n, given)
    BY <1>2, <2>3, <2>5, SendsConn, TouchLife, SMTT(60)
  <2>6. QED BY <2>2, <2>4, <2>5, SendEffect
<1>4. CASE CallbackSendsFile(l)
  <2>1. sends + 1 \in 1..MaxSends /\ 0 \in 0..FileLen
    BY <1>4, ServerAssumption DEF CallbackSendsFile, Typed, CountTyped
  <2>2. PICK m \in 1..MaxSends : m = sends + 1 /\ SendFileInLoop(c, m, 0)
    BY <1>1, <1>4, <2>1 DEF CallbackSendsFile
  <2>3. UNCHANGED <<conn, connections, loopVars, frame, user>>
    BY <1>4 DEF CallbackSendsFile
  <2>4. CASE UNCHANGED <<sock, pending, hist>>
    BY <2>3, <2>4, CalmLife
  <2>5. CASE /\ \A d \in Conns : /\ hist'[d].closed = hist[d].closed
                                 /\ hist'[d].downs = hist[d].downs
                                 /\ hist'[d].lateShut = hist[d].lateShut
             /\ QueuesQuiet(conn[c].loop, c)
    <3>1. \A d \in Conns : Same(d) /\ Grows(d)
      BY <2>3, <2>5, SameGrows DEF Same
    <3>2. ConnOK(c)
      BY DEF Life
    <3>3. (InDown(c) => InDown(c)') /\ (Falling(c) => Falling(c)') => ConnOK(c)'
      BY <2>3, <3>1, <3>2 DEF ConnOK, Created, Untouched, Same
    <3>4. conn'[c].chan.index \in {conn[c].chan.index, "ADDED"}
      BY <2>3
    <3>5. QED BY <1>2, <2>3, <2>5, <3>1, <3>3, <3>4, TouchLife
  <2>6. QED BY <2>1, <2>2, <2>4, <2>5, SendFileEffect
<1>5. CASE CallbackShutsDown(l)
  <2>1. /\ conn' = [conn EXCEPT ![c].state = "kDisconnected"]
        /\ hist' = [hist EXCEPT ![c].lateShut = @ \/ hist[c].closed]
        /\ UNCHANGED <<connections, pending, loopVars, frame, user>>
    BY <1>1, <1>5 DEF CallbackShutsDown
  <2>2. ShutsDown(c)
    BY <2>1, ShutsDownEffect
  <2>3. QED BY <1>2, <2>1, <2>2, ShutsDownConn, TouchLife
<1>6. ASSUME NEW u \in Users, CallbackShares(l, u) PROVE Life'
  <2>1. UNCHANGED <<conn, hist, connections, pending, loopVars, frame>>
        /\ user' = [user EXCEPT ![u].c = c]
    BY <1>1, <1>6 DEF CallbackShares
  <2>2. \A v \in Users : user'[v].c = user[v].c \/ user'[v].c = c
    BY <2>1 DEF Typed, UserTyped, UserType
  <2>3. QED BY <1>2, <2>1, <2>2, CalmLife
<1>7. QED BY <1>3, <1>4, <1>5, <1>6 DEF UserCode

(* The thread of loop l changes no connection. *)
LEMMA LoopLife ==
  ASSUME Typed, Life, NEW l \in Loops,
         \A c \in Conns : Same(c), connections' = connections, TodosKept({}), DownKept({}),
         \A k \in Loops \ {l} : LoopRests(k), LoopOK(l)',
         \A u \in Users : user'[u].c = user[u].c
  PROVE  Life'
<1>1. \A c \in Conns : Grows(c) /\ Same(c) /\ (c \in connections' <=> c \in connections)
  BY SameGrows
<1>2. ASSUME NEW k \in Loops \ {l} PROVE LoopOK(k)'
  <2>1. LoopOK(k) /\ LoopRests(k)
    BY DEF Life
  <2>2. QED BY <1>1, <2>1, LoopKeeps DEF Same
<1>3. \A u \in Users : UserOK(u)'
  BY <1>1, UsersKeep
<1>4. QED BY <1>1, <1>2, <1>3, LifeStep

(* It changes connection c, which is its own. *)
LEMMA OwnLife ==
  ASSUME Typed, Life, NEW l \in Loops, NEW c \in Conns, Created(c) => conn[c].loop = l,
         \A d \in Conns : Grows(d),
         \A d \in Conns \ {c} : Same(d) /\ (d \in connections' <=> d \in connections),
         TodosKept({c}), DownKept({c}), ConnOK(c)',
         \A k \in Loops \ {l} : LoopRests(k), LoopOK(l)',
         \A u \in Users : user'[u].c = user[u].c
  PROVE  Life'
<1>1. ASSUME NEW k \in Loops \ {l} PROVE LoopOK(k)'
  <2>1. LoopOK(k) /\ LoopRests(k)
    BY DEF Life
  <2>2. \A d \in Conns : conn[d].loop = k /\ Settled(d) =>
            conn'[d].chan.index \in {conn[d].chan.index, "ADDED"}
    BY DEF Same, Settled, Created
  <2>3. QED BY <2>1, <2>2, LoopKeeps
<1>2. \A u \in Users : UserOK(u)'
  BY UsersKeep
<1>3. QED BY <1>1, <1>2, LifeStep

(* A loop that neither queues nor starts a functor keeps the lists. *)
LEMMA TodosRest ==
  ASSUME Typed, Life, \A l \in Loops : Todo(l)' = Todo(l),
         \A c \in Conns : conn[c].state = "kConnecting" => conn'[c].state = "kConnecting"
  PROVE  TodosKept({})
<1>1. ASSUME NEW l \in Loops PROVE TodoStep(l, {}, {})
  BY TodoStays DEF Typed
<1>2. ASSUME NEW l \in Loops, NEW f \in Ahead(l), f.kind = "connectEstablished"
      PROVE  conn'[f.c].state = "kConnecting"
  <2>1. f.c \in Conns /\ conn[f.c].state = "kConnecting"
    BY <1>2, AheadTyped DEF Life, TodoOK, Fit
  <2>2. QED BY <2>1
<1>3. QED BY <1>1, <1>2 DEF TodosKept

(* Loop l ends a callback on connection c. *)
LEMMA ResumeLife ==
  ASSUME Typed, NEW l \in Loops, LoopOK(l), NEW c \in Conns, frame[l].c = c,
         NEW due \in SUBSET frame[l].due, Resume(l, due), UNCHANGED loopVars,
         \A d \in Conns : Grows(d),
         \A d \in Conns \ {c} : conn'[d].chan.index = conn[d].chan.index,
         due # {} => conn'[c].chan.index # "NEW",
         "close" \in due \/ "read" \in due => conn'[c].chan.index = "ADDED"
  PROVE  LoopOK(l)' /\ \A k \in Loops \ {l} : LoopRests(k)
<1>1. frame[l] \in FrameType /\ frame \in [Loops -> FrameType]
  BY DEF Typed, FrameTyped
<1>2. \A k \in Loops \ {l} : LoopRests(k)
  BY <1>1 DEF Resume, LoopRests, loopVars
<1>3. /\ frame'[l].cb = "none" /\ frame'[l].due = due
      /\ frame'[l].c = c \/ (due = {} /\ frame'[l].c = NoConn)
  <2>1. CASE due = {}
    <3>1. frame' = [frame EXCEPT ![l] = NoFrame]
      BY <2>1, Zenon DEF Resume
    <3>2. QED BY <1>1, <2>1, <3>1, NoFrameIsEmpty
  <2>2. CASE due # {}
    <3>1. frame' = [frame EXCEPT ![l] = [frame[l] EXCEPT !.cb = "none", !.due = due]]
      BY <2>2, Zenon DEF Resume
    <3>2. QED BY <1>1, <3>1 DEF FrameType
  <2>3. QED BY <2>1, <2>2
<1>4. /\ phase'[l] = phase[l] /\ active'[l] = active[l] /\ batch'[l] = batch[l]
      /\ pos'[l] = pos[l]
  BY DEF loopVars
<1>5. PhaseOK(l)'
  BY <1>3, <1>4 DEF LoopOK, PhaseOK
<1>6. ActiveOK(l)'
  <2> SUFFICES ASSUME NEW d \in Conns, d \in active'[l]
               PROVE  /\ Settled(d)' /\ conn'[d].loop = l
                      /\ conn'[d].chan.index = "ADDED"
                      /\ frame'[l].c # d
    BY DEF ActiveOK
  <2>1. Settled(d) /\ conn[d].loop = l /\ conn[d].chan.index = "ADDED" /\ d # c
    BY <1>4 DEF LoopOK, ActiveOK
  <2>2. frame'[l].c # d
    BY <1>3, <2>1, NoFrameIsEmpty
  <2>3. QED BY <2>1, <2>2 DEF Grows, Settled, Created
<1>7. FrameOK(l)'
  <2>1. Settled(c) /\ conn[c].loop = l
        /\ ("close" \notin due \/ "read" \notin due)
    BY DEF LoopOK, FrameOK
  <2>2. Settled(c)' /\ conn'[c].loop = l
    BY <2>1 DEF Grows, Settled, Created
  <2>3. CASE frame'[l].c = c
    BY <1>3, <2>1, <2>2, <2>3 DEF FrameOK
  <2>4. CASE frame'[l].c = NoConn
    BY <2>4, NoFrameIsEmpty DEF FrameOK
  <2>5. QED BY <1>3, <2>3, <2>4
<1>8. QED BY <1>2, <1>5, <1>6, <1>7 DEF LoopOK

(* Loop l calls a callback on connection c, which is not waiting to be     *)
(* served.                                                                 *)
LEMMA CallLife ==
  ASSUME Typed, NEW l \in Loops, LoopOK(l), NEW c \in Conns, NEW cb,
         NEW due, Call(l, c, cb, due),
         phase'[l] = phase[l], phase[l] # "poll",
         batch'[l] = batch[l], pos'[l] \in Nat, pos'[l] <= Len(batch[l]),
         phase[l] # "run" => pos'[l] = pos[l],
         phase[l] # "dispatch" => due = {}, cb = "down" => phase[l] = "run",
         active'[l] \subseteq active[l], c \notin active'[l],
         \A d \in Conns : Grows(d),
         \A d \in Conns \ {c} : conn'[d].chan.index = conn[d].chan.index,
         Settled(c)', conn'[c].loop = l,
         due # {} => conn'[c].chan.index # "NEW",
         "close" \in due \/ "read" \in due => conn'[c].chan.index = "ADDED",
         "close" \notin due \/ "read" \notin due,
         cb \in {"close", "down"} => hist'[c].closed,
         cb = "down" => conn'[c].state = "kDisconnected",
         cb = "close" => conn'[c].chan.index # "NEW"
  PROVE  LoopOK(l)' /\ \A k \in Loops \ {l} : frame'[k] = frame[k]
<1>1. frame \in [Loops -> FrameType]
  BY DEF Typed, FrameTyped
<1>2. \A k \in Loops \ {l} : frame'[k] = frame[k]
  BY <1>1 DEF Call
<1>3. frame'[l].c = c /\ frame'[l].cb = cb /\ frame'[l].due = due
  BY <1>1 DEF Call
<1>4. PhaseOK(l)'
  BY <1>3 DEF LoopOK, PhaseOK
<1>5. ActiveOK(l)'
  <2> SUFFICES ASSUME NEW d \in Conns, d \in active'[l]
               PROVE  /\ Settled(d)' /\ conn'[d].loop = l
                      /\ conn'[d].chan.index = "ADDED"
                      /\ frame'[l].c # d
    BY DEF ActiveOK
  <2>1. Settled(d) /\ conn[d].loop = l /\ conn[d].chan.index = "ADDED" /\ d # c
    BY DEF LoopOK, ActiveOK
  <2>2. QED BY <1>3, <2>1 DEF Grows, Settled, Created
<1>6. FrameOK(l)'
  BY <1>3 DEF FrameOK
<1>7. QED BY <1>2, <1>4, <1>5, <1>6 DEF LoopOK

(* The round of a loop. *)
LEMMA RoundLife ==
  ASSUME Typed, ChannelsConsistent, Life, NEW l \in Loops,
         Poll(l) \/ SwapFunctors(l) \/ EndFunctors(l)
  PROVE  Life'
<1>1. UNCHANGED <<connections, frame, user, hist>>
  BY DEF Poll, SwapFunctors, EndFunctors
<1>2. \A c \in Conns : Same(c)
  <2>1. CASE Poll(l)
    BY <1>1, <2>1, PollTyped DEF Same
  <2>2. CASE SwapFunctors(l) \/ EndFunctors(l)
    BY <1>1, <2>2 DEF SwapFunctors, EndFunctors, Same
  <2>3. QED BY <2>1, <2>2
<1>3. \A k \in Loops \ {l} : LoopRests(k) /\ pending'[k] = pending[k]
  BY <1>1 DEF Poll, SwapFunctors, EndFunctors, LoopRests, Typed, PhaseTyped, BatchTyped,
     QueueTyped
<1>4. LoopOK(l)
  BY DEF Life
<1>5. \A k \in Loops : Todo(k)' = Todo(k)
  <2>1. ASSUME NEW k \in Loops \ {l} PROVE Todo(k)' = Todo(k)
    BY <1>3 DEF Todo, LoopRests
  <2>2. Todo(l)' = Todo(l)
    <3>1. CASE Poll(l)
      BY <3>1 DEF Poll, Todo
    <3>2. CASE SwapFunctors(l) \/ EndFunctors(l)
      <4>1. SwapFunctors(l) => batch[l] = <<>> /\ pos[l] = 0
        BY <1>4 DEF SwapFunctors, Dispatching, LoopOK, PhaseOK
      <4>2. QED BY <3>2, <4>1, TodoRound DEF Typed
    <3>3. QED BY <3>1, <3>2
  <2>3. QED BY <2>1, <2>2
<1>6. TodosKept({}) /\ DownKept({})
  BY <1>1, <1>2, <1>5, TodosRest DEF Same, DownKept
<1>7. LoopOK(l)'
  <2>1. FrameOK(l)'
    <3> SUFFICES ASSUME frame'[l].c \in Conns PROVE FrameOK(l)'
      BY DEF FrameOK
    <3>1. PICK c \in Conns : c = frame[l].c
      BY <1>1
    <3>2. Same(c)
      BY <1>2
    <3>3. QED BY <1>1, <1>4, <3>1, <3>2 DEF LoopOK, FrameOK, Same, Settled
  <2>2. CASE Poll(l)
    <3>1. /\ phase[l] = "poll" /\ phase'[l] = "dispatch"
          /\ active'[l] = ReadyConns(l) \union ReadyAcceptor(l)
          /\ batch' = batch /\ pos' = pos
      BY <2>2 DEF Poll, Typed, PhaseTyped
    <3>2. PhaseOK(l)'
      BY <1>1, <1>4, <3>1 DEF LoopOK, PhaseOK
    <3>3. ASSUME NEW c \in Conns, c \in active'[l]
          PROVE  /\ Settled(c)' /\ conn'[c].loop = l
                 /\ conn'[c].chan.index = "ADDED"
                 /\ frame'[l].c # c
      <4>1. c \in ReadyConns(l)
        <5>1. Acceptor \notin Conns
          BY NameAssumption
        <5>2. QED BY <3>1, <3>3, <5>1 DEF ReadyAcceptor
      <4>2. Created(c) /\ conn[c].loop = l /\ conn[c].chan.watched
        BY <4>1 DEF ReadyConns, Reported
      <4>3. conn[c].chan.index = "ADDED"
        BY <4>2 DEF ChannelsConsistent, Consistent
      <4>4. Settled(c)
        BY <4>2, <4>3 DEF Life, ConnOK, Untouched, Created, Settled
      <4>5. frame[l].c # c
        BY <1>4, <3>1 DEF LoopOK, PhaseOK
      <4>6. Same(c)
        BY <1>2
      <4>7. QED BY <1>1, <4>2, <4>3, <4>4, <4>5, <4>6 DEF Same, Settled
    <3>4. QED BY <2>1, <3>2, <3>3 DEF LoopOK, ActiveOK
  <2>3. CASE SwapFunctors(l)
    <3>1. /\ phase[l] = "dispatch" /\ frame[l] = NoFrame /\ active[l] = {}
          /\ phase'[l] = "run" /\ active' = active
          /\ batch'[l] = pending[l] /\ pos'[l] = pos[l] /\ pending[l] \in Seq(Functors)
      BY <2>3 DEF SwapFunctors, Dispatching, Typed, PhaseTyped, BatchTyped, QueueTyped
    <3>2. PhaseOK(l)'
      BY <1>1, <1>4, <3>1, NoFrameIsEmpty DEF LoopOK, PhaseOK
    <3>3. QED BY <2>1, <3>1, <3>2 DEF LoopOK, ActiveOK
  <2>4. CASE EndFunctors(l)
    <3>1. /\ phase[l] = "run" /\ frame[l] = NoFrame
          /\ phase'[l] = "poll" /\ active' = active
          /\ batch'[l] = <<>> /\ pos'[l] = 0
      BY <2>4 DEF EndFunctors, Typed, PhaseTyped, BatchTyped
    <3>2. active[l] = {} /\ frame[l].c \notin Conns /\ frame[l].due = {} /\ frame[l].cb = "none"
      BY <1>4, <3>1, NoFrameIsEmpty DEF LoopOK, PhaseOK
    <3>3. PhaseOK(l)'
      BY <1>1, <3>1, <3>2 DEF PhaseOK
    <3>4. QED BY <2>1, <3>1, <3>2, <3>3 DEF LoopOK, ActiveOK
  <2>5. QED BY <2>2, <2>3, <2>4
<1>8. QED BY <1>1, <1>2, <1>3, <1>6, <1>7, LoopLife

(* handleClose on a registered channel. *)
LEMMA ClosesConn ==
  ASSUME Typed, Life, NEW c \in Conns, Settled(c), conn[c].chan.index = "ADDED", ~InDown(c),
         Closes(c), connections' = connections
  PROVE  /\ \A d \in Conns : Grows(d)
         /\ \A d \in Conns \ {c} : Same(d)
         /\ conn'[c].chan.index = "DELETED" /\ hist'[c].closed
         /\ conn'[c].loop = conn[c].loop
         /\ (Falling(c) => Falling(c)') => ConnOK(c)'
<1>1. \A d \in Conns \ {c} : Same(d) /\ Grows(d)
  BY SameGrows DEF Closes, Becomes, Same
<1>2. /\ conn'[c].state = conn[c].state /\ conn'[c].loop = conn[c].loop
      /\ conn'[c].chan = DisableAll(conn[c].chan)
      /\ hist'[c].closed /\ hist'[c].lateShut = hist[c].lateShut
      /\ conn[c].state = "kConnected" => hist'[c].downs = hist[c].downs
      /\ conn[c].state # "kConnected" => hist'[c].downs = hist[c].downs + 1
  BY DEF Closes, Becomes
<1>3. Grows(c)
  BY <1>2 DEF Grows, Created, Settled
<1>4. conn'[c].chan.index = "DELETED" /\ conn'[c].chan.events = {}
  <2>1. conn[c].chan \in ChannelType
    BY DEF Typed, ConnTyped, ConnType
  <2>2. QED BY <1>2, <2>1, ChannelEffect DEF OpEffect
<1>5. ConnOK(c) /\ conn[c].state # "kConnecting" /\ Created(c)
  BY DEF Life, Settled, Created
<1>6. hist[c].downs = 0
  BY <1>5 DEF ConnOK
<1>7. (Falling(c) => Falling(c)') => ConnOK(c)'
  <2>1. CASE conn[c].state = "kConnected"
    BY <1>2, <1>4, <1>5, <1>6, <2>1 DEF ConnOK, Created
  <2>2. CASE conn[c].state = "kDisconnected"
    BY <1>2, <1>4, <1>5, <1>6, <2>2 DEF ConnOK, Created
  <2>3. QED BY <2>1, <2>2 DEF Settled
<1>8. QED BY <1>1, <1>2, <1>3, <1>4, <1>7

(* handleWrite on a listed channel. *)
LEMMA DrainsConn ==
  ASSUME Typed, Life, NEW c \in Conns, Settled(c), conn[c].chan.index # "NEW",
         Only(c), SameLife(c), NEW n \in Nat, Drains(c, n), connections' = connections
  PROVE  /\ \A d \in Conns : Grows(d)
         /\ \A d \in Conns \ {c} : Same(d)
         /\ (InDown(c) => InDown(c)') /\ (Falling(c) => Falling(c)') => ConnOK(c)'
<1>1. \A d \in Conns \ {c} : Same(d) /\ Grows(d)
  BY SameGrows DEF Only, Same
<1>2. Grows(c)
  BY DEF SameLife, Grows, Created, Settled
<1>3. ConnOK(c) /\ conn[c].chan \in ChannelType /\ Created(c) /\ conn[c].state # "kConnecting"
  BY DEF Life, Typed, ConnTyped, ConnType, Settled, Created
<1>4. CASE conn'[c].chan = conn[c].chan
  BY <1>1, <1>2, <1>3, <1>4 DEF ConnOK, SameLife, Created
<1>5. CASE IsWriting(conn[c].chan) /\ conn'[c].chan = DisableWriting(conn[c].chan)
  <2>1. conn[c].chan.index = "ADDED" /\ hist[c].downs = 0
    BY <1>3, <1>5 DEF ConnOK, IsWriting, ChannelType
  <2>2. /\ conn'[c].chan.index \in {"ADDED", "DELETED"}
        /\ conn'[c].chan.index = "DELETED" => conn'[c].chan.events = {}
    BY <1>3, <1>5, <2>1, ChannelEffect DEF OpEffect
  <2>3. QED BY <1>1, <1>2, <1>3, <2>1, <2>2 DEF ConnOK, SameLife, Created
<1>6. QED BY <1>4, <1>5 DEF Drains

(* The handlers of a channel. *)
LEMMA HandlerLife ==
  ASSUME Typed, Life, NEW l \in Loops,
         \/ \E c \in Conns : HandleEvent(l, c)
         \/ CloseCallback(l) \/ ErrorCallback(l) \/ ReadCallback(l) \/ WriteCallback(l)
  PROVE  Life'
<1>1. LoopOK(l) /\ Main \in Loops
  BY NextLoopIsLoop, SMTT(60) DEF Life, Typed
<1>2. UNCHANGED <<connections, user, batch, pos, phase>>
  BY DEF HandleEvent, CloseCallback, ErrorCallback, ReadCallback, WriteCallback, loopVars
<1>3. ASSUME pending' = pending, \A c \in Conns : conn'[c].state = conn[c].state
      PROVE  TodosKept({})
  <2>1. \A k \in Loops : Todo(k)' = Todo(k)
    BY <1>2, <1>3 DEF Todo
  <2>2. QED BY <1>3, <2>1, TodosRest
<1>4. ASSUME \A k \in Loops \ {l} : frame'[k] = frame[k], frame[l].cb # "down"
      PROVE  DownKept({})
  BY <1>4 DEF DownKept
<1>5. ASSUME NEW c \in Conns, HandleEvent(l, c) PROVE Life'
  <2>1. UNCHANGED <<conn, hist, pending>> /\ frame[l] = NoFrame /\ phase[l] = "dispatch"
        /\ Call(l, c, "none", Due(conn[c].chan.revents)) /\ c \in active[l]
    BY <1>5 DEF HandleEvent, Dispatching
  <2>2. active'[l] = active[l] \ {c} /\ \A k \in Loops \ {l} : active'[k] = active[k]
    BY <1>5 DEF HandleEvent, Typed, PhaseTyped
  <2>3. \A d \in Conns : Same(d) /\ Grows(d)
    BY <2>1, SameGrows DEF Same
  <2>4. Settled(c) /\ conn[c].loop = l /\ conn[c].chan.index = "ADDED"
    BY <1>1, <2>1 DEF LoopOK, ActiveOK
  <2>5. PICK due : /\ due = Due(conn[c].chan.revents)
                   /\ "close" \notin due \/ "read" \notin due
    <3>1. PICK r : r = conn[c].chan.revents
      OBVIOUS
    <3>2. "close" \in Due(r) => "IN" \notin r
      BY DEF Due
    <3>3. "read" \in Due(r) => "IN" \in r
      BY DEF Due
    <3>4. QED BY <3>1, <3>2, <3>3
  <2>6. pos[l] \in Nat /\ pos[l] <= Len(batch[l])
    BY <1>1 DEF LoopOK, PhaseOK, Typed, BatchTyped
  <2>7. Settled(c)' /\ conn'[c].loop = l /\ conn'[c].chan.index = "ADDED"
    BY <2>1, <2>4 DEF Settled
  <2>8. LoopOK(l)' /\ \A k \in Loops \ {l} : frame'[k] = frame[k]
    BY <1>1, <1>2, <2>1, <2>2, <2>3, <2>5, <2>6, <2>7, CallLife
  <2>9. \A k \in Loops \ {l} : LoopRests(k)
    BY <1>2, <2>2, <2>8 DEF LoopRests
  <2>10. TodosKept({}) /\ DownKept({})
    BY <1>3, <1>4, <2>1, <2>8, NoFrameIsEmpty
  <2>11. QED BY <1>2, <2>3, <2>8, <2>9, <2>10, LoopLife
<1>6. ASSUME NEW k, Handling(l, k)
      PROVE  /\ frame[l].c \in Conns /\ frame[l].cb = "none" /\ phase[l] = "dispatch"
             /\ Settled(frame[l].c) /\ conn[frame[l].c].loop = l /\ k \in frame[l].due
             /\ frame[l].c \notin active[l]
             /\ conn[frame[l].c].chan.index # "NEW"
             /\ k \in {"close", "read"} => conn[frame[l].c].chan.index = "ADDED"
             /\ ~InDown(frame[l].c)
  <2>1. frame[l].c \in Conns /\ frame[l].cb = "none" /\ k \in frame[l].due
    BY <1>6 DEF Handling, IsNext, Typed, FrameTyped
  <2>2. /\ Settled(frame[l].c) /\ conn[frame[l].c].loop = l
        /\ conn[frame[l].c].chan.index # "NEW"
        /\ k \in {"close", "read"} => conn[frame[l].c].chan.index = "ADDED"
    BY <1>1, <2>1 DEF LoopOK, FrameOK
  <2>3. phase[l] = "dispatch" /\ frame[l].c \notin active[l]
    BY <1>1, <2>1 DEF LoopOK, PhaseOK, ActiveOK
  <2>4. ~InDown(frame[l].c)
    <3>1. SUFFICES ASSUME NEW j \in Loops, frame[j].c = frame[l].c, frame[j].cb = "down"
                   PROVE  FALSE
      BY DEF InDown
    <3>2. conn[frame[l].c].loop = j
      BY <2>1, <3>1 DEF Life, LoopOK, FrameOK
    <3>3. QED BY <2>1, <2>2, <3>1, <3>2
  <2>5. QED BY <2>1, <2>2, <2>3, <2>4
<1>7. ASSUME NEW k \in {"close", "read"}, Handling(l, k),
             HandleClose(l, frame[l].c, frame[l].due \ {k}), UNCHANGED <<active, pending>>
      PROVE  Life'
  <2>1. PICK c \in Conns : c = frame[l].c
    BY <1>6, <1>7
  <2>2. PICK due : due = frame[l].due \ {k}
    OBVIOUS
  <2>3. /\ Settled(c) /\ conn[c].loop = l /\ conn[c].chan.index = "ADDED" /\ ~InDown(c)
        /\ frame[l].cb = "none" /\ phase[l] = "dispatch" /\ c \notin active[l]
    BY <1>6, <1>7, <2>1
  <2>4. "close" \notin due /\ "read" \notin due
    BY <1>1, <1>6, <1>7, <2>1, <2>2 DEF LoopOK, FrameOK
  <2>5. HandleClose(l, c, due)
    BY <1>7, <2>1, <2>2
  <2>6. Closes(c)
    BY <2>5, CloseEffect
  <2>7. /\ \A d \in Conns : Grows(d)
        /\ \A d \in Conns \ {c} : Same(d)
        /\ conn'[c].chan.index = "DELETED" /\ hist'[c].closed /\ conn'[c].loop = l
        /\ (Falling(c) => Falling(c)') => ConnOK(c)'
    BY <1>2, <2>3, <2>6, ClosesConn
  <2>8. Call(l, c, "close", due)
    BY <2>5 DEF HandleClose
  <2>9. pos[l] \in Nat /\ pos[l] <= Len(batch[l])
    BY <1>1 DEF LoopOK, PhaseOK, Typed, BatchTyped
  <2>10. Settled(c)' /\ \A d \in Conns : conn'[d].state = conn[d].state
    BY <2>3, <2>6 DEF Settled, Closes, Becomes
  <2>11. LoopOK(l)' /\ \A j \in Loops \ {l} : frame'[j] = frame[j]
    BY <1>1, <1>2, <1>7, <2>3, <2>4, <2>7, <2>8, <2>9, <2>10, CallLife DEF Same
  <2>12. \A j \in Loops \ {l} : LoopRests(j)
    BY <1>2, <1>7, <2>11 DEF LoopRests
  <2>13. TodosKept({}) /\ DownKept({})
    BY <1>3, <1>4, <1>7, <2>3, <2>10, <2>11
  <2>14. ConnOK(c)'
    BY <2>7, <2>13, FallingKeeps
  <2>15. TodosKept({c}) /\ DownKept({c})
    BY <2>13, KeptMore
  <2>16. QED BY <1>2, <2>3, <2>7, <2>11, <2>12, <2>14, <2>15, OwnLife
<1>8. CASE CloseCallback(l)
  <2>1. /\ Handling(l, "close") /\ HandleClose(l, frame[l].c, frame[l].due \ {"close"})
        /\ UNCHANGED <<active, pending>>
    BY <1>8 DEF CloseCallback, loopVars
  <2>2. QED BY <1>7, <2>1
<1>9. ASSUME NEW k, Handling(l, k), Resume(l, frame[l].due \ {k}),
             UNCHANGED <<conn, hist, pending, loopVars>>
      PROVE  Life'
  <2>1. PICK c \in Conns : c = frame[l].c
    BY <1>6, <1>9
  <2>2. PICK due \in SUBSET frame[l].due : due = frame[l].due \ {k}
    OBVIOUS
  <2>3. \A d \in Conns : Same(d) /\ Grows(d)
    BY <1>9, SameGrows DEF Same
  <2>4. /\ due # {} => conn'[c].chan.index # "NEW"
        /\ "close" \in due \/ "read" \in due => conn'[c].chan.index = "ADDED"
    BY <1>1, <1>9, <2>1, <2>2 DEF LoopOK, FrameOK
  <2>5. LoopOK(l)' /\ \A j \in Loops \ {l} : LoopRests(j)
    BY <1>1, <1>9, <2>1, <2>2, <2>3, <2>4, ResumeLife DEF Same
  <2>6. TodosKept({}) /\ DownKept({})
    BY <1>3, <1>4, <1>6, <1>9, <2>5 DEF LoopRests
  <2>7. QED BY <1>2, <2>3, <2>5, <2>6, LoopLife
<1>10. CASE ErrorCallback(l)
  BY <1>9, <1>10 DEF ErrorCallback
<1>11. CASE ReadCallback(l)
  <2>1. Handling(l, "read") /\ UNCHANGED <<pending, loopVars>>
    BY <1>11 DEF ReadCallback
  <2>2. CASE Resume(l, frame[l].due \ {"read"}) /\ UNCHANGED <<conn, hist>>
    BY <1>9, <2>1, <2>2
  <2>3. CASE HandleClose(l, frame[l].c, frame[l].due \ {"read"})
    BY <1>7, <2>1, <2>3 DEF loopVars
  <2>4. CASE Call(l, frame[l].c, "message", frame[l].due \ {"read"}) /\ UNCHANGED <<conn, hist>>
    <3>1. PICK c \in Conns : c = frame[l].c
      BY <1>6, <2>1
    <3>2. PICK due \in SUBSET frame[l].due : due = frame[l].due \ {"read"}
      OBVIOUS
    <3>3. \A d \in Conns : Same(d) /\ Grows(d)
      BY <2>4, SameGrows DEF Same
    <3>4. /\ Settled(c) /\ conn[c].loop = l /\ frame[l].cb = "none" /\ phase[l] = "dispatch"
          /\ c \notin active[l] /\ conn[c].chan.index = "ADDED"
      BY <1>6, <2>1, <3>1
    <3>5. Settled(c)' /\ conn'[c].loop = l /\ conn'[c].chan.index = "ADDED"
      BY <2>4, <3>4 DEF Settled
    <3>6. pos[l] \in Nat /\ pos[l] <= Len(batch[l])
      BY <1>1 DEF LoopOK, PhaseOK, Typed, BatchTyped
    <3>7. "read" \notin due /\ Call(l, c, "message", due) /\ active' = active
      BY <2>1, <2>4, <3>1, <3>2 DEF loopVars
    <3>8. LoopOK(l)' /\ \A j \in Loops \ {l} : frame'[j] = frame[j]
      BY <1>1, <1>2, <3>3, <3>4, <3>5, <3>6, <3>7, CallLife DEF Same
    <3>9. \A j \in Loops \ {l} : LoopRests(j)
      BY <1>2, <3>7, <3>8 DEF LoopRests
    <3>10. TodosKept({}) /\ DownKept({})
      BY <1>3, <1>4, <2>1, <2>4, <3>4, <3>8
    <3>11. QED BY <1>2, <3>3, <3>8, <3>9, <3>10, LoopLife
  <2>5. QED BY <1>11, <2>2, <2>3, <2>4 DEF ReadCallback
<1>12. CASE WriteCallback(l)
  <2>1. /\ Handling(l, "write") /\ UNCHANGED loopVars
        /\ Resume(l, frame[l].due \ {"write"})
    BY <1>12 DEF WriteCallback
  <2>2. PICK c \in Conns : c = frame[l].c
    BY <1>6, <2>1
  <2>3. /\ Settled(c) /\ conn[c].loop = l /\ conn[c].chan.index # "NEW"
        /\ frame[l].cb = "none"
    BY <1>6, <2>1, <2>2
  <2>4. frame[l].due \ {"write"} = {}
    BY <2>1 DEF Handling, IsNext
  <2>5. PICK n \in Nat : Only(c) /\ SameLife(c) /\ Drains(c, n) /\ QueuesQuiet(l, c)
    BY <1>12, <2>2, WriteEffect
  <2>6. /\ \A d \in Conns : Grows(d)
        /\ \A d \in Conns \ {c} : Same(d)
        /\ (InDown(c) => InDown(c)') /\ (Falling(c) => Falling(c)') => ConnOK(c)'
    BY <1>2, <2>3, <2>5, DrainsConn
  <2>7. PICK due \in SUBSET frame[l].due : due = {}
    OBVIOUS
  <2>8. LoopOK(l)' /\ \A j \in Loops \ {l} : LoopRests(j)
    BY <1>1, <2>1, <2>2, <2>4, <2>6, <2>7, ResumeLife DEF Same
  <2>9. PICK fs \in Seq(Quiet(c)) : Queue(l, fs)
    BY <2>5 DEF QueuesQuiet
  <2>10. /\ fs \in Seq(Functors)
         /\ \A f \in Elements(fs) : f.kind # "connectEstablished" /\ Fit(l, f)'
    BY <2>3, <2>6, QuietFits
  <2>11. \A k \in Loops : \A f \in Ahead(k) : f.kind = "connectEstablished"
                                                => conn'[f.c].state = "kConnecting"
    <3> SUFFICES ASSUME NEW k \in Loops, NEW f \in Ahead(k), f.kind = "connectEstablished"
                 PROVE  conn'[f.c].state = "kConnecting"
      OBVIOUS
    <3>1. f.c \in Conns /\ conn[f.c].state = "kConnecting"
      BY AheadTyped DEF Life, TodoOK, Fit
    <3>2. f.c # c
      BY <2>3, <3>1 DEF Settled
    <3>3. QED BY <2>6, <3>1, <3>2 DEF Same
  <2>12. TodosKept({})
    BY <1>2, <2>9, <2>10, <2>11, TodosQueue
  <2>13. DownKept({})
    BY <1>4, <2>3, <2>8 DEF LoopRests
  <2>14. ConnOK(c)'
    BY <2>6, <2>12, <2>13, FallingKeeps
  <2>15. TodosKept({c}) /\ DownKept({c})
    BY <2>12, <2>13, KeptMore
  <2>16. QED BY <1>2, <2>3, <2>6, <2>8, <2>14, <2>15, OwnLife, SMTT(60)
<1>13. QED BY <1>5, <1>8, <1>10, <1>11, <1>12

(* A user callback returns. *)
LEMMA ReturnLife ==
  ASSUME Typed, Life, NEW l \in Loops, CallbackReturns(l)
  PROVE  Life'
<1>1. LoopOK(l) /\ Main \in Loops
  BY NextLoopIsLoop DEF Life, Typed
<1>2. PICK c \in Conns : c = frame[l].c
  BY ReturnTyped
<1>3. Settled(c) /\ conn[c].loop = l
  BY <1>1, <1>2 DEF LoopOK, FrameOK
<1>4. UNCHANGED <<user, hist, loopVars>> /\ frame[l].cb # "none" /\ Resume(l, frame[l].due)
  BY DEF CallbackReturns, InCallback
<1>5. PICK due \in SUBSET frame[l].due : due = frame[l].due
  OBVIOUS
<1>6. ConnOK(c)
  BY DEF Life
<1>7. CASE frame[l].cb = "down"
  <2>1. UNCHANGED <<connections, pending>>
    BY <1>7 DEF CallbackReturns
  <2>2. Becomes(c, conn[c].state, RemoveChannel(conn[c].chan))
    BY <1>2, <1>7, ReturnTyped DEF Returns
  <2>3. conn[c].chan \in ChannelType
    BY DEF Typed, ConnTyped, ConnType
  <2>4. conn'[c].chan.index = "NEW" /\ conn'[c].chan.events = conn[c].chan.events
    BY <2>2, <2>3, RemoveEffect DEF Becomes
  <2>5. due = {} /\ conn[c].state = "kDisconnected" /\ hist[c].closed
    BY <1>1, <1>2, <1>5, <1>7 DEF LoopOK, PhaseOK, FrameOK
  <2>6. \A d \in Conns \ {c} : Same(d) /\ (d \in connections' <=> d \in connections)
    BY <1>4, <2>1, <2>2 DEF Becomes, Same
  <2>7. \A d \in Conns : Grows(d)
    BY <1>4, <2>2 DEF Becomes, Grows, Created, Settled
  <2>8. LoopOK(l)' /\ \A j \in Loops \ {l} : LoopRests(j)
    BY <1>1, <1>2, <1>4, <1>5, <2>5, <2>6, <2>7, ResumeLife DEF Same
  <2>9. \A k \in Loops : Todo(k)' = Todo(k)
    BY <1>4, <2>1 DEF Todo, loopVars
  <2>10. TodosKept({})
    BY <2>2, <2>9, TodosRest DEF Becomes
  <2>11. TodosKept({c})
    BY <2>10, KeptMore
  <2>12. DownKept({c})
    BY <1>2, <2>8 DEF DownKept, LoopRests
  <2>13. ConnOK(c)'
    BY <1>4, <1>6, <2>1, <2>2, <2>4, <2>5 DEF ConnOK, Becomes, Created
  <2>14. QED BY <1>3, <1>4, <2>6, <2>7, <2>8, <2>11, <2>12, <2>13, OwnLife
<1>8. CASE frame[l].cb # "down"
  <2>1. UNCHANGED conn
    BY <1>2, <1>8, ReturnTyped DEF Returns
  <2>2. \A d \in Conns : Same(d) /\ Grows(d)
    BY <1>4, <2>1, SameGrows DEF Same
  <2>3. /\ due # {} => conn'[c].chan.index # "NEW"
        /\ "close" \in due \/ "read" \in due => conn'[c].chan.index = "ADDED"
    BY <1>1, <1>2, <1>5, <2>1 DEF LoopOK, FrameOK
  <2>4. LoopOK(l)' /\ \A j \in Loops \ {l} : LoopRests(j)
    BY <1>1, <1>2, <1>4, <1>5, <2>2, <2>3, ResumeLife DEF Same
  <2>5. DownKept({})
    BY <1>8, <2>4 DEF DownKept, LoopRests
  <2>6. CASE frame[l].cb # "close"
    <3>1. UNCHANGED <<connections, pending>>
      BY <2>6 DEF CallbackReturns
    <3>2. \A k \in Loops : Todo(k)' = Todo(k)
      BY <1>4, <3>1 DEF Todo, loopVars
    <3>3. TodosKept({})
      BY <2>1, <3>2, TodosRest
    <3>4. QED BY <1>4, <2>2, <2>4, <2>5, <3>1, <3>3, LoopLife
  <2>7. CASE frame[l].cb = "close"
    <3>1. hist[c].closed /\ conn[c].chan.index # "NEW" /\ RemoveConnection(l, c)
      BY <1>1, <1>2, <2>7 DEF LoopOK, FrameOK, CallbackReturns
    <3>2. \A k \in Loops : \A f \in Ahead(k) : f.kind = "connectEstablished"
                                                => conn'[f.c].state = "kConnecting"
      BY <2>1 DEF Life, TodoOK, Fit
    <3>3. UNCHANGED <<batch, pos>>
      BY <1>4 DEF loopVars
    <3>4. ASSUME NEW kind \in {"removeConnectionInLoop", "connectDestroyed"}, NEW q \in Loops,
                 kind = "removeConnectionInLoop" => q = Main,
                 kind = "connectDestroyed" => q = l,
                 Queue(q, <<Functor(kind, c)>>)
          PROVE  TodosKept({}) /\ TodoStep(q, {}, {Functor(kind, c)})
      <4>1. PICK f \in Functors : f = Functor(kind, c)
        BY FunctorsMade
      <4>2. f.kind = kind /\ f.c = c
        BY <4>1 DEF Functor
      <4>3. Fit(q, f)'
        BY <1>3, <1>4, <2>1, <3>1, <3>4, <4>2 DEF Fit, Settled
      <4>4. <<f>> \in Seq(Functors) /\ Elements(<<f>>) = {f} /\ Queue(q, <<f>>)
        BY <3>4, <4>1 DEF Elements
      <4>5. TodosKept({})
        BY <3>2, <3>3, <3>4, <4>2, <4>3, <4>4, TodosQueue
      <4>6. TodoStep(q, {}, Elements(<<f>>))
        BY <3>3, <4>4, TodoQueued DEF Typed
      <4>7. QED BY <4>1, <4>4, <4>5, <4>6
    <3>5. CASE l = Main
      <4>1. connections' = connections \ {c} /\ Queue(l, <<Functor("connectDestroyed", c)>>)
        BY <1>3, <3>1, <3>5 DEF RemoveConnection, RemoveConnectionInLoop
      <4>2. TodosKept({}) /\ TodoStep(l, {}, {Functor("connectDestroyed", c)})
        BY <3>4, <4>1
      <4>3. Falling(c)'
        <5>1. Functor("connectDestroyed", c) \in Ahead(l)'
          BY <4>2 DEF TodoStep
        <5>2. Functor("connectDestroyed", c).kind = "connectDestroyed"
              /\ Functor("connectDestroyed", c).c = c
          BY DEF Functor
        <5>3. QED BY <5>1, <5>2 DEF Falling
      <4>4. InDown(c) => InDown(c)'
        BY <2>5, <4>2, FallingKeeps
      <4>5. ConnOK(c)'
        BY <1>3, <1>4, <1>6, <2>1, <3>1, <4>1, <4>3, <4>4 DEF ConnOK, Created, Settled, Untouched
      <4>6. \A d \in Conns \ {c} : Same(d) /\ (d \in connections' <=> d \in connections)
        BY <2>2, <4>1
      <4>7. TodosKept({c}) /\ DownKept({c})
        BY <2>5, <4>2, KeptMore
      <4>8. QED BY <1>3, <1>4, <2>2, <2>4, <4>5, <4>6, <4>7, OwnLife
    <3>6. CASE l # Main
      <4>1. connections' = connections /\ Queue(Main, <<Functor("removeConnectionInLoop", c)>>)
        BY <3>1, <3>6 DEF RemoveConnection
      <4>2. TodosKept({})
        BY <1>1, <3>4, <4>1
      <4>3. QED BY <1>4, <2>2, <2>4, <2>5, <4>1, <4>2, LoopLife
    <3>7. QED BY <3>5, <3>6
  <2>8. QED BY <2>6, <2>7
<1>9. QED BY <1>7, <1>8

(* A functor that is started was waiting. *)
LEMMA StartsFit ==
  ASSUME Typed, Life, NEW l \in Loops, NEW f, Starts(l, f)
  PROVE  Fit(l, f) /\ f \in Functors /\ f.c \in Conns
<1> DEFINE rest == SubSeq(batch[l], pos[l] + 1, Len(batch[l]))
<1>1. batch[l] \in Seq(Functors) /\ pos[l] \in Nat /\ pos[l] < Len(batch[l])
      /\ pending[l] \in Seq(Functors) /\ f = batch[l][pos[l] + 1]
  BY DEF Starts, Typed, BatchTyped, QueueTyped
<1>2. rest \in Seq(Functors) /\ Len(rest) = Len(batch[l]) - pos[l] /\ rest[1] = f
  <2>1. \A i \in 1..Len(batch[l]) : batch[l][i] \in Functors
    BY <1>1, ElementOfSeq
  <2>2. /\ \A i \in (pos[l] + 1)..Len(batch[l]) : batch[l][i] \in Functors
        /\ pos[l] + 1 \in Int /\ Len(batch[l]) \in Int
    BY <1>1, <2>1
  <2>3. rest \in Seq(Functors)
    BY <2>2, SubSeqProperties
  <2>4. Len(rest) = Len(batch[l]) - pos[l]
    BY <1>1, <2>2, SubSeqProperties
  <2>5. rest[1] = f
    BY <1>1
  <2>6. QED BY <2>3, <2>4, <2>5
<1>3. Len(rest) >= 1 /\ Len(rest) \in Nat
  BY <1>1, <1>2, SMTT(60)
<1> HIDE DEF rest
<1>4. /\ Len(rest \o pending[l]) = Len(rest) + Len(pending[l])
      /\ (rest \o pending[l])[1] = rest[1]
  <2>1. pending[l] \in Seq(Functors) /\ rest \in Seq(Functors) /\ 1 \in 1..Len(rest)
    BY <1>1, <1>2, <1>3
  <2>2. /\ Len(rest \o pending[l]) = Len(rest) + Len(pending[l])
        /\ \A i \in 1..Len(rest) : (rest \o pending[l])[i] = rest[i]
    BY <2>1, ConcatProperties
  <2>3. QED BY <2>1, <2>2
<1>5. 1 \in 1..Len(rest \o pending[l])
  BY <1>1, <1>3, <1>4
<1>6. f \in Ahead(l)
  BY <1>2, <1>4, <1>5 DEF Ahead, Elements, Todo, rest
<1>7. QED BY <1>6, AheadTyped DEF Life, TodoOK

(* The loop itself when it starts a functor that makes no callback. *)
LEMMA StartsLoop ==
  ASSUME Typed, Life, NEW l \in Loops, NEW f, Starts(l, f)
  PROVE  /\ phase[l] = "run" /\ active[l] = {} /\ frame[l] = NoFrame
         /\ phase' = phase /\ active' = active /\ batch' = batch /\ user' = user
         /\ pos'[l] \in Nat /\ pos'[l] <= Len(batch[l])
         /\ \A k \in Loops \ {l} : pos'[k] = pos[k]
         /\ frame' = frame => LoopOK(l)' /\ DownKept({})
         /\ \A k \in Loops \ {l} : frame'[k] = frame[k] => LoopRests(k)
         /\ (\A k \in Loops \ {l} : frame'[k] = frame[k]) => DownKept({})
<1>1. /\ phase[l] = "run" /\ frame[l] = NoFrame
      /\ phase' = phase /\ active' = active /\ batch' = batch /\ user' = user
  BY DEF Starts
<1>2. pos'[l] \in Nat /\ pos'[l] <= Len(batch[l]) /\ \A k \in Loops \ {l} : pos'[k] = pos[k]
  BY DEF Starts, Typed, BatchTyped
<1>3. active[l] = {}
  BY <1>1 DEF Life, LoopOK, PhaseOK
<1>4. frame' = frame => LoopOK(l)'
  BY <1>1, <1>2, <1>3, NoFrameIsEmpty DEF LoopOK, PhaseOK, ActiveOK, FrameOK
<1>5. \A k \in Loops \ {l} : frame'[k] = frame[k] => LoopRests(k)
  BY <1>1, <1>2 DEF LoopRests
<1>6. (\A k \in Loops \ {l} : frame'[k] = frame[k]) => DownKept({})
  BY <1>1, NoFrameIsEmpty DEF DownKept
<1>7. QED BY <1>1, <1>2, <1>3, <1>4, <1>5, <1>6

(* The functors. *)
LEMMA FunctorLife ==
  ASSUME Typed, Life, NEW l \in Loops, RunFunctor(l)
  PROVE  Life'
<1>1. PICK f : /\ Starts(l, f)
               /\ \/ RunConnectEstablished(l, f) \/ RunConnectDestroyed(l, f)
                  \/ RunRemoveConnection(l, f) \/ RunUserCallback(l, f)
                  \/ RunSend(l, f) \/ RunSendFile(l, f) \/ RunShutdown(l, f)
  BY DEF RunFunctor, RunConnectEstablished, RunConnectDestroyed, RunRemoveConnection,
     RunUserCallback, RunSend, RunSendFile, RunShutdown
<1>2. /\ Fit(l, f) /\ f \in Functors
      /\ f.kind \in {"sendInLoop", "sendFileInLoop"} => f.msg \in 1..MaxSends
      /\ f.off \in 0..FileLen
  BY <1>1, StartsFit, StartsTyped
<1>3. PICK c \in Conns : c = f.c
  BY <1>1, StartsFit
<1>4. ConnOK(c) /\ LoopOK(l)
  BY DEF Life
<1>5. /\ phase[l] = "run" /\ active[l] = {} /\ frame[l] = NoFrame
      /\ phase' = phase /\ active' = active /\ batch' = batch /\ user' = user
      /\ pos'[l] \in Nat /\ pos'[l] <= Len(batch[l])
      /\ frame' = frame => LoopOK(l)' /\ DownKept({})
      /\ \A k \in Loops \ {l} : frame'[k] = frame[k] => LoopRests(k)
      /\ (\A k \in Loops \ {l} : frame'[k] = frame[k]) => DownKept({})
  BY <1>1, StartsLoop
<1>6. pending' = pending =>
         Queue(l, <<>>) /\ <<>> \in Seq(Functors) /\ Elements(<<>>) = {}
  BY QueueNothing DEF Typed
<1>7. CASE RunConnectEstablished(l, f)
  <2>1. ConnectEstablished(l, c) /\ UNCHANGED <<connections, pending, hist>>
        /\ f.kind = "connectEstablished"
    BY <1>3, <1>7 DEF RunConnectEstablished
  <2>2. Becomes(c, "kConnected", EnableReading(conn[c].chan)) /\ Call(l, c, "up", {})
    BY <2>1, EstablishedEffect
  <2>3. conn[c].state = "kConnecting" /\ conn[c].loop = l
    BY <1>2, <1>3, <2>1 DEF Fit
  <2>4. Untouched(c) /\ c \in connections
    BY <1>4, <2>3 DEF ConnOK
  <2>5. conn'[c].chan.index = "ADDED"
    <3>1. conn[c].chan \in ChannelType
      BY DEF Typed, ConnTyped, ConnType
    <3>2. QED BY <2>2, <2>4, <3>1, ChannelEffect DEF OpEffect, Becomes, Untouched
  <2>6. \A d \in Conns \ {c} : Same(d) /\ (d \in connections' <=> d \in connections)
    BY <2>1, <2>2 DEF Becomes, Same
  <2>7. \A d \in Conns : Grows(d)
    BY <2>1, <2>2, <2>3 DEF Becomes, Grows, Created, Settled
  <2>8. ConnOK(c)'
    BY <1>4, <2>1, <2>2, <2>4, <2>5 DEF ConnOK, Becomes, Created, Untouched
  <2>9. TodosKept({c})
    <3>1. \A d \in Conns : conn[d].state = "kConnecting" =>
            conn'[d].state = "kConnecting" \/ (f.kind = "connectEstablished" /\ f.c = d)
      BY <1>3, <2>1, <2>2 DEF Becomes
    <3>2. QED BY <1>1, <1>6, <2>1, <3>1, TodosStart
  <2>10. Settled(c)' /\ conn'[c].loop = l
    BY <2>2, <2>3 DEF Settled, Becomes
  <2>11. LoopOK(l)' /\ \A k \in Loops \ {l} : frame'[k] = frame[k]
    BY <1>4, <1>5, <2>2, <2>6, <2>7, <2>10, CallLife DEF Same
  <2>12. DownKept({c}) /\ \A k \in Loops \ {l} : LoopRests(k)
    BY <1>5, <2>11, KeptMore
  <2>13. QED BY <1>5, <2>3, <2>6, <2>7, <2>8, <2>9, <2>11, <2>12, OwnLife
<1>8. CASE RunConnectDestroyed(l, f)
  <2>1. ConnectDestroyed(l, c) /\ UNCHANGED <<connections, pending>>
        /\ f.kind = "connectDestroyed"
    BY <1>3, <1>8 DEF RunConnectDestroyed
  <2>2. Destroys(l, c)
    BY <2>1, DestroyedEffect
  <2>3. Settled(c) /\ conn[c].loop = l /\ hist[c].closed
    BY <1>2, <1>3, <2>1 DEF Fit
  <2>4. conn[c].chan \in ChannelType
    BY DEF Typed, ConnTyped, ConnType
  <2>5. \A d \in Conns \ {c} : Same(d) /\ (d \in connections' <=> d \in connections)
    BY <2>1, <2>2 DEF Destroys, Becomes, Same
  <2>6. \A d \in Conns : Grows(d)
    BY <2>2, <2>3, <2>5, SameGrows DEF Destroys, Becomes, Grows, Created, Settled
  <2>7. TodosKept({c})
    <3>1. \A d \in Conns : conn[d].state = "kConnecting" => conn'[d].state = "kConnecting"
      BY <2>3, <2>5 DEF Same, Settled
    <3>2. QED BY <1>1, <1>3, <1>6, <2>1, <3>1, TodosStart
  <2>8. CASE conn[c].state = "kConnected"
    <3>1. /\ Becomes(c, "kDisconnected", DisableAll(conn[c].chan)) /\ Call(l, c, "down", {})
          /\ hist'[c].closed = hist[c].closed /\ hist'[c].lateShut = hist[c].lateShut
          /\ hist'[c].downs = hist[c].downs + 1
      BY <2>2, <2>8 DEF Destroys
    <3>2. conn'[c].chan.events = {} /\ conn'[c].state = "kDisconnected"
          /\ conn'[c].loop = l /\ conn'[c].chan.index # "NEW"
      <4>1. /\ conn'[c].chan = DisableAll(conn[c].chan)
            /\ conn'[c].state = "kDisconnected" /\ conn'[c].loop = l
        BY <2>3, <3>1 DEF Becomes
      <4>2. OpEffect(conn[c].chan, DisableAll(conn[c].chan), {})
        BY <2>4, ChannelEffect
      <4>3. QED BY <4>1, <4>2 DEF OpEffect
    <3>3. LoopOK(l)' /\ \A k \in Loops \ {l} : frame'[k] = frame[k]
      <4>1. Settled(c)' /\ hist'[c].closed
        BY <2>3, <3>1, <3>2 DEF Settled
      <4>2. \A d \in Conns \ {c} : conn'[d].chan.index = conn[d].chan.index
        BY <2>5 DEF Same
      <4>3. QED BY <1>4, <1>5, <2>6, <3>1, <3>2, <4>1, <4>2, CallLife
    <3>4. InDown(c)'
      <4>1. frame'[l].c = c /\ frame'[l].cb = "down"
        BY <3>1 DEF Call, Typed, FrameTyped
      <4>2. QED BY <4>1 DEF InDown
    <3>5. ConnOK(c)'
      <4>1. hist[c].downs = 0
        BY <1>4, <2>8 DEF ConnOK
      <4>2. QED BY <2>1, <2>3, <3>1, <3>2, <3>4, <4>1 DEF ConnOK, Created, Falling
    <3>6. DownKept({c}) /\ \A k \in Loops \ {l} : LoopRests(k)
      BY <1>5, <3>3, KeptMore
    <3>7. QED BY <1>5, <2>3, <2>5, <2>6, <2>7, <3>3, <3>5, <3>6, OwnLife
  <2>9. CASE conn[c].state # "kConnected"
    <3>1. Becomes(c, conn[c].state, RemoveChannel(conn[c].chan)) /\ UNCHANGED <<hist, frame>>
      BY <2>2, <2>9 DEF Destroys
    <3>2. conn'[c].chan.index = "NEW" /\ conn'[c].chan.events = conn[c].chan.events
      BY <2>4, <3>1, RemoveEffect DEF Becomes
    <3>3. conn[c].state = "kDisconnected"
      BY <2>3, <2>9 DEF Settled
    <3>4. ConnOK(c)'
      BY <1>4, <2>1, <2>3, <3>1, <3>2, <3>3 DEF ConnOK, Becomes, Created
    <3>5. LoopOK(l)' /\ DownKept({c}) /\ \A k \in Loops \ {l} : LoopRests(k)
      BY <1>5, <3>1, KeptMore
    <3>6. QED BY <1>5, <2>3, <2>5, <2>6, <2>7, <3>4, <3>5, OwnLife
  <2>10. QED BY <2>8, <2>9
<1>9. CASE RunRemoveConnection(l, f)
  <2>1. connections' = connections \ {c} /\ UNCHANGED <<conn, frame, hist>>
        /\ Queue(conn[c].loop, <<Functor("connectDestroyed", c)>>)
        /\ f.kind = "removeConnectionInLoop"
    BY <1>3, <1>9 DEF RunRemoveConnection, RemoveConnectionInLoop
  <2>2. Settled(c) /\ hist[c].closed
    BY <1>2, <1>3, <2>1 DEF Fit
  <2>3. PICK q \in Loops : q = conn[c].loop
    BY DEF Typed, ConnTyped, ConnType
  <2>4. PICK g \in Functors : g = Functor("connectDestroyed", c)
    BY FunctorsMade
  <2>5. g.kind = "connectDestroyed" /\ g.c = c
    BY <2>4 DEF Functor
  <2>6. Fit(q, g)'
    BY <2>1, <2>2, <2>3, <2>5 DEF Fit, Settled
  <2>7. <<g>> \in Seq(Functors) /\ Elements(<<g>>) = {g} /\ Queue(q, <<g>>)
    BY <2>1, <2>3, <2>4 DEF Elements
  <2>8. TodosKept({})
    BY <1>1, <2>1, <2>5, <2>6, <2>7, TodosStart
  <2>9. Falling(c)'
    <3>1. g \in Ahead(q)'
      <4>1. CASE q # l
        <5>1. batch'[q] = batch[q] /\ pos'[q] = pos[q]
          BY <1>1, <4>1, StartsLoop
        <5>2. TodoStep(q, {}, {g})
          BY <2>7, <5>1, TodoQueued DEF Typed
        <5>3. QED BY <5>2 DEF TodoStep
      <4>2. CASE q = l
        <5>1. pending'[l] = pending[l] \o <<g>>
          BY <2>7, <4>2 DEF Queue, Typed, QueueTyped
        <5>2. TodoStep(l, {f}, {g})
          BY <1>1, <2>7, <5>1, TodoStarted DEF Typed
        <5>3. QED BY <4>2, <5>2 DEF TodoStep
      <4>3. QED BY <4>1, <4>2
    <3>2. QED BY <2>5, <3>1 DEF Falling
  <2>10. LoopOK(l)' /\ DownKept({}) /\ \A k \in Loops \ {l} : LoopRests(k)
    BY <1>5, <2>1
  <2>11. InDown(c) => InDown(c)'
    BY <2>8, <2>10, FallingKeeps
  <2>12. ConnOK(c)'
    BY <1>4, <2>1, <2>2, <2>9, <2>11 DEF ConnOK, Created, Settled, Untouched
  <2>13. \A d \in Conns : Same(d) /\ Grows(d)
    BY <2>1, SameGrows DEF Same
  <2>14. TodosKept({c}) /\ DownKept({c})
    BY <2>8, <2>10, KeptMore
  <2>15. \A k \in Loops : LoopOK(k)'
    <3>1. ASSUME NEW k \in Loops \ {l} PROVE LoopOK(k)'
      <4>1. LoopOK(k) /\ LoopRests(k)
        BY <2>10 DEF Life
      <4>2. QED BY <2>13, <4>1, LoopKeeps DEF Same
    <3>2. QED BY <2>10, <3>1
  <2>16. \A u \in Users : UserOK(u)'
    BY <1>5, <2>13, UsersKeep
  <2>17. \A d \in Conns \ {c} : Same(d) /\ (d \in connections' <=> d \in connections)
    BY <2>1, <2>13
  <2>18. QED BY <2>12, <2>13, <2>14, <2>15, <2>16, <2>17, LifeStep
<1>10. ASSUME UNCHANGED <<connections, pending>>, \A d \in Conns : Same(d),
              LoopOK(l)', \A k \in Loops \ {l} : frame'[k] = frame[k],
              f.kind \notin {"connectEstablished", "connectDestroyed"}
       PROVE  Life'
  <2>1. TodosKept({})
    BY <1>1, <1>6, <1>10, TodosStart, ZenonT(60) DEF Same
  <2>2. DownKept({}) /\ \A k \in Loops \ {l} : LoopRests(k)
    BY <1>5, <1>10
  <2>3. QED BY <1>5, <1>10, <2>1, <2>2, LoopLife
<1>11. CASE RunUserCallback(l, f)
  <2>1. /\ f.kind \in {"writeComplete", "highWaterMark"}
        /\ UNCHANGED <<conn, connections, pending, hist>>
    BY <1>11 DEF RunUserCallback
  <2>2. \A d \in Conns : Same(d) /\ Grows(d)
    BY <2>1, SameGrows DEF Same
  <2>3. CASE UNCHANGED frame
    BY <1>5, <1>10, <2>1, <2>2, <2>3
  <2>4. CASE Call(l, f.c, f.kind, {})
    <3>1. Settled(c)' /\ conn'[c].loop = l
      BY <1>2, <1>3, <2>1 DEF Fit, Settled
    <3>2. f.kind \notin {"close", "down"}
      BY <2>1
    <3>3. LoopOK(l)' /\ \A k \in Loops \ {l} : frame'[k] = frame[k]
      BY <1>3, <1>4, <1>5, <2>2, <2>4, <3>1, <3>2, CallLife DEF Same
    <3>4. QED BY <1>10, <2>1, <2>2, <3>3
  <2>5. QED BY <1>11, <2>3, <2>4 DEF RunUserCallback
<1>12. CASE RunShutdown(l, f)
  <2>1. f.kind = "shutdownInLoop" /\ UNCHANGED <<conn, connections, pending, frame, hist>>
    BY <1>12 DEF RunShutdown
  <2>2. \A d \in Conns : Same(d)
    BY <2>1 DEF Same
  <2>3. QED BY <1>5, <1>10, <2>1, <2>2
<1>13. ASSUME f.kind \in {"sendInLoop", "sendFileInLoop"}, UNCHANGED <<connections, frame>>,
              \A d \in Conns : Grows(d), \A d \in Conns \ {c} : Same(d),
              (InDown(c) => InDown(c)') /\ (Falling(c) => Falling(c)') => ConnOK(c)',
              QueuesQuiet(conn[c].loop, c)
       PROVE  Life'
  <2>1. Settled(c) /\ conn[c].loop = l
    BY <1>2, <1>3, <1>13 DEF Fit
  <2>2. PICK fs \in Seq(Quiet(c)) : Queue(l, fs)
    BY <1>13, <2>1 DEF QueuesQuiet
  <2>3. /\ fs \in Seq(Functors)
        /\ \A g \in Elements(fs) : g.kind # "connectEstablished" /\ Fit(l, g)'
    BY <1>13, <2>1, QuietFits
  <2>4. \A d \in Conns : conn[d].state = "kConnecting" => conn'[d].state = "kConnecting"
    BY <1>13, <2>1 DEF Same, Settled
  <2>5. TodosKept({})
    BY <1>1, <1>13, <2>2, <2>3, <2>4, TodosStart
  <2>6. LoopOK(l)' /\ DownKept({}) /\ \A k \in Loops \ {l} : LoopRests(k)
    BY <1>5, <1>13
  <2>7. ConnOK(c)'
    BY <1>13, <2>5, <2>6, FallingKeeps
  <2>8. TodosKept({c}) /\ DownKept({c})
    BY <2>5, <2>6, KeptMore
  <2>9. QED BY <1>5, <1>13, <2>1, <2>6, <2>7, <2>8, OwnLife
<1>14. CASE RunSend(l, f)
  <2>1. f.kind = "sendInLoop" /\ UNCHANGED <<connections, frame>>
    BY <1>14 DEF RunSend
  <2>2. CASE UNCHANGED <<conn, pending, hist>>
    <3>1. \A d \in Conns : Same(d)
      BY <2>2 DEF Same
    <3>2. QED BY <1>5, <1>10, <2>1, <2>2, <3>1
  <2>3. CASE SendInLoop(c, f.msg) /\ conn[c].state # "kDisconnected"
    <3>1. PICK m \in 1..MaxSends : m = f.msg /\ SendInLoop(c, m)
      BY <1>2, <2>1, <2>3
    <3>2. conn[c].state = "kConnected"
      BY <1>2, <1>3, <2>1, <2>3 DEF Fit, Settled
    <3>3. CASE UNCHANGED <<conn, sock, pending, hist>>
      BY <2>2, <3>3
    <3>4. CASE /\ Only(c) /\ SameLife(c) /\ QueuesQuiet(conn[c].loop, c)
               /\ \E n \in 0..MsgLen, given \in BOOLEAN : Sends(c, m, n, given)
      BY <1>13, <2>1, <3>2, <3>4, SendsConn
    <3>5. QED BY <3>1, <3>3, <3>4, SendEffect
  <2>4. QED BY <1>3, <1>14, <2>2, <2>3 DEF RunSend
<1>15. CASE RunSendFile(l, f)
  <2>1. f.kind = "sendFileInLoop" /\ UNCHANGED <<conn, connections, frame>>
    BY <1>15 DEF RunSendFile
  <2>2. CASE UNCHANGED <<pending, hist>>
    <3>1. \A d \in Conns : Same(d)
      BY <2>1, <2>2 DEF Same
    <3>2. QED BY <1>5, <1>10, <2>1, <2>2, <3>1
  <2>3. CASE SendFileInLoop(c, f.msg, f.off)
    <3>1. CASE /\ \A d \in Conns : /\ hist'[d].closed = hist[d].closed
                                   /\ hist'[d].downs = hist[d].downs
                                   /\ hist'[d].lateShut = hist[d].lateShut
               /\ QueuesQuiet(conn[c].loop, c)
      <4>1. \A d \in Conns : Same(d) /\ Grows(d)
        BY <2>1, <3>1, SameGrows DEF Same
      <4>2. (InDown(c) => InDown(c)') /\ (Falling(c) => Falling(c)') => ConnOK(c)'
        BY <1>4, <2>1, <4>1 DEF ConnOK, Created, Untouched, Same
      <4>3. QED BY <1>13, <2>1, <3>1, <4>1, <4>2
    <3>2. f.msg \in 1..MaxSends
      BY <1>2, <2>1
    <3>3. QED BY <1>2, <2>2, <2>3, <3>1, <3>2, SendFileEffect
  <2>4. QED BY <1>3, <1>15, <2>2, <2>3 DEF RunSendFile
<1>16. QED BY <1>1, <1>7, <1>8, <1>9, <1>11, <1>12, <1>14, <1>15

(* The loop of the server when the Acceptor has been served. *)
LEMMA AcceptedLoop ==
  ASSUME Typed, Life, NEW c \in Conns,
         NewConnection(c) \/ AcceptFails(c) \/ AcceptRetried(c)
  PROVE  /\ Main \in Loops /\ phase[Main] = "dispatch" /\ frame[Main] = NoFrame
         /\ ~Created(c) /\ c \notin active[Main]
         /\ UNCHANGED <<phase, batch, pos, user, hist>>
         /\ active'[Main] \subseteq active[Main]
         /\ \A k \in Loops \ {Main} : active'[k] = active[k]
<1>1. Main \in Loops
  BY NextLoopIsLoop DEF Typed
<1>2. /\ phase[Main] = "dispatch" /\ frame[Main] = NoFrame /\ conn[c].state = "backlog"
      /\ active' = [active EXCEPT ![Main] = @ \ {Acceptor}]
  BY DEF NewConnection, AcceptFails, AcceptRetried, AcceptorHandleRead, Dispatching
<1>3. UNCHANGED <<phase, batch, pos, user, hist>>
  BY DEF NewConnection, AcceptFails, AcceptRetried
<1>4. active'[Main] \subseteq active[Main] /\ \A k \in Loops \ {Main} : active'[k] = active[k]
  BY <1>1, <1>2 DEF Typed, PhaseTyped
<1>5. ~Created(c)
  BY <1>2 DEF Created
<1>6. c \notin active[Main]
  BY <1>1, <1>2 DEF Life, LoopOK, ActiveOK, Settled
<1>7. QED BY <1>1, <1>2, <1>3, <1>4, <1>5, <1>6

(* Then it goes on, when no channel but that of c has changed. *)
LEMMA AcceptedKeeps ==
  ASSUME Typed, Life, NEW c \in Conns,
         NewConnection(c) \/ AcceptFails(c) \/ AcceptRetried(c), UNCHANGED frame,
         \A d \in Conns \ {c} : conn'[d] = conn[d]
  PROVE  /\ \A d \in Conns : Grows(d)
         /\ \A l \in Loops : LoopOK(l)'
<1>1. /\ Main \in Loops /\ phase[Main] = "dispatch" /\ frame[Main] = NoFrame
      /\ ~Created(c)
      /\ UNCHANGED <<phase, batch, pos, user, hist>>
      /\ active'[Main] \subseteq active[Main]
      /\ \A k \in Loops \ {Main} : active'[k] = active[k]
  BY AcceptedLoop
<1>2. \A d \in Conns : Grows(d)
  <2>1. Grows(c)
    BY <1>1 DEF Grows, Created, Settled
  <2>2. ASSUME NEW d \in Conns \ {c} PROVE Grows(d)
    <3>1. conn'[d] = conn[d] /\ hist'[d] = hist[d]
      BY <1>1
    <3>2. QED BY <3>1 DEF Grows, Created, Settled
  <2>3. QED BY <2>1, <2>2
<1>3. \A d \in Conns : Settled(d) => conn'[d] = conn[d]
  BY <1>1 DEF Settled, Created
<1>4. ASSUME NEW k \in Loops \ {Main} PROVE LoopOK(k)'
  <2>1. LoopOK(k) /\ LoopRests(k)
    BY <1>1 DEF Life, LoopRests
  <2>2. QED BY <1>2, <1>3, <2>1, LoopKeeps
<1>5. LoopOK(Main)'
  <2>1. LoopOK(Main)
    BY <1>1 DEF Life
  <2>2. PhaseOK(Main)'
    BY <1>1, <2>1 DEF LoopOK, PhaseOK
  <2>3. ActiveOK(Main)'
    BY <1>1, <1>3, <2>1 DEF LoopOK, ActiveOK, Settled
  <2>4. FrameOK(Main)'
    BY <1>1, NoFrameIsEmpty DEF FrameOK
  <2>5. QED BY <2>2, <2>3, <2>4 DEF LoopOK
<1>6. QED BY <1>2, <1>4, <1>5

(* A list of functors on other connections gets the first one on c. *)
LEMMA FirstOfConn ==
  ASSUME NEW t \in Seq(Functors), NEW f \in Functors, NEW u, u = t \o <<f>>,
         EstablishedOnce(t), \A g \in Elements(t) : g.c # f.c
  PROVE  EstablishedOnce(u) /\ Elements(u) = Elements(t) \union {f}
<1>1. <<f>> \in Seq(Functors) /\ Len(<<f>>) = 1 /\ <<f>>[1] = f
  OBVIOUS
<1>2. Elements(<<f>>) = {f}
  BY DEF Elements
<1>3. Elements(u) = Elements(t) \union {f}
  <2>1. PICK fs \in Seq(Functors) : fs = <<f>>
    BY <1>1
  <2>2. u = t \o fs /\ Elements(fs) = {f}
    BY <1>2, <2>1
  <2>3. Elements(u) = Elements(t) \union Elements(fs)
    BY <2>2, AppendedTodo
  <2>4. QED BY <2>2, <2>3
<1>4. /\ Len(u) = Len(t) + 1 /\ Len(t) \in Nat
      /\ \A i \in 1..Len(t) : u[i] = t[i]
      /\ u[Len(t) + 1] = f
  BY <1>1
<1>5. \A i \in 1..Len(u) : i \in 1..Len(t) \/ i = Len(t) + 1
  BY <1>4
<1>6. \A i \in 1..Len(t) : u[i].c # f.c
  BY <1>4 DEF Elements
<1>7. SUFFICES ASSUME NEW i \in 1..Len(u), NEW j \in 1..Len(u),
                      u[i].kind = "connectEstablished", u[j].kind = "connectEstablished",
                      u[i].c = u[j].c
               PROVE  i = j
  BY <1>3 DEF EstablishedOnce
<1>8. CASE i \in 1..Len(t) /\ j \in 1..Len(t)
  BY <1>4, <1>7, <1>8 DEF EstablishedOnce
<1>9. CASE i = Len(t) + 1 \/ j = Len(t) + 1
  BY <1>4, <1>5, <1>6, <1>7, <1>9
<1>10. QED BY <1>5, <1>8, <1>9

(* The Acceptor. *)
LEMMA AcceptLife ==
  ASSUME Typed, Life, NEW c \in Conns,
         NewConnection(c) \/ AcceptFails(c) \/ AcceptRetried(c)
  PROVE  Life'
<1>1. /\ Main \in Loops /\ phase[Main] = "dispatch" /\ frame[Main] = NoFrame
      /\ ~Created(c) /\ c \notin active[Main]
      /\ UNCHANGED <<phase, batch, pos, user, hist>>
      /\ active'[Main] \subseteq active[Main]
      /\ \A k \in Loops \ {Main} : active'[k] = active[k]
  BY AcceptedLoop
<1>2. ConnOK(c) /\ Untouched(c) /\ conn[c].loop = Main /\ c \notin connections
  BY <1>1 DEF Life, ConnOK
<1>3. CASE AcceptFails(c)
  <2>1. Becomes(c, "refused", conn[c].chan)
    BY <1>3, AcceptTyped
  <2>2. UNCHANGED <<connections, pending, frame>>
    BY <1>3 DEF AcceptFails
  <2>3. ConnOK(c)'
    BY <1>1, <1>2, <2>1, <2>2 DEF Becomes, ConnOK, Created, Untouched
  <2>4. \A l \in Loops : LoopOK(l)'
    BY <1>3, <2>1, <2>2, AcceptedKeeps DEF Becomes
  <2>5. DownKept({})
    BY <2>2 DEF DownKept
  <2>6. QED BY <1>1, <2>1, <2>2, <2>3, <2>4, <2>5, UnseenLife DEF Becomes
<1>4. CASE NewConnection(c) /\ Becomes(c, "kConnected", EnableReading(conn[c].chan))
           /\ Call(Main, c, "up", {}) /\ UNCHANGED pending
  <2>1. connections' = connections \union {c}
    BY <1>4 DEF NewConnection
  <2>2. conn'[c].chan.index = "ADDED"
    <3>1. conn[c].chan \in ChannelType
      BY DEF Typed, ConnTyped, ConnType
    <3>2. QED BY <1>2, <1>4, <3>1, ChannelEffect DEF OpEffect, Becomes, Untouched
  <2>3. \A d \in Conns \ {c} : Same(d) /\ (d \in connections' <=> d \in connections)
    BY <1>1, <1>4, <2>1 DEF Becomes, Same
  <2>4. \A d \in Conns : Grows(d)
    <3>1. Grows(c)
      BY <1>1 DEF Grows, Created, Settled
    <3>2. QED BY <2>3, <3>1, SameGrows
  <2>5. Settled(c)' /\ conn'[c].loop = Main
    BY <1>2, <1>4 DEF Settled, Becomes
  <2>6. ConnOK(c)'
    BY <1>1, <1>2, <1>4, <2>1, <2>2 DEF ConnOK, Becomes, Created, Untouched
  <2>7. TodosKept({}) 
    <3>1. Queue(Main, <<>>) /\ <<>> \in Seq(Functors) /\ Elements(<<>>) = {}
      BY <1>1, <1>4, QueueNothing DEF Typed
    <3>2. \A l \in Loops : \A f \in Ahead(l) : f.kind = "connectEstablished"
                                                => conn'[f.c].state = "kConnecting"
      <4> SUFFICES ASSUME NEW l \in Loops, NEW f \in Ahead(l), f.kind = "connectEstablished"
                   PROVE  conn'[f.c].state = "kConnecting"
        OBVIOUS
      <4>1. f.c \in Conns /\ conn[f.c].state = "kConnecting"
        BY AheadTyped DEF Life, TodoOK, Fit
      <4>2. QED BY <1>1, <2>3, <4>1 DEF Created, Same
    <3>3. QED BY <1>1, <3>1, <3>2, TodosQueue
  <2>8. LoopOK(Main)' /\ \A k \in Loops \ {Main} : frame'[k] = frame[k]
    <3>1. LoopOK(Main)
      BY <1>1 DEF Life
    <3>2. /\ phase'[Main] = phase[Main] /\ batch'[Main] = batch[Main]
          /\ pos'[Main] = pos[Main] /\ pos'[Main] \in Nat /\ pos'[Main] <= Len(batch[Main])
          /\ c \notin active'[Main]
      BY <1>1, <3>1 DEF Typed, BatchTyped, LoopOK, PhaseOK
    <3>3. \A d \in Conns \ {c} : conn'[d].chan.index = conn[d].chan.index
      BY <2>3 DEF Same
    <3>4. QED BY <1>1, <1>4, <2>4, <2>5, <3>1, <3>2, <3>3, CallLife
  <2>9. DownKept({}) /\ \A k \in Loops \ {Main} : LoopRests(k)
    BY <1>1, <2>8, NoFrameIsEmpty DEF DownKept, LoopRests
  <2>10. TodosKept({c}) /\ DownKept({c})
    BY <2>7, <2>9, KeptMore
  <2>11. QED BY <1>1, <2>3, <2>4, <2>6, <2>8, <2>9, <2>10, OwnLife
<1>5. CASE /\ NewConnection(c)
           /\ \A d \in Conns \ {c} : conn'[d] = conn[d]
           /\ conn'[c] = NewConn(NextLoop)
           /\ Queue(NextLoop, <<Functor("connectEstablished", c)>>)
           /\ UNCHANGED frame
  <2>1. PICK q \in Loops : q = NextLoop
    BY NextLoopIsLoop DEF Typed
  <2>2. PICK f \in Functors : f = Functor("connectEstablished", c)
    BY FunctorsMade
  <2>3. f.kind = "connectEstablished" /\ f.c = c
    BY <2>2 DEF Functor
  <2>4. connections' = connections \union {c}
    BY <1>5 DEF NewConnection
  <2>5. /\ conn'[c].state = "kConnecting" /\ conn'[c].loop = q /\ conn'[c].out = <<>>
        /\ conn'[c].chan.index = "NEW" /\ conn'[c].chan.events = {}
    BY <1>5, <2>1 DEF NewConn, NewChannel
  <2>6. (\A d \in Conns : Grows(d)) /\ \A l \in Loops : LoopOK(l)'
    BY <1>5, AcceptedKeeps
  <2>7. \A l \in Loops : \A g \in Ahead(l) : g \in Functors /\ g.c \in Conns \ {c} /\ Fit(l, g)
    BY <1>1, AheadTyped DEF Life, TodoOK, Fit, Settled, Created
  <2>8. \A l \in Loops : \A g \in Ahead(l) : Fit(l, g)'
    <3> SUFFICES ASSUME NEW l \in Loops, NEW g \in Ahead(l) PROVE Fit(l, g)'
      OBVIOUS
    <3>1. Fit(l, g) /\ Grows(g.c) /\ conn'[g.c] = conn[g.c]
      BY <1>5, <2>6, <2>7
    <3>2. QED BY <3>1, FitKeeps DEF Fit
  <2>9. Fit(q, f)'
    BY <2>3, <2>5 DEF Fit
  <2>10. <<f>> \in Seq(Functors) /\ Queue(q, <<f>>) /\ batch'[q] = batch[q] /\ pos'[q] = pos[q]
    BY <1>1, <1>5, <2>1, <2>2
  <2>11. Todo(q)' = Todo(q) \o <<f>> /\ \A k \in Loops \ {q} : pending'[k] = pending[k]
    BY <2>10, TodoQueued DEF Typed
  <2>12. \A k \in Loops \ {q} : Todo(k)' = Todo(k)
    BY <1>1, <2>11 DEF Todo
  <2>13. EstablishedOnce(Todo(q)') /\ Ahead(q)' = Ahead(q) \union {f}
    <3>1. Todo(q) \in Seq(Functors) /\ EstablishedOnce(Todo(q))
      BY TodoTyped DEF Typed, Life, TodoOK
    <3>2. \A g \in Elements(Todo(q)) : g.c # f.c
      BY <2>3, <2>7 DEF Ahead
    <3>3. Ahead(q)' = Elements(Todo(q)') /\ Ahead(q) = Elements(Todo(q))
      BY DEF Ahead, Elements
    <3> HIDE DEF Todo
    <3>4. EstablishedOnce(Todo(q)') /\ Elements(Todo(q)') = Elements(Todo(q)) \union {f}
      BY <2>11, <3>1, <3>2, FirstOfConn
    <3>5. QED BY <3>3, <3>4
  <2>14. \A k \in Loops \ {q} : EstablishedOnce(Todo(k)') /\ Ahead(k)' = Ahead(k)
    <3> SUFFICES ASSUME NEW k \in Loops \ {q}
                 PROVE  EstablishedOnce(Todo(k)') /\ Ahead(k)' = Ahead(k)
      OBVIOUS
    <3>1. EstablishedOnce(Todo(k)) /\ Todo(k)' = Todo(k)
      BY <2>12 DEF Life, TodoOK
    <3>2. Ahead(k)' = Elements(Todo(k)') /\ Ahead(k) = Elements(Todo(k))
      BY DEF Ahead, Elements
    <3> HIDE DEF Todo
    <3>3. QED BY <3>1, <3>2
  <2>15. ASSUME NEW l \in Loops PROVE TodoOK(l)'
    <3>1. EstablishedOnce(Todo(l)')
      BY <2>13, <2>14
    <3>2. EstablishedOnce(Todo(l))'
      BY <3>1 DEF EstablishedOnce
    <3>3. \A g \in Ahead(l)' : g \in Ahead(l) \/ (l = q /\ g = f)
      BY <2>13, <2>14
    <3>4. \A g \in Ahead(l)' : Fit(l, g)'
      BY <2>8, <2>9, <3>3
    <3>5. QED BY <3>2, <3>4 DEF TodoOK
  <2>16. ASSUME NEW d \in Conns \ {c} PROVE ConnOK(d)'
    <3>1. ConnOK(d) /\ conn'[d] = conn[d] /\ hist'[d] = hist[d]
          /\ (d \in connections' <=> d \in connections)
      BY <1>1, <1>5, <2>4 DEF Life
    <3>2. InDown(d) => InDown(d)'
      BY <1>5 DEF InDown
    <3>3. \A l \in Loops : Ahead(l) \subseteq Ahead(l)'
      BY <2>13, <2>14
    <3>4. Falling(d) => Falling(d)'
      BY <3>2, <3>3 DEF Falling
    <3>5. QED BY <3>1, <3>2, <3>4 DEF ConnOK, Untouched, Created
  <2>17. ConnOK(c)'
    BY <1>1, <1>2, <2>4, <2>5 DEF ConnOK, Untouched, Created
  <2>18. \A u \in Users : UserOK(u)'
    BY <1>1, <2>6, UsersKeep
  <2>19. QED BY <2>6, <2>15, <2>16, <2>17, <2>18 DEF Life
<1>6. CASE AcceptRetried(c)
  <2>1. UNCHANGED <<conn, connections, pending, frame>>
    BY <1>6, RetryTyped
  <2>2. ConnOK(c)'
    BY <1>1, <1>2, <2>1 DEF ConnOK, Created, Untouched
  <2>3. \A l \in Loops : LoopOK(l)'
    BY <1>6, <2>1, AcceptedKeeps
  <2>4. DownKept({})
    BY <2>1 DEF DownKept
  <2>5. QED BY <1>1, <2>1, <2>2, <2>3, <2>4, UnseenLife
<1>7. QED BY <1>3, <1>4, <1>5, <1>6, AcceptTyped DEF Arrives

(* At first there is nothing. *)
LEMMA LifeInit == Init => Life
<1> SUFFICES ASSUME Init PROVE Life
  OBVIOUS
<1>1. ASSUME NEW l \in Loops PROVE LoopOK(l)
  <2>1. /\ batch[l] = <<>> /\ pos[l] = 0 /\ phase[l] = "poll" /\ active[l] = {}
        /\ frame[l] = NoFrame
    BY DEF Init
  <2>2. QED BY <2>1, NoFrameIsEmpty DEF LoopOK, PhaseOK, ActiveOK, FrameOK
<1>2. ASSUME NEW l \in Loops PROVE TodoOK(l)
  <2>1. batch[l] = <<>> /\ pos[l] = 0 /\ pending[l] = <<>>
    BY DEF Init
  <2>2. Todo(l) = SubSeq(<<>>, 1, 0) \o <<>>
    BY <2>1 DEF Todo
  <2>3. SubSeq(<<>>, 1, 0) = <<>>
    OBVIOUS
  <2>4. Todo(l) = <<>>
    BY <2>2, <2>3
  <2>5. QED BY <2>4 DEF TodoOK, Ahead, Elements, EstablishedOnce
<1>3. ASSUME NEW u \in Users PROVE UserOK(u)
  BY NoFrameIsEmpty DEF Init, UserOK
<1>4. ASSUME NEW c \in Conns PROVE ConnOK(c)
  <2>1. conn[c] = Unborn /\ hist[c] = NoHist /\ c \notin connections
    BY DEF Init
  <2>2. QED BY <2>1 DEF ConnOK, Untouched, Created, Unborn, NoHist, NewChannel
<1>5. QED BY <1>1, <1>2, <1>3, <1>4 DEF Life

(* The invariant is inductive. *)
LEMMA LifeNext == Typed /\ ChannelsConsistent /\ Life /\ [Next]_vars => Life'
<1> SUFFICES ASSUME Typed, ChannelsConsistent, Life, [Next]_vars PROVE Life'
  OBVIOUS
<1>1. CASE UNCHANGED vars
  BY <1>1, CalmLife DEF vars, loopVars
<1>2. ASSUME NEW l \in Loops, LoopStep(l) PROVE Life'
  BY <1>2, RoundLife, HandlerLife, FunctorLife, ReturnLife DEF LoopStep
<1>3. ASSUME NEW l \in Loops, UserCode(l) PROVE Life'
  BY <1>3, UserCodeLife
<1>4. CASE AcceptStep
  BY <1>4, AcceptLife DEF AcceptStep
<1>5. ASSUME NEW c \in Conns, PeerStep(c) \/ PeerRead(c) PROVE Life'
  BY <1>5, PeerLife
<1>6. ASSUME NEW u \in Users, UserStep(u) \/ UserFinishes(u) PROVE Life'
  BY <1>6, UserThreadLife
<1>7. QED BY <1>1, <1>2, <1>3, <1>4, <1>5, <1>6 DEF Next

(* It always holds. *)
LEMMA LifeAlways == Spec => []Life
  BY TypedAlways, PollerAgrees, LifeInit, LifeNext, PTL DEF Spec
-----------------------------------------------------------------------------
(* What the invariant says about the end of a connection.                  *)

(* The functors that wait are kept by their lists. *)
LEMMA AheadHeld ==
  ASSUME Typed, NEW l \in Loops, NEW f \in Ahead(l)
  PROVE  f \in Elements(pending[l]) \union Elements(batch[l])
<1> DEFINE rest == SubSeq(batch[l], pos[l] + 1, Len(batch[l]))
<1>1. batch[l] \in Seq(Functors) /\ pending[l] \in Seq(Functors) /\ pos[l] \in Nat
  BY DEF Typed, BatchTyped, QueueTyped
<1>2. rest \in Seq(Functors) /\ Elements(rest) \subseteq Elements(batch[l])
  <2>1. \A i \in 1..Len(batch[l]) : batch[l][i] \in Functors
    BY <1>1, ElementOfSeq
  <2>2. /\ \A i \in (pos[l] + 1)..Len(batch[l]) : batch[l][i] \in Functors
        /\ pos[l] + 1 \in Int /\ Len(batch[l]) \in Int
    BY <1>1, <2>1
  <2>3. rest \in Seq(Functors)
    BY <2>2, SubSeqProperties
  <2>4. \A i \in 1..Len(rest) : pos[l] + i \in 1..Len(batch[l]) /\ rest[i] = batch[l][pos[l] + i]
    <3>1. CASE pos[l] <= Len(batch[l])
      <4>1. Len(rest) = Len(batch[l]) - pos[l]
        BY <1>1, <2>2, <3>1, SubSeqProperties
      <4>2. \A i \in 1..(Len(batch[l]) - pos[l]) : rest[i] = batch[l][pos[l] + i]
        BY <1>1, <3>1, SMTT(60)
      <4> HIDE DEF rest
      <4>3. QED BY <1>1, <3>1, <4>1, <4>2, SMTT(60)
    <3>2. CASE pos[l] > Len(batch[l])
      <4>1. rest = <<>>
        BY <1>1, <3>2
      <4> HIDE DEF rest
      <4>2. Len(rest) = 0
        BY <4>1
      <4>3. QED BY <4>2
    <3>3. QED BY <1>1, <3>1, <3>2, SMTT(60)
  <2> HIDE DEF rest
  <2>5. QED BY <2>3, <2>4 DEF Elements
<1>3. PICK t : t = rest \o pending[l]
  OBVIOUS
<1>4. f \in Elements(t)
  BY <1>3 DEF Ahead, Todo
<1> HIDE DEF rest
<1>5. Elements(t) = Elements(rest) \union Elements(pending[l])
  BY <1>1, <1>2, <1>3, AppendedTodo
<1>6. QED BY <1>2, <1>4, <1>5

(* Nobody holds the connection any more: it is closed, and its channel is  *)
(* not with the poller.                                                    *)
LEMMA DeadIsClosed ==
  ASSUME Typed, Life, NEW c \in Conns, Created(c), ~Alive(c)
  PROVE  hist[c].closed /\ conn[c].chan.index = "NEW" /\ conn[c].state = "kDisconnected"
<1>1. c \notin connections /\ \A l \in Loops : frame[l].c # c
  BY DEF Alive
<1>2. ~InDown(c)
  BY <1>1 DEF InDown
<1>3. ~Falling(c)
  <2> SUFFICES ASSUME NEW l \in Loops, NEW f \in Ahead(l), f.kind = "connectDestroyed", f.c = c
               PROVE  FALSE
    BY <1>2 DEF Falling
  <2>1. f \in Elements(pending[l]) \union Elements(batch[l])
    BY AheadHeld
  <2>2. QED BY <2>1 DEF Alive, Owning
<1>4. ConnOK(c)
  BY DEF Life
<1>5. QED BY <1>1, <1>3, <1>4 DEF ConnOK, Created

(* EpollPoller never hands out the channel of a connection that no         *)
(* TcpConnectionPtr refers to any more, and no loop has it among its       *)
(* active channels: connectDestroyed, which holds a pointer until it has   *)
(* removed the channel, is queued before the map lets go of its own.       *)
THEOREM DeadConnectionsGone == Spec => []DeadIsUnregistered
<1>1. Typed /\ ChannelsConsistent /\ Life => DeadIsUnregistered
  <2> SUFFICES ASSUME Typed, ChannelsConsistent, Life, NEW c \in Conns, Created(c), ~Alive(c)
               PROVE  /\ ~conn[c].chan.watched /\ ~conn[c].chan.listed
                      /\ \A l \in Loops : c \notin active[l]
    BY DEF DeadIsUnregistered
  <2>1. conn[c].chan.index = "NEW"
    BY DeadIsClosed
  <2>2. Consistent(conn[c].chan)
    BY DEF ChannelsConsistent
  <2>3. \A l \in Loops : c \notin active[l]
    BY <2>1 DEF Life, LoopOK, ActiveOK
  <2>4. QED BY <2>1, <2>2, <2>3 DEF Consistent
<1>2. QED BY <1>1, TypedAlways, PollerAgrees, LifeAlways, PTL

(* The user is told once that a connection is down: by handleClose if      *)
(* shutdown came before it, otherwise by connectDestroyed, and always      *)
(* before the object is gone, unless shutdown was called between the two.  *)
THEOREM DownReportedOnce == Spec => []DownIsReported
<1>1. Typed /\ Life => DownIsReported
  <2> SUFFICES ASSUME Typed, Life, NEW c \in Conns
               PROVE  /\ hist[c].downs <= 1
                      /\ Created(c) /\ ~Alive(c) /\ ~hist[c].lateShut => hist[c].downs = 1
    BY DEF DownIsReported
  <2>1. ConnOK(c)
    BY DEF Life
  <2>2. hist[c].downs <= 1
    BY <2>1 DEF ConnOK
  <2>3. ASSUME Created(c), ~Alive(c), ~hist[c].lateShut PROVE hist[c].downs = 1
    <3>1. hist[c].closed /\ conn[c].state = "kDisconnected"
      BY <2>3, DeadIsClosed
    <3>2. QED BY <2>1, <2>3, <3>1 DEF ConnOK
  <2>4. QED BY <2>2, <2>3
<1>2. QED BY <1>1, TypedAlways, LifeAlways, PTL
-----------------------------------------------------------------------------
(* The byte stream.                                                        *)

(* What a step may do to the output of a connection: nothing;             *)
Idle(c) ==
  /\ conn'[c].out = conn[c].out /\ conn'[c].chan.events = conn[c].chan.events
  /\ hist'[c].sent = hist[c].sent /\ hist'[c].accepted = hist[c].accepted
  /\ hist'[c].closed = hist[c].closed
  /\ Created(c)' => Created(c)
  /\ ~sock[c].wrShut /\ sock'[c].wrShut => Created(c) /\ ~IsWriting(conn[c].chan)

(* create or establish the connection;                                     *)
Begins(c) ==
  /\ Untouched(c)
  /\ conn'[c].out = <<>> /\ ~IsWriting(conn'[c].chan)
  /\ UNCHANGED hist /\ sock'[c].wrShut = sock[c].wrShut

(* close it, or destroy it when it was closed;                             *)
Ends(c) ==
  /\ hist'[c].closed
  /\ conn'[c].out = conn[c].out
  /\ hist'[c].sent = hist[c].sent /\ hist'[c].accepted = hist[c].accepted
  /\ sock'[c].wrShut = sock[c].wrShut

(* take on a message, as sendInLoop does;                                  *)
Writes(c) ==
  /\ Created(c) /\ SameLife(c) /\ sock'[c].wrShut = sock[c].wrShut
  /\ \E m \in 1..MaxSends, n \in 0..MsgLen, given \in BOOLEAN : Sends(c, m, n, given)

(* write what waits, as handleWrite does.                                  *)
Flushes(c) == Created(c) /\ SameLife(c) /\ \E n \in Nat : Drains(c, n)

StepKind(c) == Idle(c) \/ Begins(c) \/ Ends(c) \/ Writes(c) \/ Flushes(c)

(* The steps of the handlers. *)
LEMMA HandlerKinds ==
  ASSUME Typed, Life, NEW l \in Loops,
         \/ \E c \in Conns : HandleEvent(l, c)
         \/ CloseCallback(l) \/ ErrorCallback(l) \/ ReadCallback(l) \/ WriteCallback(l)
  PROVE  \A d \in Conns : StepKind(d)
<1>1. ASSUME UNCHANGED <<conn, hist>>, \A d \in Conns : sock'[d].wrShut = sock[d].wrShut
      PROVE  \A d \in Conns : StepKind(d)
  BY <1>1 DEF StepKind, Idle, Created
<1>2. ASSUME NEW c \in Conns, NEW due, HandleClose(l, c, due), UNCHANGED sock
      PROVE  \A d \in Conns : StepKind(d)
  <2>1. Closes(c)
    BY <1>2, CloseEffect
  <2>2. Ends(c)
    BY <1>2, <2>1 DEF Closes, Becomes, Ends
  <2>3. \A d \in Conns \ {c} : Idle(d)
    BY <1>2, <2>1 DEF Closes, Becomes, Idle, Created
  <2>4. QED BY <2>2, <2>3 DEF StepKind
<1>3. ASSUME NEW c \in Conns, HandleEvent(l, c) PROVE \A d \in Conns : StepKind(d)
  BY <1>1, <1>3 DEF HandleEvent
<1>4. ASSUME NEW k, Handling(l, k) PROVE frame[l].c \in Conns
  BY <1>4 DEF Handling, IsNext, Typed, FrameTyped
<1>5. CASE CloseCallback(l)
  <2>1. PICK c \in Conns : c = frame[l].c
    BY <1>4, <1>5 DEF CloseCallback
  <2>2. PICK due : due = frame[l].due \ {"close"}
    OBVIOUS
  <2>3. HandleClose(l, c, due) /\ UNCHANGED sock
    BY <1>5, <2>1, <2>2 DEF CloseCallback
  <2>4. QED BY <1>2, <2>3
<1>6. ASSUME NEW c \in Conns, \/ sock' = [sock EXCEPT ![c].err = "none"]
                              \/ sock' = [sock EXCEPT ![c].rcv = 0]
      PROVE  \A d \in Conns : sock'[d].wrShut = sock[d].wrShut
  BY <1>6 DEF Typed, SockTyped, SockType
<1>7. CASE ErrorCallback(l)
  <2>1. PICK c \in Conns : c = frame[l].c
    BY <1>4, <1>7 DEF ErrorCallback
  <2>2. sock' = [sock EXCEPT ![c].err = "none"] /\ UNCHANGED <<conn, hist>>
    BY <1>7, <2>1 DEF ErrorCallback
  <2>3. QED BY <1>1, <1>6, <2>2
<1>8. CASE ReadCallback(l)
  <2>1. PICK c \in Conns : c = frame[l].c
    BY <1>4, <1>8 DEF ReadCallback
  <2>2. PICK due : due = frame[l].due \ {"read"}
    OBVIOUS
  <2>3. \/ sock' = [sock EXCEPT ![c].rcv = 0] /\ UNCHANGED <<conn, hist>>
        \/ HandleClose(l, c, due) /\ UNCHANGED sock
        \/ sock' = [sock EXCEPT ![c].err = "none"] /\ UNCHANGED <<conn, hist>>
    BY <1>8, <2>1, <2>2 DEF ReadCallback
  <2>4. QED BY <1>1, <1>2, <1>6, <2>3
<1>9. CASE WriteCallback(l)
  <2>1. PICK c \in Conns : c = frame[l].c
    BY <1>9, WriteEffect
  <2>2. /\ Only(c) /\ SameLife(c) /\ \E n \in Nat : Drains(c, n)
        /\ \A d \in Conns \ {c} : sock'[d] = sock[d]
    BY <1>9, <2>1, WriteEffect
  <2>3. Created(c)
    BY <2>1 DEF Life, LoopOK, FrameOK, Settled, Created
  <2>4. \A d \in Conns \ {c} : Idle(d)
    BY <2>2 DEF Only, Idle, Created
  <2>5. Flushes(c)
    BY <2>2, <2>3 DEF Flushes
  <2>6. QED BY <2>4, <2>5 DEF StepKind
<1>10. QED BY <1>3, <1>5, <1>7, <1>8, <1>9

(* The functors. *)
LEMMA FunctorKinds ==
  ASSUME Typed, Life, NEW l \in Loops, RunFunctor(l)
  PROVE  \A d \in Conns : StepKind(d)
<1>1. PICK f : /\ Starts(l, f)
               /\ \/ RunConnectEstablished(l, f) \/ RunConnectDestroyed(l, f)
                  \/ RunRemoveConnection(l, f) \/ RunUserCallback(l, f)
                  \/ RunSend(l, f) \/ RunSendFile(l, f) \/ RunShutdown(l, f)
  BY DEF RunFunctor, RunConnectEstablished, RunConnectDestroyed, RunRemoveConnection,
     RunUserCallback, RunSend, RunSendFile, RunShutdown
<1>2. /\ Fit(l, f) /\ f \in Functors
      /\ f.kind \in {"sendInLoop", "sendFileInLoop"} => f.msg \in 1..MaxSends
      /\ f.off \in 0..FileLen
  BY <1>1, StartsFit, StartsTyped
<1>3. PICK c \in Conns : c = f.c
  BY <1>1, StartsFit
<1>4. Created(c)
  BY <1>2, <1>3 DEF Fit, Settled, Created
<1>5. ASSUME UNCHANGED <<conn, hist>>, \A d \in Conns : sock'[d].wrShut = sock[d].wrShut
      PROVE  \A d \in Conns : StepKind(d)
  BY <1>5 DEF StepKind, Idle, Created
<1>6. CASE RunConnectEstablished(l, f)
  <2>1. ConnectEstablished(l, c) /\ UNCHANGED <<sock, hist>> /\ f.kind = "connectEstablished"
    BY <1>3, <1>6 DEF RunConnectEstablished
  <2>2. Becomes(c, "kConnected", EnableReading(conn[c].chan))
    BY <2>1, EstablishedEffect
  <2>3. Untouched(c) /\ conn[c].chan \in ChannelType
    BY <1>2, <1>3, <2>1 DEF Fit, Life, ConnOK, Typed, ConnTyped, ConnType
  <2>4. ~IsWriting(EnableReading(conn[c].chan))
    BY <2>3, ChannelEffect DEF OpEffect, Untouched, IsWriting, ReadEvent, WriteEvent
  <2>5. Begins(c)
    BY <2>1, <2>2, <2>3, <2>4 DEF Begins, Becomes, Untouched
  <2>6. \A d \in Conns \ {c} : Idle(d)
    BY <2>1, <2>2 DEF Becomes, Idle, Created
  <2>7. QED BY <2>5, <2>6 DEF StepKind
<1>7. CASE RunConnectDestroyed(l, f)
  <2>1. ConnectDestroyed(l, c) /\ UNCHANGED sock /\ f.kind = "connectDestroyed"
    BY <1>3, <1>7 DEF RunConnectDestroyed
  <2>2. Destroys(l, c) /\ hist[c].closed
    BY <1>2, <1>3, <2>1, DestroyedEffect DEF Fit
  <2>3. Ends(c)
    BY <2>1, <2>2 DEF Destroys, Becomes, Ends
  <2>4. \A d \in Conns \ {c} : Idle(d)
    BY <2>1, <2>2 DEF Destroys, Becomes, Idle, Created
  <2>5. QED BY <2>3, <2>4 DEF StepKind
<1>8. CASE RunRemoveConnection(l, f) \/ RunUserCallback(l, f)
  BY <1>5, <1>8 DEF RunRemoveConnection, RunUserCallback
<1>9. CASE RunSend(l, f)
  <2>1. CASE UNCHANGED <<conn, sock, hist>>
    BY <1>5, <2>1
  <2>2. CASE SendInLoop(c, f.msg)
    <3>1. PICK m \in 1..MaxSends : m = f.msg /\ SendInLoop(c, m)
      BY <1>2, <1>9, <2>2 DEF RunSend
    <3>2. CASE /\ Only(c) /\ SameLife(c)
               /\ \E n \in 0..MsgLen, given \in BOOLEAN : Sends(c, m, n, given)
               /\ \A d \in Conns : sock'[d].wrShut = sock[d].wrShut
      <4>1. Writes(c)
        BY <1>4, <3>2 DEF Writes
      <4>2. \A d \in Conns \ {c} : Idle(d)
        BY <3>2 DEF Only, Idle, Created
      <4>3. QED BY <4>1, <4>2 DEF StepKind
    <3>3. QED BY <2>1, <3>1, <3>2, SendEffect
  <2>3. QED BY <1>3, <1>9, <2>1, <2>2 DEF RunSend
<1>10. CASE RunSendFile(l, f)
  <2>1. UNCHANGED conn /\ f.kind = "sendFileInLoop"
    BY <1>10 DEF RunSendFile
  <2>2. CASE UNCHANGED <<sock, hist>>
    BY <1>5, <2>1, <2>2
  <2>3. CASE SendFileInLoop(c, f.msg, f.off)
    <3>1. CASE /\ \A d \in Conns :
                    /\ hist'[d].sent = hist[d].sent /\ hist'[d].accepted = hist[d].accepted
                    /\ hist'[d].closed = hist[d].closed
               /\ \A d \in Conns : sock'[d].wrShut = sock[d].wrShut
      BY <2>1, <3>1 DEF StepKind, Idle, Created
    <3>2. f.msg \in 1..MaxSends
      BY <1>2, <2>1
    <3>3. QED BY <1>2, <2>2, <2>3, <3>1, <3>2, SendFileEffect
  <2>4. QED BY <1>3, <1>10, <2>2, <2>3 DEF RunSendFile
<1>11. CASE RunShutdown(l, f)
  <2>1. UNCHANGED <<conn, hist>>
    BY <1>11 DEF RunShutdown
  <2>2. \/ sock' = [sock EXCEPT ![c] = sock[c]]
        \/ sock' = [sock EXCEPT ![c] = ShutdownInLoop(conn[c].chan, sock[c])]
    BY <1>3, <1>11, Zenon DEF RunShutdown
  <2>3. sock[c] \in SockType /\ \A d \in Conns \ {c} : sock'[d] = sock[d]
    BY <2>2 DEF Typed, SockTyped
  <2>4. sock'[c] \in {sock[c], ShutdownInLoop(conn[c].chan, sock[c])}
    BY <2>2 DEF Typed, SockTyped
  <2>5. ~sock[c].wrShut /\ sock'[c].wrShut => ~IsWriting(conn[c].chan)
    BY <2>3, <2>4 DEF ShutdownInLoop
  <2>6. Idle(c)
    BY <1>4, <2>1, <2>5 DEF Idle, Created
  <2>7. \A d \in Conns \ {c} : Idle(d)
    BY <2>1, <2>3 DEF Idle, Created
  <2>8. QED BY <2>6, <2>7 DEF StepKind
<1>12. QED BY <1>1, <1>6, <1>7, <1>8, <1>9, <1>10, <1>11

(* User code, in a callback or in another thread. *)
LEMMA UserKinds ==
  ASSUME Typed, Life,
         \/ \E l \in Loops : UserCode(l)
         \/ \E u \in Users : UserStep(u) \/ UserFinishes(u)
  PROVE  \A d \in Conns : StepKind(d)
<1>1. ASSUME UNCHANGED <<conn, hist>>, \A d \in Conns : sock'[d].wrShut = sock[d].wrShut
      PROVE  \A d \in Conns : StepKind(d)
  BY <1>1 DEF StepKind, Idle, Created
<1>2. ASSUME NEW c \in Conns, Created(c),
             conn' = [conn EXCEPT ![c].state = "kDisconnected"],
             hist' = [hist EXCEPT ![c].lateShut = @ \/ hist[c].closed],
             \A d \in Conns \ {c} : sock'[d] = sock[d],
             sock'[c] \in {sock[c], ShutdownInLoop(conn[c].chan, sock[c])}
      PROVE  \A d \in Conns : StepKind(d)
  <2>1. ShutsDown(c)
    BY <1>2, ShutsDownEffect
  <2>2. ~sock[c].wrShut /\ sock'[c].wrShut => ~IsWriting(conn[c].chan)
    BY <1>2 DEF ShutdownInLoop
  <2>3. Idle(c)
    BY <1>2, <2>1, <2>2 DEF ShutsDown, Becomes, Idle, Created
  <2>4. \A d \in Conns \ {c} : Idle(d)
    BY <1>2, <2>1 DEF ShutsDown, Becomes, Idle, Created
  <2>5. QED BY <2>3, <2>4 DEF StepKind
<1>3. ASSUME NEW l \in Loops, UserCode(l) PROVE \A d \in Conns : StepKind(d)
  <2>1. PICK c \in Conns : c = frame[l].c
    BY <1>3, UserCodeTyped
  <2>2. Created(c)
    BY <2>1 DEF Life, LoopOK, FrameOK, Settled, Created
  <2>3. CASE CallbackSends(l)
    <3>1. sends + 1 \in 1..MaxSends
      BY <2>3, ServerAssumption DEF CallbackSends, Typed, CountTyped
    <3>2. PICK m \in 1..MaxSends : m = sends + 1 /\ SendInLoop(c, m)
      BY <2>1, <2>3, <3>1 DEF CallbackSends
    <3>3. CASE UNCHANGED <<conn, sock, hist>>
      BY <1>1, <3>3
    <3>4. CASE /\ Only(c) /\ SameLife(c)
               /\ \E n \in 0..MsgLen, given \in BOOLEAN : Sends(c, m, n, given)
               /\ \A d \in Conns : sock'[d].wrShut = sock[d].wrShut
      <4>1. Writes(c)
        BY <2>2, <3>4 DEF Writes
      <4>2. \A d \in Conns \ {c} : Idle(d)
        BY <3>4 DEF Only, Idle, Created
      <4>3. QED BY <4>1, <4>2 DEF StepKind
    <3>5. QED BY <3>2, <3>3, <3>4, SendEffect
  <2>4. CASE CallbackSendsFile(l)
    <3>1. sends + 1 \in 1..MaxSends /\ 0 \in 0..FileLen
      BY <2>4, ServerAssumption DEF CallbackSendsFile, Typed, CountTyped
    <3>2. SendFileInLoop(c, sends + 1, 0) /\ UNCHANGED conn
      BY <2>1, <2>4 DEF CallbackSendsFile
    <3>3. CASE UNCHANGED <<sock, hist>>
      BY <1>1, <3>2, <3>3
    <3>4. CASE /\ \A d \in Conns :
                    /\ hist'[d].sent = hist[d].sent /\ hist'[d].accepted = hist[d].accepted
                    /\ hist'[d].closed = hist[d].closed
               /\ \A d \in Conns : sock'[d].wrShut = sock[d].wrShut
      BY <3>2, <3>4 DEF StepKind, Idle, Created
    <3>5. QED BY <3>1, <3>2, <3>3, <3>4, SendFileEffect
  <2>5. CASE CallbackShutsDown(l)
    <3>1. /\ conn' = [conn EXCEPT ![c].state = "kDisconnected"]
          /\ hist' = [hist EXCEPT ![c].lateShut = @ \/ hist[c].closed]
      BY <2>1, <2>5 DEF CallbackShutsDown
    <3>2. sock' = [sock EXCEPT ![c] = ShutdownInLoop(conn[c].chan, sock[c])]
      BY <2>1, <2>5, Zenon DEF CallbackShutsDown
    <3>3. /\ \A d \in Conns \ {c} : sock'[d] = sock[d]
          /\ sock'[c] = ShutdownInLoop(conn[c].chan, sock[c])
      BY <3>2 DEF Typed, SockTyped
    <3>4. QED BY <1>2, <2>2, <3>1, <3>3
  <2>6. ASSUME NEW u \in Users, CallbackShares(l, u) PROVE \A d \in Conns : StepKind(d)
    BY <1>1, <2>6, SMTT(60) DEF CallbackShares
  <2>7. QED BY <1>3, <2>3, <2>4, <2>5, <2>6 DEF UserCode
<1>4. ASSUME NEW u \in Users, UserStep(u) \/ UserFinishes(u)
      PROVE  \A d \in Conns : StepKind(d)
  <2>1. CASE UserSetsState(u)
    <3>1. PICK c \in Conns : c = user[u].c
      BY <2>1 DEF UserSetsState, UserGoes, Typed, UserTyped
    <3>2. Created(c)
      BY <3>1 DEF Life, UserOK, Settled, Created
    <3>3. /\ conn' = [conn EXCEPT ![c].state = "kDisconnected"]
          /\ hist' = [hist EXCEPT ![c].lateShut = @ \/ hist[c].closed]
          /\ UNCHANGED sock
      BY <2>1, <3>1 DEF UserSetsState
    <3>4. QED BY <1>2, <3>2, <3>3
  <2>2. CASE UNCHANGED <<conn, sock, hist>>
    BY <1>1, <2>2
  <2>3. QED
    BY <1>4, <2>1, <2>2 DEF UserStep, UserFinishes, UserTestsForSend, UserTestsForShutdown,
       UserDrops, UserQueuesSend, UserQueuesFile, UserQueuesShutdown
<1>5. QED BY <1>3, <1>4

(* The peers. *)
LEMMA PeerKinds ==
  ASSUME Typed, NEW c \in Conns, PeerStep(c) \/ PeerRead(c)
  PROVE  \A d \in Conns : StepKind(d)
<1>1. CASE Connect(c)
  <2>1. conn[c].chan \in ChannelType /\ conn' = [conn EXCEPT ![c].state = "backlog"]
        /\ UNCHANGED <<sock, hist>>
    BY <1>1 DEF Connect, Typed, ConnTyped, ConnType
  <2>2. Becomes(c, "backlog", conn[c].chan)
    BY <2>1, BecomesEffect DEF Typed
  <2>3. QED BY <2>1, <2>2 DEF Becomes, StepKind, Idle, Created
<1>2. ASSUME NEW s, s.wrShut = sock[c].wrShut, PeerActs(c, s)
      PROVE  \A d \in Conns : StepKind(d)
  <2>1. sock' = [sock EXCEPT ![c] = s] /\ UNCHANGED <<conn, hist>>
    BY <1>2 DEF PeerActs
  <2>2. \A d \in Conns : sock'[d].wrShut = sock[d].wrShut
    BY <1>2, <2>1 DEF Typed, SockTyped
  <2>3. QED BY <2>1, <2>2 DEF StepKind, Idle, Created
<1>3. sock[c] \in SockType
  BY DEF Typed, SockTyped
<1>4. CASE PeerSend(c)
  <2>1. PICK s : s = [sock[c] EXCEPT !.rcv = 1]
    OBVIOUS
  <2>2. s.wrShut = sock[c].wrShut
    BY <1>3, <2>1 DEF SockType
  <2>3. QED BY <1>2, <1>4, <2>1, <2>2 DEF PeerSend
<1>5. CASE PeerFin(c)
  <2>1. PICK s : s = [sock[c] EXCEPT !.fin = TRUE]
    OBVIOUS
  <2>2. s.wrShut = sock[c].wrShut
    BY <1>3, <2>1 DEF SockType
  <2>3. QED BY <1>2, <1>5, <2>1, <2>2 DEF PeerFin
<1>6. CASE PeerReset(c)
  <2>1. PICK e : PeerActs(c, [sock[c] EXCEPT !.rst = TRUE, !.err = e])
    BY <1>6, Zenon DEF PeerReset
  <2>2. PICK s : s = [sock[c] EXCEPT !.rst = TRUE, !.err = e]
    OBVIOUS
  <2>3. s.wrShut = sock[c].wrShut
    BY <1>3, <2>2 DEF SockType
  <2>4. QED BY <1>2, <2>1, <2>2, <2>3
<1>7. CASE PeerRead(c)
  <2>1. PICK s : s = [sock[c] EXCEPT !.room = sock[c].room + 1]
    OBVIOUS
  <2>2. s.wrShut = sock[c].wrShut
    BY <1>3, <2>1 DEF SockType
  <2>3. PeerActs(c, s)
    BY <1>7, <2>1, Zenon DEF PeerRead
  <2>4. QED BY <1>2, <2>2, <2>3
<1>8. QED BY <1>1, <1>4, <1>5, <1>6, <1>7 DEF PeerStep

(* Nothing else is done to the output of a connection. *)
LEMMA StepKinds ==
  ASSUME Typed, Life, [Next]_vars
  PROVE  \A d \in Conns : StepKind(d)
<1>1. ASSUME UNCHANGED <<conn, sock, hist>> PROVE \A d \in Conns : StepKind(d)
  BY <1>1 DEF StepKind, Idle, Created
<1>2. CASE UNCHANGED vars
  BY <1>1, <1>2 DEF vars
<1>3. ASSUME NEW c \in Conns, NewConnection(c) \/ AcceptFails(c) \/ AcceptRetried(c)
      PROVE  \A d \in Conns : StepKind(d)
  <2>1. Untouched(c) /\ conn[c].chan \in ChannelType
    BY <1>3, AcceptedLoop DEF Life, ConnOK, Typed, ConnTyped, ConnType
  <2>2. UNCHANGED <<sock, hist>>
    BY <1>3 DEF NewConnection, AcceptFails, AcceptRetried
  <2>3. ASSUME \A d \in Conns \ {c} : conn'[d] = conn[d], conn'[c].out = <<>>,
               ~IsWriting(conn'[c].chan)
        PROVE  \A d \in Conns : StepKind(d)
    <3>1. Begins(c)
      BY <2>1, <2>2, <2>3 DEF Begins
    <3>2. \A d \in Conns \ {c} : Idle(d)
      BY <2>2, <2>3 DEF Idle, Created
    <3>3. QED BY <3>1, <3>2 DEF StepKind
  <2>4. CASE Becomes(c, "kConnected", EnableReading(conn[c].chan))
    <3>1. ~IsWriting(EnableReading(conn[c].chan))
      BY <2>1, ChannelEffect DEF OpEffect, Untouched, IsWriting, ReadEvent, WriteEvent
    <3>2. QED BY <2>1, <2>3, <2>4, <3>1 DEF Becomes, Untouched
  <2>5. CASE conn'[c] = NewConn(NextLoop) /\ \A d \in Conns \ {c} : conn'[d] = conn[d]
    BY <2>3, <2>5 DEF NewConn, NewChannel, IsWriting
  <2>6. CASE Becomes(c, "refused", conn[c].chan)
    BY <2>1, <2>3, <2>6 DEF Becomes, Untouched, IsWriting
  <2>7. CASE UNCHANGED conn
    BY <1>1, <2>2, <2>7
  <2>8. QED BY <1>3, <2>4, <2>5, <2>6, <2>7, AcceptTyped, RetryTyped DEF Arrives
<1>4. ASSUME NEW l \in Loops, LoopStep(l) PROVE \A d \in Conns : StepKind(d)
  <2>1. CASE Poll(l)
    <3>1. UNCHANGED <<sock, hist>>
      BY <2>1 DEF Poll
    <3>2. QED BY <2>1, <3>1, PollTyped DEF StepKind, Idle, Created
  <2>2. CASE SwapFunctors(l) \/ EndFunctors(l)
    BY <1>1, <2>2 DEF SwapFunctors, EndFunctors
  <2>3. CASE CallbackReturns(l)
    <3>1. PICK c \in Conns : c = frame[l].c
      BY <2>3, ReturnTyped
    <3>2. UNCHANGED <<sock, hist>>
      BY <2>3 DEF CallbackReturns
    <3>3. CASE UNCHANGED conn
      BY <1>1, <3>2, <3>3
    <3>4. CASE Becomes(c, conn[c].state, RemoveChannel(conn[c].chan))
      <4>1. conn[c].chan \in ChannelType
        BY DEF Typed, ConnTyped, ConnType
      <4>2. RemoveChannel(conn[c].chan).events = conn[c].chan.events
        BY <4>1, RemoveEffect
      <4>3. QED BY <3>2, <3>4, <4>2 DEF Becomes, StepKind, Idle, Created
    <3>5. QED BY <2>3, <3>1, <3>3, <3>4, ReturnTyped DEF Returns
  <2>4. QED BY <1>4, <2>1, <2>2, <2>3, HandlerKinds, FunctorKinds DEF LoopStep
<1>5. QED BY <1>2, <1>3, <1>4, UserKinds, PeerKinds DEF Next, AcceptStep

(* Write events and output that waits, after one step. *)
LEMMA WritingStep ==
  ASSUME Typed, Life, WritingIffBuffered, [Next]_vars
  PROVE  WritingIffBuffered'
<1> SUFFICES ASSUME NEW c \in Conns, Created(c)', ~hist'[c].closed
             PROVE  IsWriting(conn'[c].chan) <=> conn'[c].out # <<>>
  BY DEF WritingIffBuffered, IsWriting
<1>1. Created(c) /\ ~hist[c].closed => (IsWriting(conn[c].chan) <=> conn[c].out # <<>>)
  BY DEF WritingIffBuffered
<1>2. conn[c].chan \in ChannelType /\ conn[c].out \in Seq(1..MaxSends)
  BY DEF Typed, ConnTyped, ConnType
<1>3. CASE Idle(c)
  BY <1>1, <1>3 DEF Idle, IsWriting
<1>4. CASE Begins(c)
  BY <1>4 DEF Begins
<1>5. CASE Ends(c)
  BY <1>5 DEF Ends
<1>6. CASE Writes(c)
  <2>1. IsWriting(conn[c].chan) <=> conn[c].out # <<>>
    BY <1>1, <1>6 DEF Writes, SameLife
  <2>2. PICK m \in 1..MaxSends, n \in 0..MsgLen, given \in BOOLEAN : Sends(c, m, n, given)
    BY <1>6 DEF Writes
  <2>3. CASE ~given
    BY <2>1, <2>2, <2>3 DEF Sends
  <2>4. CASE given
    <3>1. MsgLen - n \in Nat /\ (n < MsgLen <=> MsgLen - n > 0) /\ (n = MsgLen => n > 0)
          /\ n <= MsgLen
      BY ServerAssumption
    <3>2. PICK r : r = Repeat(m, MsgLen - n)
      OBVIOUS
    <3>3. r \in Seq(1..MaxSends) /\ Len(r) = MsgLen - n
      BY <3>1, <3>2, RepeatIsSeq
    <3>4. conn'[c].out = conn[c].out \o r
      BY <2>2, <2>4, <3>2 DEF Sends
    <3>5. CASE n < MsgLen
      <4>1. Len(conn[c].out \o r) > 0
        BY <1>2, <3>1, <3>3, <3>5
      <4>2. conn'[c].out # <<>>
        BY <3>4, <4>1
      <4>3. IsWriting(EnableWriting(conn[c].chan))
        BY <1>2, ChannelEffect DEF OpEffect, IsWriting
      <4>4. QED BY <2>2, <2>4, <3>5, <4>2, <4>3 DEF Sends
    <3>6. CASE n = MsgLen
      <4>1. ~IsWriting(conn[c].chan) /\ conn[c].out = <<>> /\ conn'[c].chan = conn[c].chan
        BY <2>2, <3>1, <3>6 DEF Sends
      <4>2. r = <<>>
        BY <3>1, <3>3, <3>6
      <4>3. QED BY <3>4, <4>1, <4>2
    <3>7. n < MsgLen \/ n = MsgLen
      BY ServerAssumption
    <3>8. QED BY <3>5, <3>6, <3>7
  <2>5. QED BY <2>3, <2>4
<1>7. CASE Flushes(c)
  <2>1. IsWriting(conn[c].chan) <=> conn[c].out # <<>>
    BY <1>1, <1>7 DEF Flushes, SameLife
  <2>2. PICK n \in Nat : Drains(c, n)
    BY <1>7 DEF Flushes
  <2>3. Len(conn[c].out) \in Nat
    BY <1>2
  <2>4. PICK out : out = conn[c].out
    OBVIOUS
  <2>5. CASE n = Len(conn[c].out) /\ conn'[c].chan = DisableWriting(conn[c].chan)
    <3>1. SubSeq(out, Len(out) + 1, Len(out)) = <<>>
      BY <1>2, <2>4
    <3>2. conn'[c].out = <<>>
      BY <2>2, <2>4, <2>5, <3>1 DEF Drains
    <3>3. ~IsWriting(DisableWriting(conn[c].chan))
      BY <1>2, ChannelEffect DEF OpEffect, IsWriting
    <3>4. QED BY <2>5, <3>2, <3>3
  <2>6. CASE n = 0 /\ conn'[c].chan = conn[c].chan
    <3>1. SubSeq(out, 0 + 1, Len(out)) = out
      BY <1>2, <2>4
    <3>2. QED BY <2>1, <2>2, <2>4, <2>6, <3>1 DEF Drains
  <2>7. CASE n < Len(conn[c].out) /\ conn'[c].chan = conn[c].chan
    <3>1. out \in Seq(1..MaxSends) /\ n < Len(out) /\ Len(out) \in Nat
      BY <1>2, <2>4, <2>7
    <3>2. Len(SubSeq(out, n + 1, Len(out))) = Len(out) - n
      BY <3>1
    <3>3. SubSeq(out, n + 1, Len(out)) # <<>>
      <4>1. PICK rest : rest = SubSeq(out, n + 1, Len(out))
        OBVIOUS
      <4>2. Len(rest) > 0
        BY <3>1, <3>2, <4>1
      <4>3. rest # <<>>
        BY <4>2
      <4>4. QED BY <4>1, <4>3
    <3>4. out # <<>>
      BY <3>1
    <3>5. QED BY <2>1, <2>2, <2>4, <2>7, <3>3, <3>4 DEF Drains
  <2>8. QED BY <2>2, <2>5, <2>6, <2>7 DEF Drains
<1>8. QED BY <1>3, <1>4, <1>5, <1>6, <1>7, StepKinds DEF StepKind

(* As long as handleClose has not run, EPOLLOUT is asked for exactly while *)
(* outputBuffer_ holds something: a write event is never missed, and none  *)
(* is delivered for nothing, whatever sendInLoop and handleWrite do.       *)
THEOREM WritingWhileBuffered == Spec => []WritingIffBuffered
<1>1. Init => WritingIffBuffered
  BY DEF Init, Unborn, WritingIffBuffered, Created
<1>2. Typed /\ Life /\ WritingIffBuffered /\ [Next]_vars => WritingIffBuffered'
  BY WritingStep
<1>3. QED BY <1>1, <1>2, TypedAlways, LifeAlways, PTL DEF Spec

(* What a step may do to the write side of a connection. *)
FinStep == \A c \in Conns : ~sock[c].wrShut /\ sock[c].wrShut'
              => conn[c].out' = <<>> \/ hist[c].closed

(* shutdown() lets waiting output go first: shutdownInLoop and the end of  *)
(* handleWrite shut the write side down only with outputBuffer_ empty, or  *)
(* after handleClose.                                                      *)
THEOREM OutputBeforeFin == Spec => FinAfterOutput
<1>1. Typed /\ Life /\ WritingIffBuffered /\ [Next]_vars => [FinStep]_vars
  <2> SUFFICES ASSUME Typed, Life, WritingIffBuffered, [Next]_vars,
                      NEW c \in Conns, ~sock[c].wrShut, sock[c].wrShut'
               PROVE  conn[c].out' = <<>> \/ hist[c].closed
    BY DEF FinStep
  <2>1. CASE Idle(c)
    BY <2>1 DEF Idle, WritingIffBuffered
  <2>2. CASE Begins(c) \/ Ends(c) \/ Writes(c)
    BY <2>2 DEF Begins, Ends, Writes
  <2>3. CASE Flushes(c)
    <3>1. PICK n \in Nat : Drains(c, n)
      BY <2>3 DEF Flushes
    <3>2. n = Len(conn[c].out)
      BY <3>1 DEF Drains
    <3>3. PICK out \in Seq(1..MaxSends) : out = conn[c].out
      BY DEF Typed, ConnTyped, ConnType
    <3>4. SubSeq(out, Len(out) + 1, Len(out)) = <<>>
      BY <3>3
    <3>5. QED BY <3>1, <3>2, <3>3, <3>4 DEF Drains
  <2>4. QED BY <2>1, <2>2, <2>3, StepKinds DEF StepKind
<1>2. [][FinStep]_vars <=> FinAfterOutput
  BY DEF FinStep, FinAfterOutput
<1>3. QED BY <1>1, <1>2, TypedAlways, LifeAlways, WritingWhileBuffered, PTL DEF Spec

(* A byte is the number of the message it belongs to. *)
Bytes == 1..MaxSends

(* The bytes of a list of messages. *)
Flat(a) == [i \in 1..(Len(a) * MsgLen) |-> a[(i - 1) \div MsgLen + 1]]

(* Which message a byte belongs to. *)
LEMMA MessageOf ==
  ASSUME NEW n \in Nat, NEW k \in Nat \ {0}
  PROVE  /\ n * k \in Nat /\ (n + 1) * k = n * k + k
         /\ \A i \in 1..(n * k) : (i - 1) \div k + 1 \in 1..n
         /\ \A i \in (n * k + 1)..(n * k + k) : (i - 1) \div k + 1 = n + 1
<1>1. n * k \in Nat /\ (n + 1) * k = n * k + k
  OBVIOUS
<1>2. ASSUME NEW x \in Nat
      PROVE  x \div k \in Nat /\ (x \div k) * k <= x /\ x < (x \div k) * k + k
  OBVIOUS
<1>3. ASSUME NEW p \in Nat, NEW q \in Nat, p >= q PROVE p * k >= q * k
  BY <1>3
<1>4. ASSUME NEW i \in 1..(n * k) PROVE (i - 1) \div k + 1 \in 1..n
  <2>1. i - 1 \in Nat /\ i - 1 < n * k
    BY <1>1
  <2>2. PICK q : q = (i - 1) \div k
    OBVIOUS
  <2>3. q \in Nat /\ q * k <= i - 1
    BY <1>2, <2>1, <2>2
  <2>4. ~(q >= n)
    <3>1. q * k \in Nat
      BY <2>3
    <3>2. q >= n => q * k >= n * k
      BY <1>3, <2>3
    <3>3. QED BY <1>1, <2>1, <2>3, <3>1, <3>2
  <2>5. q + 1 \in 1..n
    BY <2>3, <2>4
  <2>6. QED BY <2>2, <2>5
<1>5. ASSUME NEW i \in (n * k + 1)..(n * k + k) PROVE (i - 1) \div k + 1 = n + 1
  <2>1. i - 1 \in Nat /\ n * k <= i - 1 /\ i - 1 < n * k + k
    BY <1>1
  <2>2. PICK q : q = (i - 1) \div k
    OBVIOUS
  <2>3. q \in Nat /\ q * k <= i - 1 /\ i - 1 < q * k + k
    BY <1>2, <2>1, <2>2
  <2>4. q * k \in Nat /\ (q + 1) * k = q * k + k
    BY <2>3
  <2>5. ~(q >= n + 1)
    <3>1. q >= n + 1 => q * k >= (n + 1) * k
      BY <1>3, <2>3
    <3>2. QED BY <1>1, <2>1, <2>3, <2>4, <3>1
  <2>6. ~(n >= q + 1)
    <3>1. n >= q + 1 => n * k >= (q + 1) * k
      BY <1>3, <2>3
    <3>2. QED BY <1>1, <2>1, <2>3, <2>4, <3>1
  <2>7. q = n
    BY <2>3, <2>5, <2>6
  <2>8. QED BY <2>2, <2>7
<1>6. QED BY <1>1, <1>4, <1>5

(* One message more: its bytes come last. *)
LEMMA FlatAppend ==
  ASSUME NEW S, NEW a \in Seq(S), NEW m \in S
  PROVE  /\ Flat(a) \in Seq(S)
         /\ Flat(Append(a, m)) = Flat(a) \o Repeat(m, MsgLen)
<1>1. PICK k \in Nat \ {0} : k = MsgLen
  BY ServerAssumption
<1>2. PICK n \in Nat : n = Len(a)
  OBVIOUS
<1>3. PICK b \in Seq(S) : b = Append(a, m)
  BY AppendProperties
<1>4. /\ Len(b) = n + 1 /\ b[n + 1] = m
      /\ \A i \in 1..n : b[i] = a[i] /\ a[i] \in S
      /\ \A i \in 1..(n + 1) : b[i] \in S
  BY <1>2, <1>3, AppendProperties, ElementOfSeq
<1>5. PICK size \in Nat : size = n * k
  OBVIOUS
<1>6. /\ (n + 1) * k = size + k
      /\ \A i \in 1..size : (i - 1) \div k + 1 \in 1..n
      /\ \A i \in (size + 1)..(size + k) : (i - 1) \div k + 1 = n + 1
  BY <1>5, MessageOf
<1>7. PICK t : t = Flat(a)
  OBVIOUS
<1>8. PICK u : u = Flat(b)
  OBVIOUS
<1>9. t = [i \in 1..size |-> a[(i - 1) \div k + 1]]
  BY <1>1, <1>2, <1>5, <1>7 DEF Flat
<1>10. u = [i \in 1..(size + k) |-> b[(i - 1) \div k + 1]]
  BY <1>1, <1>4, <1>6, <1>8 DEF Flat
<1>11. t \in Seq(S) /\ Len(t) = size
  <2>1. \A i \in 1..size : t[i] \in S
    BY <1>4, <1>6, <1>9
  <2>2. QED BY <1>9, <2>1
<1>12. \A i \in 1..(size + k) : u[i] = IF i \in 1..size THEN t[i] ELSE m
  <2>1. ASSUME NEW i \in 1..size PROVE u[i] = t[i]
    <3>1. (i - 1) \div k + 1 \in 1..n /\ i \in 1..(size + k)
      BY <1>6
    <3>2. QED BY <1>4, <1>9, <1>10, <3>1
  <2>2. ASSUME NEW i \in (size + 1)..(size + k) PROVE u[i] = m
    <3>1. (i - 1) \div k + 1 = n + 1 /\ i \in 1..(size + k)
      BY <1>6
    <3>2. QED BY <1>4, <1>10, <3>1
  <2>3. \A i \in 1..(size + k) : i \in 1..size \/ (i \in (size + 1)..(size + k) /\ i \notin 1..size)
    OBVIOUS
  <2>4. QED BY <2>1, <2>2, <2>3
<1>13. u \in Seq(S) /\ Len(u) = size + k
  <2>1. \A i \in 1..(size + k) : u[i] \in S
    BY <1>11, <1>12
  <2>2. QED BY <1>10, <2>1
<1>14. PICK r \in Seq(S) : /\ r = Repeat(m, MsgLen)
                           /\ Len(r) = k /\ \A i \in 1..k : r[i] = m
  <2>1. Repeat(m, k) \in Seq(S) /\ Len(Repeat(m, k)) = k /\ \A i \in 1..k : Repeat(m, k)[i] = m
    BY DEF Repeat
  <2>2. QED BY <1>1, <2>1
<1>15. u = t \o r
  <2>1. /\ t \o r \in Seq(S) /\ Len(t \o r) = size + k
        /\ \A i \in 1..size : (t \o r)[i] = t[i]
        /\ \A i \in (size + 1)..(size + k) : (t \o r)[i] = r[i - size]
    BY <1>11, <1>14, ConcatProperties, SMTT(60)
  <2>2. \A i \in 1..(size + k) : (t \o r)[i] = IF i \in 1..size THEN t[i] ELSE m
    BY <1>14, <2>1
  <2>3. \A i \in 1..Len(u) : u[i] = (t \o r)[i]
    BY <1>12, <1>13, <2>2
  <2>4. QED BY <1>13, <2>1, <2>3, SeqEqual
<1>16. QED BY <1>3, <1>7, <1>8, <1>11, <1>14, <1>15

(* A list is the part that is written and the part that is kept. *)
LEMMA CutInTwo ==
  ASSUME NEW S, NEW s \in Seq(S), NEW n \in 0..Len(s)
  PROVE  /\ SubSeq(s, 1, n) \in Seq(S)
         /\ SubSeq(s, n + 1, Len(s)) \in Seq(S)
         /\ SubSeq(s, 1, n) \o SubSeq(s, n + 1, Len(s)) = s
<1>1. Len(s) \in Nat /\ n \in Nat /\ n <= Len(s)
  OBVIOUS
<1>2. PICK h : h = SubSeq(s, 1, n)
  OBVIOUS
<1>3. PICK t : t = SubSeq(s, n + 1, Len(s))
  OBVIOUS
<1>4. \A i \in 1..Len(s) : s[i] \in S
  BY ElementOfSeq
<1>5. /\ h \in Seq(S) /\ Len(h) = n /\ \A i \in 1..n : h[i] = s[i]
  <2>1. (\A i \in 1..n : s[i] \in S) /\ 1 \in Int /\ n \in Int
    BY <1>1, <1>4
  <2>2. h \in Seq(S)
    BY <1>2, <2>1, SubSeqProperties
  <2>3. Len(h) = n
    BY <1>1, <1>2
  <2>4. \A i \in 1..n : h[i] = s[i]
    BY <1>1, <1>2
  <2>5. QED BY <2>2, <2>3, <2>4
<1>6. /\ t \in Seq(S) /\ Len(t) = Len(s) - n
      /\ \A i \in 1..(Len(s) - n) : t[i] = s[n + i]
  <2>1. /\ \A i \in (n + 1)..Len(s) : s[i] \in S
        /\ n + 1 \in Int /\ Len(s) \in Int
    BY <1>1, <1>4
  <2>2. t \in Seq(S)
    BY <1>3, <2>1, SubSeqProperties
  <2>3. Len(t) = Len(s) - n
    BY <1>1, <1>3
  <2>4. \A i \in 1..(Len(s) - n) : t[i] = s[n + i]
    BY <1>1, <1>3
  <2>5. QED BY <2>2, <2>3, <2>4
<1>7. h \o t = s
  <2>1. /\ h \o t \in Seq(S) /\ Len(h \o t) = Len(h) + Len(t)
        /\ \A i \in 1..Len(h) : (h \o t)[i] = h[i]
        /\ \A i \in (Len(h) + 1)..(Len(h) + Len(t)) : (h \o t)[i] = t[i - Len(h)]
    BY <1>5, <1>6, ConcatProperties
  <2>2. Len(h \o t) = Len(s)
    BY <1>1, <1>5, <1>6, <2>1
  <2>3. ASSUME NEW i \in 1..Len(s) PROVE (h \o t)[i] = s[i]
    <3>1. CASE i <= n
      BY <1>1, <1>5, <2>1, <3>1
    <3>2. CASE i > n
      <4>1. i \in (Len(h) + 1)..(Len(h) + Len(t)) /\ i - n \in 1..(Len(s) - n) /\ n + (i - n) = i
        BY <1>1, <1>5, <1>6, <3>2
      <4>2. QED BY <1>5, <1>6, <2>1, <4>1
    <3>3. i <= n \/ i > n
      BY <1>1
    <3>4. QED BY <3>1, <3>2, <3>3
  <2>4. QED BY <2>1, <2>2, <2>3, SeqEqual
<1>8. QED BY <1>2, <1>3, <1>5, <1>6, <1>7

(* Lists of bytes are concatenated in any order. *)
LEMMA BytesAssociate ==
  \A s, t, u \in Seq(Bytes) : (s \o t) \o u = s \o (t \o u)
<1> TAKE s, t, u \in Seq(Bytes)
<1>1. QED BY ConcatAssociative, SMTT(60)

(* A message that is written in part, with nothing before it. *)
LEMMA MessageInTwo ==
  ASSUME NEW sent \in Seq(Bytes), NEW out \in Seq(Bytes), NEW m \in Bytes, NEW n \in 0..MsgLen,
         n > 0 => out = <<>>
  PROVE  (sent \o Repeat(m, n)) \o (out \o Repeat(m, MsgLen - n))
            = (sent \o out) \o Repeat(m, MsgLen)
<1>1. PICK k \in Nat \ {0} : k = MsgLen
  BY ServerAssumption
<1>2. n \in Nat /\ n <= k /\ k - n \in Nat
  BY <1>1
<1>3. ASSUME NEW j \in Nat
      PROVE  /\ Repeat(m, j) \in Seq(Bytes) /\ Len(Repeat(m, j)) = j
             /\ \A i \in 1..j : Repeat(m, j)[i] = m
  BY DEF Repeat
<1>4. PICK all \in Seq(Bytes) : /\ all = Repeat(m, k) /\ Len(all) = k
                            /\ \A i \in 1..k : all[i] = m
  BY <1>3
<1>5. PICK head \in Seq(Bytes) : /\ head = Repeat(m, n) /\ Len(head) = n
                             /\ \A i \in 1..n : head[i] = m
  BY <1>2, <1>3
<1>6. PICK tail \in Seq(Bytes) : /\ tail = Repeat(m, k - n) /\ Len(tail) = k - n
                             /\ \A i \in 1..(k - n) : tail[i] = m
  BY <1>2, <1>3
<1>7. head \o tail = all
  <2>1. /\ head \o tail \in Seq(Bytes) /\ Len(head \o tail) = Len(head) + Len(tail)
        /\ \A i \in 1..Len(head) : (head \o tail)[i] = head[i]
        /\ \A i \in (Len(head) + 1)..(Len(head) + Len(tail)) :
              (head \o tail)[i] = tail[i - Len(head)]
    BY ConcatProperties
  <2>2. Len(head \o tail) = k
    BY <1>2, <1>5, <1>6, <2>1
  <2>3. ASSUME NEW i \in 1..k PROVE (head \o tail)[i] = all[i]
    <3>1. CASE i <= n
      BY <1>2, <1>4, <1>5, <2>1, <3>1
    <3>2. CASE i > n
      <4>1. i \in (Len(head) + 1)..(Len(head) + Len(tail)) /\ i - n \in 1..(k - n)
        BY <1>2, <1>5, <1>6, <3>2
      <4>2. QED BY <1>4, <1>5, <1>6, <2>1, <4>1, ZenonT(60)
    <3>3. i <= n \/ i > n
      BY <1>2
    <3>4. QED BY <3>1, <3>2, <3>3
  <2>4. QED BY <1>4, <2>1, <2>2, <2>3, SeqEqual, SMTT(60)
<1>8. CASE n = 0
  <2>1. head = <<>>
    BY <1>5, <1>8
  <2>2. tail = all
    BY <1>4, <1>6, <1>8
  <2>3. sent \o head = sent
    BY <2>1, ConcatEmptySeq
  <2>4. sent \o (out \o all) = (sent \o out) \o all
    BY <1>4, BytesAssociate, ZenonT(60)
  <2>5. (sent \o head) \o (out \o tail) = (sent \o out) \o all
    BY <2>2, <2>3, <2>4
  <2>6. QED BY <1>1, <1>4, <1>5, <1>6, <2>5
<1>9. CASE n > 0
  <2>1. out \o tail = tail /\ sent \o out = sent
    BY <1>9, ConcatEmptySeq
  <2>2. (sent \o head) \o tail = sent \o (head \o tail)
    <3>1. head \in Seq(Bytes) /\ tail \in Seq(Bytes)
      BY <1>5, <1>6
    <3>2. QED BY <3>1, BytesAssociate, ZenonT(60)
  <2>3. (sent \o head) \o (out \o tail) = (sent \o out) \o all
    BY <1>7, <2>1, <2>2
  <2>4. QED BY <1>1, <1>4, <1>5, <1>6, <2>3
<1>10. n = 0 \/ n > 0
  BY <1>2
<1>11. QED BY <1>8, <1>9, <1>10

(* The stream of a connection, after one step. *)
LEMMA StreamStep ==
  ASSUME Typed, Life, StreamIntact, [Next]_vars
  PROVE  StreamIntact'
<1> SUFFICES ASSUME NEW c \in Conns
             PROVE  hist'[c].sent \o conn'[c].out = Flat(hist'[c].accepted)
  BY DEF StreamIntact, Flat
<1>1. hist[c].sent \o conn[c].out = Flat(hist[c].accepted)
  BY DEF StreamIntact, Flat
<1>2. Bytes = 1..MaxSends
  BY DEF Bytes
<1>3. PICK sent \in Seq(Bytes) : sent = hist[c].sent
  BY <1>2 DEF Typed, HistTyped, HistType
<1>4. PICK out \in Seq(Bytes) : out = conn[c].out
  BY <1>2 DEF Typed, ConnTyped, ConnType
<1>5. PICK acc \in Seq(Bytes) : acc = hist[c].accepted
  BY <1>2 DEF Typed, HistTyped, HistType
<1>6. CASE Idle(c)
  BY <1>1, <1>6 DEF Idle
<1>7. CASE Begins(c)
  BY <1>1, <1>7 DEF Begins, Untouched
<1>8. CASE Ends(c)
  BY <1>1, <1>8 DEF Ends
<1>9. CASE Writes(c)
  <2>1. PICK m \in Bytes, n \in 0..MsgLen, given \in BOOLEAN : Sends(c, m, n, given)
    BY <1>2, <1>9 DEF Writes
  <2>2. CASE given
    <3>1. /\ conn'[c].out = out \o Repeat(m, MsgLen - n)
          /\ hist'[c].sent = sent \o Repeat(m, n)
          /\ hist'[c].accepted = Append(acc, m)
          /\ n > 0 => out = <<>>
      BY <1>3, <1>4, <1>5, <2>1, <2>2 DEF Sends
    <3>2. hist'[c].sent \o conn'[c].out = (sent \o out) \o Repeat(m, MsgLen)
      <4>1. (sent \o Repeat(m, n)) \o (out \o Repeat(m, MsgLen - n))
               = (sent \o out) \o Repeat(m, MsgLen)
        <5>1. sent \in Seq(Bytes) /\ out \in Seq(Bytes) /\ m \in Bytes /\ n \in 0..MsgLen
          BY <1>3, <1>4, <2>1
        <5>2. QED BY <3>1, <5>1, MessageInTwo
      <4>2. QED BY <3>1, <4>1
    <3>3. Flat(Append(acc, m)) = Flat(acc) \o Repeat(m, MsgLen)
      BY <1>5, <2>1, FlatAppend
    <3>4. QED BY <1>1, <1>3, <1>4, <1>5, <3>1, <3>2, <3>3
  <2>3. CASE ~given
    <3>1. n = 0
      BY <2>1, <2>3, ServerAssumption DEF Sends
    <3>2. Repeat(m, 0) = <<>>
      BY DEF Repeat
    <3>3. hist'[c].sent = sent \o <<>> /\ conn'[c].out = out /\ hist'[c].accepted = acc
      BY <1>3, <1>4, <1>5, <2>1, <2>3, <3>1, <3>2, SMTT(60) DEF Sends
    <3>4. sent \o <<>> = sent
      BY ConcatEmptySeq, SMTT(60)
    <3>5. QED BY <1>1, <1>3, <1>4, <1>5, <3>3, <3>4
  <2>4. QED BY <2>2, <2>3
<1>10. CASE Flushes(c)
  <2>1. PICK n \in Nat : Drains(c, n)
    BY <1>10 DEF Flushes
  <2>2. n \in 0..Len(out)
    BY <1>4, <2>1 DEF Drains
  <2>3. PICK head \in Seq(Bytes), tail \in Seq(Bytes) :
           /\ head = SubSeq(out, 1, n) /\ tail = SubSeq(out, n + 1, Len(out))
           /\ head \o tail = out
    <3>1. out \in Seq(Bytes)
      BY <1>4
    <3>2. /\ SubSeq(out, 1, n) \in Seq(Bytes) /\ SubSeq(out, n + 1, Len(out)) \in Seq(Bytes)
          /\ SubSeq(out, 1, n) \o SubSeq(out, n + 1, Len(out)) = out
      BY <2>2, <3>1, CutInTwo
    <3>3. QED BY <3>2, Zenon
  <2>4. /\ conn'[c].out = tail /\ hist'[c].sent = sent \o head
        /\ hist'[c].accepted = acc
    BY <1>3, <1>4, <1>5, <2>1, <2>3 DEF Drains
  <2>5. (sent \o head) \o tail = sent \o (head \o tail)
    <3>1. head \in Seq(Bytes) /\ tail \in Seq(Bytes) /\ sent \in Seq(Bytes)
      BY <1>3, <2>3
    <3>2. QED BY <3>1, BytesAssociate, ZenonT(60)
  <2>6. QED BY <1>1, <1>3, <1>4, <1>5, <2>3, <2>4, <2>5
<1>11. QED BY <1>6, <1>7, <1>8, <1>9, <1>10, StepKinds DEF StepKind

(* Over partial writes, buffering and draining, the bytes given to the     *)
(* kernel followed by those in outputBuffer_ are the messages sendInLoop   *)
(* took on, whole and in order: none is lost, repeated or overtaken.       *)
THEOREM StreamIsIntact == Spec => []StreamIntact
<1>1. Init => StreamIntact
  <2> SUFFICES ASSUME Init, NEW c \in Conns
               PROVE  hist[c].sent \o conn[c].out = Flat(hist[c].accepted)
    BY DEF StreamIntact, Flat
  <2>1. hist[c].sent = <<>> /\ conn[c].out = <<>> /\ hist[c].accepted = <<>>
    BY DEF Init, NoHist, Unborn
  <2>2. Flat(<<>>) = <<>>
    BY ServerAssumption DEF Flat
  <2>3. QED BY <2>1, <2>2
<1>2. Typed /\ Life /\ StreamIntact /\ [Next]_vars => StreamIntact'
  BY StreamStep
<1>3. QED BY <1>1, <1>2, TypedAlways, LifeAlways, PTL DEF Spec
-----------------------------------------------------------------------------
(* Files.                                                                  *)

IsFile(f) == f.kind = "sendFileInLoop"

(* The rounds of sendFileInLoop that loop l has ahead of it. *)
Files(l) == {f \in Ahead(l) : IsFile(f)}

(* No call of sendFile has two rounds in one list. *)
FilesOnce(t) ==
  \A i, j \in 1..Len(t) : IsFile(t[i]) /\ IsFile(t[j]) /\ t[i].msg = t[j].msg => i = j

(* The positions of the bytes of call m that went out on connection c. *)
Sent(bytes, m) == {bytes[j].pos : j \in {i \in 1..Len(bytes) : bytes[i].call = m}}
FileSent(c, m) == Sent(hist[c].file, m)

(* Call m has sent nothing and has no round ahead of it. *)
Fresh(m) == /\ \A c \in Conns : FileSent(c, m) = {}
            /\ \A l \in Loops : \A f \in Files(l) : f.msg # m

(* Thread u is about to queue the first round of a call of sendFile. *)
Asks(u) == user[u].pc = "sendFile"

(* No call has two rounds ahead of it, in whatever loops. *)
RoundsApart == /\ \A l \in Loops : FilesOnce(Todo(l))
               /\ \A k, l \in Loops : \A f \in Files(k), g \in Files(l) :
                     f.msg = g.msg => k = l

(* A round goes on where the last one stopped. *)
RoundsFollow == \A l \in Loops : \A f \in Files(l) : FileSent(f.c, f.msg) = 1..f.off

(* Calls that are not made yet, or whose first round is not queued yet. *)
CallsFresh == /\ \A m \in 1..MaxSends : m > sends => Fresh(m)
              /\ \A u \in Users, m \in 1..MaxSends :
                    Asks(u) /\ user[u].msg = m => m <= sends /\ Fresh(m)
              /\ \A u, v \in Users : Asks(u) /\ Asks(v) /\ user[u].msg = user[v].msg => u = v

FileOK == RoundsApart /\ RoundsFollow /\ CallsFresh

(* The first functor of a list is started. *)
LEMMA TakenFiles ==
  ASSUME NEW f \in Functors, NEW u \in Seq(Functors), NEW t, t = <<f>> \o u, FilesOnce(t)
  PROVE  /\ FilesOnce(u) /\ Elements(u) \subseteq Elements(t) /\ f \in Elements(t)
         /\ IsFile(f) => \A g \in Elements(u) : IsFile(g) => g.msg # f.msg
<1>1. /\ t \in Seq(Functors) /\ Len(t) = 1 + Len(u) /\ Len(u) \in Nat
      /\ t[1] = f /\ \A i \in 1..Len(u) : t[i + 1] = u[i]
  OBVIOUS
<1>2. \A i \in 1..Len(u) : i + 1 \in 1..Len(t) /\ i + 1 # 1
  BY <1>1
<1>3. 1 \in 1..Len(t)
  BY <1>1
<1>4. FilesOnce(u)
  <2> SUFFICES ASSUME NEW i \in 1..Len(u), NEW j \in 1..Len(u), IsFile(u[i]), IsFile(u[j]),
                      u[i].msg = u[j].msg
               PROVE  i = j
    BY DEF FilesOnce
  <2>1. i + 1 = j + 1
    BY <1>1, <1>2, ZenonT(60) DEF FilesOnce
  <2>2. QED BY <1>1, <2>1
<1>5. Elements(u) \subseteq Elements(t) /\ f \in Elements(t)
  BY <1>1, <1>2, <1>3 DEF Elements
<1>6. ASSUME IsFile(f), NEW g \in Elements(u), IsFile(g) PROVE g.msg # f.msg
  <2>1. PICK i \in 1..Len(u) : g = u[i]
    BY DEF Elements
  <2>2. g = t[i + 1] /\ i + 1 \in 1..Len(t) /\ i + 1 # 1
    BY <1>1, <1>2, <2>1
  <2>3. QED BY <1>1, <1>3, <1>6, <2>2 DEF FilesOnce
<1>7. QED BY <1>4, <1>5, <1>6

(* Functors are queued, the rounds among them for calls that had none. *)
LEMMA AppendedFiles ==
  ASSUME NEW t \in Seq(Functors), NEW fs \in Seq(Functors), NEW u, u = t \o fs,
         FilesOnce(t), FilesOnce(fs),
         \A f \in Elements(t), g \in Elements(fs) : IsFile(f) /\ IsFile(g) => f.msg # g.msg
  PROVE  FilesOnce(u)
<1>1. /\ Len(u) = Len(t) + Len(fs) /\ Len(t) \in Nat /\ Len(fs) \in Nat
      /\ \A i \in 1..Len(t) : u[i] = t[i]
      /\ \A i \in (Len(t) + 1)..(Len(t) + Len(fs)) : u[i] = fs[i - Len(t)]
  BY ConcatProperties
<1>2. \A i \in 1..Len(u) : \/ i \in 1..Len(t) /\ u[i] = t[i]
                           \/ i - Len(t) \in 1..Len(fs) /\ u[i] = fs[i - Len(t)]
  BY <1>1
<1> SUFFICES ASSUME NEW i \in 1..Len(u), NEW j \in 1..Len(u), IsFile(u[i]), IsFile(u[j]),
                    u[i].msg = u[j].msg
             PROVE  i = j
  BY DEF FilesOnce
<1>3. CASE i \in 1..Len(t) /\ u[i] = t[i] /\ j \in 1..Len(t) /\ u[j] = t[j]
  BY <1>3 DEF FilesOnce
<1>4. CASE /\ i - Len(t) \in 1..Len(fs) /\ u[i] = fs[i - Len(t)]
           /\ j - Len(t) \in 1..Len(fs) /\ u[j] = fs[j - Len(t)]
  <2>1. i - Len(t) = j - Len(t)
    BY <1>4 DEF FilesOnce
  <2>2. QED BY <1>1, <2>1
<1>5. CASE /\ i \in 1..Len(t) /\ u[i] = t[i]
           /\ j - Len(t) \in 1..Len(fs) /\ u[j] = fs[j - Len(t)]
  <2>1. u[i] \in Elements(t) /\ u[j] \in Elements(fs)
    BY <1>5 DEF Elements
  <2>2. QED BY <2>1
<1>6. CASE /\ j \in 1..Len(t) /\ u[j] = t[j]
           /\ i - Len(t) \in 1..Len(fs) /\ u[i] = fs[i - Len(t)]
  <2>1. u[j] \in Elements(t) /\ u[i] \in Elements(fs)
    BY <1>6 DEF Elements
  <2>2. QED BY <2>1
<1>7. QED BY <1>2, <1>3, <1>4, <1>5, <1>6

(* What loop l has ahead of it after a step: u, which it had before, and   *)
(* then what is new.                                                       *)
Leaves(l, u, new) == /\ u \in Seq(Functors) /\ FilesOnce(u) /\ Elements(u) \subseteq Ahead(l)
                     /\ Todo(l)' = u \o new

(* fs goes to loop q and nothing to the others. *)
GivenTo(q, fs, l) == IF l = q THEN fs ELSE <<>>

(* Loop q is given fs, and no functor is started. *)
LEMMA QueuedLeaves ==
  ASSUME Typed, RoundsApart, NEW q \in Loops, NEW fs \in Seq(Functors), Queue(q, fs),
         UNCHANGED <<batch, pos>>
  PROVE  \A l \in Loops : Leaves(l, Todo(l), GivenTo(q, fs, l))
<1> SUFFICES ASSUME NEW l \in Loops PROVE Leaves(l, Todo(l), GivenTo(q, fs, l))
  OBVIOUS
<1>1. Todo(q)' = Todo(q) \o fs /\ \A k \in Loops \ {q} : pending'[k] = pending[k]
  BY TodoQueued DEF Typed
<1>2. Todo(l) \in Seq(Functors) /\ FilesOnce(Todo(l))
  BY TodoTyped DEF Typed, RoundsApart
<1>3. l # q => Todo(l)' = Todo(l)
  BY <1>1 DEF Todo
<1> HIDE DEF Todo
<1>4. Todo(l)' = Todo(l) \o GivenTo(q, fs, l)
  BY <1>1, <1>2, <1>3, ConcatEmptySeq DEF GivenTo
<1>5. QED BY <1>2, <1>4 DEF Leaves, Ahead

(* Loop k starts f and loop q is given fs. *)
LEMMA StartedLeaves ==
  ASSUME Typed, RoundsApart, NEW k \in Loops, NEW f, Starts(k, f),
         NEW q \in Loops, NEW fs \in Seq(Functors), Queue(q, fs)
  PROVE  /\ f \in Ahead(k)
         /\ \A l \in Loops : \E u : /\ Leaves(l, u, GivenTo(q, fs, l))
                                    /\ l = k /\ IsFile(f) =>
                                          \A g \in Elements(u) : IsFile(g) => g.msg # f.msg
<1>1. f \in Functors
  BY StartsTyped
<1>2. /\ pending'[q] = pending[q] \o fs
      /\ \A l \in Loops \ {q} : pending'[l] = pending[l]
      /\ \A l \in Loops : pending[l] \in Seq(Functors)
  BY DEF Queue, Typed, QueueTyped
<1>3. \A l \in Loops \ {k} : batch'[l] = batch[l] /\ pos'[l] = pos[l]
  BY DEF Starts, Typed, BatchTyped
<1>4. PICK new \in Seq(Functors) : new = GivenTo(q, fs, k) /\ pending'[k] = pending[k] \o new
  <2>1. CASE k = q
    BY <1>2, <2>1 DEF GivenTo
  <2>2. CASE k # q
    <3>1. pending'[k] = pending[k] \o <<>>
      BY <1>2, <2>2, ConcatEmptySeq
    <3>2. <<>> \in Seq(Functors) /\ GivenTo(q, fs, k) = <<>>
      BY <2>2 DEF GivenTo
    <3>3. QED BY <3>1, <3>2
  <2>3. QED BY <2>1, <2>2
<1>5. f \in Ahead(k) /\ Advances(k, f, new)
  BY <1>4, TodoStarted DEF Typed
<1>6. PICK u \in Seq(Functors) : Todo(k) = <<f>> \o u /\ Todo(k)' = u \o new
  BY <1>5, Zenon DEF Advances
<1>7. \A l \in Loops : Todo(l) \in Seq(Functors) /\ FilesOnce(Todo(l))
  BY TodoTyped DEF Typed, RoundsApart
<1>8. ASSUME NEW l \in Loops, l # k PROVE Leaves(l, Todo(l), GivenTo(q, fs, l))
  <2>1. CASE l # q
    <3>1. Todo(l)' = Todo(l)
      BY <1>2, <1>3, <1>8, <2>1 DEF Todo
    <3> HIDE DEF Todo
    <3>2. QED BY <1>7, <2>1, <3>1, ConcatEmptySeq DEF Leaves, GivenTo, Ahead
  <2>2. CASE l = q
    <3>1. Todo(l)' = Todo(l) \o fs
      BY <1>3, <1>8, <2>2, TodoQueued DEF Typed
    <3> HIDE DEF Todo
    <3>2. QED BY <1>7, <2>2, <3>1 DEF Leaves, GivenTo, Ahead
  <2>3. QED BY <2>1, <2>2
<1> HIDE DEF Todo
<1>9. /\ Leaves(k, u, GivenTo(q, fs, k))
      /\ IsFile(f) => \A g \in Elements(u) : IsFile(g) => g.msg # f.msg
  BY <1>1, <1>4, <1>6, <1>7, TakenFiles DEF Leaves, Ahead
<1>10. QED BY <1>5, <1>8, <1>9

(* Functors that are no rounds of sendFileInLoop. *)
NoFiles == {f \in Functors : ~IsFile(f)}

(* A step gives no loop a new round. *)
ListsRest == \A l \in Loops : FilesOnce(Todo(l)') /\ Files(l)' \subseteq Files(l)

(* Such functors are all that is queued. *)
LEMMA LeavesRest ==
  ASSUME NEW l \in Loops, NEW u, NEW fs \in Seq(NoFiles), Leaves(l, u, fs)
  PROVE  FilesOnce(Todo(l)') /\ Files(l)' \subseteq Files(l)
<1>1. fs \in Seq(Functors) /\ \A g \in Elements(fs) : ~IsFile(g)
  BY SeqMonotonic, ElementOfSeq DEF NoFiles, Elements
<1>2. FilesOnce(fs)
  BY <1>1 DEF FilesOnce, Elements
<1>3. /\ u \in Seq(Functors) /\ FilesOnce(u) /\ Elements(u) \subseteq Ahead(l)
      /\ Todo(l)' = u \o fs
  BY DEF Leaves
<1> HIDE DEF Todo
<1>4. Elements(Todo(l)') = Elements(u) \union Elements(fs) /\ FilesOnce(Todo(l)')
  BY <1>1, <1>2, <1>3, AppendedTodo, AppendedFiles
<1>5. Ahead(l)' = Elements(Todo(l)')
  BY DEF Ahead, Elements
<1>6. QED BY <1>1, <1>3, <1>4, <1>5 DEF Files

(* A loop is given no rounds, whether or not another functor is started. *)
LEMMA ListsGiven ==
  ASSUME Typed, RoundsApart, NEW q \in Loops, NEW fs \in Seq(NoFiles), Queue(q, fs),
         UNCHANGED <<batch, pos>> \/ \E k \in Loops : \E f : Starts(k, f)
  PROVE  ListsRest
<1>1. fs \in Seq(Functors) /\ \A l \in Loops : GivenTo(q, fs, l) \in Seq(NoFiles)
  BY SeqMonotonic DEF NoFiles, GivenTo
<1>2. CASE UNCHANGED <<batch, pos>>
  BY <1>1, <1>2, QueuedLeaves, LeavesRest DEF ListsRest
<1>3. CASE \E k \in Loops : \E f : Starts(k, f)
  <2>1. PICK k \in Loops : \E f : Starts(k, f)
    BY <1>3
  <2>2. \A l \in Loops : \E u : Leaves(l, u, GivenTo(q, fs, l))
    BY <1>1, <2>1, StartedLeaves
  <2>3. QED BY <1>1, <2>2, LeavesRest DEF ListsRest
<1>4. QED BY <1>2, <1>3

(* Nothing is queued. *)
LEMMA ListsKept ==
  ASSUME Typed, RoundsApart, UNCHANGED pending,
         UNCHANGED <<batch, pos>> \/ \E k \in Loops : \E f : Starts(k, f)
  PROVE  ListsRest
<1>1. Main \in Loops /\ <<>> \in Seq(NoFiles)
  BY NextLoopIsLoop DEF Typed
<1>2. Queue(Main, <<>>)
  BY <1>1, QueueNothing DEF Typed
<1>3. QED BY <1>1, <1>2, ListsGiven

(* The functors are taken from the queue or are destroyed. *)
LEMMA ListsRound ==
  ASSUME Typed, Life, RoundsApart, NEW l \in Loops, SwapFunctors(l) \/ EndFunctors(l)
  PROVE  ListsRest
<1>1. Todo(l)' = Todo(l)
  BY TodoRound DEF Typed, Life, LoopOK, PhaseOK, SwapFunctors, Dispatching
<1>2. ASSUME NEW k \in Loops \ {l} PROVE Todo(k)' = Todo(k)
  <2>1. pending'[k] = pending[k] /\ batch'[k] = batch[k] /\ pos'[k] = pos[k]
    BY DEF SwapFunctors, EndFunctors, Typed, BatchTyped, QueueTyped
  <2>2. QED BY <2>1 DEF Todo
<1>3. \A k \in Loops : Todo(k)' = Todo(k) /\ FilesOnce(Todo(k))
  BY <1>1, <1>2 DEF RoundsApart
<1> HIDE DEF Todo
<1>4. \A k \in Loops : Ahead(k)' = Ahead(k)
  BY <1>3 DEF Ahead, Elements
<1>5. QED BY <1>3, <1>4 DEF ListsRest, Files

(* A step that sends nothing of a file and gives no loop a new round. *)
FilesRest ==
  /\ \A c \in Conns : hist'[c].file = hist[c].file
  /\ sends' \in Nat /\ sends' >= sends
  /\ \A u \in Users : Asks(u)' => Asks(u) /\ user'[u].msg = user[u].msg
  /\ ListsRest

(* It keeps what is said of the rounds. *)
LEMMA ListsRestKeep ==
  ASSUME RoundsApart, RoundsFollow, ListsRest, \A c \in Conns : hist'[c].file = hist[c].file,
         \A l \in Loops : \A f \in Files(l) : f.c \in Conns
  PROVE  /\ RoundsApart' /\ RoundsFollow'
         /\ \A m : Fresh(m) => Fresh(m)'
<1>1. \A c \in Conns : \A m : FileSent(c, m)' = FileSent(c, m)
  BY DEF FileSent, Sent
<1>2. \A l \in Loops : FilesOnce(Todo(l))'
  <2> SUFFICES ASSUME NEW l \in Loops PROVE FilesOnce(Todo(l))'
    OBVIOUS
  <2>1. FilesOnce(Todo(l)')
    BY DEF ListsRest
  <2> HIDE DEF Todo
  <2>2. QED BY <2>1 DEF FilesOnce, IsFile
<1>3. RoundsApart'
  BY <1>2 DEF RoundsApart, ListsRest
<1>4. RoundsFollow'
  BY <1>1 DEF RoundsFollow, ListsRest
<1>5. \A m : Fresh(m) => Fresh(m)'
  BY <1>1 DEF Fresh, ListsRest
<1>6. QED BY <1>3, <1>4, <1>5

(* What FileIntact says of the bytes of the files on one connection. *)
Intact(bytes) == \A i \in 1..Len(bytes) : /\ Earlier(bytes, i) = 1..(bytes[i].pos - 1)
                                         /\ bytes[i].after % MsgLen = 0

(* The bytes of the files stay as they are. *)
LEMMA BytesRest ==
  ASSUME FileIntact, \A c \in Conns : hist'[c].file = hist[c].file
  PROVE  FileIntact'
<1>1. \A c \in Conns : Intact(hist[c].file)
  BY DEF FileIntact, Intact
<1>2. \A c \in Conns : Intact(hist'[c].file)
  BY <1>1
<1>3. QED BY <1>2 DEF FileIntact, Intact, Earlier

(* The connection of a round. *)
LEMMA FilesTyped ==
  ASSUME Typed
  PROVE  \A l \in Loops : \A f \in Files(l) :
            f.c \in Conns /\ f.msg \in 1..MaxSends /\ f.off \in 0..FileLen
<1> SUFFICES ASSUME NEW l \in Loops, NEW f \in Files(l)
             PROVE  f.c \in Conns /\ f.msg \in 1..MaxSends /\ f.off \in 0..FileLen
  OBVIOUS
<1>1. f \in Functors /\ f.kind = "sendFileInLoop"
  BY AheadTyped DEF Files, IsFile
<1>2. QED BY <1>1, ServerAssumption DEF Functors, FunctorType

(* A step that sends nothing of a file and gives no loop a new round keeps *)
(* everything.                                                             *)
LEMMA RestKeeps ==
  ASSUME Typed, FileOK, FileIntact, FilesRest
  PROVE  FileOK' /\ FileIntact'
<1>1. /\ RoundsApart' /\ RoundsFollow'
      /\ \A m : Fresh(m) => Fresh(m)'
  BY FilesTyped, ListsRestKeep DEF FileOK, FilesRest
<1>2. sends \in Nat /\ \A u \in Users : user[u].msg \in Nat
  BY ServerAssumption DEF Typed, CountTyped, UserTyped, UserType
<1>3. CallsFresh'
  <2>1. \A m \in 1..MaxSends : m > sends' => Fresh(m)'
    BY <1>1, <1>2 DEF FileOK, CallsFresh, FilesRest
  <2>2. \A u \in Users, m \in 1..MaxSends :
           Asks(u)' /\ user'[u].msg = m => m <= sends' /\ Fresh(m)'
    BY <1>1, <1>2 DEF FileOK, CallsFresh, FilesRest
  <2>3. \A u, v \in Users : Asks(u)' /\ Asks(v)' /\ user'[u].msg = user'[v].msg => u = v
    BY DEF FileOK, CallsFresh, FilesRest
  <2>4. QED BY <2>1, <2>2, <2>3 DEF CallsFresh
<1>4. FileIntact'
  BY BytesRest DEF FilesRest
<1>5. QED BY <1>1, <1>3, <1>4 DEF FileOK

(* So many bytes are whole messages. *)
Whole(after) == after % MsgLen = 0

(* t is s and then n bytes of a file, from offset off on, that went out    *)
(* after so many bytes of messages.                                        *)
Extends(t, s, m, off, n, after) ==
  t = s \o [i \in 1..n |-> [call |-> m, pos |-> off + i, after |-> after]]

(* They follow what went out before, if that was the file up to off. *)
LEMMA PartFollows ==
  ASSUME NEW s \in Seq(ByteType), NEW m \in 1..MaxSends, NEW off \in Nat, NEW n \in Nat,
         NEW after \in Nat, off + n <= FileLen, Sent(s, m) = 1..off,
         n > 0 => Whole(after),
         NEW t, Extends(t, s, m, off, n, after)
  PROVE  /\ Sent(t, m) = 1..(off + n)
         /\ \A k : k # m => Sent(t, k) = Sent(s, k)
         /\ Intact(s) => Intact(t)
<1> DEFINE L == Len(s)
           byte(i) == [call |-> m, pos |-> off + i, after |-> after]
<1>1. PICK q \in Seq(ByteType) : /\ t = s \o q /\ Len(q) = n
                                /\ \A i \in 1..n : q[i] = byte(i)
  <2>1. ASSUME NEW i \in 1..n PROVE byte(i) \in ByteType
    <3>1. off + i \in 1..FileLen
      BY ServerAssumption
    <3>2. QED BY <3>1 DEF ByteType
  <2>2. t = s \o [i \in 1..n |-> byte(i)]
    BY DEF Extends
  <2> HIDE DEF byte
  <2>3. [i \in 1..n |-> byte(i)] \in Seq(ByteType)
    BY <2>1, IsASeq
  <2>4. PICK q : q = [i \in 1..n |-> byte(i)]
    OBVIOUS
  <2>5. q \in Seq(ByteType) /\ DOMAIN q = 1..n /\ \A i \in 1..n : q[i] = byte(i)
    BY <2>3, <2>4
  <2>6. Len(q) = n
    BY <2>5, LenProperties
  <2>7. QED BY <2>2, <2>4, <2>5, <2>6
<1>2. /\ Len(t) = L + n /\ L \in Nat
      /\ \A i \in 1..L : t[i] = s[i]
      /\ \A i \in (L + 1)..(L + n) : t[i] = q[i - L]
  <2>1. t = s \o q
    BY <1>1
  <2>2. /\ Len(t) = Len(s) + Len(q) /\ Len(s) \in Nat /\ Len(q) \in Nat
        /\ \A i \in 1..Len(s) : t[i] = s[i]
        /\ \A i \in (Len(s) + 1)..(Len(s) + Len(q)) : t[i] = q[i - Len(s)]
    BY <2>1, ConcatProperties
  <2>3. Len(q) = n
    BY <1>1
  <2>4. QED BY <2>2, <2>3
<1>3. \A i \in (L + 1)..(L + n) :
         t[i].call = m /\ t[i].pos = off + (i - L) /\ t[i].after = after
  <2> SUFFICES ASSUME NEW i \in (L + 1)..(L + n)
               PROVE  t[i].call = m /\ t[i].pos = off + (i - L) /\ t[i].after = after
    OBVIOUS
  <2>1. t[i] = q[i - L] /\ i - L \in 1..n
    BY <1>2
  <2>2. t[i] = byte(i - L)
    BY <1>1, <2>1
  <2>3. QED BY <2>2
<1> HIDE DEF byte
<1>4. \A i \in 1..L : s[i].pos \in 1..FileLen
  <2>1. \A i \in 1..L : s[i] \in ByteType
    BY ElementOfSeq
  <2>2. QED BY <2>1 DEF ByteType
<1> HIDE DEF L
<1>5. ASSUME NEW k, k # m PROVE Sent(t, k) = Sent(s, k)
  <2>1. ASSUME NEW i \in 1..Len(t), t[i].call = k PROVE i \in 1..L
    <3>1. i \in 1..L \/ i \in (L + 1)..(L + n)
      BY <1>2
    <3>2. QED BY <1>2, <1>3, <1>5, <2>1, <3>1
  <2>2. \A i \in 1..L : i \in 1..Len(t)
    BY <1>2
  <2>3. Sent(t, k) \subseteq Sent(s, k)
    BY <1>2, <2>1 DEF Sent, L
  <2>4. Sent(s, k) \subseteq Sent(t, k)
    BY <1>2, <2>2 DEF Sent, L
  <2>5. QED BY <2>3, <2>4
<1>6. \A j \in 1..n :
         off + j \in {t[i].pos : i \in {x \in 1..(L + j) : t[x].call = m}}
  <2> SUFFICES ASSUME NEW j \in 1..n
               PROVE  \E i \in 1..(L + j) : t[i].call = m /\ off + j = t[i].pos
    OBVIOUS
  <2>1. L + j \in 1..(L + j) /\ L + j \in (L + 1)..(L + n) /\ (L + j) - L = j
    BY <1>2
  <2>2. QED BY <1>3, <2>1
<1>7. \A p \in 1..off : \E i \in 1..L : t[i].call = m /\ t[i].pos = p
  <2> SUFFICES ASSUME NEW p \in 1..off PROVE \E i \in 1..L : t[i].call = m /\ t[i].pos = p
    OBVIOUS
  <2>1. p \in Sent(s, m)
    OBVIOUS
  <2>2. PICK i \in 1..L : s[i].call = m /\ s[i].pos = p
    BY <2>1 DEF Sent, L
  <2>3. QED BY <1>2, <2>2
<1>8. ASSUME NEW j \in 0..n
      PROVE  {t[i].pos : i \in {x \in 1..(L + j) : t[x].call = m}} = 1..(off + j)
  <2>1. ASSUME NEW i \in 1..(L + j), t[i].call = m PROVE t[i].pos \in 1..(off + j)
    <3>1. CASE i \in 1..L
      <4>1. s[i].pos \in Sent(s, m)
        BY <1>2, <2>1, <3>1 DEF Sent, L
      <4>2. t[i].pos = s[i].pos /\ s[i].pos \in 1..off
        BY <1>2, <3>1, <4>1
      <4>3. QED BY <4>2, SMTT(60)
    <3>2. CASE i \in (L + 1)..(L + j)
      <4>1. i \in (L + 1)..(L + n) /\ i - L \in 1..j
        BY <1>2, <3>2
      <4>2. t[i].pos = off + (i - L)
        BY <1>2, <1>3, <4>1
      <4>3. PICK x \in 1..j : x = i - L
        BY <4>1
      <4>4. QED BY <4>2, <4>3, SMTT(60)
    <3>3. QED BY <1>2, <3>1, <3>2
  <2>2. ASSUME NEW p \in 1..(off + j) PROVE \E i \in 1..(L + j) : t[i].call = m /\ t[i].pos = p
    <3>1. CASE p \in 1..off
      <4>1. PICK i \in 1..L : t[i].call = m /\ t[i].pos = p
        BY <1>7, <3>1
      <4>2. i \in 1..(L + j)
        BY <1>2
      <4>3. QED BY <4>1, <4>2
    <3>2. CASE p \in (off + 1)..(off + j)
      <4>1. PICK x \in 1..j : p = off + x
        BY <3>2
      <4>2. L + x \in 1..(L + j) /\ L + x \in (L + 1)..(L + n) /\ (L + x) - L = x
        BY <1>2
      <4>3. t[L + x].call = m /\ t[L + x].pos = off + ((L + x) - L)
        BY <1>2, <1>3, <4>2
      <4>4. QED BY <4>1, <4>2, <4>3
    <3>3. p \in 1..off \/ p \in (off + 1)..(off + j)
      OBVIOUS
    <3>4. QED BY <3>1, <3>2, <3>3
  <2>3. QED BY <2>1, <2>2
<1>9. Sent(t, m) = 1..(off + n)
  <2>1. n \in 0..n
    OBVIOUS
  <2>2. {t[i].pos : i \in {x \in 1..(L + n) : t[x].call = m}} = 1..(off + n)
    BY <1>8, <2>1
  <2>3. QED BY <1>2, <2>2 DEF Sent
<1>10. ASSUME Intact(s) PROVE Intact(t)
  <2> SUFFICES ASSUME NEW i \in 1..Len(t)
               PROVE  Earlier(t, i) = 1..(t[i].pos - 1) /\ t[i].after % MsgLen = 0
    BY DEF Intact
  <2>1. CASE i \in 1..L
    <3>1. \A x \in 1..(i - 1) : t[x] = s[x]
      BY <1>2, <2>1
    <3>2. t[i] = s[i]
      BY <1>2, <2>1
    <3>3. Earlier(t, i) = Earlier(s, i)
      BY <3>1, <3>2 DEF Earlier
    <3>4. QED BY <1>10, <2>1, <3>2, <3>3 DEF Intact, L
  <2>2. CASE i \in (L + 1)..(L + n)
    <3>1. /\ t[i].call = m /\ t[i].pos = off + (i - L) /\ t[i].after = after
          /\ n > 0 /\ (i - L) - 1 \in 0..n /\ i - 1 = L + ((i - L) - 1)
          /\ t[i].pos - 1 = off + ((i - L) - 1)
      BY <1>2, <1>3, <2>2
    <3>2. {t[x].pos : x \in {y \in 1..(i - 1) : t[y].call = m}} = 1..(t[i].pos - 1)
      BY <1>8, <3>1
    <3>3. QED BY <3>1, <3>2 DEF Earlier, Whole
  <2>3. QED BY <1>2, <2>1, <2>2
<1>11. QED BY <1>5, <1>9, <1>10

(* Among the functors fs there is at most one round, and it is g. *)
OneRound(fs, g) == FilesOnce(fs) /\ \A f \in Elements(fs) : IsFile(f) => f = g

(* What sendFileInLoop queues. *)
Rounds(fs, w, g) == \E t1, t2 \in BOOLEAN : fs = If(t1, w) \o If(t2, g)

(* That, and what sendFile queues. *)
LEMMA OneRoundMade ==
  ASSUME NEW c \in Conns, NEW m \in 1..MaxSends, NEW off \in 0..FileLen,
         NEW g, g = FileFunctor(c, m, off), NEW w, w = Functor("writeComplete", c)
  PROVE  /\ g \in Functors /\ IsFile(g) /\ g.msg = m /\ g.c = c /\ g.off = off
         /\ <<g>> \in Seq(Functors) /\ OneRound(<<g>>, g)
         /\ \A fs : Rounds(fs, w, g) => fs \in Seq(Functors) /\ OneRound(fs, g)
<1>1. g \in Functors /\ w \in Functors
  BY FunctorsMade
<1>2. IsFile(g) /\ ~IsFile(w) /\ g.msg = m /\ g.c = c /\ g.off = off
  BY DEF FileFunctor, Functor, IsFile
<1>3. <<g>> \in Seq(Functors) /\ OneRound(<<g>>, g)
  BY <1>1 DEF OneRound, FilesOnce, Elements
<1>4. <<>> \in Seq(Functors) /\ <<w>> \in Seq(Functors)
  BY <1>1
<1>5. OneRound(<<>>, g) /\ OneRound(<<w>>, g)
  BY <1>2 DEF OneRound, FilesOnce, Elements
<1>6. PICK v : v = <<w>> \o <<g>>
  OBVIOUS
<1>7. v \in Seq(Functors) /\ OneRound(v, g)
  <2>1. \A f \in Elements(<<w>>) : ~IsFile(f)
    BY <1>2 DEF Elements
  <2>2. /\ v \in Seq(Functors) /\ Elements(v) = Elements(<<w>>) \union Elements(<<g>>)
        /\ FilesOnce(v)
    BY <1>3, <1>4, <1>5, <1>6, <2>1, AppendedTodo, AppendedFiles DEF OneRound
  <2>3. QED BY <1>3, <2>1, <2>2 DEF OneRound
<1>8. ASSUME NEW t1 \in BOOLEAN, NEW t2 \in BOOLEAN
      PROVE  If(t1, w) \o If(t2, g) \in {<<>>, <<w>>, <<g>>, v}
  <2>1. /\ If(t1, w) = <<>> \/ If(t1, w) = <<w>>
        /\ If(t2, g) = <<>> \/ If(t2, g) = <<g>>
    BY DEF If
  <2>2. <<>> \o <<>> = <<>> /\ <<w>> \o <<>> = <<w>> /\ <<>> \o <<g>> = <<g>>
    BY <1>1, ConcatEmptySeq
  <2>3. QED BY <1>6, <2>1, <2>2
<1>9. \A fs : Rounds(fs, w, g) => fs \in {<<>>, <<w>>, <<g>>, v}
  BY <1>8, Zenon DEF Rounds
<1>10. QED BY <1>1, <1>2, <1>3, <1>4, <1>5, <1>7, <1>9

(* The functors fs hold no round of call m. *)
Without(fs, m) == \A f \in Elements(fs) : IsFile(f) => f.msg # m

(* In loop l the rounds of call m give way to those of gs. *)
ListGoes(l, m, gs) == /\ FilesOnce(Todo(l)')
                      /\ \A f \in Files(l)' : (f \in Files(l) /\ f.msg # m) \/ f \in gs

(* In all loops they give way to g in loop q. *)
ListsGo(q, m, g) == \A l \in Loops : ListGoes(l, m, IF l = q THEN {g} ELSE {})

(* That is all that is queued in loop l. *)
LEMMA LeavesGo ==
  ASSUME NEW l \in Loops, NEW u, NEW m, NEW g, g.msg = m, NEW fs \in Seq(Functors),
         OneRound(fs, g), Leaves(l, u, fs), Without(u, m)
  PROVE  ListGoes(l, m, {g})
<1>1. FilesOnce(fs) /\ \A f \in Elements(fs) : IsFile(f) => f = g
  BY DEF OneRound
<1>2. /\ u \in Seq(Functors) /\ FilesOnce(u) /\ Elements(u) \subseteq Ahead(l)
      /\ Todo(l)' = u \o fs
  BY DEF Leaves
<1>3. \A f \in Elements(u), h \in Elements(fs) : IsFile(f) /\ IsFile(h) => f.msg # h.msg
  BY <1>1 DEF Without
<1> HIDE DEF Todo
<1>4. Elements(Todo(l)') = Elements(u) \union Elements(fs) /\ FilesOnce(Todo(l)')
  BY <1>1, <1>2, <1>3, AppendedTodo, AppendedFiles
<1>5. Ahead(l)' = Elements(Todo(l)')
  BY DEF Ahead, Elements
<1>6. QED BY <1>1, <1>2, <1>4, <1>5 DEF Files, ListGoes, Without

(* And nothing is queued in loop l. *)
LEMMA LeavesNone ==
  ASSUME NEW l \in Loops, NEW u, NEW m, Leaves(l, u, <<>>), Without(u, m)
  PROVE  ListGoes(l, m, {})
<1>1. /\ u \in Seq(Functors) /\ FilesOnce(u) /\ Elements(u) \subseteq Ahead(l)
      /\ Todo(l)' = u
  BY ConcatEmptySeq DEF Leaves
<1> HIDE DEF Todo
<1>2. Ahead(l)' = Elements(Todo(l)')
  BY DEF Ahead, Elements
<1>3. QED BY <1>1, <1>2 DEF Files, ListGoes, Without

(* Loop q is given fs, which holds at most the round g of call m, and the  *)
(* others nothing.                                                         *)
LEMMA LeavesAll ==
  ASSUME NEW q \in Loops, NEW m, NEW g, g.msg = m, NEW fs \in Seq(Functors), OneRound(fs, g),
         \A l \in Loops : \E u : Leaves(l, u, GivenTo(q, fs, l)) /\ Without(u, m)
  PROVE  ListsGo(q, m, g)
<1> SUFFICES ASSUME NEW l \in Loops PROVE ListGoes(l, m, IF l = q THEN {g} ELSE {})
  BY DEF ListsGo
<1>1. PICK u : Leaves(l, u, GivenTo(q, fs, l)) /\ Without(u, m)
  OBVIOUS
<1>2. CASE l = q
  <2>1. Leaves(l, u, fs)
    BY <1>1, <1>2 DEF GivenTo
  <2>2. ListGoes(l, m, {g})
    BY <1>1, <2>1, LeavesGo
  <2>3. QED BY <1>2, <2>2
<1>3. CASE l # q
  <2>1. Leaves(l, u, <<>>)
    BY <1>1, <1>3 DEF GivenTo
  <2>2. ListGoes(l, m, {})
    BY <1>1, <2>1, LeavesNone
  <2>3. QED BY <1>3, <2>2
<1>4. QED BY <1>2, <1>3

(* The first round of a call is queued. *)
LEMMA ListsBegin ==
  ASSUME Typed, RoundsApart, NEW m, Fresh(m), NEW q \in Loops, NEW g, g.msg = m,
         NEW fs \in Seq(Functors), OneRound(fs, g), Queue(q, fs), UNCHANGED <<batch, pos>>
  PROVE  ListsGo(q, m, g)
<1>1. \A l \in Loops : Leaves(l, Todo(l), GivenTo(q, fs, l))
  BY QueuedLeaves
<1>2. \A l \in Loops : Without(Todo(l), m)
  BY DEF Fresh, Files, Ahead, Without
<1>3. QED BY <1>1, <1>2, LeavesAll

(* A round is executed, and the next one is queued. *)
LEMMA ListsContinue ==
  ASSUME Typed, RoundsApart, NEW k \in Loops, NEW f, Starts(k, f), IsFile(f),
         NEW q \in Loops, NEW g, g.msg = f.msg,
         NEW fs \in Seq(Functors), OneRound(fs, g), Queue(q, fs)
  PROVE  f \in Files(k) /\ ListsGo(q, f.msg, g)
<1>1. f \in Files(k)
  BY StartedLeaves DEF Files
<1>2. ASSUME NEW l \in Loops
      PROVE  \E u : Leaves(l, u, GivenTo(q, fs, l)) /\ Without(u, f.msg)
  <2>1. PICK u : /\ Leaves(l, u, GivenTo(q, fs, l))
                 /\ l = k => \A h \in Elements(u) : IsFile(h) => h.msg # f.msg
    BY StartedLeaves
  <2>2. l # k => Without(u, f.msg)
    BY <1>1, <2>1 DEF Leaves, RoundsApart, Files, Without
  <2>3. QED BY <2>1, <2>2 DEF Without
<1>3. QED BY <1>1, <1>2, LeavesAll

(* n bytes of the file of call m go out on connection c, from offset off   *)
(* on.                                                                     *)
FileGoes(c, m, off, n) ==
  /\ Extends(hist'[c].file, hist[c].file, m, off, n, Len(hist[c].sent))
  /\ \A d \in Conns \ {c} : hist'[d].file = hist[d].file
  /\ n > 0 => Whole(Len(hist[c].sent))

(* A round of call m on connection c in loop q, or the queueing of its     *)
(* first one, keeps everything.                                            *)
LEMMA RoundKeeps ==
  ASSUME Typed, FileOK, FileIntact, NEW q \in Loops, NEW c \in Conns, NEW m \in 1..MaxSends,
         NEW off \in Nat, NEW n \in Nat, off + n <= FileLen,
         FileSent(c, m) = 1..off, FileGoes(c, m, off, n),
         NEW g, g.msg = m, g.c = c, g.off = off + n, ListsGo(q, m, g),
         sends' \in Nat, sends' >= sends, m <= sends',
         \A u \in Users : Asks(u)' => Asks(u) /\ user'[u].msg = user[u].msg /\ user[u].msg # m
  PROVE  FileOK' /\ FileIntact'
<1>1. PICK s, t, after : s = hist[c].file /\ t = hist'[c].file /\ after = Len(hist[c].sent)
  OBVIOUS
<1>2. /\ s \in Seq(ByteType) /\ after \in Nat /\ Extends(t, s, m, off, n, after)
      /\ n > 0 => Whole(after)
  BY <1>1 DEF Typed, HistTyped, HistType, FileGoes
<1>3. Sent(s, m) = 1..off /\ Intact(s)
  BY <1>1 DEF FileSent, FileIntact, Intact
<1>4. /\ Sent(t, m) = 1..(off + n) /\ Intact(t)
      /\ \A k : k # m => Sent(t, k) = Sent(s, k)
  BY <1>2, <1>3, PartFollows
<1>5. FileSent(c, m)' = 1..(off + n)
  BY <1>1, <1>4, SMTT(60) DEF FileSent, Sent
<1>6. \A k : k # m => FileSent(c, k)' = FileSent(c, k)
  <2> SUFFICES ASSUME NEW k, k # m PROVE FileSent(c, k)' = FileSent(c, k)
    OBVIOUS
  <2>1. Sent(t, k) = Sent(s, k)
    BY <1>4
  <2>2. FileSent(c, k)' = Sent(t, k) /\ FileSent(c, k) = Sent(s, k)
    BY <1>1 DEF FileSent, Sent
  <2>3. QED BY <2>1, <2>2
<1>7. \A d \in Conns \ {c} : \A k : FileSent(d, k)' = FileSent(d, k)
  <2>1. \A d \in Conns \ {c} : hist'[d].file = hist[d].file
    BY DEF FileGoes
  <2>2. QED BY <2>1, SMTT(60) DEF FileSent, Sent
<1>8. \A d \in Conns, k \in 1..MaxSends : k # m => FileSent(d, k)' = FileSent(d, k)
  BY <1>6, <1>7
<1>9. FileIntact'
  <2>1. \A d \in Conns \ {c} : Intact(hist[d].file)
    BY DEF FileIntact, Intact
  <2>2. \A d \in Conns : Intact(hist'[d].file)
    BY <1>1, <1>4, <2>1 DEF FileGoes
  <2>3. QED BY <2>2 DEF FileIntact, Intact, Earlier
<1>10. \A l \in Loops : \A f \in Files(l) : f.c \in Conns /\ f.msg \in 1..MaxSends
  BY FilesTyped
<1>11. \A l \in Loops : \A f \in Files(l)' : (f \in Files(l) /\ f.msg # m) \/ (l = q /\ f = g)
  <2> SUFFICES ASSUME NEW l \in Loops
               PROVE  \A f \in Files(l)' : (f \in Files(l) /\ f.msg # m) \/ (l = q /\ f = g)
    OBVIOUS
  <2>1. CASE l = q
    <3>1. ListGoes(l, m, {g})
      BY <2>1 DEF ListsGo
    <3>2. QED BY <2>1, <3>1 DEF ListGoes
  <2>2. CASE l # q
    <3>1. ListGoes(l, m, {})
      BY <2>2 DEF ListsGo
    <3>2. QED BY <3>1 DEF ListGoes
  <2>3. QED BY <2>1, <2>2
<1>12. RoundsApart'
  <2>1. \A l \in Loops : FilesOnce(Todo(l))'
    <3> SUFFICES ASSUME NEW l \in Loops PROVE FilesOnce(Todo(l))'
      OBVIOUS
    <3>1. FilesOnce(Todo(l)')
      BY DEF ListsGo, ListGoes
    <3> HIDE DEF Todo
    <3>2. QED BY <3>1 DEF FilesOnce, IsFile
  <2>2. ASSUME NEW k \in Loops, NEW l \in Loops, NEW f \in Files(k)', NEW h \in Files(l)',
               f.msg = h.msg
        PROVE  k = l
    BY <1>11, <2>2 DEF FileOK, RoundsApart
  <2>3. QED BY <2>1, <2>2 DEF RoundsApart
<1>13. RoundsFollow'
  <2> SUFFICES ASSUME NEW l \in Loops, NEW f \in Files(l)'
               PROVE  FileSent(f.c, f.msg)' = 1..f.off
    BY DEF RoundsFollow
  <2>1. CASE f \in Files(l) /\ f.msg # m
    BY <1>8, <1>10, <2>1 DEF FileOK, RoundsFollow
  <2>2. CASE f = g
    BY <1>5, <2>2
  <2>3. QED BY <1>11, <2>1, <2>2
<1>14. \A k \in 1..MaxSends : k # m /\ Fresh(k) => Fresh(k)'
  BY <1>8, <1>11 DEF Fresh
<1>15. CallsFresh'
  <2>1. sends \in Nat
    BY ServerAssumption DEF Typed, CountTyped
  <2>2. \A k \in 1..MaxSends : k > sends' => Fresh(k)'
    BY <1>14, <2>1 DEF FileOK, CallsFresh
  <2>3. \A u \in Users, k \in 1..MaxSends :
           Asks(u)' /\ user'[u].msg = k => k <= sends' /\ Fresh(k)'
    BY <1>14, <2>1 DEF FileOK, CallsFresh
  <2>4. \A u, v \in Users : Asks(u)' /\ Asks(v)' /\ user'[u].msg = user'[v].msg => u = v
    BY DEF FileOK, CallsFresh
  <2>5. QED BY <2>2, <2>3, <2>4 DEF CallsFresh
<1>16. QED BY <1>9, <1>12, <1>13, <1>15 DEF FileOK

(* A call of sendFile in a thread that is no loop gets its number. *)
LEMMA AskKeeps ==
  ASSUME Typed, FileOK, FileIntact, NEW u \in Users, UserTestsForSend(u, "sendFile")
  PROVE  FileOK' /\ FileIntact'
<1>1. UNCHANGED <<pending, batch, pos, hist>>
  BY DEF UserTestsForSend, loopVars
<1>2. /\ sends \in Nat /\ sends + 1 \in 1..MaxSends /\ sends' = sends + 1
      /\ \A v \in Users : user[v] \in UserType
  BY ServerAssumption DEF UserTestsForSend, Typed, CountTyped, UserTyped
<1>3. user'[u].msg = sends + 1 /\ \A v \in Users \ {u} : user'[v] = user[v]
  BY <1>2 DEF UserTestsForSend, Typed, UserTyped, UserType
<1>4. ListsRest
  BY <1>1, ListsKept DEF FileOK
<1>5. RoundsApart' /\ RoundsFollow' /\ \A m : Fresh(m) => Fresh(m)'
  BY <1>1, <1>4, FilesTyped, ListsRestKeep DEF FileOK
<1>6. CallsFresh'
  <2>1. \A m \in 1..MaxSends : m > sends' => Fresh(m)'
    BY <1>2, <1>5 DEF FileOK, CallsFresh
  <2>2. \A v \in Users \ {u} : Asks(v)' => Asks(v) /\ user'[v].msg = user[v].msg
    BY <1>3 DEF Asks
  <2>3. \A v \in Users \ {u} : Asks(v)' => user'[v].msg \in 1..MaxSends
    BY <1>2, <2>2, ServerAssumption DEF Asks, Typed, UserTyped, UserType
  <2>4. \A v \in Users, m \in 1..MaxSends :
           Asks(v)' /\ user'[v].msg = m => m <= sends' /\ Fresh(m)'
    <3> SUFFICES ASSUME NEW v \in Users, NEW m \in 1..MaxSends, Asks(v)', user'[v].msg = m
                 PROVE  m <= sends' /\ Fresh(m)'
      OBVIOUS
    <3>1. CASE v = u
      BY <1>2, <1>3, <1>5, <3>1 DEF FileOK, CallsFresh
    <3>2. CASE v # u
      BY <1>2, <1>5, <2>2, <3>2 DEF FileOK, CallsFresh
    <3>3. QED BY <3>1, <3>2
  <2>5. ASSUME NEW v \in Users, NEW w \in Users, Asks(v)', Asks(w)', user'[v].msg = user'[w].msg
        PROVE  v = w
    <3>1. \A x \in Users \ {u} : Asks(x)' => user'[x].msg <= sends
      BY <2>2, <2>3 DEF FileOK, CallsFresh
    <3>2. CASE v # u /\ w # u
      BY <2>2, <2>5, <3>2 DEF FileOK, CallsFresh
    <3>3. QED BY <1>2, <1>3, <2>5, <3>1, <3>2
  <2>6. QED BY <2>1, <2>4, <2>5 DEF CallsFresh
<1>7. FileIntact'
  BY <1>1, BytesRest
<1>8. QED BY <1>5, <1>6, <1>7 DEF FileOK

(* So many messages are a whole number of them. *)
LEMMA MessagesWhole ==
  ASSUME NEW n \in Nat, NEW k \in Nat \ {0}
  PROVE  (n * k) % k = 0
<1>1. PICK x : x = n * k
  OBVIOUS
<1>2. x \in Nat
  BY <1>1
<1>3. PICK q, r : q = x \div k /\ r = x % k
  OBVIOUS
<1>4. q \in Nat /\ r \in 0..(k - 1) /\ x = k * q + r
  BY <1>2, <1>3
<1>5. \A a, b \in Nat : a >= b + 1 => a * k >= b * k + k
  <2> SUFFICES ASSUME NEW a \in Nat, NEW b \in Nat, a >= b + 1 PROVE a * k >= b * k + k
    OBVIOUS
  <2>1. a * k >= (b + 1) * k
    OBVIOUS
  <2>2. (b + 1) * k = b * k + k
    OBVIOUS
  <2>3. QED BY <2>1, <2>2
<1>6. k * q = q * k /\ q * k \in Nat
  BY <1>4
<1>7. ~(q >= n + 1)
  <2>1. q >= n + 1 => q * k >= n * k + k
    BY <1>4, <1>5
  <2>2. QED BY <1>1, <1>2, <1>4, <1>6, <2>1
<1>8. ~(n >= q + 1)
  <2>1. n >= q + 1 => n * k >= q * k + k
    BY <1>4, <1>5
  <2>2. QED BY <1>1, <1>2, <1>4, <1>6, <2>1
<1>9. q = n
  BY <1>4, <1>7, <1>8
<1>10. r = 0
  BY <1>1, <1>2, <1>4, <1>6, <1>9
<1>11. QED BY <1>1, <1>3, <1>10

(* While no output waits, the messages that were taken on are all out. *)
LEMMA NothingWaits ==
  ASSUME Typed, StreamIntact, NEW c \in Conns, conn[c].out = <<>>
  PROVE  Whole(Len(hist[c].sent))
<1>1. hist[c].sent \in Seq(Bytes) /\ hist[c].accepted \in Seq(Bytes)
  BY DEF Typed, HistTyped, HistType, Bytes
<1>2. PICK k \in Nat : k = Len(hist[c].accepted) * MsgLen
  BY <1>1, ServerAssumption
<1>3. hist[c].sent = Flat(hist[c].accepted)
  <2>1. hist[c].sent \o <<>> = Flat(hist[c].accepted)
    BY DEF StreamIntact, Flat
  <2>2. QED BY <1>1, <2>1, ConcatEmptySeq
<1>4. DOMAIN hist[c].sent = 1..k
  BY <1>2, <1>3 DEF Flat
<1>5. Len(hist[c].sent) = k
  BY <1>1, <1>4, LenProperties
<1>6. PICK a \in Nat : a = Len(hist[c].accepted)
  BY <1>1
<1>7. (a * MsgLen) % MsgLen = 0
  BY MessagesWhole, ServerAssumption
<1>8. QED BY <1>2, <1>5, <1>6, <1>7 DEF Whole

(* sendFileInLoop sends n bytes and queues its next round, or none. *)
LEMMA FileEffect ==
  ASSUME Typed, StreamIntact, NEW c \in Conns, NEW m \in 1..MaxSends, NEW off \in 0..FileLen,
         SendFileInLoop(c, m, off)
  PROVE  \/ UNCHANGED <<pending, hist>>
         \/ \E n \in Nat : \E fs \in Seq(Functors) :
               /\ off + n \in 0..FileLen
               /\ FileGoes(c, m, off, n)
               /\ OneRound(fs, FileFunctor(c, m, off + n)) /\ Queue(conn[c].loop, fs)
<1> DEFINE k == conn[c]
           result     == CASE ~MaySendFile(k) -> "waits"
                           [] MaySendFile(k) /\ off >= FileLen -> "ok"
                           [] OTHER -> WriteResult(sock[c])
           bytesSent  == IF result = "ok"
                         THEN Smaller(Smaller(FileCount, FileLen - off), sock[c].room) ELSE 0
           bytes == [i \in 1..bytesSent |->
                        [call |-> m, pos |-> off + i, after |-> Len(hist[c].sent)]]
           file == hist[c].file \o bytes
<1>1. CASE result = "SIGPIPE"
  BY <1>1, Zenon DEF SendFileInLoop
<1>2. CASE result # "SIGPIPE"
  <2>1. hist' = [hist EXCEPT ![c].file = file]
    BY <1>2, Zenon DEF SendFileInLoop
  <2>2. \E t1 \in BOOLEAN, t2 \in BOOLEAN :
           Queue(k.loop, If(t1, Functor("writeComplete", c))
                           \o If(t2, FileFunctor(c, m, off + bytesSent)))
    BY <1>2, Zenon DEF SendFileInLoop, FileAgain, FileRest
  <2>3. sock[c] \in SockType
    BY DEF Typed, SockTyped
  <2>4. bytesSent \in Nat /\ off + bytesSent \in 0..FileLen
    BY <2>3, ServerAssumption DEF SockType, Smaller
  <2>5. ~MaySendFile(k) => result = "waits"
    OBVIOUS
  <2>6. bytesSent > 0 => conn[c].out = <<>>
    BY <2>5 DEF MaySendFile
  <2> HIDE DEF result, bytesSent
  <2>7. PICK n \in Nat : n = bytesSent
    BY <2>4
  <2>8. Extends(file, hist[c].file, m, off, n, Len(hist[c].sent))
    BY <2>7 DEF Extends
  <2> HIDE DEF file
  <2>9. hist'[c].file = file /\ \A d \in Conns \ {c} : hist'[d].file = hist[d].file
    BY <2>1 DEF Typed, HistTyped, HistType
  <2>10. FileGoes(c, m, off, n)
    BY <2>6, <2>7, <2>8, <2>9, NothingWaits DEF FileGoes
  <2>11. PICK g, w : g = FileFunctor(c, m, off + n) /\ w = Functor("writeComplete", c)
    OBVIOUS
  <2>12. PICK fs : Rounds(fs, w, g) /\ Queue(k.loop, fs)
    BY <2>2, <2>7, <2>11, Zenon DEF Rounds
  <2>13. PICK rest \in 0..FileLen : rest = off + n
    BY <2>4, <2>7
  <2>14. fs \in Seq(Functors) /\ OneRound(fs, g)
    <3>1. g = FileFunctor(c, m, rest) /\ w = Functor("writeComplete", c)
      BY <2>11, <2>13
    <3>2. \A s : Rounds(s, w, g) => s \in Seq(Functors) /\ OneRound(s, g)
      BY <3>1, OneRoundMade
    <3>3. QED BY <2>12, <3>2
  <2>15. QED BY <2>10, <2>11, <2>12, <2>13, <2>14
<1>3. QED BY <1>1, <1>2

(* sendFile in a thread that is no loop queues its first round. *)
LEMMA FirstRoundKeeps ==
  ASSUME Typed, FileOK, FileIntact, NEW u \in Users, UserQueuesFile(u)
  PROVE  FileOK' /\ FileIntact'
<1>1. user[u].pc = "sendFile" /\ UNCHANGED <<batch, pos, hist, sends>>
  BY DEF UserQueuesFile, loopVars
<1>2. \A v \in Users : user[v] \in UserType
  BY DEF Typed, UserTyped
<1>3. PICK c \in Conns, m \in 1..MaxSends : c = user[u].c /\ m = user[u].msg
  BY <1>1, <1>2, ServerAssumption DEF Typed, UserTyped, UserType
<1>4. PICK q \in Loops : q = conn[c].loop
  BY DEF Typed, ConnTyped, ConnType
<1>5. PICK g : g = FileFunctor(c, m, 0)
  OBVIOUS
<1>6. Queue(q, <<g>>)
  BY <1>3, <1>4, <1>5 DEF UserQueuesFile
<1>7. 0 \in 0..FileLen
  BY ServerAssumption
<1>8. g.msg = m /\ g.c = c /\ g.off = 0 /\ <<g>> \in Seq(Functors) /\ OneRound(<<g>>, g)
  BY <1>5, <1>7, OneRoundMade
<1>9. Fresh(m) /\ m <= sends
  BY <1>1, <1>3 DEF FileOK, CallsFresh, Asks
<1>10. ListsGo(q, m, g)
  BY <1>1, <1>6, <1>8, <1>9, ListsBegin DEF FileOK
<1>11. FileSent(c, m) = 1..0
  BY <1>9 DEF Fresh
<1>12. FileGoes(c, m, 0, 0)
  <2>1. PICK s \in Seq(ByteType) : s = hist[c].file
    BY DEF Typed, HistTyped, HistType
  <2>2. s \o <<>> = s
    BY ConcatEmptySeq
  <2>3. Extends(s, s, m, 0, 0, Len(hist[c].sent))
    <3>1. [i \in 1..0 |-> [call |-> m, pos |-> 0 + i, after |-> Len(hist[c].sent)]] = <<>>
      OBVIOUS
    <3>2. QED BY <2>2, <3>1 DEF Extends
  <2>4. QED BY <1>1, <2>1, <2>3 DEF FileGoes
<1>13. sends \in Nat /\ 0 + 0 = 0 /\ 0 + 0 <= FileLen
  BY ServerAssumption DEF Typed, CountTyped
<1>14. ASSUME NEW v \in Users, Asks(v)'
       PROVE  Asks(v) /\ user'[v].msg = user[v].msg /\ user[v].msg # m
  <2>1. user' = [user EXCEPT ![u].pc = "idle", ![u].msg = 0]
    BY DEF UserQueuesFile
  <2>2. v # u
    BY <1>2, <1>14, <2>1 DEF Asks, Typed, UserTyped, UserType
  <2>3. user'[v] = user[v]
    BY <2>1, <2>2 DEF Typed, UserTyped
  <2>4. Asks(v) /\ user'[v].msg = user[v].msg
    BY <1>14, <2>3 DEF Asks
  <2>5. QED BY <1>1, <1>3, <2>2, <2>4 DEF FileOK, CallsFresh, Asks
<1>15. QED
  <2>1. /\ 0 \in Nat /\ 0 + 0 <= FileLen /\ g.off = 0 + 0
        /\ sends' \in Nat /\ sends' >= sends /\ m <= sends'
    BY <1>1, <1>8, <1>9, <1>13
  <2>2. QED BY <1>8, <1>10, <1>11, <1>12, <1>14, <2>1, RoundKeeps, ZenonT(60)

(* A round that was executed, whether it was the first or not. *)
LEMMA RoundDone ==
  ASSUME Typed, FileOK, FileIntact, NEW c \in Conns, NEW m \in 1..MaxSends,
         NEW off \in 0..FileLen, NEW n \in Nat, off + n \in 0..FileLen,
         FileSent(c, m) = 1..off, FileGoes(c, m, off, n),
         ListsGo(conn[c].loop, m, FileFunctor(c, m, off + n)),
         sends' \in Nat, sends' >= sends, m <= sends', UNCHANGED user,
         \A u \in Users : Asks(u) => user[u].msg # m
  PROVE  FileOK' /\ FileIntact'
<1>1. PICK q \in Loops : q = conn[c].loop
  BY DEF Typed, ConnTyped, ConnType
<1>2. PICK g : g = FileFunctor(c, m, off + n)
  OBVIOUS
<1>3. g.msg = m /\ g.c = c /\ g.off = off + n /\ ListsGo(q, m, g)
  BY <1>1, <1>2 DEF FileFunctor
<1>4. off \in Nat /\ off + n <= FileLen
  BY ServerAssumption
<1>5. \A u \in Users : Asks(u)' => Asks(u) /\ user'[u].msg = user[u].msg /\ user[u].msg # m
  BY DEF Asks
<1>6. QED BY <1>3, <1>4, <1>5, RoundKeeps

(* sendFile in a callback executes its first round at once. *)
LEMMA CallbackFileKeeps ==
  ASSUME Typed, StreamIntact, FileOK, FileIntact, NEW l \in Loops, CallbackSendsFile(l)
  PROVE  FileOK' /\ FileIntact'
<1>1. /\ sends' = sends + 1 /\ UNCHANGED <<user, batch, pos>>
      /\ sends \in Nat /\ sends + 1 \in 1..MaxSends
  BY ServerAssumption DEF CallbackSendsFile, loopVars, Typed, CountTyped
<1>2. PICK c \in Conns, m \in 1..MaxSends : c = frame[l].c /\ m = sends + 1
  BY <1>1 DEF CallbackSendsFile, InCallback, Typed, FrameTyped
<1>3. SendFileInLoop(c, m, 0) /\ 0 \in 0..FileLen
  BY <1>2, ServerAssumption DEF CallbackSendsFile
<1>4. Fresh(m)
  BY <1>1, <1>2 DEF FileOK, CallsFresh
<1>5. CASE UNCHANGED <<pending, hist>>
  <2>1. ListsRest
    BY <1>1, <1>5, ListsKept DEF FileOK
  <2>2. FilesRest
    BY <1>1, <1>5, <2>1 DEF FilesRest, Asks
  <2>3. QED BY <2>2, RestKeeps
<1>6. ASSUME NEW n \in Nat, NEW fs \in Seq(Functors), 0 + n \in 0..FileLen,
             FileGoes(c, m, 0, n), OneRound(fs, FileFunctor(c, m, 0 + n)),
             Queue(conn[c].loop, fs)
      PROVE  FileOK' /\ FileIntact'
  <2>1. PICK q \in Loops : q = conn[c].loop
    BY DEF Typed, ConnTyped, ConnType
  <2>2. PICK g : g = FileFunctor(c, m, 0 + n)
    OBVIOUS
  <2>3. g.msg = m
    BY <2>2 DEF FileFunctor
  <2>4. OneRound(fs, g) /\ Queue(q, fs)
    BY <1>6, <2>1, <2>2
  <2>5. ListsGo(q, m, g)
    BY <1>1, <1>4, <2>3, <2>4, ListsBegin DEF FileOK
  <2>6. ListsGo(conn[c].loop, m, FileFunctor(c, m, 0 + n))
    BY <2>1, <2>2, <2>5
  <2>7. FileSent(c, m) = 1..0
    BY <1>4 DEF Fresh
  <2>8. ASSUME NEW u \in Users, Asks(u) PROVE user[u].msg # m
    <3>1. user[u].msg \in 1..MaxSends
      BY <2>8, ServerAssumption DEF Asks, Typed, UserTyped, UserType
    <3>2. user[u].msg <= sends
      BY <2>8, <3>1 DEF FileOK, CallsFresh
    <3>3. QED BY <1>1, <1>2, <3>2
  <2>9. sends' \in Nat /\ sends' >= sends /\ m <= sends' /\ UNCHANGED user
    BY <1>1, <1>2
  <2>10. QED BY <1>3, <1>6, <2>6, <2>7, <2>8, <2>9, RoundDone
<1>7. QED BY <1>3, <1>5, <1>6, FileEffect

(* A round that was queued is executed. *)
LEMMA QueuedRoundKeeps ==
  ASSUME Typed, Life, StreamIntact, FileOK, FileIntact, NEW l \in Loops, NEW f,
         RunSendFile(l, f)
  PROVE  FileOK' /\ FileIntact'
<1>1. Starts(l, f) /\ f.kind = "sendFileInLoop" /\ UNCHANGED <<sends, user>>
  BY DEF RunSendFile, Starts
<1>2. PICK c \in Conns, m \in 1..MaxSends, off \in 0..FileLen :
         c = f.c /\ m = f.msg /\ off = f.off
  BY <1>1, StartsTyped
<1>3. sends \in Nat
  BY ServerAssumption DEF Typed, CountTyped
<1>4. \/ UNCHANGED <<pending, hist>>
      \/ SendFileInLoop(c, m, off)
  BY <1>2 DEF RunSendFile
<1>5. CASE UNCHANGED <<pending, hist>>
  <2>1. ListsRest
    BY <1>1, <1>5, ListsKept DEF FileOK
  <2>2. FilesRest
    BY <1>1, <1>3, <1>5, <2>1 DEF FilesRest, Asks
  <2>3. QED BY <2>2, RestKeeps
<1>6. ASSUME NEW n \in Nat, NEW fs \in Seq(Functors), off + n \in 0..FileLen,
             FileGoes(c, m, off, n), OneRound(fs, FileFunctor(c, m, off + n)),
             Queue(conn[c].loop, fs)
      PROVE  FileOK' /\ FileIntact'
  <2>1. PICK q \in Loops : q = conn[c].loop
    BY DEF Typed, ConnTyped, ConnType
  <2>2. PICK g : g = FileFunctor(c, m, off + n)
    OBVIOUS
  <2>3. g.msg = f.msg /\ IsFile(f)
    BY <1>1, <1>2, <2>2 DEF FileFunctor, IsFile
  <2>4. OneRound(fs, g) /\ Queue(q, fs)
    BY <1>6, <2>1, <2>2
  <2>5. f \in Files(l) /\ ListsGo(q, f.msg, g)
    BY <1>1, <2>3, <2>4, ListsContinue DEF FileOK
  <2>6. ListsGo(conn[c].loop, m, FileFunctor(c, m, off + n))
    BY <1>2, <2>1, <2>2, <2>5
  <2>7. FileSent(c, m) = 1..off
    BY <1>2, <2>5 DEF FileOK, RoundsFollow
  <2>8. m <= sends
    <3>1. ~Fresh(m)
      BY <1>2, <2>5 DEF Fresh
    <3>2. QED BY <1>3, <3>1 DEF FileOK, CallsFresh
  <2>9. ASSUME NEW u \in Users, Asks(u) PROVE user[u].msg # m
    <3>1. user[u].msg = m => Fresh(m)
      BY <2>9 DEF FileOK, CallsFresh
    <3>2. QED BY <1>2, <2>5, <3>1 DEF Fresh
  <2>10. sends' \in Nat /\ sends' >= sends /\ m <= sends' /\ UNCHANGED user
    BY <1>1, <1>3, <2>8
  <2>11. QED BY <1>6, <2>6, <2>7, <2>9, <2>10, RoundDone
<1>7. QED BY <1>4, <1>5, <1>6, FileEffect

(* The other functors that the code makes are no rounds. *)
LEMMA NoFilesMade ==
  ASSUME NEW c \in Conns
  PROVE  /\ \A kind \in {"connectEstablished", "removeConnectionInLoop", "connectDestroyed",
                          "writeComplete", "highWaterMark", "shutdownInLoop"} :
               Functor(kind, c) \in NoFiles
         /\ \A m \in 1..MaxSends : SendFunctor(c, m) \in NoFiles
<1>1. ASSUME NEW kind \in {"connectEstablished", "removeConnectionInLoop", "connectDestroyed",
                            "writeComplete", "highWaterMark", "shutdownInLoop"}
      PROVE  Functor(kind, c) \in NoFiles
  <2>1. Functor(kind, c) \in Functors
    BY FunctorsMade
  <2>2. ~IsFile(Functor(kind, c))
    BY DEF Functor, IsFile
  <2>3. QED BY <2>1, <2>2 DEF NoFiles
<1>2. ASSUME NEW m \in 1..MaxSends PROVE SendFunctor(c, m) \in NoFiles
  <2>1. SendFunctor(c, m) \in Functors
    BY FunctorsMade
  <2>2. ~IsFile(SendFunctor(c, m))
    BY DEF SendFunctor, IsFile
  <2>3. QED BY <2>1, <2>2 DEF NoFiles
<1>3. QED BY <1>1, <1>2

(* No loop is given a round. *)
NoRound == pending' = pending \/ \E q \in Loops : \E fs \in Seq(NoFiles) : Queue(q, fs)

(* One functor is queued. *)
LEMMA OneQueued ==
  ASSUME NEW q \in Loops, NEW f \in NoFiles, Queue(q, <<f>>)
  PROVE  NoRound
<1>1. <<f>> \in Seq(NoFiles)
  OBVIOUS
<1>2. QED BY <1>1 DEF NoRound

(* sendInLoop *)
LEMMA SendNoRound ==
  ASSUME Typed, NEW c \in Conns, NEW m, SendInLoop(c, m)
  PROVE  NoRound
<1> DEFINE result == IF MayWriteDirectly(conn[c]) THEN WriteResult(sock[c]) ELSE "buffered"
<1>1. CASE result = "SIGPIPE"
  BY <1>1 DEF SendInLoop, NoRound
<1>2. CASE result # "SIGPIPE"
  <2>1. \E t1 \in BOOLEAN, t2 \in BOOLEAN :
           Queue(conn[c].loop, If(t1, Functor("writeComplete", c))
                                 \o If(t2, Functor("highWaterMark", c)))
    BY <1>2, Zenon DEF SendInLoop
  <2>2. conn[c].loop \in Loops
    BY DEF Typed, ConnTyped, ConnType
  <2>3. QED BY <2>1, <2>2, IfQuiet, NoFilesMade DEF NoRound
<1>3. QED BY <1>1, <1>2

(* handleWrite *)
LEMMA WriteNoRound ==
  ASSUME Typed, NEW l \in Loops, WriteCallback(l)
  PROVE  NoRound
<1>1. PICK c \in Conns : c = frame[l].c
  BY WriteEffect
<1>2. \E t \in BOOLEAN : Queue(l, If(t, Functor("writeComplete", c)))
  BY <1>1, Zenon DEF WriteCallback
<1>3. QED BY <1>2, IfQuiet, NoFilesMade DEF NoRound

(* A step that gives no loop a round, asks for no file and leaves the      *)
(* bytes of the files alone.                                               *)
LEMMA RestMade ==
  ASSUME Typed, FileOK, NoRound,
         UNCHANGED <<batch, pos>> \/ \E k \in Loops : \E f : Starts(k, f),
         sends' \in {sends, sends + 1},
         \A u \in Users : Asks(u)' => Asks(u) /\ user'[u].msg = user[u].msg,
         \A c \in Conns : hist'[c].file = hist[c].file
  PROVE  FilesRest
<1>1. ListsRest
  BY ListsKept, ListsGiven DEF NoRound, FileOK
<1>2. sends' \in Nat /\ sends' >= sends
  BY ServerAssumption DEF Typed, CountTyped
<1>3. QED BY <1>1, <1>2 DEF FilesRest

(* The handlers. *)
LEMMA HandlerRests ==
  ASSUME Typed, FileOK, NEW l \in Loops,
         \/ \E c \in Conns : HandleEvent(l, c)
         \/ CloseCallback(l) \/ ErrorCallback(l) \/ ReadCallback(l) \/ WriteCallback(l)
  PROVE  FilesRest
<1>1. UNCHANGED <<batch, pos, user, sends>>
  BY DEF HandleEvent, CloseCallback, ErrorCallback, ReadCallback, WriteCallback, loopVars
<1>2. WriteCallback(l) \/ UNCHANGED pending
  BY DEF HandleEvent, CloseCallback, ErrorCallback, ReadCallback
<1>3. NoRound
  BY <1>2, WriteNoRound DEF NoRound
<1>4. ASSUME NEW c \in Conns, NEW due, HandleClose(l, c, due)
      PROVE  \A d \in Conns : hist'[d].file = hist[d].file
  BY <1>4, CloseEffect DEF Closes
<1>5. \A d \in Conns : hist'[d].file = hist[d].file
  <2>1. CASE WriteCallback(l)
    <3>1. PICK c \in Conns : c = frame[l].c
      BY <2>1, WriteEffect
    <3>2. Only(c) /\ \E n \in Nat : Drains(c, n)
      BY <2>1, <3>1, WriteEffect
    <3>3. QED BY <3>2 DEF Only, Drains
  <2>2. CASE CloseCallback(l) \/ ReadCallback(l)
    <3>1. PICK c \in Conns : c = frame[l].c
      BY <2>2 DEF CloseCallback, ReadCallback, Handling, IsNext, Typed, FrameTyped
    <3>2. UNCHANGED hist \/ \E due : HandleClose(l, c, due)
      BY <2>2, <3>1 DEF CloseCallback, ReadCallback
    <3>3. QED BY <1>4, <3>2
  <2>3. CASE UNCHANGED hist
    BY <2>3
  <2>4. QED BY <2>1, <2>2, <2>3 DEF HandleEvent, ErrorCallback
<1>6. QED BY <1>1, <1>3, <1>5, RestMade, SMTT(60) DEF Asks

(* sendInLoop leaves the bytes of the files alone. *)
LEMMA SendKeepsFiles ==
  ASSUME Typed, NEW c \in Conns, NEW m \in 1..MaxSends, SendInLoop(c, m)
  PROVE  \A d \in Conns : hist'[d].file = hist[d].file
<1>1. CASE UNCHANGED hist
  BY <1>1
<1>2. CASE Only(c) /\ \E n \in 0..MsgLen, given \in BOOLEAN : Sends(c, m, n, given)
  <2>1. hist'[c].file = hist[c].file
    BY <1>2 DEF Sends
  <2>2. \A d \in Conns \ {c} : hist'[d].file = hist[d].file
    BY <1>2 DEF Only
  <2>3. QED BY <2>1, <2>2
<1>3. QED BY <1>1, <1>2, SendEffect

(* The functors that are no rounds. *)
LEMMA FunctorRests ==
  ASSUME Typed, FileOK, NEW l \in Loops, NEW f, Starts(l, f),
         \/ RunConnectEstablished(l, f) \/ RunConnectDestroyed(l, f)
         \/ RunRemoveConnection(l, f) \/ RunUserCallback(l, f)
         \/ RunSend(l, f) \/ RunShutdown(l, f)
  PROVE  FilesRest
<1>1. UNCHANGED <<sends, user>>
  BY DEF Starts
<1>2. PICK c \in Conns : c = f.c
  BY StartsTyped
<1>3. conn[c].loop \in Loops
  BY DEF Typed, ConnTyped, ConnType
<1>4. NoRound /\ \A d \in Conns : hist'[d].file = hist[d].file
  <2>1. CASE RunConnectEstablished(l, f) \/ RunUserCallback(l, f) \/ RunShutdown(l, f)
    BY <2>1 DEF RunConnectEstablished, RunUserCallback, RunShutdown, NoRound
  <2>2. CASE RunConnectDestroyed(l, f)
    <3>1. pending' = pending /\ Destroys(l, c)
      BY <1>2, <2>2, DestroyedEffect DEF RunConnectDestroyed
    <3>2. QED BY <3>1 DEF Destroys, NoRound
  <2>3. CASE RunRemoveConnection(l, f)
    <3>1. Queue(conn[c].loop, <<Functor("connectDestroyed", c)>>) /\ UNCHANGED hist
      BY <1>2, <2>3 DEF RunRemoveConnection, RemoveConnectionInLoop
    <3>2. Functor("connectDestroyed", c) \in NoFiles
      BY NoFilesMade
    <3>3. QED BY <1>3, <3>1, <3>2, OneQueued
  <2>4. CASE RunSend(l, f)
    <3>1. PICK m \in 1..MaxSends : m = f.msg
      BY <2>4, StartsTyped DEF RunSend
    <3>2. UNCHANGED <<pending, hist>> \/ SendInLoop(c, m)
      BY <1>2, <2>4, <3>1 DEF RunSend
    <3>3. QED BY <3>2, SendNoRound, SendKeepsFiles DEF NoRound
  <2>5. QED BY <2>1, <2>2, <2>3, <2>4
<1>5. QED BY <1>1, <1>4, RestMade DEF Asks

(* User code in a callback, but for sendFile. *)
LEMMA UserCodeRests ==
  ASSUME Typed, FileOK, NEW l \in Loops, UserCode(l), ~CallbackSendsFile(l)
  PROVE  FilesRest
<1>1. PICK c \in Conns : c = frame[l].c
  BY UserCodeTyped
<1>2. CASE CallbackSends(l)
  <2>1. PICK m \in 1..MaxSends : m = sends + 1 /\ SendInLoop(c, m)
    BY <1>1, <1>2, ServerAssumption DEF CallbackSends, Typed, CountTyped
  <2>2. sends' = sends + 1 /\ UNCHANGED <<batch, pos, user>>
    BY <1>2 DEF CallbackSends, loopVars
  <2>3. NoRound /\ \A d \in Conns : hist'[d].file = hist[d].file
    BY <2>1, SendNoRound, SendKeepsFiles
  <2>4. QED BY <2>2, <2>3, RestMade DEF Asks
<1>3. CASE CallbackShutsDown(l)
  <2>1. /\ conn' = [conn EXCEPT ![c].state = "kDisconnected"]
        /\ hist' = [hist EXCEPT ![c].lateShut = @ \/ hist[c].closed]
        /\ UNCHANGED <<pending, batch, pos, user, sends>>
    BY <1>1, <1>3 DEF CallbackShutsDown, loopVars
  <2>2. ShutsDown(c)
    BY <2>1, ShutsDownEffect
  <2>3. NoRound /\ \A d \in Conns : hist'[d].file = hist[d].file
    BY <2>1, <2>2 DEF ShutsDown, NoRound
  <2>4. QED BY <2>1, <2>3, RestMade DEF Asks
<1>4. ASSUME NEW u \in Users, CallbackShares(l, u) PROVE FilesRest
  <2>1. /\ user' = [user EXCEPT ![u].c = c]
        /\ UNCHANGED <<pending, batch, pos, sends, hist>>
    BY <1>1, <1>4 DEF CallbackShares, loopVars
  <2>2. \A v \in Users : user'[v].pc = user[v].pc /\ user'[v].msg = user[v].msg
    BY <2>1 DEF Typed, UserTyped, UserType
  <2>3. QED BY <2>1, <2>2, RestMade DEF Asks, NoRound
<1>5. QED BY <1>2, <1>3, <1>4 DEF UserCode

(* The threads, but for sendFile. *)
LEMMA UserRests ==
  ASSUME Typed, FileOK, NEW u \in Users,
         \/ UserTestsForSend(u, "send") \/ UserTestsForShutdown(u) \/ UserDrops(u)
         \/ UserQueuesSend(u) \/ UserSetsState(u) \/ UserQueuesShutdown(u)
  PROVE  FilesRest
<1>1. UNCHANGED <<batch, pos>> /\ sends' \in {sends, sends + 1}
  BY DEF UserTestsForSend, UserTestsForShutdown, UserDrops, UserQueuesSend, UserSetsState,
     UserQueuesShutdown, loopVars
<1>2. ASSUME NEW v \in Users, v # u PROVE user'[v] = user[v]
  BY <1>2 DEF UserTestsForSend, UserTestsForShutdown, UserDrops, UserQueuesSend, UserSetsState,
     UserQueuesShutdown, UserGoes, Typed, UserTyped
<1>3. ~Asks(u)'
  BY DEF UserTestsForSend, UserTestsForShutdown, UserDrops, UserQueuesSend, UserSetsState,
     UserQueuesShutdown, UserGoes, Typed, UserTyped, UserType, Asks
<1>4. \A v \in Users : Asks(v)' => Asks(v) /\ user'[v].msg = user[v].msg
  BY <1>2, <1>3 DEF Asks
<1>5. NoRound /\ \A d \in Conns : hist'[d].file = hist[d].file
  <2>1. CASE UserTestsForSend(u, "send") \/ UserTestsForShutdown(u) \/ UserDrops(u)
    BY <2>1 DEF UserTestsForSend, UserTestsForShutdown, UserDrops, NoRound
  <2>2. CASE UserQueuesSend(u) \/ UserSetsState(u) \/ UserQueuesShutdown(u)
    <3>1. PICK c \in Conns : c = user[u].c
      BY <2>2 DEF UserQueuesSend, UserSetsState, UserQueuesShutdown, UserGoes, Typed, UserTyped
    <3>2. conn[c].loop \in Loops
      BY DEF Typed, ConnTyped, ConnType
    <3>3. CASE UserQueuesSend(u)
      <4>1. PICK m \in 1..MaxSends : m = user[u].msg
        BY <3>3, ServerAssumption DEF UserQueuesSend, Typed, UserTyped, UserType
      <4>2. Queue(conn[c].loop, <<SendFunctor(c, m)>>) /\ UNCHANGED hist
        BY <3>1, <3>3, <4>1 DEF UserQueuesSend
      <4>3. QED BY <3>2, <4>2, NoFilesMade, OneQueued
    <3>4. CASE UserQueuesShutdown(u)
      <4>1. Queue(conn[c].loop, <<Functor("shutdownInLoop", c)>>) /\ UNCHANGED hist
        BY <3>1, <3>4 DEF UserQueuesShutdown
      <4>2. QED BY <3>2, <4>1, NoFilesMade, OneQueued
    <3>5. CASE UserSetsState(u)
      <4>1. /\ conn' = [conn EXCEPT ![c].state = "kDisconnected"]
            /\ hist' = [hist EXCEPT ![c].lateShut = @ \/ hist[c].closed]
            /\ UNCHANGED pending
        BY <3>1, <3>5 DEF UserSetsState
      <4>2. ShutsDown(c)
        BY <4>1, ShutsDownEffect
      <4>3. QED BY <4>1, <4>2 DEF ShutsDown, NoRound
    <3>6. QED BY <2>2, <3>3, <3>4, <3>5
  <2>3. QED BY <2>1, <2>2
<1>6. QED BY <1>1, <1>4, <1>5, RestMade

(* epoll_wait, the return from a callback, the Acceptor and the peers. *)
LEMMA OtherRests ==
  ASSUME Typed, FileOK,
         \/ \E l \in Loops : Poll(l) \/ CallbackReturns(l)
         \/ AcceptStep
         \/ \E c \in Conns : PeerStep(c) \/ PeerRead(c)
         \/ UNCHANGED vars
  PROVE  FilesRest
<1>1. UNCHANGED <<batch, pos, user, sends, hist>>
  BY DEF Poll, CallbackReturns, AcceptStep, NewConnection, AcceptFails, AcceptRetried,
     PeerStep, PeerRead,
     Connect, PeerSend, PeerFin, PeerReset, PeerActs, loopVars, vars
<1>2. NoRound
  <2>1. CASE pending' = pending
    BY <2>1 DEF NoRound
  <2>2. ASSUME NEW l \in Loops, CallbackReturns(l) PROVE NoRound
    <3>1. PICK c \in Conns : c = frame[l].c
      BY <2>2, ReturnTyped
    <3>2. conn[c].loop \in Loops /\ Main \in Loops
      BY NextLoopIsLoop, SMTT(60) DEF Typed, ConnTyped, ConnType
    <3>3. \/ pending' = pending
          \/ Queue(conn[c].loop, <<Functor("connectDestroyed", c)>>)
          \/ Queue(Main, <<Functor("removeConnectionInLoop", c)>>)
      BY <2>2, <3>1 DEF CallbackReturns, RemoveConnection, RemoveConnectionInLoop
    <3>4. QED BY <2>1, <3>2, <3>3, NoFilesMade, OneQueued
  <2>3. ASSUME NEW c \in Conns, NewConnection(c) \/ AcceptFails(c) \/ AcceptRetried(c)
        PROVE  NoRound
    <3>1. NextLoop \in Loops
      BY NextLoopIsLoop DEF Typed
    <3>2. pending' = pending \/ Queue(NextLoop, <<Functor("connectEstablished", c)>>)
      BY <2>3, AcceptTyped, RetryTyped DEF AcceptFails, Arrives
    <3>3. QED BY <2>1, <3>1, <3>2, NoFilesMade, OneQueued
  <2>4. ASSUME NEW l \in Loops, Poll(l) PROVE NoRound
    BY <2>1, <2>4 DEF Poll
  <2>5. ASSUME NEW c \in Conns, PeerStep(c) \/ PeerRead(c) PROVE NoRound
    BY <2>1, <2>5, PeerTyped
  <2>6. CASE UNCHANGED vars
    BY <2>1, <2>6 DEF vars
  <2>7. QED BY <2>2, <2>3, <2>4, <2>5, <2>6 DEF AcceptStep
<1>3. QED BY <1>1, <1>2, RestMade DEF Asks

(* A loop takes its functors from the queue or destroys them. *)
LEMMA RoundRests ==
  ASSUME Typed, Life, FileOK, NEW l \in Loops, SwapFunctors(l) \/ EndFunctors(l)
  PROVE  FilesRest
<1>1. ListsRest
  BY ListsRound DEF FileOK
<1>2. UNCHANGED <<user, sends, hist>>
  BY DEF SwapFunctors, EndFunctors
<1>3. sends \in Nat
  BY ServerAssumption DEF Typed, CountTyped
<1>4. QED BY <1>1, <1>2, <1>3 DEF FilesRest, Asks

(* Every step. *)
LEMMA FileStep ==
  Typed /\ Life /\ StreamIntact /\ FileOK /\ FileIntact /\ [Next]_vars => FileOK' /\ FileIntact'
<1> SUFFICES ASSUME Typed, Life, StreamIntact, FileOK, FileIntact, [Next]_vars
             PROVE  FileOK' /\ FileIntact'
  OBVIOUS
<1>1. CASE FilesRest
  BY <1>1, RestKeeps
<1>2. ASSUME NEW l \in Loops, LoopStep(l) PROVE FileOK' /\ FileIntact'
  <2>1. CASE RunFunctor(l)
    <3>1. PICK f : \/ RunConnectEstablished(l, f) \/ RunConnectDestroyed(l, f)
                   \/ RunRemoveConnection(l, f) \/ RunUserCallback(l, f)
                   \/ RunSend(l, f) \/ RunSendFile(l, f) \/ RunShutdown(l, f)
      BY <2>1 DEF RunFunctor
    <3>2. CASE RunSendFile(l, f)
      BY <3>2, QueuedRoundKeeps
    <3>3. CASE ~RunSendFile(l, f)
      <4>1. Starts(l, f)
        BY <3>1 DEF RunConnectEstablished, RunConnectDestroyed, RunRemoveConnection,
           RunUserCallback, RunSend, RunSendFile, RunShutdown
      <4>2. FilesRest
        BY <3>1, <3>3, <4>1, FunctorRests
      <4>3. QED BY <1>1, <4>2
    <3>4. QED BY <3>2, <3>3
  <2>2. CASE SwapFunctors(l) \/ EndFunctors(l)
    BY <1>1, <2>2, RoundRests
  <2>3. CASE Poll(l) \/ CallbackReturns(l)
    BY <1>1, <2>3, OtherRests
  <2>4. CASE \/ \E c \in Conns : HandleEvent(l, c)
             \/ CloseCallback(l) \/ ErrorCallback(l) \/ ReadCallback(l) \/ WriteCallback(l)
    BY <1>1, <2>4, HandlerRests
  <2>5. QED BY <1>2, <2>1, <2>2, <2>3, <2>4 DEF LoopStep
<1>3. ASSUME NEW l \in Loops, UserCode(l) PROVE FileOK' /\ FileIntact'
  BY <1>1, <1>3, CallbackFileKeeps, UserCodeRests
<1>4. ASSUME NEW u \in Users, UserStep(u) \/ UserFinishes(u) PROVE FileOK' /\ FileIntact'
  <2>1. CASE UserTestsForSend(u, "sendFile")
    BY <2>1, AskKeeps
  <2>2. CASE UserQueuesFile(u)
    BY <2>2, FirstRoundKeeps
  <2>3. CASE \/ UserTestsForSend(u, "send") \/ UserTestsForShutdown(u) \/ UserDrops(u)
             \/ UserQueuesSend(u) \/ UserSetsState(u) \/ UserQueuesShutdown(u)
    BY <1>1, <2>3, UserRests
  <2>4. QED BY <1>4, <2>1, <2>2, <2>3 DEF UserStep, UserFinishes
<1>5. CASE \/ AcceptStep \/ UNCHANGED vars
           \/ \E c \in Conns : PeerStep(c) \/ PeerRead(c)
  BY <1>1, <1>5, OtherRests
<1>6. QED BY <1>2, <1>3, <1>4, <1>5 DEF Next

(* At the start. *)
LEMMA FileInit == Init => FileOK /\ FileIntact
<1> SUFFICES ASSUME Init PROVE FileOK /\ FileIntact
  OBVIOUS
<1>1. \A l \in Loops : Todo(l) = <<>>
  BY DEF Init, Todo
<1>2. \A l \in Loops : Ahead(l) = {} /\ FilesOnce(Todo(l))
  BY <1>1 DEF Ahead, Elements, FilesOnce
<1>3. \A l \in Loops : Files(l) = {}
  BY <1>2 DEF Files
<1>4. \A c \in Conns : hist[c].file = <<>>
  BY DEF Init, NoHist
<1>5. \A c \in Conns : \A m : FileSent(c, m) = {}
  BY <1>4 DEF FileSent, Sent
<1>6. \A m : Fresh(m)
  BY <1>3, <1>5 DEF Fresh
<1>7. \A u \in Users : ~Asks(u)
  BY DEF Init, Asks
<1>8. RoundsApart /\ RoundsFollow /\ CallsFresh
  BY <1>2, <1>3, <1>6, <1>7 DEF RoundsApart, RoundsFollow, CallsFresh
<1>9. FileIntact
  BY <1>4 DEF FileIntact
<1>10. QED BY <1>8, <1>9 DEF FileOK

(***************************************************************************)
(* sendFileInLoop sends the bytes of a file in order, each once, and none  *)
(* inside a message, over however many rounds, loops and threads.          *)
(***************************************************************************)
THEOREM FilesGoOutInOrder == Spec => []FileIntact
  BY TypedAlways, LifeAlways, StreamIsIntact, FileInit, FileStep, PTL DEF Spec
=============================================================================
