------------------------------ MODULE ByteQueue ------------------------------
(***************************************************************************)
(* What a Buffer promises its user: bytes come out in the order in which   *)
(* they went in, and none is lost, invented or changed on the way.  The    *)
(* n-th byte put in is the number n.                                       *)
(***************************************************************************)
EXTENDS Naturals, Sequences

CONSTANT MaxBytes   \* bound: bytes ever put in

VARIABLES inside,   \* the bytes put in and not yet taken out, oldest first
          put       \* number of bytes put in so far

vars == <<inside, put>>

Init == inside = <<>> /\ put = 0

Put(n) == /\ put + n <= MaxBytes
          /\ inside' = inside \o [i \in 1..n |-> put + i]
          /\ put' = put + n

Get(n) == /\ inside' = SubSeq(inside, n + 1, Len(inside))
          /\ UNCHANGED put

Next == \/ \E n \in 1..MaxBytes : Put(n)
        \/ \E n \in 1..Len(inside) : Get(n)

Spec == Init /\ [][Next]_vars
=============================================================================
