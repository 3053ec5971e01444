---------------------------- MODULE BufferProofs ----------------------------
(***************************************************************************)
(* Proofs about Buffer, for any prefix, initial size, stack buffer and     *)
(* sequence of operations.                                                 *)
(***************************************************************************)
EXTENDS Buffer, SequenceTheorems, TLAPS

(* The state of a buffer <<b, sz, r, w>> that holds bytes g+1 .. k. *)
Holds(b, sz, r, w, g, k) ==
    /\ sz \in Nat /\ r \in Nat /\ w \in Nat /\ g \in Nat /\ k \in Nat
    /\ CheapPrepend <= r /\ r <= w /\ w <= sz
    /\ DOMAIN b = Cells(sz)
    /\ w - r = k - g
    /\ \A i \in r..(w - 1) : b[i] = g + 1 + i - r

Inv == Holds(buffer, size, readerIndex, writerIndex, got, put)

(* What Inv says of the cells gives both properties of Buffer. *)
LEMMA InvProperties == Inv => IndexesInRange /\ ReadableIsUnread
<1> SUFFICES ASSUME Inv PROVE IndexesInRange /\ ReadableIsUnread
  OBVIOUS
<1> USE BufferAssumption DEF Inv, Holds
<1>1. IndexesInRange
  BY DEF IndexesInRange
<1>2. ASSUME NEW i \in 0..(ReadableBytes - 1)
      PROVE buffer[readerIndex + i] = got + 1 + i
  <2>1. readerIndex + i \in readerIndex..(writerIndex - 1)
    BY DEF ReadableBytes
  <2>2. buffer[readerIndex + i] = got + 1 + (readerIndex + i) - readerIndex
    BY <2>1
  <2>3. QED BY <2>2
<1>3. ReadableBytes = put - got
  BY DEF ReadableBytes
<1>4. QED BY <1>1, <1>2, <1>3 DEF ReadableIsUnread

(* Copying the bytes after k behind the writer index, into cells that are  *)
(* there, appends them.                                                    *)
LEMMA CopyAppends ==
  ASSUME NEW b, NEW sz, NEW r, NEW w, NEW g, NEW k, NEW n \in Nat,
         Holds(b, sz, r, w, g, k), w + n <= sz
  PROVE  Holds(Copy(b, w, n, k), sz, r, w + n, g, k + n)
<1> USE BufferAssumption DEF Holds
<1>1. DOMAIN Copy(b, w, n, k) = Cells(sz)
  BY DEF Copy
<1>2. ASSUME NEW i \in r..(w + n - 1)
      PROVE Copy(b, w, n, k)[i] = g + 1 + i - r
  <2>1. i \in DOMAIN b
    BY DEF Cells
  <2>2. CASE i \in w..(w + n - 1)
    <3>1. Copy(b, w, n, k)[i] = k + 1 + i - w
      BY <2>1, <2>2 DEF Copy
    <3>2. QED BY <3>1
  <2>3. CASE i < w
    <3>1. Copy(b, w, n, k)[i] = b[i]
      BY <2>1, <2>3 DEF Copy
    <3>2. i \in r..(w - 1)
      BY <2>3
    <3>3. QED BY <3>1, <3>2
  <2>4. QED BY <2>2, <2>3
<1>3. QED BY <1>1, <1>2

(* A larger vector holds the same bytes. *)
LEMMA ResizedHolds ==
  ASSUME NEW b, NEW sz, NEW r, NEW w, NEW g, NEW k, NEW n \in Nat,
         Holds(b, sz, r, w, g, k), sz <= n
  PROVE  Holds(Resized(b, n), n, r, w, g, k)
<1> USE BufferAssumption DEF Holds
<1>1. DOMAIN Resized(b, n) = Cells(n)
  BY DEF Resized
<1>2. ASSUME NEW i \in r..(w - 1) PROVE Resized(b, n)[i] = g + 1 + i - r
  <2>1. i \in DOMAIN b /\ i \in Cells(n)
    BY DEF Cells
  <2>2. Resized(b, n)[i] = b[i]
    BY <2>1 DEF Resized
  <2>3. QED BY <2>2
<1>3. QED BY <1>1, <1>2

(* Compaction keeps the bytes and their order. *)
LEMMA MovedHolds ==
  ASSUME NEW b, NEW sz, NEW r, NEW w, NEW g, NEW k, Holds(b, sz, r, w, g, k)
  PROVE  Holds(Moved(b, r, w), sz, CheapPrepend, CheapPrepend + w - r, g, k)
<1> USE BufferAssumption DEF Holds
<1>1. DOMAIN Moved(b, r, w) = Cells(sz)
  BY DEF Moved
<1>2. ASSUME NEW i \in CheapPrepend..(CheapPrepend + w - r - 1)
      PROVE Moved(b, r, w)[i] = g + 1 + i - CheapPrepend
  <2>1. i \in DOMAIN b
    BY DEF Cells
  <2>2. Moved(b, r, w)[i] = b[i - CheapPrepend + r]
    BY <2>1 DEF Moved
  <2>3. i - CheapPrepend + r \in r..(w - 1)
    OBVIOUS
  <2>4. b[i - CheapPrepend + r] = g + 1 + (i - CheapPrepend + r) - r
    BY <2>3
  <2>5. QED BY <2>2, <2>4
<1>3. CheapPrepend + w - r \in Nat /\ CheapPrepend + w - r <= sz
      /\ CheapPrepend <= CheapPrepend + w - r
  OBVIOUS
<1>4. QED BY <1>1, <1>2, <1>3

(* append, whichever way it makes room. *)
LEMMA AppendHolds ==
  ASSUME NEW b, NEW sz, NEW r, NEW w, NEW g, NEW k, NEW n \in Nat,
         Holds(b, sz, r, w, g, k), append(b, sz, r, w, k, n)
  PROVE  Holds(buffer', size', readerIndex', writerIndex', g, k + n)
<1>0. sz \in Nat /\ r \in Nat /\ w \in Nat /\ CheapPrepend \in Nat /\ r <= w
      /\ w <= sz /\ CheapPrepend <= r
  BY BufferAssumption DEF Holds
<1>1. CASE sz - w >= n
  <2>1. w + n <= sz
    BY <1>0, <1>1
  <2>2. Holds(Copy(b, w, n, k), sz, r, w + n, g, k + n)
    BY <2>1, CopyAppends
  <2>3. buffer' = Copy(b, w, n, k) /\ size' = sz /\ readerIndex' = r
        /\ writerIndex' = w + n
    BY <1>0, <1>1 DEF append
  <2>4. QED BY <2>2, <2>3
<1>2. CASE sz - w < n /\ ~FitsAfterMove(sz - w, r, n)
  <2>1. w + n \in Nat /\ sz <= w + n /\ w + n <= w + n
    BY <1>0, <1>2
  <2>2. Holds(Resized(b, w + n), w + n, r, w, g, k)
    BY <2>1, ResizedHolds
  <2>3. Holds(Copy(Resized(b, w + n), w, n, k), w + n, r, w + n, g, k + n)
    BY <2>1, <2>2, CopyAppends, Zenon
  <2>4. buffer' = Copy(Resized(b, w + n), w, n, k) /\ size' = w + n
        /\ readerIndex' = r /\ writerIndex' = w + n
    BY <1>0, <1>2 DEF append
  <2>5. QED BY <2>3, <2>4
<1>3. CASE sz - w < n /\ FitsAfterMove(sz - w, r, n)
  <2>1. Holds(Moved(b, r, w), sz, CheapPrepend, CheapPrepend + w - r, g, k)
    BY MovedHolds
  <2>2. CheapPrepend + w - r + n <= sz
    BY <1>0, <1>3 DEF FitsAfterMove
  <2>3. Holds(Copy(Moved(b, r, w), CheapPrepend + w - r, n, k), sz, CheapPrepend,
              CheapPrepend + w - r + n, g, k + n)
    BY <2>1, <2>2, CopyAppends
  <2>4. buffer' = Copy(Moved(b, r, w), CheapPrepend + w - r, n, k) /\ size' = sz
        /\ readerIndex' = CheapPrepend /\ writerIndex' = CheapPrepend + w - r + n
    BY <1>0, <1>3 DEF append
  <2>5. QED BY <2>3, <2>4
<1>4. QED BY <1>0, <1>1, <1>2, <1>3

-----------------------------------------------------------------------------
(* A new Buffer holds no byte. *)
LEMMA InvInit == Init => Inv
  BY BufferAssumption DEF Init, Inv, Holds, Cells

(* append keeps the invariant. *)
LEMMA AppendStep ==
  ASSUME NEW n \in 1..MaxBytes, Inv, AppendBytes(n) PROVE Inv'
<1>1. Holds(buffer', size', readerIndex', writerIndex', got, put + n)
  BY AppendHolds DEF Inv, AppendBytes
<1>2. QED BY <1>1 DEF Inv, AppendBytes

(* readFd keeps the invariant, with and without the stack buffer. *)
LEMMA ReadStep ==
  ASSUME NEW n \in 1..MaxBytes, Inv, ReadFd(n) PROVE Inv'
<1>0. size \in Nat /\ writerIndex \in Nat /\ writerIndex <= size /\ put \in Nat
      /\ readerIndex \in Nat
  BY DEF Inv, Holds
<1>1. CASE n <= WritableBytes
  <2>1. writerIndex + n <= size
    BY <1>0, <1>1 DEF WritableBytes
  <2>2. Holds(Copy(buffer, writerIndex, n, put), size, readerIndex, writerIndex + n,
              got, put + n)
    BY <2>1, CopyAppends DEF Inv
  <2>3. buffer' = Copy(buffer, writerIndex, n, put) /\ size' = size
        /\ readerIndex' = readerIndex /\ writerIndex' = writerIndex + n
    BY <1>0, <1>1 DEF ReadFd, WritableBytes
  <2>4. QED BY <2>2, <2>3 DEF Inv, ReadFd
<1>2. CASE n > WritableBytes
  <2> DEFINE first == Copy(buffer, writerIndex, WritableBytes, put)
  <2>1. WritableBytes \in Nat /\ writerIndex + WritableBytes = size
        /\ writerIndex + WritableBytes <= size
        /\ n - WritableBytes \in Nat /\ put + WritableBytes + (n - WritableBytes) = put + n
    BY <1>0, <1>2 DEF WritableBytes
  <2>2. Holds(first, size, readerIndex, writerIndex + WritableBytes, got,
              put + WritableBytes)
    BY <2>1, CopyAppends, Zenon DEF Inv
  <2>3. append(first, size, readerIndex, size, put + WritableBytes, n - WritableBytes)
    BY <1>0, <1>2 DEF ReadFd, WritableBytes
  <2> HIDE DEF first
  <2>4. Holds(buffer', size', readerIndex', writerIndex', got,
              put + WritableBytes + (n - WritableBytes))
    BY <2>1, <2>2, <2>3, AppendHolds
  <2>5. QED BY <2>1, <2>4 DEF Inv, ReadFd
<1>3. QED BY <1>0, <1>1, <1>2 DEF WritableBytes

(* retrieve and retrieveAll keep the invariant. *)
LEMMA RetrieveStep ==
  ASSUME NEW n \in 0..ReadableBytes, Inv, Retrieve(n) PROVE Inv'
<1> USE BufferAssumption DEF Inv, Holds, ReadableBytes
<1>1. CASE n < ReadableBytes
  <2>1. readerIndex' = readerIndex + n /\ writerIndex' = writerIndex
        /\ got' = got + n /\ UNCHANGED <<buffer, size, put>>
    BY <1>1 DEF Retrieve
  <2>2. ASSUME NEW i \in readerIndex'..(writerIndex' - 1)
        PROVE buffer'[i] = got' + 1 + i - readerIndex'
    <3>1. i \in readerIndex..(writerIndex - 1)
      BY <2>1
    <3>2. buffer[i] = got + 1 + i - readerIndex
      BY <3>1
    <3>3. QED BY <2>1, <3>2
  <2>3. QED BY <1>1, <2>1, <2>2
<1>2. CASE n = ReadableBytes
  <2>1. readerIndex' = CheapPrepend /\ writerIndex' = CheapPrepend
        /\ got' = got + n /\ UNCHANGED <<buffer, size, put>>
    BY <1>2 DEF Retrieve
  <2>2. QED BY <1>2, <2>1
<1>3. QED BY <1>1, <1>2

(* Every operation of Buffer keeps the invariant. *)
LEMMA InvStep == Inv /\ [Next]_vars => Inv'
<1> SUFFICES ASSUME Inv, [Next]_vars PROVE Inv'
  OBVIOUS
<1>1. ASSUME NEW n \in 1..MaxBytes, AppendBytes(n) \/ ReadFd(n) PROVE Inv'
  BY <1>1, AppendStep, ReadStep
<1>2. ASSUME NEW n \in 0..ReadableBytes, Retrieve(n) PROVE Inv'
  BY <1>2, RetrieveStep
<1>3. CASE UNCHANGED vars
  BY <1>3 DEF vars, Inv, Holds
<1>4. QED BY <1>1, <1>2, <1>3 DEF Next

(* For buffers of any size, no sequence of appends, reads and retrieves    *)
(* moves an index out of the vector.                                       *)
THEOREM IndexesStayInRange == Spec => []IndexesInRange
<1>1. Spec => []Inv
  BY InvInit, InvStep, PTL DEF Spec
<1>2. QED BY <1>1, InvProperties, PTL

(* For buffers of any size, what is readable is what was put in and not    *)
(* taken out, in order, through every growth and compaction.               *)
THEOREM NoByteLost == Spec => []ReadableIsUnread
<1>1. Spec => []Inv
  BY InvInit, InvStep, PTL DEF Spec
<1>2. QED BY <1>1, InvProperties, PTL

-----------------------------------------------------------------------------
(* The refinement of ByteQueue: what peek shows is the run of bytes        *)
(* got+1 .. put.                                                           *)

(* The bytes g+1 .. k in order. *)
Run(g, k) == [i \in 1..(k - g) |-> g + i]

View == [i \in 1..ReadableBytes |-> buffer[readerIndex + i - 1]]

(* A run of bytes is a sequence. *)
LEMMA RunIsSeq ==
  ASSUME NEW g \in Nat, NEW k \in Nat, g <= k
  PROVE  Run(g, k) \in Seq(Nat) /\ Len(Run(g, k)) = k - g
         /\ \A i \in 1..(k - g) : Run(g, k)[i] = g + i
  BY DEF Run

(* The run up to k and the n bytes after k are the run up to k + n. *)
LEMMA RunConcat ==
  ASSUME NEW g \in Nat, NEW k \in Nat, NEW n \in Nat, g <= k
  PROVE  Run(g, k) \o [i \in 1..n |-> k + i] = Run(g, k + n)
<1> DEFINE t == [i \in 1..n |-> k + i]
<1>1. t \in Seq(Nat) /\ Len(t) = n /\ \A i \in 1..n : t[i] = k + i
  OBVIOUS
<1>2. Run(g, k) \in Seq(Nat) /\ Len(Run(g, k)) = k - g
      /\ \A i \in 1..(k - g) : Run(g, k)[i] = g + i
  BY RunIsSeq
<1>3. Run(g, k + n) \in Seq(Nat) /\ Len(Run(g, k + n)) = (k + n) - g
      /\ \A i \in 1..((k + n) - g) : Run(g, k + n)[i] = g + i
  <2>1. k + n \in Nat /\ g <= k + n
    OBVIOUS
  <2>2. QED BY <2>1, RunIsSeq
<1> HIDE DEF t
<1>4. /\ Run(g, k) \o t \in Seq(Nat)
      /\ Len(Run(g, k) \o t) = (k - g) + n
      /\ \A i \in 1..((k - g) + n) : (Run(g, k) \o t)[i] =
            IF i <= k - g THEN Run(g, k)[i] ELSE t[i - (k - g)]
  <2>1. /\ Run(g, k) \o t \in Seq(Nat)
        /\ Len(Run(g, k) \o t) = Len(Run(g, k)) + Len(t)
        /\ \A i \in 1..(Len(Run(g, k)) + Len(t)) : (Run(g, k) \o t)[i] =
              IF i <= Len(Run(g, k)) THEN Run(g, k)[i] ELSE t[i - Len(Run(g, k))]
    BY <1>1, <1>2, ConcatProperties
  <2>2. QED BY <1>1, <1>2, <2>1
<1>5. ASSUME NEW i \in 1..Len(Run(g, k) \o t)
      PROVE (Run(g, k) \o t)[i] = Run(g, k + n)[i]
  <2>1. i \in 1..((k - g) + n) /\ i \in 1..((k + n) - g) /\ i \in Nat
    BY <1>4
  <2>2. Run(g, k + n)[i] = g + i
    BY <1>3, <2>1
  <2>3. CASE i <= k - g
    BY <1>2, <1>4, <2>1, <2>2, <2>3
  <2>4. CASE ~(i <= k - g)
    <3>1. i - (k - g) \in 1..n /\ k + (i - (k - g)) = g + i
      BY <2>1, <2>4
    <3>2. t[i - (k - g)] = k + (i - (k - g))
      BY <1>1, <3>1
    <3>3. QED BY <1>4, <2>1, <2>2, <2>4, <3>1, <3>2
  <2>5. QED BY <2>3, <2>4
<1>6. Len(Run(g, k) \o t) = Len(Run(g, k + n))
  BY <1>3, <1>4
<1>7. Run(g, k) \o t = Run(g, k + n)
  BY <1>3, <1>4, <1>5, <1>6, SeqEqual
<1>8. QED BY <1>7 DEF t

(* A run without its first n bytes is the run after them. *)
LEMMA RunSuffix ==
  ASSUME NEW g \in Nat, NEW k \in Nat, g <= k, NEW n \in 0..(k - g)
  PROVE  SubSeq(Run(g, k), n + 1, k - g) = Run(g + n, k)
<1>1. Run(g, k) \in Seq(Nat) /\ Len(Run(g, k)) = k - g
      /\ \A i \in 1..(k - g) : Run(g, k)[i] = g + i
  BY RunIsSeq
<1>2. n \in Nat /\ g + n \in Nat /\ g + n <= k
  OBVIOUS
<1>3. Run(g + n, k) \in Seq(Nat) /\ Len(Run(g + n, k)) = k - (g + n)
      /\ \A i \in 1..(k - (g + n)) : Run(g + n, k)[i] = (g + n) + i
  BY <1>2, RunIsSeq
<1>4. \A i \in (n + 1)..(k - g) : Run(g, k)[i] \in Nat
  BY <1>1, <1>2
<1> DEFINE s == SubSeq(Run(g, k), n + 1, k - g)
<1>5. /\ s \in Seq(Nat)
      /\ Len(s) = IF n + 1 <= k - g THEN (k - g) - (n + 1) + 1 ELSE 0
      /\ \A i \in 1..((k - g) - (n + 1) + 1) : s[i] = Run(g, k)[(n + 1) + i - 1]
  <2>1. n + 1 \in Int /\ k - g \in Int
    BY <1>2
  <2>2. QED BY <1>4, <2>1, SubSeqProperties
<1> HIDE DEF s
<1>6. Len(s) = k - (g + n)
  BY <1>2, <1>5
<1>7. ASSUME NEW i \in 1..Len(s) PROVE s[i] = Run(g + n, k)[i]
  <2>1. /\ i \in 1..((k - g) - (n + 1) + 1) /\ (n + 1) + i - 1 \in 1..(k - g)
        /\ i \in 1..(k - (g + n))
    BY <1>2, <1>6
  <2>2. s[i] = g + ((n + 1) + i - 1)
    BY <1>1, <1>5, <2>1
  <2>3. QED BY <1>2, <1>3, <2>1, <2>2
<1>8. s = Run(g + n, k)
  BY <1>3, <1>5, <1>6, <1>7, SeqEqual
<1>9. QED BY <1>8 DEF s

(* The invariant in terms of the bytes that peek shows. *)
LEMMA InvView == Inv => View = Run(got, put) /\ got \in Nat /\ put \in Nat /\ got <= put
                        /\ ReadableBytes = put - got
<1> SUFFICES ASSUME Inv
             PROVE View = Run(got, put) /\ got \in Nat /\ put \in Nat /\ got <= put
                   /\ ReadableBytes = put - got
  OBVIOUS
<1>1. /\ got \in Nat /\ put \in Nat /\ got <= put
      /\ readerIndex \in Nat /\ writerIndex \in Nat
      /\ writerIndex - readerIndex = put - got
      /\ \A i \in readerIndex..(writerIndex - 1) : buffer[i] = got + 1 + i - readerIndex
  BY BufferAssumption DEF Inv, Holds
<1>2. ReadableBytes = put - got
  BY <1>1 DEF ReadableBytes
<1>3. ASSUME NEW i \in 1..(put - got) PROVE buffer[readerIndex + i - 1] = got + i
  <2>1. readerIndex + i - 1 \in readerIndex..(writerIndex - 1)
    BY <1>1
  <2>2. buffer[readerIndex + i - 1] = got + 1 + (readerIndex + i - 1) - readerIndex
    BY <1>1, <2>1
  <2>3. QED BY <1>1, <2>2
<1>4. View = Run(got, put)
  BY <1>2, <1>3 DEF View, Run
<1>5. QED BY <1>1, <1>2, <1>4

(* The same after a step. *)
LEMMA NextView == Inv' => View' = Run(got', put')
<1>1. Inv => View = Run(got, put)
  BY InvView
<1>2. Inv' => (View = Run(got, put))'
  BY <1>1, PTL
<1>3. QED BY <1>2

(* append and readFd put the bytes behind those that are inside. *)
LEMMA PutStep ==
  ASSUME NEW n \in 1..MaxBytes, Inv, AppendBytes(n) \/ ReadFd(n)
  PROVE  Queue!Put(n)
<1>1. Inv'
  BY AppendStep, ReadStep
<1>2. put' = put + n /\ got' = got /\ put + n <= MaxBytes
  BY DEF AppendBytes, ReadFd
<1>3. View = Run(got, put) /\ got \in Nat /\ put \in Nat /\ got <= put
  BY InvView
<1>4. View' = Run(got', put')
  BY <1>1, NextView
<1>5. Run(got, put) \o [i \in 1..n |-> put + i] = Run(got, put + n)
  <2>1. n \in Nat
    BY BufferAssumption
  <2>2. QED BY <1>3, <2>1, RunConcat
<1>6. View' = View \o [i \in 1..n |-> put + i]
  BY <1>2, <1>3, <1>4, <1>5
<1>7. QED BY <1>2, <1>6 DEF View, Queue!Put

(* retrieve takes the oldest bytes out. *)
LEMMA GetStep ==
  ASSUME NEW n \in 0..ReadableBytes, Inv, Retrieve(n)
  PROVE  [Queue!Next]_(Queue!vars)
<1>1. Inv'
  BY RetrieveStep
<1>2. put' = put /\ got' = got + n
  BY DEF Retrieve
<1>3. View = Run(got, put) /\ got \in Nat /\ put \in Nat /\ got <= put
      /\ ReadableBytes = put - got
  BY InvView
<1>4. View' = Run(got + n, put)
  BY <1>1, <1>2, NextView
<1>5. n \in 0..(put - got)
  BY <1>3
<1>6. SubSeq(View, n + 1, put - got) = Run(got + n, put)
  BY <1>3, <1>5, RunSuffix
<1>7. Len(View) = put - got
  BY <1>3, RunIsSeq
<1>8. Queue!Get(n)
  BY <1>2, <1>4, <1>6, <1>7 DEF View, Queue!Get
<1>9. CASE n = 0
  <2>1. View' = View
    BY <1>3, <1>4, <1>9
  <2>2. QED BY <1>2, <2>1 DEF View, Queue!vars
<1>10. CASE n \in 1..Len(View)
  BY <1>8, <1>10 DEF View, Queue!Next
<1>11. QED BY <1>3, <1>5, <1>7, <1>9, <1>10

(* For buffers of any size, the vector with its two indexes, its growth,   *)
(* its compaction and its scattered reads is a queue of bytes.             *)
THEOREM BufferIsByteQueue == Spec => ImplementsByteQueue
<1>1. Init => Queue!Init
  <2> SUFFICES ASSUME Init PROVE Queue!Init
    OBVIOUS
  <2>1. ReadableBytes = 0 /\ put = 0
    BY BufferAssumption DEF Init, ReadableBytes
  <2>2. View = <<>>
    BY <2>1 DEF View
  <2>3. QED BY <2>1, <2>2 DEF View, Queue!Init
<1>2. Inv /\ [Next]_vars => [Queue!Next]_(Queue!vars)
  <2> SUFFICES ASSUME Inv, [Next]_vars PROVE [Queue!Next]_(Queue!vars)
    OBVIOUS
  <2>1. ASSUME NEW n \in 1..MaxBytes, AppendBytes(n) \/ ReadFd(n) PROVE Queue!Next
    BY <2>1, PutStep DEF Queue!Next
  <2>2. ASSUME NEW n \in 0..ReadableBytes, Retrieve(n)
        PROVE [Queue!Next]_(Queue!vars)
    BY <2>2, GetStep
  <2>3. CASE UNCHANGED vars
    BY <2>3 DEF vars, Queue!vars, ReadableBytes
  <2>4. QED BY <2>1, <2>2, <2>3 DEF Next
<1>3. QED
  BY <1>1, <1>2, InvInit, InvStep, PTL DEF Spec, ImplementsByteQueue, Queue!Spec
=============================================================================
