------------------------------- MODULE Buffer -------------------------------
(***************************************************************************)
(* The input and output buffer of a TcpConnection (src/include/Buffer.hpp, *)
(* src/src/Buffer.cpp): a vector with a reader and a writer index, grown   *)
(* or compacted when something does not fit.  One thread uses it.          *)
(*                                                                         *)
(* buffer is the vector as a function from its indexes to bytes; a byte is *)
(* the number of its arrival, 0 in a cell nothing was ever written to.     *)
(* The sizes are parameters: 8, 1024 and 65536 in the code.                *)
(***************************************************************************)
EXTENDS Integers

CONSTANTS CheapPrepend, \* CHEAP_PREPEND
          InitSize,     \* INIT_SIZE
          ExtraSize,    \* sizeof(extrabuf) in readFd
          MaxBytes      \* bound: bytes ever put in

ASSUME BufferAssumption == /\ CheapPrepend \in Nat
                           /\ InitSize \in Nat
                           /\ ExtraSize \in Nat
                           /\ MaxBytes \in Nat

VARIABLES buffer,       \* the cells of buffer_
          size,         \* buffer_.size()
          readerIndex,  \* readerIndex_
          writerIndex,  \* writerIndex_
          put, got      \* history: bytes put in and taken out

vars == <<buffer, size, readerIndex, writerIndex, put, got>>

Cells(n) == 0..(n - 1)

Init == /\ size = CheapPrepend + InitSize
        /\ buffer = [i \in Cells(CheapPrepend + InitSize) |-> 0]
        /\ readerIndex = CheapPrepend
        /\ writerIndex = CheapPrepend
        /\ put = 0
        /\ got = 0

ReadableBytes == writerIndex - readerIndex
WritableBytes == size - writerIndex

(* Cells w, w+1, ... of b receive the n bytes that follow byte k. *)
Copy(b, w, n, k) == [i \in DOMAIN b |-> IF i \in w..(w + n - 1) THEN k + 1 + i - w ELSE b[i]]

(* Mutant: the reserved prefix is counted as free. *)
FitsWithoutPrepend(writable, reader, len) == writable + reader >= len

(* makeSpace: moving the data to the front makes enough room. *)
FitsAfterMove(writable, reader, len) == writable + reader >= len + CheapPrepend

(* vector::resize to a larger size: the new cells are zero. *)
Resized(b, n) == [i \in Cells(n) |-> IF i \in DOMAIN b THEN b[i] ELSE 0]

(* Mutant: the indexes are moved and the bytes are not. *)
NotMoved(b, r, w) == b

(* std::copy of the readable bytes to the front. *)
Moved(b, r, w) == [i \in DOMAIN b |->
                      IF i \in CheapPrepend..(CheapPrepend + w - r - 1)
                      THEN b[i - CheapPrepend + r] ELSE b[i]]

(* append of len bytes to the buffer <<b, sz, r, w>> whose last byte is k: *)
(* ensureWritableBytes, makeSpace and the copy.                            *)
append(b, sz, r, w, k, len) ==
    \/ /\ sz - w >= len
       /\ buffer' = Copy(b, w, len, k)
       /\ size' = sz
       /\ readerIndex' = r
       /\ writerIndex' = w + len
    \/ /\ sz - w < len
       /\ ~FitsAfterMove(sz - w, r, len)
       /\ buffer' = Copy(Resized(b, w + len), w, len, k)
       /\ size' = w + len
       /\ readerIndex' = r
       /\ writerIndex' = w + len
    \/ /\ sz - w < len
       /\ FitsAfterMove(sz - w, r, len)
       /\ buffer' = Copy(Moved(b, r, w), CheapPrepend + w - r, len, k)
       /\ size' = sz
       /\ readerIndex' = CheapPrepend
       /\ writerIndex' = CheapPrepend + w - r + len

(* The user of the buffer appends len bytes. *)
AppendBytes(len) == /\ put + len <= MaxBytes
                    /\ append(buffer, size, readerIndex, writerIndex, put, len)
                    /\ put' = put + len
                    /\ UNCHANGED got

(* readFd when readv returns n >= 0: the first bytes go to the writable    *)
(* part, the others to extrabuf, which is used only if it is the larger    *)
(* one, and are appended from there.                                       *)
ReadFd(n) ==
    /\ put + n <= MaxBytes
    /\ n <= WritableBytes + (IF WritableBytes < ExtraSize THEN ExtraSize ELSE 0)
    /\ put' = put + n
    /\ UNCHANGED got
    /\ \/ /\ n <= WritableBytes
          /\ buffer' = Copy(buffer, writerIndex, n, put)
          /\ writerIndex' = writerIndex + n
          /\ UNCHANGED <<size, readerIndex>>
       \/ /\ n > WritableBytes
          /\ append(Copy(buffer, writerIndex, WritableBytes, put), size,
                    readerIndex, size, put + WritableBytes, n - WritableBytes)

(* Mutant: the last byte cannot be left in the buffer. *)
RetrieveOneMore(len) ==
    /\ IF len + 1 < ReadableBytes
       THEN readerIndex' = readerIndex + len /\ UNCHANGED writerIndex
       ELSE readerIndex' = CheapPrepend /\ writerIndex' = CheapPrepend
    /\ got' = got + len
    /\ UNCHANGED <<buffer, size, put>>

(* retrieve; with everything readable it is retrieveAll, and               *)
(* retrieveAsString is a copy of the first len bytes followed by it.       *)
Retrieve(len) ==
    /\ IF len < ReadableBytes
       THEN readerIndex' = readerIndex + len /\ UNCHANGED writerIndex
       ELSE readerIndex' = CheapPrepend /\ writerIndex' = CheapPrepend
    /\ got' = got + len
    /\ UNCHANGED <<buffer, size, put>>

(* handleWrite retrieves what writeFd wrote, the user what is readable. *)
Next == \/ \E len \in 1..MaxBytes : AppendBytes(len) \/ ReadFd(len)
        \/ \E len \in 0..ReadableBytes : Retrieve(len)

Spec == Init /\ [][Next]_vars

-----------------------------------------------------------------------------
(* The indexes stay ordered and inside the vector, behind the reserved     *)
(* prefix, through every growth, compaction and read: peek and beginWrite  *)
(* never leave the vector.                                                 *)
IndexesInRange == /\ size \in Nat
                  /\ readerIndex \in CheapPrepend..writerIndex
                  /\ writerIndex \in CheapPrepend..size
                  /\ DOMAIN buffer = Cells(size)

(* What is readable is exactly what was put in and not yet taken out, in   *)
(* order.                                                                  *)
ReadableIsUnread ==
    /\ ReadableBytes = put - got
    /\ \A i \in 0..(ReadableBytes - 1) : buffer[readerIndex + i] = got + 1 + i

(* The buffer is a queue of bytes: what peek shows is what is inside. *)
Queue == INSTANCE ByteQueue WITH
            inside <- [i \in 1..ReadableBytes |-> buffer[readerIndex + i - 1]]

ImplementsByteQueue == Queue!Spec
=============================================================================
