--------------------------- MODULE RollingBuffer ----------------------------
(***************************************************************************)
(* The input buffer of a TcpConnection: a contiguous vector of bytes with  *)
(* a read and a write index.  A buffer is a record                         *)
(*   cells  the bytes, [0 .. size-1 -> byte]                               *)
(*   size   buffer_.size()                                                 *)
(*   read   read_pos_                                                      *)
(*   write  write_pos_                                                     *)
(*   gen    the number of reallocations so far: it names the storage a     *)
(*          borrowed pointer points into                                   *)
(* A byte is represented by its offset in the stream the client sends, so  *)
(* what matters about a byte (which request it belongs to, and where in    *)
(* it) is a fact about a number, and moving bytes is modelled as moving    *)
(* them.                                                                   *)
(***************************************************************************)
EXTENDS Integers

CONSTANTS
  BufferSize,   \* BUFFER_SIZE, the initial size
  LowWater      \* the free space below which read_more() compacts (4096)

ASSUME BufferAssumption ==
  /\ BufferSize \in Nat \ {0}
  /\ LowWater \in Nat \ {0}

Blank == -1     \* a byte the client never sent (the vector's initial zeros)

\* What a buffer is: the indices lie inside it, in order.
IsBuffer(b) ==
  /\ b = [cells |-> b.cells, size |-> b.size, read |-> b.read,
          write |-> b.write, gen |-> b.gen]
  /\ b.size \in Nat /\ b.gen \in Nat
  /\ b.cells \in [0 .. b.size - 1 -> Int]
  /\ b.write \in 0 .. b.size
  /\ b.read \in 0 .. b.write

NewBuffer ==
  [cells |-> [a \in 0 .. BufferSize - 1 |-> Blank],
   size |-> BufferSize, read |-> 0, write |-> 0, gen |-> 0]

\* unconsumed.size(), and the k-th byte of the view.
Unconsumed(b) == b.write - b.read
ByteAt(b, k)  == b.cells[b.read + k]

\* Mutant: the indices are moved to the front and the bytes are not.
CompactIndicesOnly(b) ==
  IF b.read > 0 /\ b.size - b.write < LowWater
  THEN [b EXCEPT !.read = 0, !.write = Unconsumed(b)]
  ELSE b

\* The first half of read_more(): when little room is left behind the write
\* index, the unconsumed bytes are moved to the front of the same storage.
Compact(b) ==
  IF b.read > 0 /\ b.size - b.write < LowWater
  THEN [b EXCEPT
          !.cells = [a \in 0 .. b.size - 1 |->
                       IF a < Unconsumed(b) THEN b.cells[b.read + a]
                                            ELSE b.cells[a]],
          !.read  = 0,
          !.write = Unconsumed(b)]
  ELSE b

\* Mutant: resizes when room is low, not only when there is none.
GrowEarly(b) ==
  IF b.size - b.write < LowWater
  THEN [b EXCEPT
          !.cells = [a \in 0 .. 2 * b.size - 1 |->
                       IF a < b.size THEN b.cells[a] ELSE Blank],
          !.size  = 2 * b.size,
          !.gen   = b.gen + 1]
  ELSE b

\* buffer_.resize(buffer_.size() * 2) when no room is left.  The capacity is
\* exactly the size, so resizing always moves to new storage.
Grow(b) ==
  IF b.size = b.write
  THEN [b EXCEPT
          !.cells = [a \in 0 .. 2 * b.size - 1 |->
                       IF a < b.size THEN b.cells[a] ELSE Blank],
          !.size  = 2 * b.size,
          !.gen   = b.gen + 1]
  ELSE b

MakeRoom(b) == Grow(Compact(b))

\* The kernel stores n bytes of the stream, from offset first on, at index at.
Store(b, at, n, first) ==
  [b EXCEPT !.cells = [a \in 0 .. b.size - 1 |->
                         IF a >= at /\ a < at + n THEN first + (a - at)
                                                  ELSE b.cells[a]]]

\* Mutants: only the write index returns to the start; all bytes are dropped.
ConsumeKeepsRead(b, n) ==
  IF b.read + n = b.write THEN [b EXCEPT !.read = b.read + n, !.write = 0]
                          ELSE [b EXCEPT !.read = b.read + n]
ConsumeAll(b, n) == [b EXCEPT !.read = 0, !.write = 0]

\* read_pos_ += n, and both indices return to the start once all is consumed.
Consume(b, n) ==
  IF b.read + n = b.write THEN [b EXCEPT !.read = 0, !.write = 0]
                          ELSE [b EXCEPT !.read = b.read + n]
=============================================================================
