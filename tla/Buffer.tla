-------------------------------- MODULE Buffer --------------------------------
(***************************************************************************)
(* The class Buffer (buffer.h, buffer.cpp): a std::vector whose size() and *)
(* capacity() both matter, and two indexes into it. The write functions    *)
(* append at size(); readFromFd() stores past size(), at write_index_.     *)
(*                                                                         *)
(* The program uses a Buffer in two ways: as the output buffer or a reply  *)
(* being built (append, then take or write to a descriptor), and as        *)
(* TcpConnection::input_buffer_ (readFromFd, then take). `usage` says      *)
(* which one this Buffer is.                                               *)
(*                                                                         *)
(* Byte number k of all that was ever stored is the number k; a cell never *)
(* written holds Garbage.                                                  *)
(***************************************************************************)
EXTENDS Integers

CONSTANTS
  Initial,    \* bytes the constructor reserves: 4096
  Extra,      \* bytes of readFromFd's second iovec: 65536
  MaxBytes,   \* bound on the bytes stored in one run
  Usages      \* the usages considered

Garbage == 0

ASSUME BufferAssumption ==
  /\ Initial \in Nat /\ Extra \in Nat /\ MaxBytes \in Nat
  /\ Usages \subseteq {"output", "input"}

VARIABLES
  usage,        \* "output" or "input"
  cells,        \* the vector's storage: cells[1 .. capacity]
  capacity,     \* data_.capacity()
  size,         \* data_.size()
  readIndex,    \* read_index_
  writeIndex    \* write_index_

vars == <<usage, cells, capacity, size, readIndex, writeIndex>>

-----------------------------------------------------------------------------
ReadableBytes == writeIndex - readIndex
WritableBytes == capacity - writeIndex

\* The capacity after ensureWritable(len), when the write index is w and the capacity c.
\* (Mutant: grows by what is missing less one.)
CapacityForShort(c, w, len) == IF c - w < len THEN w + len - 1 ELSE c
CapacityFor(c, w, len) == IF c - w < len THEN c + len ELSE c

\* std::vector::reserve() to n: only the size() elements move to the new storage.
Reallocated(n) == [i \in 1 .. n |-> IF i <= size THEN cells[i] ELSE Garbage]
Reserved(n) == IF n > capacity THEN Reallocated(n) ELSE cells

\* data_.insert(data_.end(), ...) of the len bytes that follow byte number b.
Inserted(storage, b, len) ==
  [i \in DOMAIN storage |-> IF i \in size + 1 .. size + len THEN b + i - size
                            ELSE storage[i]]

\* writeUint8 ... writeBytes, writeString, append: one body, with the length of the value.
Append(len) ==
  LET n == CapacityFor(capacity, writeIndex, len) IN
    /\ usage = "output"
    /\ writeIndex + len <= MaxBytes
    /\ capacity' = n
    /\ cells' = Inserted(Reserved(n), writeIndex, len)
    /\ size' = size + len
    /\ writeIndex' = writeIndex + len
    /\ UNCHANGED <<usage, readIndex>>

\* Where readv stores: behind the byte that write_index_ counts, whatever size() is.
\* (Mutant: behind the vector's last element.)
BeginWriteAtSize == size
BeginWrite == writeIndex

\* readv returned n bytes that fit behind write_index_: the vector's size() stays.
ReadFits(n) ==
  /\ usage = "input"
  /\ n <= WritableBytes
  /\ writeIndex + n <= MaxBytes
  /\ cells' = [i \in 1 .. capacity |->
                 IF i \in BeginWrite + 1 .. BeginWrite + n THEN writeIndex + i - BeginWrite
                 ELSE cells[i]]
  /\ writeIndex' = writeIndex + n
  /\ UNCHANGED <<usage, capacity, size, readIndex>>

\* readv filled the storage and put len bytes on the stack. write_index_ becomes the
\* capacity, and writeBytes() of the rest reserves (which moves only size() elements)
\* and inserts at size().
ReadSpills(len) ==
  /\ usage = "input"
  /\ WritableBytes < Extra /\ len <= Extra
  /\ capacity + len <= MaxBytes
  /\ capacity' = CapacityFor(capacity, capacity, len)
  /\ cells' = Inserted(Reallocated(CapacityFor(capacity, capacity, len)), capacity, len)
  /\ size' = size + len
  /\ writeIndex' = capacity + len
  /\ UNCHANGED <<usage, readIndex>>

\* readUint8 ... readString, retrieve, skip, and writeToFd, which checks nothing because
\* write(2) is given readableBytes().
\* (Mutant: a read function without its test of readableBytes().)
TakeUnchecked(n) ==
  /\ readIndex' = readIndex + n
  /\ UNCHANGED <<usage, cells, capacity, size, writeIndex>>
Take(n) ==
  /\ n <= ReadableBytes
  /\ readIndex' = readIndex + n
  /\ UNCHANGED <<usage, cells, capacity, size, writeIndex>>

Init ==
  /\ usage \in Usages
  /\ cells = [i \in 1 .. Initial |-> Garbage]
  /\ capacity = Initial
  /\ size = 0
  /\ readIndex = 0
  /\ writeIndex = 0

Next == \E n \in 1 .. MaxBytes : Append(n) \/ ReadFits(n) \/ ReadSpills(n) \/ Take(n)

Spec == Init /\ [][Next]_vars

-----------------------------------------------------------------------------
(* Properties *)

\* Size and indexes stay within the allocation, which has a cell for each byte.
TypeOK ==
  /\ usage \in {"output", "input"}
  /\ capacity \in Nat
  /\ size \in 0 .. capacity /\ readIndex \in 0 .. capacity /\ writeIndex \in 0 .. capacity
  /\ cells \in [1 .. capacity -> Nat]

\* peek() and the read functions stay inside the vector's allocation, also when the two
\* ways of storing disagree on where the data ends.
IndexesInBounds == readIndex <= writeIndex /\ writeIndex <= capacity /\ size <= writeIndex

\* What peek() shows is what was stored, in the order it was stored.
UnreadIntact == \A i \in readIndex + 1 .. writeIndex : cells[i] = i

\* A reply, and an output buffer, keep their bytes through every growth; an input buffer
\* keeps them for the first Initial bytes of its connection.
FirstBytesIntact == (usage = "output" \/ writeIndex <= Initial) => UnreadIntact

=============================================================================
