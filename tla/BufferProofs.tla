----------------------------- MODULE BufferProofs -----------------------------
(***************************************************************************)
(* The invariants of module Buffer for every initial capacity, every size  *)
(* of the second iovec and every number of bytes.                          *)
(*                                                                         *)
(* FirstBytesIntact speaks of the unread bytes. It is inductive once it    *)
(* speaks of all the bytes stored, and once it is known that the elements  *)
(* of an output vector are all its bytes (so that a reallocation moves     *)
(* them) and that the capacity never shrinks below the initial one (so     *)
(* that a spill leaves the range the property is about).                   *)
(***************************************************************************)
EXTENDS Buffer, TLAPS

StoredIntact == \A i \in 1 .. writeIndex : cells[i] = i

IInv ==
  /\ TypeOK
  /\ IndexesInBounds
  /\ capacity >= Initial
  /\ usage = "output" => size = writeIndex
  /\ (usage = "output" \/ writeIndex <= Initial) => StoredIntact

\* The capacity after ensureWritable(len) has room for len bytes, and is not smaller.
LEMMA CapacityForGrows ==
  ASSUME NEW c \in Nat, NEW w \in 0 .. c, NEW len \in Nat
  PROVE  /\ CapacityFor(c, w, len) \in Nat
         /\ CapacityFor(c, w, len) >= w + len
         /\ CapacityFor(c, w, len) >= c
  BY DEF CapacityFor

\* Reserving storage keeps every cell it had, or at least the elements.
LEMMA ReservedKeepsElements ==
  ASSUME TypeOK, size <= capacity, NEW n \in Nat, n >= capacity
  PROVE  /\ Reserved(n) \in [1 .. n -> Nat]
         /\ \A i \in 1 .. size : Reserved(n)[i] = cells[i]
  <1>1. CASE n > capacity
    BY <1>1 DEF Reserved, Reallocated, TypeOK, Garbage
  <1>2. CASE n = capacity
    BY <1>2 DEF Reserved, TypeOK
  <1> QED
    BY <1>1, <1>2 DEF TypeOK

\* An empty buffer satisfies the invariant.
LEMMA InitIInv == Init => IInv
  BY BufferAssumption
     DEF Init, IInv, TypeOK, IndexesInBounds, StoredIntact, Garbage

LEMMA AppendIInv ==
  ASSUME IInv, NEW len \in 1 .. MaxBytes, Append(len)
  PROVE  IInv'
  <1> DEFINE n == CapacityFor(capacity, writeIndex, len)
  <1>1. /\ usage = "output" /\ usage' = usage
        /\ capacity' = n /\ cells' = Inserted(Reserved(n), writeIndex, len)
        /\ size' = size + len /\ writeIndex' = writeIndex + len /\ readIndex' = readIndex
    BY DEF Append
  <1>2. /\ TypeOK /\ readIndex <= writeIndex /\ writeIndex <= capacity
        /\ size = writeIndex /\ StoredIntact /\ capacity >= Initial
    BY <1>1 DEF IInv, IndexesInBounds
  <1>3. len \in Nat /\ len >= 1
    BY BufferAssumption
  <1>4. n \in Nat /\ n >= writeIndex + len /\ n >= capacity
    <2>1. capacity \in Nat /\ writeIndex \in 0 .. capacity
      BY <1>2 DEF TypeOK
    <2> QED
      BY <2>1, <1>3, CapacityForGrows
  <1>5. /\ Reserved(n) \in [1 .. n -> Nat]
        /\ \A i \in 1 .. size : Reserved(n)[i] = cells[i]
    BY <1>2, <1>4, ReservedKeepsElements
  <1> HIDE DEF n
  <1>6. cells' = [i \in 1 .. n |-> IF i \in size + 1 .. size + len THEN writeIndex + i - size
                                   ELSE Reserved(n)[i]]
    BY <1>1, <1>5 DEF Inserted
  <1>7. TypeOK'
    BY <1>1, <1>2, <1>3, <1>4, <1>5, <1>6 DEF TypeOK
  <1>8. IndexesInBounds'
    BY <1>1, <1>2, <1>3, <1>4 DEF IndexesInBounds, TypeOK
  <1>9. StoredIntact'
    BY <1>1, <1>2, <1>3, <1>4, <1>5, <1>6 DEF StoredIntact, TypeOK
  <1>10. capacity' >= Initial /\ size' = writeIndex'
    BY <1>1, <1>2, <1>3, <1>4, BufferAssumption DEF TypeOK
  <1> QED
    BY <1>7, <1>8, <1>9, <1>10 DEF IInv

LEMMA ReadFitsIInv ==
  ASSUME IInv, NEW n \in 1 .. MaxBytes, ReadFits(n)
  PROVE  IInv'
  <1>1. n \in Nat /\ n >= 1
    BY BufferAssumption
  <1>2. TypeOK'
    BY <1>1 DEF ReadFits, BeginWrite, IInv, TypeOK, IndexesInBounds, WritableBytes
  <1>3. IndexesInBounds' /\ capacity' >= Initial /\ usage' # "output"
    BY <1>1 DEF ReadFits, BeginWrite, IInv, TypeOK, IndexesInBounds, WritableBytes
  <1>4. ASSUME writeIndex' <= Initial  PROVE StoredIntact'
    BY <1>1, <1>4, BufferAssumption
       DEF ReadFits, BeginWrite, IInv, TypeOK, IndexesInBounds, WritableBytes, StoredIntact
  <1> QED
    BY <1>2, <1>3, <1>4 DEF IInv

LEMMA ReadSpillsIInv ==
  ASSUME IInv, NEW len \in 1 .. MaxBytes, ReadSpills(len)
  PROVE  IInv'
  <1>1. len \in Nat /\ len >= 1
    BY BufferAssumption
  <1>2. /\ TypeOK /\ size <= capacity /\ size <= writeIndex /\ readIndex <= writeIndex
        /\ writeIndex <= capacity /\ capacity >= Initial
    BY DEF IInv, IndexesInBounds, TypeOK
  <1>3. CapacityFor(capacity, capacity, len) = capacity + len
    BY <1>1, <1>2 DEF CapacityFor, TypeOK
  <1>4. /\ usage' = usage /\ usage = "input" /\ capacity' = capacity + len
        /\ size' = size + len /\ writeIndex' = capacity + len /\ readIndex' = readIndex
        /\ cells' = Inserted(Reallocated(capacity + len), capacity, len)
    BY <1>3 DEF ReadSpills
  <1>5. Reallocated(capacity + len) \in [1 .. capacity + len -> Nat]
    BY <1>1, <1>2 DEF Reallocated, TypeOK, Garbage
  <1>6. cells' \in [1 .. capacity + len -> Nat]
    BY <1>1, <1>2, <1>4, <1>5 DEF Inserted, TypeOK
  <1>7. TypeOK'
    BY <1>1, <1>2, <1>4, <1>6 DEF TypeOK
  <1>8. IndexesInBounds' /\ capacity' >= Initial /\ writeIndex' > Initial
    BY <1>1, <1>2, <1>4, BufferAssumption DEF IndexesInBounds, TypeOK
  <1> QED
    BY <1>4, <1>7, <1>8, BufferAssumption DEF IInv, TypeOK

LEMMA TakeIInv ==
  ASSUME IInv, NEW n \in 1 .. MaxBytes, Take(n)
  PROVE  IInv'
  <1>1. n \in Nat
    BY BufferAssumption
  <1>2. TypeOK' /\ IndexesInBounds'
    BY <1>1 DEF Take, IInv, TypeOK, IndexesInBounds, ReadableBytes
  <1> QED
    BY <1>2 DEF Take, IInv, StoredIntact

\* Every operation, and a step that changes nothing, preserves the invariant.
LEMMA NextIInv == IInv /\ [Next]_vars => IInv'
  <1> SUFFICES ASSUME IInv, [Next]_vars  PROVE IInv'
    OBVIOUS
  <1>1. ASSUME NEW n \in 1 .. MaxBytes, Append(n)  PROVE IInv'
    BY <1>1, AppendIInv
  <1>2. ASSUME NEW n \in 1 .. MaxBytes, ReadFits(n)  PROVE IInv'
    BY <1>2, ReadFitsIInv
  <1>3. ASSUME NEW n \in 1 .. MaxBytes, ReadSpills(n)  PROVE IInv'
    BY <1>3, ReadSpillsIInv
  <1>4. ASSUME NEW n \in 1 .. MaxBytes, Take(n)  PROVE IInv'
    BY <1>4, TakeIInv
  <1>5. CASE UNCHANGED vars
    BY <1>5 DEF vars, IInv, TypeOK, IndexesInBounds, StoredIntact
  <1> QED
    BY <1>1, <1>2, <1>3, <1>4, <1>5 DEF Next

\* The invariant implies what the runs check.
LEMMA IInvImplies == IInv => TypeOK /\ IndexesInBounds /\ FirstBytesIntact
  BY DEF IInv, TypeOK, IndexesInBounds, FirstBytesIntact, StoredIntact, UnreadIntact

\* The size and the indexes of a Buffer never leave its storage, whose size is its capacity.
THEOREM TypeCorrect == Spec => []TypeOK
  BY InitIInv, NextIInv, IInvImplies, PTL DEF Spec

\* Whatever is stored, taken or spilled, the read index stays behind the write index and
\* the write index inside the vector's allocation.
THEOREM BoundsSafe == Spec => []IndexesInBounds
  BY InitIInv, NextIInv, IInvImplies, PTL DEF Spec

\* A reply or an output buffer never loses or reorders a byte, whatever growths it goes
\* through; an input buffer keeps the first Initial bytes of its connection.
THEOREM ContentsSafe == Spec => []FirstBytesIntact
  BY InitIInv, NextIInv, IInvImplies, PTL DEF Spec

=============================================================================
