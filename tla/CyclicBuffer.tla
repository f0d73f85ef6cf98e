---------------------------- MODULE CyclicBuffer ----------------------------
(***************************************************************************)
(* utility/collection/CyclicBuffer.c: a queue of elements in an array of   *)
(* `Capacity' slots.  One slot stays free to tell a full buffer from an    *)
(* empty one.                                                              *)
(***************************************************************************)
EXTENDS Naturals, Sequences

CONSTANTS
  Capacity,   \* number of slots, 32 in both message brokers
  Element,
  NoElement   \* what an unused slot holds

ASSUME CapacityAssumption == Capacity \in Nat /\ Capacity > 1

Slots == 0 .. Capacity - 1

Buffer == [storage : [Slots -> Element \cup {NoElement}],
           indexIn : Slots, indexOut : Slots]

\* CyclicBuffer_Create
EmptyBuffer ==
  [storage |-> [i \in Slots |-> NoElement], indexIn |-> 0, indexOut |-> 0]

RestrictBound(index) == IF index >= Capacity THEN 0 ELSE index

BufferIsEmpty(buffer) == buffer.indexIn = buffer.indexOut

BufferIsFull(buffer) == RestrictBound(buffer.indexIn + 1) = buffer.indexOut

\* Mutant: a full buffer is overwritten.
EnqueueUnchecked(buffer, element) ==
  [buffer EXCEPT !.storage[buffer.indexIn] = element,
                 !.indexIn = RestrictBound(@ + 1)]

\* A full buffer stays as it is.
Enqueue(buffer, element) ==
  IF BufferIsFull(buffer) THEN buffer
  ELSE [buffer EXCEPT !.storage[buffer.indexIn] = element,
                      !.indexIn = RestrictBound(@ + 1)]

FirstElement(buffer) == buffer.storage[buffer.indexOut]

Dequeue(buffer) == [buffer EXCEPT !.indexOut = RestrictBound(@ + 1)]

\* CyclicBuffer_Empty
Emptied(buffer) == [buffer EXCEPT !.indexIn = 0, !.indexOut = 0]

-----------------------------------------------------------------------------
(* The queue a buffer stands for.                                          *)

NrOfElements(buffer) ==
  IF buffer.indexIn >= buffer.indexOut
    THEN buffer.indexIn - buffer.indexOut
    ELSE buffer.indexIn + Capacity - buffer.indexOut

\* The slot `distance' slots behind the slot `index'.
SlotBehind(index, distance) ==
  IF index + distance >= Capacity THEN index + distance - Capacity
                                  ELSE index + distance

Contents(buffer) ==
  [k \in 1 .. NrOfElements(buffer) |->
     buffer.storage[SlotBehind(buffer.indexOut, k - 1)]]

=============================================================================
