---------------------------- MODULE RecycledLog ----------------------------
(***************************************************************************)
(* What an item store promises (ItemStore.h): items are kept persistently  *)
(* in chronological order; once the space is exhausted the oldest items    *)
(* are removed, a page at a time, to make room for new ones.               *)
(***************************************************************************)
EXTENDS Integers, Sequences

CONSTANTS Item, PageSize, NrOfPages

Capacity == PageSize * NrOfPages

VARIABLES
  log,
  removing  \* the removal of all items was requested and has not ended

Init == log = <<>>

Add(item) ==
  /\ Len(log) < Capacity
  /\ log' = Append(log, item)

\* Nothing is removed before all the space is taken.
RemoveOldest ==
  /\ Len(log) = Capacity
  /\ log' = SubSeq(log, PageSize + 1, Capacity)

\* Only on request.
RemoveAll == removing /\ log' = <<>>

Next == (\E item \in Item : Add(item)) \/ RemoveOldest \/ RemoveAll

Spec == Init /\ [][Next]_log

=============================================================================
