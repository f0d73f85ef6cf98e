---------------------------- MODULE ItemStoreLog ----------------------------
(***************************************************************************)
(* What the pages of an item store hold: a log, from the oldest item to    *)
(* the newest one, and how ItemStore implements RecycledLog with it.       *)
(***************************************************************************)
EXTENDS ItemStore

-----------------------------------------------------------------------------
(* Items in the order they were written.                                   *)

\* The page `distance' pages behind another one; the last page of the store is
\* followed by the first one.
PageAt(head, distance) ==
  IF head + distance > LastPage THEN head + distance - NrOfPages
                                ELSE head + distance

\* From the head of the ring on, position n = 0, 1, ... is the slot
\* n % ItemsPerPage of the page n \div ItemsPerPage pages behind the head.
PageOf(head, n) == PageAt(head, n \div ItemsPerPage)
SlotOf(n) == (n % ItemsPerPage) + 1

Positions == 0 .. ItemsPerPage * NrOfPages - 1

Occupied(f, head) ==
  {n \in Positions : SlotOf(n) \in DOMAIN f[PageOf(head, n)].items}

ItemsFrom(f, head) ==
  [i \in 1 .. Cardinality(Occupied(f, head)) |->
     f[PageOf(head, i - 1)].items[SlotOf(i - 1)]]

PersistentItems(f) ==
  IF Heads(f) = {} THEN <<>>
                   ELSE ItemsFrom(f, CHOOSE head \in Heads(f) : TRUE)

-----------------------------------------------------------------------------
(* The refinement.                                                         *)

\* The first page is the first to be erased when everything is deleted.
Emptied == listener = "Erasing" /\ reinit /\ ~IsUsed(flash[FirstPage])

\* With its first page the store loses all items.
LogItems == IF Emptied THEN <<>> ELSE PersistentItems(flash)

Log == INSTANCE RecycledLog WITH
         log <- LogItems, removing <- Deleting,
         PageSize <- ItemsPerPage, Item <- Item, NrOfPages <- NrOfPages

(***************************************************************************)
(* The pages in flash are a RecycledLog: whatever the moment of a reset,   *)
(* no item is lost, duplicated or reordered, and the oldest page is only   *)
(* erased when every page is full.                                         *)
(***************************************************************************)
ImplementsRecycledLog == Log!Spec

\* Every boot finds recoverable pages, and no erase fails.
SoundSpec == Init /\ [][Next /\ soundBoot' /\ ~eraseFailed']_vars

(***************************************************************************)
(* A page is closed when it is full, and only then: that a page with a     *)
(* complete tag holds ItemsPerPage items is what InitItemStore, the item   *)
(* count and the enumerators rely on, none of them counts the items.       *)
(***************************************************************************)
ClosedPagesAreFull ==
  \A p \in Closed(flash) : Len(flash[p].items) = ItemsPerPage

=============================================================================
