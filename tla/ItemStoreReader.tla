-------------------------- MODULE ItemStoreReader --------------------------
(***************************************************************************)
(* Reading an item store (ItemStore.c): BEGIN_ENUMERATE positions an       *)
(* enumerator, ItemStore_GetNext reads item by item, and                   *)
(* ItemStore_EndEnumerate gives the store free again.  While the store is  *)
(* in EnumeratingState it takes no items; an erase is not kept away.       *)
(*                                                                         *)
(* BEGIN_ENUMERATE is taken when it is dispatched; the listener ignores it *)
(* while the flash is erased.  The loop that looks for the start position  *)
(* has one step per turn, and only interrupts and resets come in between.  *)
(***************************************************************************)
EXTENDS ItemStoreLog

CONSTANTS
  StartIndex,  \* start indices a client asks for; negative: from the end
  Garbage      \* what is read from a slot that holds no item

ASSUME ReaderAssumption == StartIndex \subseteq Int

VARIABLES
  storeState,  \* currentState of the store: "Idle" or "Enumerating"
  search,      \* local variables of FindEnumeratorStartPosition
  enumerator,  \* ItemStore_Enumerator_t and the EnumeratorStatus_t behind it
  delivered,   \* history: items read since the enumeration began
  requested    \* history: items the client asked for when it began

readerVars == <<storeState, search, enumerator, delivered, requested>>
allVars == <<vars, readerVars>>

NoEnumerator ==
  [valid |-> FALSE, hasMoreItems |-> FALSE, page |-> FirstPage,
   currentIndex |-> 0, itemsOnPage |-> 0, itemsRead |-> 0, itemsToSkip |-> 0,
   totalNrOfItems |-> 0]

NoSearch ==
  [running |-> FALSE, page |-> FirstPage, itemsOnPage |-> 0, skipping |-> 0]

\* The client has an enumerator, or is about to get one.
Reading == search.running \/ enumerator.valid

-----------------------------------------------------------------------------
(* What the store holds, from its oldest to its newest item.               *)

Contents == PersistentItems(flash)

Requested(startIndex) ==
  LET fromEnd == Len(Contents) + startIndex
      skip == IF startIndex >= 0 THEN startIndex
              ELSE IF fromEnd > 0 THEN fromEnd ELSE 0
  IN  SubSeq(Contents, skip + 1, Len(Contents))

-----------------------------------------------------------------------------
(* Positioning.                                                            *)

TotalNrOfItems == currentPageNrOfItems + nrOfFullPages * ItemsPerPage

ItemsToSkip(startIndex) ==
  IF startIndex >= 0 THEN startIndex
  ELSE LET fromEnd == TotalNrOfItems + startIndex
       IN  IF fromEnd > 0 THEN fromEnd ELSE 0

\* Mutant: enumerates from the first page instead of the oldest one.
SearchFromFirstPage(skip) ==
  [running |-> TRUE, page |-> FirstPage, itemsOnPage |-> 0, skipping |-> skip]

SearchFrom(skip) ==
  [running |-> TRUE, page |-> oldestPageInfo.pageId, itemsOnPage |-> 0,
   skipping |-> skip]

BeginEnumerate(startIndex) ==
  /\ phase = "run"
  /\ listener = "Idle"
  /\ storeState = "Idle"
  /\ ~search.running
  /\ search' = SearchFrom(ItemsToSkip(startIndex))
  /\ enumerator' = [NoEnumerator EXCEPT
                      !.itemsToSkip = ItemsToSkip(startIndex),
                      !.totalNrOfItems = TotalNrOfItems]
  /\ requested' = Requested(startIndex)
  /\ UNCHANGED <<vars, storeState, delivered>>

\* The header of the page is consistent, and says that the page is complete.
OnUsedPage == search.page \in Pages /\ IsUsed(flash[search.page])
OnFullPage == OnUsedPage /\ IsComplete(flash[search.page])

(***************************************************************************)
(* A turn of the loop that goes on: the page is skipped.  When nothing is  *)
(* left to be skipped the loop stays on the page, and takes one more turn. *)
(***************************************************************************)
SkipPage ==
  /\ search.running
  /\ OnFullPage
  /\ LET left == search.skipping - ItemsPerPage
     IN  /\ left >= 0
         /\ search' = [search EXCEPT
                         !.page = IF left > 0
                                    THEN flash[search.page].complete.nextPage
                                    ELSE @,
                         !.itemsOnPage = ItemsPerPage,
                         !.skipping = left]
  /\ UNCHANGED <<vars, storeState, enumerator, delivered, requested>>

\* The last turn: what remains to be skipped ends on the page, or the header
\* ends the loop.
EndsSearch ==
  search.running /\ (OnFullPage => search.skipping < ItemsPerPage)

LastItemsOnPage ==
  IF ~OnUsedPage THEN search.itemsOnPage
  ELSE IF OnFullPage THEN ItemsPerPage ELSE currentPageNrOfItems

LastSkipping ==
  IF OnUsedPage THEN search.skipping - LastItemsOnPage ELSE search.skipping

StartPosition == LastItemsOnPage + LastSkipping

\* InitEnumeratorStatus: the number of items that can be read from a page,
\* -1 when its header is not consistent.
ItemsOnPage(page) ==
  IF page \notin Pages \/ ~IsUsed(flash[page]) THEN -1
  ELSE IF page = WritePage THEN currentPageNrOfItems
  ELSE IF IsComplete(flash[page]) THEN ItemsPerPage
  ELSE -1

CanEnumerate ==
  LastSkipping <= 0 /\ StartPosition < ItemsOnPage(search.page)

OpenEnumerator ==
  /\ EndsSearch
  /\ CanEnumerate
  /\ enumerator' = [enumerator EXCEPT
                      !.valid = TRUE, !.hasMoreItems = TRUE,
                      !.page = search.page, !.currentIndex = StartPosition,
                      !.itemsOnPage = ItemsOnPage(search.page)]
  /\ storeState' = "Enumerating"
  /\ search' = NoSearch
  /\ UNCHANGED <<vars, delivered, requested>>

\* The client is called back with false.
RefuseEnumerator ==
  /\ EndsSearch
  /\ ~CanEnumerate
  /\ enumerator' = NoEnumerator
  /\ search' = NoSearch
  /\ requested' = <<>>
  /\ UNCHANGED <<vars, storeState, delivered>>

-----------------------------------------------------------------------------
(* Reading.                                                                *)

\* Mutant: reads one slot too many.
PageIsReadOffByOne == enumerator.currentIndex > enumerator.itemsOnPage

\* All items of the page of the enumerator are read.
PageIsRead == enumerator.currentIndex = enumerator.itemsOnPage

ReadsFrom(page, index, onPage) ==
  LET read == enumerator.itemsRead + 1
  IN  /\ delivered' = Append(delivered,
            IF index < Len(flash[page].items) THEN flash[page].items[index + 1]
                                              ELSE Garbage)
      /\ enumerator' =
           [enumerator EXCEPT
              !.page = page, !.itemsOnPage = onPage,
              !.currentIndex = index + 1, !.itemsRead = read,
              !.hasMoreItems =
                read + enumerator.itemsToSkip < enumerator.totalNrOfItems]

\* The enumerator goes on to the next page once all items of its page are
\* read; it gives up if that page cannot be enumerated.
GetNext ==
  /\ phase = "run"
  /\ enumerator.valid /\ enumerator.hasMoreItems
  /\ LET next == NextPageNr(enumerator.page)
     IN  \/ /\ ~PageIsRead
            /\ ReadsFrom(enumerator.page, enumerator.currentIndex,
                         enumerator.itemsOnPage)
         \/ /\ PageIsRead
            /\ ItemsOnPage(next) > 0
            /\ ReadsFrom(next, 0, ItemsOnPage(next))
         \/ /\ PageIsRead
            /\ ItemsOnPage(next) <= 0
            /\ enumerator' = [enumerator EXCEPT !.hasMoreItems = FALSE]
            /\ UNCHANGED delivered
  /\ UNCHANGED <<vars, storeState, search, requested>>

EndEnumerate ==
  /\ phase = "run"
  /\ enumerator.valid
  /\ storeState' = "Idle"
  /\ enumerator' = NoEnumerator
  /\ delivered' = <<>>
  /\ requested' = <<>>
  /\ UNCHANGED <<vars, search>>

\* EnumeratingState takes no message: an item is lost.
LoseItemWhileEnumerating(item) ==
  /\ storeState = "Enumerating"
  /\ Dispatch(item)
  /\ UNCHANGED <<flash, ramVars, listener, reinit, eraseReminder, erasing,
                 bootVars, readerVars>>

-----------------------------------------------------------------------------

ReaderInit ==
  /\ Init
  /\ storeState = "Idle"
  /\ search = NoSearch
  /\ enumerator = NoEnumerator
  /\ delivered = <<>>
  /\ requested = <<>>

\* A reset also ends the enumeration.
ReaderPowerLoss ==
  /\ \/ Reset
     \/ /\ storeState = "Idle" /\ ~search.running
        /\ \E item \in Item : \/ ResetBehindBeginTag(item)
                              \/ ResetBeforeCompleteTag(item)
  /\ storeState' = "Idle"
  /\ search' = NoSearch
  /\ enumerator' = NoEnumerator
  /\ delivered' = <<>>
  /\ requested' = <<>>

\* What the application task does, and the interrupts.
WriterStep ==
  /\ \/ /\ ~search.running
        /\ \/ storeState = "Idle" /\ \E item \in Item : AddItem(item)
           \/ \E item \in Item : RequestAddItem(item)
           \/ DeleteAllItems
           \/ HandleErase
           \/ HandleEraseDone
           \/ InitItemStore
     \/ FlashEndOfOperation
     \/ FlashOperationError
  /\ UNCHANGED readerVars

ReaderNext ==
  \/ \E startIndex \in StartIndex : BeginEnumerate(startIndex)
  \/ SkipPage
  \/ OpenEnumerator
  \/ RefuseEnumerator
  \/ GetNext
  \/ EndEnumerate
  \/ \E item \in Item : LoseItemWhileEnumerating(item)
  \/ WriterStep
  \/ ReaderPowerLoss

ReaderSpec == ReaderInit /\ [][ReaderNext]_allVars

\* Every boot finds recoverable pages, no erase fails, and nobody asks to
\* delete everything while the store is being read.
SoundReaderNext ==
  /\ ReaderNext
  /\ soundBoot' /\ ~eraseFailed'
  /\ Reading' => ~Deleting'

SoundReaderSpec == ReaderInit /\ [][SoundReaderNext]_allVars

-----------------------------------------------------------------------------
(* Properties.                                                             *)

ReaderTypeOK ==
  /\ TypeOK
  /\ storeState \in {"Idle", "Enumerating"}
  /\ search \in [running : BOOLEAN, page : Pages \cup {ErasedByte},
                 itemsOnPage : {0, ItemsPerPage}, skipping : Nat]
  /\ enumerator \in [valid : BOOLEAN, hasMoreItems : BOOLEAN, page : Pages,
                     currentIndex : Nat, itemsOnPage : Nat, itemsRead : Nat,
                     itemsToSkip : Nat, totalNrOfItems : Nat]
  /\ enumerator.currentIndex <= enumerator.itemsOnPage
  /\ enumerator.valid <=> storeState = "Enumerating"
  /\ search.running => ~enumerator.valid /\ phase = "run"
  /\ delivered \in Seq(Item \cup {Garbage})

\* The item count is right, and the enumeration does not skip a positive
\* multiple of the items on a page.
Regular ==
  /\ enumerator.valid
  /\ enumerator.totalNrOfItems = Len(Contents)
  /\ enumerator.itemsToSkip % ItemsPerPage = 0 => enumerator.itemsToSkip = 0

(***************************************************************************)
(* A regular enumeration delivers exactly the requested items, from the    *)
(* start index to the newest item, in chronological order over page        *)
(* boundaries and over the wrap of the ring, and says so with              *)
(* hasMoreItems.                                                           *)
(***************************************************************************)
DeliversRequested ==
  Regular => /\ Len(delivered) <= Len(requested)
             /\ delivered = SubSeq(requested, 1, Len(delivered))
             /\ enumerator.hasMoreItems <=> delivered # requested

=============================================================================
