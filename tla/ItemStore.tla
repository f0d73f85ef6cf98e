----------------------------- MODULE ItemStore -----------------------------
(***************************************************************************)
(* One item store of app_service/item_store/ItemStore.c on the pages it    *)
(* owns in the internal flash: items are appended to the current page, a   *)
(* full page is closed with a complete tag that names its successor, and   *)
(* when the successor still holds data its page - the oldest one - is      *)
(* erased while the listener of the item store ignores every other         *)
(* request.  After a reset the bookkeeping in RAM is rebuilt from the page *)
(* headers.                                                                *)
(*                                                                         *)
(* Simplifications:                                                        *)
(*  - A page header is the block id of its begin tag and the successor in  *)
(*    its complete tag; magic, item id, item size and item count are the   *)
(*    same in every header this store writes.                              *)
(*  - An item is programmed in one step, and so is the erase of one page:  *)
(*    a reset falls before or after it.  A double word can be programmed   *)
(*    once after an erase; a second attempt is refused by the flash.       *)
(*  - `messages' holds the messages for the item store in the order of the *)
(*    application queue; an ADD_ITEM message is represented by its item.   *)
(*    ERASE_DONE, published by an interrupt, always finds a place in it.   *)
(*    Reading (BEGIN_ENUMERATE and what follows) is in ItemStoreReader.    *)
(***************************************************************************)
EXTENDS Integers, Sequences, FiniteSets

CONSTANTS
  FirstPage,      \* number of the first page of this store
  LastPage,       \* number of its last page
  ItemsPerPage,   \* items that fit on a page behind its header
  MaxBlockIndex,  \* MAX_BLOCK_INDEX: block ids are counted modulo this
  MaxMessages,    \* bound on the requests waiting in the queue
  Item,           \* payloads
  Environment     \* the environment moves of a model: a subset of
                  \* {"reset", "delete", "eraseError"}

NrOfPages == LastPage - FirstPage + 1

\* What a byte of an erased tag reads as; neither a page of the store nor a
\* block id.
ErasedByte == 255

\* MAX_BLOCK_INDEX is 64, the stores have 2 and 32 pages: just enough.  (With,
\* say, three pages and block ids modulo 5 the ids of two pages of a ring may
\* differ by exactly NrOfPages, and neither IsNewer nor IsOlder recognizes a
\* wrap around.)
\* The application queue holds 31 messages, the smallest page 31 items: not
\* enough requests can wait to fill a page behind an ERASE that waits, too.
ASSUME ItemStoreAssumption ==
  /\ FirstPage \in Nat \ {0}
  /\ LastPage \in Nat
  /\ FirstPage < LastPage /\ LastPage < ErasedByte
  /\ ItemsPerPage \in Nat /\ ItemsPerPage >= 2
  /\ MaxBlockIndex \in Nat
  /\ 2 * NrOfPages <= MaxBlockIndex /\ MaxBlockIndex <= ErasedByte
  /\ MaxMessages \in 1 .. ItemsPerPage
  /\ "ERASE" \notin Item /\ "ERASE_DONE" \notin Item

Pages == FirstPage .. LastPage
BlockIds == 0 .. MaxBlockIndex - 1
Message == Item \cup {"ERASE", "ERASE_DONE"}

NextPageNr(page) == IF page + 1 > LastPage THEN FirstPage ELSE page + 1

PageTag == [pageId : Pages, blockId : BlockIds]
CompleteTag == [nextPage : Pages, nextPageId : BlockIds]

\* What is read where no begin tag, or no complete tag, was written.
NoPageTag == [pageId |-> ErasedByte, blockId |-> ErasedByte]
NoCompleteTag == [nextPage |-> ErasedByte, nextPageId |-> ErasedByte]

Page == [begin : BlockIds \cup {ErasedByte},
         complete : CompleteTag \cup {NoCompleteTag},
         items : Seq(Item)]

ErasedPage == [begin |-> ErasedByte, complete |-> NoCompleteTag, items |-> <<>>]

\* An erase never leaves the pages of the store.
EraseJob ==
  {job \in [page : Nat, left : Nat] :
     job.left > 0 => /\ job.page \in Pages
                     /\ job.page + job.left - 1 \in Pages}

FirstTag == [pageId |-> FirstPage, blockId |-> 0]

VARIABLES
  \* flash contents, survive a reset
  flash,
  \* ItemStoreInfo_t
  nrOfFullPages, currentPageNrOfItems, nextWritePageInfo, oldestPageInfo,
  \* message listener of the item store and the erase it waits for
  listener, reinit, eraseReminder, messages,
  \* Flash.c: next page to erase and _pagesToErase (0: no erase running)
  erasing,
  \* progress of InitItemStore, and whether the processor was stopped
  phase, initPage,
  \* history: did the last InitItemStore start from recoverable pages, and
  \* did an erase fail since the processor was started?
  soundBoot, eraseFailed

ramVars == <<nrOfFullPages, currentPageNrOfItems, nextWritePageInfo,
             oldestPageInfo>>
eraseVars == <<listener, reinit, eraseReminder, messages, erasing>>
bootVars == <<phase, initPage, soundBoot, eraseFailed>>
vars == <<flash, ramVars, eraseVars, bootVars>>

TypeOK ==
  /\ flash \in [Pages -> Page]
  /\ nrOfFullPages \in 0 .. 255
  /\ currentPageNrOfItems \in Nat
  /\ nextWritePageInfo \in PageTag \cup {NoPageTag}
  /\ oldestPageInfo \in PageTag \cup {NoPageTag}
  /\ listener \in {"Idle", "Erasing"}
  /\ reinit \in BOOLEAN
  /\ eraseReminder \in BOOLEAN
  /\ messages \in Seq(Message)
  /\ erasing \in EraseJob
  /\ phase \in {"init", "run", "halted"}
  /\ initPage \in FirstPage .. LastPage + 1
  /\ soundBoot \in BOOLEAN
  /\ eraseFailed \in BOOLEAN

-----------------------------------------------------------------------------
(* Pages.                                                                  *)

IsUsed(page) == page.begin # ErasedByte
IsComplete(page) == page.complete # NoCompleteTag
HasNoData(page) == ~IsUsed(page) /\ ~IsComplete(page)

InUse(f) == {p \in Pages : IsUsed(f[p])}
Closed(f) == {p \in Pages : IsComplete(f[p])}

\* nrOfFullPages is a uint8_t.
Increment(n) == (n + 1) % 256
Decrement(n) == (n + 255) % 256

\* The slot behind the last written item can be programmed; one that was
\* programmed before cannot.
CanWriteItem(f, page, slot) ==
  slot = Len(f[page].items) /\ slot < ItemsPerPage

ItemWritten(f, page, item) ==
  [f EXCEPT ![page].items = Append(@, item)]

BeginTagWritten(f, tag) == [f EXCEPT ![tag.pageId].begin = tag.blockId]

SuccessorTag(tag) ==
  [nextPage |-> NextPageNr(tag.pageId),
   nextPageId |-> (tag.blockId + 1) % MaxBlockIndex]

\* The begin tag of a page; no page tag is found outside of the store.
BeginTag(f, page) ==
  IF page \in Pages /\ IsUsed(f[page])
    THEN [pageId |-> page, blockId |-> f[page].begin]
    ELSE NoPageTag

IsEmpty == nrOfFullPages = 0 /\ currentPageNrOfItems = 0

-----------------------------------------------------------------------------
(* Advancing to the next page.                                             *)

\* Flash_Erase, with its assertion that no erase is running; the phase goes on
\* with `resume'.
FlashErase(range, resume) ==
  /\ erasing' = IF erasing.left = 0 THEN range ELSE erasing
  /\ phase' = IF erasing.left = 0 THEN resume ELSE "halted"

(***************************************************************************)
(* AdjustNextWritePage: move on to the page a complete tag names; if it    *)
(* holds data it must be the oldest page (the code asserts it), which is   *)
(* given up and erased.  `resume' is the phase in which the code goes on.  *)
(***************************************************************************)
AdjustNextWritePage(f, tag, oldest, full, resume) ==
  /\ nextWritePageInfo' = [pageId |-> tag.nextPage, blockId |-> tag.nextPageId]
  /\ IF HasNoData(f[tag.nextPage]) \/ oldest.pageId # tag.nextPage
       THEN /\ nrOfFullPages' = full
            /\ oldestPageInfo' = oldest
            /\ phase' = IF HasNoData(f[tag.nextPage]) THEN resume ELSE "halted"
            /\ UNCHANGED <<listener, reinit, erasing>>
       ELSE /\ nrOfFullPages' = Decrement(full)
            /\ oldestPageInfo' = BeginTag(f, f[tag.nextPage].complete.nextPage)
            /\ listener' = "Erasing"
            /\ reinit' = FALSE
            /\ FlashErase([page |-> tag.nextPage, left |-> 1], resume)

\* ClosePageIfFull with no room left: f are the pages before the complete tag
\* is programmed, newest the page it goes to.
ClosePage(f, newest, oldest, resume) ==
  LET tag == SuccessorTag(newest)
      closed == [f EXCEPT ![newest.pageId].complete = tag]
  IN  /\ flash' = closed
      /\ AdjustNextWritePage(closed, tag, oldest, Increment(nrOfFullPages),
                             resume)

-----------------------------------------------------------------------------
(* Requests, and the dispatch of their messages.                           *)

CanPublish == phase = "run" /\ Len(messages) < MaxMessages

RequestAddItem(item) ==
  /\ CanPublish
  /\ messages' = Append(messages, item)
  /\ UNCHANGED <<flash, ramVars, listener, reinit, eraseReminder, erasing,
                 bootVars>>

\* The counters are cleared at once, the erase is requested by a message.
DeleteAllItems ==
  /\ "delete" \in Environment
  /\ CanPublish
  /\ nrOfFullPages' = 0
  /\ currentPageNrOfItems' = 0
  /\ messages' = Append(messages, "ERASE")
  /\ UNCHANGED <<flash, nextWritePageInfo, oldestPageInfo, listener, reinit,
                 eraseReminder, erasing, bootVars>>

IsNext(message) ==
  /\ phase = "run"
  /\ messages # <<>>
  /\ Head(messages) = message

Dispatch(message) == IsNext(message) /\ messages' = Tail(messages)

-----------------------------------------------------------------------------
(* AddItem.                                                                *)

WritePage == nextWritePageInfo.pageId

HasFreePage == WritePage \in Pages /\ HasNoData(flash[WritePage])

\* The first item of a page: begin tag, then item.
AddFirstItem(item) ==
  /\ Dispatch(item)
  /\ listener = "Idle"
  /\ HasFreePage
  /\ flash' = ItemWritten(BeginTagWritten(flash, nextWritePageInfo),
                          WritePage, item)
  /\ currentPageNrOfItems' = 1
  /\ UNCHANGED <<nrOfFullPages, nextWritePageInfo, oldestPageInfo, listener,
                 reinit, eraseReminder, erasing, bootVars>>

\* The page is in use and not closed, and its next slot can be programmed.
HasFreeSlot ==
  /\ WritePage \in Pages
  /\ IsUsed(flash[WritePage]) /\ ~IsComplete(flash[WritePage])
  /\ CanWriteItem(flash, WritePage, currentPageNrOfItems)

\* Mutant: the state of the listener is not checked.
AddNextItemAlways(item) ==
  /\ Dispatch(item)
  /\ HasFreeSlot
  /\ currentPageNrOfItems + 1 < ItemsPerPage
  /\ flash' = ItemWritten(flash, WritePage, item)
  /\ currentPageNrOfItems' = currentPageNrOfItems + 1
  /\ UNCHANGED <<nrOfFullPages, nextWritePageInfo, oldestPageInfo, listener,
                 reinit, eraseReminder, erasing, bootVars>>

AddNextItem(item) ==
  /\ Dispatch(item)
  /\ listener = "Idle"
  /\ HasFreeSlot
  /\ currentPageNrOfItems + 1 < ItemsPerPage
  /\ flash' = ItemWritten(flash, WritePage, item)
  /\ currentPageNrOfItems' = currentPageNrOfItems + 1
  /\ UNCHANGED <<nrOfFullPages, nextWritePageInfo, oldestPageInfo, listener,
                 reinit, eraseReminder, erasing, bootVars>>

\* Mutant: the page is closed one item too early.
AddLastItemEarly(item) ==
  /\ Dispatch(item)
  /\ listener = "Idle"
  /\ HasFreeSlot
  /\ currentPageNrOfItems + 2 >= ItemsPerPage
  /\ currentPageNrOfItems' = currentPageNrOfItems + 1
  /\ ClosePage(ItemWritten(flash, WritePage, item), nextWritePageInfo,
               oldestPageInfo, "run")
  /\ UNCHANGED <<eraseReminder, initPage, soundBoot, eraseFailed>>

\* The item that fills the page: the page is closed in the same handler.
AddLastItem(item) ==
  /\ Dispatch(item)
  /\ listener = "Idle"
  /\ HasFreeSlot
  /\ currentPageNrOfItems + 1 = ItemsPerPage
  /\ currentPageNrOfItems' = currentPageNrOfItems + 1
  /\ ClosePage(ItemWritten(flash, WritePage, item), nextWritePageInfo,
               oldestPageInfo, "run")
  /\ UNCHANGED <<eraseReminder, initPage, soundBoot, eraseFailed>>

\* The item finds no place (a recoverable error is reported), or the flash is
\* being erased: it is lost.
LoseItem(item) ==
  /\ Dispatch(item)
  /\ \/ listener = "Erasing"
     \/ ~HasFreeSlot /\ ~HasFreePage
  /\ UNCHANGED <<flash, ramVars, listener, reinit, eraseReminder, erasing,
                 bootVars>>

-----------------------------------------------------------------------------
(* InitItemStore: one step per page, then the choice of the next page.     *)

\* Mutant: the wrap around of block ids is forgotten.
IsNewerByNumber(id, newest) == id > newest

\* UpdateNewestOldestPage takes the page with block id `id' for the newest ...
IsNewer(id, newest) ==
  \/ id > newest /\ id - newest < NrOfPages
  \/ id < newest /\ newest - id > NrOfPages

\* Mutant: a page that is NrOfPages - 1 older is not recognized.
IsOlderOffByOne(id, oldest) ==
  \/ id < oldest /\ oldest - id < NrOfPages - 1
  \/ id > oldest /\ id - oldest > NrOfPages

\* ... or for the oldest one.
IsOlder(id, oldest) ==
  \/ id < oldest /\ oldest - id < NrOfPages
  \/ id > oldest /\ id - oldest > NrOfPages

NewestWith(tag) ==
  IF initPage = FirstPage \/ IsNewer(tag.blockId, nextWritePageInfo.blockId)
    THEN tag ELSE nextWritePageInfo

OldestWith(tag) ==
  IF \/ initPage = FirstPage
     \/ /\ ~IsNewer(tag.blockId, nextWritePageInfo.blockId)
        /\ IsOlder(tag.blockId, oldestPageInfo.blockId)
    THEN tag ELSE oldestPageInfo

InitStep ==
  /\ phase = "init"
  /\ initPage \in Pages
  /\ initPage' = initPage + 1
  /\ UNCHANGED <<eraseReminder, messages, soundBoot, eraseFailed>>

HeaderTag == BeginTag(flash, initPage)

SkipErasedPage ==
  /\ InitStep
  /\ HasNoData(flash[initPage])
  /\ UNCHANGED <<flash, ramVars, listener, reinit, erasing, phase>>

CountFullPage ==
  /\ InitStep
  /\ IsComplete(flash[initPage])
  /\ nextWritePageInfo' = NewestWith(HeaderTag)
  /\ oldestPageInfo' = OldestWith(HeaderTag)
  /\ nrOfFullPages' = Increment(nrOfFullPages)
  /\ UNCHANGED <<flash, currentPageNrOfItems, listener, reinit, erasing, phase>>

IsOpenPage(page) == IsUsed(page) /\ ~IsComplete(page)

RecoverOpenPage ==
  /\ InitStep
  /\ IsOpenPage(flash[initPage])
  /\ Len(flash[initPage].items) < ItemsPerPage
  /\ nextWritePageInfo' = NewestWith(HeaderTag)
  /\ oldestPageInfo' = OldestWith(HeaderTag)
  /\ currentPageNrOfItems' = Len(flash[initPage].items)
  /\ UNCHANGED <<flash, nrOfFullPages, listener, reinit, erasing, phase>>

\* The power failed between the last item of the page and its complete tag:
\* it is written to the newest page.  Flash_Write asserts that no erase runs
\* and that the address can be written; a complete tag that is already there
\* cannot be programmed again, then nothing more happens to this page.
CloseRecoveredPage ==
  /\ InitStep
  /\ IsOpenPage(flash[initPage])
  /\ Len(flash[initPage].items) >= ItemsPerPage
  /\ currentPageNrOfItems' = Len(flash[initPage].items)
  /\ LET newest == NewestWith(HeaderTag)
         oldest == OldestWith(HeaderTag)
         canWrite == newest.pageId \in Pages /\ erasing.left = 0
     IN  IF canWrite /\ ~IsComplete(flash[newest.pageId])
           THEN ClosePage(flash, newest, oldest, "init")
           ELSE /\ nextWritePageInfo' = newest
                /\ oldestPageInfo' = oldest
                /\ phase' = IF canWrite THEN phase ELSE "halted"
                /\ UNCHANGED <<flash, nrOfFullPages, listener, reinit, erasing>>

\* Mutant: the newest page is used even if it is complete.
FinishInitOnFullPage ==
  /\ phase = "init"
  /\ initPage = LastPage + 1
  /\ phase' = "run"
  /\ UNCHANGED <<flash, ramVars, eraseVars, initPage, soundBoot,
                 eraseFailed>>

FinishInit ==
  /\ phase = "init"
  /\ initPage = LastPage + 1
  /\ IF WritePage \in Pages /\ IsComplete(flash[WritePage])
       THEN AdjustNextWritePage(flash, flash[WritePage].complete,
                                oldestPageInfo, nrOfFullPages, "run")
       ELSE /\ phase' = "run"
            /\ UNCHANGED <<nrOfFullPages, nextWritePageInfo, oldestPageInfo,
                           listener, reinit, erasing>>
  /\ UNCHANGED <<flash, currentPageNrOfItems, eraseReminder, messages,
                 initPage, soundBoot, eraseFailed>>

-----------------------------------------------------------------------------
(* Erasing the whole store, and the end of an erase.                       *)

WholeStore == [page |-> FirstPage, left |-> NrOfPages]

\* ListenerIdleState starts the erase.
StartErase ==
  /\ Dispatch("ERASE")
  /\ listener = "Idle"
  /\ reinit' = TRUE
  /\ FlashErase(WholeStore, "run")
  /\ listener' = "Erasing"
  /\ UNCHANGED <<flash, ramVars, eraseReminder, initPage, soundBoot,
                 eraseFailed>>

\* Mutant: a second erase is started at once.
RemindEraseAtOnce ==
  /\ Dispatch("ERASE")
  /\ listener = "Erasing"
  /\ reinit' = TRUE
  /\ FlashErase(WholeStore, "run")
  /\ UNCHANGED <<flash, ramVars, listener, eraseReminder, initPage, soundBoot,
                 eraseFailed>>

\* ListenerErasingState remembers one erase.
RemindErase ==
  /\ Dispatch("ERASE")
  /\ listener = "Erasing"
  /\ eraseReminder' = TRUE
  /\ UNCHANGED <<flash, ramVars, listener, reinit, erasing, bootVars>>

\* The page of a page wrap is ready for writing.
EraseDone ==
  /\ Dispatch("ERASE_DONE")
  /\ listener = "Erasing"
  /\ ~eraseReminder
  /\ ~reinit
  /\ listener' = "Idle"
  /\ UNCHANGED <<flash, ramVars, reinit, eraseReminder, erasing, bootVars>>

EraseReminded ==
  /\ Dispatch("ERASE_DONE")
  /\ listener = "Erasing"
  /\ eraseReminder
  /\ eraseReminder' = FALSE
  /\ reinit' = TRUE
  /\ FlashErase(WholeStore, "run")
  /\ UNCHANGED <<flash, ramVars, listener, initPage, soundBoot,
                 eraseFailed>>

(***************************************************************************)
(* A ring that InitItemStore can take up again: from the page `head' on    *)
(* every page is closed and names its successor, up to the page of `tag',  *)
(* the one to be written next; the pages behind it are erased.  Block ids  *)
(* grow by one from page to page; where they wrap around MaxBlockIndex     *)
(* some may have been left out.                                            *)
(***************************************************************************)
Distance(p, q) == IF p <= q THEN q - p ELSE q - p + NrOfPages

InSequence(id, other, distance) ==
  \/ other = id + distance
  \/ id - other >= 2 * NrOfPages - distance

IsRing(f, head, tag) ==
  LET Rank(p) == Distance(head, p)
      last == Rank(tag.pageId)
      Id(p) == IF p = tag.pageId THEN tag.blockId ELSE f[p].begin
  IN  /\ f[tag.pageId].begin \in {tag.blockId, ErasedByte}
      /\ \A p \in Pages :
           /\ Rank(p) < last => /\ IsUsed(f[p])
                                /\ f[p].complete.nextPage = NextPageNr(p)
           /\ Rank(p) > last => f[p] = ErasedPage
      /\ \A p, q \in Pages :
           Rank(p) < Rank(q) /\ Rank(q) <= last =>
             InSequence(Id(p), Id(q), Rank(q) - Rank(p))

\* The newest page `last' of a ring may be closed, or open; if it is full its
\* successor is free.
IsWritten(f, head, last) ==
  /\ IsUsed(f[last])
  /\ IsRing(f, head, BeginTag(f, last))
  /\ \/ f[last].complete = SuccessorTag(BeginTag(f, last))
     \/ /\ ~IsComplete(f[last])
        /\ Len(f[last].items) < ItemsPerPage \/ ~IsUsed(f[NextPageNr(last)])

Recoverable(f) ==
  \/ \A p \in Pages : f[p] = ErasedPage
  \/ IsUsed(f[FirstPage]) /\ \E head, last \in Pages : IsWritten(f, head, last)

\* The page with the larger one of two block ids is the older one only if they
\* are more than the number of pages apart.
IsBefore(id, other) ==
  IF id < other THEN other - id < NrOfPages ELSE id - other > NrOfPages

IsNamed(f, p) ==
  \E q \in Closed(f) : /\ f[q].complete.nextPage = p
                       /\ IsBefore(f[q].begin, f[p].begin)

Heads(f) == {p \in InUse(f) : ~IsNamed(f, p)}

\* Mutant: the page tags in RAM are kept.
BeginInitKeepingTags(f) ==
  /\ phase' = "init"
  /\ initPage' = FirstPage
  /\ UNCHANGED <<nextWritePageInfo, oldestPageInfo>>
  /\ soundBoot' = Recoverable(f)

BeginInit(f) ==
  /\ phase' = "init"
  /\ initPage' = FirstPage
  /\ nextWritePageInfo' = FirstTag
  /\ oldestPageInfo' = FirstTag
  /\ soundBoot' = Recoverable(f)

\* All pages of the store are erased, or one could not be: the store is
\* initialized anew, its counters as DeleteAllItems left them.
EraseDoneReinit ==
  /\ Dispatch("ERASE_DONE")
  /\ listener = "Erasing"
  /\ ~eraseReminder
  /\ reinit
  /\ listener' = "Idle"
  /\ BeginInit(flash)
  /\ UNCHANGED <<flash, nrOfFullPages, currentPageNrOfItems, reinit,
                 eraseReminder, erasing, eraseFailed>>

-----------------------------------------------------------------------------
(* The flash controller, through the interrupt of the flash.               *)

\* Mutant: every erased page is reported.
FlashEndOfOperationPerPage ==
  /\ phase = "run"
  /\ erasing.left > 0
  /\ flash' = [flash EXCEPT ![erasing.page] = ErasedPage]
  /\ erasing' = [page |-> erasing.page + 1, left |-> erasing.left - 1]
  /\ messages' = Append(messages, "ERASE_DONE")
  /\ UNCHANGED <<ramVars, listener, reinit, eraseReminder, bootVars>>

\* Flash.c erases page by page; the last one is reported by a message.
FlashEndOfOperation ==
  /\ phase = "run"
  /\ erasing.left > 0
  /\ flash' = [flash EXCEPT ![erasing.page] = ErasedPage]
  /\ erasing' = [page |-> erasing.page + 1, left |-> erasing.left - 1]
  /\ messages' = IF erasing.left = 1 THEN Append(messages, "ERASE_DONE")
                                     ELSE messages
  /\ UNCHANGED <<ramVars, listener, reinit, eraseReminder, bootVars>>

\* Mutant: an error is not reported.
FlashOperationErrorIgnored ==
  /\ "eraseError" \in Environment
  /\ phase = "run"
  /\ erasing.left > 0
  /\ erasing' = [erasing EXCEPT !.left = 0]
  /\ eraseFailed' = TRUE
  /\ UNCHANGED <<flash, ramVars, listener, reinit, eraseReminder, messages,
                 phase, initPage, soundBoot>>

\* A page cannot be erased: the operation is reported as done all the same.
FlashOperationError ==
  /\ "eraseError" \in Environment
  /\ phase = "run"
  /\ erasing.left > 0
  /\ erasing' = [erasing EXCEPT !.left = 0]
  /\ messages' = Append(messages, "ERASE_DONE")
  /\ eraseFailed' = TRUE
  /\ UNCHANGED <<flash, ramVars, listener, reinit, eraseReminder, phase,
                 initPage, soundBoot>>

-----------------------------------------------------------------------------
(* Loss of power: RAM is lost, what was programmed so far stays.           *)

Reboot(f) ==
  /\ "reset" \in Environment
  /\ flash' = f
  /\ nrOfFullPages' = 0
  /\ currentPageNrOfItems' = 0
  /\ listener' = "Idle"
  /\ reinit' = FALSE
  /\ eraseReminder' = FALSE
  /\ messages' = <<>>
  /\ erasing' = [page |-> 0, left |-> 0]
  /\ BeginInit(f)
  /\ eraseFailed' = FALSE

Reset == Reboot(flash)

\* Between two flash writes of AddItem: the begin tag without its item, or
\* the last item of a page without the complete tag.
ResetBehindBeginTag(item) ==
  /\ IsNext(item)
  /\ listener = "Idle"
  /\ HasFreePage
  /\ Reboot(BeginTagWritten(flash, nextWritePageInfo))

ResetBeforeCompleteTag(item) ==
  /\ IsNext(item)
  /\ listener = "Idle"
  /\ HasFreeSlot
  /\ currentPageNrOfItems + 1 = ItemsPerPage
  /\ Reboot(ItemWritten(flash, WritePage, item))

-----------------------------------------------------------------------------

\* A new device: all pages are erased, InitItemStore is about to run.
Init ==
  /\ flash = [p \in Pages |-> ErasedPage]
  /\ nrOfFullPages = 0
  /\ currentPageNrOfItems = 0
  /\ nextWritePageInfo = FirstTag
  /\ oldestPageInfo = FirstTag
  /\ listener = "Idle"
  /\ reinit = FALSE
  /\ eraseReminder = FALSE
  /\ messages = <<>>
  /\ erasing = [page |-> 0, left |-> 0]
  /\ phase = "init"
  /\ initPage = FirstPage
  /\ soundBoot = TRUE
  /\ eraseFailed = FALSE

AddItem(item) == \/ AddFirstItem(item)
                 \/ AddNextItem(item)
                 \/ AddLastItem(item)
                 \/ LoseItem(item)

InitItemStore == \/ SkipErasedPage
                 \/ CountFullPage
                 \/ RecoverOpenPage
                 \/ CloseRecoveredPage
                 \/ FinishInit

HandleErase == StartErase \/ RemindErase
HandleEraseDone == EraseDone \/ EraseReminded \/ EraseDoneReinit

HandleMessage == \/ \E item \in Item : AddItem(item)
                 \/ HandleErase
                 \/ HandleEraseDone

PowerLoss == \/ Reset
             \/ \E item \in Item : \/ ResetBehindBeginTag(item)
                                  \/ ResetBeforeCompleteTag(item)

Next == \/ \E item \in Item : RequestAddItem(item)
        \/ DeleteAllItems
        \/ HandleMessage
        \/ InitItemStore
        \/ FlashEndOfOperation
        \/ FlashOperationError
        \/ PowerLoss

Spec == Init /\ [][Next]_vars

\* The flash ends every erase, the scheduler runs the application task as
\* long as messages wait, and booting is not interrupted for ever.
Fairness ==
  /\ WF_vars(FlashEndOfOperation)
  /\ WF_vars(HandleMessage)
  /\ WF_vars(InitItemStore)

FairSpec == Spec /\ Fairness

-----------------------------------------------------------------------------
(* Properties.                                                             *)

(***************************************************************************)
(* The listener is in ListenerErasingState exactly as long as the flash    *)
(* erases or the message that reports the end of the erase is waiting, and *)
(* only one such message is ever waiting.  This is what keeps AddItem and  *)
(* BeginEnumerate, which are dispatched in ListenerIdleState, away from a  *)
(* flash that is being erased (Flash_Write asserts it).                    *)
(***************************************************************************)
DonesIn(queue) == {i \in DOMAIN queue : queue[i] = "ERASE_DONE"}

DoneMessages == DonesIn(messages)

EraseInterlock ==
  /\ listener = "Erasing" <=> erasing.left > 0 \/ DoneMessages # {}
  /\ erasing.left > 0 => DoneMessages = {}
  /\ \A i, j \in DoneMessages : i = j

(***************************************************************************)
(* Flash_Write asserts that the flash is not being erased.  So as long as  *)
(* an erase runs, no page changes but by being erased.                     *)
(***************************************************************************)
NoWriteWhileErasing ==
  [][erasing.left > 0 =>
       \A p \in Pages : flash'[p] \in {flash[p], ErasedPage}]_vars

\* Some DeleteAllItems is not finished yet.
Deleting ==
  \/ \E i \in DOMAIN messages : messages[i] = "ERASE"
  \/ eraseReminder
  \/ listener = "Erasing" /\ reinit

\* The page a page wrap gives up: it still holds its data until it is erased.
GivenUp == IF listener = "Erasing" THEN {WritePage} ELSE {}

\* The pages without it: what the store offers to its readers.
Kept == [p \in Pages |-> IF p \in GivenUp THEN ErasedPage ELSE flash[p]]

\* The store runs on bookkeeping that was rebuilt from recoverable pages, and
\* the flash erased what it had to erase.
Sound == soundBoot /\ ~eraseFailed /\ phase = "run" /\ ~Deleting

(***************************************************************************)
(* The bookkeeping in RAM agrees with the pages in flash: the number of    *)
(* full pages, the oldest page, the page to write next with the block id   *)
(* that continues the ring, and the number of items on it.  AddItem,       *)
(* ClosePageIfFull, AdjustNextWritePage and InitItemStore maintain the     *)
(* four values independently of each other.                                *)
(***************************************************************************)
MetadataMatchesFlash ==
  Sound =>
    /\ nrOfFullPages = Cardinality(Closed(Kept))
    /\ InUse(Kept) = {} => oldestPageInfo = nextWritePageInfo
    /\ InUse(Kept) # {} =>
         /\ Heads(Kept) = {oldestPageInfo.pageId}
         /\ oldestPageInfo = BeginTag(Kept, oldestPageInfo.pageId)
         /\ \/ /\ IsOpenPage(Kept[WritePage])
               /\ nextWritePageInfo.blockId = Kept[WritePage].begin
               /\ currentPageNrOfItems = Len(Kept[WritePage].items)
            \/ \E q \in Closed(Kept) :
                 /\ Kept[q].complete.nextPage = WritePage
                 /\ Kept[q].complete.nextPageId = nextWritePageInfo.blockId
                 /\ Kept[WritePage] = ErasedPage

(***************************************************************************)
(* In the idle state of the listener the next item always has a place: the *)
(* page to write is erased, or the slot behind its last item is free.  An  *)
(* AddItem that finds neither fails, and so does every later one.          *)
(***************************************************************************)
AlwaysWritable ==
  Sound /\ listener = "Idle" => HasFreePage \/ HasFreeSlot

(***************************************************************************)
(* After a boot from recoverable pages, and while no erase fails, none of  *)
(* the assertions in AdjustNextWritePage, Flash_Erase and Flash_Write ever *)
(* stops the processor.                                                    *)
(***************************************************************************)
AssertionsHold == soundBoot /\ ~eraseFailed => phase # "halted"

(***************************************************************************)
(* ItemStore.c:632 says of the boot: add the close tag if it was not       *)
(* written properly.  So a boot that finds a full page without a complete  *)
(* tag goes on with the next page; no assertion stops it.                  *)
(***************************************************************************)
BootNeverHalts == [][phase = "init" => phase' # "halted"]_vars

(***************************************************************************)
(* An erase ends, also when pages fail to be erased: the listener leaves   *)
(* the state in which it ignores all requests, or the processor is         *)
(* stopped.  Only a user who keeps deleting everything prolongs it.        *)
(***************************************************************************)
EraseEnds ==
  listener = "Erasing" ~>
    listener = "Idle" \/ phase = "halted" \/ eraseReminder

=============================================================================
