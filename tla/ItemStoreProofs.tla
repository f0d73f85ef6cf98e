-------------------------- MODULE ItemStoreProofs --------------------------
(***************************************************************************)
(* Proofs about ItemStore, for every number and size of pages and in every *)
(* environment: type correctness, the erase interlock, and, after a boot   *)
(* from recoverable pages and while no erase fails, that the bookkeeping   *)
(* in RAM agrees with the pages in flash, the next item has a place, and   *)
(* no assertion stops the processor.                                       *)
(*                                                                         *)
(* The inductive invariant of the latter follows the store through its     *)
(* life: InitItemStore scans a ring of pages (BootInv); AddItem and        *)
(* AdjustNextWritePage keep the ring and its description in RAM together   *)
(* (ChainInv, CountInv); a request to delete everything clears the         *)
(* counters until all pages are erased and the store is initialized anew   *)
(* (DeleteInv, EraseInv).                                                  *)
(***************************************************************************)
EXTENDS ItemStore, TLAPS, FiniteSetTheorems

-----------------------------------------------------------------------------
(* Pages and tags.                                                         *)

\* The constants are numbers, as the provers need to see them.
LEMMA Numbers ==
  /\ FirstPage \in Nat /\ LastPage \in Nat /\ FirstPage >= 1
  /\ FirstPage < LastPage /\ LastPage < 255 /\ ErasedByte = 255
  /\ NrOfPages \in Nat /\ NrOfPages >= 2
  /\ ItemsPerPage \in Nat /\ ItemsPerPage >= 2
  /\ MaxBlockIndex \in Nat /\ MaxBlockIndex > 0
BY ItemStoreAssumption DEF ItemStoreAssumption, NrOfPages, ErasedByte

\* NEXT_PAGE_NR stays on the pages of the store.
LEMMA NextPageNrType ==
  ASSUME NEW page \in Pages
  PROVE  NextPageNr(page) \in Pages
BY Numbers DEF NextPageNr, Pages

\* Writing an item, or a begin tag, to a page of the store.
LEMMA ItemWrittenType ==
  ASSUME NEW f \in [Pages -> Page], NEW page \in Pages, NEW item \in Item
  PROVE  ItemWritten(f, page, item) \in [Pages -> Page]
<1>1. f[page] \in Page /\ f[page].items \in Seq(Item)
  BY DEF Page
<1>2. Append(f[page].items, item) \in Seq(Item)
  BY <1>1
<1>3. [f[page] EXCEPT !.items = Append(@, item)] \in Page
  BY <1>1, <1>2 DEF Page
<1> QED
  BY <1>3 DEF ItemWritten

LEMMA BeginTagWrittenType ==
  ASSUME NEW f \in [Pages -> Page], NEW tag \in PageTag
  PROVE  BeginTagWritten(f, tag) \in [Pages -> Page]
<1>1. tag.pageId \in Pages /\ tag.blockId \in BlockIds
  BY DEF PageTag
<1>2. f[tag.pageId] \in Page
  BY <1>1
<1>3. [f[tag.pageId] EXCEPT !.begin = tag.blockId] \in Page
  BY <1>1, <1>2 DEF Page
<1> QED
  BY <1>1, <1>3 DEF BeginTagWritten

LEMMA CompleteTagWrittenType ==
  ASSUME NEW f \in [Pages -> Page], NEW page \in Pages, NEW tag \in CompleteTag
  PROVE  [f EXCEPT ![page].complete = tag] \in [Pages -> Page]
<1>1. f[page] \in Page
  OBVIOUS
<1>2. [f[page] EXCEPT !.complete = tag] \in Page
  BY <1>1 DEF Page
<1> QED
  BY <1>2

LEMMA ErasedPageType == ErasedPage \in Page
BY DEF ErasedPage, Page

\* The complete tag of a page names a page and a block id.
LEMMA SuccessorTagType ==
  ASSUME NEW tag \in PageTag
  PROVE  SuccessorTag(tag) \in CompleteTag
<1>1. tag.pageId \in Pages /\ tag.blockId \in 0 .. MaxBlockIndex - 1
  BY DEF PageTag, BlockIds
<1>2. (tag.blockId + 1) % MaxBlockIndex \in 0 .. MaxBlockIndex - 1
  BY <1>1, Numbers
<1> QED
  BY <1>1, <1>2, NextPageNrType DEF SuccessorTag, CompleteTag, BlockIds

\* A begin tag that is read is one that was written, or none.
LEMMA BeginTagType ==
  ASSUME NEW f \in [Pages -> Page], NEW page
  PROVE  BeginTag(f, page) \in PageTag \cup {NoPageTag}
<1>1. CASE page \in Pages /\ IsUsed(f[page])
  <2>1. f[page].begin \in BlockIds
    BY <1>1 DEF IsUsed, Page
  <2> QED
    BY <1>1, <2>1 DEF BeginTag, PageTag
<1>2. CASE ~(page \in Pages /\ IsUsed(f[page]))
  BY <1>2 DEF BeginTag
<1> QED
  BY <1>1, <1>2

LEMMA FirstTagType == FirstTag \in PageTag
BY Numbers DEF FirstTag, PageTag, Pages, BlockIds

LEMMA CounterType ==
  ASSUME NEW n \in 0 .. 255
  PROVE  Increment(n) \in 0 .. 255 /\ Decrement(n) \in 0 .. 255
BY DEF Increment, Decrement

\* A page tag that names a page of the store is a proper page tag.
LEMMA PageTagOfStore ==
  ASSUME NEW tag \in PageTag \cup {NoPageTag}, tag.pageId \in Pages
  PROVE  tag \in PageTag
BY Numbers DEF NoPageTag, Pages

-----------------------------------------------------------------------------
(* Type correctness.                                                       *)

LEMMA WholeStoreType == WholeStore \in EraseJob
BY Numbers DEF WholeStore, EraseJob, Pages, NrOfPages

LEMMA OnePageType ==
  ASSUME NEW page \in Pages
  PROVE  [page |-> page, left |-> 1] \in EraseJob
BY Numbers DEF EraseJob, Pages

\* Flash_Erase gets a range of the store.
LEMMA FlashEraseType ==
  ASSUME erasing \in EraseJob, NEW range \in EraseJob,
         NEW resume \in {"init", "run"}, FlashErase(range, resume)
  PROVE  erasing' \in EraseJob /\ phase' \in {"init", "run", "halted"}
BY DEF FlashErase

\* What AdjustNextWritePage assigns.
LEMMA AdjustNextWritePageType ==
  ASSUME TypeOK, NEW f \in [Pages -> Page], NEW tag \in CompleteTag,
         NEW oldest \in PageTag \cup {NoPageTag}, NEW full \in 0 .. 255,
         NEW resume \in {"init", "run"},
         AdjustNextWritePage(f, tag, oldest, full, resume)
  PROVE  /\ nrOfFullPages' \in 0 .. 255
         /\ nextWritePageInfo' \in PageTag \cup {NoPageTag}
         /\ oldestPageInfo' \in PageTag \cup {NoPageTag}
         /\ listener' \in {"Idle", "Erasing"}
         /\ reinit' \in BOOLEAN
         /\ erasing' \in EraseJob
         /\ phase' \in {"init", "run", "halted"}
<1>1. tag.nextPage \in Pages /\ tag.nextPageId \in BlockIds
  BY DEF CompleteTag
<1>2. nextWritePageInfo' \in PageTag
  BY <1>1 DEF AdjustNextWritePage, PageTag
<1>3. CASE HasNoData(f[tag.nextPage]) \/ oldest.pageId # tag.nextPage
  <2>1. /\ nrOfFullPages' = full
        /\ oldestPageInfo' = oldest
        /\ phase' \in {resume, "halted"}
        /\ listener' = listener /\ reinit' = reinit /\ erasing' = erasing
    BY <1>3 DEF AdjustNextWritePage
  <2> QED
    BY <1>2, <2>1 DEF TypeOK
<1>4. CASE ~(HasNoData(f[tag.nextPage]) \/ oldest.pageId # tag.nextPage)
  <2>1. oldestPageInfo' \in PageTag \cup {NoPageTag}
    BY <1>4, BeginTagType DEF AdjustNextWritePage
  <2>2. nrOfFullPages' \in 0 .. 255
    BY <1>4, CounterType DEF AdjustNextWritePage
  <2>3. erasing' \in EraseJob /\ phase' \in {"init", "run", "halted"}
    BY <1>1, <1>4, OnePageType, FlashEraseType DEF AdjustNextWritePage, TypeOK
  <2>4. listener' \in {"Idle", "Erasing"} /\ reinit' \in BOOLEAN
    BY <1>4 DEF AdjustNextWritePage
  <2> QED
    BY <1>2, <2>1, <2>2, <2>3, <2>4
<1> QED
  BY <1>3, <1>4

\* What ClosePageIfFull assigns.
LEMMA ClosePageType ==
  ASSUME TypeOK, NEW f \in [Pages -> Page], NEW newest \in PageTag,
         NEW oldest \in PageTag \cup {NoPageTag},
         NEW resume \in {"init", "run"},
         ClosePage(f, newest, oldest, resume)
  PROVE  /\ flash' \in [Pages -> Page]
         /\ nrOfFullPages' \in 0 .. 255
         /\ nextWritePageInfo' \in PageTag \cup {NoPageTag}
         /\ oldestPageInfo' \in PageTag \cup {NoPageTag}
         /\ listener' \in {"Idle", "Erasing"}
         /\ reinit' \in BOOLEAN
         /\ erasing' \in EraseJob
         /\ phase' \in {"init", "run", "halted"}
<1> DEFINE tag == SuccessorTag(newest)
           closed == [f EXCEPT ![newest.pageId].complete = tag]
<1>1. tag \in CompleteTag
  BY SuccessorTagType
<1>2. newest.pageId \in Pages
  BY DEF PageTag
<1>3. closed \in [Pages -> Page]
  BY <1>1, <1>2, CompleteTagWrittenType
<1>4. Increment(nrOfFullPages) \in 0 .. 255
  BY CounterType DEF TypeOK
<1>5. /\ flash' = closed
      /\ AdjustNextWritePage(closed, tag, oldest, Increment(nrOfFullPages),
                             resume)
  BY DEF ClosePage
<1> HIDE DEF tag, closed
<1>6. AdjustNextWritePage(closed, tag, oldest, Increment(nrOfFullPages), resume)
  BY <1>5
<1>7. flash' \in [Pages -> Page]
  BY <1>3, <1>5
<1>8. /\ nrOfFullPages' \in 0 .. 255
      /\ nextWritePageInfo' \in PageTag \cup {NoPageTag}
      /\ oldestPageInfo' \in PageTag \cup {NoPageTag}
      /\ listener' \in {"Idle", "Erasing"}
      /\ reinit' \in BOOLEAN
      /\ erasing' \in EraseJob
      /\ phase' \in {"init", "run", "halted"}
  BY <1>1, <1>3, <1>4, <1>6, AdjustNextWritePageType
<1> QED
  BY <1>7, <1>8

\* Taking a message, or adding one, leaves a queue of messages.
LEMMA QueueType ==
  ASSUME NEW queue \in Seq(Message), NEW message \in Message
  PROVE  /\ queue # <<>> => Tail(queue) \in Seq(Message)
         /\ Append(queue, message) \in Seq(Message)
OBVIOUS

LEMMA DispatchType ==
  ASSUME TypeOK, NEW message, Dispatch(message)
  PROVE  messages' \in Seq(Message) /\ phase = "run"
BY QueueType DEF TypeOK, Dispatch, IsNext

\* What BeginInit assigns.
LEMMA BeginInitType ==
  ASSUME NEW f, BeginInit(f)
  PROVE  /\ nextWritePageInfo' \in PageTag \cup {NoPageTag}
         /\ oldestPageInfo' \in PageTag \cup {NoPageTag}
         /\ phase' \in {"init", "run", "halted"}
         /\ initPage' \in FirstPage .. LastPage + 1
         /\ soundBoot' \in BOOLEAN
<1>1. initPage' \in FirstPage .. LastPage + 1
  BY Numbers DEF BeginInit
<1>2. Recoverable(f) \in BOOLEAN
  BY DEF Recoverable
<1> QED
  BY <1>1, <1>2, FirstTagType DEF BeginInit

\* After a loss of power everything but the flash starts anew.
LEMMA RebootType ==
  ASSUME NEW f \in [Pages -> Page], Reboot(f)
  PROVE  TypeOK'
<1>1. BeginInit(f)
  BY DEF Reboot
<1>2. erasing' \in EraseJob
  BY DEF Reboot, EraseJob
<1>3. messages' \in Seq(Message)
  BY DEF Reboot
<1>4. /\ nextWritePageInfo' \in PageTag \cup {NoPageTag}
      /\ oldestPageInfo' \in PageTag \cup {NoPageTag}
      /\ phase' \in {"init", "run", "halted"}
      /\ initPage' \in FirstPage .. LastPage + 1
      /\ soundBoot' \in BOOLEAN
  BY <1>1, BeginInitType
<1>5. /\ flash' \in [Pages -> Page]
      /\ nrOfFullPages' \in 0 .. 255
      /\ currentPageNrOfItems' \in Nat
  BY DEF Reboot
<1>6. /\ listener' \in {"Idle", "Erasing"}
      /\ reinit' \in BOOLEAN
      /\ eraseReminder' \in BOOLEAN
      /\ eraseFailed' \in BOOLEAN
  BY DEF Reboot
<1> QED
  BY <1>2, <1>3, <1>4, <1>5, <1>6 DEF TypeOK

\* The page that is being initialized, and its begin tag.
LEMMA InitStepType ==
  ASSUME TypeOK, InitStep
  PROVE  /\ initPage \in Pages
         /\ initPage' \in FirstPage .. LastPage + 1
         /\ eraseReminder' \in BOOLEAN
         /\ messages' \in Seq(Message)
         /\ soundBoot' \in BOOLEAN
         /\ eraseFailed' \in BOOLEAN
         /\ NewestWith(HeaderTag) \in PageTag \cup {NoPageTag}
         /\ OldestWith(HeaderTag) \in PageTag \cup {NoPageTag}
<1>1. initPage \in Pages /\ initPage' = initPage + 1
  BY DEF InitStep
<1>2. initPage' \in FirstPage .. LastPage + 1
  BY <1>1, Numbers DEF Pages
<1>3. HeaderTag \in PageTag \cup {NoPageTag}
  BY <1>1, BeginTagType DEF HeaderTag, TypeOK
<1>4. /\ NewestWith(HeaderTag) \in PageTag \cup {NoPageTag}
      /\ OldestWith(HeaderTag) \in PageTag \cup {NoPageTag}
  BY <1>3 DEF NewestWith, OldestWith, TypeOK
<1> QED
  BY <1>1, <1>2, <1>4 DEF InitStep, TypeOK

LEMMA InitType == Init => TypeOK
<1> SUFFICES ASSUME Init
             PROVE  TypeOK
  OBVIOUS
<1>1. flash \in [Pages -> Page]
  BY ErasedPageType DEF Init
<1>2. erasing \in EraseJob
  BY DEF Init, EraseJob
<1>3. initPage \in FirstPage .. LastPage + 1
  BY Numbers DEF Init
<1>4. messages \in Seq(Message)
  BY DEF Init
<1>5. /\ nextWritePageInfo \in PageTag \cup {NoPageTag}
      /\ oldestPageInfo \in PageTag \cup {NoPageTag}
  BY FirstTagType DEF Init
<1>6. nrOfFullPages \in 0 .. 255 /\ currentPageNrOfItems \in Nat
  BY DEF Init
<1> QED
  BY <1>1, <1>2, <1>3, <1>4, <1>5, <1>6 DEF Init, TypeOK

\* Every step keeps the types.
LEMMA NextType == TypeOK /\ [Next]_vars => TypeOK'
<1> SUFFICES ASSUME TypeOK, [Next]_vars
             PROVE  TypeOK'
  OBVIOUS
<1> USE DEF ramVars, bootVars
<1>1. ASSUME NEW item \in Item, RequestAddItem(item)
      PROVE  TypeOK'
  <2>1. messages' \in Seq(Message)
    BY <1>1, QueueType DEF RequestAddItem, TypeOK, Message
  <2> QED
    BY <1>1, <2>1 DEF RequestAddItem, TypeOK
<1>2. CASE DeleteAllItems
  <2>1. messages' \in Seq(Message)
    BY <1>2, QueueType DEF DeleteAllItems, TypeOK, Message
  <2>2. nrOfFullPages' \in 0 .. 255 /\ currentPageNrOfItems' \in Nat
    BY <1>2 DEF DeleteAllItems
  <2> QED
    BY <1>2, <2>1, <2>2 DEF DeleteAllItems, TypeOK
<1>3. ASSUME NEW item \in Item, AddFirstItem(item)
      PROVE  TypeOK'
  <2>1. nextWritePageInfo \in PageTag /\ WritePage \in Pages
    BY <1>3, PageTagOfStore DEF AddFirstItem, HasFreePage, WritePage, TypeOK
  <2>2. BeginTagWritten(flash, nextWritePageInfo) \in [Pages -> Page]
    BY <2>1, BeginTagWrittenType DEF TypeOK
  <2>3. flash' \in [Pages -> Page]
    BY <1>3, <2>1, <2>2, ItemWrittenType DEF AddFirstItem
  <2>4. messages' \in Seq(Message)
    BY <1>3, DispatchType DEF AddFirstItem
  <2>5. currentPageNrOfItems' \in Nat
    BY <1>3 DEF AddFirstItem
  <2> QED
    BY <1>3, <2>3, <2>4, <2>5 DEF AddFirstItem, TypeOK
<1>4. ASSUME NEW item \in Item, AddNextItem(item)
      PROVE  TypeOK'
  <2>1. flash' \in [Pages -> Page]
    BY <1>4, ItemWrittenType DEF AddNextItem, HasFreeSlot, TypeOK
  <2>2. messages' \in Seq(Message)
    BY <1>4, DispatchType DEF AddNextItem
  <2>3. currentPageNrOfItems' \in Nat
    BY <1>4 DEF AddNextItem, TypeOK
  <2> QED
    BY <1>4, <2>1, <2>2, <2>3 DEF AddNextItem, TypeOK
<1>5. ASSUME NEW item \in Item, AddLastItem(item)
      PROVE  TypeOK'
  <2>1. nextWritePageInfo \in PageTag /\ WritePage \in Pages
    BY <1>5, PageTagOfStore DEF AddLastItem, HasFreeSlot, WritePage, TypeOK
  <2>2. ItemWritten(flash, WritePage, item) \in [Pages -> Page]
    BY <2>1, ItemWrittenType DEF TypeOK
  <2>3. ClosePage(ItemWritten(flash, WritePage, item), nextWritePageInfo,
                  oldestPageInfo, "run")
    BY <1>5 DEF AddLastItem
  <2>4. /\ flash' \in [Pages -> Page]
        /\ nrOfFullPages' \in 0 .. 255
        /\ nextWritePageInfo' \in PageTag \cup {NoPageTag}
        /\ oldestPageInfo' \in PageTag \cup {NoPageTag}
        /\ listener' \in {"Idle", "Erasing"}
        /\ reinit' \in BOOLEAN
        /\ erasing' \in EraseJob
        /\ phase' \in {"init", "run", "halted"}
    BY <2>1, <2>2, <2>3, ClosePageType DEF TypeOK
  <2>5. messages' \in Seq(Message)
    BY <1>5, DispatchType DEF AddLastItem
  <2>6. currentPageNrOfItems' \in Nat
    BY <1>5 DEF AddLastItem, TypeOK
  <2> QED
    BY <1>5, <2>4, <2>5, <2>6 DEF AddLastItem, TypeOK
<1>6. ASSUME NEW item \in Item, LoseItem(item)
      PROVE  TypeOK'
  <2>1. messages' \in Seq(Message)
    BY <1>6, DispatchType DEF LoseItem
  <2> QED
    BY <1>6, <2>1 DEF LoseItem, TypeOK
<1>7. CASE InitItemStore
  <2>1. /\ initPage' \in FirstPage .. LastPage + 1
        /\ eraseReminder' \in BOOLEAN
        /\ messages' \in Seq(Message)
        /\ soundBoot' \in BOOLEAN
        /\ eraseFailed' \in BOOLEAN
    BY <1>7, InitStepType
       DEF InitItemStore, SkipErasedPage, CountFullPage, RecoverOpenPage,
           CloseRecoveredPage, FinishInit, TypeOK
  <2>2. CASE SkipErasedPage
    BY <2>1, <2>2 DEF SkipErasedPage, TypeOK
  <2>3. CASE CountFullPage
    <3>1. /\ nextWritePageInfo' \in PageTag \cup {NoPageTag}
          /\ oldestPageInfo' \in PageTag \cup {NoPageTag}
      BY <2>3, InitStepType DEF CountFullPage
    <3>2. nrOfFullPages' \in 0 .. 255
      BY <2>3, CounterType DEF CountFullPage, TypeOK
    <3> QED
      BY <2>1, <2>3, <3>1, <3>2 DEF CountFullPage, TypeOK
  <2>4. CASE RecoverOpenPage
    <3>1. /\ nextWritePageInfo' \in PageTag \cup {NoPageTag}
          /\ oldestPageInfo' \in PageTag \cup {NoPageTag}
      BY <2>4, InitStepType DEF RecoverOpenPage
    <3>2. currentPageNrOfItems' \in Nat
      BY <2>4, InitStepType DEF RecoverOpenPage, TypeOK, Page
    <3> QED
      BY <2>1, <2>4, <3>1, <3>2 DEF RecoverOpenPage, TypeOK
  <2>5. CASE CloseRecoveredPage
    <3> DEFINE newest == NewestWith(HeaderTag)
               oldest == OldestWith(HeaderTag)
               canWrite == newest.pageId \in Pages /\ erasing.left = 0
    <3>1. currentPageNrOfItems' \in Nat
      BY <2>5, InitStepType DEF CloseRecoveredPage, TypeOK, Page
    <3>2. /\ newest \in PageTag \cup {NoPageTag}
          /\ oldest \in PageTag \cup {NoPageTag}
      BY <2>5, InitStepType DEF CloseRecoveredPage
    <3>3. CASE canWrite /\ ~IsComplete(flash[newest.pageId])
      <4>1. ClosePage(flash, newest, oldest, "init")
        BY <2>5, <3>3 DEF CloseRecoveredPage
      <4>2. newest \in PageTag
        BY <3>2, <3>3, PageTagOfStore
      <4>3. flash \in [Pages -> Page]
        BY DEF TypeOK
      <4> HIDE DEF newest, oldest
      <4>4. /\ flash' \in [Pages -> Page]
            /\ nrOfFullPages' \in 0 .. 255
            /\ nextWritePageInfo' \in PageTag \cup {NoPageTag}
            /\ oldestPageInfo' \in PageTag \cup {NoPageTag}
            /\ listener' \in {"Idle", "Erasing"}
            /\ reinit' \in BOOLEAN
            /\ erasing' \in EraseJob
            /\ phase' \in {"init", "run", "halted"}
        BY <3>2, <4>1, <4>2, <4>3, ClosePageType
      <4> QED
        BY <2>1, <3>1, <4>4 DEF TypeOK
    <3>4. CASE ~(canWrite /\ ~IsComplete(flash[newest.pageId]))
      <4>1. /\ nextWritePageInfo' = newest
            /\ oldestPageInfo' = oldest
            /\ phase' \in {phase, "halted"}
            /\ UNCHANGED <<flash, nrOfFullPages, listener, reinit, erasing>>
        BY <2>5, <3>4 DEF CloseRecoveredPage
      <4> HIDE DEF newest, oldest
      <4> QED
        BY <2>1, <3>1, <3>2, <4>1 DEF TypeOK
    <3> QED
      BY <3>3, <3>4
  <2>6. CASE FinishInit
    <3>1. CASE WritePage \in Pages /\ IsComplete(flash[WritePage])
      <4> DEFINE tag == flash[WritePage].complete
      <4>1. tag \in CompleteTag
        BY <3>1 DEF TypeOK, Page, IsComplete
      <4>2. AdjustNextWritePage(flash, tag, oldestPageInfo, nrOfFullPages, "run")
        BY <2>6, <3>1 DEF FinishInit
      <4> HIDE DEF tag
      <4>3. /\ nrOfFullPages' \in 0 .. 255
            /\ nextWritePageInfo' \in PageTag \cup {NoPageTag}
            /\ oldestPageInfo' \in PageTag \cup {NoPageTag}
            /\ listener' \in {"Idle", "Erasing"}
            /\ reinit' \in BOOLEAN
            /\ erasing' \in EraseJob
            /\ phase' \in {"init", "run", "halted"}
        BY <4>1, <4>2, AdjustNextWritePageType DEF TypeOK
      <4> QED
        BY <2>1, <2>6, <4>3 DEF FinishInit, TypeOK
    <3>2. CASE ~(WritePage \in Pages /\ IsComplete(flash[WritePage]))
      <4>1. /\ phase' = "run"
            /\ UNCHANGED <<nrOfFullPages, nextWritePageInfo, oldestPageInfo,
                           listener, reinit, erasing>>
        BY <2>6, <3>2 DEF FinishInit
      <4>2. UNCHANGED <<flash, currentPageNrOfItems>>
        BY <2>6 DEF FinishInit
      <4> QED
        BY <2>1, <4>1, <4>2 DEF TypeOK
    <3> QED
      BY <3>1, <3>2
  <2> QED
    BY <1>7, <2>2, <2>3, <2>4, <2>5, <2>6 DEF InitItemStore
<1>8. CASE StartErase
  <2>1. erasing' \in EraseJob /\ phase' \in {"init", "run", "halted"}
    BY <1>8, WholeStoreType, FlashEraseType DEF StartErase, TypeOK
  <2>2. messages' \in Seq(Message)
    BY <1>8, DispatchType DEF StartErase
  <2> QED
    BY <1>8, <2>1, <2>2 DEF StartErase, TypeOK
<1>9. CASE RemindErase
  <2>1. messages' \in Seq(Message)
    BY <1>9, DispatchType DEF RemindErase
  <2> QED
    BY <1>9, <2>1 DEF RemindErase, TypeOK
<1>10. CASE EraseDone
  <2>1. messages' \in Seq(Message)
    BY <1>10, DispatchType DEF EraseDone
  <2> QED
    BY <1>10, <2>1 DEF EraseDone, TypeOK
<1>11. CASE EraseReminded
  <2>1. erasing' \in EraseJob /\ phase' \in {"init", "run", "halted"}
    BY <1>11, WholeStoreType, FlashEraseType DEF EraseReminded, TypeOK
  <2>2. messages' \in Seq(Message)
    BY <1>11, DispatchType DEF EraseReminded
  <2> QED
    BY <1>11, <2>1, <2>2 DEF EraseReminded, TypeOK
<1>12. CASE EraseDoneReinit
  <2>1. messages' \in Seq(Message)
    BY <1>12, DispatchType DEF EraseDoneReinit
  <2>2. /\ nextWritePageInfo' \in PageTag \cup {NoPageTag}
        /\ oldestPageInfo' \in PageTag \cup {NoPageTag}
        /\ phase' \in {"init", "run", "halted"}
        /\ initPage' \in FirstPage .. LastPage + 1
        /\ soundBoot' \in BOOLEAN
    BY <1>12, BeginInitType DEF EraseDoneReinit
  <2> QED
    BY <1>12, <2>1, <2>2 DEF EraseDoneReinit, TypeOK
<1>13. CASE FlashEndOfOperation
  <2>1. erasing.page \in Pages /\ erasing \in EraseJob
    BY <1>13 DEF FlashEndOfOperation, TypeOK, EraseJob
  <2>2. flash' \in [Pages -> Page]
    BY <1>13, <2>1, ErasedPageType DEF FlashEndOfOperation, TypeOK
  <2>3. erasing' \in EraseJob
    BY <1>13, <2>1, Numbers DEF FlashEndOfOperation, EraseJob, Pages
  <2>4. messages' \in Seq(Message)
    BY <1>13, QueueType DEF FlashEndOfOperation, TypeOK, Message
  <2> QED
    BY <1>13, <2>2, <2>3, <2>4 DEF FlashEndOfOperation, TypeOK
<1>14. CASE FlashOperationError
  <2>1. erasing' \in EraseJob
    BY <1>14 DEF FlashOperationError, TypeOK, EraseJob
  <2>2. messages' \in Seq(Message)
    BY <1>14, QueueType DEF FlashOperationError, TypeOK, Message
  <2> QED
    BY <1>14, <2>1, <2>2 DEF FlashOperationError, TypeOK
<1>15. CASE Reset
  BY <1>15, RebootType DEF Reset, TypeOK
<1>16. ASSUME NEW item \in Item, ResetBehindBeginTag(item)
       PROVE  TypeOK'
  <2>1. nextWritePageInfo \in PageTag
    BY <1>16, PageTagOfStore
       DEF ResetBehindBeginTag, HasFreePage, WritePage, TypeOK
  <2>2. BeginTagWritten(flash, nextWritePageInfo) \in [Pages -> Page]
    BY <2>1, BeginTagWrittenType DEF TypeOK
  <2> QED
    BY <1>16, <2>2, RebootType DEF ResetBehindBeginTag
<1>17. ASSUME NEW item \in Item, ResetBeforeCompleteTag(item)
       PROVE  TypeOK'
  <2>1. ItemWritten(flash, WritePage, item) \in [Pages -> Page]
    BY <1>17, ItemWrittenType DEF ResetBeforeCompleteTag, HasFreeSlot, TypeOK
  <2> QED
    BY <1>17, <2>1, RebootType DEF ResetBeforeCompleteTag
<1>18. CASE UNCHANGED vars
  BY <1>18 DEF vars, eraseVars, TypeOK
<1> QED
  BY <1>1, <1>2, <1>3, <1>4, <1>5, <1>6, <1>7, <1>8, <1>9, <1>10, <1>11,
     <1>12, <1>13, <1>14, <1>15, <1>16, <1>17, <1>18
     DEF Next, HandleMessage, AddItem, HandleErase, HandleEraseDone, PowerLoss

(***************************************************************************)
(* The variables keep their types in every behaviour: the page tags in RAM *)
(* and in flash name pages of this store only, the counters do not leave   *)
(* their width, and no erase reaches beyond the pages of the store.        *)
(***************************************************************************)
THEOREM TypeCorrect == Spec => []TypeOK
<1>1. Init => TypeOK
  BY InitType
<1>2. TypeOK /\ [Next]_vars => TypeOK'
  BY NextType
<1> QED
  BY <1>1, <1>2, PTL DEF Spec

-----------------------------------------------------------------------------
(* The erase interlock.  It is inductive together with the fact that no    *)
(* report of a finished erase waits while the store is initialized: only   *)
(* then may InitItemStore start an erase of its own.                       *)

AtMostOne(S) == \A i, j \in S : i = j

InterlockInv ==
  /\ TypeOK
  /\ EraseInterlock
  /\ phase = "init" => DoneMessages = {}

\* How taking the first message changes the reports in the queue ...
LEMMA DonesInTail ==
  ASSUME NEW queue \in Seq(Message), queue # <<>>, Head(queue) # "ERASE_DONE"
  PROVE  /\ DonesIn(Tail(queue)) = {} <=> DonesIn(queue) = {}
         /\ AtMostOne(DonesIn(queue)) => AtMostOne(DonesIn(Tail(queue)))
<1>1. /\ Len(queue) \in Nat /\ Len(queue) >= 1
      /\ DOMAIN queue = 1 .. Len(queue)
      /\ DOMAIN Tail(queue) = 1 .. Len(queue) - 1
      /\ \A i \in 1 .. Len(queue) - 1 : Tail(queue)[i] = queue[i + 1]
      /\ queue[1] = Head(queue)
  OBVIOUS
<1>2. \A i \in DonesIn(Tail(queue)) : i \in Nat /\ i + 1 \in DonesIn(queue)
  BY <1>1 DEF DonesIn
<1>3. \A i \in DonesIn(queue) : i - 1 \in DonesIn(Tail(queue))
  BY <1>1 DEF DonesIn
<1>4. DonesIn(Tail(queue)) = {} <=> DonesIn(queue) = {}
  BY <1>2, <1>3
<1>5. ASSUME AtMostOne(DonesIn(queue)),
             NEW i \in DonesIn(Tail(queue)), NEW j \in DonesIn(Tail(queue))
      PROVE  i = j
  <2>1. i + 1 = j + 1
    BY <1>2, <1>5 DEF AtMostOne
  <2> QED
    BY <1>2, <2>1
<1> QED
  BY <1>4, <1>5 DEF AtMostOne

LEMMA DonesInTailOfDone ==
  ASSUME NEW queue \in Seq(Message), queue # <<>>, Head(queue) = "ERASE_DONE",
         AtMostOne(DonesIn(queue))
  PROVE  DonesIn(Tail(queue)) = {} /\ DonesIn(queue) # {}
<1>1. /\ Len(queue) \in Nat /\ Len(queue) >= 1
      /\ DOMAIN queue = 1 .. Len(queue)
      /\ DOMAIN Tail(queue) = 1 .. Len(queue) - 1
      /\ \A i \in 1 .. Len(queue) - 1 : Tail(queue)[i] = queue[i + 1]
      /\ queue[1] = Head(queue)
  OBVIOUS
<1>2. 1 \in DonesIn(queue)
  BY <1>1 DEF DonesIn
<1>3. ASSUME NEW i \in DonesIn(Tail(queue))
      PROVE  FALSE
  <2>1. i \in Nat /\ i >= 1 /\ i + 1 \in DonesIn(queue)
    BY <1>1 DEF DonesIn
  <2>2. i + 1 = 1
    BY <1>2, <2>1 DEF AtMostOne
  <2> QED
    BY <2>1, <2>2
<1> QED
  BY <1>2, <1>3

\* ... and how a new message does.
LEMMA DonesInAppend ==
  ASSUME NEW queue \in Seq(Message), NEW message \in Message
  PROVE  /\ message # "ERASE_DONE" =>
              DonesIn(Append(queue, message)) = DonesIn(queue)
         /\ message = "ERASE_DONE" =>
              DonesIn(Append(queue, message))
                = DonesIn(queue) \cup {Len(queue) + 1}
<1>1. /\ Len(queue) \in Nat
      /\ DOMAIN queue = 1 .. Len(queue)
      /\ DOMAIN Append(queue, message) = 1 .. Len(queue) + 1
      /\ \A i \in 1 .. Len(queue) : Append(queue, message)[i] = queue[i]
      /\ Append(queue, message)[Len(queue) + 1] = message
  OBVIOUS
<1> QED
  BY <1>1 DEF DonesIn

\* A step that takes no report, and one that takes it.
LEMMA DispatchDones ==
  ASSUME InterlockInv, NEW message, message # "ERASE_DONE", Dispatch(message)
  PROVE  /\ DoneMessages' = {} <=> DoneMessages = {}
         /\ AtMostOne(DoneMessages) => AtMostOne(DoneMessages')
BY DonesInTail DEF InterlockInv, TypeOK, Dispatch, IsNext, DoneMessages

LEMMA DispatchDone ==
  ASSUME InterlockInv, Dispatch("ERASE_DONE")
  PROVE  DoneMessages' = {} /\ erasing.left = 0
<1>1. AtMostOne(DonesIn(messages))
  BY DEF InterlockInv, EraseInterlock, AtMostOne, DoneMessages
<1>2. DonesIn(Tail(messages)) = {} /\ DoneMessages # {}
  BY <1>1, DonesInTailOfDone
     DEF InterlockInv, TypeOK, Dispatch, IsNext, DoneMessages
<1>3. erasing.left \in Nat
  BY DEF InterlockInv, TypeOK, EraseJob
<1> QED
  BY <1>2, <1>3 DEF Dispatch, DoneMessages, InterlockInv, EraseInterlock

\* AdjustNextWritePage goes to ListenerErasingState together with the erase.
LEMMA AdjustNextWritePageInterlock ==
  ASSUME InterlockInv, DoneMessages = {}, DoneMessages' = {},
         NEW f, NEW tag, NEW oldest, NEW full, NEW resume,
         AdjustNextWritePage(f, tag, oldest, full, resume)
  PROVE  EraseInterlock'
<1>1. erasing.left \in Nat
  BY DEF InterlockInv, TypeOK, EraseJob
<1>2. listener = "Erasing" <=> erasing.left > 0
  BY DEF InterlockInv, EraseInterlock
<1>3. listener' = "Erasing" <=> erasing'.left > 0
  <2>1. CASE HasNoData(f[tag.nextPage]) \/ oldest.pageId # tag.nextPage
    BY <1>2, <2>1 DEF AdjustNextWritePage
  <2>2. CASE ~(HasNoData(f[tag.nextPage]) \/ oldest.pageId # tag.nextPage)
    <3>1. listener' = "Erasing"
      BY <2>2 DEF AdjustNextWritePage
    <3>2. erasing' = IF erasing.left = 0
                       THEN [page |-> tag.nextPage, left |-> 1] ELSE erasing
      BY <2>2 DEF AdjustNextWritePage, FlashErase
    <3>3. erasing'.left > 0
      BY <1>1, <3>2
    <3> QED
      BY <3>1, <3>3
  <2> QED
    BY <2>1, <2>2
<1> QED
  BY <1>3 DEF EraseInterlock

\* In ListenerIdleState nothing is being erased and no report waits.
LEMMA IdleInterlock ==
  ASSUME InterlockInv, listener = "Idle"
  PROVE  erasing.left = 0 /\ DoneMessages = {}
<1>1. erasing.left \in Nat
  BY DEF InterlockInv, TypeOK, EraseJob
<1> QED
  BY <1>1 DEF InterlockInv, EraseInterlock

LEMMA RebootInterlock ==
  ASSUME NEW f, Reboot(f)
  PROVE  EraseInterlock' /\ DoneMessages' = {}
<1>1. messages' = <<>> /\ listener' = "Idle" /\ erasing' = [page |-> 0, left |-> 0]
  BY DEF Reboot
<1>2. DoneMessages' = {}
  BY <1>1 DEF DoneMessages, DonesIn
<1> QED
  BY <1>1, <1>2 DEF EraseInterlock

LEMMA InterlockInit == Init => InterlockInv
<1> SUFFICES ASSUME Init
             PROVE  InterlockInv
  OBVIOUS
<1>1. DoneMessages = {}
  BY DEF Init, DoneMessages, DonesIn
<1>2. EraseInterlock
  BY <1>1 DEF Init, EraseInterlock
<1> QED
  BY <1>1, <1>2, InitType DEF InterlockInv

\* Every step keeps the interlock.
LEMMA InterlockNext == InterlockInv /\ [Next]_vars => InterlockInv'
<1> SUFFICES ASSUME InterlockInv, [Next]_vars
             PROVE  EraseInterlock' /\ (phase' = "init" => DoneMessages' = {})
  BY NextType DEF InterlockInv
<1> USE DEF bootVars
<1>a. EraseInterlock /\ messages \in Seq(Message) /\ erasing.left \in Nat
  BY DEF InterlockInv, TypeOK, EraseJob
<1>b. \A item \in Item : item # "ERASE" /\ item # "ERASE_DONE"
  BY ItemStoreAssumption DEF ItemStoreAssumption
<1>1. ASSUME NEW item \in Item, RequestAddItem(item)
      PROVE  EraseInterlock' /\ phase' # "init"
  <2>1. DoneMessages' = DoneMessages
    BY <1>1, <1>a, <1>b, DonesInAppend DEF RequestAddItem, DoneMessages, Message
  <2> QED
    BY <1>1, <1>a, <2>1 DEF RequestAddItem, CanPublish, EraseInterlock
<1>2. CASE DeleteAllItems
  <2>1. DoneMessages' = DoneMessages
    BY <1>2, <1>a, DonesInAppend DEF DeleteAllItems, DoneMessages, Message
  <2> QED
    BY <1>2, <1>a, <2>1 DEF DeleteAllItems, CanPublish, EraseInterlock
<1>3. ASSUME NEW item \in Item, Dispatch(item),
             UNCHANGED <<listener, erasing, phase>>
      PROVE  EraseInterlock' /\ phase' # "init"
  <2>1. /\ DoneMessages' = {} <=> DoneMessages = {}
        /\ AtMostOne(DoneMessages) => AtMostOne(DoneMessages')
    BY <1>3, <1>b, DispatchDones
  <2> QED
    BY <1>3, <1>a, <2>1 DEF EraseInterlock, AtMostOne, Dispatch, IsNext
<1>4. ASSUME NEW item \in Item, AddItem(item)
      PROVE  EraseInterlock' /\ phase' # "init"
  <2>1. CASE AddFirstItem(item) \/ AddNextItem(item) \/ LoseItem(item)
    BY <1>3, <2>1 DEF AddFirstItem, AddNextItem, LoseItem
  <2>2. CASE AddLastItem(item)
    <3>1. DoneMessages = {} /\ DoneMessages' = {}
      BY <1>b, <2>2, IdleInterlock, DispatchDones DEF AddLastItem
    <3> DEFINE f == ItemWritten(flash, WritePage, item)
               tag == SuccessorTag(nextWritePageInfo)
               closed == [f EXCEPT ![nextWritePageInfo.pageId].complete = tag]
               full == Increment(nrOfFullPages)
    <3>2. AdjustNextWritePage(closed, tag, oldestPageInfo, full, "run")
      BY <2>2 DEF AddLastItem, ClosePage
    <3> HIDE DEF closed, tag, full
    <3>3. EraseInterlock'
      BY <3>1, <3>2, AdjustNextWritePageInterlock
    <3>4. phase' \in {"run", "halted"}
      BY <3>2 DEF AdjustNextWritePage, FlashErase
    <3> QED
      BY <3>3, <3>4
  <2> QED
    BY <1>4, <2>1, <2>2 DEF AddItem
<1>5. CASE InitItemStore
  <2>1. phase = "init" /\ messages' = messages
    BY <1>5 DEF InitItemStore, InitStep, SkipErasedPage, CountFullPage,
                RecoverOpenPage, CloseRecoveredPage, FinishInit
  <2>2. DoneMessages = {} /\ DoneMessages' = {}
    BY <2>1 DEF InterlockInv, DoneMessages
  <2>3. ASSUME UNCHANGED <<listener, erasing>>
        PROVE  EraseInterlock'
    BY <1>a, <2>2, <2>3 DEF EraseInterlock
  <2>4. CASE SkipErasedPage \/ CountFullPage \/ RecoverOpenPage
    BY <2>2, <2>3, <2>4 DEF SkipErasedPage, CountFullPage, RecoverOpenPage
  <2>5. CASE CloseRecoveredPage
    <3> DEFINE newest == NewestWith(HeaderTag)
               oldest == OldestWith(HeaderTag)
               canWrite == newest.pageId \in Pages /\ erasing.left = 0
    <3>1. CASE canWrite /\ ~IsComplete(flash[newest.pageId])
      <4> DEFINE tag == SuccessorTag(newest)
                 closed == [flash EXCEPT ![newest.pageId].complete = tag]
                 full == Increment(nrOfFullPages)
      <4>1. AdjustNextWritePage(closed, tag, oldest, full, "init")
        BY <2>5, <3>1 DEF CloseRecoveredPage, ClosePage
      <4> HIDE DEF closed, tag, full, oldest
      <4> QED
        BY <2>2, <4>1, AdjustNextWritePageInterlock
    <3>2. CASE ~(canWrite /\ ~IsComplete(flash[newest.pageId]))
      <4>1. UNCHANGED <<listener, erasing>>
        BY <2>5, <3>2 DEF CloseRecoveredPage
      <4> QED
        BY <2>2, <2>3, <4>1
    <3> QED
      BY <3>1, <3>2
  <2>6. CASE FinishInit
    <3>1. CASE WritePage \in Pages /\ IsComplete(flash[WritePage])
      <4> DEFINE tag == flash[WritePage].complete
      <4>1. AdjustNextWritePage(flash, tag, oldestPageInfo, nrOfFullPages, "run")
        BY <2>6, <3>1 DEF FinishInit
      <4> HIDE DEF tag
      <4> QED
        BY <2>2, <4>1, AdjustNextWritePageInterlock
    <3>2. CASE ~(WritePage \in Pages /\ IsComplete(flash[WritePage]))
      BY <2>2, <2>3, <2>6, <3>2 DEF FinishInit
    <3> QED
      BY <3>1, <3>2
  <2> QED
    BY <1>5, <2>4, <2>5, <2>6, <2>2 DEF InitItemStore
<1>6. CASE StartErase
  <2>1. erasing.left = 0 /\ DoneMessages' = {}
    BY <1>6, IdleInterlock, DispatchDones DEF StartErase
  <2>2. erasing' = WholeStore /\ phase' = "run" /\ listener' = "Erasing"
    BY <1>6, <2>1 DEF StartErase, FlashErase
  <2>3. erasing'.left > 0
    BY <2>2, Numbers DEF WholeStore
  <2> QED
    BY <2>1, <2>2, <2>3 DEF EraseInterlock
<1>7. CASE RemindErase
  <2>1. /\ DoneMessages' = {} <=> DoneMessages = {}
        /\ AtMostOne(DoneMessages) => AtMostOne(DoneMessages')
    BY <1>7, DispatchDones DEF RemindErase
  <2> QED
    BY <1>7, <1>a, <2>1
       DEF EraseInterlock, AtMostOne, RemindErase, Dispatch, IsNext
<1>8. CASE EraseDone
  <2>1. DoneMessages' = {} /\ erasing.left = 0
    BY <1>8, DispatchDone DEF EraseDone
  <2> QED
    BY <1>8, <2>1 DEF EraseDone, EraseInterlock
<1>9. CASE EraseReminded
  <2>1. erasing.left = 0 /\ DoneMessages' = {}
    BY <1>9, DispatchDone DEF EraseReminded
  <2>2. erasing' = WholeStore /\ phase' = "run" /\ listener' = "Erasing"
    BY <1>9, <2>1 DEF EraseReminded, FlashErase
  <2>3. erasing'.left > 0
    BY <2>2, Numbers DEF WholeStore
  <2> QED
    BY <2>1, <2>2, <2>3 DEF EraseInterlock
<1>10. CASE EraseDoneReinit
  <2>1. DoneMessages' = {} /\ erasing.left = 0
    BY <1>10, DispatchDone DEF EraseDoneReinit
  <2> QED
    BY <1>10, <2>1 DEF EraseDoneReinit, EraseInterlock
<1>11. CASE FlashEndOfOperation
  <2>1. listener = "Erasing" /\ DoneMessages = {} /\ phase' = "run"
    BY <1>11, <1>a DEF FlashEndOfOperation, EraseInterlock
  <2>2. erasing'.left = erasing.left - 1 /\ listener' = listener
    BY <1>11 DEF FlashEndOfOperation
  <2>3. CASE erasing.left = 1
    <3>1. DoneMessages' = {Len(messages) + 1}
      BY <1>11, <1>a, <2>1, <2>3, DonesInAppend
         DEF FlashEndOfOperation, DoneMessages, Message
    <3> QED
      BY <1>a, <2>1, <2>2, <2>3, <3>1 DEF EraseInterlock
  <2>4. CASE erasing.left # 1
    <3>1. DoneMessages' = {}
      BY <1>11, <2>1, <2>4 DEF FlashEndOfOperation, DoneMessages
    <3>2. erasing'.left > 0
      BY <1>11, <1>a, <2>2, <2>4 DEF FlashEndOfOperation
    <3> QED
      BY <2>1, <2>2, <3>1, <3>2 DEF EraseInterlock
  <2> QED
    BY <2>3, <2>4
<1>12. CASE FlashOperationError
  <2>1. listener = "Erasing" /\ DoneMessages = {} /\ phase' = "run"
    BY <1>12, <1>a DEF FlashOperationError, EraseInterlock
  <2>2. DoneMessages' = {Len(messages) + 1}
    BY <1>12, <1>a, <2>1, DonesInAppend
       DEF FlashOperationError, DoneMessages, Message
  <2>3. erasing'.left = 0 /\ listener' = listener
    BY <1>12 DEF FlashOperationError, InterlockInv, TypeOK, EraseJob
  <2> QED
    BY <2>1, <2>2, <2>3 DEF EraseInterlock
<1>13. CASE PowerLoss
  <2>1. \E f : Reboot(f)
    BY <1>13 DEF PowerLoss, Reset, ResetBehindBeginTag, ResetBeforeCompleteTag
  <2> QED
    BY <2>1, RebootInterlock
<1>14. CASE UNCHANGED vars
  <2>1. UNCHANGED <<messages, listener, erasing, phase>>
    BY <1>14 DEF vars, eraseVars
  <2> QED
    BY <1>a, <2>1 DEF InterlockInv, EraseInterlock, DoneMessages
<1> QED
  BY <1>1, <1>2, <1>4, <1>5, <1>6, <1>7, <1>8, <1>9, <1>10, <1>11, <1>12,
     <1>13, <1>14
     DEF Next, HandleMessage, HandleErase, HandleEraseDone

(***************************************************************************)
(* In every behaviour the listener is in ListenerErasingState exactly as   *)
(* long as the flash erases or the report of its end waits, and at most    *)
(* one report waits: whatever is requested, delayed, reset or fails.       *)
(***************************************************************************)
THEOREM InterlockHolds == Spec => []EraseInterlock
<1>1. Init => InterlockInv
  BY InterlockInit
<1>2. InterlockInv /\ [Next]_vars => InterlockInv'
  BY InterlockNext
<1>3. InterlockInv => EraseInterlock
  BY DEF InterlockInv
<1> QED
  BY <1>1, <1>2, <1>3, PTL DEF Spec

-----------------------------------------------------------------------------
(* No page is programmed while the flash erases.                           *)

LEMMA ErasingNext ==
  InterlockInv /\ Next /\ erasing.left > 0 =>
    \A p \in Pages : flash'[p] \in {flash[p], ErasedPage}
<1> SUFFICES ASSUME InterlockInv, Next, erasing.left > 0
             PROVE  \A p \in Pages : flash'[p] \in {flash[p], ErasedPage}
  OBVIOUS
<1>a. listener = "Erasing" /\ erasing.left # 0
  BY IdleInterlock DEF InterlockInv, TypeOK
<1>b. flash \in [Pages -> Page]
  BY DEF InterlockInv, TypeOK
<1>c. ASSUME UNCHANGED flash
      PROVE  \A p \in Pages : flash'[p] \in {flash[p], ErasedPage}
  BY <1>c
<1>1. CASE \E item \in Item : AddItem(item)
  BY <1>1, <1>a, <1>c DEF AddItem, AddFirstItem, AddNextItem, AddLastItem, LoseItem
<1>2. CASE InitItemStore
  <2>1. CASE SkipErasedPage \/ CountFullPage \/ RecoverOpenPage \/ FinishInit
    BY <1>c, <2>1 DEF SkipErasedPage, CountFullPage, RecoverOpenPage, FinishInit
  <2>2. CASE CloseRecoveredPage
    BY <1>a, <1>c, <2>2 DEF CloseRecoveredPage
  <2> QED
    BY <1>2, <2>1, <2>2 DEF InitItemStore
<1>3. CASE HandleErase \/ HandleEraseDone
  BY <1>3, <1>c DEF HandleErase, HandleEraseDone, StartErase, RemindErase,
                    EraseDone, EraseReminded, EraseDoneReinit
<1>4. CASE \/ \E item \in Item : RequestAddItem(item)
           \/ DeleteAllItems
           \/ FlashOperationError
  BY <1>4, <1>c DEF RequestAddItem, DeleteAllItems, FlashOperationError
<1>5. CASE FlashEndOfOperation
  BY <1>5, <1>b DEF FlashEndOfOperation
<1>6. CASE PowerLoss
  <2>1. CASE Reset
    BY <1>c, <2>1 DEF Reset, Reboot
  <2>2. CASE \E item \in Item : \/ ResetBehindBeginTag(item)
                                 \/ ResetBeforeCompleteTag(item)
    BY <1>a, <2>2 DEF ResetBehindBeginTag, ResetBeforeCompleteTag
  <2> QED
    BY <1>6, <2>1, <2>2 DEF PowerLoss
<1> QED
  BY <1>1, <1>2, <1>3, <1>4, <1>5, <1>6 DEF Next, HandleMessage

(***************************************************************************)
(* The flash is never written while it is being erased: neither by an      *)
(* AddItem that was requested before, nor by a boot or a retry.            *)
(***************************************************************************)
THEOREM EraseExcludesWrite == Spec => NoWriteWhileErasing
<1>1. InterlockInv /\ [Next]_vars =>
        [erasing.left > 0 =>
           \A p \in Pages : flash'[p] \in {flash[p], ErasedPage}]_vars
  BY ErasingNext
<1>2. Init => InterlockInv
  BY InterlockInit
<1>3. InterlockInv /\ [Next]_vars => InterlockInv'
  BY InterlockNext
<1> QED
  BY <1>1, <1>2, <1>3, PTL DEF Spec, NoWriteWhileErasing

-----------------------------------------------------------------------------
(* The inductive invariant.                                                *)

AllErased(f) == \A p \in Pages : f[p] = ErasedPage

\* The tag of the page that follows the one with a given tag.
NextTag(tag) ==
  [pageId |-> NextPageNr(tag.pageId),
   blockId |-> (tag.blockId + 1) % MaxBlockIndex]

\* InitItemStore has scanned the pages below initPage of a ring.  The pages
\* FirstPage .. last are newer than those from the head on, if the ring wraps
\* around, so the newest page is the last one scanned until `last' is passed;
\* a full page that is closed by the way hands over to its successor.
Scanned(head, last) ==
  /\ oldestPageInfo =
       BeginTag(flash, IF head < initPage THEN head ELSE FirstPage)
  /\ IF initPage <= last
       THEN nextWritePageInfo = BeginTag(flash, initPage - 1)
       ELSE \/ nextWritePageInfo = BeginTag(flash, last)
            \/ /\ nextWritePageInfo = NextTag(BeginTag(flash, last))
               /\ IsComplete(flash[last])
               /\ ~IsUsed(flash[NextPageNr(last)])
  /\ initPage > last /\ ~IsComplete(flash[last]) =>
       /\ currentPageNrOfItems = Len(flash[last].items)
       /\ currentPageNrOfItems < ItemsPerPage

\* The full pages among those that are scanned.
FullScanned == {p \in Closed(flash) : p < initPage}

BootInv ==
  /\ listener = "Idle" /\ erasing.left = 0
  /\ nrOfFullPages = Cardinality(FullScanned)
  /\ \/ AllErased(flash) /\ nextWritePageInfo = FirstTag
                         /\ oldestPageInfo = FirstTag
     \/ /\ IsUsed(flash[FirstPage])
        /\ \E head, last \in Pages :
             /\ IsWritten(flash, head, last)
             /\ initPage > FirstPage => Scanned(head, last)

\* A page names the page to write as its successor.
IsAnnounced(f) ==
  \E q \in Pages :
    f[q].complete = [nextPage |-> WritePage,
                     nextPageId |-> nextWritePageInfo.blockId]

\* The page to write is open, or it is erased.
WritePageInv(f) ==
  \/ f[WritePage] = ErasedPage /\ (AllErased(f) \/ IsAnnounced(f))
  \/ IsOpenPage(f[WritePage]) /\ Len(f[WritePage].items) < ItemsPerPage

\* The ring and the pages it begins and ends with; while a page wrap erases the
\* page to write, nothing but this page is erased.
ChainInv ==
  /\ nextWritePageInfo \in PageTag
  /\ oldestPageInfo \in PageTag
  /\ IsRing(Kept, oldestPageInfo.pageId, nextWritePageInfo)
  /\ oldestPageInfo.blockId = IF oldestPageInfo.pageId = WritePage
                                THEN nextWritePageInfo.blockId
                                ELSE Kept[oldestPageInfo.pageId].begin
  /\ WritePageInv(Kept)
  /\ listener = "Erasing" =>
       \/ erasing = [page |-> WritePage, left |-> 1]
       \/ erasing.left = 0 /\ flash[WritePage] = ErasedPage

\* How full its pages are; DeleteAllItems clears these numbers at once.
CountInv ==
  /\ nrOfFullPages = Cardinality(Closed(Kept))
  /\ IsOpenPage(Kept[WritePage]) =>
       currentPageNrOfItems = Len(Kept[WritePage].items)

RunInv == ChainInv /\ CountInv

\* An ERASE waits in a queue; there are too few items in front of it to fill a
\* page that has n items.
EraseWaits(queue) == \E i \in DOMAIN queue : queue[i] = "ERASE"

ErasesInTime(queue, n) ==
  \A i \in DOMAIN queue : queue[i] = "ERASE" => n + i - 1 < ItemsPerPage

\* A request to delete everything.
DeleteInv ==
  /\ Deleting => nrOfFullPages = 0
  /\ ErasesInTime(messages, currentPageNrOfItems)

\* The progress of an erase of the whole store.
EraseInv ==
  listener = "Erasing" /\ reinit =>
    /\ erasing.left > 0 => erasing.page + erasing.left = LastPage + 1
    /\ \A p \in Pages : erasing.left = 0 \/ p < erasing.page =>
                          flash[p] = ErasedPage

RingInv ==
  /\ eraseReminder => listener = "Erasing" /\ phase # "init"
  /\ phase = "init" => ~(listener = "Erasing" /\ reinit)
  /\ ~eraseFailed =>
       /\ phase = "init" => messages = <<>> \/ (AllErased(flash) /\ soundBoot)
       /\ DeleteInv
       /\ EraseInv
       /\ soundBoot =>
            /\ phase # "halted"
            /\ phase = "init" => BootInv
            /\ phase = "run" /\ ~(listener = "Erasing" /\ reinit) => ChainInv
            /\ phase = "run" /\ ~Deleting => CountInv

IInv == InterlockInv /\ RingInv

-----------------------------------------------------------------------------
(* Distances and block ids.                                                *)

LEMMA RingNumbers ==
  /\ NrOfPages = LastPage - FirstPage + 1
  /\ 2 * NrOfPages <= MaxBlockIndex /\ MaxBlockIndex <= 255
BY ItemStoreAssumption DEF ItemStoreAssumption, NrOfPages, ErasedByte

LEMMA DistanceType ==
  ASSUME NEW p \in Pages, NEW q \in Pages
  PROVE  /\ Distance(p, q) \in 0 .. NrOfPages - 1
         /\ Distance(p, q) = 0 <=> p = q
BY Numbers, RingNumbers DEF Distance, Pages

LEMMA DistanceSame ==
  ASSUME NEW h \in Pages, NEW p \in Pages, NEW q \in Pages,
         Distance(h, p) = Distance(h, q)
  PROVE  p = q
BY Numbers, RingNumbers DEF Distance, Pages

\* The next page is one further away, unless the ring ends there.
LEMMA DistanceNext ==
  ASSUME NEW h \in Pages, NEW p \in Pages
  PROVE  /\ NextPageNr(p) \in Pages /\ NextPageNr(p) # p
         /\ NextPageNr(p) = h => Distance(h, p) = NrOfPages - 1
         /\ NextPageNr(p) # h => Distance(h, NextPageNr(p)) = Distance(h, p) + 1
BY Numbers, RingNumbers DEF Distance, Pages, NextPageNr

\* Seen from the page behind the head every other page is closer.
LEMMA DistanceFromNext ==
  ASSUME NEW h \in Pages, NEW p \in Pages
  PROVE  Distance(NextPageNr(h), p) =
           IF p = h THEN NrOfPages - 1 ELSE Distance(h, p) - 1
BY Numbers, RingNumbers DEF Distance, Pages, NextPageNr

LEMMA NextId ==
  ASSUME NEW id \in BlockIds
  PROVE  (id + 1) % MaxBlockIndex = IF id + 1 = MaxBlockIndex THEN 0 ELSE id + 1
BY Numbers DEF BlockIds

\* The sequence goes on with the next block id.
LEMMA SequenceNext ==
  ASSUME NEW id \in BlockIds, NEW other \in BlockIds,
         NEW d \in 0 .. NrOfPages - 1, InSequence(id, other, d)
  PROVE  InSequence(id, (other + 1) % MaxBlockIndex, d + 1)
BY NextId, Numbers, RingNumbers DEF InSequence, BlockIds

\* InitItemStore compares block ids of one ring correctly.
LEMMA Compared ==
  ASSUME NEW id \in BlockIds, NEW other \in BlockIds,
         NEW d \in 1 .. NrOfPages - 1, InSequence(id, other, d)
  PROVE  /\ IsNewer(other, id) /\ ~IsNewer(id, other)
         /\ IsOlder(id, other) /\ ~IsOlder(other, id)
         /\ IsBefore(id, other) /\ ~IsBefore(other, id)
BY Numbers, RingNumbers
   DEF InSequence, IsNewer, IsOlder, IsBefore, BlockIds

-----------------------------------------------------------------------------
(* Rings.                                                                  *)

\* The block id a page of a ring has, or will have.
IdOf(f, tag, p) == IF p = tag.pageId THEN tag.blockId ELSE f[p].begin

\* What a ring says about its pages.
LEMMA RingFacts ==
  ASSUME NEW f \in [Pages -> Page], NEW head \in Pages, NEW tag \in PageTag,
         IsRing(f, head, tag)
  PROVE  /\ tag.pageId \in Pages /\ tag.blockId \in BlockIds
         /\ f[tag.pageId].begin \in {tag.blockId, ErasedByte}
         /\ \A p \in Pages :
              /\ Distance(head, p) < Distance(head, tag.pageId) =>
                   /\ IsUsed(f[p])
                   /\ f[p].complete.nextPage = NextPageNr(p)
                   /\ IsComplete(f[p])
              /\ Distance(head, p) > Distance(head, tag.pageId) =>
                   f[p] = ErasedPage
              /\ Distance(head, p) <= Distance(head, tag.pageId) =>
                   IdOf(f, tag, p) \in BlockIds
         /\ \A p, q \in Pages :
              /\ Distance(head, p) < Distance(head, q)
              /\ Distance(head, q) <= Distance(head, tag.pageId)
              => InSequence(IdOf(f, tag, p), IdOf(f, tag, q),
                            Distance(head, q) - Distance(head, p))
<1>1. tag.pageId \in Pages /\ tag.blockId \in BlockIds
  BY DEF PageTag
<1>2. f[tag.pageId].begin \in {tag.blockId, ErasedByte}
  BY DEF IsRing
<1>3. ASSUME NEW p \in Pages
      PROVE  /\ Distance(head, p) < Distance(head, tag.pageId) =>
                  IsUsed(f[p]) /\ f[p].complete.nextPage = NextPageNr(p)
             /\ Distance(head, p) > Distance(head, tag.pageId) =>
                  f[p] = ErasedPage
  BY <1>3 DEF IsRing
<1>4. ASSUME NEW p \in Pages, f[p].complete.nextPage = NextPageNr(p)
      PROVE  IsComplete(f[p])
  BY <1>4, Numbers, NextPageNrType DEF IsComplete, NoCompleteTag, Pages
<1>5. ASSUME NEW p \in Pages,
             Distance(head, p) <= Distance(head, tag.pageId)
      PROVE  IdOf(f, tag, p) \in BlockIds
  <2>1. CASE p = tag.pageId
    BY <1>1, <2>1 DEF IdOf
  <2>2. CASE p # tag.pageId
    <3>1. Distance(head, p) < Distance(head, tag.pageId)
      BY <1>1, <1>5, <2>2, DistanceSame, DistanceType
    <3>2. IsUsed(f[p]) /\ f[p] \in Page
      BY <1>3, <3>1
    <3> QED
      BY <2>2, <3>2 DEF IdOf, IsUsed, Page
  <2> QED
    BY <2>1, <2>2
<1>6. ASSUME NEW p \in Pages, NEW q \in Pages,
             Distance(head, p) < Distance(head, q),
             Distance(head, q) <= Distance(head, tag.pageId)
      PROVE  InSequence(IdOf(f, tag, p), IdOf(f, tag, q),
                        Distance(head, q) - Distance(head, p))
  BY <1>6 DEF IsRing, IdOf
<1> QED
  BY <1>1, <1>2, <1>3, <1>4, <1>5, <1>6

LEMMA NextTagType ==
  ASSUME NEW tag \in PageTag
  PROVE  NextTag(tag) \in PageTag
<1>1. tag.pageId \in Pages /\ tag.blockId \in BlockIds
  BY DEF PageTag
<1>2. (tag.blockId + 1) % MaxBlockIndex \in BlockIds
  BY <1>1, NextId, Numbers DEF BlockIds
<1> QED
  BY <1>1, <1>2, NextPageNrType DEF NextTag, PageTag

\* The ids up to the page of a tag go on with the id of the next tag.
LEMMA RingIdsGoOn ==
  ASSUME NEW f \in [Pages -> Page], NEW head \in Pages, NEW tag \in PageTag,
         IsRing(f, head, tag), f[tag.pageId].begin = tag.blockId,
         NEW p \in Pages, Distance(head, p) <= Distance(head, tag.pageId)
  PROVE  InSequence(f[p].begin, NextTag(tag).blockId,
                    Distance(head, tag.pageId) + 1 - Distance(head, p))
<1> DEFINE d == Distance(head, tag.pageId) - Distance(head, p)
<1>1. /\ tag.pageId \in Pages /\ tag.blockId \in BlockIds
      /\ IdOf(f, tag, p) \in BlockIds
      /\ IdOf(f, tag, tag.pageId) = tag.blockId
      /\ f[p].begin = IdOf(f, tag, p)
  BY RingFacts DEF IdOf
<1>2. d \in 0 .. NrOfPages - 1
  BY <1>1, DistanceType, Numbers
<1>3. InSequence(f[p].begin, tag.blockId, d)
  <2>1. CASE p = tag.pageId
    <3>1. d = 0
      BY <2>1, <1>1, DistanceType
    <3> HIDE DEF d
    <3> QED
      BY <2>1, <3>1, <1>1 DEF InSequence, BlockIds
  <2>2. CASE p # tag.pageId
    <3>1. Distance(head, p) < Distance(head, tag.pageId)
      BY <1>1, <2>2, DistanceSame, DistanceType
    <3> QED
      BY <1>1, <3>1, RingFacts, DistanceType
  <2> QED
    BY <2>1, <2>2
<1>4. InSequence(f[p].begin, (tag.blockId + 1) % MaxBlockIndex, d + 1)
  BY <1>1, <1>2, <1>3, SequenceNext
<1>5. d + 1 = Distance(head, tag.pageId) + 1 - Distance(head, p)
  BY <1>1, DistanceType, Numbers
<1> QED
  BY <1>4, <1>5 DEF NextTag

\* What makes a ring.
LEMMA RingIntro ==
  ASSUME NEW f \in [Pages -> Page], NEW head \in Pages, NEW tag \in PageTag,
         f[tag.pageId].begin \in {tag.blockId, ErasedByte},
         \A p \in Pages :
           /\ Distance(head, p) < Distance(head, tag.pageId) =>
                IsUsed(f[p]) /\ f[p].complete.nextPage = NextPageNr(p)
           /\ Distance(head, p) > Distance(head, tag.pageId) =>
                f[p] = ErasedPage,
         \A p, q \in Pages :
           /\ Distance(head, p) < Distance(head, q)
           /\ Distance(head, q) <= Distance(head, tag.pageId)
           => InSequence(IdOf(f, tag, p), IdOf(f, tag, q),
                         Distance(head, q) - Distance(head, p))
  PROVE  IsRing(f, head, tag)
BY DEF IsRing, IdOf

\* The ring does not depend on the contents of the page to write.
LEMMA RingWritten ==
  ASSUME NEW f \in [Pages -> Page], NEW head \in Pages, NEW tag \in PageTag,
         IsRing(f, head, tag), NEW page \in Page,
         page.begin \in {tag.blockId, ErasedByte}
  PROVE  IsRing([f EXCEPT ![tag.pageId] = page], head, tag)
<1> DEFINE g == [f EXCEPT ![tag.pageId] = page]
<1>1. tag.pageId \in Pages
  BY RingFacts
<1>2. /\ g \in [Pages -> Page] /\ g[tag.pageId] = page
      /\ \A p \in Pages : p # tag.pageId => g[p] = f[p]
      /\ \A p \in Pages : IdOf(g, tag, p) = IdOf(f, tag, p)
  BY <1>1 DEF IdOf
<1> HIDE DEF g
<1>3. ASSUME NEW p \in Pages
      PROVE  /\ Distance(head, p) < Distance(head, tag.pageId) =>
                  IsUsed(g[p]) /\ g[p].complete.nextPage = NextPageNr(p)
             /\ Distance(head, p) > Distance(head, tag.pageId) =>
                  g[p] = ErasedPage
  <2>1. CASE p = tag.pageId
    BY <1>1, <2>1, DistanceType
  <2>2. CASE p # tag.pageId
    BY <1>2, <2>2, RingFacts
  <2> QED
    BY <2>1, <2>2
<1>4. IsRing(g, head, tag)
  BY <1>2, <1>3, RingFacts, RingIntro
<1> QED
  BY <1>4 DEF g

\* A closed page is followed by the next one as long as that is free ...
LEMMA RingExtended ==
  ASSUME NEW f \in [Pages -> Page], NEW head \in Pages, NEW tag \in PageTag,
         IsRing(f, head, tag), f[tag.pageId].begin = tag.blockId,
         f[tag.pageId].complete.nextPage = NextPageNr(tag.pageId),
         NextPageNr(tag.pageId) # head
  PROVE  /\ IsRing(f, head, NextTag(tag))
         /\ f[NextPageNr(tag.pageId)] = ErasedPage
<1> DEFINE last == tag.pageId
           next == NextTag(tag).pageId
<1>1. /\ last \in Pages /\ tag.blockId \in BlockIds
      /\ next = NextPageNr(last) /\ next \in Pages
      /\ NextTag(tag) \in PageTag
  BY RingFacts, NextTagType, NextPageNrType DEF NextTag
<1>2. Distance(head, next) = Distance(head, last) + 1
  BY <1>1, DistanceNext
<1>3. \A p \in Pages : Distance(head, p) \in Nat
  BY DistanceType
<1>4. f[next] = ErasedPage
  BY <1>1, <1>2, <1>3, RingFacts
<1>5. IsUsed(f[last])
  BY <1>1, Numbers, RingNumbers DEF IsUsed, BlockIds
<1>6. ASSUME NEW p \in Pages
      PROVE  /\ Distance(head, p) < Distance(head, next) =>
                  IsUsed(f[p]) /\ f[p].complete.nextPage = NextPageNr(p)
             /\ Distance(head, p) > Distance(head, next) =>
                  f[p] = ErasedPage
  <2>1. CASE p = last
    BY <1>1, <1>2, <1>3, <1>5, <2>1
  <2>2. CASE p # last
    <3>1. Distance(head, p) # Distance(head, last)
      BY <1>1, <2>2, DistanceSame
    <3> QED
      BY <1>1, <1>2, <1>3, <3>1, RingFacts
  <2> QED
    BY <2>1, <2>2
<1>7. ASSUME NEW p \in Pages, NEW q \in Pages,
             Distance(head, p) < Distance(head, q),
             Distance(head, q) <= Distance(head, next)
      PROVE  InSequence(IdOf(f, NextTag(tag), p), IdOf(f, NextTag(tag), q),
                        Distance(head, q) - Distance(head, p))
  <2>1. /\ Distance(head, p) <= Distance(head, last) /\ p # next
        /\ IdOf(f, NextTag(tag), p) = f[p].begin
        /\ f[p].begin = IdOf(f, tag, p)
    BY <1>1, <1>2, <1>3, <1>7 DEF IdOf
  <2>2. CASE q = next
    <3>1. IdOf(f, NextTag(tag), q) = NextTag(tag).blockId
      BY <2>2 DEF IdOf
    <3>2. Distance(head, q) - Distance(head, p)
            = Distance(head, last) + 1 - Distance(head, p)
      BY <1>1, <1>2, <1>3, <2>2
    <3>3. InSequence(f[p].begin, NextTag(tag).blockId,
                     Distance(head, last) + 1 - Distance(head, p))
      BY <2>1, RingIdsGoOn
    <3> QED
      BY <2>1, <3>1, <3>2, <3>3
  <2>3. CASE q # next
    <3>1. Distance(head, q) # Distance(head, next)
      BY <1>1, <2>3, DistanceSame
    <3>2. Distance(head, q) <= Distance(head, last)
      BY <1>1, <1>2, <1>3, <1>7, <3>1
    <3>3. IdOf(f, NextTag(tag), q) = IdOf(f, tag, q)
      BY <2>3 DEF IdOf
    <3> QED
      BY <1>7, <2>1, <3>2, <3>3, RingFacts
  <2> QED
    BY <2>2, <2>3
<1>8. f[next].begin \in {NextTag(tag).blockId, ErasedByte}
  BY <1>4 DEF ErasedPage
<1>9. IsRing(f, head, NextTag(tag))
  BY <1>1, <1>6, <1>7, <1>8, RingIntro
<1> QED
  BY <1>1, <1>4, <1>9

\* ... and if it is the head, this one is given up.
LEMMA RingRecycled ==
  ASSUME NEW f \in [Pages -> Page], NEW head \in Pages, NEW tag \in PageTag,
         IsRing(f, head, tag), f[tag.pageId].begin = tag.blockId,
         f[tag.pageId].complete.nextPage = NextPageNr(tag.pageId),
         NextPageNr(tag.pageId) = head
  PROVE  IsRing([f EXCEPT ![head] = ErasedPage], NextPageNr(head), NextTag(tag))
<1> DEFINE last == tag.pageId
           g == [f EXCEPT ![head] = ErasedPage]
           second == NextPageNr(head)
<1>1. /\ last \in Pages /\ tag.blockId \in BlockIds
      /\ NextTag(tag).pageId = head
      /\ NextTag(tag) \in PageTag
      /\ second \in Pages /\ second # head /\ last # head
      /\ Distance(head, last) = NrOfPages - 1
  BY RingFacts, NextTagType, DistanceNext DEF NextTag
<1>2. \A p \in Pages : /\ Distance(head, p) \in 0 .. NrOfPages - 1
                       /\ p = head <=> Distance(head, p) = 0
                       /\ Distance(second, p) =
                            IF p = head THEN NrOfPages - 1
                                        ELSE Distance(head, p) - 1
  BY DistanceType, DistanceFromNext
<1>3. /\ g \in [Pages -> Page] /\ g[head] = ErasedPage
      /\ \A p \in Pages : p # head => g[p] = f[p]
  BY ErasedPageType
<1>4. IsUsed(f[last])
  BY <1>1, Numbers, RingNumbers DEF IsUsed, BlockIds
<1> HIDE DEF g, second
<1>5. ASSUME NEW p \in Pages
      PROVE  /\ Distance(second, p) < Distance(second, head) =>
                  IsUsed(g[p]) /\ g[p].complete.nextPage = NextPageNr(p)
             /\ Distance(second, p) > Distance(second, head) =>
                  g[p] = ErasedPage
  <2>1. CASE p = head
    BY <1>2, <2>1, Numbers
  <2>2. CASE p = last
    BY <1>1, <1>2, <1>3, <1>4, <2>2, Numbers
  <2>3. CASE p # head /\ p # last
    <3>1. Distance(head, p) # Distance(head, last)
      BY <1>1, <2>3, DistanceSame
    <3>2. Distance(head, p) < Distance(head, last)
      BY <1>1, <1>2, <3>1, Numbers
    <3>3. IsUsed(f[p]) /\ f[p].complete.nextPage = NextPageNr(p)
      BY <3>2, RingFacts
    <3>4. ~(Distance(second, p) > Distance(second, head))
      BY <1>2, <2>3, Numbers
    <3> QED
      BY <1>3, <2>3, <3>3, <3>4
  <2> QED
    BY <2>1, <2>2, <2>3
<1>6. ASSUME NEW p \in Pages, NEW q \in Pages,
             Distance(second, p) < Distance(second, q),
             Distance(second, q) <= Distance(second, head)
      PROVE  InSequence(IdOf(g, NextTag(tag), p), IdOf(g, NextTag(tag), q),
                        Distance(second, q) - Distance(second, p))
  <2>1. /\ p # head
        /\ Distance(second, p) = Distance(head, p) - 1
        /\ Distance(head, p) <= Distance(head, last)
    BY <1>1, <1>2, <1>6, Numbers
  <2>2. /\ IdOf(g, NextTag(tag), p) = f[p].begin
        /\ f[p].begin = IdOf(f, tag, p)
    BY <1>1, <1>3, <2>1 DEF IdOf
  <2>3. CASE q = head
    <3>1. IdOf(g, NextTag(tag), q) = NextTag(tag).blockId
      BY <1>1, <2>3 DEF IdOf
    <3>2. Distance(second, q) - Distance(second, p)
            = Distance(head, last) + 1 - Distance(head, p)
      BY <1>1, <1>2, <2>1, <2>3, Numbers
    <3> QED
      BY <2>1, <2>2, <3>1, <3>2, RingIdsGoOn
  <2>4. CASE q # head
    <3>1. /\ Distance(second, q) = Distance(head, q) - 1
          /\ Distance(head, p) < Distance(head, q)
          /\ Distance(head, q) <= Distance(head, last)
          /\ Distance(second, q) - Distance(second, p)
               = Distance(head, q) - Distance(head, p)
      BY <1>1, <1>2, <1>6, <2>1, <2>4, Numbers
    <3>2. IdOf(g, NextTag(tag), q) = IdOf(f, tag, q)
      BY <1>1, <1>3, <2>4 DEF IdOf
    <3> QED
      BY <2>2, <3>1, <3>2, RingFacts
  <2> QED
    BY <2>3, <2>4
<1>7. g[head].begin \in {NextTag(tag).blockId, ErasedByte}
  BY <1>3 DEF ErasedPage
<1>8. IsRing(g, second, NextTag(tag))
  BY <1>1, <1>3, <1>5, <1>6, <1>7, RingIntro
<1> QED
  BY <1>8 DEF g, second

\* A ring that has data has one head.
LEMMA RingHeads ==
  ASSUME NEW f \in [Pages -> Page], NEW head \in Pages, NEW tag \in PageTag,
         IsRing(f, head, tag),
         IsComplete(f[tag.pageId]) => IsUsed(f[tag.pageId])
           /\ f[tag.pageId].complete.nextPage = NextPageNr(tag.pageId),
         InUse(f) # {}
  PROVE  Heads(f) = {head} /\ IsUsed(f[head])
<1> DEFINE last == tag.pageId
<1>1. \A p \in Pages : Distance(head, p) \in 0 .. NrOfPages - 1
  BY DistanceType
<1>2. last \in Pages /\ Distance(head, head) = 0
  BY RingFacts, DistanceType
<1>3. IsUsed(f[head])
  <2>1. PICK p \in Pages : IsUsed(f[p])
    BY DEF InUse
  <2>2. CASE Distance(head, head) < Distance(head, last)
    BY <2>2, RingFacts
  <2>3. CASE Distance(head, head) = Distance(head, last)
    <3>1. last = head
      BY <1>2, <2>3, DistanceSame
    <3>2. f[p] # ErasedPage
      BY <2>1 DEF ErasedPage, IsUsed
    <3>3. Distance(head, p) = Distance(head, head)
      BY <1>1, <1>2, <2>3, <3>2, RingFacts
    <3> QED
      BY <2>1, <3>3, DistanceSame
  <2> QED
    BY <1>1, <1>2, <2>2, <2>3
<1>4. ASSUME NEW p \in Pages, IsUsed(f[p])
      PROVE  /\ Distance(head, p) <= Distance(head, last)
             /\ f[p].begin = IdOf(f, tag, p)
             /\ f[p].begin \in BlockIds
  <2>1. f[p] # ErasedPage /\ f[p].begin # ErasedByte
    BY <1>4 DEF ErasedPage, IsUsed
  <2> QED
    BY <1>1, <1>2, <2>1, RingFacts DEF IdOf
<1>5. ASSUME NEW q \in Pages, IsComplete(f[q])
      PROVE  IsUsed(f[q]) /\ f[q].complete.nextPage = NextPageNr(q)
  <2>1. CASE q = last
    BY <1>5, <2>1
  <2>2. CASE q # last
    <3>1. Distance(head, q) # Distance(head, last)
      BY <1>2, <2>2, DistanceSame
    <3>2. f[q] # ErasedPage
      BY <1>5 DEF ErasedPage, IsComplete
    <3> QED
      BY <1>1, <1>2, <3>1, <3>2, RingFacts
  <2> QED
    BY <2>1, <2>2
\* Behind the last page of a full ring comes the head, but not in sequence.
<1>6. ~IsNamed(f, head)
  <2> SUFFICES ASSUME NEW q \in Pages, IsComplete(f[q]),
                      f[q].complete.nextPage = head,
                      IsBefore(f[q].begin, f[head].begin)
               PROVE  FALSE
    BY DEF IsNamed, Closed
  <2>1. IsUsed(f[q]) /\ NextPageNr(q) = head
    BY <1>5
  <2>2. Distance(head, q) = NrOfPages - 1 /\ Distance(head, head) = 0
    BY <2>1, <1>2, DistanceNext
  <2>3. InSequence(f[head].begin, f[q].begin, NrOfPages - 1)
    BY <1>2, <1>3, <1>4, <2>1, <2>2, RingFacts, Numbers
  <2>4. ~IsBefore(f[q].begin, f[head].begin)
    BY <1>3, <1>4, <2>1, <2>3, Compared, Numbers
  <2> QED
    BY <2>4
<1>7. ASSUME NEW p \in Pages, IsUsed(f[p]), p # head
      PROVE  IsNamed(f, p)
  <2>1. PICK q \in Pages : NextPageNr(q) = p
    <3>1. CASE p = FirstPage
      BY <3>1, Numbers DEF NextPageNr, Pages
    <3>2. CASE p # FirstPage
      <4>1. p - 1 \in Pages /\ NextPageNr(p - 1) = p
        BY <3>2, Numbers DEF NextPageNr, Pages
      <4> QED
        BY <4>1
    <3> QED
      BY <3>1, <3>2
  <2>2. Distance(head, p) = Distance(head, q) + 1
    BY <1>7, <2>1, DistanceNext
  <2>3. Distance(head, q) < Distance(head, last)
    BY <1>1, <1>2, <1>4, <1>7, <2>2
  <2>4. IsUsed(f[q]) /\ IsComplete(f[q]) /\ f[q].complete.nextPage = p
    BY <2>1, <2>3, RingFacts
  <2>5. InSequence(f[q].begin, f[p].begin, 1)
    BY <1>1, <1>4, <1>7, <2>2, <2>4, RingFacts
  <2>6. IsBefore(f[q].begin, f[p].begin)
    BY <1>4, <1>7, <2>4, <2>5, Compared, Numbers
  <2> QED
    BY <2>4, <2>6 DEF IsNamed, Closed
<1> QED
  BY <1>3, <1>6, <1>7 DEF Heads, InUse

-----------------------------------------------------------------------------
(* Counting pages.                                                         *)

LEMMA PagesCount ==
  ASSUME NEW S \in SUBSET Pages
  PROVE  IsFiniteSet(S) /\ Cardinality(S) \in 0 .. 254
<1>1. IsFiniteSet(Pages) /\ Cardinality(Pages) = NrOfPages
  BY FS_Interval, Numbers, RingNumbers DEF Pages
<1>2. IsFiniteSet(S) /\ Cardinality(S) <= NrOfPages
  BY <1>1, FS_Subset
<1>3. Cardinality(S) \in Nat
  BY <1>2, FS_CardinalityType
<1> QED
  BY <1>2, <1>3, Numbers, RingNumbers

\* nrOfFullPages counts without an overflow.
LEMMA CountAdded ==
  ASSUME NEW S \in SUBSET Pages, NEW p \in Pages, p \notin S
  PROVE  Increment(Cardinality(S)) = Cardinality(S \cup {p})
<1>1. Cardinality(S \cup {p}) = Cardinality(S) + 1
  BY PagesCount, FS_AddElement
<1>2. Cardinality(S) \in 0 .. 254
  BY PagesCount
<1> QED
  BY <1>1, <1>2 DEF Increment

LEMMA CountRemoved ==
  ASSUME NEW S \in SUBSET Pages, NEW p \in S
  PROVE  Decrement(Cardinality(S)) = Cardinality(S \ {p})
<1>1. Cardinality(S \ {p}) = Cardinality(S) - 1
  BY PagesCount, FS_RemoveElement
<1>2. Cardinality(S) \in 0 .. 254 /\ Cardinality(S \ {p}) \in 0 .. 254
  BY PagesCount
<1> QED
  BY <1>1, <1>2 DEF Decrement

-----------------------------------------------------------------------------
(* The queue, and what is kept.                                            *)

LEMMA EraseInTail ==
  ASSUME NEW queue \in Seq(Message), queue # <<>>
  PROVE  /\ EraseWaits(Tail(queue)) => EraseWaits(queue)
         /\ Head(queue) # "ERASE" /\ EraseWaits(queue) => EraseWaits(Tail(queue))
         /\ Head(queue) = "ERASE" => EraseWaits(queue)
         /\ \A n \in Nat :
              ErasesInTime(queue, n) =>
                /\ ErasesInTime(Tail(queue), n)
                /\ ErasesInTime(Tail(queue), n + 1)
                /\ Head(queue) # "ERASE" /\ n + 1 = ItemsPerPage =>
                     ~EraseWaits(queue)
<1>1. /\ Len(queue) \in Nat /\ Len(queue) >= 1
      /\ DOMAIN queue = 1 .. Len(queue)
      /\ DOMAIN Tail(queue) = 1 .. Len(queue) - 1
      /\ \A i \in 1 .. Len(queue) - 1 : Tail(queue)[i] = queue[i + 1]
      /\ queue[1] = Head(queue)
  OBVIOUS
<1>2. EraseWaits(Tail(queue)) => EraseWaits(queue)
  BY <1>1 DEF EraseWaits
<1>3. ASSUME Head(queue) # "ERASE", NEW i \in DOMAIN queue, queue[i] = "ERASE"
      PROVE  /\ EraseWaits(Tail(queue))
             /\ \A n \in Nat : ErasesInTime(queue, n) => n + 1 < ItemsPerPage
  <2>1. i # 1 /\ i - 1 \in DOMAIN Tail(queue) /\ Tail(queue)[i - 1] = "ERASE"
    BY <1>1, <1>3
  <2>2. i \in Nat /\ i >= 2
    BY <1>1, <2>1
  <2>3. ASSUME NEW n \in Nat, ErasesInTime(queue, n)
        PROVE  n + 1 < ItemsPerPage
    <3>1. n + i - 1 < ItemsPerPage
      BY <1>3, <2>3 DEF ErasesInTime
    <3> QED
      BY <2>2, <3>1, Numbers
  <2> QED
    BY <2>1, <2>3 DEF EraseWaits
<1>4. Head(queue) = "ERASE" => EraseWaits(queue)
  BY <1>1 DEF EraseWaits
<1>5. ASSUME NEW n \in Nat, ErasesInTime(queue, n),
             NEW i \in DOMAIN Tail(queue), Tail(queue)[i] = "ERASE"
      PROVE  n + 1 + i - 1 < ItemsPerPage /\ n + i - 1 < ItemsPerPage
  <2>1. i + 1 \in DOMAIN queue /\ queue[i + 1] = "ERASE"
    BY <1>1, <1>5
  <2> QED
    BY <1>1, <1>5, <2>1, Numbers DEF ErasesInTime
<1>6. ASSUME NEW n \in Nat, ErasesInTime(queue, n)
      PROVE  /\ ErasesInTime(Tail(queue), n)
             /\ ErasesInTime(Tail(queue), n + 1)
             /\ Head(queue) # "ERASE" /\ n + 1 = ItemsPerPage =>
                  ~EraseWaits(queue)
  <2>1. ErasesInTime(Tail(queue), n) /\ ErasesInTime(Tail(queue), n + 1)
    BY <1>5, <1>6 DEF ErasesInTime
  <2>2. Head(queue) # "ERASE" /\ EraseWaits(queue) => n + 1 < ItemsPerPage
    BY <1>3, <1>6 DEF EraseWaits
  <2> QED
    BY <2>1, <2>2, Numbers
<1> QED
  BY <1>2, <1>3, <1>4, <1>6 DEF EraseWaits

LEMMA EraseInAppend ==
  ASSUME NEW queue \in Seq(Message), NEW message \in Message, NEW n \in Nat
  PROVE  /\ message # "ERASE" =>
              EraseWaits(Append(queue, message)) <=> EraseWaits(queue)
         /\ message # "ERASE" /\ ErasesInTime(queue, n) =>
              ErasesInTime(Append(queue, message), n)
         /\ message = "ERASE" => EraseWaits(Append(queue, message))
         /\ Len(queue) < ItemsPerPage => ErasesInTime(Append(queue, message), 0)
<1>1. /\ Len(queue) \in Nat
      /\ DOMAIN queue = 1 .. Len(queue)
      /\ DOMAIN Append(queue, message) = 1 .. Len(queue) + 1
      /\ \A i \in 1 .. Len(queue) : Append(queue, message)[i] = queue[i]
      /\ Append(queue, message)[Len(queue) + 1] = message
  OBVIOUS
<1>2. message = "ERASE" => EraseWaits(Append(queue, message))
  BY <1>1 DEF EraseWaits
<1>3. Len(queue) < ItemsPerPage => ErasesInTime(Append(queue, message), 0)
  BY <1>1, Numbers DEF ErasesInTime
<1>4. message # "ERASE" =>
        EraseWaits(Append(queue, message)) <=> EraseWaits(queue)
  BY <1>1 DEF EraseWaits
<1>5. message # "ERASE" /\ ErasesInTime(queue, n) =>
        ErasesInTime(Append(queue, message), n)
  BY <1>1, Numbers DEF ErasesInTime
<1> QED
  BY <1>2, <1>3, <1>4, <1>5

LEMMA DeletingIs ==
  Deleting <=> \/ EraseWaits(messages)
               \/ eraseReminder
               \/ listener = "Erasing" /\ reinit
BY DEF Deleting, EraseWaits

\* The pages kept, in either state of the listener.
LEMMA KeptIs ==
  ASSUME flash \in [Pages -> Page]
  PROVE  /\ Kept \in [Pages -> Page]
         /\ listener # "Erasing" => Kept = flash
         /\ listener = "Erasing" => Kept = [flash EXCEPT ![WritePage] = ErasedPage]
<1>1. CASE listener = "Erasing"
  <2>1. Kept = [flash EXCEPT ![WritePage] = ErasedPage]
    BY <1>1 DEF Kept, GivenUp
  <2> QED
    BY <1>1, <2>1, ErasedPageType
<1>2. CASE listener # "Erasing"
  BY <1>2 DEF Kept, GivenUp
<1> QED
  BY <1>1, <1>2

-----------------------------------------------------------------------------
(* Steps of the running store.                                             *)

\* What is to be shown of them.
LEMMA RunStep ==
  ASSUME IInv, phase = "run", phase' = "run", UNCHANGED <<soundBoot, eraseFailed>>,
         eraseReminder' => listener' = "Erasing",
         ~eraseFailed => DeleteInv' /\ EraseInv',
         ~eraseFailed /\ soundBoot =>
           /\ ~(listener' = "Erasing" /\ reinit') => ChainInv'
           /\ ~Deleting' => CountInv'
  PROVE  RingInv'
BY DEF RingInv

LEMMA RunUnchanged ==
  ASSUME UNCHANGED <<flash, nextWritePageInfo, oldestPageInfo, listener, erasing>>
  PROVE  /\ ChainInv => ChainInv'
         /\ UNCHANGED <<nrOfFullPages, currentPageNrOfItems>> =>
              (CountInv => CountInv')
BY DEF ChainInv, CountInv, Kept, GivenUp, WritePage, WritePageInv, IsAnnounced

LEMMA EraseUnchanged ==
  ASSUME UNCHANGED <<flash, listener, reinit, erasing>>
  PROVE  EraseInv => EraseInv'
BY DEF EraseInv

\* The part of the invariant that a running store needs.
LEMMA Running ==
  ASSUME IInv, phase = "run"
  PROVE  /\ TypeOK
         /\ eraseReminder => listener = "Erasing"
         /\ ~eraseFailed => DeleteInv /\ EraseInv
         /\ ~eraseFailed /\ soundBoot =>
              /\ ~(listener = "Erasing" /\ reinit) => ChainInv
              /\ ~Deleting => RunInv
BY DEF IInv, InterlockInv, RingInv, RunInv, Deleting

\* The pages and their description do not change.
LEMMA RunGoesOn ==
  ASSUME IInv, phase = "run",
         UNCHANGED <<flash, nextWritePageInfo, oldestPageInfo, listener, reinit,
                     erasing>>,
         ~Deleting' => ~Deleting /\ UNCHANGED <<nrOfFullPages, currentPageNrOfItems>>
  PROVE  ~eraseFailed /\ soundBoot =>
           /\ ~(listener' = "Erasing" /\ reinit') => ChainInv'
           /\ ~Deleting' => CountInv'
<1> SUFFICES ASSUME ~eraseFailed, soundBoot
             PROVE  /\ ~(listener' = "Erasing" /\ reinit') => ChainInv'
                    /\ ~Deleting' => CountInv'
  OBVIOUS
<1>1. /\ ~(listener = "Erasing" /\ reinit) => ChainInv
      /\ ~Deleting => CountInv
  BY Running DEF RunInv
<1> QED
  BY <1>1, RunUnchanged

\* A message is taken from the queue.
LEMMA DispatchQueue ==
  ASSUME IInv, NEW message, Dispatch(message)
  PROVE  /\ phase = "run" /\ messages \in Seq(Message) /\ messages # <<>>
         /\ messages' = Tail(messages)
         /\ EraseWaits(messages') => EraseWaits(messages)
         /\ message # "ERASE" => (EraseWaits(messages') <=> EraseWaits(messages))
         /\ message = "ERASE" => EraseWaits(messages)
         /\ ~eraseFailed =>
              /\ ErasesInTime(messages', currentPageNrOfItems)
              /\ ErasesInTime(messages', currentPageNrOfItems + 1)
              /\ message # "ERASE" /\ currentPageNrOfItems + 1 = ItemsPerPage =>
                   ~EraseWaits(messages)
<1>1. /\ phase = "run" /\ messages \in Seq(Message) /\ messages # <<>>
      /\ messages' = Tail(messages) /\ Head(messages) = message
      /\ currentPageNrOfItems \in Nat
  BY DEF Dispatch, IsNext, IInv, InterlockInv, TypeOK
<1>2. /\ EraseWaits(messages') => EraseWaits(messages)
      /\ message # "ERASE" => (EraseWaits(messages') <=> EraseWaits(messages))
      /\ message = "ERASE" => EraseWaits(messages)
  BY <1>1, EraseInTail
<1>3. ASSUME ~eraseFailed
      PROVE  /\ ErasesInTime(messages', currentPageNrOfItems)
             /\ ErasesInTime(messages', currentPageNrOfItems + 1)
             /\ message # "ERASE" /\ currentPageNrOfItems + 1 = ItemsPerPage =>
                  ~EraseWaits(messages)
  <2>1. ErasesInTime(messages, currentPageNrOfItems)
    BY <1>1, <1>3, Running DEF DeleteInv
  <2> QED
    BY <1>1, <2>1, EraseInTail
<1> QED
  BY <1>1, <1>2, <1>3

LEMMA RequestAddItemRing ==
  ASSUME IInv, NEW item \in Item, RequestAddItem(item)
  PROVE  RingInv'
<1>1. /\ phase = "run" /\ phase' = "run" /\ UNCHANGED <<soundBoot, eraseFailed>>
      /\ UNCHANGED <<flash, ramVars, listener, reinit, eraseReminder, erasing>>
      /\ messages' = Append(messages, item)
  BY DEF RequestAddItem, CanPublish, bootVars
<1>2. item # "ERASE" /\ item \in Message
  BY ItemStoreAssumption DEF ItemStoreAssumption, Message
<1>3. /\ EraseWaits(messages') <=> EraseWaits(messages)
      /\ ErasesInTime(messages, currentPageNrOfItems) =>
           ErasesInTime(messages', currentPageNrOfItems)
  BY <1>1, <1>2, EraseInAppend DEF IInv, InterlockInv, TypeOK
<1>4. Deleting' <=> Deleting
  BY <1>1, <1>3 DEF Deleting, EraseWaits
<1>5. ~eraseFailed => DeleteInv'
  BY <1>1, <1>3, <1>4, Running DEF DeleteInv, ramVars
<1>6. ~eraseFailed /\ soundBoot =>
        /\ ~(listener' = "Erasing" /\ reinit') => ChainInv'
        /\ ~Deleting' => CountInv'
  BY <1>1, <1>4, RunGoesOn DEF ramVars
<1> QED
  BY <1>1, <1>4, <1>5, <1>6, Running, RunStep, EraseUnchanged

LEMMA DeleteAllItemsRing ==
  ASSUME IInv, DeleteAllItems
  PROVE  RingInv'
<1>1. /\ phase = "run" /\ phase' = "run" /\ UNCHANGED <<soundBoot, eraseFailed>>
      /\ UNCHANGED <<flash, nextWritePageInfo, oldestPageInfo, listener, reinit,
                     eraseReminder, erasing>>
      /\ messages' = Append(messages, "ERASE")
      /\ nrOfFullPages' = 0 /\ currentPageNrOfItems' = 0
      /\ Len(messages) < MaxMessages
  BY DEF DeleteAllItems, CanPublish, bootVars
<1>2. "ERASE" \in Message /\ messages \in Seq(Message)
  BY DEF Message, IInv, InterlockInv, TypeOK
<1>3. Len(messages) < ItemsPerPage
  BY <1>1, <1>2, Numbers, ItemStoreAssumption DEF ItemStoreAssumption
<1>4. EraseWaits(messages') /\ ErasesInTime(messages', 0)
  BY <1>1, <1>2, <1>3, EraseInAppend
<1>5. Deleting'
  BY <1>4 DEF Deleting, EraseWaits
<1>6. DeleteInv'
  BY <1>1, <1>4 DEF DeleteInv
<1>7. ~eraseFailed /\ soundBoot =>
        /\ ~(listener' = "Erasing" /\ reinit') => ChainInv'
        /\ ~Deleting' => CountInv'
  BY <1>1, <1>5, RunGoesOn
<1> QED
  BY <1>1, <1>5, <1>6, <1>7, Running, RunStep, EraseUnchanged

\* An item that does not fill the page to write.
LEMMA PageWritten ==
  ASSUME TypeOK, ChainInv, listener = "Idle", listener' = "Idle",
         UNCHANGED <<nrOfFullPages, nextWritePageInfo, oldestPageInfo>>,
         NEW page \in Page, page.begin = nextWritePageInfo.blockId,
         ~IsComplete(page), IsUsed(page),
         flash' = [flash EXCEPT ![WritePage] = page],
         currentPageNrOfItems' = Len(page.items),
         currentPageNrOfItems' < ItemsPerPage
  PROVE  ChainInv' /\ (CountInv => CountInv')
<1>1. /\ flash \in [Pages -> Page] /\ Kept = flash /\ Kept' = flash'
      /\ WritePage' = WritePage
      /\ nextWritePageInfo \in PageTag /\ oldestPageInfo \in PageTag
      /\ oldestPageInfo.pageId \in Pages
  BY KeptIs DEF TypeOK, Kept, GivenUp, WritePage, ChainInv, PageTag
<1>2. IsRing(flash, oldestPageInfo.pageId, nextWritePageInfo)
  BY <1>1 DEF ChainInv
<1>3. WritePage \in Pages
  BY <1>1 DEF WritePage, PageTag
<1>4. IsRing(flash', oldestPageInfo.pageId, nextWritePageInfo)
  BY <1>1, <1>2, RingWritten DEF WritePage
<1>5. /\ flash'[WritePage] = page
      /\ \A p \in Pages : p # WritePage => flash'[p] = flash[p]
  BY <1>1, <1>3
<1>6. ~IsComplete(flash[WritePage])
  BY <1>1 DEF ChainInv, WritePageInv, IsOpenPage, ErasedPage, IsComplete
<1>7. Closed(flash') = Closed(flash)
  BY <1>5, <1>6 DEF Closed
<1>8. WritePageInv(Kept)'
  BY <1>1, <1>5 DEF WritePageInv, IsOpenPage
<1>9. oldestPageInfo'.blockId =
        IF oldestPageInfo'.pageId = WritePage' THEN nextWritePageInfo'.blockId
                                             ELSE Kept'[oldestPageInfo'.pageId].begin
  BY <1>1, <1>5 DEF ChainInv
<1>10. ChainInv'
  BY <1>1, <1>4, <1>8, <1>9 DEF ChainInv
<1>11. CountInv => CountInv'
  BY <1>1, <1>5, <1>7 DEF CountInv
<1> QED
  BY <1>10, <1>11

\* The frame of the two actions that write an item and leave the page open.
LEMMA AddItemRing ==
  ASSUME IInv, NEW item \in Item, Dispatch(item), listener = "Idle",
         UNCHANGED <<listener, reinit, eraseReminder, erasing, bootVars>>,
         UNCHANGED nrOfFullPages,
         currentPageNrOfItems' \in 0 .. currentPageNrOfItems + 1,
         ChainInv => ChainInv' /\ (CountInv => CountInv')
  PROVE  RingInv'
<1>1. item # "ERASE" /\ currentPageNrOfItems \in Nat
  BY ItemStoreAssumption DEF ItemStoreAssumption, IInv, InterlockInv, TypeOK
<1>2. /\ phase = "run" /\ phase' = "run"
      /\ UNCHANGED <<soundBoot, eraseFailed>>
      /\ EraseWaits(messages') <=> EraseWaits(messages)
  BY <1>1, DispatchQueue DEF bootVars
<1>3. Deleting' <=> Deleting
  BY <1>2 DEF Deleting, EraseWaits
<1>4. ASSUME ~eraseFailed
      PROVE  DeleteInv' /\ EraseInv'
  <2>1. ErasesInTime(messages', currentPageNrOfItems + 1)
    BY <1>1, <1>4, DispatchQueue
  <2>2. messages' \in Seq(Message)
    BY DispatchType DEF IInv, InterlockInv
  <2>3. \A i \in DOMAIN messages' : i \in Nat
    BY <2>2
  <2>4. ErasesInTime(messages', currentPageNrOfItems')
    BY <1>1, <2>1, <2>3, Numbers DEF ErasesInTime
  <2> QED
    BY <1>2, <1>3, <1>4, <2>4, Running DEF DeleteInv, EraseInv
<1>5. eraseReminder' => listener' = "Erasing"
  BY <1>2, Running
<1>6. ~eraseFailed /\ soundBoot => ChainInv /\ (~Deleting => CountInv)
  BY <1>2, Running DEF RunInv
<1> QED
  BY <1>2, <1>3, <1>4, <1>5, <1>6, Running, RunStep

LEMMA AddFirstItemRing ==
  ASSUME IInv, NEW item \in Item, AddFirstItem(item)
  PROVE  RingInv'
<1> DEFINE page == [begin |-> nextWritePageInfo.blockId,
                    complete |-> NoCompleteTag,
                    items |-> <<item>>]
<1>1. /\ Dispatch(item) /\ listener = "Idle" /\ HasFreePage
      /\ flash' = ItemWritten(BeginTagWritten(flash, nextWritePageInfo),
                              WritePage, item)
      /\ currentPageNrOfItems' = 1
      /\ UNCHANGED <<nrOfFullPages, nextWritePageInfo, oldestPageInfo, listener,
                     reinit, eraseReminder, erasing, bootVars>>
  BY DEF AddFirstItem
<1>2. TypeOK /\ flash \in [Pages -> Page]
  BY DEF IInv, InterlockInv, TypeOK
<1>3. ASSUME ChainInv
      PROVE  ChainInv' /\ (CountInv => CountInv')
  <2>1. flash[WritePage] = ErasedPage
    <3>1. Kept = flash
      BY <1>1, <1>2, KeptIs
    <3>2. ~IsOpenPage(flash[WritePage])
      BY <1>1 DEF HasFreePage, HasNoData, IsOpenPage
    <3> QED
      BY <1>3, <3>1, <3>2 DEF ChainInv, WritePageInv
  <2>2. /\ nextWritePageInfo \in PageTag /\ WritePage \in Pages
        /\ nextWritePageInfo.blockId \in BlockIds
    BY <1>3 DEF ChainInv, PageTag, WritePage
  <2>3. page \in Page /\ ~IsComplete(page) /\ IsUsed(page)
    BY <2>2, Numbers, RingNumbers
       DEF Page, IsComplete, IsUsed, BlockIds
  <2>4. flash' = [flash EXCEPT ![WritePage] = page]
    <3>1. [[flash[WritePage] EXCEPT !.begin = nextWritePageInfo.blockId]
             EXCEPT !.items = Append(@, item)] = page
      <4>1. Append(<<>>, item) = <<item>>
        OBVIOUS
      <4> DEFINE begun == [begin |-> nextWritePageInfo.blockId,
                           complete |-> NoCompleteTag, items |-> <<>>]
      <4>2. [flash[WritePage] EXCEPT !.begin = nextWritePageInfo.blockId] = begun
        BY <2>1 DEF ErasedPage
      <4>3. [begun EXCEPT !.items = Append(@, item)]
              = [begin |-> nextWritePageInfo.blockId, complete |-> NoCompleteTag,
                 items |-> Append(<<>>, item)]
        OBVIOUS
      <4> QED
        BY <4>1, <4>2, <4>3
    <3> HIDE DEF page
    <3> QED
      BY <1>1, <1>2, <2>2, <3>1 DEF ItemWritten, BeginTagWritten, WritePage
  <2>5. currentPageNrOfItems' = Len(page.items) /\ 1 < ItemsPerPage
    BY <1>1, Numbers
  <2>6. page.begin = nextWritePageInfo.blockId
    OBVIOUS
  <2> HIDE DEF page
  <2> QED
    BY <1>1, <1>2, <1>3, <2>3, <2>4, <2>5, <2>6, PageWritten
<1>4. currentPageNrOfItems' \in 0 .. currentPageNrOfItems + 1
  BY <1>1, <1>2 DEF TypeOK
<1> QED
  BY <1>1, <1>3, <1>4, AddItemRing

LEMMA AddNextItemRing ==
  ASSUME IInv, NEW item \in Item, AddNextItem(item)
  PROVE  RingInv'
<1> DEFINE page == [flash[WritePage] EXCEPT !.items = Append(@, item)]
<1>1. /\ Dispatch(item) /\ listener = "Idle" /\ HasFreeSlot
      /\ flash' = ItemWritten(flash, WritePage, item)
      /\ currentPageNrOfItems' = currentPageNrOfItems + 1
      /\ currentPageNrOfItems + 1 < ItemsPerPage
      /\ UNCHANGED <<nrOfFullPages, nextWritePageInfo, oldestPageInfo, listener,
                     reinit, eraseReminder, erasing, bootVars>>
  BY DEF AddNextItem
<1>2. TypeOK /\ flash \in [Pages -> Page] /\ WritePage \in Pages
  BY <1>1 DEF IInv, InterlockInv, TypeOK, HasFreeSlot
<1>3. /\ page \in Page /\ IsUsed(page) /\ ~IsComplete(page)
      /\ page.begin = flash[WritePage].begin
      /\ Len(page.items) = currentPageNrOfItems + 1
      /\ flash' = [flash EXCEPT ![WritePage] = page]
  <2>1. /\ flash[WritePage] \in Page /\ flash[WritePage].items \in Seq(Item)
        /\ currentPageNrOfItems = Len(flash[WritePage].items)
        /\ IsUsed(flash[WritePage]) /\ ~IsComplete(flash[WritePage])
    BY <1>1, <1>2 DEF Page, HasFreeSlot, CanWriteItem
  <2>2. /\ Append(flash[WritePage].items, item) \in Seq(Item)
        /\ Len(Append(flash[WritePage].items, item)) = currentPageNrOfItems + 1
    BY <2>1
  <2>3. /\ page.begin = flash[WritePage].begin
        /\ page.complete = flash[WritePage].complete
        /\ page.items = Append(flash[WritePage].items, item)
        /\ page \in Page
    BY <2>1, <2>2 DEF Page
  <2>4. flash' = [flash EXCEPT ![WritePage] = page]
    BY <1>1 DEF ItemWritten
  <2> HIDE DEF page
  <2> QED
    BY <2>1, <2>2, <2>3, <2>4 DEF IsUsed, IsComplete
<1> HIDE DEF page
<1>4. ASSUME ChainInv
      PROVE  ChainInv' /\ (CountInv => CountInv')
  <2>1. Kept = flash
    BY <1>1, <1>2, KeptIs
  <2>2. flash[WritePage].begin = nextWritePageInfo.blockId
    <3>1. nextWritePageInfo \in PageTag /\ oldestPageInfo.pageId \in Pages
      BY <1>4 DEF ChainInv, PageTag
    <3>2. IsRing(flash, oldestPageInfo.pageId, nextWritePageInfo)
      BY <1>4, <2>1 DEF ChainInv
    <3>3. flash[WritePage].begin # ErasedByte
      BY <1>3 DEF IsUsed
    <3> QED
      BY <1>2, <3>1, <3>2, <3>3, RingFacts DEF WritePage
  <2> QED
    BY <1>1, <1>2, <1>3, <1>4, <2>2, PageWritten
<1>5. currentPageNrOfItems' \in 0 .. currentPageNrOfItems + 1
  BY <1>1, <1>2 DEF TypeOK
<1> QED
  BY <1>1, <1>4, <1>5, AddItemRing

\* An item is taken from the queue, and nothing is done with it.
ItemDropped(item) ==
  /\ Dispatch(item)
  /\ UNCHANGED <<flash, ramVars, listener, reinit, eraseReminder, erasing,
                 bootVars>>

LEMMA ItemDroppedRing ==
  ASSUME IInv, NEW item \in Item, ItemDropped(item)
  PROVE  RingInv'
<1>1. /\ Dispatch(item)
      /\ UNCHANGED <<flash, ramVars, listener, reinit, eraseReminder, erasing,
                     bootVars>>
  BY DEF ItemDropped
<1>2. item # "ERASE"
  BY ItemStoreAssumption DEF ItemStoreAssumption
<1>3. /\ phase = "run" /\ phase' = "run"
      /\ UNCHANGED <<soundBoot, eraseFailed>>
      /\ EraseWaits(messages') <=> EraseWaits(messages)
      /\ ~eraseFailed => ErasesInTime(messages', currentPageNrOfItems)
  BY <1>1, <1>2, DispatchQueue DEF bootVars
<1>4. Deleting' <=> Deleting
  BY <1>1, <1>3 DEF Deleting, EraseWaits
<1>5. ~eraseFailed => DeleteInv'
  BY <1>1, <1>3, <1>4, Running DEF DeleteInv, ramVars
<1>6. ~eraseFailed /\ soundBoot =>
        /\ ~(listener' = "Erasing" /\ reinit') => ChainInv'
        /\ ~Deleting' => CountInv'
  BY <1>1, <1>3, <1>4, RunGoesOn DEF ramVars
<1> QED
  BY <1>1, <1>3, <1>4, <1>5, <1>6, Running, RunStep, EraseUnchanged

LEMMA LoseItemRing ==
  ASSUME IInv, NEW item \in Item, LoseItem(item)
  PROVE  RingInv'
BY ItemDroppedRing DEF LoseItem, ItemDropped

\* The erase of the whole store has just started.
LEMMA WholeStoreErases ==
  ASSUME erasing' = WholeStore
  PROVE  EraseInv'
BY Numbers, RingNumbers DEF EraseInv, WholeStore, Pages

LEMMA StartEraseRing ==
  ASSUME IInv, StartErase
  PROVE  RingInv'
<1>1. erasing.left = 0
  BY IdleInterlock DEF StartErase, IInv
<1>2. /\ Dispatch("ERASE") /\ listener' = "Erasing" /\ reinit'
      /\ erasing' = WholeStore /\ phase' = "run"
      /\ UNCHANGED <<flash, ramVars, eraseReminder, soundBoot, eraseFailed>>
  BY <1>1 DEF StartErase, FlashErase
<1>3. /\ phase = "run" /\ Deleting
      /\ ~eraseFailed => ErasesInTime(messages', currentPageNrOfItems)
  BY <1>2, DispatchQueue, DeletingIs
<1>4. Deleting'
  BY <1>2 DEF Deleting
<1>5. ~eraseFailed => DeleteInv'
  BY <1>2, <1>3, Running DEF DeleteInv, ramVars
<1> QED
  BY <1>2, <1>3, <1>4, <1>5, WholeStoreErases, RunStep

LEMMA RemindEraseRing ==
  ASSUME IInv, RemindErase
  PROVE  RingInv'
<1>1. /\ Dispatch("ERASE") /\ listener = "Erasing" /\ eraseReminder'
      /\ UNCHANGED <<flash, ramVars, listener, reinit, erasing, bootVars>>
  BY DEF RemindErase
<1>2. /\ phase = "run" /\ phase' = "run" /\ Deleting
      /\ UNCHANGED <<soundBoot, eraseFailed>>
      /\ ~eraseFailed => ErasesInTime(messages', currentPageNrOfItems)
  BY <1>1, DispatchQueue, DeletingIs DEF bootVars
<1>3. Deleting'
  BY <1>1 DEF Deleting
<1>4. ~eraseFailed => DeleteInv'
  BY <1>1, <1>2, Running DEF DeleteInv, ramVars
<1>5. ~eraseFailed /\ soundBoot =>
        /\ ~(listener' = "Erasing" /\ reinit') => ChainInv'
        /\ ~Deleting' => CountInv'
  BY <1>1, <1>2, <1>3, RunGoesOn DEF ramVars
<1> QED
  BY <1>1, <1>2, <1>3, <1>4, <1>5, Running, RunStep, EraseUnchanged

LEMMA EraseDoneRing ==
  ASSUME IInv, EraseDone
  PROVE  RingInv'
<1>1. /\ Dispatch("ERASE_DONE") /\ listener = "Erasing" /\ listener' = "Idle"
      /\ ~reinit /\ ~eraseReminder
      /\ UNCHANGED <<flash, ramVars, reinit, eraseReminder, erasing, bootVars>>
  BY DEF EraseDone
<1>2. /\ phase = "run" /\ phase' = "run"
      /\ UNCHANGED <<soundBoot, eraseFailed>>
      /\ EraseWaits(messages') <=> EraseWaits(messages)
      /\ ~eraseFailed => ErasesInTime(messages', currentPageNrOfItems)
  BY <1>1, DispatchQueue DEF bootVars
<1>3. erasing.left = 0
  BY <1>1, DispatchDone DEF IInv
<1>4. Deleting' <=> Deleting
  BY <1>1, <1>2 DEF Deleting, EraseWaits
<1>5. ~eraseFailed => DeleteInv'
  BY <1>1, <1>2, <1>4, Running DEF DeleteInv, ramVars
<1>6. EraseInv'
  BY <1>1 DEF EraseInv
<1>7. ASSUME ChainInv
      PROVE  ChainInv' /\ (CountInv => CountInv')
  <2>1. flash[WritePage] = ErasedPage
    <3>1. erasing # [page |-> WritePage, left |-> 1]
      BY <1>3
    <3> QED
      BY <1>1, <1>7, <3>1 DEF ChainInv
  <2>2. flash \in [Pages -> Page]
    BY DEF IInv, InterlockInv, TypeOK
  <2>3. Kept = flash
    BY <1>1, <2>1, <2>2, KeptIs
  <2>4. Kept' = flash
    BY <1>1, <2>2 DEF Kept, GivenUp
  <2> QED
    BY <1>1, <1>7, <2>3, <2>4
       DEF ChainInv, CountInv, ramVars, WritePage, WritePageInv, IsAnnounced
<1>8. ~eraseFailed /\ soundBoot => ChainInv /\ (~Deleting => CountInv)
  BY <1>1, <1>2, Running DEF RunInv
<1> QED
  BY <1>1, <1>2, <1>4, <1>5, <1>6, <1>7, <1>8, Running, RunStep

LEMMA EraseRemindedRing ==
  ASSUME IInv, EraseReminded
  PROVE  RingInv'
<1>1. erasing.left = 0
  BY DispatchDone DEF EraseReminded, IInv
<1>2. /\ Dispatch("ERASE_DONE") /\ eraseReminder /\ listener = "Erasing"
      /\ ~eraseReminder' /\ reinit' /\ erasing' = WholeStore /\ phase' = "run"
      /\ UNCHANGED <<flash, ramVars, listener, soundBoot, eraseFailed>>
  BY <1>1 DEF EraseReminded, FlashErase
<1>3. /\ phase = "run" /\ Deleting
      /\ ~eraseFailed => ErasesInTime(messages', currentPageNrOfItems)
  BY <1>2, DispatchQueue, DeletingIs
<1>4. Deleting'
  BY <1>2 DEF Deleting
<1>5. ~eraseFailed => DeleteInv'
  BY <1>2, <1>3, Running DEF DeleteInv, ramVars
<1> QED
  BY <1>2, <1>3, <1>4, <1>5, WholeStoreErases, RunStep

LEMMA FlashEndOfOperationRing ==
  ASSUME IInv, FlashEndOfOperation
  PROVE  RingInv'
<1>1. /\ phase = "run" /\ phase' = "run" /\ erasing.left > 0
      /\ UNCHANGED <<soundBoot, eraseFailed, ramVars, listener, reinit,
                     eraseReminder>>
      /\ flash' = [flash EXCEPT ![erasing.page] = ErasedPage]
      /\ erasing' = [page |-> erasing.page + 1, left |-> erasing.left - 1]
      /\ messages' = messages \/ messages' = Append(messages, "ERASE_DONE")
  BY DEF FlashEndOfOperation, bootVars
<1>2. /\ listener = "Erasing" /\ messages \in Seq(Message)
      /\ flash \in [Pages -> Page] /\ currentPageNrOfItems \in Nat
      /\ erasing.page \in Pages /\ erasing.left \in Nat
      /\ "ERASE_DONE" \in Message
  BY <1>1 DEF IInv, InterlockInv, EraseInterlock, TypeOK, EraseJob, Message
<1>3. /\ EraseWaits(messages') <=> EraseWaits(messages)
      /\ ErasesInTime(messages, currentPageNrOfItems) =>
           ErasesInTime(messages', currentPageNrOfItems)
  BY <1>1, <1>2, EraseInAppend
<1>4. Deleting' <=> Deleting
  BY <1>1, <1>3 DEF Deleting, EraseWaits
<1>5. ~eraseFailed => DeleteInv'
  BY <1>1, <1>3, <1>4, Running DEF DeleteInv, ramVars
<1>6. ASSUME ~eraseFailed
      PROVE  EraseInv'
  <2> SUFFICES ASSUME reinit
               PROVE  EraseInv'
    BY <1>1 DEF EraseInv
  <2>1. /\ erasing.page + erasing.left = LastPage + 1
        /\ \A p \in Pages : p < erasing.page => flash[p] = ErasedPage
    BY <1>1, <1>2, <1>6, Running DEF EraseInv
  <2>2. erasing'.page = erasing.page + 1 /\ erasing'.left = erasing.left - 1
    BY <1>1
  <2>3. \A p \in Pages :
          erasing'.left = 0 \/ p < erasing'.page => p <= erasing.page
    BY <1>2, <2>1, <2>2, Numbers DEF Pages
  <2>4. \A p \in Pages : p <= erasing.page => flash'[p] = ErasedPage
    BY <1>1, <1>2, <2>1, Numbers DEF Pages
  <2>5. erasing'.page + erasing'.left = LastPage + 1
    BY <1>2, <2>1, <2>2, Numbers DEF Pages
  <2> QED
    BY <2>3, <2>4, <2>5 DEF EraseInv
<1>7. ASSUME ChainInv
      PROVE  ChainInv' /\ (CountInv => CountInv')
  <2>1. erasing.page = WritePage /\ erasing.left = 1
    BY <1>1, <1>2, <1>7 DEF ChainInv
  <2>2. /\ flash'[WritePage] = ErasedPage /\ erasing'.left = 0
        /\ WritePage' = WritePage
    BY <1>1, <1>2, <2>1 DEF WritePage, ramVars
  <2>3. Kept' = Kept
    BY <1>1, <1>2, <2>1, <2>2 DEF Kept, GivenUp
  <2> QED
    BY <1>1, <1>7, <2>2, <2>3 DEF ChainInv, CountInv, WritePageInv, IsAnnounced, ramVars
<1>8. ~eraseFailed /\ soundBoot =>
        /\ ~(listener = "Erasing" /\ reinit) => ChainInv
        /\ ~Deleting => ChainInv /\ CountInv
  BY <1>1, Running DEF RunInv
<1> QED
  BY <1>1, <1>2, <1>4, <1>5, <1>6, <1>7, <1>8, Running, RunStep

LEMMA FlashOperationErrorRing ==
  ASSUME IInv, FlashOperationError
  PROVE  RingInv'
<1>1. /\ phase = "run" /\ phase' = "run" /\ eraseFailed'
      /\ UNCHANGED <<listener, eraseReminder>>
  BY DEF FlashOperationError
<1> QED
  BY <1>1 DEF IInv, RingInv

-----------------------------------------------------------------------------
(* Advancing to the next page.                                             *)

\* Whatever the pages, the phase goes on or the processor is stopped, and an
\* erase that is started is that of one page.
LEMMA AdjustFrame ==
  ASSUME NEW f, NEW tag, NEW oldest, NEW full, NEW resume,
         AdjustNextWritePage(f, tag, oldest, full, resume)
  PROVE  /\ phase' \in {resume, "halted"}
         /\ \/ UNCHANGED <<listener, reinit>>
            \/ listener' = "Erasing" /\ ~reinit'
BY DEF AdjustNextWritePage, FlashErase

\* On a ring the next page is free, or it is the head and is given up.
LEMMA AdjustRing ==
  ASSUME NEW f \in [Pages -> Page], NEW newest \in PageTag,
         NEW oldest \in PageTag, NEW full, NEW resume,
         IsRing(f, oldest.pageId, newest),
         f[newest.pageId].begin = newest.blockId,
         f[newest.pageId].complete = SuccessorTag(newest),
         oldest.blockId = f[oldest.pageId].begin,
         full = Cardinality(Closed(f)),
         listener = "Idle", erasing.left = 0, flash' = f,
         AdjustNextWritePage(f, SuccessorTag(newest), oldest, full, resume)
  PROVE  RunInv' /\ phase' = resume
<1> DEFINE next == NextTag(newest)
           head == oldest.pageId
           last == newest.pageId
<1>1. /\ last \in Pages /\ head \in Pages /\ newest.blockId \in BlockIds
      /\ next \in PageTag /\ next.pageId = NextPageNr(last)
      /\ next.pageId \in Pages
      /\ SuccessorTag(newest).nextPage = next.pageId
      /\ SuccessorTag(newest).nextPageId = next.blockId
      /\ f[last].complete.nextPage = NextPageNr(last)
  BY NextTagType, NextPageNrType DEF PageTag, NextTag, SuccessorTag
<1>2. nextWritePageInfo' = next
  BY <1>1 DEF AdjustNextWritePage, NextTag, SuccessorTag
<1>3. WritePage' = next.pageId
  BY <1>2 DEF WritePage
<1> HIDE DEF next
<1>4. CASE next.pageId # head
  <2>1. IsRing(f, head, next) /\ f[next.pageId] = ErasedPage
    BY <1>1, <1>4, RingExtended DEF next
  <2>2. HasNoData(f[next.pageId])
    BY <2>1 DEF HasNoData, IsUsed, IsComplete, ErasedPage
  <2>3. /\ nrOfFullPages' = full /\ oldestPageInfo' = oldest /\ phase' = resume
        /\ listener' = "Idle"
    BY <1>1, <2>2 DEF AdjustNextWritePage
  <2>4. Kept' = f
    BY <2>3 DEF Kept, GivenUp
  <2>5. IsAnnounced(f)'
    <3>1. f[last].complete = [nextPage |-> next.pageId, nextPageId |-> next.blockId]
      BY <1>1 DEF SuccessorTag
    <3> QED
      BY <1>1, <1>2, <1>3, <3>1 DEF IsAnnounced
  <2>6. WritePageInv(Kept)'
    BY <1>3, <2>1, <2>4, <2>5 DEF WritePageInv, IsAnnounced
  <2>7. ~IsOpenPage(f[next.pageId])
    BY <2>1 DEF IsOpenPage, IsUsed, ErasedPage
  <2> QED
    BY <1>1, <1>2, <1>3, <1>4, <2>1, <2>3, <2>4, <2>6, <2>7
       DEF RunInv, ChainInv, CountInv
<1>5. CASE next.pageId = head
  <2> DEFINE second == NextPageNr(head)
             kept == [f EXCEPT ![head] = ErasedPage]
  <2>1. /\ Distance(head, last) = NrOfPages - 1
        /\ Distance(head, head) = 0
        /\ second \in Pages /\ second # head
        /\ Distance(head, second) = 1
        /\ last # head
    <3>1. Distance(head, head) = 0
      BY <1>1, DistanceType
    <3>2. Distance(head, last) = NrOfPages - 1
      <4>1. NextPageNr(last) = head
        BY <1>1, <1>5
      <4> QED
        BY <1>1, <4>1, DistanceNext
    <3>3. second \in Pages /\ second # head
      BY <1>1, DistanceNext
    <3>4. Distance(head, second) = Distance(head, head) + 1
      BY <1>1, <3>3, DistanceNext
    <3> HIDE DEF second
    <3> QED
      BY <3>1, <3>2, <3>3, <3>4, Numbers
  <2>2. /\ IsUsed(f[head]) /\ IsComplete(f[head])
        /\ f[head].complete.nextPage = second
    BY <1>1, <2>1, RingFacts, Numbers
  <2>3. IsUsed(f[second])
    <3>1. CASE second = last
      BY <1>1, <3>1, Numbers, RingNumbers DEF IsUsed, BlockIds
    <3>2. CASE second # last
      <4>1. Distance(head, second) < Distance(head, last)
        BY <1>1, <2>1, <3>2, DistanceSame, DistanceType, Numbers
      <4> QED
        BY <1>1, <2>1, <4>1, RingFacts
    <3> QED
      BY <3>1, <3>2
  <2>4. BeginTag(f, second) = [pageId |-> second, blockId |-> f[second].begin]
    BY <2>1, <2>3 DEF BeginTag
  <2>5. f[second].begin \in BlockIds
    BY <2>1, <2>3 DEF IsUsed, Page
  <2>6. ~(HasNoData(f[SuccessorTag(newest).nextPage])
            \/ oldest.pageId # SuccessorTag(newest).nextPage)
    BY <1>1, <1>5, <2>2 DEF HasNoData
  <2>7. /\ nrOfFullPages' = Decrement(full)
        /\ oldestPageInfo' = BeginTag(f, second)
        /\ listener' = "Erasing"
        /\ erasing' = [page |-> head, left |-> 1]
        /\ phase' = resume
    BY <1>1, <1>5, <2>2, <2>6 DEF AdjustNextWritePage, FlashErase
  <2>8. Kept' = kept
    <3>1. GivenUp' = {head}
      BY <1>3, <1>5, <2>7 DEF GivenUp
    <3> QED
      BY <3>1 DEF Kept
  <2>9. IsRing(kept, second, next)
    BY <1>1, <1>5, RingRecycled DEF next
  <2>10. nrOfFullPages' = Cardinality(Closed(kept))
    <3>1. Closed(f) \in SUBSET Pages /\ head \in Closed(f)
      BY <1>1, <2>2 DEF Closed
    <3>2. Closed(kept) = Closed(f) \ {head}
      BY <1>1 DEF Closed, IsComplete, ErasedPage
    <3> QED
      BY <2>7, <3>1, <3>2, CountRemoved
  <2>11. WritePageInv(Kept)'
    <3>1. kept[last].complete =
            [nextPage |-> next.pageId, nextPageId |-> next.blockId]
      BY <1>1, <2>1 DEF SuccessorTag
    <3>2. kept[head] = ErasedPage
      BY <1>1
    <3> HIDE DEF kept
    <3> QED
      BY <1>1, <1>2, <1>3, <1>5, <2>8, <3>1, <3>2 DEF WritePageInv, IsAnnounced
  <2>12. /\ kept[second] = f[second]
         /\ oldestPageInfo' = [pageId |-> second, blockId |-> f[second].begin]
         /\ oldestPageInfo' \in PageTag
    BY <2>1, <2>4, <2>5, <2>7 DEF PageTag
  <2>13. ~IsOpenPage(kept[head])
    BY <1>1 DEF IsOpenPage, IsUsed, ErasedPage
  <2> HIDE DEF kept, second
  <2> QED
    BY <1>1, <1>2, <1>3, <1>5, <2>1, <2>7, <2>8, <2>9, <2>10, <2>11, <2>12, <2>13
       DEF RunInv, ChainInv, CountInv
<1> QED
  BY <1>4, <1>5

LEMMA ItemAppended ==
  ASSUME NEW page \in Page, NEW item \in Item, NEW tag \in CompleteTag
  PROVE  [[page EXCEPT !.items = Append(@, item)] EXCEPT !.complete = tag]
           = [begin |-> page.begin, complete |-> tag,
              items |-> Append(page.items, item)]
<1> DEFINE Grown == [page EXCEPT !.items = Append(@, item)]
<1>1. page.items \in Seq(Item)
  BY DEF Page
<1>2. Append(page.items, item) \in Seq(Item)
  BY <1>1
<1>3. /\ Grown \in Page
      /\ Grown.begin = page.begin
      /\ Grown.items = Append(page.items, item)
  BY <1>2 DEF Page
<1> HIDE DEF Grown
<1>4. [Grown EXCEPT !.complete = tag]
        = [begin |-> Grown.begin, complete |-> tag, items |-> Grown.items]
  <2> DEFINE Left == [Grown EXCEPT !.complete = tag]
             Right == [begin |-> Grown.begin, complete |-> tag,
                       items |-> Grown.items]
  <2>1. /\ Left \in Page /\ Left.complete = tag
        /\ Left.begin = Grown.begin /\ Left.items = Grown.items
    BY <1>3 DEF Page
  <2>2. Right \in Page
    BY <1>3 DEF Page
  <2>3. /\ Right.complete = tag
        /\ Right.begin = Grown.begin /\ Right.items = Grown.items
    OBVIOUS
  <2> HIDE DEF Left, Right
  <2>4. Left = Right
    BY <2>1, <2>2, <2>3 DEF Page
  <2> QED
    BY <2>4 DEF Left, Right
<1> QED
  BY <1>3, <1>4 DEF Grown

LEMMA AddLastItemRing ==
  ASSUME IInv, NEW item \in Item, AddLastItem(item)
  PROVE  RingInv'
<1> DEFINE tag == SuccessorTag(nextWritePageInfo)
           page == [begin |-> flash[WritePage].begin, complete |-> tag,
                    items |-> Append(flash[WritePage].items, item)]
           written == ItemWritten(flash, WritePage, item)
           closed == [written EXCEPT ![WritePage].complete = tag]
           full == Increment(nrOfFullPages)
<1>1. /\ Dispatch(item) /\ listener = "Idle" /\ HasFreeSlot
      /\ currentPageNrOfItems + 1 = ItemsPerPage
      /\ currentPageNrOfItems' = currentPageNrOfItems + 1
      /\ flash' = closed
      /\ AdjustNextWritePage(closed, tag, oldestPageInfo, full, "run")
      /\ UNCHANGED <<eraseReminder, soundBoot, eraseFailed>>
  BY DEF AddLastItem, ClosePage, WritePage
<1>2. item # "ERASE"
  BY ItemStoreAssumption DEF ItemStoreAssumption
<1>3. /\ phase = "run" /\ ~eraseReminder
      /\ EraseWaits(messages') <=> EraseWaits(messages)
      /\ ~eraseFailed => /\ ErasesInTime(messages', currentPageNrOfItems + 1)
                         /\ ~EraseWaits(messages)
  BY <1>1, <1>2, DispatchQueue, Running
<1> HIDE DEF closed, tag, full
<1>4. /\ phase' \in {"run", "halted"}
      /\ ~(listener' = "Erasing" /\ reinit')
  BY <1>1, AdjustFrame
<1>5. ASSUME ~eraseFailed
      PROVE  DeleteInv' /\ EraseInv' /\ ~Deleting
  BY <1>1, <1>3, <1>4, <1>5 DEF DeleteInv, EraseInv, Deleting, EraseWaits
<1>6. ASSUME ~eraseFailed, soundBoot
      PROVE  RunInv' /\ phase' = "run"
  <2>1. RunInv /\ TypeOK /\ flash \in [Pages -> Page]
    BY <1>3, <1>5, <1>6, Running DEF TypeOK
  <2>2. Kept = flash
    BY <1>1, <2>1, KeptIs
  <2>3. /\ nextWritePageInfo \in PageTag /\ oldestPageInfo \in PageTag
        /\ oldestPageInfo.pageId \in Pages /\ WritePage \in Pages
        /\ nextWritePageInfo.blockId \in BlockIds
        /\ IsRing(flash, oldestPageInfo.pageId, nextWritePageInfo)
        /\ nrOfFullPages = Cardinality(Closed(flash))
    BY <2>1, <2>2 DEF RunInv, ChainInv, CountInv, PageTag, WritePage
  <2>4. /\ IsUsed(flash[WritePage]) /\ ~IsComplete(flash[WritePage])
        /\ flash[WritePage].begin = nextWritePageInfo.blockId
    BY <1>1, <2>1, <2>3, RingFacts DEF HasFreeSlot, IsUsed, WritePage
  <2>5. tag \in CompleteTag
    BY <2>3, SuccessorTagType DEF tag
  <2>6. page \in Page
    <3>1. flash[WritePage].items \in Seq(Item)
      BY <2>1, <2>3 DEF Page
    <3>2. Append(flash[WritePage].items, item) \in Seq(Item)
      BY <3>1
    <3> QED
      BY <2>3, <2>4, <2>5, <3>2 DEF Page
  <2>7. closed = [flash EXCEPT ![WritePage] = page]
    <3>1. [[flash[WritePage] EXCEPT !.items = Append(@, item)]
             EXCEPT !.complete = tag] = page
      BY <2>1, <2>3, <2>5, ItemAppended
    <3> HIDE DEF page
    <3> QED
      BY <2>1, <2>3, <3>1 DEF closed, ItemWritten
  <2>8. /\ page.begin = nextWritePageInfo.blockId
        /\ page.complete = tag
    BY <2>4
  <2>9. IsComplete(page)
    BY <2>5, <2>8, Numbers
       DEF IsComplete, NoCompleteTag, CompleteTag, Pages
  <2> HIDE DEF page
  <2>10. /\ closed \in [Pages -> Page] /\ closed[WritePage] = page
         /\ \A p \in Pages : p # WritePage => closed[p] = flash[p]
    BY <2>1, <2>3, <2>6, <2>7
  <2>11. IsRing(closed, oldestPageInfo.pageId, nextWritePageInfo)
    BY <2>1, <2>3, <2>6, <2>7, <2>8, RingWritten DEF WritePage
  <2>12. full = Cardinality(Closed(closed))
    <3>1. Closed(flash) \in SUBSET Pages /\ WritePage \notin Closed(flash)
      BY <2>4 DEF Closed
    <3>2. Closed(closed) = Closed(flash) \cup {WritePage}
      BY <2>3, <2>9, <2>10 DEF Closed
    <3> QED
      BY <2>3, <3>1, <3>2, CountAdded DEF full
  <2>13. oldestPageInfo.blockId = closed[oldestPageInfo.pageId].begin
    BY <2>1, <2>2, <2>3, <2>8, <2>10 DEF RunInv, ChainInv, CountInv
  <2>14. erasing.left = 0
    BY <1>1, IdleInterlock DEF IInv
  <2> QED
    BY <1>1, <2>3, <2>8, <2>10, <2>11, <2>12, <2>13, <2>14, AdjustRing
       DEF WritePage, tag
<1> QED
  BY <1>1, <1>3, <1>4, <1>5, <1>6 DEF RingInv, RunInv

-----------------------------------------------------------------------------
(* Booting: the pages that are found.                                      *)

\* The tag of the newest page of a ring.
LEMMA LastTag ==
  ASSUME NEW f \in [Pages -> Page], NEW head \in Pages, NEW last \in Pages,
         IsWritten(f, head, last)
  PROVE  /\ BeginTag(f, last) = [pageId |-> last, blockId |-> f[last].begin]
         /\ BeginTag(f, last) \in PageTag
         /\ BeginTag(f, last).pageId = last
         /\ BeginTag(f, last).blockId = f[last].begin
         /\ IsRing(f, head, BeginTag(f, last))
         /\ IsUsed(f[last])
         /\ IsComplete(f[last]) =>
              f[last].complete = SuccessorTag(BeginTag(f, last))
<1>1. IsUsed(f[last]) /\ IsRing(f, head, BeginTag(f, last))
  BY DEF IsWritten
<1>2. BeginTag(f, last) = [pageId |-> last, blockId |-> f[last].begin]
  BY <1>1 DEF BeginTag
<1>3. f[last].begin \in BlockIds
  BY <1>1 DEF IsUsed, Page
<1>4. BeginTag(f, last) \in PageTag
  BY <1>2, <1>3 DEF PageTag
<1>5. IsComplete(f[last]) => f[last].complete = SuccessorTag(BeginTag(f, last))
  BY DEF IsWritten
<1>6. /\ BeginTag(f, last).pageId = last
      /\ BeginTag(f, last).blockId = f[last].begin
  BY <1>2
<1> QED
  BY <1>1, <1>2, <1>4, <1>5, <1>6

\* Which pages are in use: those up to the newest one and, if the ring wraps
\* around, those from the head on.
LEMMA Layout ==
  ASSUME NEW f \in [Pages -> Page], NEW head \in Pages, NEW last \in Pages,
         IsWritten(f, head, last), IsUsed(f[FirstPage])
  PROVE  /\ head = FirstPage \/ last < head
         /\ IsUsed(f[head])
         /\ \A p \in Pages :
              /\ IsUsed(f[p]) <=> p <= last \/ (last < head /\ head <= p)
              /\ IsUsed(f[p]) <=> Distance(head, p) <= Distance(head, last)
              /\ IsUsed(f[p]) => f[p].begin \in BlockIds
              /\ IsUsed(f[p]) /\ p # last => IsComplete(f[p])
              /\ ~IsUsed(f[p]) => f[p] = ErasedPage
         /\ \A p, q \in Pages :
              Distance(head, p) < Distance(head, q) /\ IsUsed(f[q]) =>
                InSequence(f[p].begin, f[q].begin,
                           Distance(head, q) - Distance(head, p))
<1> DEFINE tag == BeginTag(f, last)
<1>1. /\ tag \in PageTag /\ tag.pageId = last /\ tag.blockId = f[last].begin
      /\ IsRing(f, head, tag) /\ IsUsed(f[last])
  BY LastTag
<1> HIDE DEF tag
<1>2. \A p \in Pages : IdOf(f, tag, p) = f[p].begin
  BY <1>1 DEF IdOf
<1>3. \A p \in Pages : Distance(head, p) \in 0 .. NrOfPages - 1
  BY DistanceType
<1>4. ASSUME NEW p \in Pages
      PROVE  /\ IsUsed(f[p]) <=> Distance(head, p) <= Distance(head, last)
             /\ IsUsed(f[p]) => f[p].begin \in BlockIds
             /\ IsUsed(f[p]) /\ p # last => IsComplete(f[p])
             /\ ~IsUsed(f[p]) => f[p] = ErasedPage
  <2>1. CASE p = last
    BY <1>1, <1>3, <2>1 DEF IsUsed, Page
  <2>2. CASE p # last
    <3>1. Distance(head, p) # Distance(head, last)
      BY <2>2, DistanceSame
    <3>2. CASE Distance(head, p) < Distance(head, last)
      <4>1. IsUsed(f[p]) /\ IsComplete(f[p])
        BY <1>1, <3>2, RingFacts
      <4>2. f[p].begin \in BlockIds
        BY <4>1 DEF IsUsed, Page
      <4> QED
        BY <1>3, <3>2, <4>1, <4>2
    <3>3. CASE Distance(head, p) > Distance(head, last)
      <4>1. f[p] = ErasedPage
        BY <1>1, <3>3, RingFacts
      <4>2. ~IsUsed(f[p])
        BY <4>1 DEF ErasedPage, IsUsed
      <4> QED
        BY <1>3, <3>3, <4>1, <4>2
    <3> QED
      BY <1>3, <3>1, <3>2, <3>3
  <2> QED
    BY <2>1, <2>2
<1>5. FirstPage \in Pages
  BY Numbers DEF Pages
<1>6. head = FirstPage \/ last < head
  <2>1. Distance(head, FirstPage) <= Distance(head, last)
    BY <1>4, <1>5
  <2> QED
    BY <2>1, Numbers, RingNumbers DEF Distance, Pages
<1>7. IsUsed(f[head])
  <2>1. Distance(head, head) = 0
    BY DistanceType
  <2> QED
    BY <1>3, <1>4, <2>1
<1>8. \A p \in Pages : Distance(head, p) <= Distance(head, last) <=>
                         p <= last \/ (last < head /\ head <= p)
  <2>1. CASE head = FirstPage
    BY <2>1, Numbers, RingNumbers DEF Distance, Pages
  <2>2. CASE last < head
    <3> TAKE p \in Pages
    <3>1. CASE p <= last
      <4>1. /\ Distance(head, p) = p - head + NrOfPages
            /\ Distance(head, last) = last - head + NrOfPages
        BY <2>2, <3>1, Numbers DEF Distance, Pages
      <4> QED
        BY <3>1, <4>1, Numbers DEF Pages
    <3>2. CASE last < p /\ p < head
      BY <2>2, <3>2, Numbers, RingNumbers DEF Distance, Pages
    <3>3. CASE head <= p
      BY <2>2, <3>3, Numbers, RingNumbers DEF Distance, Pages
    <3> QED
      BY <3>1, <3>2, <3>3, Numbers DEF Pages
  <2> QED
    BY <1>6, <2>1, <2>2
<1>9. ASSUME NEW p \in Pages, NEW q \in Pages,
             Distance(head, p) < Distance(head, q), IsUsed(f[q])
      PROVE  InSequence(f[p].begin, f[q].begin,
                        Distance(head, q) - Distance(head, p))
  <2>1. Distance(head, q) <= Distance(head, last)
    BY <1>4, <1>9
  <2> QED
    BY <1>1, <1>2, <1>9, <2>1, RingFacts
<1> QED
  BY <1>4, <1>6, <1>7, <1>8, <1>9

\* A page scanned before the newest one is newer than those before it ...
LEMMA ScanForward ==
  ASSUME NEW f \in [Pages -> Page], NEW head \in Pages, NEW last \in Pages,
         IsWritten(f, head, last), IsUsed(f[FirstPage]),
         NEW p \in Pages, FirstPage < p, p <= last
  PROVE  /\ p - 1 \in Pages /\ IsUsed(f[p]) /\ IsUsed(f[p - 1])
         /\ IsNewer(f[p].begin, f[p - 1].begin)
<1>1. p - 1 \in Pages /\ NextPageNr(p - 1) = p
  BY Numbers DEF Pages, NextPageNr
<1>2. p # head
  BY Layout, Numbers DEF Pages
<1>3. Distance(head, p) = Distance(head, p - 1) + 1
  BY <1>1, <1>2, DistanceNext
<1>4. IsUsed(f[p]) /\ IsUsed(f[p - 1])
  BY <1>1, Layout, Numbers DEF Pages
<1>5. f[p].begin \in BlockIds /\ f[p - 1].begin \in BlockIds
  BY <1>1, <1>4, Layout
<1>6. Distance(head, p - 1) \in Nat
  BY <1>1, DistanceType
<1>7. InSequence(f[p - 1].begin, f[p].begin,
                 Distance(head, p) - Distance(head, p - 1))
  BY <1>1, <1>3, <1>4, <1>6, Layout
<1>8. InSequence(f[p - 1].begin, f[p].begin, 1)
  BY <1>3, <1>6, <1>7
<1> QED
  BY <1>1, <1>4, <1>5, <1>8, Compared, Numbers

\* ... and those from the head on are older, the head the oldest.
LEMMA ScanBehind ==
  ASSUME NEW f \in [Pages -> Page], NEW head \in Pages, NEW last \in Pages,
         IsWritten(f, head, last), IsUsed(f[FirstPage]),
         NEW p \in Pages, last < p, IsUsed(f[p])
  PROVE  /\ head <= p
         /\ ~IsNewer(f[p].begin, f[last].begin)
         /\ IsComplete(f[last]) /\ ~IsUsed(f[NextPageNr(last)]) =>
              ~IsNewer(f[p].begin, NextTag(BeginTag(f, last)).blockId)
         /\ p = head => IsOlder(f[p].begin, f[FirstPage].begin)
         /\ p # head => ~IsOlder(f[p].begin, f[head].begin)
<1> DEFINE tag == BeginTag(f, last)
<1>1. /\ FirstPage \in Pages /\ last < head /\ head <= p /\ FirstPage # head
      /\ p # last /\ IsUsed(f[head]) /\ IsUsed(f[last])
  <2>1. FirstPage \in Pages /\ p # last
    BY Numbers DEF Pages
  <2>2. last < head /\ head <= p
    BY Layout, Numbers DEF Pages
  <2>3. FirstPage # head
    BY <2>2, Numbers DEF Pages
  <2> QED
    BY <2>1, <2>2, <2>3, Layout DEF IsWritten
<1>2. /\ f[p].begin \in BlockIds /\ f[last].begin \in BlockIds
      /\ f[head].begin \in BlockIds /\ f[FirstPage].begin \in BlockIds
  BY <1>1, Layout
<1>3. \A q \in Pages : /\ Distance(head, q) \in 0 .. NrOfPages - 1
                       /\ Distance(head, q) = 0 <=> q = head
  BY DistanceType
<1>4. Distance(head, p) < Distance(head, last)
  <2>1. Distance(head, p) <= Distance(head, last)
    BY Layout
  <2>2. Distance(head, p) # Distance(head, last)
    BY <1>1, DistanceSame
  <2> QED
    BY <1>3, <2>1, <2>2
<1>5. ~IsNewer(f[p].begin, f[last].begin)
  <2>1. InSequence(f[p].begin, f[last].begin,
                   Distance(head, last) - Distance(head, p))
    BY <1>1, <1>4, Layout
  <2>2. Distance(head, last) - Distance(head, p) \in 1 .. NrOfPages - 1
    BY <1>3, <1>4, Numbers
  <2> QED
    BY <1>2, <2>1, <2>2, Compared
<1>6. ASSUME IsComplete(f[last]), ~IsUsed(f[NextPageNr(last)])
      PROVE  ~IsNewer(f[p].begin, NextTag(tag).blockId)
  <2>1. /\ tag \in PageTag /\ tag.pageId = last /\ tag.blockId = f[last].begin
        /\ IsRing(f, head, tag)
    BY LastTag
  <2>2. NextPageNr(last) \in Pages /\ NextPageNr(last) # head
    BY <1>1, <1>6, NextPageNrType
  <2>3. NextTag(tag).blockId \in BlockIds
    BY <2>1, NextTagType DEF PageTag
  <2>4. Distance(head, NextPageNr(last)) = Distance(head, last) + 1
    BY <2>2, DistanceNext
  <2>5. InSequence(f[p].begin, NextTag(tag).blockId,
                   Distance(head, last) + 1 - Distance(head, p))
    <3> HIDE DEF tag
    <3>1. Distance(head, p) <= Distance(head, tag.pageId)
      BY <1>3, <1>4, <2>1
    <3> QED
      BY <2>1, <3>1, RingIdsGoOn
  <2>6. Distance(head, last) + 1 - Distance(head, p) \in 1 .. NrOfPages - 1
    BY <1>3, <1>4, <2>2, <2>4, Numbers
  <2> HIDE DEF tag
  <2> QED
    BY <1>2, <2>3, <2>5, <2>6, Compared
<1>7. ASSUME NEW q \in Pages, IsUsed(f[q]), q # head
      PROVE  /\ IsOlder(f[head].begin, f[q].begin)
             /\ ~IsOlder(f[q].begin, f[head].begin)
  <2>1. Distance(head, head) = 0 /\ Distance(head, q) \in 1 .. NrOfPages - 1
    BY <1>3, <1>7, Numbers
  <2>2. InSequence(f[head].begin, f[q].begin,
                   Distance(head, q) - Distance(head, head))
    BY <1>7, <2>1, Layout
  <2>3. InSequence(f[head].begin, f[q].begin, Distance(head, q))
    BY <2>1, <2>2
  <2>4. f[q].begin \in BlockIds
    BY <1>7, Layout
  <2> QED
    BY <1>2, <2>1, <2>3, <2>4, Compared
<1> QED
  BY <1>1, <1>5, <1>6, <1>7

-----------------------------------------------------------------------------
(* Booting: one step per page, then the choice of the next page.           *)

\* A boot starts: what is found is recoverable.
LEMMA BootStart ==
  ASSUME BeginInit(flash'), soundBoot', listener' = "Idle", erasing'.left = 0,
         nrOfFullPages' = 0
  PROVE  BootInv'
<1>1. /\ initPage' = FirstPage /\ nextWritePageInfo' = FirstTag
      /\ oldestPageInfo' = FirstTag /\ Recoverable(flash')
  BY DEF BeginInit
<1>2. FullScanned' = {}
  BY <1>1, Numbers DEF FullScanned, Closed, Pages
<1>3. nrOfFullPages' = Cardinality(FullScanned')
  BY <1>2, FS_EmptySet
<1>4. ~(initPage' > FirstPage)
  BY <1>1, Numbers
<1> QED
  BY <1>1, <1>3, <1>4 DEF BootInv, Recoverable, AllErased

LEMMA RebootRing ==
  ASSUME NEW f, Reboot(f)
  PROVE  RingInv'
<1>1. /\ BeginInit(f) /\ flash' = f /\ nrOfFullPages' = 0
      /\ currentPageNrOfItems' = 0 /\ listener' = "Idle" /\ ~reinit'
      /\ ~eraseReminder' /\ messages' = <<>> /\ erasing' = [page |-> 0, left |-> 0]
      /\ phase' = "init"
  BY DEF Reboot, BeginInit
<1>2. ~Deleting'
  BY <1>1 DEF Deleting
<1>3. DeleteInv' /\ EraseInv'
  BY <1>1, <1>2 DEF DeleteInv, ErasesInTime, EraseInv
<1>4. soundBoot' => BootInv'
  BY <1>1, BootStart
<1> QED
  BY <1>1, <1>3, <1>4 DEF RingInv

LEMMA EraseDoneReinitRing ==
  ASSUME IInv, EraseDoneReinit
  PROVE  RingInv'
<1>1. /\ Dispatch("ERASE_DONE") /\ listener = "Erasing" /\ ~eraseReminder /\ reinit
      /\ listener' = "Idle" /\ BeginInit(flash) /\ phase' = "init"
      /\ UNCHANGED <<flash, nrOfFullPages, currentPageNrOfItems, reinit,
                     eraseReminder, erasing, eraseFailed>>
  BY DEF EraseDoneReinit, BeginInit
<1>2. erasing.left = 0
  BY <1>1, DispatchDone DEF IInv
<1>3. /\ phase = "run"
      /\ ~eraseFailed => ErasesInTime(messages', currentPageNrOfItems)
  BY <1>1, DispatchQueue
<1>4. ASSUME ~eraseFailed
      PROVE  /\ nrOfFullPages = 0 /\ AllErased(flash) /\ soundBoot'
             /\ DeleteInv' /\ EraseInv'
  <2>1. DeleteInv /\ EraseInv
    BY <1>3, <1>4, Running
  <2>2. nrOfFullPages = 0
    BY <1>1, <2>1 DEF DeleteInv, Deleting
  <2>3. AllErased(flash)
    BY <1>1, <1>2, <2>1 DEF EraseInv, AllErased
  <2>4. soundBoot'
    BY <1>1, <2>3 DEF BeginInit, Recoverable, AllErased
  <2>5. DeleteInv'
    BY <1>1, <1>3, <1>4, <2>2 DEF DeleteInv
  <2>6. EraseInv'
    BY <1>1 DEF EraseInv
  <2> QED
    BY <2>2, <2>3, <2>4, <2>5, <2>6
<1>5. ASSUME ~eraseFailed
      PROVE  BootInv'
  BY <1>1, <1>2, <1>4, <1>5, BootStart
<1>6. ASSUME ~eraseFailed
      PROVE  AllErased(flash')
  BY <1>1, <1>4, <1>6
<1> QED
  BY <1>1, <1>4, <1>5, <1>6 DEF RingInv

\* What is to be shown of a step of InitItemStore.
LEMMA InitRing ==
  ASSUME IInv, phase = "init", phase' \in {"init", "run", "halted"},
         UNCHANGED <<eraseReminder, messages, soundBoot, eraseFailed>>,
         UNCHANGED <<listener, reinit>> \/ ~reinit',
         AllErased(flash) =>
           UNCHANGED <<flash, nrOfFullPages, currentPageNrOfItems>>,
         ~eraseFailed /\ soundBoot =>
           /\ phase' # "halted"
           /\ phase' = "init" => BootInv'
           /\ phase' = "run" => RunInv'
  PROVE  RingInv'
<1>1. ~eraseReminder /\ ~(listener = "Erasing" /\ reinit)
  BY DEF IInv, RingInv
<1>2. ~eraseReminder' /\ ~(listener' = "Erasing" /\ reinit')
  BY <1>1
<1>3. ASSUME ~eraseFailed
      PROVE  /\ messages = <<>> \/ (AllErased(flash) /\ soundBoot)
             /\ DeleteInv
  BY <1>3 DEF IInv, RingInv
<1>4. EraseInv'
  BY <1>2 DEF EraseInv
<1>5. ASSUME ~eraseFailed
      PROVE  DeleteInv'
  <2>1. CASE messages = <<>>
    BY <1>2, <2>1 DEF DeleteInv, Deleting, ErasesInTime
  <2>2. CASE AllErased(flash)
    BY <1>2, <1>3, <1>5, <2>2 DEF DeleteInv, Deleting
  <2> QED
    BY <1>3, <1>5, <2>1, <2>2
<1> QED
  BY <1>2, <1>3, <1>4, <1>5 DEF RingInv, RunInv

\* What holds while InitItemStore runs.
LEMMA Booting ==
  ASSUME IInv, phase = "init"
  PROVE  /\ TypeOK /\ flash \in [Pages -> Page]
         /\ initPage \in FirstPage .. LastPage + 1
         /\ ~eraseFailed /\ soundBoot => BootInv
BY DEF IInv, InterlockInv, TypeOK, RingInv

\* Nothing is found in an erased page.
LEMMA NothingFound ==
  ASSUME AllErased(flash)
  PROVE  /\ \A p \in Pages : ~IsUsed(flash[p]) /\ ~IsComplete(flash[p])
                             /\ HasNoData(flash[p])
         /\ Closed(flash) = {} /\ FullScanned = {}
BY DEF AllErased, ErasedPage, IsUsed, IsComplete, HasNoData, Closed, FullScanned

\* The full pages, one page later.
LEMMA FullScannedNext ==
  ASSUME TypeOK, initPage \in Pages, initPage' = initPage + 1
  PROVE  /\ Closed(flash') = Closed(flash) /\ ~IsComplete(flash[initPage]) =>
              FullScanned' = FullScanned
         /\ /\ Closed(flash') = Closed(flash) \cup {initPage}
            /\ nrOfFullPages = Cardinality(FullScanned)
            => Increment(nrOfFullPages) = Cardinality(FullScanned')
<1>1. FullScanned \in SUBSET Pages /\ initPage \notin FullScanned
  BY Numbers DEF FullScanned, Closed, Pages
<1>2. Closed(flash') = Closed(flash) \cup {initPage} =>
        FullScanned' = FullScanned \cup {initPage}
  BY Numbers DEF FullScanned, Closed, Pages
<1>3. Closed(flash') = Closed(flash) /\ ~IsComplete(flash[initPage]) =>
        FullScanned' = FullScanned
  BY Numbers DEF FullScanned, Closed, Pages
<1> QED
  BY <1>1, <1>2, <1>3, CountAdded

\* What UpdateNewestOldestPage makes of the next page.
LEMMA ScanPage ==
  ASSUME NEW head \in Pages, NEW last \in Pages, flash \in [Pages -> Page],
         IsWritten(flash, head, last), IsUsed(flash[FirstPage]),
         initPage \in Pages, IsUsed(flash[initPage]),
         initPage > FirstPage => Scanned(head, last)
  PROVE  /\ HeaderTag = [pageId |-> initPage, blockId |-> flash[initPage].begin]
         /\ OldestWith(HeaderTag) =
              BeginTag(flash, IF head < initPage + 1 THEN head ELSE FirstPage)
         /\ NewestWith(HeaderTag) =
              IF initPage <= last THEN BeginTag(flash, initPage)
                                  ELSE nextWritePageInfo
<1> DEFINE id == flash[initPage].begin
<1>1. /\ HeaderTag = [pageId |-> initPage, blockId |-> id]
      /\ HeaderTag = BeginTag(flash, initPage) /\ HeaderTag.blockId = id
  BY DEF HeaderTag, BeginTag
<1>2. /\ FirstPage \in Pages /\ initPage >= FirstPage /\ last >= FirstPage
      /\ head = FirstPage \/ last < head
      /\ IsUsed(flash[last]) /\ IsUsed(flash[head])
  <2>1. FirstPage \in Pages /\ initPage >= FirstPage /\ last >= FirstPage
    BY Numbers DEF Pages
  <2> QED
    BY <2>1, Layout DEF IsWritten
<1>3. CASE initPage = FirstPage
  <2>1. /\ OldestWith(HeaderTag) = HeaderTag /\ NewestWith(HeaderTag) = HeaderTag
    BY <1>3 DEF OldestWith, NewestWith
  <2>2. (IF head < initPage + 1 THEN head ELSE FirstPage) = initPage
    BY <1>2, <1>3, Numbers DEF Pages
  <2> QED
    BY <1>1, <1>2, <1>3, <2>1, <2>2
<1>4. CASE initPage > FirstPage /\ initPage <= last
  <2>1. /\ initPage - 1 \in Pages /\ IsUsed(flash[initPage - 1])
        /\ IsNewer(id, flash[initPage - 1].begin)
    BY <1>4, ScanForward
  <2>2. nextWritePageInfo.blockId = flash[initPage - 1].begin
    <3>1. nextWritePageInfo = BeginTag(flash, initPage - 1)
      BY <1>4 DEF Scanned
    <3> QED
      BY <2>1, <3>1 DEF BeginTag
  <2>3. OldestWith(HeaderTag) = oldestPageInfo /\ NewestWith(HeaderTag) = HeaderTag
    BY <1>1, <1>4, <2>1, <2>2, Numbers DEF OldestWith, NewestWith, Pages
  <2>4. head < initPage + 1 <=> head < initPage
    BY <1>2, <1>4, Numbers DEF Pages
  <2> QED
    BY <1>1, <1>4, <2>3, <2>4 DEF Scanned
<1>5. CASE initPage > FirstPage /\ initPage > last
  <2>1. /\ head <= initPage
        /\ ~IsNewer(id, flash[last].begin)
        /\ IsComplete(flash[last]) /\ ~IsUsed(flash[NextPageNr(last)]) =>
             ~IsNewer(id, NextTag(BeginTag(flash, last)).blockId)
        /\ initPage = head => IsOlder(id, flash[FirstPage].begin)
        /\ initPage # head => ~IsOlder(id, flash[head].begin)
    BY <1>5, ScanBehind
  <2>2. ~IsNewer(id, nextWritePageInfo.blockId)
    <3>1. BeginTag(flash, last).blockId = flash[last].begin
      BY <1>2 DEF BeginTag
    <3>2. ~(initPage <= last)
      BY <1>5, Numbers DEF Pages
    <3> QED
      BY <1>5, <2>1, <3>1, <3>2 DEF Scanned
  <2>3. /\ NewestWith(HeaderTag) = nextWritePageInfo
        /\ OldestWith(HeaderTag) =
             IF IsOlder(id, oldestPageInfo.blockId) THEN HeaderTag
                                                    ELSE oldestPageInfo
    BY <1>1, <1>5, <2>2, Numbers DEF OldestWith, NewestWith, Pages
  <2>4. oldestPageInfo =
          BeginTag(flash, IF head < initPage THEN head ELSE FirstPage)
    BY <1>5 DEF Scanned
  <2>5. /\ BeginTag(flash, head).blockId = flash[head].begin
        /\ BeginTag(flash, FirstPage).blockId = flash[FirstPage].begin
    BY <1>2 DEF BeginTag
  <2>6. head < initPage + 1
    BY <2>1, Numbers DEF Pages
  <2>7. ~(initPage <= last)
    BY <1>5, Numbers DEF Pages
  <2>8. CASE initPage = head
    <3>1. oldestPageInfo = BeginTag(flash, FirstPage)
      BY <2>4, <2>8, Numbers DEF Pages
    <3>2. OldestWith(HeaderTag) = BeginTag(flash, head)
      BY <1>1, <2>1, <2>3, <2>5, <2>8, <3>1
    <3> QED
      BY <1>1, <2>3, <2>6, <2>7, <3>2
  <2>9. CASE initPage # head
    <3>1. head < initPage
      BY <2>1, <2>9, Numbers DEF Pages
    <3>2. OldestWith(HeaderTag) = BeginTag(flash, head)
      BY <2>1, <2>3, <2>4, <2>5, <2>9, <3>1
    <3> QED
      BY <1>1, <2>3, <2>6, <2>7, <3>2
  <2> QED
    BY <2>8, <2>9
<1> QED
  BY <1>2, <1>3, <1>4, <1>5, Numbers DEF Pages

\* The scan goes on behind the newest page; an open one is recovered.
LEMMA ScannedNext ==
  ASSUME NEW head \in Pages, NEW last \in Pages, flash \in [Pages -> Page],
         IsWritten(flash, head, last), IsUsed(flash[FirstPage]),
         initPage \in Pages, IsUsed(flash[initPage]), initPage' = initPage + 1,
         initPage > FirstPage => Scanned(head, last), UNCHANGED flash,
         nextWritePageInfo' = NewestWith(HeaderTag),
         oldestPageInfo' = OldestWith(HeaderTag),
         IF IsComplete(flash[initPage])
           THEN UNCHANGED currentPageNrOfItems
           ELSE /\ currentPageNrOfItems' = Len(flash[initPage].items)
                /\ currentPageNrOfItems' < ItemsPerPage
  PROVE  Scanned(head, last)'
<1>1. /\ oldestPageInfo' =
           BeginTag(flash, IF head < initPage + 1 THEN head ELSE FirstPage)
      /\ nextWritePageInfo' =
           IF initPage <= last THEN BeginTag(flash, initPage)
                               ELSE nextWritePageInfo
  BY ScanPage
<1>2. IF initPage' <= last
        THEN nextWritePageInfo' = BeginTag(flash, initPage' - 1)
        ELSE \/ nextWritePageInfo' = BeginTag(flash, last)
             \/ /\ nextWritePageInfo' = NextTag(BeginTag(flash, last))
                /\ IsComplete(flash[last])
                /\ ~IsUsed(flash[NextPageNr(last)])
  <2>1. CASE initPage < last
    <3>1. initPage' <= last /\ initPage' - 1 = initPage /\ initPage <= last
      BY <2>1, Numbers DEF Pages
    <3> QED
      BY <1>1, <3>1
  <2>2. CASE initPage = last
    <3>1. ~(initPage' <= last) /\ initPage <= last
      BY <2>2, Numbers DEF Pages
    <3> QED
      BY <1>1, <2>2, <3>1
  <2>3. CASE initPage > last
    <3>1. /\ ~(initPage' <= last) /\ ~(initPage <= last)
          /\ initPage > FirstPage
      BY <2>3, Numbers DEF Pages
    <3> QED
      BY <1>1, <3>1 DEF Scanned
  <2> QED
    BY <2>1, <2>2, <2>3, Numbers DEF Pages
<1>3. ASSUME initPage' > last, ~IsComplete(flash[last])
      PROVE  /\ currentPageNrOfItems' = Len(flash[last].items)
             /\ currentPageNrOfItems' < ItemsPerPage
  <2>1. CASE initPage = last
    BY <1>3, <2>1
  <2>2. CASE initPage # last
    <3>1. initPage > last /\ initPage > FirstPage
      BY <1>3, <2>2, Numbers DEF Pages
    <3>2. IsComplete(flash[initPage])
      BY <2>2, Layout
    <3> QED
      BY <1>3, <3>1, <3>2 DEF Scanned
  <2> QED
    BY <2>1, <2>2
<1> QED
  BY <1>1, <1>2, <1>3 DEF Scanned

LEMMA SkipErasedPageRing ==
  ASSUME IInv, SkipErasedPage
  PROVE  RingInv'
<1>1. /\ phase = "init" /\ initPage \in Pages /\ initPage' = initPage + 1
      /\ ~IsUsed(flash[initPage]) /\ ~IsComplete(flash[initPage])
      /\ UNCHANGED <<flash, ramVars, listener, reinit, erasing, phase,
                     eraseReminder, messages, soundBoot, eraseFailed>>
  BY DEF SkipErasedPage, InitStep, HasNoData
<1>2. UNCHANGED <<nrOfFullPages, currentPageNrOfItems, nextWritePageInfo,
                  oldestPageInfo>>
  BY <1>1 DEF ramVars
<1>3. ASSUME ~eraseFailed, soundBoot
      PROVE  BootInv'
  <2>1. BootInv /\ TypeOK /\ flash \in [Pages -> Page]
    BY <1>1, <1>3, Booting
  <2>2. FullScanned' = FullScanned /\ Closed(flash') = Closed(flash)
    BY <1>1, <2>1, FullScannedNext
  <2>3. /\ listener' = "Idle" /\ erasing'.left = 0
        /\ nrOfFullPages' = Cardinality(FullScanned')
    BY <1>1, <1>2, <2>1, <2>2 DEF BootInv
  <2>4. CASE AllErased(flash) /\ nextWritePageInfo = FirstTag
                              /\ oldestPageInfo = FirstTag
    BY <1>1, <1>2, <2>3, <2>4 DEF BootInv
  <2>5. ASSUME IsUsed(flash[FirstPage]), NEW head \in Pages, NEW last \in Pages,
               IsWritten(flash, head, last),
               initPage > FirstPage => Scanned(head, last)
        PROVE  Scanned(head, last)'
    <3>1. /\ IsUsed(flash[head])
          /\ ~(initPage <= last) /\ initPage # head /\ initPage # FirstPage
      BY <1>1, <2>1, <2>5, Layout
    <3>2. /\ initPage > FirstPage /\ initPage > last /\ ~(initPage' <= last)
          /\ head < initPage' <=> head < initPage
      BY <1>1, <3>1, Numbers DEF Pages
    <3> QED
      BY <1>1, <1>2, <2>5, <3>1, <3>2 DEF Scanned
  <2>6. CASE /\ IsUsed(flash[FirstPage])
             /\ \E head, last \in Pages :
                  /\ IsWritten(flash, head, last)
                  /\ initPage > FirstPage => Scanned(head, last)
    BY <1>1, <2>3, <2>5, <2>6 DEF BootInv
  <2> QED
    BY <2>1, <2>4, <2>6 DEF BootInv
<1> QED
  BY <1>1, <1>2, <1>3, InitRing

\* A page in use is found while a ring is scanned.
LEMMA RingFound ==
  ASSUME IInv, phase = "init", ~eraseFailed, soundBoot,
         initPage \in Pages, HasNoData(flash[initPage]) => FALSE
  PROVE  /\ IsUsed(flash[initPage])
         /\ IsUsed(flash[FirstPage]) /\ flash \in [Pages -> Page]
         /\ listener = "Idle" /\ erasing.left = 0
         /\ nrOfFullPages = Cardinality(FullScanned)
         /\ \E head, last \in Pages :
              /\ IsWritten(flash, head, last)
              /\ initPage > FirstPage => Scanned(head, last)
<1>1. BootInv /\ flash \in [Pages -> Page]
  BY Booting
<1>2. ~AllErased(flash)
  BY NothingFound
<1>3. PICK head \in Pages, last \in Pages :
        /\ IsUsed(flash[FirstPage])
        /\ IsWritten(flash, head, last)
        /\ initPage > FirstPage => Scanned(head, last)
  BY <1>1, <1>2 DEF BootInv
<1>4. IsUsed(flash[initPage])
  <2>1. ~IsUsed(flash[initPage]) => flash[initPage] = ErasedPage
    BY <1>1, <1>3, Layout
  <2> QED
    BY <2>1 DEF HasNoData, IsUsed, IsComplete, ErasedPage
<1> QED
  BY <1>1, <1>3, <1>4 DEF BootInv

LEMMA CountFullPageRing ==
  ASSUME IInv, CountFullPage
  PROVE  RingInv'
<1>1. /\ phase = "init" /\ initPage \in Pages /\ initPage' = initPage + 1
      /\ IsComplete(flash[initPage])
      /\ nextWritePageInfo' = NewestWith(HeaderTag)
      /\ oldestPageInfo' = OldestWith(HeaderTag)
      /\ nrOfFullPages' = Increment(nrOfFullPages)
      /\ UNCHANGED <<flash, currentPageNrOfItems, listener, reinit, erasing,
                     phase, eraseReminder, messages, soundBoot, eraseFailed>>
  BY DEF CountFullPage, InitStep
<1>2. ASSUME ~eraseFailed, soundBoot
      PROVE  BootInv'
  <2>1. ~HasNoData(flash[initPage])
    BY <1>1 DEF HasNoData
  <2>2. /\ IsUsed(flash[initPage])
        /\ IsUsed(flash[FirstPage]) /\ flash \in [Pages -> Page]
        /\ listener = "Idle" /\ erasing.left = 0
        /\ nrOfFullPages = Cardinality(FullScanned)
    BY <1>1, <1>2, <2>1, RingFound
  <2>3. PICK head \in Pages, last \in Pages :
          /\ IsWritten(flash, head, last)
          /\ initPage > FirstPage => Scanned(head, last)
    BY <1>1, <1>2, <2>1, RingFound
  <2>4. Scanned(head, last)'
    BY <1>1, <2>2, <2>3, ScannedNext
  <2>5. Closed(flash') = Closed(flash) \cup {initPage}
    BY <1>1 DEF Closed
  <2>6. nrOfFullPages' = Cardinality(FullScanned')
    BY <1>1, <2>2, <2>5, FullScannedNext, Booting
  <2> QED
    BY <1>1, <2>2, <2>3, <2>4, <2>6 DEF BootInv
<1>3. ~AllErased(flash)
  BY <1>1, NothingFound
<1> QED
  BY <1>1, <1>2, <1>3, InitRing

LEMMA RecoverOpenPageRing ==
  ASSUME IInv, RecoverOpenPage
  PROVE  RingInv'
<1>1. /\ phase = "init" /\ initPage \in Pages /\ initPage' = initPage + 1
      /\ IsUsed(flash[initPage]) /\ ~IsComplete(flash[initPage])
      /\ Len(flash[initPage].items) < ItemsPerPage
      /\ nextWritePageInfo' = NewestWith(HeaderTag)
      /\ oldestPageInfo' = OldestWith(HeaderTag)
      /\ currentPageNrOfItems' = Len(flash[initPage].items)
      /\ UNCHANGED <<flash, nrOfFullPages, listener, reinit, erasing, phase,
                     eraseReminder, messages, soundBoot, eraseFailed>>
  BY DEF RecoverOpenPage, InitStep, IsOpenPage
<1>2. ASSUME ~eraseFailed, soundBoot
      PROVE  BootInv'
  <2>1. ~HasNoData(flash[initPage])
    BY <1>1 DEF HasNoData
  <2>2. /\ IsUsed(flash[initPage])
        /\ IsUsed(flash[FirstPage]) /\ flash \in [Pages -> Page]
        /\ listener = "Idle" /\ erasing.left = 0
        /\ nrOfFullPages = Cardinality(FullScanned)
    BY <1>1, <1>2, <2>1, RingFound
  <2>3. PICK head \in Pages, last \in Pages :
          /\ IsWritten(flash, head, last)
          /\ initPage > FirstPage => Scanned(head, last)
    BY <1>1, <1>2, <2>1, RingFound
  <2>4. Scanned(head, last)'
    BY <1>1, <2>2, <2>3, ScannedNext
  <2>5. FullScanned' = FullScanned
    BY <1>1, FullScannedNext, Booting
  <2> QED
    BY <1>1, <2>2, <2>3, <2>4, <2>5 DEF BootInv
<1>3. ~AllErased(flash)
  BY <1>1, NothingFound
<1> QED
  BY <1>1, <1>2, <1>3, InitRing

\* Only the newest page of a ring is found open; if it is full it is closed,
\* and its successor is free.
LEMMA FullPageFound ==
  ASSUME IInv, CloseRecoveredPage, ~eraseFailed, soundBoot,
         NEW head \in Pages, NEW last \in Pages,
         IsWritten(flash, head, last),
         initPage > FirstPage => Scanned(head, last)
  PROVE  /\ initPage = last /\ ~IsUsed(flash[NextPageNr(last)])
         /\ NewestWith(HeaderTag) = BeginTag(flash, last)
         /\ oldestPageInfo' =
              BeginTag(flash, IF head < initPage + 1 THEN head ELSE FirstPage)
         /\ nextWritePageInfo' = NextTag(BeginTag(flash, last))
         /\ nrOfFullPages' = Increment(nrOfFullPages)
         /\ flash' = [flash EXCEPT ![last].complete =
                                     SuccessorTag(BeginTag(flash, last))]
         /\ UNCHANGED <<phase, listener, reinit, erasing>>
<1> DEFINE newest == BeginTag(flash, last)
           tag == SuccessorTag(newest)
           next == NextPageNr(last)
           closed == [flash EXCEPT ![last].complete = tag]
<1>1. /\ phase = "init" /\ initPage \in Pages
      /\ IsUsed(flash[initPage]) /\ ~IsComplete(flash[initPage])
      /\ Len(flash[initPage].items) >= ItemsPerPage
  BY DEF CloseRecoveredPage, InitStep, IsOpenPage
<1>2. ~HasNoData(flash[initPage])
  BY <1>1 DEF HasNoData
<1>3. /\ IsUsed(flash[FirstPage]) /\ flash \in [Pages -> Page]
      /\ listener = "Idle" /\ erasing.left = 0
  BY <1>1, <1>2, RingFound
<1>4. initPage = last
  BY <1>1, <1>3, Layout
<1>5. ~IsUsed(flash[next])
  <2>1. flash[last].complete # tag
    <3>1. newest \in PageTag
      BY <1>3, LastTag
    <3>2. tag \in CompleteTag
      BY <3>1, SuccessorTagType
    <3>3. tag # NoCompleteTag
      BY <3>2, Numbers DEF NoCompleteTag, CompleteTag, Pages
    <3> QED
      BY <1>1, <1>4, <3>3 DEF IsComplete
  <2>2. Len(flash[last].items) \in Nat
    <3>1. flash[last].items \in Seq(Item)
      BY <1>3 DEF Page
    <3> QED
      BY <3>1
  <2>3. ~(Len(flash[last].items) < ItemsPerPage)
    BY <1>1, <1>4, <2>2, Numbers
  <2> QED
    BY <2>1, <2>3 DEF IsWritten
<1>6. /\ next \in Pages /\ next # last /\ flash[next] = ErasedPage
  BY <1>3, <1>5, DistanceNext, Layout
<1>7. /\ newest.pageId = last /\ newest \in PageTag
      /\ tag.nextPage = next
      /\ NextTag(newest) = [pageId |-> tag.nextPage, blockId |-> tag.nextPageId]
  BY <1>3, LastTag DEF NextTag, SuccessorTag
<1>8. /\ NewestWith(HeaderTag) = newest
      /\ OldestWith(HeaderTag) =
           BeginTag(flash, IF head < initPage + 1 THEN head ELSE FirstPage)
  <2>1. initPage <= last
    BY <1>4, Numbers DEF Pages
  <2> QED
    BY <1>1, <1>3, <1>4, <2>1, ScanPage
<1>9. NewestWith(HeaderTag).pageId \in Pages /\ ~IsComplete(flash[last])
  BY <1>1, <1>4, <1>7, <1>8
<1>10. ClosePage(flash, newest, OldestWith(HeaderTag), "init")
  <2> HIDE DEF newest
  <2> QED
    BY <1>3, <1>7, <1>8, <1>9 DEF CloseRecoveredPage
<1>11. /\ flash' = closed
       /\ AdjustNextWritePage(closed, tag, OldestWith(HeaderTag),
                              Increment(nrOfFullPages), "init")
  <2> HIDE DEF newest
  <2> QED
    BY <1>7, <1>10 DEF ClosePage
<1>12. closed[next] = ErasedPage
  BY <1>3, <1>6
<1>13. HasNoData(closed[tag.nextPage])
  <2> HIDE DEF closed, tag
  <2> QED
    BY <1>7, <1>12 DEF HasNoData, IsUsed, IsComplete, ErasedPage
<1> HIDE DEF closed, tag, newest
<1>14. /\ nextWritePageInfo' = NextTag(newest)
       /\ nrOfFullPages' = Increment(nrOfFullPages)
       /\ oldestPageInfo' = OldestWith(HeaderTag)
       /\ phase' = "init"
       /\ UNCHANGED <<listener, reinit, erasing>>
  BY <1>7, <1>11, <1>13 DEF AdjustNextWritePage
<1> QED
  BY <1>1, <1>4, <1>5, <1>8, <1>11, <1>14 DEF closed, tag, newest

LEMMA CloseRecoveredPageRing ==
  ASSUME IInv, CloseRecoveredPage
  PROVE  RingInv'
<1>1. /\ phase = "init" /\ initPage \in Pages /\ initPage' = initPage + 1
      /\ IsUsed(flash[initPage]) /\ ~IsComplete(flash[initPage])
      /\ UNCHANGED <<eraseReminder, messages, soundBoot, eraseFailed>>
  BY DEF CloseRecoveredPage, InitStep, IsOpenPage
<1>2. /\ phase' \in {"init", "run", "halted"}
      /\ UNCHANGED <<listener, reinit>> \/ ~reinit'
  <2>1. CASE ClosePage(flash, NewestWith(HeaderTag), OldestWith(HeaderTag), "init")
    <3>1. PICK f, tag :
            AdjustNextWritePage(f, tag, OldestWith(HeaderTag),
                                Increment(nrOfFullPages), "init")
      BY <2>1 DEF ClosePage
    <3> QED
      BY <3>1, AdjustFrame
  <2>2. CASE UNCHANGED <<listener, reinit>> /\ phase' \in {phase, "halted"}
    BY <1>1, <2>2
  <2> QED
    BY <2>1, <2>2 DEF CloseRecoveredPage
<1>3. ASSUME ~eraseFailed, soundBoot
      PROVE  BootInv' /\ phase' = "init"
  <2>1. ~HasNoData(flash[initPage])
    BY <1>1 DEF HasNoData
  <2>2. /\ IsUsed(flash[FirstPage]) /\ flash \in [Pages -> Page]
        /\ listener = "Idle" /\ erasing.left = 0
        /\ nrOfFullPages = Cardinality(FullScanned)
    BY <1>1, <1>3, <2>1, RingFound
  <2>3. PICK head \in Pages, last \in Pages :
          /\ IsWritten(flash, head, last)
          /\ initPage > FirstPage => Scanned(head, last)
    BY <1>1, <1>3, <2>1, RingFound
  <2> DEFINE newest == BeginTag(flash, last)
             tag == SuccessorTag(newest)
             page == [flash[last] EXCEPT !.complete = tag]
  <2>4. /\ initPage = last /\ ~IsUsed(flash[NextPageNr(last)])
        /\ oldestPageInfo' =
             BeginTag(flash, IF head < initPage + 1 THEN head ELSE FirstPage)
        /\ nextWritePageInfo' = NextTag(newest)
        /\ nrOfFullPages' = Increment(nrOfFullPages)
        /\ flash' = [flash EXCEPT ![last] = page]
        /\ UNCHANGED <<phase, listener, reinit, erasing>>
    BY <1>3, <2>3, FullPageFound
  <2>5. /\ newest \in PageTag /\ newest.pageId = last
        /\ newest.blockId = flash[last].begin /\ IsUsed(flash[last])
        /\ IsRing(flash, head, newest) /\ tag \in CompleteTag
    BY <2>2, <2>3, LastTag, SuccessorTagType
  <2>6. /\ page \in Page /\ page.begin = flash[last].begin
        /\ page.complete = tag
    <3> HIDE DEF tag
    <3> QED
      BY <2>2, <2>5 DEF Page
  <2> HIDE DEF page
  <2>7. /\ flash' \in [Pages -> Page] /\ flash'[last] = page
        /\ \A p \in Pages : p # last => flash'[p] = flash[p]
        /\ \A p \in Pages : flash'[p].begin = flash[p].begin
    BY <2>2, <2>4, <2>6
  <2>8. \A p \in Pages : BeginTag(flash', p) = BeginTag(flash, p)
    BY <2>7 DEF BeginTag, IsUsed
  <2>9. IsRing(flash', head, newest)
    BY <2>2, <2>4, <2>5, <2>6, RingWritten
  <2>10. IsWritten(flash', head, last)
    BY <2>5, <2>6, <2>7, <2>8, <2>9 DEF IsWritten, IsUsed
  <2>11. IsComplete(flash'[last])
    BY <2>5, <2>6, <2>7, Numbers
       DEF IsComplete, NoCompleteTag, CompleteTag, Pages
  <2>12. ~IsUsed(flash'[NextPageNr(last)])
    BY <2>4, <2>7, NextPageNrType DEF IsUsed
  <2>13. Scanned(head, last)'
    <3>1. ~(initPage' <= last)
      BY <1>1, <2>4, Numbers DEF Pages
    <3>2. oldestPageInfo' =
            BeginTag(flash', IF head < initPage' THEN head ELSE FirstPage)
      <4>1. FirstPage \in Pages
        BY Numbers DEF Pages
      <4> QED
        BY <1>1, <2>4, <2>8, <4>1
    <3>3. nextWritePageInfo' = NextTag(BeginTag(flash', last))
      BY <2>4, <2>8
    <3> QED
      BY <2>11, <2>12, <3>1, <3>2, <3>3 DEF Scanned
  <2>14. Closed(flash') = Closed(flash) \cup {initPage}
    BY <2>4, <2>7, <2>11 DEF Closed
  <2>15. nrOfFullPages' = Cardinality(FullScanned')
    BY <1>1, <2>2, <2>4, <2>14, FullScannedNext, Booting
  <2>16. IsUsed(flash'[FirstPage])
    <3>1. FirstPage \in Pages
      BY Numbers DEF Pages
    <3> QED
      BY <2>2, <2>7, <3>1 DEF IsUsed
  <2> QED
    BY <1>1, <2>2, <2>4, <2>10, <2>13, <2>15, <2>16 DEF BootInv
<1>4. ~AllErased(flash)
  BY <1>1, NothingFound
<1> QED
  BY <1>1, <1>2, <1>3, <1>4, InitRing

\* The store that is initialized is as it was found: the newest page is open,
\* or its successor is free.
LEMMA FinishOnRing ==
  ASSUME TypeOK, flash \in [Pages -> Page], UNCHANGED flash,
         listener' = "Idle",
         NEW head \in Pages, NEW tag \in PageTag,
         IsRing(flash, head, tag),
         nextWritePageInfo' = tag,
         oldestPageInfo' \in PageTag, oldestPageInfo'.pageId = head,
         oldestPageInfo'.blockId = IF head = tag.pageId THEN tag.blockId
                                                        ELSE flash[head].begin,
         WritePageInv(flash)',
         IsOpenPage(flash[tag.pageId]) =>
           currentPageNrOfItems' = Len(flash[tag.pageId].items),
         nrOfFullPages' = Cardinality(Closed(flash))
  PROVE  RunInv'
<1>1. Kept' = flash /\ WritePage' = tag.pageId
  BY DEF Kept, GivenUp, WritePage
<1> QED
  BY <1>1 DEF RunInv, ChainInv, CountInv, WritePageInv, IsAnnounced

LEMMA FinishInitRing ==
  ASSUME IInv, FinishInit
  PROVE  RingInv'
<1> DEFINE advances == WritePage \in Pages /\ IsComplete(flash[WritePage])
<1>1. /\ phase = "init" /\ initPage = LastPage + 1
      /\ UNCHANGED <<flash, currentPageNrOfItems, eraseReminder, messages,
                     initPage, soundBoot, eraseFailed>>
      /\ advances =>
           AdjustNextWritePage(flash, flash[WritePage].complete,
                               oldestPageInfo, nrOfFullPages, "run")
      /\ ~advances =>
           /\ phase' = "run"
           /\ UNCHANGED <<nrOfFullPages, nextWritePageInfo, oldestPageInfo,
                          listener, reinit, erasing>>
  BY DEF FinishInit
<1>2. /\ phase' \in {"init", "run", "halted"}
      /\ UNCHANGED <<listener, reinit>> \/ ~reinit'
  <2>1. CASE advances
    BY <1>1, <2>1, AdjustFrame
  <2>2. CASE ~advances
    BY <1>1, <2>2
  <2> QED
    BY <2>1, <2>2
<1>3. AllErased(flash) => ~advances
  BY NothingFound
<1>4. ASSUME ~eraseFailed, soundBoot
      PROVE  RunInv' /\ phase' = "run"
  <2>1. BootInv /\ TypeOK /\ flash \in [Pages -> Page]
    BY <1>1, <1>4, Booting
  <2>2. /\ listener = "Idle" /\ erasing.left = 0
        /\ nrOfFullPages = Cardinality(Closed(flash))
    <3>1. FullScanned = Closed(flash)
      BY <1>1, Numbers DEF FullScanned, Closed, Pages
    <3> QED
      BY <2>1, <3>1 DEF BootInv
  <2>3. CASE AllErased(flash) /\ nextWritePageInfo = FirstTag
                              /\ oldestPageInfo = FirstTag
    <3>1. /\ phase' = "run" /\ listener' = "Idle"
          /\ nextWritePageInfo' = FirstTag /\ oldestPageInfo' = FirstTag
          /\ nrOfFullPages' = Cardinality(Closed(flash))
      BY <1>1, <1>3, <2>2, <2>3
    <3>2. /\ FirstPage \in Pages /\ FirstTag.pageId = FirstPage
          /\ Distance(FirstPage, FirstPage) = 0
          /\ \A p \in Pages : Distance(FirstPage, p) >= 0
      BY DistanceType, Numbers DEF Pages, FirstTag
    <3>3. /\ \A p \in Pages :
               /\ flash[p] = ErasedPage
               /\ ~(Distance(FirstPage, p) < 0)
          /\ \A p, q \in Pages : ~(/\ Distance(FirstPage, p) < Distance(FirstPage, q)
                                   /\ Distance(FirstPage, q) <= 0)
      BY <2>3, <3>2, DistanceType DEF AllErased
    <3>4. flash[FirstPage].begin = ErasedByte
      BY <3>2, <3>3 DEF ErasedPage
    <3>5. IsRing(flash, FirstPage, FirstTag)
      BY <2>1, <3>2, <3>3, <3>4, FirstTagType, RingIntro
    <3>6. WritePageInv(flash)'
      <4>1. WritePage' = FirstPage
        BY <3>1, <3>2 DEF WritePage
      <4> QED
        BY <1>1, <2>3, <3>2, <3>3, <4>1 DEF WritePageInv, AllErased
    <3>7. ~IsOpenPage(flash[FirstTag.pageId])
      BY <3>2, <3>4 DEF IsOpenPage, IsUsed
    <3> QED
      BY <1>1, <2>1, <3>1, <3>2, <3>5, <3>6, <3>7, FirstTagType, FinishOnRing
  <2>4. ASSUME IsUsed(flash[FirstPage]), NEW head \in Pages, NEW last \in Pages,
               IsWritten(flash, head, last), Scanned(head, last)
        PROVE  RunInv' /\ phase' = "run"
    <3> DEFINE newest == BeginTag(flash, last)
    <3>1. /\ newest \in PageTag /\ newest.pageId = last
          /\ newest.blockId = flash[last].begin /\ newest.blockId \in BlockIds
          /\ IsRing(flash, head, newest) /\ IsUsed(flash[last])
          /\ IsComplete(flash[last]) => flash[last].complete = SuccessorTag(newest)
      BY <2>1, <2>4, LastTag DEF PageTag
    <3>2. IsUsed(flash[head]) /\ flash[head].begin \in BlockIds
      BY <2>1, <2>4, Layout
    <3>3. /\ oldestPageInfo = [pageId |-> head, blockId |-> flash[head].begin]
          /\ oldestPageInfo \in PageTag
      <4>1. head < initPage
        BY <1>1, Numbers DEF Pages
      <4>2. oldestPageInfo = BeginTag(flash, head)
        BY <2>4, <4>1 DEF Scanned
      <4> QED
        BY <3>2, <4>2 DEF BeginTag, PageTag
    <3>4. ~(initPage <= last) /\ initPage > last
      BY <1>1, Numbers DEF Pages
    <3> HIDE DEF newest
    <3>5. CASE nextWritePageInfo = newest /\ IsComplete(flash[last])
      <4>1. /\ WritePage = last /\ advances
            /\ flash[WritePage].complete = SuccessorTag(newest)
        BY <3>1, <3>5 DEF WritePage
      <4>2. AdjustNextWritePage(flash, SuccessorTag(newest), oldestPageInfo,
                                nrOfFullPages, "run")
        BY <1>1, <4>1
      <4>3. /\ flash[newest.pageId].begin = newest.blockId
            /\ flash[newest.pageId].complete = SuccessorTag(newest)
            /\ IsRing(flash, oldestPageInfo.pageId, newest)
            /\ oldestPageInfo.blockId = flash[oldestPageInfo.pageId].begin
        BY <3>1, <3>3, <3>5
      <4> QED
        BY <1>1, <2>1, <2>2, <3>1, <3>3, <4>2, <4>3, AdjustRing
    <3>6. CASE nextWritePageInfo = newest /\ ~IsComplete(flash[last])
      <4>1. /\ WritePage = last /\ ~advances
        BY <3>1, <3>6 DEF WritePage
      <4>2. /\ phase' = "run" /\ listener' = "Idle" /\ nextWritePageInfo' = newest
            /\ oldestPageInfo' = oldestPageInfo
            /\ nrOfFullPages' = nrOfFullPages
            /\ currentPageNrOfItems' = currentPageNrOfItems
        BY <1>1, <2>2, <3>6, <4>1
      <4>3. /\ WritePageInv(flash)'
            /\ currentPageNrOfItems' = Len(flash[last].items)
        <5>1. /\ currentPageNrOfItems = Len(flash[last].items)
              /\ currentPageNrOfItems < ItemsPerPage
          BY <2>4, <3>4, <3>6 DEF Scanned
        <5>2. WritePage' = last
          BY <3>1, <4>2 DEF WritePage
        <5> QED
          BY <1>1, <3>1, <3>6, <4>2, <5>1, <5>2 DEF WritePageInv, IsOpenPage
      <4> QED
        BY <1>1, <2>1, <2>2, <3>1, <3>3, <4>2, <4>3, FinishOnRing
    <3>7. CASE /\ nextWritePageInfo = NextTag(newest)
               /\ IsComplete(flash[last])
               /\ ~IsUsed(flash[NextPageNr(last)])
      <4> DEFINE next == NextPageNr(last)
                 tag == NextTag(newest)
      <4>1. /\ tag \in PageTag /\ tag.pageId = next
            /\ SuccessorTag(newest) = [nextPage |-> tag.pageId,
                                       nextPageId |-> tag.blockId]
        BY <3>1, NextTagType DEF NextTag, SuccessorTag
      <4>2. next # head
        BY <3>2, <3>7
      <4>3. flash[last].complete.nextPage = next
        BY <3>1, <3>7 DEF SuccessorTag
      <4>4. IsRing(flash, head, tag) /\ flash[next] = ErasedPage
        <5> HIDE DEF tag
        <5>1. /\ flash[newest.pageId].begin = newest.blockId
              /\ flash[newest.pageId].complete.nextPage = NextPageNr(newest.pageId)
              /\ NextPageNr(newest.pageId) # head
          BY <3>1, <4>2, <4>3
        <5>2. IsRing(flash, head, NextTag(newest))
              /\ flash[NextPageNr(newest.pageId)] = ErasedPage
          BY <2>1, <3>1, <5>1, RingExtended
        <5> QED
          BY <3>1, <5>2 DEF tag
      <4>5. WritePage = next /\ ~advances
        <5>1. WritePage = next
          BY <3>7, <4>1 DEF WritePage
        <5> QED
          BY <4>4, <5>1 DEF IsComplete, ErasedPage
      <4> HIDE DEF next
      <4>6. /\ phase' = "run" /\ listener' = "Idle" /\ nextWritePageInfo' = tag
            /\ oldestPageInfo' = oldestPageInfo
            /\ nrOfFullPages' = nrOfFullPages
        BY <1>1, <2>2, <3>7, <4>5
      <4> HIDE DEF tag
      <4>7. WritePageInv(flash)'
        <5>1. WritePage' = next /\ nextWritePageInfo'.blockId = tag.blockId
          BY <4>1, <4>6 DEF WritePage
        <5>2. flash[last].complete = [nextPage |-> next,
                                      nextPageId |-> tag.blockId]
          BY <3>1, <3>7, <4>1
        <5> QED
          BY <1>1, <4>4, <5>1, <5>2 DEF WritePageInv, IsAnnounced
      <4>8. ~IsOpenPage(flash[next])
        BY <4>4 DEF IsOpenPage, IsUsed, ErasedPage
      <4> QED
        BY <1>1, <2>1, <2>2, <3>3, <4>1, <4>2, <4>4, <4>6, <4>7, <4>8, FinishOnRing
    <3> QED
      BY <2>4, <3>4, <3>5, <3>6, <3>7 DEF Scanned, newest
  <2>5. CASE /\ IsUsed(flash[FirstPage])
             /\ \E head, last \in Pages :
                  /\ IsWritten(flash, head, last)
                  /\ initPage > FirstPage => Scanned(head, last)
    <3>1. initPage > FirstPage
      BY <1>1, Numbers
    <3> QED
      BY <2>4, <2>5, <3>1
  <2> QED
    BY <2>1, <2>3, <2>5 DEF BootInv
<1> QED
  BY <1>1, <1>2, <1>3, <1>4, InitRing

-----------------------------------------------------------------------------
(* The invariant is inductive.                                             *)

LEMMA RingInit == Init => RingInv
<1> SUFFICES ASSUME Init
             PROVE  RingInv
  OBVIOUS
<1>1. /\ AllErased(flash) /\ messages = <<>> /\ listener = "Idle"
      /\ ~reinit /\ ~eraseReminder /\ erasing.left = 0 /\ phase = "init"
      /\ nrOfFullPages = 0 /\ nextWritePageInfo = FirstTag
      /\ oldestPageInfo = FirstTag
  BY DEF Init, AllErased
<1>2. DeleteInv /\ EraseInv
  BY <1>1 DEF DeleteInv, Deleting, ErasesInTime, EraseInv
<1>3. BootInv
  BY <1>1, NothingFound, FS_EmptySet DEF BootInv
<1> QED
  BY <1>1, <1>2, <1>3 DEF RingInv

LEMMA RingNext == IInv /\ [Next]_vars => IInv'
<1> SUFFICES ASSUME IInv, [Next]_vars
             PROVE  RingInv'
  BY InterlockNext DEF IInv
<1>1. CASE \E item \in Item : RequestAddItem(item)
  BY <1>1, RequestAddItemRing
<1>2. CASE DeleteAllItems
  BY <1>2, DeleteAllItemsRing
<1>3. CASE \E item \in Item : AddItem(item)
  BY <1>3, AddFirstItemRing, AddNextItemRing, AddLastItemRing, LoseItemRing
     DEF AddItem
<1>4. CASE HandleErase
  BY <1>4, StartEraseRing, RemindEraseRing DEF HandleErase
<1>5. CASE HandleEraseDone
  BY <1>5, EraseDoneRing, EraseRemindedRing, EraseDoneReinitRing
     DEF HandleEraseDone
<1>6. CASE InitItemStore
  BY <1>6, SkipErasedPageRing, CountFullPageRing, RecoverOpenPageRing,
     CloseRecoveredPageRing, FinishInitRing DEF InitItemStore
<1>7. CASE FlashEndOfOperation
  BY <1>7, FlashEndOfOperationRing
<1>8. CASE FlashOperationError
  BY <1>8, FlashOperationErrorRing
<1>9. CASE PowerLoss
  BY <1>9, RebootRing
     DEF PowerLoss, Reset, ResetBehindBeginTag, ResetBeforeCompleteTag
<1>10. CASE UNCHANGED vars
  BY <1>10
     DEF vars, ramVars, eraseVars, bootVars, IInv, RingInv, BootInv, FullScanned,
         Scanned, NewestWith, OldestWith, DeleteInv, Deleting, EraseInv, RunInv,
         ChainInv, CountInv,
         Kept, GivenUp, WritePage, WritePageInv, IsAnnounced
<1> QED
  BY <1>1, <1>2, <1>3, <1>4, <1>5, <1>6, <1>7, <1>8, <1>9, <1>10
     DEF Next, HandleMessage

-----------------------------------------------------------------------------
(* The properties.                                                         *)

\* The running store that nobody asked to delete.
LEMMA SoundRing ==
  ASSUME IInv, Sound
  PROVE  /\ RunInv /\ Kept \in [Pages -> Page]
         /\ nextWritePageInfo \in PageTag /\ oldestPageInfo \in PageTag
         /\ WritePage \in Pages /\ oldestPageInfo.pageId \in Pages
         /\ ~IsComplete(Kept[WritePage])
         /\ IsUsed(Kept[WritePage]) =>
              Kept[WritePage].begin = nextWritePageInfo.blockId
<1>1. RunInv /\ flash \in [Pages -> Page]
  BY Running DEF Sound, TypeOK
<1>2. Kept \in [Pages -> Page]
  BY <1>1, KeptIs
<1>3. /\ nextWritePageInfo \in PageTag /\ oldestPageInfo \in PageTag
      /\ WritePage \in Pages /\ oldestPageInfo.pageId \in Pages
  BY <1>1 DEF RunInv, ChainInv, CountInv, PageTag, WritePage
<1>4. ~IsComplete(Kept[WritePage])
  BY <1>1 DEF RunInv, ChainInv, CountInv, WritePageInv, IsOpenPage, IsComplete, ErasedPage
<1>5. Kept[WritePage].begin \in {nextWritePageInfo.blockId, ErasedByte}
  BY <1>1 DEF RunInv, ChainInv, CountInv, IsRing, WritePage
<1> QED
  BY <1>1, <1>2, <1>3, <1>4, <1>5 DEF IsUsed

LEMMA RingMetadata == IInv => MetadataMatchesFlash
<1> SUFFICES ASSUME IInv, Sound
             PROVE  MetadataMatchesFlash
  BY DEF MetadataMatchesFlash
<1> DEFINE head == oldestPageInfo.pageId
<1>1. /\ RunInv /\ Kept \in [Pages -> Page]
      /\ nextWritePageInfo \in PageTag /\ oldestPageInfo \in PageTag
      /\ WritePage \in Pages /\ head \in Pages
      /\ ~IsComplete(Kept[WritePage])
      /\ IsUsed(Kept[WritePage]) =>
           Kept[WritePage].begin = nextWritePageInfo.blockId
  BY SoundRing
<1>2. /\ IsRing(Kept, head, nextWritePageInfo)
      /\ oldestPageInfo.blockId = IF head = WritePage
                                    THEN nextWritePageInfo.blockId
                                    ELSE Kept[head].begin
      /\ WritePageInv(Kept)
      /\ nrOfFullPages = Cardinality(Closed(Kept))
  BY <1>1 DEF RunInv, ChainInv, CountInv
<1>3. ASSUME InUse(Kept) = {}
      PROVE  oldestPageInfo = nextWritePageInfo
  <2>1. ~IsUsed(Kept[head])
    BY <1>1, <1>3 DEF InUse
  <2>2. ~(Distance(head, head) < Distance(head, WritePage))
    BY <1>1, <1>2, <2>1, RingFacts DEF WritePage
  <2>3. Distance(head, head) = Distance(head, WritePage)
    BY <1>1, <2>2, DistanceType, Numbers
  <2>4. head = WritePage
    BY <1>1, <2>3, DistanceSame
  <2> QED
    BY <1>1, <1>2, <2>4 DEF PageTag, WritePage
<1>4. ASSUME InUse(Kept) # {}
      PROVE  /\ Heads(Kept) = {head}
             /\ oldestPageInfo = BeginTag(Kept, head)
  <2>1. Heads(Kept) = {head} /\ IsUsed(Kept[head])
    BY <1>1, <1>2, <1>4, RingHeads DEF WritePage
  <2>2. BeginTag(Kept, head) = [pageId |-> head, blockId |-> Kept[head].begin]
    BY <1>1, <2>1 DEF BeginTag
  <2>3. oldestPageInfo.blockId = Kept[head].begin
    BY <1>1, <1>2, <2>1
  <2> QED
    BY <1>1, <2>1, <2>2, <2>3 DEF PageTag
<1>5. ASSUME InUse(Kept) # {}
      PROVE  \/ /\ IsOpenPage(Kept[WritePage])
                /\ nextWritePageInfo.blockId = Kept[WritePage].begin
                /\ currentPageNrOfItems = Len(Kept[WritePage].items)
             \/ \E q \in Closed(Kept) :
                  /\ Kept[q].complete.nextPage = WritePage
                  /\ Kept[q].complete.nextPageId = nextWritePageInfo.blockId
                  /\ Kept[WritePage] = ErasedPage
  <2>1. CASE Kept[WritePage] = ErasedPage
    <3>1. ~AllErased(Kept)
      BY <1>5 DEF AllErased, InUse, IsUsed, ErasedPage
    <3>2. PICK q \in Pages :
            Kept[q].complete = [nextPage |-> WritePage,
                                nextPageId |-> nextWritePageInfo.blockId]
      BY <1>2, <2>1, <3>1
         DEF WritePageInv, IsAnnounced, IsOpenPage, IsUsed, ErasedPage
    <3>3. /\ Kept[q].complete.nextPage = WritePage
          /\ Kept[q].complete.nextPageId = nextWritePageInfo.blockId
      BY <3>2
    <3>4. q \in Closed(Kept)
      BY <1>1, <3>3, Numbers DEF Closed, IsComplete, NoCompleteTag, Pages
    <3> QED
      BY <2>1, <3>3, <3>4
  <2>2. CASE Kept[WritePage] # ErasedPage
    <3>1. /\ IsOpenPage(Kept[WritePage])
          /\ currentPageNrOfItems = Len(Kept[WritePage].items)
      BY <1>1, <1>2, <2>2 DEF WritePageInv, RunInv, CountInv
    <3> QED
      BY <1>1, <3>1 DEF IsOpenPage
  <2> QED
    BY <2>1, <2>2
<1> QED
  BY <1>2, <1>3, <1>4, <1>5 DEF MetadataMatchesFlash

LEMMA RingWritable == IInv => AlwaysWritable
<1> SUFFICES ASSUME IInv, Sound, listener = "Idle"
             PROVE  HasFreePage \/ HasFreeSlot
  BY DEF AlwaysWritable
<1>1. RunInv /\ WritePage \in Pages
  BY SoundRing
<1>2. Kept = flash
  BY KeptIs DEF IInv, InterlockInv, TypeOK
<1>3. WritePageInv(flash)
  BY <1>1, <1>2 DEF RunInv, ChainInv, CountInv
<1>4. CASE flash[WritePage] = ErasedPage
  BY <1>1, <1>4 DEF HasFreePage, HasNoData, IsUsed, IsComplete, ErasedPage
<1>5. CASE flash[WritePage] # ErasedPage
  BY <1>1, <1>2, <1>3, <1>5
     DEF RunInv, CountInv, WritePageInv, HasFreeSlot, CanWriteItem, IsOpenPage
<1> QED
  BY <1>4, <1>5

LEMMA InductiveRing == Spec => []IInv
<1>1. Init => IInv
  BY InterlockInit, RingInit DEF IInv
<1>2. IInv /\ [Next]_vars => IInv'
  BY RingNext
<1> QED
  BY <1>1, <1>2, PTL DEF Spec

(***************************************************************************)
(* AddItem, ClosePageIfFull, AdjustNextWritePage and InitItemStore keep    *)
(* the number of full pages, the oldest page, the page to write and the    *)
(* number of its items in agreement with the pages in flash, whenever the  *)
(* power fails, and for every number of pages half as large as the number  *)
(* of block ids or smaller.                                                *)
(***************************************************************************)
THEOREM BookkeepingIsRight == Spec => []MetadataMatchesFlash
BY InductiveRing, RingMetadata, PTL

(***************************************************************************)
(* An item that AddItem gets in the idle state of the listener is written. *)
(***************************************************************************)
THEOREM NextItemHasAPlace == Spec => []AlwaysWritable
BY InductiveRing, RingWritable, PTL

(***************************************************************************)
(* The assertions in AdjustNextWritePage, Flash_Erase and Flash_Write hold *)
(* after a boot from recoverable pages as long as no erase fails.          *)
(***************************************************************************)
THEOREM NoAssertionFails == Spec => []AssertionsHold
<1>1. IInv => AssertionsHold
  BY DEF IInv, RingInv, AssertionsHold
<1> QED
  BY <1>1, InductiveRing, PTL

=============================================================================
