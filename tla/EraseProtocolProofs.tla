------------------------ MODULE EraseProtocolProofs ------------------------
(***************************************************************************)
(* Proofs about EraseProtocol, for any set of intervals and any number of  *)
(* messages: the types; that the two stores, which share one listener,     *)
(* never ask the flash for a second erase; that intervals and settings     *)
(* reach the flash; and that sample pairs are kept back from deletions.    *)
(***************************************************************************)
EXTENDS EraseProtocol, TLAPS

Done(q) == {i \in DOMAIN q : q[i].id = "ERASE_DONE"}

(***************************************************************************)
(* The pages that must be erased belong to the erase under way; a boot     *)
(* after a reset finds no other ones.                                      *)
(***************************************************************************)
PagesInErase ==
  /\ pageToErase \subseteq {eraseParameters.store}
  /\ pageToErase # {} => erase # "none"

IInv == TypeOK /\ SharedInterlock /\ PagesInErase

-----------------------------------------------------------------------------
(* Lemmas about the queue.                                                 *)

\* Taking the head and appending messages other than ERASE_DONE.
LEMMA DoneAfterDispatch ==
  ASSUME NEW q \in Seq(Message), q # <<>>,
         NEW more \in Seq(Message), Done(more) = {},
         \A i, j \in Done(q) : i = j
  PROVE  LET n == Tail(q) \o more
         IN  /\ n \in Seq(Message)
             /\ \A i, j \in Done(n) : i = j
             /\ Head(q).id = "ERASE_DONE" => Done(n) = {}
             /\ Head(q).id # "ERASE_DONE" => (Done(n) = {} <=> Done(q) = {})
<1> DEFINE n == Tail(q) \o more
<1>1. /\ Tail(q) \in Seq(Message)
      /\ Len(q) \in Nat \ {0}
      /\ Len(Tail(q)) = Len(q) - 1
      /\ \A i \in 1 .. Len(q) - 1 : Tail(q)[i] = q[i + 1]
      /\ Head(q) = q[1]
  OBVIOUS
<1>2. /\ n \in Seq(Message)
      /\ Len(n) = Len(q) - 1 + Len(more)
      /\ \A i \in 1 .. Len(n) :
           n[i] = IF i <= Len(q) - 1 THEN q[i + 1] ELSE more[i - (Len(q) - 1)]
  BY <1>1
<1>3. /\ DOMAIN q = 1 .. Len(q)
      /\ DOMAIN n = 1 .. Len(n)
      /\ DOMAIN more = 1 .. Len(more)
      /\ Len(more) \in Nat
  BY <1>2
<1>4. \A i \in 1 .. Len(more) : more[i].id # "ERASE_DONE"
  BY <1>3 DEF Done
<1>5. \A i \in Done(n) : i \in 1 .. Len(q) - 1 /\ i + 1 \in Done(q)
  <2>1. TAKE i \in Done(n)
  <2>2. i \in 1 .. Len(n) /\ n[i].id = "ERASE_DONE"
    BY <1>3 DEF Done
  <2>3. i <= Len(q) - 1
    <3>1. SUFFICES ASSUME ~(i <= Len(q) - 1) PROVE FALSE
      OBVIOUS
    <3>2. n[i] = more[i - (Len(q) - 1)] /\ i - (Len(q) - 1) \in 1 .. Len(more)
      BY <1>1, <1>2, <1>3, <2>2, <3>1
    <3> QED
      BY <1>4, <2>2, <3>2
  <2> HIDE DEF n
  <2>4. n[i] = q[i + 1] /\ i + 1 \in 1 .. Len(q)
    BY <1>1, <1>2, <2>2, <2>3
  <2> QED
    BY <1>1, <1>3, <2>2, <2>3, <2>4 DEF Done
<1>6. \A i \in Done(q) : i # 1 => i - 1 \in Done(n)
  <2> HIDE DEF n
  <2>1. TAKE i \in Done(q)
  <2>2. HAVE i # 1
  <2>3. i \in 1 .. Len(q) /\ q[i].id = "ERASE_DONE"
    BY <1>3 DEF Done
  <2>4. i - 1 \in 1 .. Len(n) /\ i - 1 <= Len(q) - 1 /\ (i - 1) + 1 = i
    BY <1>1, <1>2, <1>3, <2>2, <2>3
  <2>5. n[i - 1] = q[i]
    BY <1>2, <2>4
  <2> QED
    BY <1>3, <2>3, <2>4, <2>5 DEF Done
<1> HIDE DEF n
<1>7. \A i, j \in Done(n) : i = j
  BY <1>1, <1>5
<1>8. Head(q).id = "ERASE_DONE" => Done(n) = {}
  <2>1. SUFFICES ASSUME q[1].id = "ERASE_DONE", NEW i \in Done(n) PROVE FALSE
    BY <1>1
  <2>2. 1 \in Done(q)
    BY <1>1, <1>3, <2>1 DEF Done
  <2> QED
    BY <1>1, <1>5, <2>1, <2>2
<1>9. Head(q).id # "ERASE_DONE" => (Done(n) = {} <=> Done(q) = {})
  <2>1. SUFFICES ASSUME q[1].id # "ERASE_DONE"
                 PROVE  Done(n) = {} <=> Done(q) = {}
    BY <1>1
  <2>2. 1 \notin Done(q)
    BY <2>1 DEF Done
  <2> QED
    BY <1>5, <1>6, <2>2
<1> QED
  BY <1>2, <1>7, <1>8, <1>9 DEF n

\* Appending a message.
LEMMA DoneAfterAppend ==
  ASSUME NEW q \in Seq(Message), NEW m \in Message
  PROVE  /\ Append(q, m) \in Seq(Message)
         /\ m.id # "ERASE_DONE" => Done(Append(q, m)) = Done(q)
         /\ m.id = "ERASE_DONE" => Done(Append(q, m)) = Done(q) \cup {Len(q) + 1}
<1>1. /\ Append(q, m) \in Seq(Message)
      /\ DOMAIN Append(q, m) = 1 .. Len(q) + 1
      /\ DOMAIN q = 1 .. Len(q)
      /\ Len(q) \in Nat
      /\ Append(q, m)[Len(q) + 1] = m
      /\ \A i \in 1 .. Len(q) : Append(q, m)[i] = q[i]
  OBVIOUS
<1> QED
  BY <1>1 DEF Done

\* What the requests, the handlers and the flash publish.
LEMMA PublishedMessages ==
  /\ \A store \in Store : AddItemMessage(store) \in Message
  /\ \A i \in Settings : SaveMessage(i) \in Message
  /\ \A id \in {"ERASE", "ERASE_DONE", "BEGIN_ENUMERATE",
                "PERIPHERALS_INITIALIZED", "DEVICE_SETTINGS_READ"} :
       Signal(id) \in Message
  /\ \A store \in Store : AddItemMessage(store).id # "ERASE_DONE"
  /\ \A i \in Settings : SaveMessage(i).id # "ERASE_DONE"
  /\ \A id : Signal(id).id = id
BY DEF AddItemMessage, SaveMessage, Signal, Message

\* What the handlers take from a message.
LEMMA MessageFields ==
  ASSUME NEW m \in Message
  PROVE  /\ m.id = "ADD_ITEM" => m.store \in Store
         /\ m.id = "SET_LOGGING_INTERVAL" => m.interval \in Interval
         /\ m.id = "SAVE_LOGGING_INTERVAL" => m.interval \in Settings
BY DEF Message

\* What a handler publishes: nothing, one message, or two.
LEMMA ShortQueues ==
  /\ << >> \in Seq(Message) /\ Done(<< >>) = {}
  /\ \A m \in Message : /\ <<m>> \in Seq(Message)
                        /\ m.id # "ERASE_DONE" => Done(<<m>>) = {}
BY DEF Done

LEMMA JoinedQueues ==
  ASSUME NEW q \in Seq(Message), NEW r \in Seq(Message),
         Done(q) = {}, Done(r) = {}
  PROVE  q \o r \in Seq(Message) /\ Done(q \o r) = {}
<1>1. /\ q \o r \in Seq(Message)
      /\ DOMAIN (q \o r) = 1 .. Len(q) + Len(r)
      /\ DOMAIN q = 1 .. Len(q) /\ DOMAIN r = 1 .. Len(r)
      /\ Len(q) \in Nat /\ Len(r) \in Nat
      /\ \A i \in 1 .. Len(q) + Len(r) :
           (q \o r)[i] = IF i <= Len(q) THEN q[i] ELSE r[i - Len(q)]
  OBVIOUS
<1>2. ASSUME NEW i \in 1 .. Len(q) + Len(r) PROVE (q \o r)[i].id # "ERASE_DONE"
  <2>1. CASE i <= Len(q)
    BY <1>1, <2>1 DEF Done
  <2>2. CASE ~(i <= Len(q))
    <3>1. i - Len(q) \in 1 .. Len(r)
      BY <1>1, <2>2
    <3> QED
      BY <1>1, <2>2, <3>1 DEF Done
  <2> QED
    BY <2>1, <2>2
<1> QED
  BY <1>1, <1>2 DEF Done

-----------------------------------------------------------------------------
(* The interlock.                                                          *)

\* What the dispatch of a message means for the invariant.
LEMMA Dispatched ==
  ASSUME IInv, NEW id, NEW more \in Seq(Message), Done(more) = {},
         Dispatch(id, more)
  PROVE  /\ messages' \in Seq(Message)
         /\ \A i, j \in Done(messages') : i = j
         /\ id = "ERASE_DONE" => /\ Done(messages') = {}
                                /\ erase = "none"
                                /\ listener = "Erasing"
         /\ id # "ERASE_DONE" => (Done(messages') = {} <=> Done(messages) = {})
         /\ Head(messages) \in Message /\ Head(messages).id = id
<1>1. /\ messages \in Seq(Message) /\ messages # << >>
      /\ Head(messages).id = id
      /\ messages' = Tail(messages) \o more
      /\ \A i, j \in Done(messages) : i = j
  BY DEF IInv, TypeOK, SharedInterlock, DoneMessages, Done, Dispatch, IsNext
<1>2. Head(messages) = messages[1] /\ 1 \in DOMAIN messages
  BY <1>1
<1>3. id = "ERASE_DONE" => erase = "none" /\ listener = "Erasing"
  BY <1>1, <1>2 DEF IInv, SharedInterlock, DoneMessages
<1>4. Done(more) = {}
  OBVIOUS
<1> DEFINE n == Tail(messages) \o more
<1>5. /\ n \in Seq(Message)
      /\ \A i, j \in Done(n) : i = j
      /\ Head(messages).id = "ERASE_DONE" => Done(n) = {}
      /\ Head(messages).id # "ERASE_DONE" => (Done(n) = {} <=> Done(messages) = {})
  BY <1>1, <1>4, DoneAfterDispatch
<1>6. messages' = n
  BY <1>1
<1>7. Head(messages) \in Message
  BY <1>1, <1>2
<1> HIDE DEF n
<1> QED
  BY <1>1, <1>3, <1>5, <1>6, <1>7

\* A step that leaves listener and flash alone, and neither publishes nor takes
\* an ERASE_DONE.
LEMMA QuietDispatch ==
  ASSUME IInv, NEW id, NEW more \in Seq(Message), Done(more) = {},
         Dispatch(id, more), id # "ERASE_DONE",
         UNCHANGED <<listenerVars, pageToErase>>
  PROVE  /\ messages' \in Seq(Message)
         /\ Head(messages) \in Message /\ Head(messages).id = id
         /\ SharedInterlock' /\ PagesInErase'
<1>1. /\ messages' \in Seq(Message)
      /\ \A i, j \in Done(messages') : i = j
      /\ Done(messages') = {} <=> Done(messages) = {}
      /\ Head(messages) \in Message /\ Head(messages).id = id
  BY Dispatched
<1>2. DoneMessages = Done(messages) /\ DoneMessages' = Done(messages')
  BY DEF DoneMessages, Done
<1>3. SharedInterlock'
  BY <1>1, <1>2 DEF IInv, SharedInterlock, listenerVars
<1>4. PagesInErase'
  BY DEF IInv, PagesInErase, listenerVars
<1> QED
  BY <1>1, <1>3, <1>4

\* Requests of the environment.
LEMMA PublishInv ==
  ASSUME IInv, NEW m \in Message, m.id # "ERASE_DONE", Publish(m),
         bleReady' \in BOOLEAN
  PROVE  IInv'
<1>1. messages \in Seq(Message) /\ messages' = Append(messages, m)
  BY DEF IInv, TypeOK, Publish
<1>2. messages' \in Seq(Message) /\ Done(messages') = Done(messages)
  BY <1>1, DoneAfterAppend
<1>3. DoneMessages = Done(messages) /\ DoneMessages' = Done(messages')
  BY DEF DoneMessages, Done
<1>4. SharedInterlock' /\ PagesInErase'
  BY <1>2, <1>3
     DEF IInv, SharedInterlock, PagesInErase, Publish, listenerVars, flashVars
<1>5. TypeOK'
  BY <1>2 DEF IInv, TypeOK, Publish, listenerVars, flashVars, sampleVars,
              settingsVars
<1> QED
  BY <1>4, <1>5 DEF IInv

LEMMA RequestInv == IInv /\ Request => IInv'
<1> SUFFICES ASSUME IInv, Request
             PROVE  IInv'
  OBVIOUS
<1>1. ASSUME NEW powerOn \in BOOLEAN, BleSubsystemReady(powerOn)
      PROVE  IInv'
  <2>1. [id |-> "BLE_SUBSYSTEM_READY", powerOn |-> powerOn] \in Message
    BY DEF Message
  <2> QED
    BY <1>1, <2>1, PublishInv DEF BleSubsystemReady
<1>2. ASSUME NEW i \in Interval, RequestSetLoggingInterval(i)
      PROVE  IInv'
  <2>1. [id |-> "SET_LOGGING_INTERVAL", interval |-> i] \in Message
    BY DEF Message
  <2>2. bleReady' \in BOOLEAN
    BY <1>2 DEF RequestSetLoggingInterval, BleRequest, IInv, TypeOK
  <2> QED
    BY <1>2, <2>1, <2>2, PublishInv DEF RequestSetLoggingInterval, BleRequest
<1>3. ASSUME NEW pair \in BOOLEAN, TimeTick(pair)
      PROVE  IInv'
  <2>1. [id |-> "TIME_ELAPSED", pair |-> pair] \in Message
    BY DEF Message
  <2>2. bleReady' \in BOOLEAN
    BY <1>3 DEF TimeTick, IInv, TypeOK
  <2> QED
    BY <1>3, <2>1, <2>2, PublishInv DEF TimeTick
<1> QED
  BY <1>1, <1>2, <1>3 DEF Request

\* Flash_Erase is only called when no erase runs, and so does not assert.
LEMMA FlashEraseInv ==
  ASSUME IInv, erase = "none", NEW parameters \in [store : Store, reinit : BOOLEAN],
         FlashErase(parameters)
  PROVE  /\ eraseParameters' = parameters
         /\ erase' = "requested"
         /\ halted' = FALSE
BY DEF FlashErase

LEMMA WholeStoreType == WholeStore \in [store : Store, reinit : BOOLEAN]
BY DEF WholeStore, Store

\* The measurement item controller at the end of an erase.
LEMMA CountEraseDoneType ==
  ASSUME TypeOK, CountEraseDone
  PROVE  /\ loggingInterval' \in Settings
         /\ isAddItemPossible' \in BOOLEAN
         /\ nrOfPendingErase' \in Nat
         /\ isSampleReady' \in BOOLEAN
         /\ isLoggingIntervalChanged' \in BOOLEAN
<1>1. Remaining \in Nat
  BY DEF TypeOK, Remaining
<1>2. /\ isAddItemPossible' \in BOOLEAN
      /\ isLoggingIntervalChanged' \in BOOLEAN
      /\ isSampleReady' \in BOOLEAN
  BY Zenon DEF CountEraseDone
<1>3. loggingInterval' \in Settings /\ nrOfPendingErase' \in Nat
  BY <1>1 DEF TypeOK, CountEraseDone
<1> QED
  BY <1>2, <1>3

LEMMA CountEraseType ==
  ASSUME TypeOK, CountErase
  PROVE  /\ loggingInterval' \in Settings
         /\ isAddItemPossible' \in BOOLEAN
         /\ nrOfPendingErase' \in Nat
         /\ isSampleReady' \in BOOLEAN
         /\ isLoggingIntervalChanged' \in BOOLEAN
<1>1. nrOfPendingErase' \in Nat
  BY DEF TypeOK, CountErase
<1>2. /\ isAddItemPossible' = FALSE
      /\ isSampleReady' = isSampleReady
      /\ isLoggingIntervalChanged' = isLoggingIntervalChanged
      /\ loggingInterval' = loggingInterval
  BY DEF CountErase
<1> QED
  BY <1>1, <1>2 DEF TypeOK

LEMMA DeferredType ==
  ASSUME TypeOK
  PROVE  Deferred \in Seq(Message) /\ Done(Deferred) = {}
<1>1. loggingInterval \in Settings
  BY DEF TypeOK
<1>2. /\ SaveMessage(loggingInterval) \in Message
      /\ SaveMessage(loggingInterval).id # "ERASE_DONE"
      /\ AddItemMessage("samples") \in Message
      /\ AddItemMessage("samples").id # "ERASE_DONE"
  BY <1>1, PublishedMessages DEF Store
<1>3. \/ Deferred = << >>
      \/ Deferred = <<SaveMessage(loggingInterval)>>
      \/ Deferred = <<AddItemMessage("samples")>>
  BY DEF Deferred
<1> QED
  BY <1>2, <1>3, ShortQueues

-----------------------------------------------------------------------------
(* Steps of the item store and of the flash.                               *)

LEMMA ItemInv ==
  ASSUME IInv, NEW store \in Store,
         AddItem(store) \/ LoseItem(store) \/ FailToAddItem
  PROVE  IInv'
<1>1. Dispatch("ADD_ITEM", << >>) /\ UNCHANGED <<listenerVars, pageToErase>>
  BY DEF AddItem, LoseItem, FailToAddItem, flashVars
<1>2. /\ messages' \in Seq(Message)
      /\ SharedInterlock' /\ PagesInErase'
  BY <1>1, QuietDispatch, ShortQueues
<1>3. CASE AddItem(store)
  <2>1. /\ storedSettings' \in Settings \cup {NoItem}
        /\ isEmpty' \in [Store -> BOOLEAN]
    BY <1>3 DEF AddItem, Written, IInv, TypeOK
  <2>2. storedSamples' \in BOOLEAN /\ saveLost' \in BOOLEAN
    BY <1>3, Zenon DEF AddItem, Written
  <2> QED
    BY <1>2, <1>3, <2>1, <2>2
       DEF AddItem, IInv, TypeOK, listenerVars, sampleVars, settingsVars
<1>4. CASE LoseItem(store)
  <2>1. saveLost' \in BOOLEAN
    BY <1>4, Zenon DEF LoseItem
  <2> QED
    BY <1>2, <1>4, <2>1
       DEF LoseItem, IInv, TypeOK, flashVars, listenerVars, sampleVars, settingsVars
<1>5. CASE FailToAddItem
  BY <1>2, <1>5 DEF FailToAddItem, IInv, TypeOK, flashVars, listenerVars,
                    sampleVars, settingsVars
<1> QED
  BY <1>3, <1>4, <1>5

LEMMA PageWrapInv ==
  ASSUME IInv, NEW store \in Store, AddItemWithPageWrap(store)
  PROVE  IInv'
<1>1. /\ messages' \in Seq(Message)
      /\ Done(messages') = {} <=> Done(messages) = {}
      /\ Dispatch("ADD_ITEM", << >>)
  BY Dispatched, ShortQueues DEF AddItemWithPageWrap
<1>2. DoneMessages = Done(messages) /\ DoneMessages' = Done(messages')
  BY DEF DoneMessages, Done
<1>3. erase = "none" /\ Done(messages) = {} /\ pageToErase = {} /\ ~halted
  BY <1>2 DEF AddItemWithPageWrap, IInv, SharedInterlock, PagesInErase
<1>4. [store |-> store, reinit |-> FALSE] \in [store : Store, reinit : BOOLEAN]
  OBVIOUS
<1>5. /\ eraseParameters' = [store |-> store, reinit |-> FALSE]
      /\ erase' = "requested"
      /\ halted' = FALSE
  BY <1>3, <1>4, FlashEraseInv DEF AddItemWithPageWrap
<1>6. pageToErase' = {store} /\ listener' = "Erasing"
  BY <1>3 DEF AddItemWithPageWrap
<1>7. SharedInterlock' /\ PagesInErase'
  BY <1>1, <1>2, <1>3, <1>5, <1>6 DEF SharedInterlock, PagesInErase
<1>8. /\ storedSettings' \in Settings \cup {NoItem}
      /\ isEmpty' \in [Store -> BOOLEAN]
  BY DEF AddItemWithPageWrap, Written, IInv, TypeOK
<1>9. storedSamples' \in BOOLEAN /\ saveLost' \in BOOLEAN
  BY Zenon DEF AddItemWithPageWrap, Written
<1>10. TypeOK'
  BY <1>1, <1>4, <1>5, <1>6, <1>8, <1>9
     DEF AddItemWithPageWrap, IInv, TypeOK, sampleVars, settingsVars
<1> QED
  BY <1>7, <1>10 DEF IInv

LEMMA EnumerateInv ==
  ASSUME IInv, InitializeSettings \/ IgnoreBeginEnumerate
  PROVE  IInv'
<1>1. Dispatch("BEGIN_ENUMERATE", << >>) /\ UNCHANGED <<listenerVars, pageToErase>>
  BY DEF InitializeSettings, IgnoreBeginEnumerate, flashVars
<1>2. /\ messages' \in Seq(Message)
      /\ SharedInterlock' /\ PagesInErase'
  BY <1>1, QuietDispatch, ShortQueues
<1>3. actualSettings' \in Settings
  BY EraseProtocolAssumption
     DEF EraseProtocolAssumption, InitializeSettings, IgnoreBeginEnumerate, IInv,
         TypeOK, Settings, settingsVars
<1>4. settingsRead' \in BOOLEAN
  BY DEF InitializeSettings, IgnoreBeginEnumerate, IInv, TypeOK, settingsVars
<1>5. UNCHANGED <<flashVars, listenerVars, isEmpty, sampleVars, bleReady, saveLost>>
  BY DEF InitializeSettings, IgnoreBeginEnumerate
<1>6. TypeOK'
  BY <1>2, <1>3, <1>4, <1>5 DEF IInv, TypeOK, flashVars, listenerVars, sampleVars
<1> QED
  BY <1>2, <1>6 DEF IInv

LEMMA BeginEraseInv == IInv /\ BeginErase => IInv'
<1> SUFFICES ASSUME IInv, BeginErase
             PROVE  IInv'
  OBVIOUS
<1>1. /\ messages' \in Seq(Message)
      /\ Done(messages') = {} <=> Done(messages) = {}
  BY Dispatched, ShortQueues DEF BeginErase
<1>2. DoneMessages = Done(messages) /\ DoneMessages' = Done(messages')
  BY DEF DoneMessages, Done
<1>3. erase = "none" /\ Done(messages) = {} /\ pageToErase = {}
  BY <1>2 DEF BeginErase, IInv, SharedInterlock, PagesInErase
<1>4. eraseParameters' = WholeStore /\ erase' = "requested" /\ halted' = FALSE
  BY <1>3, WholeStoreType, FlashEraseInv DEF BeginErase
<1>5. SharedInterlock' /\ PagesInErase'
  BY <1>1, <1>2, <1>3, <1>4
     DEF BeginErase, SharedInterlock, PagesInErase, flashVars
<1>6. CountErase /\ TypeOK
  BY DEF BeginErase, IInv
<1>7. TypeOK'
  BY <1>1, <1>4, <1>6, CountEraseType, WholeStoreType
     DEF BeginErase, TypeOK, flashVars, settingsVars
<1> QED
  BY <1>5, <1>7 DEF IInv

LEMMA RemindEraseInv == IInv /\ RemindErase => IInv'
<1> SUFFICES ASSUME IInv, RemindErase
             PROVE  IInv'
  OBVIOUS
<1>1. Dispatch("ERASE", << >>) /\ << >> \in Seq(Message) /\ Done(<< >>) = {}
  BY ShortQueues DEF RemindErase
<1>2. "ERASE" # "ERASE_DONE"
  OBVIOUS
<1>3. messages' \in Seq(Message)
  BY <1>1, Dispatched
<1>4. Done(messages') = {} <=> Done(messages) = {}
  BY <1>1, <1>2, Dispatched
<1>5. \A i, j \in Done(messages') : i = j
  BY <1>1, Dispatched
<1>6. DoneMessages = Done(messages) /\ DoneMessages' = Done(messages')
  BY DEF DoneMessages, Done
<1>7. SharedInterlock' /\ PagesInErase'
  BY <1>4, <1>5, <1>6
     DEF RemindErase, IInv, SharedInterlock, PagesInErase, flashVars
<1>8. CountErase /\ TypeOK
  BY DEF RemindErase, IInv
<1>9. TypeOK'
  BY <1>3, <1>8, CountEraseType DEF RemindErase, TypeOK, flashVars, settingsVars
<1> QED
  BY <1>7, <1>9 DEF IInv

LEMMA EraseDoneInv ==
  ASSUME IInv, EraseDone \/ EraseReminded
  PROVE  IInv'
<1>1. TypeOK /\ CountEraseDone /\ Dispatch("ERASE_DONE", Deferred)
  BY DEF IInv, EraseDone, EraseReminded
<1>2. /\ messages' \in Seq(Message)
      /\ Done(messages') = {}
      /\ erase = "none" /\ listener = "Erasing"
  BY <1>1, Dispatched, DeferredType
<1>3. DoneMessages' = {} /\ pageToErase = {} /\ ~halted
  BY <1>2 DEF DoneMessages, Done, IInv, SharedInterlock, PagesInErase
<1>4. CASE EraseDone
  <2>1. SharedInterlock' /\ PagesInErase'
    BY <1>2, <1>3, <1>4 DEF EraseDone, SharedInterlock, PagesInErase, flashVars
  <2>2. isEmpty' \in [Store -> BOOLEAN]
    BY <1>4, Zenon DEF EraseDone, IInv, TypeOK
  <2>3. TypeOK'
    BY <1>1, <1>2, <1>4, <2>2, CountEraseDoneType
       DEF EraseDone, TypeOK, flashVars, settingsVars
  <2> QED
    BY <2>1, <2>3 DEF IInv
<1>5. CASE EraseReminded
  <2>1. eraseParameters' = WholeStore /\ erase' = "requested" /\ halted' = FALSE
    BY <1>2, <1>5, WholeStoreType, FlashEraseInv DEF EraseReminded
  <2>2. SharedInterlock' /\ PagesInErase'
    BY <1>2, <1>3, <1>5, <2>1
       DEF EraseReminded, SharedInterlock, PagesInErase, flashVars
  <2>3. afterPageWrap' \in BOOLEAN
    BY <1>5, Zenon DEF EraseReminded
  <2>4. TypeOK'
    BY <1>1, <1>2, <1>5, <2>1, <2>3, CountEraseDoneType, WholeStoreType
       DEF EraseReminded, TypeOK, flashVars, settingsVars
  <2> QED
    BY <2>2, <2>4 DEF IInv
<1> QED
  BY <1>4, <1>5

LEMMA StartEraseInv == IInv /\ StartErase => IInv'
<1> SUFFICES ASSUME IInv, StartErase
             PROVE  IInv'
  OBVIOUS
<1>1. SharedInterlock' /\ PagesInErase'
  BY DEF StartErase, IInv, SharedInterlock, DoneMessages, PagesInErase, flashVars
<1>2. TypeOK'
  BY DEF StartErase, IInv, TypeOK, flashVars, sampleVars, settingsVars
<1> QED
  BY <1>1, <1>2 DEF IInv

LEMMA FlashEraseDoneInv == IInv /\ FlashEraseDone => IInv'
<1> SUFFICES ASSUME IInv, FlashEraseDone
             PROVE  IInv'
  OBVIOUS
<1>1. Signal("ERASE_DONE") \in Message /\ Signal("ERASE_DONE").id = "ERASE_DONE"
  BY PublishedMessages
<1>2. /\ messages \in Seq(Message)
      /\ messages' = Append(messages, Signal("ERASE_DONE"))
      /\ DoneMessages = {} /\ listener = "Erasing"
  BY DEF FlashEraseDone, IInv, TypeOK, SharedInterlock
<1>3. /\ messages' \in Seq(Message)
      /\ Done(messages') = Done(messages) \cup {Len(messages) + 1}
  BY <1>1, <1>2, DoneAfterAppend
<1>4. DoneMessages = Done(messages) /\ DoneMessages' = Done(messages')
  BY DEF DoneMessages, Done
<1>5. DoneMessages' = {Len(messages) + 1}
  BY <1>2, <1>3, <1>4
<1>6. pageToErase' = {}
  BY DEF FlashEraseDone, IInv, PagesInErase
<1>7. SharedInterlock' /\ PagesInErase'
  BY <1>2, <1>5, <1>6 DEF FlashEraseDone, SharedInterlock, PagesInErase
<1>8. storedSamples' \in BOOLEAN
  BY Zenon DEF FlashEraseDone
<1>9. TypeOK'
  BY <1>3, <1>6, <1>8 DEF FlashEraseDone, IInv, TypeOK, sampleVars, settingsVars
<1> QED
  BY <1>7, <1>9 DEF IInv

-----------------------------------------------------------------------------
(* Steps of the controllers: they leave listener and flash alone.          *)

LEMMA SampleInv == IInv /\ HandleSampleMessage => IInv'
<1> SUFFICES ASSUME IInv, HandleSampleMessage
             PROVE  IInv'
  OBVIOUS
<1> DEFINE Rest == UNCHANGED <<flashVars, listenerVars, settingsVars, bleReady, saveLost>>
<1>0. ASSUME Rest, messages' \in Seq(Message), isEmpty' \in [Store -> BOOLEAN],
             loggingInterval' \in Settings, isSampleReady' \in BOOLEAN,
             isLoggingIntervalChanged' \in BOOLEAN,
             UNCHANGED <<isAddItemPossible, nrOfPendingErase>>,
             SharedInterlock', PagesInErase'
      PROVE  IInv'
  BY <1>0 DEF IInv, TypeOK, flashVars, listenerVars, settingsVars
<1>1. ASSUME NEW pair \in BOOLEAN, EvalTimeEvent(pair)
      PROVE  IInv'
  <2>1. PICK more \in {<< >>, <<AddItemMessage("samples")>>} :
             Dispatch("TIME_ELAPSED", more)
    BY <1>1, Zenon DEF EvalTimeEvent
  <2>2. more \in Seq(Message) /\ Done(more) = {}
    BY PublishedMessages, ShortQueues DEF Store
  <2>3. Rest /\ UNCHANGED <<isEmpty, loggingInterval, isAddItemPossible,
                           nrOfPendingErase, isLoggingIntervalChanged>>
    BY <1>1 DEF EvalTimeEvent
  <2>4. messages' \in Seq(Message) /\ SharedInterlock' /\ PagesInErase'
    BY <2>1, <2>2, <2>3, QuietDispatch DEF flashVars
  <2>5. isSampleReady' \in BOOLEAN
    BY <1>1, Zenon DEF EvalTimeEvent
  <2>6. /\ isEmpty' \in [Store -> BOOLEAN]
        /\ loggingInterval' \in Settings
        /\ isLoggingIntervalChanged' \in BOOLEAN
    BY <2>3 DEF IInv, TypeOK
  <2> QED
    BY <1>0, <2>3, <2>4, <2>5, <2>6
<1>2. ASSUME KeepLoggingInterval
      PROVE  IInv'
  <2>1. messages' \in Seq(Message) /\ SharedInterlock' /\ PagesInErase'
    BY <1>2, QuietDispatch, ShortQueues DEF KeepLoggingInterval, flashVars
  <2> QED
    BY <1>0, <1>2, <2>1 DEF KeepLoggingInterval, IInv, TypeOK, sampleVars
<1>3. ASSUME NEW i \in Interval, SetLoggingInterval(i)
      PROVE  IInv'
  <2>1. SaveMessage(i) \in Message /\ SaveMessage(i).id # "ERASE_DONE"
    BY PublishedMessages DEF Settings
  <2>2. <<SaveMessage(i)>> \in Seq(Message) /\ Done(<<SaveMessage(i)>>) = {}
    BY <2>1, ShortQueues
  <2>3. messages' \in Seq(Message) /\ SharedInterlock' /\ PagesInErase'
    BY <1>3, <2>2, QuietDispatch DEF SetLoggingInterval, flashVars
  <2>4. loggingInterval' \in Settings /\ isSampleReady' = FALSE
    BY <1>3 DEF SetLoggingInterval, Settings
  <2> QED
    BY <1>0, <1>3, <2>3, <2>4 DEF SetLoggingInterval, IInv, TypeOK
<1>4. ASSUME NEW i \in Interval, SetLoggingIntervalAndDelete(i)
      PROVE  IInv'
  <2>1. <<Signal("ERASE")>> \in Seq(Message) /\ Done(<<Signal("ERASE")>>) = {}
    BY PublishedMessages, ShortQueues
  <2>2. messages' \in Seq(Message) /\ SharedInterlock' /\ PagesInErase'
    BY <1>4, <2>1, QuietDispatch DEF SetLoggingIntervalAndDelete, flashVars
  <2>3. /\ loggingInterval' \in Settings
        /\ isSampleReady' = FALSE /\ isLoggingIntervalChanged' = TRUE
    BY <1>4 DEF SetLoggingIntervalAndDelete, Settings
  <2>4. isEmpty' \in [Store -> BOOLEAN]
    BY <1>4 DEF SetLoggingIntervalAndDelete, IInv, TypeOK
  <2> QED
    BY <1>0, <1>4, <2>2, <2>3, <2>4 DEF SetLoggingIntervalAndDelete
<1> QED
  BY <1>1, <1>2, <1>3, <1>4 DEF HandleSampleMessage

LEMMA SettingsInv == IInv /\ HandleSettingsMessage => IInv'
<1> SUFFICES ASSUME IInv, HandleSettingsMessage
             PROVE  IInv'
  OBVIOUS
<1> DEFINE Rest == UNCHANGED <<flashVars, listenerVars, settingsRead, bleReady,
                               saveLost, isAddItemPossible, nrOfPendingErase,
                               isSampleReady, isLoggingIntervalChanged>>
<1>0. ASSUME Rest, messages' \in Seq(Message), isEmpty' \in [Store -> BOOLEAN],
             loggingInterval' \in Settings, actualSettings' \in Settings,
             SharedInterlock', PagesInErase'
      PROVE  IInv'
  BY <1>0 DEF IInv, TypeOK, flashVars, listenerVars
<1>1. CASE PeripheralsInitialized
  <2>1. /\ <<Signal("BEGIN_ENUMERATE")>> \in Seq(Message)
        /\ Done(<<Signal("BEGIN_ENUMERATE")>>) = {}
    BY PublishedMessages, ShortQueues
  <2>2. messages' \in Seq(Message) /\ SharedInterlock' /\ PagesInErase'
    BY <1>1, <2>1, QuietDispatch DEF PeripheralsInitialized, flashVars
  <2> QED
    BY <1>0, <1>1, <2>2
       DEF PeripheralsInitialized, IInv, TypeOK, sampleVars, settingsVars
<1>2. CASE DistributeSettings
  <2>1. PICK more \in {<< >>, <<Signal("ERASE")>>} :
             Dispatch("BLE_SUBSYSTEM_READY", <<Signal("DEVICE_SETTINGS_READ")>> \o more)
    BY <1>2, Zenon DEF DistributeSettings
  <2>2. /\ <<Signal("DEVICE_SETTINGS_READ")>> \o more \in Seq(Message)
        /\ Done(<<Signal("DEVICE_SETTINGS_READ")>> \o more) = {}
    <3>1. /\ <<Signal("DEVICE_SETTINGS_READ")>> \in Seq(Message)
          /\ Done(<<Signal("DEVICE_SETTINGS_READ")>>) = {}
          /\ more \in Seq(Message) /\ Done(more) = {}
      BY PublishedMessages, ShortQueues
    <3> QED
      BY <3>1, JoinedQueues
  <2>3. messages' \in Seq(Message) /\ SharedInterlock' /\ PagesInErase'
    BY <1>2, <2>1, <2>2, QuietDispatch DEF DistributeSettings, flashVars
  <2>4. isEmpty' \in [Store -> BOOLEAN]
    BY <1>2, Zenon DEF DistributeSettings, IInv, TypeOK
  <2> QED
    BY <1>0, <1>2, <2>3, <2>4
       DEF DistributeSettings, IInv, TypeOK, sampleVars, settingsVars
<1>3. CASE DeviceSettingsRead
  <2>1. messages' \in Seq(Message) /\ SharedInterlock' /\ PagesInErase'
    BY <1>3, QuietDispatch, ShortQueues DEF DeviceSettingsRead, flashVars
  <2> QED
    BY <1>0, <1>3, <2>1 DEF DeviceSettingsRead, IInv, TypeOK, settingsVars
<1>4. CASE SaveLoggingInterval
  <2>1. PICK more \in {<< >>, <<AddItemMessage("config")>>} :
             Dispatch("SAVE_LOGGING_INTERVAL", more)
    BY <1>4, Zenon DEF SaveLoggingInterval
  <2>2. more \in Seq(Message) /\ Done(more) = {}
    BY PublishedMessages, ShortQueues DEF Store
  <2>3. UNCHANGED <<flashVars, listenerVars, isEmpty, sampleVars, settingsRead,
                    bleReady, saveLost>>
    BY <1>4 DEF SaveLoggingInterval
  <2>4. /\ messages' \in Seq(Message) /\ SharedInterlock' /\ PagesInErase'
        /\ Head(messages) \in Message
        /\ Head(messages).id = "SAVE_LOGGING_INTERVAL"
    BY <2>1, <2>2, <2>3, QuietDispatch DEF flashVars
  <2>5. actualSettings' \in Settings
    BY <1>4, <2>4, MessageFields DEF SaveLoggingInterval
  <2> QED
    BY <1>0, <2>3, <2>4, <2>5 DEF IInv, TypeOK, sampleVars
<1> QED
  BY <1>1, <1>2, <1>3, <1>4 DEF HandleSettingsMessage

-----------------------------------------------------------------------------
(* Start of the program, loss of power, and the theorems.                  *)

\* The queue at the start of the program.
LEMMA BootQueue ==
  LET q == <<Signal("PERIPHERALS_INITIALIZED")>>
  IN  q \in Seq(Message) /\ Done(q) = {}
BY PublishedMessages, ShortQueues

LEMMA ResetInv == IInv /\ Reset => IInv'
<1> SUFFICES ASSUME IInv, Reset
             PROVE  IInv'
  OBVIOUS
<1>1. PICK samples \in BOOLEAN :
           /\ storedSamples' = samples
           /\ UNCHANGED <<storedSettings, pageToErase>>
           /\ Boot(pageToErase, samples)
  BY DEF Reset
<1>2. messages' \in Seq(Message) /\ Done(messages') = {}
  BY <1>1, BootQueue DEF Boot
<1>3. DoneMessages' = {}
  BY <1>2 DEF DoneMessages, Done
<1>4. /\ pageToErase \subseteq {eraseParameters.store}
      /\ pageToErase \subseteq Store
  BY DEF IInv, PagesInErase, TypeOK
<1>5. halted' = FALSE
  <2>1. pageToErase # Store
    BY <1>4 DEF Store
  <2>2. halted' = (pageToErase = Store)
    BY <1>1 DEF Boot
  <2> QED
    BY <2>1, <2>2
<1>6. /\ eraseParameters' \in [store : Store, reinit : BOOLEAN]
      /\ pageToErase # {} => eraseParameters'.store \in pageToErase
  BY <1>1, <1>4 DEF Boot, Store
<1>7. pageToErase' \subseteq {eraseParameters'.store}
  BY <1>1, <1>4, <1>6
<1>8. SharedInterlock' /\ PagesInErase'
  BY <1>1, <1>3, <1>4, <1>5, <1>7 DEF Boot, SharedInterlock, PagesInErase
<1>9. isEmpty' \in [Store -> BOOLEAN]
  <2>1. \A c, d \in BOOLEAN : [config |-> c, samples |-> d] \in [Store -> BOOLEAN]
    BY DEF Store
  <2>2. (storedSettings = NoItem) \in BOOLEAN /\ (~samples) \in BOOLEAN
    OBVIOUS
  <2> QED
    BY <1>1, <2>1, <2>2, Zenon DEF Boot
<1>10. TypeOK'
  BY <1>1, <1>2, <1>5, <1>6, <1>9, EraseProtocolAssumption
     DEF EraseProtocolAssumption, Boot, IInv, TypeOK, Settings
<1> QED
  BY <1>8, <1>10 DEF IInv

LEMMA InitInv == Init => IInv
<1> SUFFICES ASSUME Init
             PROVE  IInv
  OBVIOUS
<1>1. messages \in Seq(Message) /\ Done(messages) = {}
  BY BootQueue DEF Init
<1>2. SharedInterlock /\ PagesInErase
  BY <1>1 DEF Init, SharedInterlock, DoneMessages, Done, PagesInErase
<1>3. TypeOK
  BY <1>1, EraseProtocolAssumption
     DEF EraseProtocolAssumption, Init, TypeOK, Settings, Store
<1> QED
  BY <1>2, <1>3 DEF IInv

LEMMA NextInv == IInv /\ [Next]_vars => IInv'
<1> SUFFICES ASSUME IInv, [Next]_vars
             PROVE  IInv'
  OBVIOUS
<1>1. CASE Request
  BY <1>1, RequestInv
<1>2. CASE HandleItemStoreMessage
  BY <1>2, ItemInv, PageWrapInv, EnumerateInv, BeginEraseInv, RemindEraseInv,
     EraseDoneInv DEF HandleItemStoreMessage, Store
<1>3. CASE HandleSampleMessage
  BY <1>3, SampleInv
<1>4. CASE HandleSettingsMessage
  BY <1>4, SettingsInv
<1>5. CASE StartErase \/ FlashEraseDone
  BY <1>5, StartEraseInv, FlashEraseDoneInv
<1>6. CASE Reset
  BY <1>6, ResetInv
<1>7. CASE UNCHANGED vars
  BY <1>7 DEF vars, IInv, TypeOK, SharedInterlock, DoneMessages, PagesInErase,
              flashVars, listenerVars, sampleVars, settingsVars
<1> QED
  BY <1>1, <1>2, <1>3, <1>4, <1>5, <1>6, <1>7 DEF Next, HandleMessage

LEMMA Inductive == Spec => []IInv
<1> QED
  BY InitInv, NextInv, PTL DEF Spec

(***************************************************************************)
(* The types hold for any set of intervals and any number of messages; the *)
(* pending erases of MeasurementItemController.c are never negative.       *)
(***************************************************************************)
THEOREM TypeCorrect == Spec => []TypeOK
<1>1. IInv => TypeOK
  BY DEF IInv
<1> QED
  BY <1>1, Inductive, PTL

(***************************************************************************)
(* However requests, page wraps, deletions and losses of power meet, the   *)
(* listener that both stores share is in ListenerErasingState exactly as   *)
(* long as one erase waits, runs or was just reported, and Flash_Erase is  *)
(* never called a second time: the assertion at Flash.c:191 holds.         *)
(***************************************************************************)
THEOREM InterlockHolds == Spec => []SharedInterlock
<1>1. IInv => SharedInterlock
  BY DEF IInv
<1> QED
  BY <1>1, Inductive, PTL

-----------------------------------------------------------------------------
(* What waits in the queue, and in which order.                            *)

Contains(q, id) == \E i \in DOMAIN q : q[i].id = id
At(id) == {i \in DOMAIN messages : messages[i].id = id}

\* Dispatch moves the other messages forward and appends what handlers publish.
LEMMA QueueAfterDispatch ==
  ASSUME TypeOK, NEW id, NEW more \in Seq(Message), Dispatch(id, more)
  PROVE  LET n == Len(messages) - 1
         IN  /\ n \in Nat
             /\ 1 \in DOMAIN messages
             /\ messages[1] = Head(messages) /\ messages[1].id = id
             /\ \A i \in DOMAIN messages :
                  /\ i \in 1 .. n + 1
                  /\ i # 1 => /\ i - 1 \in DOMAIN messages'
                              /\ messages'[i - 1] = messages[i]
             /\ \A i \in DOMAIN messages' :
                  \/ /\ i \in 1 .. n /\ i + 1 \in DOMAIN messages
                     /\ messages'[i] = messages[i + 1]
                  \/ /\ i \in Nat /\ i > n /\ i - n \in DOMAIN more
                     /\ messages'[i] = more[i - n]
             /\ \A j \in DOMAIN more : /\ j \in Nat \ {0}
                                       /\ n + j \in DOMAIN messages'
                                       /\ messages'[n + j] = more[j]
<1> DEFINE n == Len(messages) - 1
<1>1. /\ messages \in Seq(Message) /\ messages # << >>
      /\ messages' = Tail(messages) \o more
      /\ Head(messages).id = id
  BY DEF TypeOK, Dispatch, IsNext
<1>2. /\ Tail(messages) \in Seq(Message)
      /\ n \in Nat
      /\ Len(Tail(messages)) = n
      /\ \A i \in 1 .. n : Tail(messages)[i] = messages[i + 1]
      /\ Head(messages) = messages[1]
      /\ DOMAIN messages = 1 .. n + 1
  BY <1>1
<1>3. DOMAIN more = 1 .. Len(more) /\ Len(more) \in Nat
  OBVIOUS
<1>4. /\ DOMAIN (Tail(messages) \o more) = 1 .. n + Len(more)
      /\ \A i \in 1 .. n + Len(more) :
           (Tail(messages) \o more)[i] = IF i <= n THEN Tail(messages)[i]
                                                   ELSE more[i - n]
  BY <1>2
<1> HIDE DEF n
<1>5. /\ DOMAIN messages' = 1 .. n + Len(more)
      /\ \A i \in 1 .. n + Len(more) :
           messages'[i] = IF i <= n THEN messages[i + 1] ELSE more[i - n]
  BY <1>1, <1>2, <1>4
<1>6. ASSUME NEW i \in DOMAIN messages
      PROVE  /\ i \in 1 .. n + 1
             /\ i # 1 => i - 1 \in DOMAIN messages' /\ messages'[i - 1] = messages[i]
  BY <1>2, <1>3, <1>5
<1>7. ASSUME NEW i \in DOMAIN messages'
      PROVE  \/ /\ i \in 1 .. n /\ i + 1 \in DOMAIN messages
                /\ messages'[i] = messages[i + 1]
             \/ /\ i \in Nat /\ i > n /\ i - n \in DOMAIN more
                /\ messages'[i] = more[i - n]
  <2>1. i \in 1 .. n + Len(more)
    BY <1>5
  <2>2. CASE i <= n
    BY <1>2, <1>5, <2>1, <2>2
  <2>3. CASE ~(i <= n)
    BY <1>2, <1>3, <1>5, <2>1, <2>3
  <2> QED
    BY <2>2, <2>3
<1>8. ASSUME NEW j \in DOMAIN more
      PROVE  j \in Nat \ {0} /\ n + j \in DOMAIN messages' /\ messages'[n + j] = more[j]
  <2>1. j \in 1 .. Len(more) /\ n + j \in 1 .. n + Len(more)
    BY <1>2, <1>3
  <2>2. ~(n + j <= n) /\ (n + j) - n = j
    BY <1>2, <1>3, <2>1
  <2>3. messages'[n + j] = more[(n + j) - n]
    BY <1>5, <2>1, <2>2
  <2>4. messages'[n + j] = more[j]
    BY <2>2, <2>3
  <2> QED
    BY <1>5, <2>1, <2>4
<1> QED
  BY <1>1, <1>2, <1>6, <1>7, <1>8 DEF n

LEMMA WaitingAfterDispatch ==
  ASSUME TypeOK, NEW id, NEW more \in Seq(Message), Dispatch(id, more), NEW x
  PROVE  /\ IsWaiting(id)
         /\ IsWaiting(x)' => IsWaiting(x) \/ Contains(more, x)
         /\ IsWaiting(x) /\ x # id => IsWaiting(x)'
         /\ Contains(more, x) => IsWaiting(x)'
BY QueueAfterDispatch DEF IsWaiting, Contains

\* A request of the environment, or the report of the flash.
LEMMA QueueAfterAppend ==
  ASSUME TypeOK, NEW m \in Message, messages' = Append(messages, m)
  PROVE  LET n == Len(messages) + 1
         IN  /\ n \in Nat
             /\ n \in DOMAIN messages' /\ messages'[n] = m
             /\ \A i \in DOMAIN messages :
                  /\ i \in Nat /\ i < n
                  /\ i \in DOMAIN messages' /\ messages'[i] = messages[i]
             /\ \A i \in DOMAIN messages' : i = n \/ i \in DOMAIN messages
BY DEF TypeOK

LEMMA WaitingAfterAppend ==
  ASSUME TypeOK, NEW m \in Message, messages' = Append(messages, m), NEW x
  PROVE  IsWaiting(x)' <=> IsWaiting(x) \/ m.id = x
BY QueueAfterAppend DEF IsWaiting

\* What a handler publishes.
LEMMA ShortContains ==
  /\ \A x : ~Contains(<< >>, x)
  /\ \A m, x : Contains(<<m>>, x) <=> m.id = x
BY DEF Contains

LEMMA JoinedContains ==
  ASSUME NEW q \in Seq(Message), NEW r \in Seq(Message)
  PROVE  /\ q \o r \in Seq(Message)
         /\ \A x : Contains(q \o r, x) <=> Contains(q, x) \/ Contains(r, x)
<1>1. /\ q \o r \in Seq(Message)
      /\ DOMAIN (q \o r) = 1 .. Len(q) + Len(r)
      /\ DOMAIN q = 1 .. Len(q) /\ DOMAIN r = 1 .. Len(r)
      /\ Len(q) \in Nat /\ Len(r) \in Nat
      /\ \A i \in 1 .. Len(q) + Len(r) :
           (q \o r)[i] = IF i <= Len(q) THEN q[i] ELSE r[i - Len(q)]
  OBVIOUS
<1>2. ASSUME NEW x, Contains(q \o r, x)
      PROVE  Contains(q, x) \/ Contains(r, x)
  <2>1. PICK i \in 1 .. Len(q) + Len(r) : (q \o r)[i].id = x
    BY <1>1, <1>2 DEF Contains
  <2>2. CASE i <= Len(q)
    BY <1>1, <2>1, <2>2 DEF Contains
  <2>3. CASE ~(i <= Len(q))
    <3>1. i - Len(q) \in 1 .. Len(r)
      BY <1>1, <2>3
    <3> QED
      BY <1>1, <2>1, <2>3, <3>1 DEF Contains
  <2> QED
    BY <2>2, <2>3
<1>3. ASSUME NEW x, Contains(q, x)
      PROVE  Contains(q \o r, x)
  <2>1. PICK i \in 1 .. Len(q) : q[i].id = x
    BY <1>1, <1>3 DEF Contains
  <2>2. i \in 1 .. Len(q) + Len(r) /\ i <= Len(q)
    BY <1>1
  <2> QED
    BY <1>1, <2>1, <2>2 DEF Contains
<1>4. ASSUME NEW x, Contains(r, x)
      PROVE  Contains(q \o r, x)
  <2>1. PICK i \in 1 .. Len(r) : r[i].id = x
    BY <1>1, <1>4 DEF Contains
  <2>2. /\ Len(q) + i \in 1 .. Len(q) + Len(r)
        /\ ~(Len(q) + i <= Len(q)) /\ (Len(q) + i) - Len(q) = i
    BY <1>1
  <2>3. (q \o r)[Len(q) + i] = r[(Len(q) + i) - Len(q)]
    BY <1>1, <2>2
  <2> QED
    BY <1>1, <2>1, <2>2, <2>3 DEF Contains
<1> QED
  BY <1>1, <1>2, <1>3, <1>4

LEMMA ItemOrNothing ==
  ASSUME NEW store \in Store, NEW more \in {<< >>, <<AddItemMessage(store)>>}
  PROVE  more \in Seq(Message) /\ \A x : Contains(more, x) => x = "ADD_ITEM"
<1>1. AddItemMessage(store) \in Message /\ AddItemMessage(store).id = "ADD_ITEM"
  BY PublishedMessages DEF AddItemMessage
<1>2. CASE more = << >>
  BY <1>2, ShortContains
<1>3. CASE more = <<AddItemMessage(store)>>
  BY <1>1, <1>3, ShortContains
<1> QED
  BY <1>2, <1>3

LEMMA MessageIds ==
  /\ \A store : AddItemMessage(store).id = "ADD_ITEM"
  /\ \A i : /\ SaveMessage(i).id = "SAVE_LOGGING_INTERVAL"
            /\ SaveMessage(i).interval = i
  /\ \A id : Signal(id).id = id
  /\ \A m \in Message : m.id = "SAVE_LOGGING_INTERVAL" => m = SaveMessage(m.interval)
BY DEF AddItemMessage, SaveMessage, Signal, Message

-----------------------------------------------------------------------------
(* The logging interval and the settings.                                  *)

(***************************************************************************)
(* A phone is connected, and so sets the interval, only after the settings *)
(* were distributed and taken over.                                        *)
(***************************************************************************)
NoIntervalBeforeSettings ==
  \/ ~bleReady
  \/ IsWaiting("BLE_SUBSYSTEM_READY")
  \/ IsWaiting("DEVICE_SETTINGS_READ")
  => /\ ~isLoggingIntervalChanged
     /\ ~IsWaiting("SET_LOGGING_INTERVAL")
     /\ ~IsWaiting("SAVE_LOGGING_INTERVAL")

\* Of the intervals that wait to be saved the last one is in use.
LastSaveIsCurrent ==
  ~isLoggingIntervalChanged /\ IsWaiting("SAVE_LOGGING_INTERVAL") =>
    \E i \in At("SAVE_LOGGING_INTERVAL") :
      /\ \A j \in At("SAVE_LOGGING_INTERVAL") : j <= i
      /\ messages[i].interval = loggingInterval

\* The settings are read before they are distributed.
ReadBeforeDistributed ==
  bleReady =>
    /\ \A i \in At("PERIPHERALS_INITIALIZED") :
         \E k \in At("BLE_SUBSYSTEM_READY") : k > i
    /\ \A i \in At("BEGIN_ENUMERATE") :
         \/ IsWaiting("BLE_SUBSYSTEM_READY")
         \/ \E k \in At("DEVICE_SETTINGS_READ") : k > i

IntervalInv ==
  /\ NoIntervalBeforeSettings
  /\ LastSaveIsCurrent
  /\ ReadBeforeDistributed
  /\ IntervalIsSaved

LEMMA NoIntervalKept ==
  ASSUME TypeOK, NoIntervalBeforeSettings,
         NEW id, NEW more \in Seq(Message), Dispatch(id, more), UNCHANGED bleReady,
         ~Contains(more, "BLE_SUBSYSTEM_READY"),
         ~Contains(more, "SET_LOGGING_INTERVAL"),
         Contains(more, "DEVICE_SETTINGS_READ") => id = "BLE_SUBSYSTEM_READY",
         Contains(more, "SAVE_LOGGING_INTERVAL")
           => id = "SET_LOGGING_INTERVAL" \/ isLoggingIntervalChanged,
         isLoggingIntervalChanged'
           => isLoggingIntervalChanged \/ id = "SET_LOGGING_INTERVAL"
  PROVE  NoIntervalBeforeSettings'
<1> SUFFICES ASSUME \/ ~bleReady'
                    \/ IsWaiting("BLE_SUBSYSTEM_READY")'
                    \/ IsWaiting("DEVICE_SETTINGS_READ")'
             PROVE  /\ ~isLoggingIntervalChanged'
                    /\ ~IsWaiting("SET_LOGGING_INTERVAL")'
                    /\ ~IsWaiting("SAVE_LOGGING_INTERVAL")'
  BY DEF NoIntervalBeforeSettings
<1>1. \/ ~bleReady
      \/ IsWaiting("BLE_SUBSYSTEM_READY")
      \/ IsWaiting("DEVICE_SETTINGS_READ")
  BY WaitingAfterDispatch
<1>2. /\ ~isLoggingIntervalChanged
      /\ ~IsWaiting("SET_LOGGING_INTERVAL")
      /\ ~IsWaiting("SAVE_LOGGING_INTERVAL")
  BY <1>1 DEF NoIntervalBeforeSettings
<1>3. id # "SET_LOGGING_INTERVAL"
  BY <1>2, WaitingAfterDispatch
<1> QED
  BY <1>2, <1>3, WaitingAfterDispatch

\* No other interval is published, or the one that is set is published.
LEMMA LastSaveKept ==
  ASSUME TypeOK, LastSaveIsCurrent,
         NEW id, NEW more \in Seq(Message), Dispatch(id, more),
         ~Contains(more, "SAVE_LOGGING_INTERVAL"),
         UNCHANGED <<isLoggingIntervalChanged, loggingInterval>>
  PROVE  LastSaveIsCurrent'
<1> SUFFICES ASSUME ~isLoggingIntervalChanged, IsWaiting("SAVE_LOGGING_INTERVAL")'
             PROVE  \E i \in At("SAVE_LOGGING_INTERVAL")' :
                      /\ \A j \in At("SAVE_LOGGING_INTERVAL")' : j <= i
                      /\ messages'[i].interval = loggingInterval
  BY DEF LastSaveIsCurrent
<1>1. ASSUME NEW j \in At("SAVE_LOGGING_INTERVAL")'
      PROVE  j \in Nat \ {0} /\ j + 1 \in At("SAVE_LOGGING_INTERVAL")
  BY QueueAfterDispatch DEF At, Contains
<1>2. PICK i \in At("SAVE_LOGGING_INTERVAL") :
           /\ \A j \in At("SAVE_LOGGING_INTERVAL") : j <= i
           /\ messages[i].interval = loggingInterval
  BY WaitingAfterDispatch DEF LastSaveIsCurrent
<1>3. PICK j \in At("SAVE_LOGGING_INTERVAL")' : TRUE
  BY DEF IsWaiting, At
<1>4. i \in Nat
  BY QueueAfterDispatch DEF At
<1>5. i # 1
  BY <1>1, <1>2, <1>3
<1>6. /\ i - 1 \in At("SAVE_LOGGING_INTERVAL")'
      /\ messages'[i - 1].interval = loggingInterval
  BY <1>2, <1>5, QueueAfterDispatch DEF At
<1>7. \A k \in At("SAVE_LOGGING_INTERVAL")' : k <= i - 1
  BY <1>1, <1>2, <1>4
<1> QED
  BY <1>6, <1>7

LEMMA LastSaveNew ==
  ASSUME TypeOK, NEW id, NEW v \in Settings,
         Dispatch(id, <<SaveMessage(v)>>), loggingInterval' = v
  PROVE  LastSaveIsCurrent'
<1> DEFINE more == <<SaveMessage(v)>>
           n == Len(messages) - 1
<1>1. /\ more \in Seq(Message) /\ DOMAIN more = {1}
      /\ more[1] = SaveMessage(v)
      /\ Dispatch(id, more)
  BY PublishedMessages, ShortQueues
<1> HIDE DEF more
<1>2. n \in Nat
  BY <1>1, QueueAfterDispatch
<1>3. \A i \in DOMAIN messages' : \/ i \in 1 .. n
                                  \/ i \in Nat /\ i - n \in DOMAIN more
  BY <1>1, QueueAfterDispatch
<1>4. \A j \in DOMAIN more : n + j \in DOMAIN messages' /\ messages'[n + j] = more[j]
  BY <1>1, QueueAfterDispatch
<1> HIDE DEF n
<1>5. n + 1 \in DOMAIN messages' /\ messages'[n + 1] = SaveMessage(v)
  BY <1>1, <1>4
<1>6. \A i \in DOMAIN messages' : i \in Nat /\ i <= n + 1
  BY <1>1, <1>2, <1>3
<1>7. /\ n + 1 \in At("SAVE_LOGGING_INTERVAL")'
      /\ messages'[n + 1].interval = v
  BY <1>5, MessageIds DEF At
<1>8. \A j \in At("SAVE_LOGGING_INTERVAL")' : j <= n + 1
  BY <1>6 DEF At
<1> QED
  BY <1>7, <1>8 DEF LastSaveIsCurrent

LEMMA ReadBeforeDistributedKept ==
  ASSUME TypeOK, ReadBeforeDistributed,
         NEW id, NEW more \in Seq(Message), Dispatch(id, more), UNCHANGED bleReady,
         id = "BLE_SUBSYSTEM_READY" => Contains(more, "DEVICE_SETTINGS_READ"),
         ~Contains(more, "PERIPHERALS_INITIALIZED"),
         Contains(more, "BEGIN_ENUMERATE") => id = "PERIPHERALS_INITIALIZED"
  PROVE  ReadBeforeDistributed'
<1> SUFFICES ASSUME bleReady
             PROVE  /\ \A i \in At("PERIPHERALS_INITIALIZED")' :
                         \E k \in At("BLE_SUBSYSTEM_READY")' : k > i
                    /\ \A i \in At("BEGIN_ENUMERATE")' :
                         \/ IsWaiting("BLE_SUBSYSTEM_READY")'
                         \/ \E k \in At("DEVICE_SETTINGS_READ")' : k > i
  BY DEF ReadBeforeDistributed
<1> DEFINE n == Len(messages) - 1
<1>1. ASSUME NEW x, NEW k \in At(x), k # 1
      PROVE  k \in Nat /\ k - 1 \in At(x)'
  BY <1>1, QueueAfterDispatch DEF At
<1>2. ASSUME NEW x, NEW i \in At(x)'
      PROVE  \/ i \in Nat \ {0} /\ i <= n /\ i + 1 \in At(x)
             \/ i \in Nat /\ i > n /\ Contains(more, x)
  BY QueueAfterDispatch DEF At, Contains
<1>3. n \in Nat
  BY QueueAfterDispatch
<1> HIDE DEF n
<1>4. ASSUME NEW i \in At("PERIPHERALS_INITIALIZED")'
      PROVE  \E k \in At("BLE_SUBSYSTEM_READY")' : k > i
  <2>1. i \in Nat \ {0} /\ i + 1 \in At("PERIPHERALS_INITIALIZED")
    BY <1>2
  <2>2. PICK k \in At("BLE_SUBSYSTEM_READY") : k > i + 1
    BY <2>1 DEF ReadBeforeDistributed
  <2>3. k \in Nat
    BY <2>2, QueueAfterDispatch DEF At
  <2>4. k - 1 \in At("BLE_SUBSYSTEM_READY")' /\ k - 1 > i
    BY <1>1, <2>1, <2>2, <2>3
  <2> QED
    BY <2>4
<1>5. ASSUME NEW i \in At("BEGIN_ENUMERATE")'
      PROVE  \/ IsWaiting("BLE_SUBSYSTEM_READY")'
             \/ \E k \in At("DEVICE_SETTINGS_READ")' : k > i
  <2>1. CASE Contains(more, "BEGIN_ENUMERATE")
    <3>1. id = "PERIPHERALS_INITIALIZED" /\ 1 \in At("PERIPHERALS_INITIALIZED")
      BY <2>1, QueueAfterDispatch DEF At
    <3>2. IsWaiting("BLE_SUBSYSTEM_READY")
      BY <3>1 DEF ReadBeforeDistributed, IsWaiting, At
    <3> QED
      BY <3>1, <3>2, WaitingAfterDispatch
  <2>2. CASE ~Contains(more, "BEGIN_ENUMERATE")
    <3>1. i \in Nat \ {0} /\ i <= n /\ i + 1 \in At("BEGIN_ENUMERATE")
      BY <1>2, <2>2
    <3>2. CASE id = "BLE_SUBSYSTEM_READY"
      <4>1. PICK j \in DOMAIN more : more[j].id = "DEVICE_SETTINGS_READ"
        BY <3>2 DEF Contains
      <4>2. j \in Nat \ {0} /\ n + j \in At("DEVICE_SETTINGS_READ")'
        BY <4>1, QueueAfterDispatch DEF At, n
      <4> QED
        BY <1>3, <3>1, <4>2
    <3>3. CASE id # "BLE_SUBSYSTEM_READY" /\ IsWaiting("BLE_SUBSYSTEM_READY")
      BY <3>3, WaitingAfterDispatch
    <3>4. CASE ~IsWaiting("BLE_SUBSYSTEM_READY")
      <4>1. PICK k \in At("DEVICE_SETTINGS_READ") : k > i + 1
        BY <3>1, <3>4 DEF ReadBeforeDistributed
      <4>2. k \in Nat
        BY <4>1, QueueAfterDispatch DEF At
      <4>3. k - 1 \in At("DEVICE_SETTINGS_READ")' /\ k - 1 > i
        BY <1>1, <3>1, <4>1, <4>2
      <4> QED
        BY <4>3
    <3> QED
      BY <3>2, <3>3, <3>4
  <2> QED
    BY <2>1, <2>2
<1> QED
  BY <1>4, <1>5

\* A message that sets, saves or replaces no interval.
LEMMA IntervalSavedKept ==
  ASSUME TypeOK, IntervalIsSaved,
         NEW id, NEW more \in Seq(Message), Dispatch(id, more),
         id \notin {"BLE_SUBSYSTEM_READY", "DEVICE_SETTINGS_READ",
                    "SAVE_LOGGING_INTERVAL"},
         UNCHANGED <<settingsRead, bleReady, isLoggingIntervalChanged,
                     actualSettings, loggingInterval>>
  PROVE  IntervalIsSaved'
<1>1. /\ IsWaiting("BLE_SUBSYSTEM_READY") => IsWaiting("BLE_SUBSYSTEM_READY")'
      /\ IsWaiting("DEVICE_SETTINGS_READ") => IsWaiting("DEVICE_SETTINGS_READ")'
  BY WaitingAfterDispatch
<1>2. (\E i \in DOMAIN messages : messages[i] = SaveMessage(loggingInterval))
        => \E i \in DOMAIN messages' : messages'[i] = SaveMessage(loggingInterval)
  BY QueueAfterDispatch, MessageIds
<1> QED
  BY <1>1, <1>2 DEF IntervalIsSaved

\* Messages that have nothing to do with the interval.
LEMMA IntervalQuiet ==
  ASSUME TypeOK, IntervalInv,
         NEW id \in {"ADD_ITEM", "ERASE", "ERASE_DONE", "TIME_ELAPSED",
                     "SET_LOGGING_INTERVAL", "PERIPHERALS_INITIALIZED",
                     "BEGIN_ENUMERATE"},
         NEW more \in Seq(Message), Dispatch(id, more),
         \A x \in {"BLE_SUBSYSTEM_READY", "DEVICE_SETTINGS_READ",
                   "SET_LOGGING_INTERVAL", "SAVE_LOGGING_INTERVAL",
                   "PERIPHERALS_INITIALIZED"} : ~Contains(more, x),
         Contains(more, "BEGIN_ENUMERATE") => id = "PERIPHERALS_INITIALIZED",
         UNCHANGED <<settingsRead, bleReady, isLoggingIntervalChanged,
                     actualSettings, loggingInterval>>
  PROVE  IntervalInv'
<1>1. NoIntervalBeforeSettings'
  BY NoIntervalKept DEF IntervalInv
<1>2. LastSaveIsCurrent'
  BY LastSaveKept DEF IntervalInv
<1>3. ReadBeforeDistributed'
  BY ReadBeforeDistributedKept DEF IntervalInv
<1>4. IntervalIsSaved'
  BY IntervalSavedKept DEF IntervalInv
<1> QED
  BY <1>1, <1>2, <1>3, <1>4 DEF IntervalInv

\* The interval that is set from now on is about to be saved.
LEMMA IntervalPublished ==
  ASSUME TypeOK, IntervalInv, NEW v \in Settings,
         NEW id \in {"SET_LOGGING_INTERVAL", "ERASE_DONE"},
         id = "ERASE_DONE" => isLoggingIntervalChanged,
         Dispatch(id, <<SaveMessage(v)>>),
         loggingInterval' = v,
         isLoggingIntervalChanged' => isLoggingIntervalChanged,
         UNCHANGED <<settingsRead, bleReady, actualSettings>>
  PROVE  IntervalInv'
<1> DEFINE more == <<SaveMessage(v)>>
<1>1. /\ more \in Seq(Message)
      /\ Dispatch(id, more)
      /\ \A x : Contains(more, x) <=> x = "SAVE_LOGGING_INTERVAL"
      /\ 1 \in DOMAIN more /\ more[1] = SaveMessage(v)
  BY PublishedMessages, ShortQueues, ShortContains, MessageIds
<1>2. LastSaveIsCurrent'
  BY LastSaveNew
<1> HIDE DEF more
<1>3. NoIntervalBeforeSettings'
  BY <1>1, NoIntervalKept DEF IntervalInv
<1>4. ReadBeforeDistributed'
  BY <1>1, ReadBeforeDistributedKept DEF IntervalInv
<1>5. \E i \in DOMAIN messages' : messages'[i] = SaveMessage(v)
  BY <1>1, QueueAfterDispatch
<1> QED
  BY <1>2, <1>3, <1>4, <1>5 DEF IntervalInv, IntervalIsSaved

LEMMA IntervalItemStore ==
  ASSUME TypeOK, IntervalInv, HandleItemStoreMessage
  PROVE  IntervalInv'
<1>1. ASSUME NEW store \in Store,
             \/ AddItem(store) \/ AddItemWithPageWrap(store) \/ LoseItem(store)
             \/ FailToAddItem
      PROVE  IntervalInv'
  <2>1. /\ Dispatch("ADD_ITEM", << >>)
        /\ UNCHANGED <<settingsRead, bleReady, isLoggingIntervalChanged,
                       actualSettings, loggingInterval>>
    BY <1>1 DEF AddItem, AddItemWithPageWrap, LoseItem, FailToAddItem,
                sampleVars, settingsVars
  <2> QED
    BY <2>1, IntervalQuiet, ShortQueues, ShortContains
<1>2. CASE IgnoreBeginEnumerate
  <2>1. /\ Dispatch("BEGIN_ENUMERATE", << >>)
        /\ UNCHANGED <<settingsRead, bleReady, isLoggingIntervalChanged,
                       actualSettings, loggingInterval>>
    BY <1>2 DEF IgnoreBeginEnumerate, sampleVars, settingsVars
  <2> QED
    BY <2>1, IntervalQuiet, ShortQueues, ShortContains
<1>3. CASE BeginErase \/ RemindErase
  <2>1. /\ Dispatch("ERASE", << >>)
        /\ UNCHANGED <<settingsRead, bleReady, isLoggingIntervalChanged,
                       actualSettings, loggingInterval>>
    BY <1>3 DEF BeginErase, RemindErase, CountErase, settingsVars
  <2> QED
    BY <2>1, IntervalQuiet, ShortQueues, ShortContains
<1>4. CASE InitializeSettings
  <2>1. /\ Dispatch("BEGIN_ENUMERATE", << >>) /\ << >> \in Seq(Message)
        /\ \A x : ~Contains(<< >>, x)
        /\ UNCHANGED <<bleReady, isLoggingIntervalChanged, loggingInterval>>
    BY <1>4, ShortQueues, ShortContains DEF InitializeSettings, sampleVars
  <2>2. NoIntervalBeforeSettings'
    BY <2>1, NoIntervalKept DEF IntervalInv
  <2>3. LastSaveIsCurrent'
    BY <2>1, LastSaveKept DEF IntervalInv
  <2>4. ReadBeforeDistributed'
    BY <2>1, ReadBeforeDistributedKept DEF IntervalInv
  <2>5. 1 \in At("BEGIN_ENUMERATE")
    BY <2>1, QueueAfterDispatch DEF At
  <2>6. bleReady => IsWaiting("BLE_SUBSYSTEM_READY") \/ IsWaiting("DEVICE_SETTINGS_READ")
    BY <2>5 DEF IntervalInv, ReadBeforeDistributed, IsWaiting, At
  <2>7. bleReady' => \/ IsWaiting("BLE_SUBSYSTEM_READY")'
                     \/ IsWaiting("DEVICE_SETTINGS_READ")'
    BY <2>1, <2>6, WaitingAfterDispatch
  <2> QED
    BY <2>2, <2>3, <2>4, <2>7 DEF IntervalInv, IntervalIsSaved
<1>5. CASE EraseDone \/ EraseReminded
  <2>1. /\ Dispatch("ERASE_DONE", Deferred) /\ CountEraseDone
        /\ UNCHANGED <<settingsRead, bleReady, actualSettings>>
    BY <1>5 DEF EraseDone, EraseReminded, settingsVars
  <2>2. CASE Remaining = 0 /\ isLoggingIntervalChanged
    <3>1. Deferred = <<SaveMessage(loggingInterval)>>
      BY <2>2 DEF Deferred
    <3>2. ~(Remaining > 0)
      BY <2>2
    <3>3. ~isLoggingIntervalChanged' /\ loggingInterval' = loggingInterval
      BY <2>1, <3>2, Zenon DEF CountEraseDone
    <3> QED
      BY <2>1, <2>2, <3>1, <3>3, IntervalPublished DEF TypeOK
  <2>3. CASE ~(Remaining = 0 /\ isLoggingIntervalChanged)
    <3>1. Deferred = << >> \/ Deferred = <<AddItemMessage("samples")>>
      BY <2>3 DEF Deferred
    <3>2. Deferred \in Seq(Message)
      BY DeferredType
    <3>3. \A x : Contains(Deferred, x) => x = "ADD_ITEM"
      BY <3>1, ShortContains, MessageIds
    <3>4. Remaining \in Nat
      BY DEF TypeOK, Remaining
    <3>5. UNCHANGED <<isLoggingIntervalChanged, loggingInterval>>
      <4>1. loggingInterval' = loggingInterval
        BY <2>1 DEF CountEraseDone
      <4>2. isLoggingIntervalChanged' = (isLoggingIntervalChanged /\ Remaining > 0)
        BY <2>1 DEF CountEraseDone
      <4>3. isLoggingIntervalChanged => Remaining > 0
        BY <2>3, <3>4
      <4>4. isLoggingIntervalChanged \in BOOLEAN
        BY DEF TypeOK
      <4>5. isLoggingIntervalChanged' = isLoggingIntervalChanged
        BY <4>2, <4>3, <4>4, Zenon
      <4> QED
        BY <4>1, <4>5
    <3> QED
      BY <2>1, <3>2, <3>3, <3>5, IntervalQuiet
  <2> QED
    BY <2>2, <2>3
<1> QED
  BY <1>1, <1>2, <1>3, <1>4, <1>5 DEF HandleItemStoreMessage, Store

LEMMA IntervalSamples ==
  ASSUME TypeOK, IntervalInv, HandleSampleMessage
  PROVE  IntervalInv'
<1>1. ASSUME NEW pair \in BOOLEAN, EvalTimeEvent(pair)
      PROVE  IntervalInv'
  <2>1. PICK more \in {<< >>, <<AddItemMessage("samples")>>} :
             Dispatch("TIME_ELAPSED", more)
    BY <1>1, Zenon DEF EvalTimeEvent
  <2>2. more \in Seq(Message) /\ \A x : Contains(more, x) => x = "ADD_ITEM"
    BY <2>1, ItemOrNothing DEF Store
  <2>3. UNCHANGED <<settingsRead, bleReady, isLoggingIntervalChanged,
                    actualSettings, loggingInterval>>
    BY <1>1 DEF EvalTimeEvent, settingsVars
  <2> QED
    BY <2>1, <2>2, <2>3, IntervalQuiet
<1>2. CASE KeepLoggingInterval
  <2>1. /\ Dispatch("SET_LOGGING_INTERVAL", << >>)
        /\ UNCHANGED <<settingsRead, bleReady, isLoggingIntervalChanged,
                       actualSettings, loggingInterval>>
    BY <1>2 DEF KeepLoggingInterval, sampleVars, settingsVars
  <2> QED
    BY <2>1, IntervalQuiet, ShortQueues, ShortContains
<1>3. ASSUME NEW i \in Interval, SetLoggingInterval(i)
      PROVE  IntervalInv'
  <2>1. /\ Dispatch("SET_LOGGING_INTERVAL", <<SaveMessage(i)>>)
        /\ loggingInterval' = i /\ i \in Settings
        /\ UNCHANGED <<settingsRead, bleReady, actualSettings>>
    BY <1>3 DEF SetLoggingInterval, settingsVars, Settings
  <2>2. isLoggingIntervalChanged' => isLoggingIntervalChanged
    BY <1>3 DEF SetLoggingInterval
  <2> QED
    BY <2>1, <2>2, IntervalPublished
<1>4. ASSUME NEW i \in Interval, SetLoggingIntervalAndDelete(i)
      PROVE  IntervalInv'
  <2>1. /\ Dispatch("SET_LOGGING_INTERVAL", <<Signal("ERASE")>>)
        /\ isLoggingIntervalChanged' = TRUE /\ UNCHANGED bleReady
    BY <1>4 DEF SetLoggingIntervalAndDelete
  <2>2. <<Signal("ERASE")>> \in Seq(Message)
    BY PublishedMessages, ShortQueues
  <2>3. \A x : Contains(<<Signal("ERASE")>>, x) <=> x = "ERASE"
    BY ShortContains, MessageIds
  <2>4. NoIntervalBeforeSettings'
    BY <2>1, <2>2, <2>3, NoIntervalKept DEF IntervalInv
  <2>5. ReadBeforeDistributed'
    BY <2>1, <2>2, <2>3, ReadBeforeDistributedKept DEF IntervalInv
  <2>6. LastSaveIsCurrent' /\ IntervalIsSaved'
    BY <2>1 DEF LastSaveIsCurrent, IntervalIsSaved
  <2> QED
    BY <2>4, <2>5, <2>6 DEF IntervalInv
<1> QED
  BY <1>1, <1>2, <1>3, <1>4 DEF HandleSampleMessage

LEMMA IntervalSettings ==
  ASSUME TypeOK, IntervalInv, HandleSettingsMessage
  PROVE  IntervalInv'
<1>1. CASE PeripheralsInitialized
  <2>1. /\ Dispatch("PERIPHERALS_INITIALIZED", <<Signal("BEGIN_ENUMERATE")>>)
        /\ UNCHANGED <<settingsRead, bleReady, isLoggingIntervalChanged,
                       actualSettings, loggingInterval>>
    BY <1>1 DEF PeripheralsInitialized, sampleVars, settingsVars
  <2>2. <<Signal("BEGIN_ENUMERATE")>> \in Seq(Message)
    BY PublishedMessages, ShortQueues
  <2>3. \A x : Contains(<<Signal("BEGIN_ENUMERATE")>>, x) <=> x = "BEGIN_ENUMERATE"
    BY ShortContains, MessageIds
  <2> QED
    BY <2>1, <2>2, <2>3, IntervalQuiet
<1>2. CASE DistributeSettings
  <2>1. PICK last \in {<< >>, <<Signal("ERASE")>>} :
             Dispatch("BLE_SUBSYSTEM_READY", <<Signal("DEVICE_SETTINGS_READ")>> \o last)
    BY <1>2, Zenon DEF DistributeSettings
  <2> DEFINE more == <<Signal("DEVICE_SETTINGS_READ")>> \o last
  <2>2. /\ more \in Seq(Message)
        /\ \A x : Contains(more, x) => x = "DEVICE_SETTINGS_READ" \/ x = "ERASE"
        /\ Contains(more, "DEVICE_SETTINGS_READ")
    <3>1. /\ Signal("DEVICE_SETTINGS_READ") \in Message
          /\ Signal("ERASE") \in Message
      BY PublishedMessages
    <3>2. /\ <<Signal("DEVICE_SETTINGS_READ")>> \in Seq(Message)
          /\ \A x : Contains(<<Signal("DEVICE_SETTINGS_READ")>>, x)
                      <=> x = "DEVICE_SETTINGS_READ"
      BY <3>1, ShortQueues, ShortContains, MessageIds
    <3>3. last \in Seq(Message) /\ \A x : Contains(last, x) => x = "ERASE"
      <4>1. CASE last = << >>
        BY <4>1, ShortQueues, ShortContains
      <4>2. CASE last = <<Signal("ERASE")>>
        BY <3>1, <4>2, ShortQueues, ShortContains, MessageIds
      <4> QED
        BY <4>1, <4>2
    <3> QED
      BY <3>2, <3>3, JoinedContains
  <2>3. Dispatch("BLE_SUBSYSTEM_READY", more)
    BY <2>1
  <2> HIDE DEF more
  <2>4. UNCHANGED <<settingsRead, bleReady, isLoggingIntervalChanged,
                    actualSettings, loggingInterval>>
    BY <1>2 DEF DistributeSettings, sampleVars, settingsVars
  <2>5. NoIntervalBeforeSettings'
    BY <2>2, <2>3, <2>4, NoIntervalKept DEF IntervalInv
  <2>6. LastSaveIsCurrent'
    BY <2>2, <2>3, <2>4, LastSaveKept DEF IntervalInv
  <2>7. ReadBeforeDistributed'
    BY <2>2, <2>3, <2>4, ReadBeforeDistributedKept DEF IntervalInv
  <2>8. IsWaiting("DEVICE_SETTINGS_READ")'
    BY <2>2, <2>3, WaitingAfterDispatch
  <2> QED
    BY <2>5, <2>6, <2>7, <2>8 DEF IntervalInv, IntervalIsSaved
<1>3. CASE DeviceSettingsRead
  <2>1. /\ Dispatch("DEVICE_SETTINGS_READ", << >>) /\ << >> \in Seq(Message)
        /\ \A x : ~Contains(<< >>, x)
        /\ UNCHANGED <<bleReady, isLoggingIntervalChanged, actualSettings>>
        /\ loggingInterval' = actualSettings
    BY <1>3, ShortQueues, ShortContains DEF DeviceSettingsRead, settingsVars
  <2>2. NoIntervalBeforeSettings'
    BY <2>1, NoIntervalKept DEF IntervalInv
  <2>3. LastSaveIsCurrent'
    <3>1. ~IsWaiting("SAVE_LOGGING_INTERVAL")
      BY <2>1, WaitingAfterDispatch DEF IntervalInv, NoIntervalBeforeSettings
    <3>2. ~IsWaiting("SAVE_LOGGING_INTERVAL")'
      BY <2>1, <3>1, WaitingAfterDispatch
    <3> QED
      BY <3>2 DEF LastSaveIsCurrent, IsWaiting, At
  <2>4. ReadBeforeDistributed'
    BY <2>1, ReadBeforeDistributedKept DEF IntervalInv
  <2> QED
    BY <2>1, <2>2, <2>3, <2>4 DEF IntervalInv, IntervalIsSaved
<1>4. CASE SaveLoggingInterval
  <2>1. PICK more \in {<< >>, <<AddItemMessage("config")>>} :
             Dispatch("SAVE_LOGGING_INTERVAL", more)
    BY <1>4, Zenon DEF SaveLoggingInterval
  <2>2. more \in Seq(Message) /\ \A x : Contains(more, x) => x = "ADD_ITEM"
    BY <2>1, ItemOrNothing DEF Store
  <2>3. /\ UNCHANGED <<bleReady, isLoggingIntervalChanged, loggingInterval>>
        /\ actualSettings' = messages[1].interval
    BY <1>4, <2>1, <2>2, QueueAfterDispatch DEF SaveLoggingInterval, sampleVars
  <2>4. NoIntervalBeforeSettings'
    BY <2>1, <2>2, <2>3, NoIntervalKept DEF IntervalInv
  <2>5. LastSaveIsCurrent'
    BY <2>1, <2>2, <2>3, LastSaveKept DEF IntervalInv
  <2>6. ReadBeforeDistributed'
    BY <2>1, <2>2, <2>3, ReadBeforeDistributedKept DEF IntervalInv
  <2>7. ASSUME ~isLoggingIntervalChanged, actualSettings' # loggingInterval
        PROVE  \E i \in DOMAIN messages' : messages'[i] = SaveMessage(loggingInterval)
    <3>1. IsWaiting("SAVE_LOGGING_INTERVAL")
      BY <2>1, <2>2, WaitingAfterDispatch
    <3>2. PICK i \in At("SAVE_LOGGING_INTERVAL") :
               messages[i].interval = loggingInterval
      BY <2>7, <3>1 DEF IntervalInv, LastSaveIsCurrent
    <3>3. i # 1
      BY <2>3, <2>7, <3>2
    <3>4. messages[i] = SaveMessage(loggingInterval)
      BY <3>2, MessageIds DEF At, TypeOK
    <3> QED
      BY <2>1, <2>2, <3>2, <3>3, <3>4, QueueAfterDispatch DEF At
  <2> QED
    BY <2>3, <2>4, <2>5, <2>6, <2>7 DEF IntervalInv, IntervalIsSaved
<1> QED
  BY <1>1, <1>2, <1>3, <1>4 DEF HandleSettingsMessage

LEMMA IntervalRequest ==
  ASSUME TypeOK, IntervalInv, Request
  PROVE  IntervalInv'
<1>0. ASSUME NEW m \in Message, Publish(m),
             m.id \notin {"PERIPHERALS_INITIALIZED", "BEGIN_ENUMERATE",
                          "SAVE_LOGGING_INTERVAL", "DEVICE_SETTINGS_READ"}
      PROVE  /\ \A x : IsWaiting(x)' <=> IsWaiting(x) \/ m.id = x
             /\ \A x : x # m.id => At(x)' = At(x)
             /\ \A x : At(x) \subseteq At(x)'
             /\ \A i \in DOMAIN messages :
                  i \in DOMAIN messages' /\ messages'[i] = messages[i]
             /\ LastSaveIsCurrent'
             /\ UNCHANGED <<settingsRead, isLoggingIntervalChanged,
                            actualSettings, loggingInterval>>
  <2>1. messages' = Append(messages, m)
    BY <1>0 DEF Publish
  <2>2. UNCHANGED <<settingsRead, isLoggingIntervalChanged,
                    actualSettings, loggingInterval>>
    BY <1>0 DEF Publish, sampleVars, settingsVars
  <2>3. \A x : x # m.id => At(x)' = At(x)
    <3>1. ASSUME NEW x, x # m.id PROVE At(x)' = At(x)
      BY <2>1, <3>1, QueueAfterAppend DEF At
    <3> QED
      BY <3>1
  <2>4. \A x : IsWaiting(x)' <=> IsWaiting(x) \/ m.id = x
    <3>1. ASSUME NEW x PROVE IsWaiting(x)' <=> IsWaiting(x) \/ m.id = x
      BY <2>1, WaitingAfterAppend
    <3> QED
      BY <3>1
  <2>5. \A i \in DOMAIN messages : i \in DOMAIN messages' /\ messages'[i] = messages[i]
    BY <2>1, QueueAfterAppend
  <2>6. \A x : At(x) \subseteq At(x)'
    BY <2>5 DEF At
  <2>7. LastSaveIsCurrent'
    <3>1. m.id # "SAVE_LOGGING_INTERVAL"
      BY <1>0
    <3>2. At("SAVE_LOGGING_INTERVAL")' = At("SAVE_LOGGING_INTERVAL")
      BY <2>3, <3>1
    <3>3. IsWaiting("SAVE_LOGGING_INTERVAL")' <=> IsWaiting("SAVE_LOGGING_INTERVAL")
      BY <2>4, <3>1
    <3>4. \A i \in At("SAVE_LOGGING_INTERVAL") : messages'[i] = messages[i]
      BY <2>5 DEF At
    <3> QED
      BY <2>2, <3>2, <3>3, <3>4 DEF IntervalInv, LastSaveIsCurrent
  <2> QED
    BY <2>2, <2>3, <2>4, <2>5, <2>6, <2>7
<1>1. ASSUME NEW powerOn \in BOOLEAN, BleSubsystemReady(powerOn)
      PROVE  IntervalInv'
  <2> DEFINE m == [id |-> "BLE_SUBSYSTEM_READY", powerOn |-> powerOn]
  <2>1. m \in Message /\ m.id = "BLE_SUBSYSTEM_READY"
    BY DEF Message
  <2>2. Publish(m) /\ ~bleReady /\ bleReady' = TRUE
    BY <1>1 DEF BleSubsystemReady
  <2> HIDE DEF m
  <2>3. messages' = Append(messages, m)
    BY <2>2 DEF Publish
  <2>4. NoIntervalBeforeSettings'
    BY <1>0, <2>1, <2>2 DEF IntervalInv, NoIntervalBeforeSettings
  <2>5. IsWaiting("BLE_SUBSYSTEM_READY")'
    BY <1>0, <2>1, <2>2
  <2>6. ReadBeforeDistributed'
    <3>1. Len(messages) + 1 \in At("BLE_SUBSYSTEM_READY")'
      BY <2>1, <2>3, QueueAfterAppend DEF At
    <3>2. At("PERIPHERALS_INITIALIZED")' = At("PERIPHERALS_INITIALIZED")
      BY <1>0, <2>1, <2>2
    <3>3. \A i \in At("PERIPHERALS_INITIALIZED") : Len(messages) + 1 > i
      BY <2>1, <2>3, QueueAfterAppend DEF At
    <3> QED
      BY <2>5, <3>1, <3>2, <3>3 DEF ReadBeforeDistributed
  <2>7. LastSaveIsCurrent'
    BY <1>0, <2>1, <2>2
  <2> QED
    BY <2>4, <2>5, <2>6, <2>7 DEF IntervalInv, IntervalIsSaved
<1>2. ASSUME NEW m \in Message, Publish(m), UNCHANGED bleReady,
             \/ m.id = "TIME_ELAPSED"
             \/ /\ m.id = "SET_LOGGING_INTERVAL" /\ bleReady
                /\ ~IsWaiting("BLE_SUBSYSTEM_READY")
                /\ ~IsWaiting("DEVICE_SETTINGS_READ")
      PROVE  IntervalInv'
  <2>1. NoIntervalBeforeSettings'
    BY <1>0, <1>2 DEF IntervalInv, NoIntervalBeforeSettings
  <2>2. ReadBeforeDistributed'
    BY <1>0, <1>2 DEF IntervalInv, ReadBeforeDistributed
  <2>3. LastSaveIsCurrent'
    BY <1>0, <1>2
  <2>4. IntervalIsSaved'
    BY <1>0, <1>2 DEF IntervalInv, IntervalIsSaved
  <2> QED
    BY <2>1, <2>2, <2>3, <2>4 DEF IntervalInv
<1>3. ASSUME NEW i \in Interval, RequestSetLoggingInterval(i)
      PROVE  IntervalInv'
  <2>1. [id |-> "SET_LOGGING_INTERVAL", interval |-> i] \in Message
    BY DEF Message
  <2> QED
    BY <1>2, <1>3, <2>1 DEF RequestSetLoggingInterval, BleRequest
<1>4. ASSUME NEW pair \in BOOLEAN, TimeTick(pair)
      PROVE  IntervalInv'
  <2>1. [id |-> "TIME_ELAPSED", pair |-> pair] \in Message
    BY DEF Message
  <2> QED
    BY <1>2, <1>4, <2>1 DEF TimeTick
<1> QED
  BY <1>1, <1>3, <1>4 DEF Request

LEMMA IntervalFlash ==
  ASSUME TypeOK, IntervalInv, StartErase \/ FlashEraseDone \/ UNCHANGED vars
  PROVE  IntervalInv'
<1>1. CASE StartErase \/ UNCHANGED vars
  <2>1. UNCHANGED <<messages, settingsRead, bleReady, isLoggingIntervalChanged,
                    actualSettings, loggingInterval>>
    BY <1>1 DEF StartErase, vars, sampleVars, settingsVars
  <2> QED
    BY <2>1 DEF IntervalInv, NoIntervalBeforeSettings, LastSaveIsCurrent,
                ReadBeforeDistributed, IntervalIsSaved, IsWaiting, At
<1>2. CASE FlashEraseDone
  <2>1. /\ messages' = Append(messages, Signal("ERASE_DONE"))
        /\ UNCHANGED <<settingsRead, bleReady, isLoggingIntervalChanged,
                       actualSettings, loggingInterval>>
    BY <1>2 DEF FlashEraseDone, sampleVars, settingsVars
  <2>2. Signal("ERASE_DONE") \in Message /\ Signal("ERASE_DONE").id = "ERASE_DONE"
    BY PublishedMessages
  <2>3. \A i \in DOMAIN messages : i \in DOMAIN messages' /\ messages'[i] = messages[i]
    BY <2>1, <2>2, QueueAfterAppend
  <2>4. ASSUME NEW x \in {"BLE_SUBSYSTEM_READY", "DEVICE_SETTINGS_READ",
                          "SET_LOGGING_INTERVAL", "SAVE_LOGGING_INTERVAL",
                          "PERIPHERALS_INITIALIZED", "BEGIN_ENUMERATE"}
        PROVE  /\ IsWaiting(x)' <=> IsWaiting(x)
               /\ At(x)' = At(x)
    <3>1. IsWaiting(x)' <=> IsWaiting(x)
      BY <2>1, <2>2, WaitingAfterAppend
    <3>2. At(x)' = At(x)
      BY <2>1, <2>2, QueueAfterAppend DEF At
    <3> QED
      BY <3>1, <3>2
  <2>5. NoIntervalBeforeSettings'
    BY <2>1, <2>4 DEF IntervalInv, NoIntervalBeforeSettings
  <2>6. ReadBeforeDistributed'
    BY <2>1, <2>4 DEF IntervalInv, ReadBeforeDistributed
  <2>7. LastSaveIsCurrent'
    <3>1. \A i \in At("SAVE_LOGGING_INTERVAL") : messages'[i] = messages[i]
      BY <2>3 DEF At
    <3> QED
      BY <2>1, <2>4, <3>1 DEF IntervalInv, LastSaveIsCurrent
  <2>8. IntervalIsSaved'
    BY <2>1, <2>3, <2>4 DEF IntervalInv, IntervalIsSaved
  <2> QED
    BY <2>5, <2>6, <2>7, <2>8 DEF IntervalInv
<1> QED
  BY <1>1, <1>2

\* The queue at the start of the program.
LEMMA WaitingAtStart ==
  ASSUME messages = <<Signal("PERIPHERALS_INITIALIZED")>>, NEW x
  PROVE  IsWaiting(x) <=> x = "PERIPHERALS_INITIALIZED"
<1>1. Signal("PERIPHERALS_INITIALIZED").id = "PERIPHERALS_INITIALIZED"
  BY MessageIds
<1> QED
  BY <1>1 DEF IsWaiting

LEMMA IntervalInit == Init => IntervalInv
<1> SUFFICES ASSUME Init
             PROVE  IntervalInv
  OBVIOUS
<1>1. \A x : IsWaiting(x) <=> x = "PERIPHERALS_INITIALIZED"
  BY WaitingAtStart DEF Init
<1>2. ~bleReady /\ ~isLoggingIntervalChanged
  BY DEF Init
<1> QED
  BY <1>1, <1>2 DEF IntervalInv, NoIntervalBeforeSettings, LastSaveIsCurrent,
                    ReadBeforeDistributed, IntervalIsSaved

LEMMA IntervalReset == Reset => IntervalInv'
<1> SUFFICES ASSUME Reset
             PROVE  IntervalInv'
  OBVIOUS
<1>1. /\ messages' = <<Signal("PERIPHERALS_INITIALIZED")>>
      /\ ~bleReady' /\ ~isLoggingIntervalChanged'
  BY DEF Reset, Boot
<1>2. Signal("PERIPHERALS_INITIALIZED").id = "PERIPHERALS_INITIALIZED"
  BY MessageIds
<1>3. \A x : IsWaiting(x)' <=> x = "PERIPHERALS_INITIALIZED"
  BY <1>1, <1>2 DEF IsWaiting
<1> QED
  BY <1>1, <1>3 DEF IntervalInv, NoIntervalBeforeSettings, LastSaveIsCurrent,
                    ReadBeforeDistributed, IntervalIsSaved

LEMMA IntervalStep == IInv /\ IntervalInv /\ [Next]_vars => IntervalInv'
<1> SUFFICES ASSUME TypeOK, IntervalInv, [Next]_vars
             PROVE  IntervalInv'
  BY DEF IInv
<1>1. CASE Request
  BY <1>1, IntervalRequest
<1>2. CASE HandleItemStoreMessage
  BY <1>2, IntervalItemStore
<1>3. CASE HandleSampleMessage
  BY <1>3, IntervalSamples
<1>4. CASE HandleSettingsMessage
  BY <1>4, IntervalSettings
<1>5. CASE StartErase \/ FlashEraseDone \/ UNCHANGED vars
  BY <1>5, IntervalFlash
<1>6. CASE Reset
  BY <1>6, IntervalReset
<1> QED
  BY <1>1, <1>2, <1>3, <1>4, <1>5, <1>6 DEF Next, HandleMessage

(***************************************************************************)
(* However a phone sets the interval while samples are deleted or settings *)
(* are saved, the interval that MeasurementItemController.c uses is the    *)
(* one of SettingsController.c, or is about to be saved there.             *)
(***************************************************************************)
THEOREM IntervalReachesSettings == Spec => []IntervalIsSaved
<1>1. IntervalInv => IntervalIsSaved
  BY DEF IntervalInv
<1>2. Init => IntervalInv
  BY IntervalInit
<1>3. IInv /\ IntervalInv /\ [Next]_vars => IntervalInv'
  BY IntervalStep
<1>4. Spec => []IInv
  BY Inductive
<1> QED
  BY <1>1, <1>2, <1>3, <1>4, PTL DEF Spec

-----------------------------------------------------------------------------
(* The settings in flash.                                                  *)

\* A message other than the ADD_ITEM of the settings is handled.
LEMMA PersistentKept ==
  ASSUME TypeOK, SettingsArePersistent,
         NEW id, NEW more \in Seq(Message), Dispatch(id, more),
         Head(messages) # AddItemMessage("config"),
         UNCHANGED <<settingsRead, storedSettings, actualSettings, saveLost>>
  PROVE  SettingsArePersistent'
<1>1. (\E i \in DOMAIN messages : messages[i] = AddItemMessage("config"))
        => \E i \in DOMAIN messages' : messages'[i] = AddItemMessage("config")
  BY QueueAfterDispatch
<1> QED
  BY <1>1 DEF SettingsArePersistent

LEMMA ConfigMessage ==
  /\ \A m : m.id # "ADD_ITEM" => m # AddItemMessage("config")
  /\ \A m : m.store = "samples" => m # AddItemMessage("config")
BY DEF AddItemMessage

LEMMA PersistentItems ==
  ASSUME TypeOK, SettingsArePersistent, NEW store \in Store,
         \/ AddItem(store) \/ AddItemWithPageWrap(store) \/ LoseItem(store)
         \/ FailToAddItem
  PROVE  SettingsArePersistent'
<1>1. Dispatch("ADD_ITEM", << >>) /\ UNCHANGED <<settingsRead, actualSettings>>
  BY DEF AddItem, AddItemWithPageWrap, LoseItem, FailToAddItem, settingsVars
<1>2. CASE AddItem(store) \/ AddItemWithPageWrap(store)
  <2>1. Written(store) /\ Head(messages).store = store
    BY <1>2 DEF AddItem, AddItemWithPageWrap
  <2>2. CASE store = "config"
    BY <1>1, <2>1, <2>2 DEF Written, SettingsArePersistent
  <2>3. CASE store # "config"
    <3>1. Head(messages) # AddItemMessage("config")
      BY <2>1, <2>3, ConfigMessage DEF Store
    <3>2. storedSettings' = storedSettings
      BY <2>1, <2>3 DEF Written
    <3>3. saveLost' = saveLost
      <4>1. saveLost' = (saveLost /\ store # "config") /\ saveLost \in BOOLEAN
        BY <2>1 DEF Written, TypeOK
      <4> QED
        BY <2>3, <4>1
    <3> QED
      BY <1>1, <3>1, <3>2, <3>3, ShortQueues, PersistentKept
  <2> QED
    BY <2>2, <2>3
<1>3. CASE LoseItem(store)
  <2>1. Head(messages).store = store /\ storedSettings' = storedSettings
    BY <1>3 DEF LoseItem, flashVars
  <2>2. saveLost' = (saveLost \/ store = "config") /\ saveLost \in BOOLEAN
    BY <1>3 DEF LoseItem, TypeOK
  <2>3. CASE store = "config"
    BY <2>2, <2>3 DEF SettingsArePersistent
  <2>4. CASE store # "config"
    <3>1. Head(messages) # AddItemMessage("config")
      BY <2>1, <2>4, ConfigMessage DEF Store
    <3>2. saveLost' = saveLost
      BY <2>2, <2>4
    <3> QED
      BY <1>1, <2>1, <3>1, <3>2, ShortQueues, PersistentKept
  <2> QED
    BY <2>3, <2>4
<1>4. CASE FailToAddItem
  <2>1. Head(messages) # AddItemMessage("config")
    BY <1>4, ConfigMessage DEF FailToAddItem
  <2>2. UNCHANGED <<storedSettings, saveLost>>
    BY <1>4 DEF FailToAddItem, flashVars
  <2> QED
    BY <1>1, <2>1, <2>2, ShortQueues, PersistentKept
<1> QED
  BY <1>2, <1>3, <1>4

LEMMA PersistentItemStore ==
  ASSUME TypeOK, SettingsArePersistent, HandleItemStoreMessage
  PROVE  SettingsArePersistent'
<1>1. CASE \/ FailToAddItem
           \/ \E store \in Store : \/ AddItem(store)
                                   \/ AddItemWithPageWrap(store)
                                   \/ LoseItem(store)
  BY <1>1, PersistentItems DEF Store
<1>2. CASE InitializeSettings
  <2>1. /\ actualSettings' = IF storedSettings = NoItem THEN Default
                                                       ELSE storedSettings
        /\ storedSettings' = storedSettings
    BY <1>2 DEF InitializeSettings, flashVars
  <2> QED
    BY <2>1 DEF SettingsArePersistent
<1>3. CASE \/ IgnoreBeginEnumerate \/ BeginErase \/ RemindErase
           \/ EraseDone \/ EraseReminded
  <2>1. UNCHANGED <<settingsRead, storedSettings, actualSettings, saveLost>>
    BY <1>3 DEF IgnoreBeginEnumerate, BeginErase, RemindErase, EraseDone,
                EraseReminded, flashVars, settingsVars
  <2>2. PICK id \in {"BEGIN_ENUMERATE", "ERASE", "ERASE_DONE"},
             more \in {<< >>, Deferred} : Dispatch(id, more)
    BY <1>3 DEF IgnoreBeginEnumerate, BeginErase, RemindErase, EraseDone,
                EraseReminded
  <2>3. more \in Seq(Message)
    BY ShortQueues, DeferredType
  <2>4. Head(messages) # AddItemMessage("config")
    <3>1. Head(messages).id = id
      BY <2>2 DEF Dispatch, IsNext
    <3> QED
      BY <3>1, ConfigMessage
  <2> QED
    BY <2>1, <2>2, <2>3, <2>4, PersistentKept
<1> QED
  BY <1>1, <1>2, <1>3 DEF HandleItemStoreMessage

LEMMA PersistentSamples ==
  ASSUME TypeOK, SettingsArePersistent, HandleSampleMessage
  PROVE  SettingsArePersistent'
<1>1. UNCHANGED <<settingsRead, storedSettings, actualSettings, saveLost>>
  BY DEF HandleSampleMessage, EvalTimeEvent, KeepLoggingInterval,
         SetLoggingInterval, SetLoggingIntervalAndDelete, flashVars, settingsVars
<1>2. PICK id \in {"TIME_ELAPSED", "SET_LOGGING_INTERVAL"}, more \in Seq(Message) :
           Dispatch(id, more)
  <2>1. /\ << >> \in Seq(Message) /\ <<AddItemMessage("samples")>> \in Seq(Message)
        /\ \A i \in Interval : <<SaveMessage(i)>> \in Seq(Message)
        /\ <<Signal("ERASE")>> \in Seq(Message)
    BY PublishedMessages, ShortQueues DEF Store, Settings
  <2>2. ASSUME NEW pair \in BOOLEAN, EvalTimeEvent(pair)
        PROVE  \E more \in Seq(Message) : Dispatch("TIME_ELAPSED", more)
    <3>1. PICK more \in {<< >>, <<AddItemMessage("samples")>>} :
               Dispatch("TIME_ELAPSED", more)
      BY <2>2, Zenon DEF EvalTimeEvent
    <3> QED
      BY <2>1, <3>1
  <2>3. ASSUME ~ \E pair \in BOOLEAN : EvalTimeEvent(pair)
        PROVE  \E more \in Seq(Message) : Dispatch("SET_LOGGING_INTERVAL", more)
    BY <2>1, <2>3 DEF HandleSampleMessage, KeepLoggingInterval,
                      SetLoggingInterval, SetLoggingIntervalAndDelete
  <2> QED
    BY <2>2, <2>3
<1>3. Head(messages) # AddItemMessage("config")
  <2>1. Head(messages).id = id
    BY <1>2 DEF Dispatch, IsNext
  <2> QED
    BY <2>1, ConfigMessage
<1> QED
  BY <1>1, <1>2, <1>3, PersistentKept

LEMMA PersistentSettings ==
  ASSUME TypeOK, SettingsArePersistent, HandleSettingsMessage
  PROVE  SettingsArePersistent'
<1>1. CASE PeripheralsInitialized \/ DistributeSettings \/ DeviceSettingsRead
  <2>1. UNCHANGED <<settingsRead, storedSettings, actualSettings, saveLost>>
    BY <1>1 DEF PeripheralsInitialized, DistributeSettings, DeviceSettingsRead,
                flashVars, settingsVars
  <2>2. /\ << >> \in Seq(Message)
        /\ \A x \in {"BEGIN_ENUMERATE", "DEVICE_SETTINGS_READ", "ERASE"} :
             <<Signal(x)>> \in Seq(Message)
    BY PublishedMessages, ShortQueues
  <2>3. PICK id \in {"PERIPHERALS_INITIALIZED", "BLE_SUBSYSTEM_READY",
                     "DEVICE_SETTINGS_READ"}, more \in Seq(Message) :
             Dispatch(id, more)
    <3>1. CASE PeripheralsInitialized \/ DeviceSettingsRead
      BY <2>2, <3>1 DEF PeripheralsInitialized, DeviceSettingsRead
    <3>2. CASE DistributeSettings
      <4>1. PICK last \in {<< >>, <<Signal("ERASE")>>} :
                 Dispatch("BLE_SUBSYSTEM_READY",
                          <<Signal("DEVICE_SETTINGS_READ")>> \o last)
        BY <3>2, Zenon DEF DistributeSettings
      <4>2. last \in Seq(Message)
        BY <2>2, <4>1
      <4>3. <<Signal("DEVICE_SETTINGS_READ")>> \o last \in Seq(Message)
        BY <2>2, <4>2, JoinedContains
      <4> QED
        BY <4>1, <4>3
    <3> QED
      BY <1>1, <3>1, <3>2
  <2>4. Head(messages) # AddItemMessage("config")
    <3>1. Head(messages).id = id
      BY <2>3 DEF Dispatch, IsNext
    <3> QED
      BY <3>1, ConfigMessage
  <2> QED
    BY <2>1, <2>3, <2>4, PersistentKept
<1>2. CASE SaveLoggingInterval
  <2>1. /\ Dispatch("SAVE_LOGGING_INTERVAL",
                    IF Head(messages).interval = actualSettings
                      THEN << >> ELSE <<AddItemMessage("config")>>)
        /\ actualSettings' = Head(messages).interval
        /\ UNCHANGED <<settingsRead, storedSettings, saveLost>>
    BY <1>2 DEF SaveLoggingInterval, flashVars
  <2>2. CASE Head(messages).interval = actualSettings
    <3>1. Dispatch("SAVE_LOGGING_INTERVAL", << >>) /\ << >> \in Seq(Message)
      BY <2>1, <2>2, ShortQueues
    <3>2. Head(messages) # AddItemMessage("config")
      BY <3>1, ConfigMessage DEF Dispatch, IsNext
    <3> QED
      BY <2>1, <2>2, <3>1, <3>2, PersistentKept
  <2>3. CASE Head(messages).interval # actualSettings
    <3> DEFINE more == <<AddItemMessage("config")>>
    <3>1. /\ Dispatch("SAVE_LOGGING_INTERVAL", more)
          /\ more \in Seq(Message)
          /\ 1 \in DOMAIN more /\ more[1] = AddItemMessage("config")
      BY <2>1, <2>3, PublishedMessages, ShortQueues DEF Store
    <3> HIDE DEF more
    <3>2. \E i \in DOMAIN messages' : messages'[i] = AddItemMessage("config")
      BY <3>1, QueueAfterDispatch
    <3> QED
      BY <3>2 DEF SettingsArePersistent
  <2> QED
    BY <2>2, <2>3
<1> QED
  BY <1>1, <1>2 DEF HandleSettingsMessage

\* Requests and the flash only append messages.
LEMMA PersistentAppend ==
  ASSUME TypeOK, SettingsArePersistent, Request \/ StartErase \/ FlashEraseDone
  PROVE  SettingsArePersistent'
<1>1. UNCHANGED <<settingsRead, storedSettings, actualSettings, saveLost>>
  BY DEF Request, BleSubsystemReady, RequestSetLoggingInterval, BleRequest, TimeTick,
         Publish, StartErase, FlashEraseDone, flashVars, settingsVars
<1>2. messages' = messages \/ \E m \in Message : messages' = Append(messages, m)
  <2>1. /\ \A powerOn \in BOOLEAN :
             [id |-> "BLE_SUBSYSTEM_READY", powerOn |-> powerOn] \in Message
        /\ \A i \in Interval :
             [id |-> "SET_LOGGING_INTERVAL", interval |-> i] \in Message
        /\ \A pair \in BOOLEAN : [id |-> "TIME_ELAPSED", pair |-> pair] \in Message
    BY DEF Message
  <2>2. Signal("ERASE_DONE") \in Message
    BY PublishedMessages
  <2> QED
    BY <2>1, <2>2
       DEF Request, BleSubsystemReady, RequestSetLoggingInterval, BleRequest,
           TimeTick, Publish, StartErase, FlashEraseDone
<1>3. \A i \in DOMAIN messages : i \in DOMAIN messages' /\ messages'[i] = messages[i]
  BY <1>2, QueueAfterAppend
<1> QED
  BY <1>1, <1>3 DEF SettingsArePersistent

LEMMA PersistentStep ==
  IInv /\ SettingsArePersistent /\ [Next]_vars => SettingsArePersistent'
<1> SUFFICES ASSUME TypeOK, SettingsArePersistent, [Next]_vars
             PROVE  SettingsArePersistent'
  BY DEF IInv
<1>1. CASE Request \/ StartErase \/ FlashEraseDone
  BY <1>1, PersistentAppend
<1>2. CASE HandleItemStoreMessage
  BY <1>2, PersistentItemStore
<1>3. CASE HandleSampleMessage
  BY <1>3, PersistentSamples
<1>4. CASE HandleSettingsMessage
  BY <1>4, PersistentSettings
<1>5. CASE Reset
  BY <1>5 DEF Reset, Boot, SettingsArePersistent
<1>6. CASE UNCHANGED vars
  BY <1>6 DEF vars, flashVars, settingsVars, SettingsArePersistent
<1> QED
  BY <1>1, <1>2, <1>3, <1>4, <1>5, <1>6 DEF Next, HandleMessage

(***************************************************************************)
(* In every interleaving with samples, page wraps, deletions and resets    *)
(* the settings in flash are the ones in use, or an ADD_ITEM will write    *)
(* them, unless the item store dropped the last one during an erase.       *)
(***************************************************************************)
THEOREM SettingsReachFlash == Spec => []SettingsArePersistent
<1>1. Init => SettingsArePersistent
  BY DEF Init, SettingsArePersistent
<1>2. IInv /\ SettingsArePersistent /\ [Next]_vars => SettingsArePersistent'
  BY PersistentStep
<1>3. Spec => []IInv
  BY Inductive
<1> QED
  BY <1>1, <1>2, <1>3, PTL DEF Spec

-----------------------------------------------------------------------------
(* Pairs of samples.                                                       *)

Pairs == {i \in At("TIME_ELAPSED") : messages[i].pair}
Items == {i \in At("ADD_ITEM") : messages[i].store = "samples"}

\* The Bluetooth stack is started once.
ReadyOnce ==
  /\ IsWaiting("BLE_SUBSYSTEM_READY") => bleReady
  /\ \A i, j \in At("BLE_SUBSYSTEM_READY") : i = j

\* Before it was, nothing is deleted and no pair is kept back.
NoPairBeforeReady ==
  ~bleReady \/ IsWaiting("BLE_SUBSYSTEM_READY") =>
    ~isSampleReady /\ isAddItemPossible /\ ~IsWaiting("ERASE")

\* Pairs come before the requests that delete samples.
PairBeforeErase ==
  /\ isSampleReady \/ Pairs # {} => ~IsWaiting("ERASE")
  /\ \A k \in Pairs :
       \A i \in At("SET_LOGGING_INTERVAL") \cup At("BLE_SUBSYSTEM_READY") : k < i

ItemBeforeErase == \A k \in Items, i \in At("ERASE") : k < i

ErasesAreCounted ==
  /\ isAddItemPossible <=> nrOfPendingErase = 0
  /\ eraseReminder => listener = "Erasing"

(***************************************************************************)
(* While samples are deleted, and no page wrap came before, the controller *)
(* has counted this deletion and the one that is remembered, and so has    *)
(* offered no pair.                                                        *)
(***************************************************************************)
DeletionIsCounted ==
  listener = "Erasing" /\ eraseParameters.reinit /\ ~afterPageWrap =>
    /\ nrOfPendingErase > IF eraseReminder THEN 1 ELSE 0
    /\ Items = {}

OrderInv ==
  ReadyOnce /\ NoPairBeforeReady /\ PairBeforeErase /\ ItemBeforeErase

PairInv == OrderInv /\ ErasesAreCounted /\ DeletionIsCounted

HasPair(more) ==
  \E j \in DOMAIN more : more[j].id = "ADD_ITEM" /\ more[j].store = "samples"

LEMMA ItemsAfterDispatch ==
  ASSUME TypeOK, NEW id, NEW more \in Seq(Message), Dispatch(id, more),
         Items = {}, ~HasPair(more)
  PROVE  Items' = {}
BY QueueAfterDispatch DEF Items, At, HasPair

\* A deletion follows all pairs.
LEMMA NoItemAfterErase ==
  ASSUME TypeOK, ItemBeforeErase, NEW more \in Seq(Message), Dispatch("ERASE", more)
  PROVE  Items = {}
<1>1. 1 \in At("ERASE")
  BY QueueAfterDispatch DEF At
<1>2. \A k \in Items : k \in Nat \ {0}
  <2>1. messages \in Seq(Message)
    BY DEF TypeOK
  <2> QED
    BY <2>1 DEF Items, At
<1> QED
  BY <1>1, <1>2 DEF ItemBeforeErase

\* What a handler may do without upsetting the order in the queue.
LEMMA OrderKept ==
  ASSUME TypeOK, NoIntervalBeforeSettings, OrderInv,
         NEW id, NEW more \in Seq(Message), Dispatch(id, more), UNCHANGED bleReady,
         \A x \in {"TIME_ELAPSED", "SET_LOGGING_INTERVAL", "BLE_SUBSYSTEM_READY"} :
           ~Contains(more, x),
         Contains(more, "ERASE") =>
           /\ id = "SET_LOGGING_INTERVAL" \/ id = "BLE_SUBSYSTEM_READY"
           /\ ~isSampleReady'
           /\ ~HasPair(more),
         HasPair(more) => ~IsWaiting("ERASE"),
         isSampleReady' => isSampleReady \/ 1 \in Pairs,
         isAddItemPossible /\ ~isSampleReady /\ id # "ERASE"
           => isAddItemPossible' /\ ~isSampleReady'
  PROVE  OrderInv'
<1> DEFINE n == Len(messages) - 1
<1>1. n \in Nat /\ 1 \in At(id)
  BY QueueAfterDispatch DEF At
<1>2. ASSUME NEW x, NEW i \in At(x)'
      PROVE  \/ i \in 1 .. n /\ i + 1 \in At(x)
             \/ i \in Nat /\ i > n /\ Contains(more, x)
  BY QueueAfterDispatch DEF At, Contains
<1>3. ASSUME NEW k \in Pairs'
      PROVE  k \in 1 .. n /\ k + 1 \in Pairs
  BY QueueAfterDispatch DEF Pairs, At, Contains
<1>4. ASSUME NEW k \in Items'
      PROVE  \/ k \in 1 .. n /\ k + 1 \in Items
             \/ HasPair(more)
  BY QueueAfterDispatch DEF Items, At, HasPair
<1>5. /\ IsWaiting("ERASE")' => IsWaiting("ERASE") \/ Contains(more, "ERASE")
      /\ IsWaiting("BLE_SUBSYSTEM_READY")' => IsWaiting("BLE_SUBSYSTEM_READY")
      /\ IsWaiting(id)
  BY WaitingAfterDispatch
<1> HIDE DEF n
<1>6. ReadyOnce'
  <2>1. ASSUME NEW i \in At("BLE_SUBSYSTEM_READY")', NEW j \in At("BLE_SUBSYSTEM_READY")'
        PROVE  i = j
    <3>1. /\ i \in 1 .. n /\ i + 1 \in At("BLE_SUBSYSTEM_READY")
          /\ j \in 1 .. n /\ j + 1 \in At("BLE_SUBSYSTEM_READY")
      BY <1>2
    <3>2. i + 1 = j + 1
      BY <3>1 DEF OrderInv, ReadyOnce
    <3> QED
      BY <1>1, <3>1, <3>2
  <2> QED
    BY <1>5, <2>1 DEF OrderInv, ReadyOnce
<1>7. id = "BLE_SUBSYSTEM_READY" => bleReady /\ ~IsWaiting("BLE_SUBSYSTEM_READY")'
  <2>1. SUFFICES ASSUME id = "BLE_SUBSYSTEM_READY", NEW i \in At("BLE_SUBSYSTEM_READY")'
                 PROVE  FALSE
    BY <1>5 DEF OrderInv, ReadyOnce, IsWaiting, At
  <2>2. i \in 1 .. n /\ i + 1 \in At("BLE_SUBSYSTEM_READY")
    BY <1>2
  <2>3. i + 1 = 1
    BY <1>1, <2>1, <2>2 DEF OrderInv, ReadyOnce
  <2> QED
    BY <1>1, <2>2, <2>3
<1>8. NoPairBeforeReady'
  <2>1. SUFFICES ASSUME ~bleReady \/ IsWaiting("BLE_SUBSYSTEM_READY")'
                 PROVE  /\ ~isSampleReady' /\ isAddItemPossible'
                        /\ ~IsWaiting("ERASE")'
    BY DEF NoPairBeforeReady
  <2>2. ~bleReady \/ IsWaiting("BLE_SUBSYSTEM_READY")
    BY <1>5, <2>1
  <2>3. /\ ~isSampleReady /\ isAddItemPossible /\ ~IsWaiting("ERASE")
        /\ ~IsWaiting("SET_LOGGING_INTERVAL")
    BY <2>2 DEF OrderInv, NoPairBeforeReady, NoIntervalBeforeSettings
  <2>4. id # "ERASE" /\ id # "SET_LOGGING_INTERVAL" /\ id # "BLE_SUBSYSTEM_READY"
    BY <1>5, <1>7, <2>1, <2>3
  <2> QED
    BY <1>5, <2>3, <2>4
<1>9. Contains(more, "ERASE") => Pairs' = {}
  <2>1. SUFFICES ASSUME Contains(more, "ERASE"), NEW k \in Pairs'
                 PROVE  FALSE
    OBVIOUS
  <2>2. k \in 1 .. n /\ k + 1 \in Pairs
    BY <1>3
  <2>3. k + 1 < 1
    BY <1>1, <2>1, <2>2 DEF OrderInv, PairBeforeErase
  <2> QED
    BY <1>1, <2>2, <2>3
<1>10. PairBeforeErase'
  <2>1. isSampleReady' \/ Pairs' # {} => ~IsWaiting("ERASE")'
    <3>1. CASE Contains(more, "ERASE")
      BY <1>9, <3>1
    <3>2. CASE ~Contains(more, "ERASE")
      <4>1. isSampleReady' \/ Pairs' # {} => isSampleReady \/ Pairs # {}
        BY <1>3
      <4> QED
        BY <1>5, <3>2, <4>1 DEF OrderInv, PairBeforeErase
    <3> QED
      BY <3>1, <3>2
  <2>2. ASSUME NEW k \in Pairs',
               NEW i \in At("SET_LOGGING_INTERVAL")' \cup At("BLE_SUBSYSTEM_READY")'
        PROVE  k < i
    <3>1. k \in 1 .. n /\ k + 1 \in Pairs
      BY <1>3
    <3>2. /\ i \in 1 .. n
          /\ i + 1 \in At("SET_LOGGING_INTERVAL") \cup At("BLE_SUBSYSTEM_READY")
      BY <1>2
    <3>3. k + 1 < i + 1
      BY <3>1, <3>2 DEF OrderInv, PairBeforeErase
    <3> QED
      BY <1>1, <3>1, <3>2, <3>3
  <2> QED
    BY <2>1, <2>2 DEF PairBeforeErase
<1>11. ItemBeforeErase'
  <2>1. SUFFICES ASSUME NEW k \in Items', NEW i \in At("ERASE")'
                 PROVE  k < i
    BY DEF ItemBeforeErase
  <2>2. IsWaiting("ERASE")'
    BY DEF IsWaiting, At
  <2>3. ~HasPair(more)
    BY <1>5, <2>2
  <2>4. k \in 1 .. n /\ k + 1 \in Items
    BY <1>4, <2>3
  <2>5. CASE i \in 1 .. n /\ i + 1 \in At("ERASE")
    <3>1. k + 1 < i + 1
      BY <2>4, <2>5 DEF OrderInv, ItemBeforeErase
    <3> QED
      BY <1>1, <2>4, <2>5, <3>1
  <2>6. CASE i \in Nat /\ i > n
    BY <1>1, <2>4, <2>6
  <2> QED
    BY <1>2, <2>5, <2>6
<1> QED
  BY <1>6, <1>8, <1>10, <1>11 DEF OrderInv

\* What handlers publish holds no request and no pair, or one pair.
LEMMA PublishedPairs ==
  /\ ~HasPair(<< >>)
  /\ \A m : HasPair(<<m>>) <=> m.id = "ADD_ITEM" /\ m.store = "samples"
  /\ \A more : ~Contains(more, "ADD_ITEM") => ~HasPair(more)
BY DEF HasPair, Contains

\* A handler that neither deletes nor offers a pair.
LEMMA PairQuiet ==
  ASSUME TypeOK, NoIntervalBeforeSettings, PairInv,
         NEW id, NEW more \in Seq(Message), Dispatch(id, more),
         id # "ERASE", ~HasPair(more), ~Contains(more, "ERASE"),
         \A x \in {"TIME_ELAPSED", "SET_LOGGING_INTERVAL", "BLE_SUBSYSTEM_READY"} :
           ~Contains(more, x),
         isSampleReady' => isSampleReady,
         UNCHANGED <<bleReady, isAddItemPossible, nrOfPendingErase, listener,
                     eraseReminder, eraseParameters, afterPageWrap>>
  PROVE  PairInv'
<1>1. OrderInv'
  BY OrderKept DEF PairInv
<1>2. ErasesAreCounted'
  BY DEF PairInv, ErasesAreCounted
<1>3. Items = {} => Items' = {}
  BY ItemsAfterDispatch
<1>4. DeletionIsCounted'
  BY <1>3 DEF PairInv, DeletionIsCounted
<1> QED
  BY <1>1, <1>2, <1>4 DEF PairInv

LEMMA PairItems ==
  ASSUME TypeOK, NoIntervalBeforeSettings, PairInv, NEW store \in Store,
         \/ AddItem(store) \/ LoseItem(store) \/ FailToAddItem
         \/ InitializeSettings \/ IgnoreBeginEnumerate
  PROVE  PairInv'
<1>1. UNCHANGED <<bleReady, isSampleReady, isAddItemPossible, nrOfPendingErase,
                  listener, eraseReminder, eraseParameters, afterPageWrap>>
  BY DEF AddItem, LoseItem, FailToAddItem, InitializeSettings,
         IgnoreBeginEnumerate, listenerVars, sampleVars
<1>2. PICK id \in {"ADD_ITEM", "BEGIN_ENUMERATE"} : Dispatch(id, << >>)
  BY DEF AddItem, LoseItem, FailToAddItem, InitializeSettings, IgnoreBeginEnumerate
<1> QED
  BY <1>1, <1>2, PairQuiet, ShortQueues, ShortContains, PublishedPairs

LEMMA PairPageWrap ==
  ASSUME TypeOK, NoIntervalBeforeSettings, PairInv, NEW store \in Store,
         AddItemWithPageWrap(store)
  PROVE  PairInv'
<1>1. /\ Dispatch("ADD_ITEM", << >>) /\ << >> \in Seq(Message)
      /\ UNCHANGED <<bleReady, isSampleReady, isAddItemPossible,
                     nrOfPendingErase, eraseReminder>>
      /\ listener' = "Erasing" /\ ~eraseParameters'.reinit
  BY ShortQueues DEF AddItemWithPageWrap, FlashErase, sampleVars
<1>2. OrderInv'
  BY <1>1, OrderKept, ShortContains, PublishedPairs DEF PairInv
<1> QED
  BY <1>1, <1>2 DEF PairInv, ErasesAreCounted, DeletionIsCounted

LEMMA PairErase ==
  ASSUME TypeOK, NoIntervalBeforeSettings, PairInv, BeginErase \/ RemindErase
  PROVE  PairInv'
<1>1. /\ Dispatch("ERASE", << >>) /\ << >> \in Seq(Message)
      /\ UNCHANGED <<bleReady, isSampleReady, afterPageWrap>>
      /\ nrOfPendingErase' = nrOfPendingErase + 1
      /\ ~isAddItemPossible'
      /\ listener' = "Erasing"
  BY ShortQueues DEF BeginErase, RemindErase, CountErase
<1>2. OrderInv'
  BY <1>1, OrderKept, ShortContains, PublishedPairs DEF PairInv
<1>3. ErasesAreCounted'
  BY <1>1 DEF TypeOK, ErasesAreCounted
<1>4. Items' = {}
  BY <1>1, NoItemAfterErase, ItemsAfterDispatch, PublishedPairs DEF PairInv, OrderInv
<1>5. CASE BeginErase
  <2>1. ~eraseReminder'
    BY <1>5 DEF BeginErase, PairInv, ErasesAreCounted
  <2> QED
    BY <1>1, <1>2, <1>3, <1>4, <2>1 DEF PairInv, DeletionIsCounted, TypeOK
<1>6. CASE RemindErase
  <2>1. listener = "Erasing" /\ UNCHANGED eraseParameters
    BY <1>6 DEF RemindErase
  <2>2. eraseParameters.reinit /\ ~afterPageWrap => nrOfPendingErase > 0
    BY <2>1 DEF PairInv, DeletionIsCounted, TypeOK
  <2>3. eraseParameters'.reinit /\ ~afterPageWrap' => nrOfPendingErase' > 1
    BY <1>1, <2>1, <2>2 DEF TypeOK
  <2>4. DeletionIsCounted'
    BY <1>1, <1>4, <2>3 DEF DeletionIsCounted, TypeOK
  <2> QED
    BY <1>2, <1>3, <2>4 DEF PairInv
<1> QED
  BY <1>5, <1>6

LEMMA PairEraseDone ==
  ASSUME TypeOK, NoIntervalBeforeSettings, PairInv, EraseDone \/ EraseReminded
  PROVE  PairInv'
<1>1. /\ Dispatch("ERASE_DONE", Deferred) /\ CountEraseDone
      /\ UNCHANGED bleReady /\ eraseReminder' = FALSE
  BY DEF EraseDone, EraseReminded
<1>2. Deferred \in Seq(Message)
  BY DeferredType
<1>3. /\ \A x : Contains(Deferred, x) => x = "SAVE_LOGGING_INTERVAL" \/ x = "ADD_ITEM"
      /\ HasPair(Deferred) => isSampleReady /\ Remaining = 0
  <2>1. \/ Deferred = << >>
        \/ Deferred = <<SaveMessage(loggingInterval)>>
        \/ /\ Deferred = <<AddItemMessage("samples")>>
           /\ isSampleReady /\ Remaining = 0
    BY DEF Deferred
  <2> QED
    BY <2>1, ShortContains, PublishedPairs, MessageIds
<1>4. Remaining \in Nat /\ Remaining <= nrOfPendingErase
      /\ (nrOfPendingErase > 1 => Remaining > 0)
  BY DEF TypeOK, Remaining
<1>5. nrOfPendingErase' = Remaining /\ isAddItemPossible' = (Remaining = 0)
  BY <1>1 DEF CountEraseDone
<1>6. isSampleReady' => isSampleReady
  BY <1>1, Zenon DEF CountEraseDone
<1>7. isAddItemPossible /\ ~isSampleReady => isAddItemPossible' /\ ~isSampleReady'
  <2>1. isAddItemPossible => Remaining = 0
    BY <1>4 DEF PairInv, ErasesAreCounted, TypeOK
  <2> QED
    BY <1>5, <1>6, <2>1
<1>8. OrderInv'
  <2>1. HasPair(Deferred) => ~IsWaiting("ERASE")
    BY <1>3 DEF PairInv, OrderInv, PairBeforeErase
  <2>2. /\ ~Contains(Deferred, "ERASE")
        /\ \A x \in {"TIME_ELAPSED", "SET_LOGGING_INTERVAL",
                     "BLE_SUBSYSTEM_READY"} : ~Contains(Deferred, x)
    BY <1>3
  <2> HIDE DEF Deferred
  <2> QED
    BY <1>1, <1>2, <1>6, <1>7, <2>1, <2>2, OrderKept DEF PairInv
<1>9. ErasesAreCounted'
  BY <1>1, <1>5 DEF ErasesAreCounted
<1>10. DeletionIsCounted'
  <2>1. CASE EraseDone
    BY <2>1 DEF EraseDone, DeletionIsCounted
  <2>2. CASE EraseReminded
    <3>1. SUFFICES ASSUME ~afterPageWrap'
                   PROVE  nrOfPendingErase' > 0 /\ Items' = {}
      BY <1>1, <1>4, <1>5 DEF DeletionIsCounted
    <3>2. /\ eraseReminder
          /\ afterPageWrap' = (afterPageWrap \/ ~eraseParameters.reinit)
      BY <2>2 DEF EraseReminded
    <3>3. ~afterPageWrap /\ eraseParameters.reinit
      BY <3>1, <3>2, Zenon DEF TypeOK
    <3>4. nrOfPendingErase > 1 /\ Items = {}
      BY <3>2, <3>3 DEF PairInv, ErasesAreCounted, DeletionIsCounted
    <3>5. ~HasPair(Deferred)
      BY <1>3, <1>4, <3>4
    <3> QED
      BY <1>1, <1>2, <1>4, <1>5, <3>4, <3>5, ItemsAfterDispatch
  <2> QED
    BY <2>1, <2>2
<1> QED
  BY <1>8, <1>9, <1>10 DEF PairInv

LEMMA PairSamples ==
  ASSUME TypeOK, NoIntervalBeforeSettings, PairInv, HandleSampleMessage
  PROVE  PairInv'
<1>1. ASSUME NEW pair \in BOOLEAN, EvalTimeEvent(pair)
      PROVE  PairInv'
  <2> DEFINE ready == isSampleReady \/ pair
             save == ready /\ isAddItemPossible
             more == IF save THEN <<AddItemMessage("samples")>> ELSE << >>
  <2>1. /\ Dispatch("TIME_ELAPSED", more)
        /\ isSampleReady' = (ready /\ ~save)
        /\ Head(messages).pair = pair
        /\ UNCHANGED <<bleReady, isAddItemPossible, nrOfPendingErase, listener,
                       eraseReminder, eraseParameters, afterPageWrap>>
    BY <1>1, Zenon DEF EvalTimeEvent, listenerVars
  <2>2. more \in {<< >>, <<AddItemMessage("samples")>>}
    OBVIOUS
  <2>3. more \in Seq(Message) /\ \A x : Contains(more, x) => x = "ADD_ITEM"
    BY <2>2, ItemOrNothing DEF Store
  <2>4. HasPair(more) => save
    BY PublishedPairs
  <2>5. isSampleReady \in BOOLEAN /\ isAddItemPossible \in BOOLEAN
    BY DEF TypeOK
  <2> HIDE DEF more
  <2>6. ready => isSampleReady \/ 1 \in Pairs
    BY <2>1, <2>3, QueueAfterDispatch DEF Pairs, At
  <2>7. ready => ~IsWaiting("ERASE")
    BY <2>6 DEF PairInv, OrderInv, PairBeforeErase
  <2>8. isSampleReady' => isSampleReady \/ 1 \in Pairs
    BY <2>1, <2>6
  <2>9. isAddItemPossible => isAddItemPossible' /\ ~isSampleReady'
    BY <2>1, <2>5
  <2> HIDE DEF ready
  <2>10. OrderInv'
    BY <2>1, <2>3, <2>4, <2>7, <2>8, <2>9, OrderKept DEF PairInv
  <2>11. ErasesAreCounted'
    BY <2>1 DEF PairInv, ErasesAreCounted
  <2>12. DeletionIsCounted'
    <3>1. SUFFICES ASSUME listener = "Erasing", eraseParameters.reinit, ~afterPageWrap
                   PROVE  /\ nrOfPendingErase > IF eraseReminder THEN 1 ELSE 0
                          /\ Items' = {}
      BY <2>1 DEF DeletionIsCounted
    <3>2. /\ nrOfPendingErase > IF eraseReminder THEN 1 ELSE 0
          /\ Items = {}
      BY <3>1 DEF PairInv, DeletionIsCounted
    <3>3. ~isAddItemPossible
      BY <3>2 DEF PairInv, ErasesAreCounted, TypeOK
    <3> QED
      BY <2>1, <2>3, <2>4, <3>2, <3>3, ItemsAfterDispatch
  <2> QED
    BY <2>10, <2>11, <2>12 DEF PairInv
<1>2. CASE KeepLoggingInterval
  <2>1. /\ Dispatch("SET_LOGGING_INTERVAL", << >>)
        /\ UNCHANGED <<bleReady, isSampleReady, isAddItemPossible,
                       nrOfPendingErase, listener, eraseReminder,
                       eraseParameters, afterPageWrap>>
    BY <1>2 DEF KeepLoggingInterval, listenerVars, sampleVars
  <2> QED
    BY <2>1, PairQuiet, ShortQueues, ShortContains, PublishedPairs
<1>3. ASSUME NEW i \in Interval, SetLoggingInterval(i)
      PROVE  PairInv'
  <2>1. /\ Dispatch("SET_LOGGING_INTERVAL", <<SaveMessage(i)>>)
        /\ ~isSampleReady'
        /\ UNCHANGED <<bleReady, isAddItemPossible, nrOfPendingErase, listener,
                       eraseReminder, eraseParameters, afterPageWrap>>
    BY <1>3 DEF SetLoggingInterval, listenerVars
  <2>2. /\ <<SaveMessage(i)>> \in Seq(Message)
        /\ \A x : Contains(<<SaveMessage(i)>>, x) => x = "SAVE_LOGGING_INTERVAL"
        /\ ~HasPair(<<SaveMessage(i)>>)
    BY PublishedMessages, ShortQueues, ShortContains, PublishedPairs, MessageIds
       DEF Settings
  <2> QED
    BY <2>1, <2>2, PairQuiet
<1>4. ASSUME NEW i \in Interval, SetLoggingIntervalAndDelete(i)
      PROVE  PairInv'
  <2>1. /\ Dispatch("SET_LOGGING_INTERVAL", <<Signal("ERASE")>>)
        /\ ~isSampleReady'
        /\ UNCHANGED <<bleReady, isAddItemPossible, nrOfPendingErase, listener,
                       eraseReminder, eraseParameters, afterPageWrap>>
    BY <1>4 DEF SetLoggingIntervalAndDelete, listenerVars
  <2>2. /\ <<Signal("ERASE")>> \in Seq(Message)
        /\ \A x : Contains(<<Signal("ERASE")>>, x) => x = "ERASE"
        /\ ~HasPair(<<Signal("ERASE")>>)
    BY PublishedMessages, ShortQueues, ShortContains, PublishedPairs, MessageIds
  <2>3. OrderInv'
    BY <2>1, <2>2, OrderKept DEF PairInv
  <2>4. ErasesAreCounted'
    BY <2>1 DEF PairInv, ErasesAreCounted
  <2>5. Items = {} => Items' = {}
    BY <2>1, <2>2, ItemsAfterDispatch
  <2>6. DeletionIsCounted'
    BY <2>1, <2>5 DEF PairInv, DeletionIsCounted
  <2> QED
    BY <2>3, <2>4, <2>6 DEF PairInv
<1> QED
  BY <1>1, <1>2, <1>3, <1>4 DEF HandleSampleMessage

LEMMA PairSettings ==
  ASSUME TypeOK, NoIntervalBeforeSettings, PairInv, HandleSettingsMessage
  PROVE  PairInv'
<1>1. UNCHANGED <<bleReady, isSampleReady, isAddItemPossible, nrOfPendingErase,
                  listener, eraseReminder, eraseParameters, afterPageWrap>>
  BY DEF HandleSettingsMessage, PeripheralsInitialized, DistributeSettings,
         DeviceSettingsRead, SaveLoggingInterval, listenerVars, sampleVars
<1>2. CASE PeripheralsInitialized
  <2>1. Dispatch("PERIPHERALS_INITIALIZED", <<Signal("BEGIN_ENUMERATE")>>)
    BY <1>2 DEF PeripheralsInitialized
  <2>2. /\ <<Signal("BEGIN_ENUMERATE")>> \in Seq(Message)
        /\ \A x : Contains(<<Signal("BEGIN_ENUMERATE")>>, x) => x = "BEGIN_ENUMERATE"
        /\ ~HasPair(<<Signal("BEGIN_ENUMERATE")>>)
    BY PublishedMessages, ShortQueues, ShortContains, PublishedPairs, MessageIds
  <2> QED
    BY <1>1, <2>1, <2>2, PairQuiet
<1>3. CASE DistributeSettings
  <2>1. PICK last \in {<< >>, <<Signal("ERASE")>>} :
             Dispatch("BLE_SUBSYSTEM_READY", <<Signal("DEVICE_SETTINGS_READ")>> \o last)
    BY <1>3, Zenon DEF DistributeSettings
  <2> DEFINE more == <<Signal("DEVICE_SETTINGS_READ")>> \o last
  <2>2. /\ more \in Seq(Message)
        /\ \A x : Contains(more, x) => x = "DEVICE_SETTINGS_READ" \/ x = "ERASE"
    <3>1. /\ Signal("DEVICE_SETTINGS_READ") \in Message
          /\ Signal("ERASE") \in Message
      BY PublishedMessages
    <3>2. /\ <<Signal("DEVICE_SETTINGS_READ")>> \in Seq(Message)
          /\ \A x : Contains(<<Signal("DEVICE_SETTINGS_READ")>>, x)
                      => x = "DEVICE_SETTINGS_READ"
      BY <3>1, ShortQueues, ShortContains, MessageIds
    <3>3. last \in Seq(Message) /\ \A x : Contains(last, x) => x = "ERASE"
      <4>1. CASE last = << >>
        BY <4>1, ShortQueues, ShortContains
      <4>2. CASE last = <<Signal("ERASE")>>
        BY <3>1, <4>2, ShortQueues, ShortContains, MessageIds
      <4> QED
        BY <4>1, <4>2
    <3> QED
      BY <3>2, <3>3, JoinedContains
  <2>3. Dispatch("BLE_SUBSYSTEM_READY", more)
    BY <2>1
  <2> HIDE DEF more
  <2>4. ~HasPair(more)
    BY <2>2, PublishedPairs
  <2>5. ~isSampleReady'
    <3>1. IsWaiting("BLE_SUBSYSTEM_READY")
      BY <2>2, <2>3, WaitingAfterDispatch
    <3> QED
      BY <1>1, <3>1 DEF PairInv, OrderInv, NoPairBeforeReady
  <2>6. OrderInv'
    BY <1>1, <2>2, <2>3, <2>4, <2>5, OrderKept DEF PairInv
  <2>7. ErasesAreCounted'
    BY <1>1 DEF PairInv, ErasesAreCounted
  <2>8. Items = {} => Items' = {}
    BY <2>2, <2>3, <2>4, ItemsAfterDispatch
  <2>9. DeletionIsCounted'
    BY <1>1, <2>8 DEF PairInv, DeletionIsCounted
  <2> QED
    BY <2>6, <2>7, <2>9 DEF PairInv
<1>4. CASE DeviceSettingsRead
  <2>1. Dispatch("DEVICE_SETTINGS_READ", << >>)
    BY <1>4 DEF DeviceSettingsRead
  <2> QED
    BY <1>1, <2>1, PairQuiet, ShortQueues, ShortContains, PublishedPairs
<1>5. CASE SaveLoggingInterval
  <2>1. PICK more \in {<< >>, <<AddItemMessage("config")>>} :
             Dispatch("SAVE_LOGGING_INTERVAL", more)
    BY <1>5, Zenon DEF SaveLoggingInterval
  <2>2. more \in Seq(Message) /\ \A x : Contains(more, x) => x = "ADD_ITEM"
    BY <2>1, ItemOrNothing DEF Store
  <2>3. ~HasPair(more)
    <3>1. AddItemMessage("config").store # "samples"
      BY DEF AddItemMessage
    <3> QED
      BY <2>1, <3>1, PublishedPairs
  <2> QED
    BY <1>1, <2>1, <2>2, <2>3, PairQuiet
<1> QED
  BY <1>2, <1>3, <1>4, <1>5 DEF HandleSettingsMessage

\* A request or the report of the flash comes last in the queue.
LEMMA PairAppend ==
  ASSUME TypeOK, PairInv, NEW m \in Message, messages' = Append(messages, m),
         m.id \in {"BLE_SUBSYSTEM_READY", "SET_LOGGING_INTERVAL", "TIME_ELAPSED",
                   "ERASE_DONE"},
         m.id = "BLE_SUBSYSTEM_READY" => ~bleReady /\ bleReady',
         m.id # "BLE_SUBSYSTEM_READY" => UNCHANGED bleReady,
         m.id = "TIME_ELAPSED" /\ m.pair =>
           \A x \in {"BLE_SUBSYSTEM_READY", "SET_LOGGING_INTERVAL", "ERASE"} :
             ~IsWaiting(x),
         UNCHANGED <<isSampleReady, isAddItemPossible, nrOfPendingErase,
                     listener, eraseReminder, eraseParameters, afterPageWrap>>
  PROVE  PairInv'
<1> DEFINE n == Len(messages) + 1
<1>1. /\ n \in Nat /\ messages'[n] = m
      /\ \A i \in DOMAIN messages' :
           i = n \/ (i \in DOMAIN messages /\ messages'[i] = messages[i])
  BY QueueAfterAppend
<1>2. ASSUME NEW x, NEW i \in At(x)'
      PROVE  i \in At(x) \/ (i = n /\ m.id = x)
  BY <1>1 DEF At
<1>3. ASSUME NEW x, NEW i \in At(x)
      PROVE  i \in Nat /\ i < n
  BY QueueAfterAppend DEF At
<1>4. ASSUME NEW k \in Pairs'
      PROVE  k \in Pairs \/ (k = n /\ m.id = "TIME_ELAPSED" /\ m.pair)
  BY <1>1 DEF Pairs, At
<1>5. Items' = Items /\ At("ERASE")' = At("ERASE")
  BY QueueAfterAppend DEF Items, At
<1> HIDE DEF n
<1>6. /\ IsWaiting("ERASE")' <=> IsWaiting("ERASE")
      /\ IsWaiting("BLE_SUBSYSTEM_READY")'
           <=> IsWaiting("BLE_SUBSYSTEM_READY") \/ m.id = "BLE_SUBSYSTEM_READY"
  BY WaitingAfterAppend
<1>7. ReadyOnce'
  <2>1. IsWaiting("BLE_SUBSYSTEM_READY")' => bleReady'
    BY <1>6 DEF PairInv, OrderInv, ReadyOnce
  <2>2. m.id = "BLE_SUBSYSTEM_READY" => At("BLE_SUBSYSTEM_READY") = {}
    BY DEF PairInv, OrderInv, ReadyOnce, IsWaiting, At
  <2>3. \A i, j \in At("BLE_SUBSYSTEM_READY")' : i = j
    BY <1>2, <2>2 DEF PairInv, OrderInv, ReadyOnce
  <2> QED
    BY <2>1, <2>3 DEF ReadyOnce
<1>8. NoPairBeforeReady'
  BY <1>6 DEF PairInv, OrderInv, NoPairBeforeReady
<1>9. PairBeforeErase'
  <2>1. isSampleReady' \/ Pairs' # {} => ~IsWaiting("ERASE")'
    BY <1>4, <1>6 DEF PairInv, OrderInv, PairBeforeErase
  <2>2. ASSUME NEW k \in Pairs',
               NEW i \in At("SET_LOGGING_INTERVAL")' \cup At("BLE_SUBSYSTEM_READY")'
        PROVE  k < i
    <3>1. CASE k \in Pairs
      <4>1. k \in Nat /\ k < n
        BY <1>3, <3>1 DEF Pairs
      <4>2. CASE i \in At("SET_LOGGING_INTERVAL") \cup At("BLE_SUBSYSTEM_READY")
        BY <3>1, <4>2 DEF PairInv, OrderInv, PairBeforeErase
      <4> QED
        BY <1>2, <4>1, <4>2
    <3>2. CASE k = n /\ m.id = "TIME_ELAPSED" /\ m.pair
      <4>1. i \in At("SET_LOGGING_INTERVAL") \cup At("BLE_SUBSYSTEM_READY")
        BY <1>2, <3>2
      <4>2. ~IsWaiting("SET_LOGGING_INTERVAL") /\ ~IsWaiting("BLE_SUBSYSTEM_READY")
        BY <3>2
      <4> QED
        BY <4>1, <4>2 DEF IsWaiting, At
    <3> QED
      BY <1>4, <3>1, <3>2
  <2> QED
    BY <2>1, <2>2 DEF PairBeforeErase
<1>10. ItemBeforeErase'
  BY <1>5 DEF PairInv, OrderInv, ItemBeforeErase
<1>11. ErasesAreCounted' /\ DeletionIsCounted'
  BY <1>5 DEF PairInv, ErasesAreCounted, DeletionIsCounted
<1> QED
  BY <1>7, <1>8, <1>9, <1>10, <1>11 DEF PairInv, OrderInv

LEMMA PairRequest ==
  ASSUME TypeOK, PairInv, Request \/ FlashEraseDone
  PROVE  PairInv'
<1>1. UNCHANGED <<isSampleReady, isAddItemPossible, nrOfPendingErase,
                  listener, eraseReminder, eraseParameters, afterPageWrap>>
  BY DEF Request, BleSubsystemReady, RequestSetLoggingInterval, BleRequest, TimeTick,
         Publish, FlashEraseDone, listenerVars, sampleVars
<1>2. ASSUME NEW powerOn \in BOOLEAN, BleSubsystemReady(powerOn)
      PROVE  PairInv'
  <2> DEFINE m == [id |-> "BLE_SUBSYSTEM_READY", powerOn |-> powerOn]
  <2>1. m \in Message /\ m.id = "BLE_SUBSYSTEM_READY"
    BY DEF Message
  <2>2. messages' = Append(messages, m) /\ ~bleReady /\ bleReady'
    BY <1>2 DEF BleSubsystemReady, Publish
  <2> HIDE DEF m
  <2> QED
    BY <1>1, <2>1, <2>2, PairAppend
<1>3. ASSUME NEW i \in Interval, RequestSetLoggingInterval(i)
      PROVE  PairInv'
  <2> DEFINE m == [id |-> "SET_LOGGING_INTERVAL", interval |-> i]
  <2>1. m \in Message /\ m.id = "SET_LOGGING_INTERVAL"
    BY DEF Message
  <2>2. messages' = Append(messages, m) /\ UNCHANGED bleReady
    BY <1>3 DEF RequestSetLoggingInterval, BleRequest, Publish
  <2> HIDE DEF m
  <2> QED
    BY <1>1, <2>1, <2>2, PairAppend
<1>4. ASSUME NEW pair \in BOOLEAN, TimeTick(pair)
      PROVE  PairInv'
  <2> DEFINE m == [id |-> "TIME_ELAPSED", pair |-> pair]
  <2>1. m \in Message /\ m.id = "TIME_ELAPSED" /\ m.pair = pair
    BY DEF Message
  <2>2. messages' = Append(messages, m) /\ UNCHANGED bleReady
    BY <1>4 DEF TimeTick, Publish
  <2>3. pair => \A x \in {"BLE_SUBSYSTEM_READY", "SET_LOGGING_INTERVAL", "ERASE"} :
                  ~IsWaiting(x)
    BY <1>4 DEF TimeTick
  <2> HIDE DEF m
  <2> QED
    BY <1>1, <2>1, <2>2, <2>3, PairAppend
<1>5. CASE FlashEraseDone
  <2>1. Signal("ERASE_DONE") \in Message /\ Signal("ERASE_DONE").id = "ERASE_DONE"
    BY PublishedMessages
  <2>2. messages' = Append(messages, Signal("ERASE_DONE")) /\ UNCHANGED bleReady
    BY <1>5 DEF FlashEraseDone
  <2> QED
    BY <1>1, <2>1, <2>2, PairAppend
<1> QED
  BY <1>2, <1>3, <1>4, <1>5 DEF Request

LEMMA PairStart ==
  ASSUME \A x : IsWaiting(x) <=> x = "PERIPHERALS_INITIALIZED",
         ~bleReady, ~isSampleReady, isAddItemPossible, nrOfPendingErase = 0,
         ~eraseReminder, ~eraseParameters.reinit
  PROVE  PairInv
<1>1. \A x : x # "PERIPHERALS_INITIALIZED" => At(x) = {}
  BY DEF IsWaiting, At
<1> QED
  BY <1>1 DEF PairInv, OrderInv, ReadyOnce, NoPairBeforeReady, PairBeforeErase,
              ItemBeforeErase, ErasesAreCounted, DeletionIsCounted, Pairs, Items

LEMMA PairInit == Init => PairInv
<1> SUFFICES ASSUME Init
             PROVE  PairInv
  OBVIOUS
<1>1. \A x : IsWaiting(x) <=> x = "PERIPHERALS_INITIALIZED"
  BY WaitingAtStart DEF Init
<1> QED
  BY <1>1, PairStart DEF Init

LEMMA PairReset == Reset => PairInv'
<1> SUFFICES ASSUME Reset
             PROVE  PairInv'
  OBVIOUS
<1>1. /\ messages' = <<Signal("PERIPHERALS_INITIALIZED")>>
      /\ ~bleReady' /\ ~isSampleReady' /\ isAddItemPossible'
      /\ nrOfPendingErase' = 0 /\ ~eraseReminder' /\ ~eraseParameters'.reinit
  BY DEF Reset, Boot
<1>2. \A x : IsWaiting(x)' <=> x = "PERIPHERALS_INITIALIZED"
  BY <1>1, MessageIds DEF IsWaiting
<1>3. \A x : x # "PERIPHERALS_INITIALIZED" => At(x)' = {}
  BY <1>2 DEF IsWaiting, At
<1> QED
  BY <1>1, <1>2, <1>3
     DEF PairInv, OrderInv, ReadyOnce, NoPairBeforeReady, PairBeforeErase,
         ItemBeforeErase, ErasesAreCounted, DeletionIsCounted, Pairs, Items

LEMMA PairStep == IInv /\ IntervalInv /\ PairInv /\ [Next]_vars => PairInv'
<1> SUFFICES ASSUME TypeOK, NoIntervalBeforeSettings, PairInv, [Next]_vars
             PROVE  PairInv'
  BY DEF IInv, IntervalInv
<1>1. CASE Request \/ FlashEraseDone
  BY <1>1, PairRequest
<1>2. CASE HandleItemStoreMessage
  BY <1>2, PairItems, PairPageWrap, PairErase, PairEraseDone
     DEF HandleItemStoreMessage, Store
<1>3. CASE HandleSampleMessage
  BY <1>3, PairSamples
<1>4. CASE HandleSettingsMessage
  BY <1>4, PairSettings
<1>5. CASE StartErase \/ UNCHANGED vars
  <2>1. UNCHANGED <<messages, bleReady, isSampleReady, isAddItemPossible,
                    nrOfPendingErase, listener, eraseReminder,
                    eraseParameters, afterPageWrap>>
    BY <1>5 DEF StartErase, vars, listenerVars, sampleVars
  <2> QED
    BY <2>1 DEF PairInv, OrderInv, ReadyOnce, NoPairBeforeReady, PairBeforeErase,
                ItemBeforeErase, ErasesAreCounted, DeletionIsCounted,
                Pairs, Items, At, IsWaiting
<1>6. CASE Reset
  BY <1>6, PairReset
<1> QED
  BY <1>1, <1>2, <1>3, <1>4, <1>5, <1>6 DEF Next, HandleMessage

LEMMA PairKept ==
  ASSUME TypeOK, PairInv, LoseItem("samples")
  PROVE  ~eraseParameters.reinit \/ afterPageWrap
<1>1. /\ Dispatch("ADD_ITEM", << >>) /\ << >> \in Seq(Message)
      /\ Head(messages).store = "samples" /\ listener = "Erasing"
  BY ShortQueues DEF LoseItem
<1>2. 1 \in Items
  BY <1>1, QueueAfterDispatch DEF Items, At
<1> QED
  BY <1>1, <1>2 DEF PairInv, DeletionIsCounted

(***************************************************************************)
(* Whatever is set, sampled and deleted, the item store ignores a pair of  *)
(* samples only during the erase for a page wrap, or in the deletions that *)
(* followed it without a break: else the measurement item controller keeps *)
(* the pair until its count of pending erases is back at zero.             *)
(***************************************************************************)
THEOREM PairsAreKept == Spec => PairsLostOnlyAroundPageWrap
<1>1. Spec => []IInv
  BY Inductive
<1>2. Init => IntervalInv
  BY IntervalInit
<1>3. IInv /\ IntervalInv /\ [Next]_vars => IntervalInv'
  BY IntervalStep
<1>4. Init => PairInv
  BY PairInit
<1>5. IInv /\ IntervalInv /\ PairInv /\ [Next]_vars => PairInv'
  BY PairStep
<1>6. IInv /\ PairInv /\ [Next]_vars
        => [LoseItem("samples") => ~eraseParameters.reinit \/ afterPageWrap]_vars
  BY PairKept DEF IInv
<1> QED
  BY <1>1, <1>2, <1>3, <1>4, <1>5, <1>6, PTL DEF Spec, PairsLostOnlyAroundPageWrap

=============================================================================
