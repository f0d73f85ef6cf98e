--------------------------- MODULE EraseProtocol ---------------------------
(***************************************************************************)
(* The clients of the item stores and the erases they cause: the settings  *)
(* controller saves the device settings in one store, the measurement item *)
(* controller saves pairs of samples in the other one and deletes them     *)
(* when the logging interval changes.  Both stores share one message       *)
(* listener and one flash: while any page is erased the listener ignores   *)
(* every request.  All of them are listeners of the application broker; a  *)
(* message is handled by the settings controller first, then by the        *)
(* measurement item controller, then by the item store.                    *)
(*                                                                         *)
(* Simplifications:                                                        *)
(*  - ItemStore is the detailed model of a store.  Here, a store of        *)
(*    settings is its newest item, a store of samples is empty or not, and *)
(*    whether an item that is added fills the last page that was free, so  *)
(*    that the oldest page must be erased, is left open.                   *)
(*  - The erases of the pages of one store are one step; a reset before    *)
(*    their end may leave samples behind.                                  *)
(*  - The queue has room for what the handlers and the flash publish: only *)
(*    the requests of the environment are bounded by MaxMessages.          *)
(*  - Of the settings there is the logging interval, which two components  *)
(*    know; the other ones are saved as it is, by UpdateAndNotify.         *)
(***************************************************************************)
EXTENDS Naturals, Integers, Sequences

CONSTANTS
  Interval,         \* logging intervals
  NoInterval,       \* content of _actualSettings before it is initialized
  Default,          \* the interval of _defaultSettings
  InitialInterval,  \* logging interval until the settings were read
  NoItem,           \* the store of settings is empty
  MaxMessages       \* bound on the requests in the queue

Settings == Interval \cup {NoInterval}

ASSUME EraseProtocolAssumption ==
  /\ NoInterval \notin Interval
  /\ Default \in Interval
  /\ InitialInterval \in Interval
  /\ NoItem \notin Settings
  /\ MaxMessages \in Nat

Store == {"config", "samples"}

VARIABLES
  \* flash: newest settings, whether there are samples, and the stores that
  \* have no page to write before their oldest page is erased
  storedSettings, storedSamples, pageToErase,
  \* ItemStore.c: listener, _eraseParameters, _eraseReminder, counters
  listener, eraseParameters, eraseReminder, isEmpty,
  \* Flash.c: no erase, one that waits for the flash task, one that runs
  erase,
  \* queue of the application broker
  messages,
  \* MeasurementItemController_t
  loggingInterval, isAddItemPossible, nrOfPendingErase, isSampleReady,
  isLoggingIntervalChanged,
  \* SettingsController.c: _actualSettings, and whether it was initialized
  actualSettings, settingsRead,
  \* the BLE application runs; the processor was stopped by an assertion
  bleReady, halted,
  \* history: the newest settings were dropped by the item store; the erases
  \* since the listener was idle began with one for a page wrap
  saveLost, afterPageWrap

flashVars == <<storedSettings, storedSamples, pageToErase>>
listenerVars == <<listener, eraseParameters, eraseReminder, erase, halted,
                  afterPageWrap>>
sampleVars == <<loggingInterval, isAddItemPossible, nrOfPendingErase,
                isSampleReady, isLoggingIntervalChanged>>
settingsVars == <<actualSettings, settingsRead>>
vars == <<flashVars, listenerVars, isEmpty, messages, sampleVars, settingsVars,
          bleReady, saveLost, afterPageWrap>>

Message ==
  [id : {"ADD_ITEM"}, store : Store]
  \cup [id : {"SET_LOGGING_INTERVAL"}, interval : Interval]
  \cup [id : {"SAVE_LOGGING_INTERVAL"}, interval : Settings]
  \cup [id : {"BLE_SUBSYSTEM_READY"}, powerOn : BOOLEAN]
  \cup [id : {"TIME_ELAPSED"}, pair : BOOLEAN]
  \cup [id : {"ERASE", "ERASE_DONE", "BEGIN_ENUMERATE",
              "PERIPHERALS_INITIALIZED", "DEVICE_SETTINGS_READ"}]

TypeOK ==
  /\ storedSettings \in Settings \cup {NoItem}
  /\ storedSamples \in BOOLEAN
  /\ pageToErase \in SUBSET Store
  /\ listener \in {"Idle", "Erasing"}
  /\ eraseParameters \in [store : Store, reinit : BOOLEAN]
  /\ eraseReminder \in BOOLEAN
  /\ isEmpty \in [Store -> BOOLEAN]
  /\ erase \in {"none", "requested", "running"}
  /\ messages \in Seq(Message)
  /\ loggingInterval \in Settings
  /\ isAddItemPossible \in BOOLEAN
  /\ nrOfPendingErase \in Nat
  /\ isSampleReady \in BOOLEAN
  /\ isLoggingIntervalChanged \in BOOLEAN
  /\ actualSettings \in Settings
  /\ settingsRead \in BOOLEAN
  /\ bleReady \in BOOLEAN
  /\ halted \in BOOLEAN
  /\ saveLost \in BOOLEAN
  /\ afterPageWrap \in BOOLEAN

-----------------------------------------------------------------------------
(* Messages.                                                               *)

AddItemMessage(store) == [id |-> "ADD_ITEM", store |-> store]
SaveMessage(i) == [id |-> "SAVE_LOGGING_INTERVAL", interval |-> i]
Signal(id) == [id |-> id]

IsWaiting(id) == \E i \in DOMAIN messages : messages[i].id = id

IsNext(id) == ~halted /\ messages # <<>> /\ Head(messages).id = id

\* The next message; its handlers publish `more'.
Dispatch(id, more) == IsNext(id) /\ messages' = Tail(messages) \o more

-----------------------------------------------------------------------------
(* Requests of the environment.                                            *)

Publish(message) ==
  /\ ~halted
  /\ Len(messages) < MaxMessages
  /\ messages' = Append(messages, message)
  /\ UNCHANGED <<flashVars, listenerVars, isEmpty, sampleVars, settingsVars,
                 saveLost>>

\* BleContext.c: CPU2 runs the Bluetooth stack.
BleSubsystemReady(powerOn) ==
  /\ ~bleReady
  /\ bleReady' = TRUE
  /\ Publish([id |-> "BLE_SUBSYSTEM_READY", powerOn |-> powerOn])

\* A phone is connected long after the settings were distributed.
BleRequest(message) ==
  /\ bleReady
  /\ ~IsWaiting("BLE_SUBSYSTEM_READY") /\ ~IsWaiting("DEVICE_SETTINGS_READ")
  /\ Publish(message)
  /\ UNCHANGED bleReady

RequestSetLoggingInterval(i) ==
  BleRequest([id |-> "SET_LOGGING_INTERVAL", interval |-> i])

\* A time tick that completes a pair of samples, or one that finds a pair that
\* was kept back.  Sampling starts anew at power on and when the interval is set,
\* and a pair takes at least ten seconds: by then the queue was empty, though the
\* erase of all pages may be held up by the radio.
TimeTick(pair) ==
  /\ IF pair THEN \A id \in {"PERIPHERALS_INITIALIZED", "BLE_SUBSYSTEM_READY",
                             "SET_LOGGING_INTERVAL", "ERASE"} : ~IsWaiting(id)
             ELSE isSampleReady
  /\ Publish([id |-> "TIME_ELAPSED", pair |-> pair])
  /\ UNCHANGED bleReady

-----------------------------------------------------------------------------
(* Flash.c                                                                 *)

\* Flash_Erase, with its assertion that no erase is running.
FlashErase(parameters) ==
  /\ eraseParameters' = parameters
  /\ halted' = (erase # "none")
  /\ erase' = IF erase = "none" THEN "requested" ELSE erase

\* The flash task has the lowest priority.
StartErase ==
  /\ ~halted
  /\ erase = "requested"
  /\ messages = <<>>
  /\ erase' = "running"
  /\ UNCHANGED <<flashVars, listener, eraseParameters, eraseReminder, isEmpty,
                 messages, sampleVars, settingsVars, bleReady, halted, saveLost, afterPageWrap>>

\* The interrupt of the flash.
FlashEraseDone ==
  /\ ~halted
  /\ erase = "running"
  /\ erase' = "none"
  /\ pageToErase' = pageToErase \ {eraseParameters.store}
  /\ storedSamples' = (storedSamples /\ ~eraseParameters.reinit)
  /\ messages' = Append(messages, Signal("ERASE_DONE"))
  /\ UNCHANGED <<storedSettings, listener, eraseParameters, eraseReminder,
                 isEmpty, sampleVars, settingsVars, bleReady, halted, saveLost, afterPageWrap>>

-----------------------------------------------------------------------------
(* ItemStore.c                                                             *)

Written(store) ==
  /\ storedSettings' = IF store = "config" THEN actualSettings ELSE storedSettings
  /\ storedSamples' = (storedSamples \/ store = "samples")
  /\ isEmpty' = [isEmpty EXCEPT ![store] = FALSE]
  /\ saveLost' = (saveLost /\ store # "config")

\* What is written is what the client holds now, not when it asked for it.
AddItem(store) ==
  /\ Dispatch("ADD_ITEM", <<>>)
  /\ Head(messages).store = store
  /\ listener = "Idle"
  /\ Written(store)
  /\ UNCHANGED <<pageToErase, listenerVars, sampleVars, settingsVars, bleReady>>

\* The store was marked as empty, but its pages are not erased yet: the first
\* slot of the current page cannot be written again.
FailToAddItem ==
  /\ Dispatch("ADD_ITEM", <<>>)
  /\ Head(messages).store = "samples"
  /\ listener = "Idle"
  /\ isEmpty["samples"] /\ storedSamples
  /\ UNCHANGED <<flashVars, listenerVars, isEmpty, sampleVars, settingsVars,
                 bleReady, saveLost>>

\* The item fills the page, and the next page holds the oldest data.
AddItemWithPageWrap(store) ==
  /\ Dispatch("ADD_ITEM", <<>>)
  /\ Head(messages).store = store
  /\ listener = "Idle"
  /\ ~isEmpty[store]
  /\ Written(store)
  /\ pageToErase' = pageToErase \cup {store}
  /\ listener' = "Erasing"
  /\ FlashErase([store |-> store, reinit |-> FALSE])
  /\ UNCHANGED <<eraseReminder, afterPageWrap, sampleVars, settingsVars, bleReady>>

\* ListenerErasingState ignores the request.
LoseItem(store) ==
  /\ Dispatch("ADD_ITEM", <<>>)
  /\ Head(messages).store = store
  /\ listener = "Erasing"
  /\ saveLost' = (saveLost \/ store = "config")
  /\ UNCHANGED <<flashVars, listenerVars, isEmpty, sampleVars, settingsVars,
                 bleReady>>

\* Mutant: the test for stored settings is forgotten.
InitializeToDefault ==
  /\ Dispatch("BEGIN_ENUMERATE", <<>>)
  /\ listener = "Idle"
  /\ actualSettings' = Default
  /\ settingsRead' = TRUE
  /\ UNCHANGED <<flashVars, listenerVars, isEmpty, sampleVars, bleReady, saveLost>>

\* The settings controller reads the newest settings, or takes the default.
InitializeSettings ==
  /\ Dispatch("BEGIN_ENUMERATE", <<>>)
  /\ listener = "Idle"
  /\ actualSettings' = IF storedSettings = NoItem THEN Default ELSE storedSettings
  /\ settingsRead' = TRUE
  /\ UNCHANGED <<flashVars, listenerVars, isEmpty, sampleVars, bleReady, saveLost>>

\* Its callback is not called.
IgnoreBeginEnumerate ==
  /\ Dispatch("BEGIN_ENUMERATE", <<>>)
  /\ listener = "Erasing"
  /\ UNCHANGED <<flashVars, listenerVars, isEmpty, sampleVars, settingsVars,
                 bleReady, saveLost>>

WholeStore == [store |-> "samples", reinit |-> TRUE]

\* The measurement item controller counts every erase.
CountErase ==
  /\ nrOfPendingErase' = nrOfPendingErase + 1
  /\ isAddItemPossible' = FALSE
  /\ UNCHANGED <<loggingInterval, isSampleReady, isLoggingIntervalChanged>>

BeginErase ==
  /\ Dispatch("ERASE", <<>>)
  /\ CountErase
  /\ listener = "Idle"
  /\ listener' = "Erasing"
  /\ FlashErase(WholeStore)
  /\ UNCHANGED <<flashVars, eraseReminder, isEmpty, settingsVars, bleReady,
                 saveLost, afterPageWrap>>

\* Mutant: the erase is started though another one runs.
EraseAtOnce ==
  /\ Dispatch("ERASE", <<>>)
  /\ CountErase
  /\ listener = "Erasing"
  /\ FlashErase(WholeStore)
  /\ UNCHANGED <<flashVars, listener, eraseReminder, isEmpty, settingsVars,
                 bleReady, saveLost, afterPageWrap>>

RemindErase ==
  /\ Dispatch("ERASE", <<>>)
  /\ CountErase
  /\ listener = "Erasing"
  /\ eraseReminder' = TRUE
  /\ UNCHANGED <<flashVars, listener, eraseParameters, isEmpty, erase,
                 settingsVars, bleReady, halted, saveLost, afterPageWrap>>

-----------------------------------------------------------------------------
(* MeasurementItemController.c, at the end of an erase.                    *)

Remaining == IF nrOfPendingErase > 1 THEN nrOfPendingErase - 1 ELSE 0

\* What was put off until items can be added again.
Deferred ==
  CASE Remaining > 0 -> <<>>
    [] Remaining = 0 /\ isLoggingIntervalChanged -> <<SaveMessage(loggingInterval)>>
    [] Remaining = 0 /\ ~isLoggingIntervalChanged /\ isSampleReady
         -> <<AddItemMessage("samples")>>
    [] OTHER -> <<>>

\* Mutant: the interval is forgotten at the first ERASE_DONE.
CountEraseDoneForgetful ==
  /\ nrOfPendingErase' = Remaining
  /\ isAddItemPossible' = (Remaining = 0)
  /\ isLoggingIntervalChanged' = FALSE
  /\ isSampleReady' =
       (isSampleReady /\ (Remaining > 0 \/ isLoggingIntervalChanged))
  /\ UNCHANGED loggingInterval

\* Mutant: only the last ERASE_DONE is counted.
CountLastEraseDone ==
  /\ nrOfPendingErase' = IF eraseReminder THEN nrOfPendingErase ELSE Remaining
  /\ isAddItemPossible' = (nrOfPendingErase' = 0)
  /\ isLoggingIntervalChanged' = (isLoggingIntervalChanged /\ Remaining > 0)
  /\ isSampleReady' =
       (isSampleReady /\ (Remaining > 0 \/ isLoggingIntervalChanged))
  /\ UNCHANGED loggingInterval

CountEraseDone ==
  /\ nrOfPendingErase' = Remaining
  /\ isAddItemPossible' = (Remaining = 0)
  /\ isLoggingIntervalChanged' = (isLoggingIntervalChanged /\ Remaining > 0)
  /\ isSampleReady' =
       (isSampleReady /\ (Remaining > 0 \/ isLoggingIntervalChanged))
  /\ UNCHANGED loggingInterval

EraseDone ==
  /\ Dispatch("ERASE_DONE", Deferred)
  /\ CountEraseDone
  /\ ~eraseReminder
  /\ listener' = "Idle"
  /\ isEmpty' = [isEmpty EXCEPT !["samples"] = @ \/ eraseParameters.reinit]
  /\ afterPageWrap' = FALSE
  /\ UNCHANGED <<flashVars, eraseParameters, eraseReminder, erase,
                 settingsVars, bleReady, halted, saveLost>>

EraseReminded ==
  /\ Dispatch("ERASE_DONE", Deferred)
  /\ CountEraseDone
  /\ eraseReminder
  /\ eraseReminder' = FALSE
  /\ FlashErase(WholeStore)
  /\ afterPageWrap' = (afterPageWrap \/ ~eraseParameters.reinit)
  /\ UNCHANGED <<flashVars, listener, isEmpty, settingsVars, bleReady, saveLost>>

-----------------------------------------------------------------------------
(* MeasurementItemController.c                                             *)

\* Mutant: the pair is saved whether items can be added or not.
EvalTimeEventUnchecked(pair) ==
  /\ IsNext("TIME_ELAPSED") /\ Head(messages).pair = pair
  /\ Dispatch("TIME_ELAPSED", <<AddItemMessage("samples")>>)
  /\ isSampleReady' = FALSE
  /\ UNCHANGED <<flashVars, listenerVars, isEmpty, loggingInterval,
                 isAddItemPossible, nrOfPendingErase,
                 isLoggingIntervalChanged, settingsVars, bleReady, saveLost>>

\* EvalTimeEvent and SaveReadySamples: a pair that is ready is saved or kept.
EvalTimeEvent(pair) ==
  LET ready == isSampleReady \/ pair
      save == ready /\ isAddItemPossible
  IN  /\ IsNext("TIME_ELAPSED") /\ Head(messages).pair = pair
      /\ Dispatch("TIME_ELAPSED",
                  IF save THEN <<AddItemMessage("samples")>> ELSE <<>>)
      /\ isSampleReady' = (ready /\ ~save)
      /\ UNCHANGED <<flashVars, listenerVars, isEmpty, loggingInterval,
                     isAddItemPossible, nrOfPendingErase,
                     isLoggingIntervalChanged, settingsVars, bleReady, saveLost>>

IntervalNext(i) ==
  IsNext("SET_LOGGING_INTERVAL") /\ Head(messages).interval = i

KeepLoggingInterval ==
  /\ IntervalNext(loggingInterval)
  /\ Dispatch("SET_LOGGING_INTERVAL", <<>>)
  /\ UNCHANGED <<flashVars, listenerVars, isEmpty, sampleVars, settingsVars,
                 bleReady, saveLost>>

\* There is nothing to delete: the interval is saved at once.
SetLoggingInterval(i) ==
  /\ IntervalNext(i)
  /\ i # loggingInterval
  /\ isEmpty["samples"]
  /\ Dispatch("SET_LOGGING_INTERVAL", <<SaveMessage(i)>>)
  /\ loggingInterval' = i
  /\ isSampleReady' = FALSE
  /\ UNCHANGED <<flashVars, listenerVars, isEmpty, isAddItemPossible,
                 nrOfPendingErase, isLoggingIntervalChanged, settingsVars,
                 bleReady, saveLost>>

\* The samples are deleted, the interval is saved when that is done.
SetLoggingIntervalAndDelete(i) ==
  /\ IntervalNext(i)
  /\ i # loggingInterval
  /\ ~isEmpty["samples"]
  /\ Dispatch("SET_LOGGING_INTERVAL", <<Signal("ERASE")>>)
  /\ loggingInterval' = i
  /\ isSampleReady' = FALSE
  /\ isLoggingIntervalChanged' = TRUE
  /\ isEmpty' = [isEmpty EXCEPT !["samples"] = TRUE]
  /\ UNCHANGED <<flashVars, listenerVars, isAddItemPossible, nrOfPendingErase,
                 settingsVars, bleReady, saveLost>>

-----------------------------------------------------------------------------
(* SettingsController.c                                                    *)

PeripheralsInitialized ==
  /\ Dispatch("PERIPHERALS_INITIALIZED", <<Signal("BEGIN_ENUMERATE")>>)
  /\ UNCHANGED <<flashVars, listenerVars, isEmpty, sampleVars, settingsVars,
                 bleReady, saveLost>>

\* The settings are distributed; after a power on reset old samples are deleted.
DistributeSettings ==
  LET deletes == Head(messages).powerOn /\ ~isEmpty["samples"]
  IN  /\ Dispatch("BLE_SUBSYSTEM_READY",
                  <<Signal("DEVICE_SETTINGS_READ")>>
                    \o (IF deletes THEN <<Signal("ERASE")>> ELSE <<>>))
      /\ isEmpty' = [isEmpty EXCEPT !["samples"] = @ \/ deletes]
      /\ UNCHANGED <<flashVars, listenerVars, sampleVars, settingsVars,
                     bleReady, saveLost>>

\* The measurement item controller takes the interval from the settings.
DeviceSettingsRead ==
  /\ Dispatch("DEVICE_SETTINGS_READ", <<>>)
  /\ loggingInterval' = actualSettings
  /\ UNCHANGED <<flashVars, listenerVars, isEmpty, isAddItemPossible,
                 nrOfPendingErase, isSampleReady, isLoggingIntervalChanged,
                 settingsVars, bleReady, saveLost>>

\* UpdateAndNotify, unless the setting has this value already.
SaveLoggingInterval ==
  LET interval == Head(messages).interval
  IN  /\ Dispatch("SAVE_LOGGING_INTERVAL",
                  IF interval = actualSettings THEN <<>>
                                               ELSE <<AddItemMessage("config")>>)
      /\ actualSettings' = interval
      /\ UNCHANGED <<flashVars, listenerVars, isEmpty, sampleVars, settingsRead,
                     bleReady, saveLost>>

-----------------------------------------------------------------------------
(* Start of the program, and loss of power.                                *)

\* ItemStore_Init initializes both stores, one after the other.  A store whose
\* next page still holds data starts its erase; a second one is one too many.
Boot(stores, samples) ==
  /\ listener' = IF stores = {} THEN "Idle" ELSE "Erasing"
  /\ eraseParameters' \in
       [store : IF stores = {} THEN {"config"} ELSE stores, reinit : {FALSE}]
  /\ erase' = IF stores = {} THEN "none" ELSE "requested"
  /\ halted' = (stores = Store)
  /\ eraseReminder' = FALSE
  /\ isEmpty' = [config |-> storedSettings = NoItem, samples |-> ~samples]
  /\ messages' = <<Signal("PERIPHERALS_INITIALIZED")>>
  /\ loggingInterval' = InitialInterval
  /\ isAddItemPossible' = TRUE
  /\ nrOfPendingErase' = 0
  /\ isSampleReady' = FALSE
  /\ isLoggingIntervalChanged' = FALSE
  /\ actualSettings' = NoInterval
  /\ settingsRead' = FALSE
  /\ bleReady' = FALSE
  /\ saveLost' = FALSE
  /\ afterPageWrap' = FALSE

\* Some of the samples may be left when the erase of all was not finished.
Reset ==
  \E samples \in BOOLEAN :
    /\ samples => storedSamples
    /\ storedSamples /\ ~(erase = "running" /\ eraseParameters.reinit) => samples
    /\ storedSamples' = samples
    /\ UNCHANGED <<storedSettings, pageToErase>>
    /\ Boot(pageToErase, samples)

Init ==
  /\ storedSettings = NoItem
  /\ storedSamples = FALSE
  /\ pageToErase = {}
  /\ listener = "Idle"
  /\ eraseParameters = [store |-> "config", reinit |-> FALSE]
  /\ eraseReminder = FALSE
  /\ isEmpty = [store \in Store |-> TRUE]
  /\ erase = "none"
  /\ messages = <<Signal("PERIPHERALS_INITIALIZED")>>
  /\ loggingInterval = InitialInterval
  /\ isAddItemPossible = TRUE
  /\ nrOfPendingErase = 0
  /\ isSampleReady = FALSE
  /\ isLoggingIntervalChanged = FALSE
  /\ actualSettings = NoInterval
  /\ settingsRead = FALSE
  /\ bleReady = FALSE
  /\ halted = FALSE
  /\ saveLost = FALSE
  /\ afterPageWrap = FALSE

Request ==
  \/ \E powerOn \in BOOLEAN : BleSubsystemReady(powerOn)
  \/ \E i \in Interval : RequestSetLoggingInterval(i)
  \/ \E pair \in BOOLEAN : TimeTick(pair)

HandleItemStoreMessage ==
  \/ \E store \in Store : \/ AddItem(store)
                          \/ AddItemWithPageWrap(store)
                          \/ LoseItem(store)
  \/ FailToAddItem
  \/ InitializeSettings \/ IgnoreBeginEnumerate
  \/ BeginErase \/ RemindErase
  \/ EraseDone \/ EraseReminded

HandleSampleMessage ==
  \/ \E pair \in BOOLEAN : EvalTimeEvent(pair)
  \/ KeepLoggingInterval
  \/ \E i \in Interval : SetLoggingInterval(i) \/ SetLoggingIntervalAndDelete(i)

HandleSettingsMessage ==
  \/ PeripheralsInitialized \/ DistributeSettings \/ DeviceSettingsRead
  \/ SaveLoggingInterval

HandleMessage ==
  HandleItemStoreMessage \/ HandleSampleMessage \/ HandleSettingsMessage

Next == Request \/ HandleMessage \/ StartErase \/ FlashEraseDone \/ Reset

Spec == Init /\ [][Next]_vars

\* The broker runs while messages wait, the flash task gets its turn whenever
\* none does, and the flash ends an erase.
Fairness ==
  /\ WF_vars(HandleMessage)
  /\ SF_vars(StartErase)
  /\ WF_vars(FlashEraseDone)

FairSpec == Spec /\ Fairness

-----------------------------------------------------------------------------
(* Properties.                                                             *)

(***************************************************************************)
(* The listener of both stores is in ListenerErasingState exactly as long  *)
(* as an erase waits, runs or was just reported, once; so Flash_Erase,     *)
(* which both stores call in their handlers and both call while the        *)
(* program starts, never finds an erase running and never asserts.         *)
(***************************************************************************)
DoneMessages == {i \in DOMAIN messages : messages[i].id = "ERASE_DONE"}

SharedInterlock ==
  /\ listener = "Erasing" <=> erase # "none" \/ DoneMessages # {}
  /\ erase # "none" => DoneMessages = {}
  /\ \A i, j \in DoneMessages : i = j
  /\ \A s, t \in pageToErase : s = t
  /\ ~halted

(***************************************************************************)
(* The logging interval in use is the one in the settings, or somebody is  *)
(* about to save it: a request to save it waits, or it is put off until    *)
(* the samples are deleted.  Set and save go through three queued messages *)
(* and may overtake each other's effects.                                  *)
(***************************************************************************)
IntervalIsSaved ==
  settingsRead /\ bleReady
    /\ ~IsWaiting("BLE_SUBSYSTEM_READY") /\ ~IsWaiting("DEVICE_SETTINGS_READ")
  => \/ isLoggingIntervalChanged
     \/ actualSettings = loggingInterval
     \/ \E i \in DOMAIN messages : messages[i] = SaveMessage(loggingInterval)

(***************************************************************************)
(* The settings in flash are the actual ones, or an ADD_ITEM for them      *)
(* waits, or the last one came while the listener was erasing.  ADD_ITEM   *)
(* carries a pointer: several of them may write the same settings.         *)
(***************************************************************************)
SettingsArePersistent ==
  settingsRead /\ ~saveLost =>
    \/ storedSettings = actualSettings
    \/ storedSettings = NoItem /\ actualSettings = Default
    \/ \E i \in DOMAIN messages : messages[i] = AddItemMessage("config")

(***************************************************************************)
(* A pair of samples is refused only during the erase for a page wrap,     *)
(* which the measurement item controller does not know of, or during the   *)
(* deletions that follow it without a break: the controller has counted an *)
(* ERASE_DONE too early then.  In every other deletion it keeps a pair     *)
(* back.                                                                   *)
(***************************************************************************)
PairsLostOnlyAroundPageWrap ==
  [][LoseItem("samples") => ~eraseParameters.reinit \/ afterPageWrap]_vars

(***************************************************************************)
(* The count of pending erases returns to zero, though one reminder may    *)
(* stand for several ERASE messages and an erase for a page wrap has none: *)
(* samples are logged again, provided that requests leave the queue empty  *)
(* from time to time, as the flash task waits for that.                    *)
(***************************************************************************)
LoggingResumes ==
  []<>(messages = <<>>) => (~isAddItemPossible ~> isAddItemPossible)

=============================================================================
