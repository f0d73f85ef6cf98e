--------------------------- MODULE SampleDownload ---------------------------
(***************************************************************************)
(* The download of logged samples: the notification state of BleContext.c  *)
(* (task of the BLE messages), the sample request of                       *)
(* MeasurementItemController.c over the enumerator of ItemStore.c (task of *)
(* the application messages), and a client.                                *)
(*                                                                         *)
(* While the BLE task waits for the answer of CPU2 to a command, the       *)
(* sequencer runs application messages nested; the tasks of BLE messages   *)
(* and BLE events are paused.  Otherwise BLE messages go first.            *)
(*                                                                         *)
(* Lengths are counted in samples, not in bytes.  An item has two samples. *)
(***************************************************************************)
EXTENDS Integers, Sequences, FiniteSets

CONSTANTS
  PageItems,        \* items on a page, and in samplesCache
  NrOfPages,        \* pages of the item store
  SamplesPerFrame,  \* samples in a notification
  InitialCounts,    \* items in the log at the start
  Requests,         \* numbers of samples a client asks for
  EventKinds,       \* what happens besides the download
  MaxSubscriptions, \* bound on the subscriptions
  MaxEvents         \* bound on items added, frames refused, reads, and ends
                    \* of a subscription

ASSUME SampleDownloadAssumption ==
  /\ {PageItems, NrOfPages, SamplesPerFrame} \subseteq Nat \ {0}
  \* The samples of a page fill a number of frames.
  /\ \E frames \in 1 .. 2 * PageItems : 2 * PageItems = frames * SamplesPerFrame
  \* The samples of the log are counted in a uint16_t.
  /\ 2 * (NrOfPages * PageItems) < 65536
  /\ Requests \subseteq Nat
  /\ {MaxSubscriptions, MaxEvents} \subseteq Nat
  \* A log that ends with a page is only reached by adding items.
  /\ \A count \in InitialCounts :
       /\ count \in 0 .. NrOfPages * PageItems - 1
       /\ count % PageItems = 0 => count = 0
  /\ EventKinds \subseteq {"add", "refuse", "read", "unsubscribe"}

VARIABLES
  \* the item store: items are numbered from first
  first, count, erasing,
  \* _sampleEnumerator.startIndex, enumeratorStatusCb
  startIndex, statusCb,
  \* _sampleRequest
  request, samplesCache,
  \* _sampleNotification
  notification,
  \* frame whose answer the BLE task waits for, or NoFrame
  frame,
  \* queues
  appMessages, bleMessages,
  \* TX_POOL_AVAILABLE is owed
  poolEvent,
  \* the client: subscribed, waits for a read
  subscribed, reading,
  \* history: the last data frame was refused; see DownloadService
  blocked, announced, header, received, disturbed,
  \* bounded by MaxSubscriptions and MaxEvents
  subscriptions, events

storeVars == <<first, count, erasing>>
appVars == <<startIndex, statusCb, request, samplesCache>>
bleVars == <<notification, frame, blocked>>
clientVars == <<subscribed, reading, subscriptions>>
promiseVars == <<announced, header, received>>
vars == <<storeVars, appVars, bleVars, appMessages, bleMessages, poolEvent,
          clientVars, promiseVars, disturbed, events>>

Service == INSTANCE DownloadService WITH
             MaxRequest <- 2 * (NrOfPages * PageItems),
             oldest <- 2 * first,
             newest <- 2 * (first + count)

NoItem == -1
NoFrame == <<"none">>
HeaderFrame(number) == <<"header", number>>
DataFrame(samples) == <<"data", samples>>

Minimum(a, b) == IF a < b THEN a ELSE b

TypeOK ==
  /\ first \in Nat /\ count \in 0 .. NrOfPages * PageItems
  /\ erasing \in BOOLEAN
  /\ startIndex \in Nat
  /\ statusCb \in {"none", "CountSamples", "BeginReadSamples",
                   "ReadMoreSamples"}
  /\ request \in [requestedNrOfSamples : Nat, numberOfSamples : Nat,
                  extraSample : {0, 1}, enumeratorStartIndex : Nat,
                  alreadyReadSamples : Nat, dataLength : 0 .. 2 * PageItems]
  /\ samplesCache \in [1 .. PageItems -> Nat \cup {NoItem}]
  /\ notification \in [nrOfSamplesToTransmit : Nat, samplesTransmitted : Nat,
                       currentDataIndex : 0 .. 2 * PageItems,
                       dataLength : 0 .. 2 * PageItems]
  /\ frame = NoFrame \/ frame[1] \in {"header", "data"}
  /\ \A i \in DOMAIN appMessages :
       appMessages[i].id \in {"SET_REQUESTED_SAMPLES", "GET_NEXT_SAMPLES",
                              "GET_AVAILABLE_SAMPLES", "BEGIN_ENUMERATE"}
  /\ \A i \in DOMAIN bleMessages :
       bleMessages[i] \in {"SET_REQUESTED_SAMPLES", "GET_NEXT_SAMPLES",
                           "GET_AVAILABLE_SAMPLES", "TX_POOL_AVAILABLE"}
  /\ {poolEvent, subscribed, reading, blocked, disturbed} \subseteq BOOLEAN

-----------------------------------------------------------------------------
(* Tasks and queues.                                                       *)

BleTaskIsIdle == frame = NoFrame

\* An application message is next: nested in the BLE task, or else after all
\* BLE messages.
AppTaskRuns == ~BleTaskIsIdle \/ bleMessages = <<>>

IsNext(id) == AppTaskRuns /\ appMessages # <<>> /\ Head(appMessages).id = id

Message(id) == [id |-> id, parameter2 |-> 0]

IsPending(id) == \E i \in DOMAIN appMessages : appMessages[i].id = id

IsBlePending(id) == \E i \in DOMAIN bleMessages : bleMessages[i] = id

Publish(id) == appMessages' = Append(appMessages, Message(id))

Respond(id) == bleMessages' = Append(bleMessages, id)

IsBleNext(id) ==
  BleTaskIsIdle /\ bleMessages # <<>> /\ Head(bleMessages) = id

\* A download is still served, though it may be nobody's any more.
IsServing ==
  \/ IsPending("SET_REQUESTED_SAMPLES") \/ IsPending("GET_NEXT_SAMPLES")
  \/ IsPending("BEGIN_ENUMERATE") /\ statusCb # "CountSamples"
  \/ IsBlePending("SET_REQUESTED_SAMPLES") \/ IsBlePending("GET_NEXT_SAMPLES")
  \/ blocked

-----------------------------------------------------------------------------
(* Item store: what BeginEnumerate and GetNext do.                         *)

\* The items of a page that was just closed are counted twice.
TotalNrOfItems ==
  IF count > 0 /\ count % PageItems = 0 THEN count + PageItems ELSE count

\* FindEnumeratorStartPosition starts a page early at a page boundary.
StartPosition(index) ==
  IF index > 0 /\ index % PageItems = 0 THEN index - PageItems ELSE index

EnumeratorReady == StartPosition(startIndex) < count /\ startIndex <= count

\* Items that are read when at most limit ones are wanted; a read behind the
\* last item fails and ends the enumeration.
ReadableItems(limit) ==
  LET wanted == Minimum(limit, TotalNrOfItems - startIndex)
  IN  Minimum(wanted, count - StartPosition(startIndex))

\* The index of the caller counts the read that fails, too.
ReadIndex(limit) ==
  LET wanted == Minimum(limit, TotalNrOfItems - startIndex)
  IN  Minimum(wanted, count - StartPosition(startIndex) + 1)

\* One item is added; when it fills the last page, the oldest one is erased.
AddItem ==
  /\ "add" \in EventKinds
  /\ AppTaskRuns
  /\ ~erasing
  /\ IF count + 1 = NrOfPages * PageItems
       THEN /\ first' = first + PageItems
            /\ count' = count + 1 - PageItems
            /\ erasing' = TRUE
            /\ disturbed' = (disturbed \/
                             (announced # Service!NoPromise /\ ~Service!Complete))
       ELSE /\ count' = count + 1
            /\ UNCHANGED <<first, erasing, disturbed>>
  /\ UNCHANGED <<appVars, bleVars, appMessages, bleMessages, poolEvent,
                 clientVars, promiseVars>>

EraseDone ==
  /\ AppTaskRuns
  /\ erasing
  /\ erasing' = FALSE
  /\ UNCHANGED <<first, count, appVars, bleVars, appMessages, bleMessages,
                 poolEvent, clientVars, promiseVars, disturbed>>

-----------------------------------------------------------------------------
(* MeasurementItemController.c.                                            *)

\* ItemStore_BeginEnumerate; a callback that waits is replaced.
BeginEnumerate(callback) ==
  /\ statusCb' = callback
  /\ appMessages' = Append(Tail(appMessages), Message("BEGIN_ENUMERATE"))
  /\ disturbed' = (disturbed \/ IsPending("BEGIN_ENUMERATE"))

GetAvailableSamples ==
  /\ IsNext("GET_AVAILABLE_SAMPLES")
  /\ BeginEnumerate("CountSamples")
  /\ startIndex' = 0
  /\ UNCHANGED <<storeVars, request, samplesCache, bleVars, bleMessages, poolEvent,
                 clientVars, promiseVars>>

\* The start index is the one of the last enumeration.
SetRequestedSamples ==
  /\ IsNext("SET_REQUESTED_SAMPLES")
  /\ BeginEnumerate("BeginReadSamples")
  /\ request' = [request EXCEPT
       !.requestedNrOfSamples = Head(appMessages).parameter2,
       !.alreadyReadSamples = 0]
  /\ UNCHANGED <<storeVars, startIndex, samplesCache, bleVars, bleMessages,
                 poolEvent, clientVars, promiseVars>>

GetNextSamples ==
  /\ IsNext("GET_NEXT_SAMPLES")
  /\ BeginEnumerate("ReadMoreSamples")
  /\ startIndex' = request.enumeratorStartIndex
  /\ UNCHANGED <<storeVars, request, samplesCache, bleVars, bleMessages, poolEvent,
                 clientVars, promiseVars>>

\* BEGIN_ENUMERATE is dispatched, and the callback is called.
Enumerate(callback) ==
  /\ IsNext("BEGIN_ENUMERATE")
  /\ ~erasing
  /\ statusCb = callback
  /\ appMessages' = Tail(appMessages)
  /\ UNCHANGED <<storeVars, startIndex, statusCb, bleVars, poolEvent, clientVars,
                 header, received>>

\* ListenerErasingState drops the message.
IgnoreEnumerate ==
  /\ IsNext("BEGIN_ENUMERATE")
  /\ erasing
  /\ appMessages' = Tail(appMessages)
  /\ disturbed' = TRUE
  /\ UNCHANGED <<storeVars, appVars, bleVars, bleMessages, poolEvent, clientVars,
                 promiseVars>>

\* Mutant: no response for an empty log.
CountSomeSamples ==
  /\ Enumerate("CountSamples")
  /\ IF EnumeratorReady THEN Respond("GET_AVAILABLE_SAMPLES")
                        ELSE UNCHANGED bleMessages
  /\ UNCHANGED <<request, samplesCache, announced, disturbed>>

CountSamples ==
  /\ Enumerate("CountSamples")
  /\ Respond("GET_AVAILABLE_SAMPLES")
  /\ UNCHANGED <<request, samplesCache, announced, disturbed>>

\* First item to read, so that the last item is read last.
StartOfSamples(available, number) ==
  (available - number - (number % 2)) \div 2

BeginReadSamples ==
  LET available == IF EnumeratorReady THEN 2 * TotalNrOfItems ELSE 0
      number == Minimum(available, request.requestedNrOfSamples)
  IN  /\ Enumerate("BeginReadSamples")
      /\ request' = [request EXCEPT
           !.numberOfSamples = number,
           !.extraSample = number % 2,
           !.enumeratorStartIndex = IF available > number
                                      THEN StartOfSamples(available, number)
                                      ELSE 0]
      /\ Respond("SET_REQUESTED_SAMPLES")
      /\ announced' = IF subscribed
                        THEN Service!NewestSamples(request.requestedNrOfSamples)
                        ELSE announced
      /\ disturbed' = (disturbed \/ available # 2 * count)
      /\ UNCHANGED samplesCache

\* Compared with a number of items; uint16_t.
UnreadSamples ==
  (request.extraSample + request.numberOfSamples
     - 2 * request.alreadyReadSamples) % 65536

\* Mutant: the size of the cache is not considered.
UnreadLimit == UnreadSamples

ReadLimit == Minimum(PageItems, UnreadSamples)

ReadMoreSamples ==
  LET items == ReadableItems(ReadLimit)
      index == ReadIndex(ReadLimit)
  IN  /\ Enumerate("ReadMoreSamples")
      /\ EnumeratorReady
      /\ samplesCache' = [i \in DOMAIN samplesCache \cup 1 .. items |->
           IF i <= items THEN first + StartPosition(startIndex) + i - 1
                         ELSE samplesCache[i]]
      /\ request' = [request EXCEPT
           !.enumeratorStartIndex = @ + index,
           !.alreadyReadSamples = @ + index,
           !.dataLength = 2 * index]
      /\ Respond("GET_NEXT_SAMPLES")
      /\ disturbed' = (disturbed \/
           (UnreadSamples > 0 /\ StartPosition(startIndex) # startIndex))
      /\ UNCHANGED announced

\* ErrorHandler_RecoverableError; no response.
ReadNoSamples ==
  /\ Enumerate("ReadMoreSamples")
  /\ ~EnumeratorReady
  /\ UNCHANGED <<request, samplesCache, bleMessages, announced, disturbed>>

-----------------------------------------------------------------------------
(* BleContext.c: messages of the BLE task.                                 *)

\* What no step of the BLE task changes.
BleFrame ==
  UNCHANGED <<storeVars, appVars, subscribed, subscriptions, announced>>

AvailableSamplesResponse ==
  /\ IsBleNext("GET_AVAILABLE_SAMPLES")
  /\ bleMessages' = Tail(bleMessages)
  /\ reading' = FALSE
  /\ UNCHANGED <<bleVars, appMessages, poolEvent, header, received, disturbed>>
  /\ BleFrame

RequestedSamplesResponse ==
  /\ IsBleNext("SET_REQUESTED_SAMPLES")
  /\ bleMessages' = Tail(bleMessages)
  /\ notification' = [notification EXCEPT
       !.nrOfSamplesToTransmit = request.numberOfSamples,
       !.samplesTransmitted = 0]
  /\ frame' = HeaderFrame(request.numberOfSamples)
  /\ blocked' = FALSE
  /\ UNCHANGED <<appMessages, poolEvent, reading, header, received, disturbed>>
  /\ BleFrame

\* The header was taken by CPU2.
HeaderSent ==
  /\ frame[1] = "header"
  /\ frame' = NoFrame
  /\ header' = IF subscribed THEN frame[2] ELSE header
  /\ Publish("GET_NEXT_SAMPLES")
  /\ UNCHANGED <<notification, blocked, bleMessages, poolEvent, reading, received,
                 disturbed>>
  /\ BleFrame

\* CPU2 has no buffer and will tell when it has.
Refuse ==
  /\ "refuse" \in EventKinds
  /\ subscribed
  /\ poolEvent' = TRUE

\* The header is not sent again.
HeaderRefused ==
  /\ frame[1] = "header"
  /\ Refuse
  /\ frame' = NoFrame
  /\ disturbed' = TRUE
  /\ UNCHANGED <<notification, blocked, appMessages, bleMessages, reading, header,
                 received>>
  /\ BleFrame

StopSendSamples(state) ==
  IF state.samplesTransmitted > 0 /\ state.nrOfSamplesToTransmit > 0
    THEN [state EXCEPT !.nrOfSamplesToTransmit = 0, !.dataLength = 0]
    ELSE state

Sample(index) == 2 * samplesCache[index \div 2 + 1] + (index % 2)

\* TrySendSampleFrames in the given notification state: the next frame, the
\* next request, or the end.
TrySendSampleFrames(state) ==
  LET left == state.nrOfSamplesToTransmit - state.samplesTransmitted
      length == Minimum(SamplesPerFrame, left)
      index == state.currentDataIndex
  IN  IF index < state.dataLength /\ left > 0
        THEN /\ frame' = DataFrame([i \in 1 .. length |-> Sample(index + i - 1)])
             /\ notification' = state
             /\ UNCHANGED appMessages
        ELSE /\ frame' = NoFrame
             /\ IF left > 0
                  THEN /\ Publish("GET_NEXT_SAMPLES")
                       /\ notification' = state
                  ELSE /\ notification' = StopSendSamples(state)
                       /\ UNCHANGED appMessages

\* Mutant: more samples are requested before these ones are sent.
NextSamplesResponsePrefetch ==
  /\ IsBleNext("GET_NEXT_SAMPLES")
  /\ bleMessages' = Tail(bleMessages)
  /\ notification' = [notification EXCEPT !.dataLength = request.dataLength,
                                          !.currentDataIndex = 0]
  /\ frame' = DataFrame(<<Sample(0)>>)
  /\ Publish("GET_NEXT_SAMPLES")
  /\ blocked' = FALSE
  /\ UNCHANGED <<poolEvent, reading, header, received, disturbed>>
  /\ BleFrame

NextSamplesResponse ==
  /\ IsBleNext("GET_NEXT_SAMPLES")
  /\ bleMessages' = Tail(bleMessages)
  /\ TrySendSampleFrames([notification EXCEPT !.dataLength = request.dataLength,
                                              !.currentDataIndex = 0])
  /\ blocked' = FALSE
  /\ UNCHANGED <<poolEvent, reading, header, received, disturbed>>
  /\ BleFrame

\* Mutant: the rest of the samples is not sent.
TxPoolAvailableIgnored ==
  /\ IsBleNext("TX_POOL_AVAILABLE")
  /\ bleMessages' = Tail(bleMessages)
  /\ blocked' = FALSE
  /\ UNCHANGED <<notification, frame, appMessages, poolEvent, reading, header,
                 received, disturbed>>
  /\ BleFrame

\* When no data frame of the download was refused, samples are requested or
\* sent that must not be.
TxPoolAvailable ==
  /\ IsBleNext("TX_POOL_AVAILABLE")
  /\ bleMessages' = Tail(bleMessages)
  /\ TrySendSampleFrames(notification)
  /\ blocked' = FALSE
  /\ disturbed' = (disturbed \/
       (~blocked /\ notification.nrOfSamplesToTransmit
                      > notification.samplesTransmitted))
  /\ UNCHANGED <<poolEvent, reading, header, received>>
  /\ BleFrame

\* Mutant: the same samples are sent again.
FrameSentAgain ==
  /\ frame[1] = "data"
  /\ TrySendSampleFrames([notification EXCEPT
       !.samplesTransmitted = @ + Len(frame[2])])
  /\ received' = IF subscribed THEN received \o frame[2] ELSE received
  /\ UNCHANGED <<blocked, bleMessages, poolEvent, reading, header, disturbed>>
  /\ BleFrame

FrameSent ==
  /\ frame[1] = "data"
  /\ TrySendSampleFrames([notification EXCEPT
       !.currentDataIndex = @ + Len(frame[2]),
       !.samplesTransmitted = @ + Len(frame[2])])
  /\ received' = IF subscribed THEN received \o frame[2] ELSE received
  /\ UNCHANGED <<blocked, bleMessages, poolEvent, reading, header, disturbed>>
  /\ BleFrame

FrameRefused ==
  /\ frame[1] = "data"
  /\ Refuse
  /\ frame' = NoFrame
  /\ blocked' = TRUE
  /\ UNCHANGED <<notification, appMessages, bleMessages, reading, header, received,
                 disturbed>>
  /\ BleFrame

-----------------------------------------------------------------------------
(* The client, and other users of the radio: events of the BLE stack.      *)

PromiseNothing ==
  /\ announced' = Service!NoPromise
  /\ header' = Service!NoHeader
  /\ received' = <<>>

\* The number of samples and then the subscription are written.
Subscribe ==
  /\ BleTaskIsIdle
  /\ ~subscribed
  /\ subscriptions < MaxSubscriptions
  /\ subscribed' = TRUE
  /\ subscriptions' = subscriptions + 1
  /\ \E requested \in Requests :
       appMessages' = Append(appMessages,
         [Message("SET_REQUESTED_SAMPLES") EXCEPT !.parameter2 = requested])
  /\ disturbed' = (disturbed \/ IsServing)
  /\ UNCHANGED <<storeVars, appVars, bleVars, bleMessages, poolEvent, reading,
                 promiseVars>>

Unsubscribe ==
  /\ "unsubscribe" \in EventKinds
  /\ BleTaskIsIdle
  /\ subscribed
  /\ subscribed' = FALSE
  /\ notification' = StopSendSamples(notification)
  /\ blocked' = (blocked /\ notification' = notification)
  /\ PromiseNothing
  /\ UNCHANGED <<storeVars, appVars, frame, appMessages, bleMessages, poolEvent,
                 reading, subscriptions, disturbed>>

\* The samples are not stopped.
Disconnect ==
  /\ "unsubscribe" \in EventKinds
  /\ BleTaskIsIdle
  /\ subscribed
  /\ subscribed' = FALSE
  /\ reading' = FALSE
  /\ PromiseNothing
  /\ UNCHANGED <<storeVars, appVars, bleVars, appMessages, bleMessages, poolEvent,
                 subscriptions, disturbed>>

ReadAvailableSamples ==
  /\ "read" \in EventKinds
  /\ BleTaskIsIdle
  /\ ~reading
  /\ reading' = TRUE
  /\ Publish("GET_AVAILABLE_SAMPLES")
  /\ UNCHANGED <<storeVars, appVars, bleVars, bleMessages, poolEvent, subscribed,
                 subscriptions, promiseVars, disturbed>>

\* Another notification, a temperature for instance, is refused.
OtherRefused ==
  /\ BleTaskIsIdle
  /\ Refuse
  /\ UNCHANGED <<storeVars, appVars, bleVars, appMessages, bleMessages, clientVars,
                 promiseVars, disturbed>>

PoolEvent ==
  /\ BleTaskIsIdle
  /\ poolEvent
  /\ poolEvent' = FALSE
  /\ Respond("TX_POOL_AVAILABLE")
  /\ UNCHANGED <<storeVars, appVars, bleVars, appMessages, clientVars,
                 promiseVars, disturbed>>

-----------------------------------------------------------------------------
(* Specification.                                                          *)

Init ==
  /\ first = 0
  /\ count \in InitialCounts
  /\ erasing = FALSE
  /\ startIndex = 0
  /\ statusCb = "none"
  /\ request = [requestedNrOfSamples |-> 0, numberOfSamples |-> 0,
                extraSample |-> 0, enumeratorStartIndex |-> 0,
                alreadyReadSamples |-> 0, dataLength |-> 0]
  /\ samplesCache = [i \in 1 .. PageItems |-> NoItem]
  /\ notification = [nrOfSamplesToTransmit |-> 0, samplesTransmitted |-> 0,
                     currentDataIndex |-> 0, dataLength |-> 0]
  /\ frame = NoFrame
  /\ blocked = FALSE
  /\ appMessages = <<>>
  /\ bleMessages = <<>>
  /\ poolEvent = FALSE
  /\ events = 0
  /\ subscribed = FALSE
  /\ reading = FALSE
  /\ subscriptions = 0
  /\ announced = Service!NoPromise
  /\ header = Service!NoHeader
  /\ received = <<>>
  /\ disturbed = FALSE

AppTask ==
  /\ \/ GetAvailableSamples \/ SetRequestedSamples \/ GetNextSamples
     \/ IgnoreEnumerate
     \/ CountSamples \/ BeginReadSamples \/ ReadMoreSamples \/ ReadNoSamples
  /\ UNCHANGED events

BleTask ==
  /\ \/ AvailableSamplesResponse \/ RequestedSamplesResponse
     \/ NextSamplesResponse \/ TxPoolAvailable
  /\ UNCHANGED events

Answer == (HeaderSent \/ FrameSent) /\ UNCHANGED events

BackgroundEnds == (PoolEvent \/ EraseDone) /\ UNCHANGED events

Event ==
  /\ events < MaxEvents
  /\ events' = events + 1
  /\ \/ AddItem
     \/ HeaderRefused \/ FrameRefused \/ OtherRefused
     \/ Unsubscribe \/ Disconnect
     \/ ReadAvailableSamples

Next ==
  \/ AppTask \/ BleTask \/ Answer \/ BackgroundEnds
  \/ Subscribe /\ UNCHANGED events
  \/ Event

Spec == Init /\ [][Next]_vars

\* Tasks run, CPU2 answers and tells of free buffers, an erase ends.
Fairness ==
  /\ WF_vars(AppTask)
  /\ WF_vars(BleTask)
  /\ WF_vars(Answer)
  /\ WF_vars(BackgroundEnds)

FairSpec == Spec /\ Fairness

-----------------------------------------------------------------------------
(* Properties.                                                             *)

(***************************************************************************)
(* samplesCache is filled by the task of the application messages, which   *)
(* runs nested while a frame is sent, and read by the BLE task.  It is not *)
(* overwritten between two frames, unless the download was disturbed.      *)
(***************************************************************************)
CacheIsStable ==
  [][samplesCache' # samplesCache =>
       disturbed' \/ ~subscribed \/ (frame[1] # "data" /\ ~blocked)]_vars

(***************************************************************************)
(* The detailed protocol keeps the promise of DownloadService: the samples *)
(* that come after the header are the newest ones, in order and complete,  *)
(* though the log grows, CPU2 refuses frames, and the tasks are nested.    *)
(***************************************************************************)
ImplementsDownload == Service!Spec

(***************************************************************************)
(* A client that stays subscribed gets all samples, unless the download    *)
(* was disturbed; a refused frame does not end it.                         *)
(***************************************************************************)
DownloadCompletes ==
  subscribed ~> (Service!Complete \/ ~subscribed \/ disturbed)

(***************************************************************************)
(* The read of the available samples, which CPU2 holds up until it is      *)
(* allowed, is answered, also for an empty log and during a download.      *)
(***************************************************************************)
ReadsAreAnswered == reading ~> (~reading \/ disturbed)

=============================================================================
