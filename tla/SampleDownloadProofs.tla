------------------------ MODULE SampleDownloadProofs ------------------------
(***************************************************************************)
(* Proofs about SampleDownload, for any size of pages, log and frames, any *)
(* requests and any number of events: the types, that the cache of samples *)
(* is stable while it is sent, and that the protocol implements            *)
(* DownloadService.                                                        *)
(***************************************************************************)
EXTENDS SampleDownload, SequenceTheorems, TLAPS

-----------------------------------------------------------------------------
(* Queues.                                                                 *)

AppTokens == {"SET_REQUESTED_SAMPLES", "GET_NEXT_SAMPLES", "BEGIN_ENUMERATE"}

AppMessage == [id : AppTokens \cup {"GET_AVAILABLE_SAMPLES"}, parameter2 : Nat]

Messages(id) == [id : {id}, parameter2 : Nat]

BleTokens == {"SET_REQUESTED_SAMPLES", "GET_NEXT_SAMPLES"}

BleMessage == BleTokens \cup {"GET_AVAILABLE_SAMPLES", "TX_POOL_AVAILABLE"}

None(messages, S) == \A i \in DOMAIN messages : messages[i] \notin S

Single(messages, S) ==
  \E i \in DOMAIN messages :
    /\ messages[i] \in S
    /\ \A j \in DOMAIN messages : j # i => messages[j] \notin S

\* A BEGIN_ENUMERATE that counts samples is no part of a download.
Counts(callback, id) == id = "BEGIN_ENUMERATE" /\ callback = "CountSamples"

\* The queue holds one message of a download, which has this id, or none.
AppQueueHolds(messages, callback, id) ==
  \A token \in AppTokens :
    IF token = id THEN Single(messages, Messages(token))
                  ELSE Counts(callback, token) \/ None(messages, Messages(token))

BleQueueHolds(messages, id) ==
  \A token \in BleTokens :
    IF token = id THEN Single(messages, {token}) ELSE None(messages, {token})

LEMMA Appended ==
  ASSUME NEW S, NEW s \in Seq(S), NEW e \in S, NEW T
  PROVE  /\ Append(s, e) \in Seq(S)
         /\ e \notin T /\ None(s, T) => None(Append(s, e), T)
         /\ e \notin T /\ Single(s, T) => Single(Append(s, e), T)
         /\ e \in T /\ None(s, T) => Single(Append(s, e), T)
<1> DEFINE t == Append(s, e)
<1>1. /\ t \in Seq(S) /\ Len(s) \in Nat /\ Len(t) = Len(s) + 1
      /\ DOMAIN s = 1 .. Len(s) /\ DOMAIN t = 1 .. Len(s) + 1
      /\ t[Len(s) + 1] = e
      /\ \A i \in 1 .. Len(s) : t[i] = s[i]
  BY AppendProperties
<1> HIDE DEF t
<1>2. \A i \in DOMAIN t : (i \in DOMAIN s /\ t[i] = s[i]) \/ (i = Len(s) + 1 /\ t[i] = e)
  BY <1>1
<1>3. Len(s) + 1 \in DOMAIN t /\ Len(s) + 1 \notin DOMAIN s
  BY <1>1
<1>4. \A i \in DOMAIN s : i \in DOMAIN t /\ t[i] = s[i]
  BY <1>1
<1>5. e \notin T /\ None(s, T) => None(t, T)
  BY <1>2 DEF None
<1>6. e \notin T /\ Single(s, T) => Single(t, T)
  BY <1>2, <1>4 DEF Single
<1>7. e \in T /\ None(s, T) => Single(t, T)
  BY <1>1, <1>2, <1>3 DEF None, Single
<1> QED
  BY <1>1, <1>5, <1>6, <1>7 DEF t

LEMMA Taken ==
  ASSUME NEW S, NEW s \in Seq(S), s # <<>>, NEW T
  PROVE  /\ Head(s) \in S /\ Tail(s) \in Seq(S)
         /\ Head(s) \notin T /\ None(s, T) => None(Tail(s), T)
         /\ Head(s) \notin T /\ Single(s, T) => Single(Tail(s), T)
         /\ Head(s) \in T => ~ None(s, T)
         /\ Head(s) \in T /\ Single(s, T) => None(Tail(s), T)
<1> DEFINE t == Tail(s)
<1>1. /\ Head(s) \in S /\ t \in Seq(S)
      /\ Head(s) = s[1] /\ 1 \in DOMAIN s
      /\ \A i \in DOMAIN t : i + 1 \in DOMAIN s /\ i + 1 # 1 /\ t[i] = s[i + 1]
      /\ \A k \in DOMAIN s : k \in Nat /\ (k = 1 \/ k - 1 \in DOMAIN t)
      /\ DOMAIN t \subseteq Nat
  BY HeadTailProperties
<1> HIDE DEF t
<1>2. \A k \in DOMAIN s : k # 1 => s[k] = t[k - 1]
  BY <1>1
<1>3. Head(s) \notin T /\ None(s, T) => None(t, T)
  BY <1>1 DEF None
<1>4. ASSUME Head(s) \notin T, Single(s, T)
      PROVE  Single(t, T)
  <2>1. PICK i \in DOMAIN s : /\ s[i] \in T
                              /\ \A j \in DOMAIN s : j # i => s[j] \notin T
    BY <1>4 DEF Single
  <2>2. i - 1 \in DOMAIN t /\ t[i - 1] \in T
    BY <1>1, <1>2, <1>4, <2>1
  <2>3. \A j \in DOMAIN t : j # i - 1 => t[j] \notin T
    <3> TAKE j \in DOMAIN t
    <3> HAVE j # i - 1
    <3>1. j + 1 # i /\ j + 1 \in DOMAIN s /\ t[j] = s[j + 1]
      BY <1>1, <2>1
    <3> QED
      BY <2>1, <3>1
  <2> QED
    BY <2>2, <2>3 DEF Single
<1>5. Head(s) \in T => ~ None(s, T)
  BY <1>1 DEF None
<1>6. Head(s) \in T /\ Single(s, T) => None(t, T)
  BY <1>1 DEF None, Single
<1> QED
  BY <1>1, <1>3, <1>4, <1>5, <1>6 DEF t

\* A message is of one kind.
LEMMA Kinds ==
  ASSUME NEW m \in AppMessage
  PROVE  /\ m.id \in AppTokens \cup {"GET_AVAILABLE_SAMPLES"}
         /\ \A id : m \in Messages(id) <=> m.id = id
BY DEF AppMessage, Messages

LEMMA AppMessages ==
  /\ \A id \in AppTokens \cup {"GET_AVAILABLE_SAMPLES"} :
       Message(id) \in AppMessage /\ Message(id).id = id
  /\ \A requested \in Nat :
       LET m == [Message("SET_REQUESTED_SAMPLES") EXCEPT !.parameter2 = requested]
       IN  m \in AppMessage /\ m.id = "SET_REQUESTED_SAMPLES"
BY DEF Message, AppMessage, AppTokens

\* Whether a message waits.
LEMMA Waits ==
  ASSUME NEW s \in Seq(AppMessage), NEW id
  PROVE  /\ (\E i \in DOMAIN s : s[i].id = id) <=> ~ None(s, Messages(id))
         /\ Single(s, Messages(id)) => ~ None(s, Messages(id))
<1>1. \A i \in DOMAIN s : s[i] \in AppMessage
  BY ElementOfSeq, LenProperties
<1>2. \A i \in DOMAIN s : s[i] \in Messages(id) <=> s[i].id = id
  BY <1>1, Kinds
<1> QED
  BY <1>2 DEF None, Single

LEMMA AppPublished ==
  ASSUME NEW s \in Seq(AppMessage), NEW callback, NEW id, NEW m \in AppMessage,
         AppQueueHolds(s, callback, id)
  PROVE  /\ m.id \notin AppTokens => AppQueueHolds(Append(s, m), callback, id)
         /\ id = "none" /\ m.id \in AppTokens /\ ~ Counts(callback, m.id)
              => AppQueueHolds(Append(s, m), callback, m.id)
<1>1. ASSUME NEW token \in AppTokens
      PROVE  /\ m.id # token /\ None(s, Messages(token)) => None(Append(s, m), Messages(token))
             /\ m.id # token /\ Single(s, Messages(token)) => Single(Append(s, m), Messages(token))
             /\ m.id = token /\ None(s, Messages(token)) => Single(Append(s, m), Messages(token))
  BY Kinds, Appended
<1>2. ASSUME m.id \notin AppTokens
      PROVE  AppQueueHolds(Append(s, m), callback, id)
  BY <1>1, <1>2 DEF AppQueueHolds
<1>3. ASSUME id = "none", m.id \in AppTokens, ~ Counts(callback, m.id)
      PROVE  AppQueueHolds(Append(s, m), callback, m.id)
  BY <1>1, <1>3 DEF AppQueueHolds, AppTokens
<1> QED
  BY <1>2, <1>3

LEMMA AppTaken ==
  ASSUME NEW s \in Seq(AppMessage), s # <<>>, NEW callback, NEW id,
         AppQueueHolds(s, callback, id)
  PROVE  /\ Tail(s) \in Seq(AppMessage)
         /\ \/ Head(s).id \notin AppTokens
            \/ Counts(callback, Head(s).id) /\ id # "BEGIN_ENUMERATE"
            => AppQueueHolds(Tail(s), callback, id)
         /\ Head(s).id \in AppTokens /\ ~ Counts(callback, Head(s).id)
              => id = Head(s).id
         /\ Head(s).id \in AppTokens /\ id = Head(s).id
              => AppQueueHolds(Tail(s), callback, "none")
<1>1. Head(s) \in AppMessage /\ Tail(s) \in Seq(AppMessage)
  BY Taken
<1>2. ASSUME NEW token \in AppTokens
      PROVE  /\ Head(s).id # token /\ None(s, Messages(token)) => None(Tail(s), Messages(token))
             /\ Head(s).id # token /\ Single(s, Messages(token)) => Single(Tail(s), Messages(token))
             /\ Head(s).id = token => ~ None(s, Messages(token))
             /\ Head(s).id = token /\ Single(s, Messages(token)) => None(Tail(s), Messages(token))
  BY <1>1, Kinds, Taken
<1>3. ASSUME \/ Head(s).id \notin AppTokens
             \/ Counts(callback, Head(s).id) /\ id # "BEGIN_ENUMERATE"
      PROVE  AppQueueHolds(Tail(s), callback, id)
  BY <1>2, <1>3 DEF AppQueueHolds, Counts
<1>4. ASSUME Head(s).id \in AppTokens, ~ Counts(callback, Head(s).id)
      PROVE  id = Head(s).id
  BY <1>2, <1>4 DEF AppQueueHolds
<1>5. ASSUME Head(s).id \in AppTokens, id = Head(s).id
      PROVE  AppQueueHolds(Tail(s), callback, "none")
  BY <1>2, <1>5 DEF AppQueueHolds, AppTokens
<1> QED
  BY <1>1, <1>3, <1>4, <1>5

\* BEGIN_ENUMERATE is published while none waits.
LEMMA BeginPublished ==
  ASSUME NEW s \in Seq(AppMessage), s # <<>>, NEW callback, NEW id,
         AppQueueHolds(s, callback, id),
         ~ \E i \in DOMAIN s : s[i].id = "BEGIN_ENUMERATE"
  PROVE  LET t == Append(Tail(s), Message("BEGIN_ENUMERATE"))
         IN  /\ t \in Seq(AppMessage)
             /\ id # "BEGIN_ENUMERATE"
             /\ Head(s).id \notin AppTokens => AppQueueHolds(t, "CountSamples", id)
             /\ Head(s).id \in AppTokens
                  => \A new : AppQueueHolds(t, new, "BEGIN_ENUMERATE")
<1> DEFINE m == Message("BEGIN_ENUMERATE")
           t == Append(Tail(s), m)
<1>1. m \in AppMessage /\ m.id = "BEGIN_ENUMERATE"
  BY AppMessages DEF AppTokens
<1>2. None(s, Messages("BEGIN_ENUMERATE"))
  BY Waits
<1>3. "BEGIN_ENUMERATE" \in AppTokens /\ id # "BEGIN_ENUMERATE"
  BY <1>2, Waits DEF AppQueueHolds, AppTokens
<1>4. /\ Head(s) \in AppMessage /\ Tail(s) \in Seq(AppMessage)
      /\ Head(s).id # "BEGIN_ENUMERATE"
  BY <1>2, Taken, Kinds
<1>5. None(Tail(s), Messages("BEGIN_ENUMERATE"))
  BY <1>2, <1>4, Taken, Kinds
<1>6. /\ t \in Seq(AppMessage)
      /\ Single(t, Messages("BEGIN_ENUMERATE"))
  BY <1>1, <1>4, <1>5, Appended, Kinds
<1>7. ASSUME NEW token \in AppTokens, token # "BEGIN_ENUMERATE"
      PROVE  /\ None(Tail(s), Messages(token)) => None(t, Messages(token))
             /\ Single(Tail(s), Messages(token)) => Single(t, Messages(token))
  BY <1>1, <1>4, <1>7, Appended, Kinds
<1>8. ASSUME Head(s).id \notin AppTokens
      PROVE  AppQueueHolds(t, "CountSamples", id)
  <2>1. AppQueueHolds(Tail(s), callback, id)
    BY <1>8, AppTaken
  <2> HIDE DEF t
  <2> QED
    BY <1>3, <1>7, <2>1 DEF AppQueueHolds, Counts
<1>9. ASSUME Head(s).id \in AppTokens, NEW new
      PROVE  AppQueueHolds(t, new, "BEGIN_ENUMERATE")
  <2>1. ~ Counts(callback, Head(s).id)
    BY <1>4 DEF Counts
  <2>2. AppQueueHolds(Tail(s), callback, "none")
    BY <1>9, <2>1, AppTaken
  <2> HIDE DEF t
  <2> QED
    BY <1>6, <1>7, <2>2 DEF AppQueueHolds, Counts, AppTokens
<1> QED
  BY <1>3, <1>6, <1>8, <1>9

LEMMA BlePublished ==
  ASSUME NEW s \in Seq(BleMessage), NEW id, NEW m \in BleMessage, BleQueueHolds(s, id)
  PROVE  /\ Append(s, m) \in Seq(BleMessage)
         /\ m \notin BleTokens => BleQueueHolds(Append(s, m), id)
         /\ id = "none" /\ m \in BleTokens => BleQueueHolds(Append(s, m), m)
<1>1. ASSUME NEW token \in BleTokens
      PROVE  /\ m # token /\ None(s, {token}) => None(Append(s, m), {token})
             /\ m # token /\ Single(s, {token}) => Single(Append(s, m), {token})
             /\ m = token /\ None(s, {token}) => Single(Append(s, m), {token})
  BY Appended
<1>2. ASSUME m \notin BleTokens
      PROVE  BleQueueHolds(Append(s, m), id)
  BY <1>1, <1>2 DEF BleQueueHolds
<1>3. ASSUME id = "none", m \in BleTokens
      PROVE  BleQueueHolds(Append(s, m), m)
  BY <1>1, <1>3 DEF BleQueueHolds, BleTokens
<1> QED
  BY <1>2, <1>3, Appended

LEMMA BleTaken ==
  ASSUME NEW s \in Seq(BleMessage), s # <<>>, NEW id, BleQueueHolds(s, id)
  PROVE  /\ Tail(s) \in Seq(BleMessage)
         /\ Head(s) \notin BleTokens => BleQueueHolds(Tail(s), id)
         /\ Head(s) \in BleTokens
              => id = Head(s) /\ BleQueueHolds(Tail(s), "none")
<1>1. ASSUME NEW token \in BleTokens
      PROVE  /\ Head(s) # token /\ None(s, {token}) => None(Tail(s), {token})
             /\ Head(s) # token /\ Single(s, {token}) => Single(Tail(s), {token})
             /\ Head(s) = token => ~ None(s, {token})
             /\ Head(s) = token /\ Single(s, {token}) => None(Tail(s), {token})
  BY Taken
<1>2. ASSUME Head(s) \notin BleTokens
      PROVE  BleQueueHolds(Tail(s), id)
  BY <1>1, <1>2 DEF BleQueueHolds
<1>3. ASSUME Head(s) \in BleTokens
      PROVE  id = Head(s) /\ BleQueueHolds(Tail(s), "none")
  BY <1>1, <1>3 DEF BleQueueHolds, BleTokens
<1> QED
  BY <1>2, <1>3, Taken

-----------------------------------------------------------------------------
(* Types.                                                                  *)

CacheSize == 2 * PageItems

DataLengths == 0 .. CacheSize

RequestState ==
  [requestedNrOfSamples : Nat, numberOfSamples : Nat, extraSample : {0, 1},
   enumeratorStartIndex : Nat, alreadyReadSamples : Nat, dataLength : DataLengths]

NotificationState ==
  [nrOfSamplesToTransmit : Nat, samplesTransmitted : Nat,
   currentDataIndex : DataLengths, dataLength : DataLengths]

Cache == [1 .. PageItems -> Nat \cup {NoItem}]

Left(state) == state.nrOfSamplesToTransmit - state.samplesTransmitted

\* The samples in front of this index fill a number of frames.
IsFrameStart(index) ==
  \E frames \in 0 .. CacheSize : index = frames * SamplesPerFrame

\* A frame does not read behind the cache: what is left over after a frame
\* that is not full is never sent.
IsAligned(state) ==
  \/ IsFrameStart(state.currentDataIndex)
  \/ state.dataLength = 0

IsSending(state) == state.currentDataIndex < state.dataLength /\ Left(state) > 0

FrameInv ==
  /\ frame[1] \in {"none", "header", "data"}
  /\ frame[1] = "none" => frame = NoFrame
  /\ frame[1] = "header" => frame[2] \in Nat
  /\ frame[1] = "data" =>
       /\ frame[2] \in Seq(Int)
       /\ Len(frame[2]) = Minimum(SamplesPerFrame, Left(notification))
       /\ IsSending(notification)
  /\ IsAligned(notification)

NothingPromised ==
  announced = Service!NoPromise /\ header = Service!NoHeader /\ received = <<>>

StoreType ==
  /\ first \in Nat
  /\ count \in Nat
  /\ count < NrOfPages * PageItems
  /\ erasing \in BOOLEAN

AppType ==
  /\ startIndex \in Nat
  /\ statusCb \in {"none", "CountSamples", "BeginReadSamples", "ReadMoreSamples"}
  /\ request \in RequestState
  /\ samplesCache \in Cache

QueueType == appMessages \in Seq(AppMessage) /\ bleMessages \in Seq(BleMessage)

BleType == notification \in NotificationState /\ FrameInv /\ blocked \in BOOLEAN

ClientType ==
  /\ {poolEvent, subscribed, reading, disturbed} \subseteq BOOLEAN
  /\ received \in Seq(Int)
  /\ ~ subscribed => NothingPromised

TypeInv == StoreType /\ AppType /\ QueueType /\ BleType /\ ClientType

LEMMA Constants ==
  /\ PageItems \in Nat \ {0} /\ NrOfPages \in Nat \ {0} /\ SamplesPerFrame \in Nat \ {0}
  /\ CacheSize \in Nat \ {0}
  /\ NrOfPages * PageItems \in Nat /\ 2 * (NrOfPages * PageItems) < 65536
  /\ NrOfPages * PageItems >= PageItems
  /\ NoItem \in Int
<1>1. /\ PageItems \in Nat \ {0} /\ NrOfPages \in Nat \ {0} /\ SamplesPerFrame \in Nat \ {0}
      /\ 2 * (NrOfPages * PageItems) < 65536
  BY SampleDownloadAssumption
<1>2. ASSUME NEW n \in Nat \ {0}, NEW p \in Nat \ {0}
      PROVE  n * p \in Nat /\ n * p >= p
  OBVIOUS
<1> QED
  BY <1>1, <1>2 DEF CacheSize, NoItem

LEMMA Tuples ==
  /\ NoFrame[1] = "none"
  /\ \A n : HeaderFrame(n)[1] = "header" /\ HeaderFrame(n)[2] = n
  /\ \A s : DataFrame(s)[1] = "data" /\ DataFrame(s)[2] = s
BY DEF NoFrame, HeaderFrame, DataFrame

LEMMA TypeImplied == TypeInv => TypeOK
<1> SUFFICES ASSUME TypeInv PROVE TypeOK
  OBVIOUS
<1>1. first \in Nat /\ count \in 0 .. NrOfPages * PageItems /\ erasing \in BOOLEAN
  BY Constants DEF TypeInv, StoreType
<1>2. /\ startIndex \in Nat
      /\ statusCb \in {"none", "CountSamples", "BeginReadSamples", "ReadMoreSamples"}
      /\ request \in RequestState
      /\ samplesCache \in [1 .. PageItems -> Nat \cup {NoItem}]
  BY DEF TypeInv, AppType, Cache
<1>3. /\ notification \in NotificationState
      /\ frame = NoFrame \/ frame[1] \in {"header", "data"}
  BY DEF TypeInv, BleType, FrameInv
<1>4. /\ \A i \in DOMAIN appMessages : appMessages[i] \in AppMessage
      /\ \A i \in DOMAIN bleMessages : bleMessages[i] \in BleMessage
  BY ElementOfSeq, LenProperties DEF TypeInv, QueueType
<1>5. {poolEvent, subscribed, reading, blocked, disturbed} \subseteq BOOLEAN
  BY DEF TypeInv, BleType, ClientType
<1> QED
  BY <1>1, <1>2, <1>3, <1>4, <1>5
     DEF TypeOK, RequestState, NotificationState, DataLengths, CacheSize, AppMessage, BleMessage,
         AppTokens, BleTokens

\* A frame that starts within the cache ends within it.
LEMMA FrameFits ==
  ASSUME NEW index \in Nat, IsFrameStart(index), index < CacheSize
  PROVE  index + SamplesPerFrame <= CacheSize /\ IsFrameStart(index + SamplesPerFrame)
<1>1. PICK f \in 0 .. CacheSize : index = f * SamplesPerFrame
  BY DEF IsFrameStart
<1>2. PICK g \in 1 .. CacheSize : CacheSize = g * SamplesPerFrame
  BY SampleDownloadAssumption DEF CacheSize
<1>3. ASSUME NEW a \in Nat, NEW b \in Nat, NEW n \in Nat \ {0}, a * n < b * n
      PROVE  (a + 1) * n <= b * n /\ a + 1 <= b /\ (a + 1) * n = a * n + n
  <2>1. a < b
    BY <1>3
  <2>2. (a + 1) * n = a * n + n
    OBVIOUS
  <2>3. b - (a + 1) \in Nat
    BY <2>1
  <2>4. (b - (a + 1)) * n \in Nat
    BY <2>3
  <2>5. (b - (a + 1)) * n = b * n - (a + 1) * n
    OBVIOUS
  <2> QED
    BY <2>1, <2>2, <2>4, <2>5
<1>4. /\ (f + 1) * SamplesPerFrame <= g * SamplesPerFrame /\ f + 1 <= g
      /\ (f + 1) * SamplesPerFrame = f * SamplesPerFrame + SamplesPerFrame
  BY <1>1, <1>2, <1>3, Constants
<1>5. f + 1 \in 0 .. CacheSize
  BY <1>4, Constants
<1> QED
  BY <1>1, <1>2, <1>4, <1>5 DEF IsFrameStart

LEMMA SampleTyped ==
  ASSUME samplesCache \in Cache, NEW index \in 0 .. CacheSize - 1
  PROVE  Sample(index) \in Int
<1>1. index \div 2 + 1 \in 1 .. PageItems /\ index % 2 \in {0, 1}
  BY Constants DEF CacheSize
<1>2. samplesCache[index \div 2 + 1] \in Int
  BY <1>1, Constants DEF Cache
<1> QED
  BY <1>1, <1>2 DEF Sample

LEMMA StopTyped ==
  ASSUME NEW state \in NotificationState,
         IsAligned(state) \/ (Left(state) = 0 /\ state.samplesTransmitted > 0)
  PROVE  StopSendSamples(state) \in NotificationState /\ IsAligned(StopSendSamples(state))
<1>1. CASE state.samplesTransmitted > 0 /\ state.nrOfSamplesToTransmit > 0
  <2>1. 0 \in DataLengths
    BY Constants DEF DataLengths
  <2> DEFINE stopped == [state EXCEPT !.nrOfSamplesToTransmit = 0, !.dataLength = 0]
  <2>2. StopSendSamples(state) = stopped
    BY <1>1 DEF StopSendSamples
  <2>3. stopped \in NotificationState /\ stopped.dataLength = 0
    BY <2>1 DEF NotificationState
  <2> HIDE DEF stopped
  <2> QED
    BY <2>2, <2>3 DEF IsAligned
<1>2. CASE ~ (state.samplesTransmitted > 0 /\ state.nrOfSamplesToTransmit > 0)
  <2>1. StopSendSamples(state) = state
    BY <1>2 DEF StopSendSamples
  <2>2. ~ (Left(state) = 0 /\ state.samplesTransmitted > 0)
    BY <1>2 DEF Left, NotificationState
  <2> QED
    BY <2>1, <2>2
<1> QED
  BY <1>1, <1>2

LEMMA TrySendTyped ==
  ASSUME NEW state \in NotificationState, samplesCache \in Cache,
         appMessages \in Seq(AppMessage), TrySendSampleFrames(state),
         IsAligned(state) \/ (Left(state) = 0 /\ state.samplesTransmitted > 0)
  PROVE  notification' \in NotificationState /\ FrameInv' /\ appMessages' \in Seq(AppMessage)
<1> DEFINE left == Left(state)
           length == Minimum(SamplesPerFrame, left)
           index == state.currentDataIndex
           samples == [i \in 1 .. length |-> Sample(index + i - 1)]
<1>1. left \in Int /\ index \in 0 .. CacheSize /\ state.dataLength \in 0 .. CacheSize
  BY DEF NotificationState, DataLengths, Left
<1>2. CASE IsSending(state)
  <2>1. length \in Nat /\ length <= SamplesPerFrame
    BY <1>1, <1>2, Constants DEF Minimum, IsSending
  <2>2. IsFrameStart(index)
    BY <1>1, <1>2, Constants DEF IsAligned, IsSending, Left
  <2>3. index + SamplesPerFrame <= CacheSize
    BY <1>1, <1>2, <2>2, FrameFits, Constants DEF IsSending
  <2>4. \A i \in 1 .. length : Sample(index + i - 1) \in Int
    <3> TAKE i \in 1 .. length
    <3>1. index + i - 1 \in 0 .. CacheSize - 1
      BY <1>1, <2>1, <2>3, Constants
    <3> QED
      BY <3>1, SampleTyped
  <2>5. samples \in Seq(Int) /\ Len(samples) = length
    BY <2>1, <2>4
  <2>6. /\ frame' = DataFrame(samples) /\ notification' = state
        /\ appMessages' = appMessages
    BY <1>2 DEF TrySendSampleFrames, IsSending, Left
  <2> HIDE DEF samples
  <2>7. frame'[1] = "data" /\ frame'[2] = samples
    BY <2>6, Tuples
  <2>8. IsAligned(state)
    BY <1>2 DEF IsSending, Left
  <2> QED
    BY <1>2, <2>5, <2>6, <2>7, <2>8 DEF FrameInv, IsSending, IsAligned, Left
<1>3. CASE ~ IsSending(state)
  <2>1. /\ frame' = NoFrame
        /\ IF left > 0 THEN Publish("GET_NEXT_SAMPLES") /\ notification' = state
                       ELSE notification' = StopSendSamples(state) /\ UNCHANGED appMessages
    BY <1>3 DEF TrySendSampleFrames, IsSending, Left
  <2>2. appMessages' \in Seq(AppMessage)
    BY <2>1, AppMessages, Appended DEF Publish, AppTokens
  <2>3. notification' \in NotificationState /\ IsAligned(notification')
    BY <2>1, StopTyped DEF Left
  <2>4. frame'[1] = "none"
    BY <2>1, Tuples
  <2> QED
    BY <2>1, <2>2, <2>3, <2>4 DEF FrameInv, IsAligned
<1> QED
  BY <1>2, <1>3

LEMMA StoreUnchanged == StoreType /\ UNCHANGED storeVars => StoreType'
BY DEF StoreType, storeVars

LEMMA AppUnchanged == AppType /\ UNCHANGED appVars => AppType'
BY DEF AppType, appVars

LEMMA BleUnchanged ==
  BleType /\ UNCHANGED <<notification, frame>> /\ blocked' \in BOOLEAN => BleType'
BY DEF BleType, FrameInv, IsSending, IsAligned

\* The state of the BLE task is right while no frame waits.
LEMMA BleIdle ==
  ASSUME frame' = NoFrame, notification' \in NotificationState,
         IsAligned(notification'), blocked' \in BOOLEAN
  PROVE  BleType'
BY Tuples DEF BleType, FrameInv, IsAligned

LEMMA ClientUnchanged ==
  ClientType /\ UNCHANGED <<poolEvent, subscribed, reading, announced, header, received>>
    /\ disturbed' \in BOOLEAN => ClientType'
BY DEF ClientType, NothingPromised

LEMMA Published ==
  ASSUME QueueType
  PROVE  /\ \A id \in AppTokens \cup {"GET_AVAILABLE_SAMPLES"} :
              /\ Append(appMessages, Message(id)) \in Seq(AppMessage)
              /\ appMessages # <<>>
                   => Append(Tail(appMessages), Message(id)) \in Seq(AppMessage)
         /\ \A id \in BleMessage : Append(bleMessages, id) \in Seq(BleMessage)
         /\ appMessages # <<>> => Tail(appMessages) \in Seq(AppMessage)
         /\ bleMessages # <<>> => Tail(bleMessages) \in Seq(BleMessage)
<1>1. appMessages # <<>> => Tail(appMessages) \in Seq(AppMessage)
  BY Taken DEF QueueType
<1>2. bleMessages # <<>> => Tail(bleMessages) \in Seq(BleMessage)
  BY Taken DEF QueueType
<1>3. \A id \in BleMessage : Append(bleMessages, id) \in Seq(BleMessage)
  BY Appended DEF QueueType
<1>4. \A id \in AppTokens \cup {"GET_AVAILABLE_SAMPLES"} :
        /\ Append(appMessages, Message(id)) \in Seq(AppMessage)
        /\ appMessages # <<>> => Append(Tail(appMessages), Message(id)) \in Seq(AppMessage)
  BY <1>1, AppMessages, Appended DEF QueueType
<1> QED
  BY <1>1, <1>2, <1>3, <1>4

\* Where the enumerator starts is in the log.
LEMMA StartPositionTyped ==
  ASSUME NEW index \in Nat
  PROVE  StartPosition(index) \in Nat /\ StartPosition(index) <= index
<1>1. ASSUME NEW p \in Nat \ {0}, index > 0, index % p = 0
      PROVE  index >= p
  <2>1. CASE index < p
    <3>1. index % p = index
      BY <1>1, <2>1
    <3> QED
      BY <1>1, <3>1
  <2> QED
    BY <2>1
<1> QED
  BY <1>1, Constants DEF StartPosition

\* What is read fits into the cache.
LEMMA ReadLengths ==
  ASSUME StoreType, AppType, EnumeratorReady, NEW limit \in 0 .. PageItems
  PROVE  /\ ReadableItems(limit) \in 0 .. limit
         /\ ReadIndex(limit) \in 0 .. limit
<1>1. /\ startIndex \in Nat /\ StartPosition(startIndex) \in Nat
      /\ StartPosition(startIndex) < count /\ startIndex <= count /\ count \in Nat
  BY StartPositionTyped DEF EnumeratorReady, StoreType, AppType
<1>2. TotalNrOfItems \in Nat /\ TotalNrOfItems >= count
  BY <1>1, Constants DEF TotalNrOfItems
<1> QED
  BY <1>1, <1>2, Constants DEF ReadableItems, ReadIndex, Minimum

LEMMA ReadLimitTyped ==
  ASSUME AppType
  PROVE  UnreadSamples \in Nat /\ ReadLimit \in 0 .. PageItems
<1>1. request.extraSample + request.numberOfSamples - 2 * request.alreadyReadSamples \in Int
  BY DEF AppType, RequestState
<1>2. UnreadSamples \in Nat
  BY <1>1 DEF UnreadSamples
<1> QED
  BY <1>2, Constants DEF ReadLimit, Minimum

LEMMA ReadMoreTyped ==
  ASSUME StoreType, AppType, ReadMoreSamples
  PROVE  request' \in RequestState /\ samplesCache' \in Cache
<1> DEFINE items == ReadableItems(ReadLimit)
           index == ReadIndex(ReadLimit)
           start == StartPosition(startIndex)
<1>1. ReadLimit \in 0 .. PageItems
  BY ReadLimitTyped
<1>2. items \in 0 .. ReadLimit /\ index \in 0 .. ReadLimit
  BY <1>1, ReadLengths DEF ReadMoreSamples
<1>3. start \in Nat /\ first \in Nat /\ request \in RequestState /\ samplesCache \in Cache
  BY StartPositionTyped DEF AppType, StoreType
<1>4. request' \in RequestState
  <2> DEFINE new == [request EXCEPT !.enumeratorStartIndex = @ + index,
                                    !.alreadyReadSamples = @ + index,
                                    !.dataLength = 2 * index]
  <2>1. request' = new
    BY DEF ReadMoreSamples
  <2>2. index \in Nat /\ 2 * index \in DataLengths
    BY <1>1, <1>2, Constants DEF CacheSize, DataLengths
  <2> HIDE DEF index
  <2>3. new \in RequestState
    <3> DEFINE next == request.enumeratorStartIndex + index
               already == request.alreadyReadSamples + index
               length == 2 * index
    <3>1. next \in Nat /\ already \in Nat /\ length \in DataLengths
      BY <1>3, <2>2 DEF RequestState
    <3>2. new = [request EXCEPT !.enumeratorStartIndex = next,
                                !.alreadyReadSamples = already, !.dataLength = length]
      OBVIOUS
    <3> HIDE DEF next, already, length
    <3>3. [request EXCEPT !.enumeratorStartIndex = next,
                          !.alreadyReadSamples = already, !.dataLength = length]
            \in RequestState
      BY <1>3, <3>1 DEF RequestState
    <3> HIDE DEF new
    <3> QED
      BY <3>2, <3>3
  <2> HIDE DEF new
  <2> QED
    BY <2>1, <2>3
<1>5. samplesCache' \in Cache
  <2>1. samplesCache' = [i \in DOMAIN samplesCache \cup 1 .. items |->
                           IF i <= items THEN first + start + i - 1 ELSE samplesCache[i]]
    BY DEF ReadMoreSamples
  <2>2. items \in Nat /\ items <= PageItems
    BY <1>1, <1>2, Constants
  <2> HIDE DEF items, start
  <2>3. DOMAIN samplesCache \cup 1 .. items = 1 .. PageItems
    BY <1>3, <2>2, Constants DEF Cache
  <2>4. \A i \in 1 .. PageItems : i <= items => first + start + i - 1 \in Nat
    BY <1>3, <2>2
  <2> QED
    BY <1>3, <2>1, <2>3, <2>4 DEF Cache
<1> QED
  BY <1>4, <1>5

\* The steps of the application task.
LEMMA AppTaskTyped ==
  ASSUME TypeInv, AppTask
  PROVE  TypeInv'
<1> USE DEF TypeInv
<1>0. disturbed \in BOOLEAN /\ blocked \in BOOLEAN
  BY DEF ClientType, BleType
<1>1. ASSUME UNCHANGED storeVars, UNCHANGED bleVars,
             UNCHANGED <<poolEvent, clientVars, promiseVars>>, disturbed' \in BOOLEAN
      PROVE  StoreType' /\ BleType' /\ ClientType'
  BY <1>0, <1>1, StoreUnchanged, BleUnchanged, ClientUnchanged
     DEF bleVars, clientVars, promiseVars
<1>2. ASSUME NEW callback, BeginEnumerate(callback), UNCHANGED bleMessages, appMessages # <<>>
      PROVE  QueueType' /\ disturbed' \in BOOLEAN
  BY <1>0, <1>2, Published DEF BeginEnumerate, QueueType, AppTokens
<1>3. request \in RequestState /\ startIndex \in Nat /\ samplesCache \in Cache
  BY DEF AppType
<1>4. CASE GetAvailableSamples
  BY <1>1, <1>2, <1>3, <1>4 DEF GetAvailableSamples, IsNext, AppType, BeginEnumerate
<1>5. CASE SetRequestedSamples
  <2>1. Head(appMessages).parameter2 \in Nat
    <3>1. Head(appMessages) \in AppMessage
      BY <1>5, HeadTailProperties DEF SetRequestedSamples, IsNext, QueueType
    <3> QED
      BY <3>1 DEF AppMessage
  <2>2. request' \in RequestState
    BY <1>3, <1>5, <2>1 DEF SetRequestedSamples, RequestState
  <2> QED
    BY <1>1, <1>2, <1>3, <1>5, <2>2 DEF SetRequestedSamples, IsNext, AppType, BeginEnumerate
<1>6. CASE GetNextSamples
  <2>1. startIndex' \in Nat
    BY <1>3, <1>6 DEF GetNextSamples, RequestState
  <2> QED
    BY <1>1, <1>2, <1>3, <1>6, <2>1 DEF GetNextSamples, IsNext, AppType, BeginEnumerate
<1>7. CASE IgnoreEnumerate
  BY <1>1, <1>7, AppUnchanged, Published DEF IgnoreEnumerate, IsNext, QueueType
<1>8. ASSUME NEW callback, NEW id \in BleMessage, Enumerate(callback), Respond(id)
      PROVE  QueueType'
  BY <1>8, Published DEF Enumerate, IsNext, Respond, QueueType
<1>9. CASE CountSamples
  BY <1>0, <1>1, <1>8, <1>9, AppUnchanged
     DEF CountSamples, Enumerate, BleMessage, appVars, promiseVars
<1>10. CASE BeginReadSamples
  <2> DEFINE available == IF EnumeratorReady THEN 2 * TotalNrOfItems ELSE 0
             number == Minimum(available, request.requestedNrOfSamples)
             start == IF available > number THEN StartOfSamples(available, number) ELSE 0
  <2>1. request' \in RequestState
    <3>1. TotalNrOfItems \in Nat
      BY Constants DEF TotalNrOfItems, StoreType
    <3>2. PICK half \in Nat : available = 2 * half
      BY <3>1
    <3>3. number \in Nat /\ number <= available /\ number % 2 \in {0, 1}
      BY <1>3, <3>2 DEF Minimum, RequestState
    <3>4. start \in Nat
      BY <3>2, <3>3 DEF StartOfSamples
    <3>5. request' = [request EXCEPT !.numberOfSamples = number, !.extraSample = number % 2,
                                     !.enumeratorStartIndex = start]
      BY <1>10 DEF BeginReadSamples
    <3> HIDE DEF number, start
    <3> QED
      BY <1>3, <3>3, <3>4, <3>5 DEF RequestState
  <2>2. QueueType'
    BY <1>8, <1>10 DEF BeginReadSamples, BleMessage, BleTokens
  <2>3. StoreType' /\ BleType'
    BY <1>0, <1>10, StoreUnchanged, BleUnchanged DEF BeginReadSamples, Enumerate, bleVars
  <2>4. ClientType'
    BY <1>0, <1>10 DEF BeginReadSamples, Enumerate, ClientType, clientVars, NothingPromised
  <2> QED
    BY <1>3, <1>10, <2>1, <2>2, <2>3, <2>4 DEF BeginReadSamples, Enumerate, AppType
<1>11. CASE ReadMoreSamples
  <2>1. request' \in RequestState /\ samplesCache' \in Cache
    BY <1>11, ReadMoreTyped DEF ReadMoreSamples
  <2>2. QueueType'
    BY <1>8, <1>11 DEF ReadMoreSamples, BleMessage, BleTokens
  <2>3. disturbed' \in BOOLEAN /\ UNCHANGED promiseVars
    BY <1>0, <1>11 DEF ReadMoreSamples, Enumerate, promiseVars
  <2> QED
    BY <1>1, <1>3, <1>11, <2>1, <2>2, <2>3 DEF ReadMoreSamples, Enumerate, AppType
<1>12. CASE ReadNoSamples
  <2>1. QueueType'
    BY <1>12, Published DEF ReadNoSamples, Enumerate, IsNext, QueueType
  <2> QED
    BY <1>0, <1>1, <1>12, <2>1, AppUnchanged
       DEF ReadNoSamples, Enumerate, appVars, promiseVars
<1> QED
  BY <1>4, <1>5, <1>6, <1>7, <1>9, <1>10, <1>11, <1>12 DEF AppTask

\* The steps of the BLE task.
LEMMA BleTaskTyped ==
  ASSUME TypeInv, BleTask \/ Answer
  PROVE  TypeInv'
<1> USE DEF TypeInv
<1>0. /\ disturbed \in BOOLEAN /\ blocked \in BOOLEAN
      /\ notification \in NotificationState /\ IsAligned(notification)
      /\ FALSE \in BOOLEAN
  BY DEF ClientType, BleType, FrameInv
<1>1. ASSUME BleFrame PROVE StoreType' /\ AppType'
  BY <1>1, StoreUnchanged, AppUnchanged DEF BleFrame
<1>2. ASSUME BleFrame, poolEvent' = poolEvent, reading' \in BOOLEAN,
             UNCHANGED header, UNCHANGED received, disturbed' \in BOOLEAN
      PROVE  ClientType'
  BY <1>2 DEF BleFrame, ClientType, NothingPromised
<1>3. ASSUME NEW id, IsBleNext(id) PROVE bleMessages # <<>> /\ frame = NoFrame
  BY <1>3 DEF IsBleNext, BleTaskIsIdle
<1>4. reading \in BOOLEAN
  BY DEF ClientType
<1>5. CASE AvailableSamplesResponse
  BY <1>0, <1>1, <1>2, <1>3, <1>5, BleUnchanged, Published
     DEF AvailableSamplesResponse, bleVars, QueueType
<1>6. CASE RequestedSamplesResponse
  <2> DEFINE n == request.numberOfSamples
             new == [notification EXCEPT !.nrOfSamplesToTransmit = n,
                                         !.samplesTransmitted = 0]
  <2>1. n \in Nat
    BY DEF AppType, RequestState
  <2>2. notification' = new /\ frame' = HeaderFrame(n) /\ blocked' = FALSE
    BY <1>6 DEF RequestedSamplesResponse
  <2> HIDE DEF n
  <2>3. /\ new \in NotificationState
        /\ new.currentDataIndex = notification.currentDataIndex
        /\ new.dataLength = notification.dataLength
    BY <1>0, <2>1 DEF NotificationState
  <2> HIDE DEF new
  <2>4. IsAligned(new)
    BY <1>0, <2>3 DEF IsAligned
  <2>5. BleType'
    BY <1>0, <2>1, <2>2, <2>3, <2>4, Tuples DEF BleType, FrameInv, IsAligned
  <2> QED
    BY <1>0, <1>1, <1>2, <1>3, <1>4, <1>6, <2>5, Published
       DEF RequestedSamplesResponse, QueueType
<1>7. ASSUME NEW state \in NotificationState, TrySendSampleFrames(state),
             IsAligned(state) \/ (Left(state) = 0 /\ state.samplesTransmitted > 0),
             blocked' \in BOOLEAN
      PROVE  BleType' /\ appMessages' \in Seq(AppMessage)
  BY <1>7, TrySendTyped DEF BleType, AppType, QueueType
<1>8. CASE NextSamplesResponse
  <2> DEFINE length == request.dataLength
             new == [notification EXCEPT !.dataLength = length, !.currentDataIndex = 0]
  <2>1. length \in DataLengths /\ 0 \in DataLengths
    BY Constants DEF AppType, RequestState, DataLengths
  <2>2. TrySendSampleFrames(new) /\ blocked' = FALSE
    BY <1>8 DEF NextSamplesResponse
  <2> HIDE DEF length
  <2>3. new \in NotificationState /\ new.currentDataIndex = 0
    BY <1>0, <2>1 DEF NotificationState
  <2> HIDE DEF new
  <2>4. IsAligned(new)
    BY <2>3, Constants DEF IsAligned, IsFrameStart
  <2>5. BleType' /\ appMessages' \in Seq(AppMessage)
    BY <1>0, <1>7, <2>2, <2>3, <2>4
  <2> QED
    BY <1>0, <1>1, <1>2, <1>3, <1>4, <1>8, <2>5, Published
       DEF NextSamplesResponse, QueueType
<1>9. CASE TxPoolAvailable
  <2>1. BleType' /\ appMessages' \in Seq(AppMessage)
    BY <1>0, <1>7, <1>9 DEF TxPoolAvailable
  <2> QED
    BY <1>0, <1>1, <1>2, <1>3, <1>4, <1>9, <2>1, Published DEF TxPoolAvailable, QueueType
<1>10. CASE HeaderSent
  <2>1. BleType'
    BY <1>0, <1>10, BleIdle DEF HeaderSent
  <2>2. ClientType'
    BY <1>10 DEF HeaderSent, BleFrame, ClientType, NothingPromised
  <2> QED
    BY <1>1, <1>10, <2>1, <2>2, Published DEF HeaderSent, Publish, QueueType, AppTokens
<1>11. CASE FrameSent
  <2> DEFINE length == Len(frame[2])
             index == notification.currentDataIndex
             new == [notification EXCEPT !.currentDataIndex = @ + length,
                                         !.samplesTransmitted = @ + length]
  <2>1. /\ frame[2] \in Seq(Int) /\ length = Minimum(SamplesPerFrame, Left(notification))
        /\ IsSending(notification)
    BY <1>11 DEF FrameSent, BleType, FrameInv
  <2>2. TrySendSampleFrames(new) /\ UNCHANGED <<blocked, bleMessages, poolEvent, reading>>
        /\ UNCHANGED disturbed /\ BleFrame
    BY <1>11 DEF FrameSent
  <2>3. /\ length \in Nat /\ length > 0
        /\ length = SamplesPerFrame \/ length = Left(notification)
        /\ length <= SamplesPerFrame
    BY <1>0, <2>1, Constants DEF Minimum, IsSending, Left, NotificationState
  <2>4. /\ IsFrameStart(index) /\ index \in Nat /\ index < CacheSize
    BY <1>0, <2>1, Constants DEF IsSending, IsAligned, NotificationState, DataLengths
  <2>5. index + SamplesPerFrame <= CacheSize /\ IsFrameStart(index + SamplesPerFrame)
    BY <2>4, FrameFits
  <2> HIDE DEF length
  <2>6. index + length \in DataLengths /\ notification.samplesTransmitted + length \in Nat
    BY <1>0, <2>3, <2>4, <2>5, Constants DEF DataLengths, NotificationState
  <2>7. /\ new \in NotificationState
        /\ new.currentDataIndex = index + length
        /\ new.samplesTransmitted = notification.samplesTransmitted + length
        /\ new.nrOfSamplesToTransmit = notification.nrOfSamplesToTransmit
    BY <1>0, <2>6 DEF NotificationState
  <2> HIDE DEF new
  <2>8. IsAligned(new) \/ (Left(new) = 0 /\ new.samplesTransmitted > 0)
    <3>1. CASE length = SamplesPerFrame
      BY <2>5, <2>7, <3>1 DEF IsAligned
    <3>2. CASE length = Left(notification)
      BY <1>0, <2>3, <2>7, <3>2 DEF Left, NotificationState
    <3> QED
      BY <2>3, <3>1, <3>2
  <2>9. BleType' /\ appMessages' \in Seq(AppMessage)
    BY <1>0, <1>7, <2>2, <2>7, <2>8
  <2>10. ClientType'
    <3>1. received \o frame[2] \in Seq(Int)
      BY <2>1, ConcatProperties DEF ClientType
    <3>2. /\ UNCHANGED <<poolEvent, reading, subscribed, announced, header, disturbed>>
          /\ received' = IF subscribed THEN received \o frame[2] ELSE received
      BY <1>11 DEF FrameSent, BleFrame
    <3> QED
      BY <3>1, <3>2 DEF ClientType, NothingPromised
  <2> QED
    BY <1>1, <2>2, <2>9, <2>10 DEF QueueType
<1> QED
  BY <1>5, <1>6, <1>8, <1>9, <1>10, <1>11 DEF BleTask, Answer

\* What the client does and what happens in between.
LEMMA OutsideTyped ==
  ASSUME TypeInv, Event \/ BackgroundEnds \/ Subscribe
  PROVE  TypeInv'
<1> USE DEF TypeInv
<1>0. /\ {disturbed, blocked, poolEvent, subscribed, reading, erasing} \subseteq BOOLEAN
      /\ {TRUE, FALSE} \subseteq BOOLEAN
      /\ notification \in NotificationState /\ IsAligned(notification)
  BY DEF ClientType, BleType, FrameInv, StoreType
<1>1. ASSUME UNCHANGED storeVars, UNCHANGED appVars
      PROVE  StoreType' /\ AppType'
  BY <1>1, StoreUnchanged, AppUnchanged
<1>2. ASSUME UNCHANGED bleVars PROVE BleType'
  BY <1>0, <1>2, BleUnchanged DEF bleVars
<1>3. ASSUME UNCHANGED <<appMessages, bleMessages>> PROVE QueueType'
  BY <1>3 DEF QueueType
<1>4. ASSUME UNCHANGED <<subscribed, announced, header, received>>,
             poolEvent' \in BOOLEAN, reading' \in BOOLEAN, disturbed' \in BOOLEAN
      PROVE  ClientType'
  BY <1>4 DEF ClientType, NothingPromised
<1>5. CASE AddItem
  <2>1. /\ first' \in Nat /\ count' \in Nat /\ count' < NrOfPages * PageItems
        /\ erasing' \in BOOLEAN /\ disturbed' \in BOOLEAN
    <3>1. CASE count + 1 = NrOfPages * PageItems
      BY <1>0, <1>5, <3>1, Constants DEF AddItem, StoreType
    <3>2. CASE count + 1 # NrOfPages * PageItems
      BY <1>0, <1>5, <3>2, Constants DEF AddItem, StoreType
    <3> QED
      BY <3>1, <3>2
  <2> QED
    BY <1>0, <1>2, <1>3, <1>4, <1>5, <2>1, AppUnchanged
       DEF AddItem, StoreType, clientVars, promiseVars
<1>6. CASE EraseDone
  BY <1>0, <1>2, <1>3, <1>4, <1>6, AppUnchanged
     DEF EraseDone, StoreType, clientVars, promiseVars
<1>7. CASE HeaderRefused
  BY <1>0, <1>1, <1>3, <1>4, <1>7, BleIdle DEF HeaderRefused, Refuse, BleFrame
<1>8. CASE FrameRefused
  BY <1>0, <1>1, <1>3, <1>4, <1>8, BleIdle DEF FrameRefused, Refuse, BleFrame
<1>9. CASE OtherRefused
  BY <1>0, <1>1, <1>2, <1>3, <1>4, <1>9 DEF OtherRefused, Refuse, clientVars, promiseVars
<1>10. CASE Unsubscribe
  <2>1. BleType'
    BY <1>0, <1>10, BleIdle, StopTyped DEF Unsubscribe, BleTaskIsIdle
  <2>2. ClientType'
    BY <1>0, <1>10, EmptySeq DEF Unsubscribe, PromiseNothing, ClientType, NothingPromised
  <2> QED
    BY <1>1, <1>3, <1>10, <2>1, <2>2 DEF Unsubscribe
<1>11. CASE Disconnect
  <2>1. ClientType'
    BY <1>0, <1>11, EmptySeq DEF Disconnect, PromiseNothing, ClientType, NothingPromised
  <2> QED
    BY <1>1, <1>2, <1>3, <1>11, <2>1 DEF Disconnect
<1>12. CASE ReadAvailableSamples
  <2>1. QueueType'
    BY <1>12, Published DEF ReadAvailableSamples, Publish, QueueType
  <2> QED
    BY <1>0, <1>1, <1>2, <1>4, <1>12, <2>1 DEF ReadAvailableSamples, promiseVars
<1>13. CASE PoolEvent
  <2>1. QueueType'
    BY <1>13, Published DEF PoolEvent, Respond, QueueType, BleMessage
  <2> QED
    BY <1>0, <1>1, <1>2, <1>4, <1>13, <2>1 DEF PoolEvent, clientVars, promiseVars
<1>14. CASE Subscribe
  <2>1. PICK requested \in Requests :
          appMessages' = Append(appMessages,
            [Message("SET_REQUESTED_SAMPLES") EXCEPT !.parameter2 = requested])
    BY <1>14 DEF Subscribe
  <2>2. requested \in Nat
    BY SampleDownloadAssumption
  <2>3. QueueType'
    BY <1>14, <2>1, <2>2, AppMessages, Appended DEF Subscribe, QueueType
  <2>4. disturbed' \in BOOLEAN /\ subscribed' = TRUE
    BY <1>0, <1>14 DEF Subscribe
  <2>5. ClientType'
    BY <1>0, <1>14, <2>4 DEF Subscribe, ClientType, promiseVars
  <2> QED
    BY <1>1, <1>2, <1>14, <2>3, <2>5 DEF Subscribe
<1> QED
  BY <1>5, <1>6, <1>7, <1>8, <1>9, <1>10, <1>11, <1>12, <1>13, <1>14
     DEF Event, BackgroundEnds

LEMMA InitTyped == Init => TypeInv
<1> SUFFICES ASSUME Init PROVE TypeInv
  OBVIOUS
<1> USE DEF Init
<1>1. StoreType
  <2>1. count \in 0 .. NrOfPages * PageItems - 1 /\ first = 0 /\ erasing = FALSE
    BY SampleDownloadAssumption
  <2>2. NrOfPages * PageItems \in Nat
    BY Constants
  <2> DEFINE size == NrOfPages * PageItems
  <2> HIDE DEF size, Init
  <2>3. count \in Nat /\ count < size
    BY <2>1, <2>2 DEF size
  <2> QED
    BY <2>1, <2>3 DEF StoreType, size
<1>2. 0 \in DataLengths
  BY Constants DEF DataLengths
<1>3. request \in RequestState /\ notification \in NotificationState
  BY <1>2 DEF RequestState, NotificationState
<1>4. samplesCache \in Cache
  BY DEF Cache
<1>5. AppType
  BY <1>3, <1>4 DEF AppType
<1>6. QueueType
  BY EmptySeq DEF QueueType
<1>7. BleType
  BY <1>3, Tuples DEF BleType, FrameInv, IsAligned
<1>8. ClientType
  BY EmptySeq DEF ClientType, NothingPromised
<1> QED
  BY <1>1, <1>5, <1>6, <1>7, <1>8 DEF TypeInv

LEMMA NextTyped == TypeInv /\ [Next]_vars => TypeInv'
<1> SUFFICES ASSUME TypeInv, [Next]_vars PROVE TypeInv'
  OBVIOUS
<1>1. CASE UNCHANGED vars
  <2>1. disturbed \in BOOLEAN /\ blocked \in BOOLEAN
    BY DEF TypeInv, ClientType, BleType
  <2> QED
    BY <1>1, <2>1, StoreUnchanged, AppUnchanged, BleUnchanged, ClientUnchanged
       DEF TypeInv, QueueType, vars, bleVars, clientVars, promiseVars
<1> QED
  BY <1>1, AppTaskTyped, BleTaskTyped, OutsideTyped DEF Next

LEMMA TypesKept == Spec => []TypeInv
BY InitTyped, NextTyped, PTL DEF Spec

(***************************************************************************)
(* The types: no frame is read from behind the cache, and no item is       *)
(* written behind it, whatever is refused, subscribed and unsubscribed.    *)
(***************************************************************************)
THEOREM TypeCorrect == Spec => []TypeOK
BY TypesKept, TypeImplied, PTL

-----------------------------------------------------------------------------
(* The phases of a download.                                               *)

AppHolds(id) == AppQueueHolds(appMessages, statusCb, id)

BleHolds(id) == BleQueueHolds(bleMessages, id)

NoAnswer == frame = NoFrame /\ blocked = FALSE

PromiseInv ==
  /\ announced.number \in Nat /\ announced.from \in Nat
  /\ announced.number <= 2 * (NrOfPages * PageItems)
  /\ request.numberOfSamples = announced.number
  /\ request.extraSample = announced.number % 2

\* What is promised is in the log, and the item to read is the one that comes
\* next.
RequestInv ==
  /\ announced.from + announced.number + (announced.number % 2) <= 2 * (first + count)
  /\ 2 * (first + request.enumeratorStartIndex)
       = announced.from + 2 * request.alreadyReadSamples

NotificationInv ==
  /\ notification.nrOfSamplesToTransmit = announced.number
  /\ header = announced.number
  /\ Len(received) = notification.samplesTransmitted

\* The cache holds the samples that follow the ones transmitted; when these are
\* not all, it is full, and exactly the items up to its end are read.
ChunkInv(length, transmitted) ==
  /\ \A k \in 0 .. length - 1 :
       transmitted + k < announced.number
         => Sample(k) = announced.from + transmitted + k
  /\ transmitted + length < announced.number
       => /\ transmitted + length = 2 * request.alreadyReadSamples
          /\ length = CacheSize

HeaderInv ==
  /\ PromiseInv /\ RequestInv
  /\ request.alreadyReadSamples = 0
  /\ header = Service!NoHeader /\ received = <<>>

ReadyInv ==
  /\ PromiseInv /\ NotificationInv
  /\ announced.number = 0 \/ (RequestInv /\ Left(notification) > 0)

WantedInv ==
  ReadyInv /\ notification.samplesTransmitted = 2 * request.alreadyReadSamples

SendingInv ==
  /\ ReadyInv
  /\ IsSending(notification)
  /\ notification.samplesTransmitted >= notification.currentDataIndex
  /\ ChunkInv(notification.dataLength,
              notification.samplesTransmitted - notification.currentDataIndex)

NextFrame ==
  DataFrame([i \in 1 .. Minimum(SamplesPerFrame, Left(notification)) |->
               announced.from + notification.samplesTransmitted + i - 1])

Asked == NoAnswer /\ NothingPromised
Begun ==
  /\ NoAnswer /\ NothingPromised
  /\ statusCb = "BeginReadSamples" /\ request.alreadyReadSamples = 0
Answered == NoAnswer /\ HeaderInv
HeaderGoes ==
  /\ frame = HeaderFrame(announced.number) /\ blocked = FALSE
  /\ HeaderInv
  /\ notification.nrOfSamplesToTransmit = announced.number
  /\ notification.samplesTransmitted = 0
Wanted == NoAnswer /\ WantedInv
Reading ==
  /\ NoAnswer /\ WantedInv
  /\ statusCb = "ReadMoreSamples" /\ startIndex = request.enumeratorStartIndex
Read ==
  /\ NoAnswer /\ ReadyInv
  /\ ChunkInv(request.dataLength, notification.samplesTransmitted)
Sending == frame = NextFrame /\ blocked = FALSE /\ SendingInv
Blocked == frame = NoFrame /\ blocked = TRUE /\ SendingInv

Phase ==
  \/ AppHolds("SET_REQUESTED_SAMPLES") /\ BleHolds("none") /\ Asked
  \/ AppHolds("BEGIN_ENUMERATE") /\ BleHolds("none") /\ (Begun \/ Reading)
  \/ AppHolds("GET_NEXT_SAMPLES") /\ BleHolds("none") /\ Wanted
  \/ AppHolds("none") /\ BleHolds("SET_REQUESTED_SAMPLES") /\ Answered
  \/ AppHolds("none") /\ BleHolds("GET_NEXT_SAMPLES") /\ Read
  \/ AppHolds("none") /\ BleHolds("none")
       /\ (HeaderGoes \/ Sending \/ Blocked \/ NoAnswer)

DownloadInv == ~ disturbed /\ subscribed => Phase

\* What a step that is no part of the download keeps.
DataKept ==
  /\ UNCHANGED <<request, samplesCache, notification, frame, blocked, announced, header,
                 received, first>>
  /\ count' \in Nat /\ count' >= count

LEMMA NeutralKeeps ==
  ASSUME TypeInv, Phase, DataKept,
         \A app : AppHolds(app) /\ (app = "BEGIN_ENUMERATE" => statusCb # "CountSamples")
                    => /\ AppHolds(app)'
                       /\ app = "BEGIN_ENUMERATE" => UNCHANGED <<startIndex, statusCb>>,
         \A ble : BleHolds(ble) => BleHolds(ble)'
  PROVE  Phase'
<1>1. /\ UNCHANGED <<request, samplesCache, notification, frame, blocked, announced, header,
                     received, first>>
      /\ count' \in Nat /\ count' >= count
  BY DEF DataKept
<1>2. PromiseInv => PromiseInv'
  BY <1>1 DEF PromiseInv
<1>3. PromiseInv /\ RequestInv => RequestInv'
  BY <1>1 DEF RequestInv, PromiseInv, TypeInv, StoreType
<1>4. NotificationInv => NotificationInv'
  BY <1>1 DEF NotificationInv
<1>5. HeaderInv => HeaderInv'
  BY <1>1, <1>2, <1>3 DEF HeaderInv
<1>6. ReadyInv => ReadyInv'
  BY <1>1, <1>2, <1>3, <1>4 DEF ReadyInv, Left
<1>7. ASSUME NEW length, NEW transmitted
      PROVE  ChunkInv(length, transmitted) <=>
               /\ \A k \in 0 .. length - 1 :
                    transmitted + k < announced'.number
                      => Sample(k)' = announced'.from + transmitted + k
               /\ transmitted + length < announced'.number
                    => /\ transmitted + length = 2 * request'.alreadyReadSamples
                       /\ length = CacheSize
  BY <1>1 DEF ChunkInv, Sample
<1>8. SendingInv => SendingInv'
  BY <1>1, <1>6, <1>7 DEF SendingInv, ChunkInv, IsSending, Left
<1>9. NoAnswer => NoAnswer'
  BY <1>1 DEF NoAnswer
<1>10. NothingPromised => NothingPromised'
  BY <1>1 DEF NothingPromised
<1>11. WantedInv => WantedInv'
  BY <1>1, <1>6 DEF WantedInv
<1>12. NextFrame' = NextFrame
  BY <1>1 DEF NextFrame, Left
<1>13. /\ Asked => Asked'
       /\ Answered => Answered'
       /\ HeaderGoes => HeaderGoes'
       /\ Wanted => Wanted'
       /\ Sending => Sending'
       /\ Blocked => Blocked'
  BY <1>1, <1>5, <1>8, <1>9, <1>10, <1>11, <1>12
     DEF Asked, Answered, HeaderGoes, Wanted, Sending, Blocked
<1>14. Read => Read'
  BY <1>1, <1>6, <1>7, <1>9 DEF Read, ChunkInv
<1>15. ASSUME AppHolds("BEGIN_ENUMERATE"), Begun \/ Reading
       PROVE  AppHolds("BEGIN_ENUMERATE")' /\ (Begun' \/ Reading')
  <2>1. statusCb # "CountSamples"
    BY <1>15 DEF Begun, Reading
  <2>2. AppHolds("BEGIN_ENUMERATE")' /\ UNCHANGED <<startIndex, statusCb>>
    BY <1>15, <2>1
  <2> QED
    BY <1>1, <1>9, <1>10, <1>11, <1>15, <2>2 DEF Begun, Reading
<1>16. \A app : AppHolds(app) /\ app # "BEGIN_ENUMERATE" => AppHolds(app)'
  OBVIOUS
<1> QED
  BY <1>9, <1>13, <1>14, <1>15, <1>16 DEF Phase

\* The application message of a download tells the phase.
LEMMA AppToken ==
  ASSUME TypeInv, Phase, NEW id \in AppTokens, IsNext(id), ~ Counts(statusCb, id)
  PROVE  /\ AppHolds(id) /\ BleHolds("none")
         /\ AppQueueHolds(Tail(appMessages), statusCb, "none")
         /\ id = "SET_REQUESTED_SAMPLES" => Asked
         /\ id = "GET_NEXT_SAMPLES" => Wanted
         /\ id = "BEGIN_ENUMERATE" => Begun \/ Reading
<1>1. /\ appMessages \in Seq(AppMessage) /\ appMessages # <<>>
      /\ Head(appMessages).id = id
  BY DEF TypeInv, QueueType, IsNext
<1>2. ASSUME NEW app, AppHolds(app)
      PROVE  app = id /\ AppQueueHolds(Tail(appMessages), statusCb, "none")
  BY <1>1, <1>2, AppTaken DEF AppHolds
<1>3. id # "none"
  BY DEF AppTokens
<1> QED
  BY <1>2, <1>3 DEF Phase, AppTokens

\* And so does the one of the BLE task.
LEMMA BleToken ==
  ASSUME TypeInv, Phase, NEW id \in BleTokens, IsBleNext(id)
  PROVE  /\ AppHolds("none")
         /\ BleQueueHolds(Tail(bleMessages), "none")
         /\ id = "SET_REQUESTED_SAMPLES" => Answered
         /\ id = "GET_NEXT_SAMPLES" => Read
<1>1. /\ bleMessages \in Seq(BleMessage) /\ bleMessages # <<>>
      /\ Head(bleMessages) = id
  BY DEF TypeInv, QueueType, IsBleNext
<1>2. ASSUME NEW ble, BleHolds(ble)
      PROVE  ble = id /\ BleQueueHolds(Tail(bleMessages), "none")
  BY <1>1, <1>2, BleTaken DEF BleHolds
<1>3. id # "none"
  BY DEF BleTokens
<1> QED
  BY <1>2, <1>3 DEF Phase, BleTokens

\* And a frame.
LEMMA FrameToken ==
  ASSUME Phase
  PROVE  /\ frame[1] # "none" => AppHolds("none") /\ BleHolds("none") /\ blocked = FALSE
         /\ frame[1] = "header" => HeaderGoes
         /\ frame[1] = "data" => Sending
<1>1. NoAnswer \/ Blocked => frame[1] = "none"
  BY Tuples DEF NoAnswer, Blocked
<1>2. HeaderGoes => frame[1] = "header" /\ blocked = FALSE
  BY Tuples DEF HeaderGoes
<1>3. Sending => frame[1] = "data" /\ blocked = FALSE
  BY Tuples DEF Sending, NextFrame
<1> QED
  BY <1>1, <1>2, <1>3 DEF Phase, Asked, Begun, Answered, Wanted, Reading, Read

\* Nothing is forgotten while it is promised.
LEMMA AddItemKeeps ==
  ASSUME TypeInv, Phase, AddItem, ~ disturbed'
  PROVE  Phase'
<1>0. UNCHANGED <<appVars, bleVars, appMessages, bleMessages, clientVars, promiseVars>>
  BY DEF AddItem
<1>1. CASE count + 1 # NrOfPages * PageItems
  <2>1. DataKept
    BY <1>0, <1>1 DEF AddItem, DataKept, appVars, bleVars, promiseVars, TypeInv, StoreType
  <2>2. \A app : AppHolds(app) => AppHolds(app)' /\ UNCHANGED <<startIndex, statusCb>>
    BY <1>0 DEF AppHolds, appVars
  <2>3. \A ble : BleHolds(ble) => BleHolds(ble)'
    BY <1>0 DEF BleHolds
  <2> QED
    BY <2>1, <2>2, <2>3, NeutralKeeps
<1>2. CASE count + 1 = NrOfPages * PageItems
  <2>1. announced = Service!NoPromise \/ Service!Complete
    BY <1>2 DEF AddItem
  <2>2. /\ PromiseInv => announced # Service!NoPromise
        /\ Service!Complete => header # Service!NoHeader /\ Len(received) = header
    BY DEF PromiseInv, Service!NoPromise, Service!Complete
  <2>3. ~ Answered /\ ~ HeaderGoes
    BY <2>1, <2>2 DEF Answered, HeaderGoes, HeaderInv
  <2>4. ReadyInv => announced.number = 0
    <3> SUFFICES ASSUME ReadyInv, announced.number # 0 PROVE FALSE
      OBVIOUS
    <3>1. Len(received) = header
      BY <2>1, <2>2 DEF ReadyInv
    <3> QED
      BY <3>1 DEF ReadyInv, NotificationInv, Left, TypeInv, BleType, NotificationState, PromiseInv
  <2>5. ReadyInv => ReadyInv'
    BY <1>0, <2>4 DEF ReadyInv, PromiseInv, NotificationInv, appVars, bleVars, promiseVars
  <2>6. ~ Sending /\ ~ Blocked
    BY <2>4 DEF Sending, Blocked, SendingInv, ReadyInv, NotificationInv, IsSending, Left,
                TypeInv, BleType, NotificationState
  <2>7. /\ UNCHANGED <<request, samplesCache, notification, frame, blocked, announced, header,
                       received, statusCb, startIndex, appMessages, bleMessages>>
    BY <1>0 DEF appVars, bleVars, promiseVars
  <2>8. Read => Read'
    <3>1. \A length, transmitted :
            ChunkInv(length, transmitted) => ChunkInv(length, transmitted)'
      BY <2>7 DEF ChunkInv, Sample
    <3> QED
      BY <2>5, <2>7, <3>1 DEF Read, NoAnswer, ChunkInv
  <2>9. /\ Asked => Asked'
        /\ Begun => Begun'
        /\ Wanted => Wanted'
        /\ Reading => Reading'
        /\ NoAnswer => NoAnswer'
    BY <2>5, <2>7 DEF Asked, Begun, Wanted, Reading, WantedInv, NoAnswer, NothingPromised
  <2>10. \A id : (AppHolds(id) => AppHolds(id)') /\ (BleHolds(id) => BleHolds(id)')
    BY <2>7 DEF AppHolds, BleHolds
  <2> QED
    BY <2>3, <2>6, <2>8, <2>9, <2>10 DEF Phase
<1> QED
  BY <1>1, <1>2

\* Reads and refused notifications of others are no part of the download.
LEMMA OthersKeep ==
  ASSUME TypeInv, Phase, ~ disturbed',
         \/ EraseDone \/ GetAvailableSamples \/ CountSamples \/ AvailableSamplesResponse
         \/ ReadAvailableSamples \/ OtherRefused \/ PoolEvent
  PROVE  Phase'
<1>0. /\ appMessages \in Seq(AppMessage) /\ bleMessages \in Seq(BleMessage)
      /\ count \in Nat
  BY DEF TypeInv, QueueType, StoreType
<1>1. ASSUME UNCHANGED appVars, UNCHANGED bleVars, UNCHANGED promiseVars,
             UNCHANGED <<first, count>>
      PROVE  DataKept /\ UNCHANGED <<startIndex, statusCb>>
  BY <1>0, <1>1 DEF DataKept, appVars, bleVars, promiseVars
<1>2. ASSUME appMessages' = appMessages, statusCb' = statusCb
      PROVE  \A app : AppHolds(app) => AppHolds(app)'
  BY <1>2 DEF AppHolds
<1>3. ASSUME bleMessages' = bleMessages
      PROVE  \A ble : BleHolds(ble) => BleHolds(ble)'
  BY <1>3 DEF BleHolds
<1>4. CASE EraseDone
  BY <1>1, <1>2, <1>3, <1>4, NeutralKeeps DEF EraseDone
<1>5. CASE GetAvailableSamples
  <2>1. /\ appMessages # <<>> /\ Head(appMessages).id = "GET_AVAILABLE_SAMPLES"
        /\ statusCb' = "CountSamples"
        /\ appMessages' = Append(Tail(appMessages), Message("BEGIN_ENUMERATE"))
        /\ ~ \E i \in DOMAIN appMessages : appMessages[i].id = "BEGIN_ENUMERATE"
    BY <1>5 DEF GetAvailableSamples, BeginEnumerate, IsNext, IsPending
  <2>2. \A app : AppHolds(app) => AppHolds(app)' /\ app # "BEGIN_ENUMERATE"
    <3> SUFFICES ASSUME NEW app, AppHolds(app)
                 PROVE  AppQueueHolds(appMessages', statusCb', app) /\ app # "BEGIN_ENUMERATE"
      BY DEF AppHolds
    <3>1. Head(appMessages).id \notin AppTokens
      BY <2>1 DEF AppTokens
    <3> QED
      BY <1>0, <2>1, <3>1, BeginPublished DEF AppHolds
  <2>3. DataKept
    BY <1>0, <1>5 DEF GetAvailableSamples, DataKept, bleVars, promiseVars, storeVars
  <2>4. \A ble : BleHolds(ble) => BleHolds(ble)'
    BY <1>3, <1>5 DEF GetAvailableSamples
  <2> QED
    BY <2>2, <2>3, <2>4, NeutralKeeps
<1>6. CASE CountSamples
  <2>1. /\ appMessages # <<>> /\ Head(appMessages).id = "BEGIN_ENUMERATE"
        /\ statusCb = "CountSamples" /\ UNCHANGED <<statusCb, startIndex>>
        /\ appMessages' = Tail(appMessages)
        /\ bleMessages' = Append(bleMessages, "GET_AVAILABLE_SAMPLES")
    BY <1>6 DEF CountSamples, Enumerate, IsNext, Respond
  <2>2. \A app : AppHolds(app) /\ app # "BEGIN_ENUMERATE" => AppHolds(app)'
    <3> SUFFICES ASSUME NEW app, AppHolds(app), app # "BEGIN_ENUMERATE"
                 PROVE  AppQueueHolds(appMessages', statusCb', app)
      BY DEF AppHolds
    <3>1. Counts(statusCb, Head(appMessages).id)
      BY <2>1 DEF Counts
    <3> QED
      BY <1>0, <2>1, <3>1, AppTaken DEF AppHolds
  <2>3. \A ble : BleHolds(ble) => BleHolds(ble)'
    <3> SUFFICES ASSUME NEW ble, BleHolds(ble) PROVE BleQueueHolds(bleMessages', ble)
      BY DEF BleHolds
    <3> QED
      BY <1>0, <2>1, BlePublished DEF BleHolds, BleMessage, BleTokens
  <2>4. DataKept
    BY <1>0, <1>6 DEF CountSamples, Enumerate, DataKept, bleVars, storeVars
  <2> QED
    BY <2>1, <2>2, <2>3, <2>4, NeutralKeeps
<1>7. CASE AvailableSamplesResponse
  <2>1. \A ble : BleHolds(ble) => BleHolds(ble)'
    <3> SUFFICES ASSUME NEW ble, BleHolds(ble) PROVE BleQueueHolds(bleMessages', ble)
      BY DEF BleHolds
    <3>1. /\ bleMessages # <<>> /\ Head(bleMessages) \notin BleTokens
          /\ bleMessages' = Tail(bleMessages)
      BY <1>7 DEF AvailableSamplesResponse, IsBleNext, BleTokens
    <3> QED
      BY <1>0, <3>1, BleTaken DEF BleHolds
  <2> QED
    BY <1>1, <1>2, <1>7, <2>1, NeutralKeeps
       DEF AvailableSamplesResponse, BleFrame, storeVars, promiseVars
<1>8. CASE ReadAvailableSamples
  <2>1. \A app : AppHolds(app) => AppHolds(app)'
    <3> SUFFICES ASSUME NEW app, AppHolds(app)
                 PROVE  AppQueueHolds(appMessages', statusCb', app)
      BY DEF AppHolds
    <3> DEFINE m == Message("GET_AVAILABLE_SAMPLES")
    <3>1. /\ appMessages' = Append(appMessages, m)
          /\ statusCb' = statusCb
          /\ m \in AppMessage /\ m.id \notin AppTokens
      BY <1>8, AppMessages DEF ReadAvailableSamples, Publish, appVars, AppTokens
    <3> HIDE DEF m
    <3> QED
      BY <1>0, <3>1, AppPublished DEF AppHolds
  <2> QED
    BY <1>1, <1>3, <1>8, <2>1, NeutralKeeps DEF ReadAvailableSamples, storeVars
<1>9. CASE OtherRefused
  BY <1>1, <1>2, <1>3, <1>9, NeutralKeeps DEF OtherRefused, storeVars
<1>10. CASE PoolEvent
  <2>1. \A ble : BleHolds(ble) => BleHolds(ble)'
    <3> SUFFICES ASSUME NEW ble, BleHolds(ble) PROVE BleQueueHolds(bleMessages', ble)
      BY DEF BleHolds
    <3>1. bleMessages' = Append(bleMessages, "TX_POOL_AVAILABLE")
      BY <1>10 DEF PoolEvent, Respond
    <3> QED
      BY <1>0, <3>1, BlePublished DEF BleHolds, BleMessage, BleTokens
  <2> QED
    BY <1>1, <1>2, <1>10, <2>1, NeutralKeeps DEF PoolEvent, storeVars
<1> QED
  BY <1>4, <1>5, <1>6, <1>7, <1>8, <1>9, <1>10

\* The number is written: a request waits, and nothing else is under way.
LEMMA SubscribeAsks ==
  ASSUME TypeInv, Subscribe, ~ disturbed'
  PROVE  Phase'
<1>1. PICK requested \in Requests :
        appMessages' = Append(appMessages,
          [Message("SET_REQUESTED_SAMPLES") EXCEPT !.parameter2 = requested])
  BY DEF Subscribe
<1> DEFINE m == [Message("SET_REQUESTED_SAMPLES") EXCEPT !.parameter2 = requested]
<1>2. m \in AppMessage /\ m.id = "SET_REQUESTED_SAMPLES" /\ appMessages' = Append(appMessages, m)
  BY <1>1, AppMessages, SampleDownloadAssumption
<1> HIDE DEF m
<1>3. /\ ~ IsServing /\ UNCHANGED <<statusCb, bleMessages, frame, blocked, announced, header>>
      /\ UNCHANGED received
      /\ frame = NoFrame /\ ~ subscribed
  BY DEF Subscribe, appVars, bleVars, promiseVars, BleTaskIsIdle
<1>4. appMessages \in Seq(AppMessage) /\ bleMessages \in Seq(BleMessage)
  BY DEF TypeInv, QueueType
<1>5. AppHolds("none")
  <2>1. /\ None(appMessages, Messages("SET_REQUESTED_SAMPLES"))
        /\ None(appMessages, Messages("GET_NEXT_SAMPLES"))
        /\ \/ None(appMessages, Messages("BEGIN_ENUMERATE"))
           \/ Counts(statusCb, "BEGIN_ENUMERATE")
    BY <1>3, <1>4, Waits DEF IsServing, IsPending, Counts
  <2> QED
    BY <2>1 DEF AppHolds, AppQueueHolds, AppTokens
<1>6. BleHolds("none")
  BY <1>3 DEF IsServing, IsBlePending, BleHolds, BleQueueHolds, BleTokens, None
<1>7. AppHolds("SET_REQUESTED_SAMPLES")'
  <2>1. AppQueueHolds(Append(appMessages, m), statusCb, "SET_REQUESTED_SAMPLES")
    BY <1>2, <1>4, <1>5, AppPublished DEF AppHolds, AppTokens, Counts
  <2> QED
    BY <1>2, <1>3, <2>1 DEF AppHolds
<1>8. Asked'
  <2>1. blocked = FALSE
    BY <1>3 DEF IsServing, TypeInv, BleType
  <2> QED
    BY <1>3, <2>1 DEF Asked, NoAnswer, NothingPromised, TypeInv, ClientType
<1>9. BleHolds("none")'
  BY <1>3, <1>6 DEF BleHolds
<1> QED
  BY <1>7, <1>8, <1>9 DEF Phase

LEMMA SetRequestedSamplesBegins ==
  ASSUME TypeInv, Phase, SetRequestedSamples, ~ disturbed'
  PROVE  Phase'
<1>1. /\ AppHolds("SET_REQUESTED_SAMPLES") /\ BleHolds("none") /\ Asked
  BY AppToken DEF SetRequestedSamples, AppTokens, Counts
<1>2. AppHolds("BEGIN_ENUMERATE")'
  <2>1. /\ appMessages # <<>> /\ Head(appMessages).id \in AppTokens
        /\ appMessages' = Append(Tail(appMessages), Message("BEGIN_ENUMERATE"))
        /\ ~ \E i \in DOMAIN appMessages : appMessages[i].id = "BEGIN_ENUMERATE"
        /\ appMessages \in Seq(AppMessage)
    BY DEF SetRequestedSamples, BeginEnumerate, IsNext, IsPending, AppTokens, TypeInv, QueueType
  <2>2. AppQueueHolds(appMessages', statusCb', "BEGIN_ENUMERATE")
    BY <1>1, <2>1, BeginPublished DEF AppHolds
  <2> QED
    BY <2>2 DEF AppHolds
<1>3. Begun'
  <2>1. request'.alreadyReadSamples = 0
    BY DEF SetRequestedSamples, TypeInv, AppType, RequestState
  <2> QED
    BY <1>1, <2>1
       DEF SetRequestedSamples, BeginEnumerate, Asked, Begun, NoAnswer, NothingPromised,
           bleVars, promiseVars
<1>4. BleHolds("none")'
  BY <1>1 DEF SetRequestedSamples, BleHolds
<1> QED
  BY <1>2, <1>3, <1>4 DEF Phase

LEMMA GetNextSamplesReads ==
  ASSUME TypeInv, Phase, GetNextSamples, ~ disturbed'
  PROVE  Phase'
<1>1. /\ AppHolds("GET_NEXT_SAMPLES") /\ BleHolds("none") /\ Wanted
  BY AppToken DEF GetNextSamples, AppTokens, Counts
<1>2. AppHolds("BEGIN_ENUMERATE")'
  <2>1. /\ appMessages # <<>> /\ Head(appMessages).id \in AppTokens
        /\ appMessages' = Append(Tail(appMessages), Message("BEGIN_ENUMERATE"))
        /\ ~ \E i \in DOMAIN appMessages : appMessages[i].id = "BEGIN_ENUMERATE"
        /\ appMessages \in Seq(AppMessage)
    BY DEF GetNextSamples, BeginEnumerate, IsNext, IsPending, AppTokens, TypeInv, QueueType
  <2>2. AppQueueHolds(appMessages', statusCb', "BEGIN_ENUMERATE")
    BY <1>1, <2>1, BeginPublished DEF AppHolds
  <2> QED
    BY <2>2 DEF AppHolds
<1>3. Reading'
  BY <1>1 DEF GetNextSamples, BeginEnumerate, Wanted, Reading, NoAnswer, WantedInv, ReadyInv,
              PromiseInv, RequestInv, NotificationInv, Left, storeVars, bleVars, promiseVars
<1>4. BleHolds("none")'
  BY <1>1 DEF GetNextSamples, BleHolds
<1> QED
  BY <1>2, <1>3, <1>4 DEF Phase

\* What an answer of the application task leaves in the queues.
LEMMA Responded ==
  ASSUME TypeInv, Phase, NEW callback, Enumerate(callback), callback # "CountSamples",
         NEW id \in BleTokens, Respond(id)
  PROVE  AppHolds("none")' /\ BleHolds(id)'
<1>1. /\ AppQueueHolds(Tail(appMessages), statusCb, "none") /\ BleHolds("none")
  BY AppToken DEF Enumerate, AppTokens, Counts
<1>2. /\ appMessages' = Tail(appMessages) /\ statusCb' = statusCb
      /\ bleMessages' = Append(bleMessages, id)
      /\ bleMessages \in Seq(BleMessage) /\ id \in BleMessage
  BY DEF Enumerate, Respond, TypeInv, QueueType, BleMessage
<1>3. BleQueueHolds(Append(bleMessages, id), id)
  BY <1>1, <1>2, BlePublished DEF BleHolds
<1> QED
  BY <1>1, <1>2, <1>3 DEF AppHolds, BleHolds

\* The newest samples of a number, as they are announced and as they are read.
LEMMA NewestAreRequested ==
  ASSUME StoreType, NEW requested \in Nat
  PROVE  LET number == Minimum(2 * count, requested)
             newest == Service!NewestSamples(requested)
             start == IF 2 * count > number THEN StartOfSamples(2 * count, number) ELSE 0
         IN  /\ newest.number = number /\ newest.from \in Nat
             /\ number \in Nat /\ number <= 2 * count /\ number <= requested
             /\ newest.from + number + (number % 2) = 2 * (first + count)
             /\ 2 * (first + start) = newest.from
             /\ start \in Nat
<1> DEFINE number == Minimum(2 * count, requested)
           newest == Service!NewestSamples(requested)
           start == IF 2 * count > number THEN StartOfSamples(2 * count, number) ELSE 0
<1>1. /\ first \in Nat /\ count \in Nat
      /\ number \in Nat /\ number <= 2 * count /\ number <= requested
  BY DEF StoreType, Minimum
<1>2. newest = [from |-> 2 * (first + count) - number - (number % 2), number |-> number]
  <2>1. 2 * (first + count) - 2 * first = 2 * count
    BY <1>1
  <2>2. (IF requested < 2 * count THEN requested ELSE 2 * count) = number
    BY <1>1 DEF Minimum
  <2> QED
    BY <2>1, <2>2 DEF Service!NewestSamples
<1> HIDE DEF number, newest
<1>3. newest.number = number /\ newest.from = 2 * (first + count) - number - (number % 2)
  BY <1>2
<1>4. number + (number % 2) <= 2 * count /\ number % 2 \in {0, 1}
  BY <1>1
<1>5. newest.from \in Nat /\ newest.from + number + (number % 2) = 2 * (first + count)
  BY <1>1, <1>3, <1>4
<1>6. 2 * (first + start) = newest.from /\ start \in Nat
  <2>1. CASE 2 * count > number
    <3>1. start = (2 * count - number - (number % 2)) \div 2
      BY <2>1 DEF StartOfSamples
    <3>2. 2 * ((2 * count - number - (number % 2)) \div 2) = 2 * count - number - (number % 2)
      BY <1>1
    <3>3. start \in Nat
      BY <1>1, <1>4, <3>1
    <3> QED
      BY <1>1, <1>3, <1>4, <3>1, <3>2, <3>3
  <2>2. CASE ~ (2 * count > number)
    <3>1. number = 2 * count /\ start = 0 /\ number % 2 = 0
      BY <1>1, <2>2
    <3> QED
      BY <1>1, <1>3, <3>1
  <2> QED
    BY <2>1, <2>2
<1> QED
  BY <1>1, <1>3, <1>5, <1>6 DEF number, newest

LEMMA BeginReadSamplesAnswers ==
  ASSUME TypeInv, Phase, subscribed, BeginReadSamples, ~ disturbed'
  PROVE  /\ Phase' /\ NothingPromised
         /\ announced' = Service!NewestSamples(request.requestedNrOfSamples)
         /\ UNCHANGED <<first, count, header, received>>
<1>1. Begun
  BY AppToken DEF BeginReadSamples, Enumerate, AppTokens, Counts, Begun, Reading
<1>2. AppHolds("none")' /\ BleHolds("SET_REQUESTED_SAMPLES")'
  BY Responded DEF BeginReadSamples, BleTokens
<1> DEFINE requested == request.requestedNrOfSamples
           number == Minimum(2 * count, requested)
           newest == Service!NewestSamples(requested)
           start == IF 2 * count > number THEN StartOfSamples(2 * count, number) ELSE 0
           new == [request EXCEPT !.numberOfSamples = number, !.extraSample = number % 2,
                                  !.enumeratorStartIndex = start]
<1>3. /\ request' = new /\ announced' = newest
      /\ UNCHANGED <<first, count, frame, blocked, header, received>>
  BY DEF BeginReadSamples, Enumerate, storeVars, bleVars
<1>4. requested \in Nat /\ request \in RequestState
  BY DEF TypeInv, AppType, RequestState
<1>5. /\ newest.number = number /\ newest.from \in Nat
      /\ number \in Nat /\ number <= 2 * count
      /\ newest.from + number + (number % 2) = 2 * (first + count)
      /\ 2 * (first + start) = newest.from
  BY <1>4, NewestAreRequested DEF TypeInv
<1> HIDE DEF newest, number, start
<1>6. /\ new.numberOfSamples = number /\ new.extraSample = number % 2
      /\ new.enumeratorStartIndex = start
      /\ new.alreadyReadSamples = request.alreadyReadSamples
  BY <1>4 DEF RequestState
<1> HIDE DEF new
<1>7. number <= 2 * (NrOfPages * PageItems)
  BY <1>5, Constants DEF TypeInv, StoreType
<1>8. PromiseInv'
  BY <1>3, <1>5, <1>6, <1>7 DEF PromiseInv
<1>9. RequestInv' /\ request'.alreadyReadSamples = 0
  BY <1>1, <1>3, <1>5, <1>6 DEF RequestInv, TypeInv, StoreType, Begun
<1>10. Answered'
  BY <1>1, <1>3, <1>8, <1>9 DEF Answered, HeaderInv, Begun, NoAnswer, NothingPromised
<1> QED
  BY <1>1, <1>2, <1>3, <1>10 DEF Phase, Begun, newest

\* What is read follows the samples that were transmitted.
LEMMA ReadMoreSamplesReads ==
  ASSUME TypeInv, Phase, ReadMoreSamples, ~ disturbed'
  PROVE  Phase' /\ Reading
<1>1. Reading
  BY AppToken DEF ReadMoreSamples, Enumerate, AppTokens, Counts, Begun, Reading
<1>2. AppHolds("none")' /\ BleHolds("GET_NEXT_SAMPLES")'
  BY Responded DEF ReadMoreSamples, BleTokens
<1> DEFINE start == StartPosition(startIndex)
           items == ReadableItems(ReadLimit)
           index == ReadIndex(ReadLimit)
           total == announced.number
           sent == notification.samplesTransmitted
           already == request.alreadyReadSamples
           new == [request EXCEPT !.enumeratorStartIndex = @ + index,
                                  !.alreadyReadSamples = @ + index,
                                  !.dataLength = 2 * index]
<1>3. /\ request' = new
      /\ samplesCache' = [i \in DOMAIN samplesCache \cup 1 .. items |->
                            IF i <= items THEN first + start + i - 1 ELSE samplesCache[i]]
      /\ UNCHANGED <<first, count, frame, blocked, notification, announced, header, received>>
      /\ UnreadSamples > 0 => start = startIndex
  BY ReadLimitTyped
     DEF ReadMoreSamples, Enumerate, storeVars, bleVars, TypeInv
<1>4. /\ ReadLimit \in 0 .. PageItems
      /\ items \in 0 .. ReadLimit /\ index \in 0 .. ReadLimit
      /\ UnreadSamples \in Nat
  BY ReadLimitTyped, ReadLengths DEF ReadMoreSamples, TypeInv
<1>5. /\ request \in RequestState /\ already \in Nat /\ request.enumeratorStartIndex \in Nat
      /\ sent \in Nat /\ first \in Nat /\ count \in Nat /\ startIndex \in Nat
      /\ samplesCache \in Cache
  BY DEF TypeInv, AppType, BleType, StoreType, RequestState, NotificationState
<1>6. /\ PromiseInv /\ NotificationInv /\ sent = 2 * already
      /\ total = 0 \/ (RequestInv /\ total - sent > 0)
      /\ total \in Nat /\ announced.from \in Nat
      /\ startIndex = request.enumeratorStartIndex /\ NoAnswer
  BY <1>1 DEF Reading, WantedInv, ReadyInv, NotificationInv, PromiseInv, Left
<1>7. /\ new.enumeratorStartIndex = request.enumeratorStartIndex + index
      /\ new.alreadyReadSamples = already + index
      /\ new.dataLength = 2 * index
      /\ new.numberOfSamples = request.numberOfSamples
      /\ new.extraSample = request.extraSample
  BY <1>5 DEF RequestState
<1> HIDE DEF new
<1>8. PromiseInv' /\ NotificationInv'
  BY <1>3, <1>6, <1>7 DEF PromiseInv, NotificationInv
<1>9. RequestInv => RequestInv'
  <2>1. /\ UNCHANGED <<first, count, announced>>
        /\ request'.enumeratorStartIndex = request.enumeratorStartIndex + index
        /\ request'.alreadyReadSamples = already + index
        /\ index \in Nat
    BY <1>3, <1>4, <1>7
  <2> HIDE DEF index
  <2> QED
    BY <1>5, <1>6, <2>1 DEF RequestInv
<1>10. ReadyInv'
  <2>1. Left(notification)' = total - sent /\ announced' = announced
    BY <1>3, <1>6 DEF Left, NotificationInv
  <2> QED
    BY <1>6, <1>8, <1>9, <2>1 DEF ReadyInv
<1>11. /\ \A k \in 0 .. 2 * index - 1 :
            sent + k < total => Sample(k)' = announced.from + sent + k
       /\ sent + 2 * index < total
            => sent + 2 * index = 2 * (already + index) /\ 2 * index = CacheSize
  <2>1. CASE total = 0
    <3> HIDE DEF index
    <3> QED
      BY <1>4, <1>5, <2>1
  <2>2. CASE total # 0
    <3> DEFINE unread == total + (total % 2) - 2 * already
    <3>1. /\ unread \in Nat /\ unread >= total - sent /\ unread > 0
          /\ unread % 2 = 0 /\ total % 2 \in {0, 1} /\ RequestInv
      BY <1>5, <1>6, <2>2
    <3>2. unread < 65536
      BY <1>5, <1>6, Constants DEF PromiseInv
    <3>3. UnreadSamples = unread
      <4>1. UnreadSamples = unread % 65536
        BY <1>5, <1>6 DEF UnreadSamples, PromiseInv
      <4> HIDE DEF unread
      <4> QED
        BY <3>1, <3>2, <4>1
    <3>4. start = startIndex
      BY <1>3, <3>1, <3>3
    <3>5. 2 * (count - start) >= unread /\ 2 * (first + start) = announced.from + sent
      BY <1>5, <1>6, <3>1, <3>4 DEF RequestInv
    <3>6. TotalNrOfItems \in Nat /\ TotalNrOfItems >= count
      BY <1>5, Constants DEF TotalNrOfItems
    <3>7. ReadLimit = Minimum(PageItems, unread)
      BY <3>3 DEF ReadLimit
    <3> HIDE DEF unread, start
    <3>8. /\ items = Minimum(Minimum(ReadLimit, TotalNrOfItems - start), count - start)
          /\ index = Minimum(Minimum(ReadLimit, TotalNrOfItems - start), count - start + 1)
      BY <3>4 DEF ReadableItems, ReadIndex, start
    <3>9. start \in Nat
      BY <1>5, <3>4
    <3> HIDE DEF items, index
    <3>10. \/ 2 * items >= unread /\ index >= items
           \/ items = PageItems /\ index = PageItems
      BY <1>4, <1>5, <3>1, <3>5, <3>6, <3>7, <3>8, <3>9, Constants DEF Minimum
    <3>11. \A k \in 0 .. 2 * index - 1 :
             sent + k < total => Sample(k)' = announced.from + sent + k
      <4> SUFFICES ASSUME NEW k \in 0 .. 2 * index - 1, sent + k < total
                   PROVE  Sample(k)' = announced.from + sent + k
        OBVIOUS
      <4>1. k < 2 * items /\ k \in Nat
        BY <1>4, <1>5, <1>6, <3>1, <3>10, Constants
      <4>2. /\ k \div 2 + 1 \in 1 .. items /\ k % 2 \in {0, 1}
            /\ k = 2 * (k \div 2) + (k % 2)
        BY <1>4, <4>1
      <4>3. samplesCache'[k \div 2 + 1] = first + start + (k \div 2 + 1) - 1
        <5>1. k \div 2 + 1 \in DOMAIN samplesCache \cup 1 .. items
          BY <4>2
        <5>2. k \div 2 + 1 <= items
          BY <1>4, <4>2
        <5> QED
          BY <1>3, <5>1, <5>2
      <4>4. Sample(k)' = 2 * samplesCache'[k \div 2 + 1] + (k % 2)
        BY DEF Sample
      <4> QED
        BY <1>5, <1>6, <3>5, <3>9, <4>1, <4>2, <4>3, <4>4
    <3>12. sent + 2 * index < total
             => sent + 2 * index = 2 * (already + index) /\ 2 * index = CacheSize
      <4>1. index \in Nat /\ items \in Nat /\ sent + unread >= total
        BY <1>4, <1>5, <1>6, <3>1
      <4>2. CASE 2 * items >= unread /\ index >= items
        BY <1>5, <1>6, <3>1, <4>1, <4>2
      <4>3. CASE index = PageItems
        BY <1>5, <1>6, <4>1, <4>3 DEF CacheSize
      <4> QED
        BY <3>10, <4>2, <4>3
    <3> QED
      BY <3>11, <3>12
  <2> QED
    BY <2>1, <2>2
<1>12. Read'
  <2>1. /\ notification' = notification /\ announced' = announced
        /\ request'.dataLength = 2 * index
        /\ request'.alreadyReadSamples = already + index
    BY <1>3, <1>7
  <2> HIDE DEF index
  <2>2. ChunkInv(request.dataLength, notification.samplesTransmitted)'
    BY <1>11, <2>1 DEF ChunkInv
  <2> QED
    BY <1>3, <1>6, <1>10, <2>2 DEF Read, NoAnswer
<1> QED
  BY <1>1, <1>2, <1>12 DEF Phase

\* Items that were announced are there to be read.
LEMMA ReadNoSamplesEnds ==
  ASSUME TypeInv, Phase, ReadNoSamples, ~ disturbed'
  PROVE  Phase'
<1>1. /\ Reading /\ BleHolds("none") /\ AppQueueHolds(Tail(appMessages), statusCb, "none")
  BY AppToken DEF ReadNoSamples, Enumerate, AppTokens, Counts, Begun, Reading
<1>2. /\ appMessages' = Tail(appMessages)
      /\ UNCHANGED <<statusCb, bleMessages, frame, blocked>>
  BY DEF ReadNoSamples, Enumerate, bleVars
<1> QED
  BY <1>1, <1>2 DEF Phase, AppHolds, BleHolds, NoAnswer, Reading

LEMMA RequestedSamplesAreAnnounced ==
  ASSUME TypeInv, Phase, RequestedSamplesResponse
  PROVE  Phase'
<1>1. Answered /\ AppHolds("none") /\ BleQueueHolds(Tail(bleMessages), "none")
  BY BleToken DEF RequestedSamplesResponse, BleTokens
<1>2. /\ bleMessages' = Tail(bleMessages)
      /\ UNCHANGED <<appMessages, statusCb, header, received, announced, request, first, count>>
      /\ notification' = [notification EXCEPT
           !.nrOfSamplesToTransmit = request.numberOfSamples, !.samplesTransmitted = 0]
      /\ frame' = HeaderFrame(request.numberOfSamples) /\ blocked' = FALSE
  BY DEF RequestedSamplesResponse, BleFrame, storeVars, appVars
<1>3. AppHolds("none")' /\ BleHolds("none")'
  BY <1>1, <1>2 DEF AppHolds, BleHolds
<1>4. HeaderInv'
  BY <1>1, <1>2 DEF Answered, HeaderInv, PromiseInv, RequestInv
<1>5. request.numberOfSamples = announced.number
  BY <1>1 DEF Answered, HeaderInv, PromiseInv
<1>6. /\ notification'.nrOfSamplesToTransmit = announced.number
      /\ notification'.samplesTransmitted = 0
  BY <1>2, <1>5 DEF TypeInv, BleType, NotificationState
<1>7. HeaderGoes'
  BY <1>2, <1>4, <1>5, <1>6 DEF HeaderGoes
<1> QED
  BY <1>3, <1>7 DEF Phase

LEMMA HeaderIsSent ==
  ASSUME TypeInv, Phase, subscribed, HeaderSent
  PROVE  /\ Phase' /\ HeaderGoes /\ header' = announced.number
         /\ UNCHANGED <<first, count, announced, received>>
<1>1. HeaderGoes /\ AppHolds("none") /\ BleHolds("none")
  BY FrameToken DEF HeaderSent
<1> DEFINE m == Message("GET_NEXT_SAMPLES")
<1>2. /\ appMessages' = Append(appMessages, m)
      /\ UNCHANGED <<bleMessages, statusCb, notification, received, announced, request, first,
                     count>>
      /\ frame' = NoFrame /\ blocked' = blocked /\ header' = frame[2]
  BY DEF HeaderSent, Publish, BleFrame, storeVars, appVars
<1>3. m \in AppMessage /\ m.id = "GET_NEXT_SAMPLES" /\ appMessages \in Seq(AppMessage)
  BY AppMessages DEF AppTokens, TypeInv, QueueType
<1> HIDE DEF m
<1>4. AppHolds("GET_NEXT_SAMPLES")'
  <2>1. AppQueueHolds(Append(appMessages, m), statusCb, "GET_NEXT_SAMPLES")
    BY <1>1, <1>3, AppPublished DEF AppHolds, AppTokens, Counts
  <2> QED
    BY <1>2, <2>1 DEF AppHolds
<1>5. BleHolds("none")'
  BY <1>1, <1>2 DEF BleHolds
<1>6. header' = announced.number
  BY <1>1, <1>2, Tuples DEF HeaderGoes
<1>7. PromiseInv /\ RequestInv /\ request.alreadyReadSamples = 0 /\ received = <<>>
  BY <1>1 DEF HeaderGoes, HeaderInv
<1>8. PromiseInv' /\ RequestInv'
  BY <1>2, <1>7 DEF PromiseInv, RequestInv
<1>9. /\ notification'.nrOfSamplesToTransmit = announced.number
      /\ notification'.samplesTransmitted = 0
  BY <1>1, <1>2 DEF HeaderGoes
<1>10. NotificationInv'
  BY <1>2, <1>6, <1>7, <1>9, EmptySeq DEF NotificationInv
<1>11. announced'.number = 0 \/ Left(notification)' > 0
  BY <1>2, <1>7, <1>9 DEF Left, PromiseInv
<1>12. WantedInv'
  BY <1>2, <1>7, <1>8, <1>9, <1>10, <1>11 DEF WantedInv, ReadyInv
<1>13. NoAnswer'
  BY <1>1, <1>2 DEF HeaderGoes, NoAnswer
<1> QED
  BY <1>1, <1>2, <1>4, <1>5, <1>6, <1>12, <1>13 DEF Phase, Wanted

\* TrySendSampleFrames sends what comes next, asks for it, or ends.
LEMMA SendStep ==
  ASSUME TypeInv, NEW state \in NotificationState, TrySendSampleFrames(state),
         UNCHANGED <<storeVars, appVars, announced>>,
         header' = announced.number, Len(received') = state.samplesTransmitted,
         blocked' = FALSE,
         AppHolds("none"), BleQueueHolds(bleMessages', "none"),
         PromiseInv, announced.number = 0 \/ RequestInv,
         state.nrOfSamplesToTransmit = announced.number,
         state.samplesTransmitted >= state.currentDataIndex,
         ChunkInv(state.dataLength, state.samplesTransmitted - state.currentDataIndex),
         IsAligned(state) \/ Left(state) <= 0
  PROVE  Phase'
<1> DEFINE total == announced.number
           sent == state.samplesTransmitted
           index == state.currentDataIndex
           length == Minimum(SamplesPerFrame, Left(state))
<1>1. /\ UNCHANGED <<first, count, startIndex, statusCb, request, samplesCache, announced>>
      /\ BleHolds("none")'
  BY DEF storeVars, appVars, BleHolds
<1>2. /\ total \in Nat /\ announced.from \in Nat
      /\ sent \in Nat /\ index \in 0 .. CacheSize /\ state.dataLength \in 0 .. CacheSize
      /\ Left(state) = total - sent /\ CacheSize \in Nat
  BY Constants DEF PromiseInv, NotificationState, DataLengths, Left
<1>3. PromiseInv' /\ (RequestInv => RequestInv')
  BY <1>1 DEF PromiseInv, RequestInv
<1>4. CASE IsSending(state)
  <2>1. /\ frame' = DataFrame([i \in 1 .. length |-> Sample(index + i - 1)])
        /\ notification' = state /\ appMessages' = appMessages
    BY <1>4 DEF TrySendSampleFrames, IsSending, Left
  <2>2. length \in Nat /\ length <= SamplesPerFrame /\ length <= Left(state) /\ Left(state) > 0
    BY <1>2, <1>4, Constants DEF Minimum, IsSending
  <2>3. index + SamplesPerFrame <= CacheSize
    <3>1. IsFrameStart(index) /\ index \in Nat /\ index < CacheSize
      BY <1>2, <1>4 DEF IsAligned, IsSending
    <3> QED
      BY <3>1, FrameFits
  <2>4. \A i \in 1 .. length : Sample(index + i - 1) = announced.from + sent + i - 1
    <3> SUFFICES ASSUME NEW i \in 1 .. length
                 PROVE  Sample(index + i - 1) = announced.from + sent + i - 1
      OBVIOUS
    <3> DEFINE k == index + i - 1
    <3> HIDE DEF length
    <3>1. sent - index + state.dataLength < total => state.dataLength = CacheSize
      BY DEF ChunkInv
    <3>2. /\ k \in 0 .. state.dataLength - 1 /\ sent - index + k < total
          /\ announced.from + (sent - index) + k = announced.from + sent + i - 1
      <4>1. i \in Nat /\ i >= 1 /\ i <= SamplesPerFrame /\ i <= total - sent
        BY <1>2, <2>2, Constants
      <4>2. k < state.dataLength
        BY <1>2, <2>3, <3>1, <4>1, Constants
      <4> QED
        BY <1>2, <4>1, <4>2
    <3>3. Sample(k) = announced.from + (sent - index) + k
      BY <3>2 DEF ChunkInv
    <3> QED
      BY <3>2, <3>3
  <2>5. frame' = DataFrame([i \in 1 .. length |-> announced.from + sent + i - 1])
    BY <2>1, <2>4
  <2>6. frame' = NextFrame'
    BY <1>1, <2>1, <2>5 DEF NextFrame, Left
  <2>7. NotificationInv' /\ Left(notification)' > 0 /\ IsSending(notification)'
    BY <1>1, <1>4, <2>1, <2>2 DEF NotificationInv, IsSending, Left
  <2>8. total # 0
    BY <1>2, <2>2
  <2>9. ReadyInv'
    BY <1>1, <1>3, <2>7, <2>8 DEF ReadyInv
  <2>10. ChunkInv(notification.dataLength,
                  notification.samplesTransmitted - notification.currentDataIndex)'
    BY <1>1, <2>1 DEF ChunkInv, Sample
  <2>11. SendingInv'
    BY <2>1, <2>7, <2>9, <2>10 DEF SendingInv
  <2>12. AppHolds("none")'
    BY <1>1, <2>1 DEF AppHolds
  <2> QED
    BY <1>1, <2>6, <2>11, <2>12 DEF Phase, Sending
<1>5. CASE ~ IsSending(state) /\ Left(state) > 0
  <2> DEFINE m == Message("GET_NEXT_SAMPLES")
  <2>1. frame' = NoFrame /\ notification' = state /\ appMessages' = Append(appMessages, m)
    BY <1>5 DEF TrySendSampleFrames, IsSending, Left, Publish
  <2>2. m \in AppMessage /\ m.id = "GET_NEXT_SAMPLES" /\ appMessages \in Seq(AppMessage)
    BY AppMessages DEF AppTokens, TypeInv, QueueType
  <2> HIDE DEF m
  <2>3. AppHolds("GET_NEXT_SAMPLES")'
    <3>1. AppQueueHolds(Append(appMessages, m), statusCb, "GET_NEXT_SAMPLES")
      BY <2>2, AppPublished DEF AppHolds, AppTokens, Counts
    <3> QED
      BY <1>1, <2>1, <3>1 DEF AppHolds
  <2>4. sent = 2 * request.alreadyReadSamples
    <3>1. state.dataLength <= index /\ sent < total
      BY <1>2, <1>5 DEF IsSending
    <3>2. sent - index + state.dataLength < total
      BY <1>2, <3>1
    <3>3. /\ sent - index + state.dataLength = 2 * request.alreadyReadSamples
          /\ state.dataLength = CacheSize
      BY <3>2 DEF ChunkInv
    <3> QED
      BY <1>2, <3>1, <3>3
  <2>5. NotificationInv' /\ Left(notification)' > 0
    BY <1>1, <1>5, <2>1 DEF NotificationInv, Left
  <2>6. total # 0
    BY <1>2, <1>5
  <2>7. ReadyInv'
    BY <1>1, <1>3, <2>5, <2>6 DEF ReadyInv
  <2>8. Wanted'
    BY <1>1, <2>1, <2>4, <2>7 DEF Wanted, WantedInv, NoAnswer
  <2> QED
    BY <1>1, <2>3, <2>8 DEF Phase
<1>6. CASE Left(state) <= 0
  <2>1. frame' = NoFrame /\ appMessages' = appMessages
    BY <1>2, <1>6 DEF TrySendSampleFrames, Left
  <2>2. AppHolds("none")' /\ NoAnswer'
    BY <1>1, <2>1 DEF AppHolds, NoAnswer
  <2> QED
    BY <1>1, <2>2 DEF Phase
<1> QED
  BY <1>2, <1>4, <1>5, <1>6

LEMMA NextSamplesAreSent ==
  ASSUME TypeInv, Phase, NextSamplesResponse
  PROVE  Phase'
<1> DEFINE length == request.dataLength
           new == [notification EXCEPT !.dataLength = length, !.currentDataIndex = 0]
<1>1. Read /\ AppHolds("none") /\ BleQueueHolds(Tail(bleMessages), "none")
  BY BleToken DEF NextSamplesResponse, BleTokens
<1>2. /\ bleMessages' = Tail(bleMessages) /\ blocked' = FALSE
      /\ TrySendSampleFrames(new)
      /\ UNCHANGED <<storeVars, appVars, announced, header, received>>
  BY DEF NextSamplesResponse, BleFrame
<1>3. notification \in NotificationState /\ length \in DataLengths /\ 0 \in DataLengths
  BY Constants DEF TypeInv, BleType, AppType, RequestState, DataLengths
<1> HIDE DEF length
<1>4. /\ new \in NotificationState /\ new.currentDataIndex = 0 /\ new.dataLength = length
      /\ new.samplesTransmitted = notification.samplesTransmitted
      /\ new.nrOfSamplesToTransmit = notification.nrOfSamplesToTransmit
  BY <1>3 DEF NotificationState
<1> HIDE DEF new
<1>5. IsAligned(new)
  BY <1>4, Constants DEF IsAligned, IsFrameStart
<1>6. /\ PromiseInv /\ NotificationInv /\ (announced.number = 0 \/ RequestInv)
      /\ ChunkInv(length, notification.samplesTransmitted)
  BY <1>1 DEF Read, ReadyInv, length
<1>7. /\ new.samplesTransmitted \in Nat
      /\ new.samplesTransmitted - new.currentDataIndex = notification.samplesTransmitted
  BY <1>4 DEF NotificationState
<1>8. /\ header' = announced.number /\ Len(received') = new.samplesTransmitted
      /\ new.nrOfSamplesToTransmit = announced.number
      /\ new.samplesTransmitted >= new.currentDataIndex
      /\ ChunkInv(new.dataLength, new.samplesTransmitted - new.currentDataIndex)
  BY <1>2, <1>4, <1>6, <1>7 DEF NotificationInv
<1> QED
  BY <1>1, <1>2, <1>4, <1>5, <1>6, <1>8, SendStep

\* A buffer is free: the refused frame is sent, or nothing is to be sent.
LEMMA SendingGoesOn ==
  ASSUME TypeInv, Phase, TxPoolAvailable, ~ disturbed'
  PROVE  Phase'
<1>1. /\ bleMessages # <<>> /\ Head(bleMessages) = "TX_POOL_AVAILABLE"
      /\ bleMessages' = Tail(bleMessages) /\ blocked' = FALSE /\ frame = NoFrame
      /\ TrySendSampleFrames(notification)
      /\ UNCHANGED <<storeVars, appVars, announced, header, received>>
      /\ ~ blocked => ~ (notification.nrOfSamplesToTransmit > notification.samplesTransmitted)
  BY DEF TxPoolAvailable, IsBleNext, BleTaskIsIdle, BleFrame
<1>2. \A ble : BleHolds(ble) => BleHolds(ble)'
  <2> SUFFICES ASSUME NEW ble, BleHolds(ble) PROVE BleQueueHolds(bleMessages', ble)
    BY DEF BleHolds
  <2> QED
    BY <1>1, BleTaken DEF BleHolds, BleTokens, TypeInv, QueueType
<1>3. notification \in NotificationState /\ IsAligned(notification)
  BY DEF TypeInv, BleType, FrameInv
<1>4. CASE blocked
  <2>1. AppHolds("none") /\ BleHolds("none") /\ Blocked
    <3>1. ~ NoAnswer /\ ~ HeaderGoes /\ ~ Sending
      BY <1>1, <1>4, FrameToken DEF NoAnswer, HeaderGoes, Sending
    <3> QED
      BY <3>1 DEF Phase, Asked, Begun, Reading, Wanted, Answered, Read
  <2>2. BleQueueHolds(bleMessages', "none")
    BY <1>2, <2>1 DEF BleHolds
  <2>3. SendingInv
    BY <2>1 DEF Blocked
  <2>4. /\ PromiseInv /\ (announced.number = 0 \/ RequestInv)
        /\ header' = announced.number /\ Len(received') = notification.samplesTransmitted
        /\ notification.nrOfSamplesToTransmit = announced.number
    BY <1>1, <2>3 DEF SendingInv, ReadyInv, NotificationInv
  <2> QED
    BY <1>1, <1>3, <2>1, <2>2, <2>3, <2>4, SendStep DEF SendingInv
<1>5. CASE ~ blocked
  <2>1. ~ (Left(notification) > 0)
    BY <1>1, <1>3, <1>5 DEF Left, NotificationState
  <2>2. frame' = NoFrame /\ appMessages' = appMessages
    BY <1>1, <2>1 DEF TrySendSampleFrames, Left
  <2>3. NoAnswer /\ NoAnswer'
    BY <1>1, <1>5, <2>2 DEF NoAnswer, TypeInv, BleType
  <2>4. /\ UNCHANGED <<first, count, startIndex, statusCb, request, samplesCache, announced,
                       header, received, appMessages>>
    BY <1>1, <2>2 DEF storeVars, appVars
  <2>5. \A app : AppHolds(app) => AppHolds(app)'
    BY <2>4 DEF AppHolds
  <2>6. CASE notification' = notification
    <3>1. DataKept
      <4>1. frame' = frame /\ blocked' = blocked
        BY <2>3 DEF NoAnswer
      <4>2. count' \in Nat /\ count' >= count
        BY <2>4 DEF TypeInv, StoreType
      <4> QED
        BY <2>4, <2>6, <4>1, <4>2 DEF DataKept
    <3> QED
      BY <1>2, <2>4, <2>5, <3>1, NeutralKeeps
  <2>7. CASE notification' # notification
    <3>1. notification.nrOfSamplesToTransmit > 0
      BY <1>1, <2>1, <2>7 DEF TrySendSampleFrames, StopSendSamples, Left
    <3>2. ~ ReadyInv
      BY <1>3, <2>1, <3>1 DEF ReadyInv, NotificationInv, NotificationState
    <3>3. ~ Wanted /\ ~ Reading /\ ~ Read
      BY <3>2 DEF Wanted, Reading, Read, WantedInv
    <3>4. (Asked => Asked') /\ (Begun => Begun') /\ (Answered => Answered')
      BY <2>3, <2>4
         DEF Asked, Begun, Answered, NothingPromised, HeaderInv, PromiseInv, RequestInv
    <3>5. ~ HeaderGoes /\ ~ Sending /\ ~ Blocked
      BY <1>1, <1>5, FrameToken, Tuples DEF HeaderGoes, Sending, NextFrame, Blocked
    <3> QED
      BY <1>2, <2>3, <2>5, <3>3, <3>4, <3>5 DEF Phase
  <2> QED
    BY <2>6, <2>7
<1> QED
  BY <1>4, <1>5

\* A frame is delivered.
LEMMA FrameIsSent ==
  ASSUME TypeInv, Phase, subscribed, FrameSent
  PROVE  /\ Phase' /\ Sending
         /\ received' = received \o frame[2]
         /\ UNCHANGED <<first, count, announced, header>>
<1> DEFINE length == Minimum(SamplesPerFrame, Left(notification))
           index == notification.currentDataIndex
           sent == notification.samplesTransmitted
           new == [notification EXCEPT !.currentDataIndex = @ + Len(frame[2]),
                                       !.samplesTransmitted = @ + Len(frame[2])]
<1>1. Sending /\ AppHolds("none") /\ BleHolds("none") /\ blocked = FALSE
  BY FrameToken DEF FrameSent
<1>2. /\ UNCHANGED <<storeVars, appVars, announced, header, bleMessages, blocked>>
      /\ received' = received \o frame[2]
      /\ TrySendSampleFrames(new)
  BY DEF FrameSent, BleFrame
<1>3. /\ notification \in NotificationState
      /\ frame[2] \in Seq(Int) /\ Len(frame[2]) = length
      /\ IsSending(notification) /\ IsAligned(notification)
      /\ received \in Seq(Int)
  BY DEF FrameSent, TypeInv, BleType, FrameInv, ClientType
<1>4. SendingInv
  BY <1>1 DEF Sending
<1>5. /\ index \in 0 .. CacheSize /\ sent \in Nat /\ index < notification.dataLength
      /\ notification.dataLength \in 0 .. CacheSize
      /\ notification.nrOfSamplesToTransmit \in Nat
      /\ Left(notification) = notification.nrOfSamplesToTransmit - sent
      /\ Left(notification) > 0
  BY <1>3 DEF NotificationState, DataLengths, IsSending, Left
<1>6. /\ length \in Nat /\ length >= 1 /\ length <= Left(notification)
      /\ length = SamplesPerFrame \/ length = Left(notification)
      /\ length <= SamplesPerFrame
  BY <1>5, Constants DEF Minimum
<1>7. index + SamplesPerFrame <= CacheSize /\ IsFrameStart(index + SamplesPerFrame)
  <2>1. IsFrameStart(index) /\ index \in Nat /\ index < CacheSize
    BY <1>3, <1>5, Constants DEF IsAligned
  <2> QED
    BY <2>1, FrameFits
<1> HIDE DEF length
<1>8. index + length \in DataLengths /\ sent + length \in Nat
  BY <1>5, <1>6, <1>7, Constants DEF DataLengths
<1>9. /\ new \in NotificationState /\ new.currentDataIndex = index + length
      /\ new.samplesTransmitted = sent + length
      /\ new.dataLength = notification.dataLength
      /\ new.nrOfSamplesToTransmit = notification.nrOfSamplesToTransmit
  BY <1>3, <1>8 DEF NotificationState
<1> HIDE DEF new
<1>10. IsAligned(new) \/ Left(new) <= 0
  <2>1. CASE length = SamplesPerFrame
    BY <1>7, <1>9, <2>1 DEF IsAligned
  <2>2. CASE length = Left(notification)
    BY <1>5, <1>6, <1>9, <2>2 DEF Left
  <2> QED
    BY <1>6, <2>1, <2>2
<1>11. /\ PromiseInv /\ (announced.number = 0 \/ RequestInv)
       /\ header = announced.number /\ Len(received) = sent
       /\ notification.nrOfSamplesToTransmit = announced.number
       /\ sent >= index
       /\ ChunkInv(notification.dataLength, sent - index)
  BY <1>4 DEF SendingInv, ReadyInv, NotificationInv
<1>12. Len(received') = sent + length
  <2>1. Len(received \o frame[2]) = Len(received) + Len(frame[2])
    BY <1>3, ConcatProperties
  <2> QED
    BY <1>2, <1>3, <1>11, <2>1
<1>13. (sent + length) - (index + length) = sent - index /\ sent + length >= index + length
  BY <1>5, <1>6, <1>11
<1>14. ChunkInv(new.dataLength, new.samplesTransmitted - new.currentDataIndex)
  BY <1>9, <1>11, <1>13
<1>15. BleQueueHolds(bleMessages', "none") /\ blocked' = FALSE /\ header' = announced.number
  BY <1>1, <1>2, <1>11 DEF BleHolds
<1>16. /\ Len(received') = new.samplesTransmitted
       /\ new.nrOfSamplesToTransmit = announced.number
       /\ new.samplesTransmitted >= new.currentDataIndex
  BY <1>9, <1>11, <1>12, <1>13
<1>17. Phase'
  BY <1>1, <1>2, <1>9, <1>10, <1>11, <1>14, <1>15, <1>16, SendStep
<1> QED
  BY <1>1, <1>2, <1>17 DEF storeVars

\* A frame is refused: it is kept.
LEMMA FrameIsKept ==
  ASSUME TypeInv, Phase, FrameRefused
  PROVE  Phase'
<1>1. Sending /\ AppHolds("none") /\ BleHolds("none")
  BY FrameToken DEF FrameRefused
<1>2. /\ UNCHANGED <<first, count, statusCb, request, samplesCache, notification, appMessages,
                     bleMessages, announced, header, received>>
      /\ frame' = NoFrame /\ blocked' = TRUE
  BY DEF FrameRefused, BleFrame, storeVars, appVars
<1>3. SendingInv'
  <2>1. PromiseInv' /\ NotificationInv' /\ (RequestInv => RequestInv')
    BY <1>1, <1>2 DEF Sending, SendingInv, ReadyInv, PromiseInv, NotificationInv, RequestInv
  <2>2. ReadyInv'
    BY <1>1, <1>2, <2>1 DEF Sending, SendingInv, ReadyInv, Left
  <2>3. ChunkInv(notification.dataLength,
                 notification.samplesTransmitted - notification.currentDataIndex)'
    BY <1>1, <1>2 DEF Sending, SendingInv, ChunkInv, Sample
  <2> QED
    BY <1>1, <1>2, <2>2, <2>3 DEF Sending, SendingInv, IsSending, Left
<1>4. AppHolds("none")' /\ BleHolds("none")'
  BY <1>1, <1>2 DEF AppHolds, BleHolds
<1> QED
  BY <1>2, <1>3, <1>4 DEF Phase, Blocked

-----------------------------------------------------------------------------
(* The invariant.                                                          *)

\* What was disturbed stays so.
LEMMA DisturbedStays ==
  ASSUME TypeInv, [Next]_vars, ~ disturbed'
  PROVE  ~ disturbed
<1>1. disturbed \in BOOLEAN
  BY DEF TypeInv, ClientType
<1>2. CASE UNCHANGED vars
  BY <1>2 DEF vars
<1>3. CASE AppTask
  BY <1>1, <1>3
     DEF AppTask, GetAvailableSamples, SetRequestedSamples, GetNextSamples, BeginEnumerate,
         IgnoreEnumerate, CountSamples, BeginReadSamples, ReadMoreSamples, ReadNoSamples
<1>4. CASE BleTask \/ Answer
  BY <1>1, <1>4
     DEF BleTask, Answer, AvailableSamplesResponse, RequestedSamplesResponse,
         NextSamplesResponse, TxPoolAvailable, HeaderSent, FrameSent
<1>5. CASE BackgroundEnds \/ Subscribe
  BY <1>1, <1>5 DEF BackgroundEnds, PoolEvent, EraseDone, Subscribe
<1>6. CASE Event
  BY <1>1, <1>6
     DEF Event, AddItem, HeaderRefused, FrameRefused, OtherRefused, Unsubscribe, Disconnect,
         ReadAvailableSamples
<1> QED
  BY <1>2, <1>3, <1>4, <1>5, <1>6 DEF Next

\* Who subscribes is the client.
LEMMA SubscribedStays ==
  ASSUME [Next]_vars, subscribed', ~ Subscribe
  PROVE  subscribed /\ ~ Unsubscribe /\ ~ Disconnect
<1>1. CASE UNCHANGED vars
  BY <1>1 DEF vars, clientVars, Unsubscribe, Disconnect
<1>2. CASE AppTask
  BY <1>2
     DEF AppTask, GetAvailableSamples, SetRequestedSamples, GetNextSamples, BeginEnumerate,
         IgnoreEnumerate, CountSamples, BeginReadSamples, ReadMoreSamples, ReadNoSamples,
         Enumerate, clientVars, Unsubscribe, Disconnect
<1>3. CASE BleTask \/ Answer
  BY <1>3
     DEF BleTask, Answer, AvailableSamplesResponse, RequestedSamplesResponse,
         NextSamplesResponse, TxPoolAvailable, HeaderSent, FrameSent, BleFrame, Unsubscribe,
         Disconnect
<1>4. CASE BackgroundEnds
  BY <1>4 DEF BackgroundEnds, PoolEvent, EraseDone, clientVars, Unsubscribe, Disconnect
<1>5. CASE Event
  BY <1>5
     DEF Event, AddItem, HeaderRefused, FrameRefused, OtherRefused, Unsubscribe, Disconnect,
         ReadAvailableSamples, BleFrame, clientVars
<1> QED
  BY <1>1, <1>2, <1>3, <1>4, <1>5 DEF Next

LEMMA PhaseKept ==
  ASSUME TypeInv, DownloadInv, [Next]_vars
  PROVE  DownloadInv'
<1> SUFFICES ASSUME ~ disturbed', subscribed'
             PROVE  Phase'
  BY DEF DownloadInv
<1>1. CASE Subscribe
  BY <1>1, SubscribeAsks
<1>2. CASE ~ Subscribe
  <2>1. Phase /\ subscribed /\ ~ Unsubscribe /\ ~ Disconnect
    BY <1>2, DisturbedStays, SubscribedStays DEF DownloadInv
  <2>2. CASE UNCHANGED vars
    <3>1. DataKept
      BY <2>2 DEF vars, DataKept, TypeInv, StoreType, storeVars, appVars, bleVars, promiseVars
    <3>2. UNCHANGED <<startIndex, statusCb, appMessages, bleMessages>>
      BY <2>2 DEF vars, appVars
    <3>3. (\A app : AppHolds(app) => AppHolds(app)') /\ (\A ble : BleHolds(ble) => BleHolds(ble)')
      BY <3>2 DEF AppHolds, BleHolds
    <3> QED
      BY <2>1, <3>1, <3>2, <3>3, NeutralKeeps
  <2>3. CASE AppTask
    <3>1. ~ IgnoreEnumerate
      BY DEF IgnoreEnumerate
    <3> QED
      BY <2>1, <2>3, <3>1, OthersKeep, SetRequestedSamplesBegins, GetNextSamplesReads,
         BeginReadSamplesAnswers, ReadMoreSamplesReads, ReadNoSamplesEnds DEF AppTask
  <2>4. CASE BleTask \/ Answer
    BY <2>1, <2>4, OthersKeep, RequestedSamplesAreAnnounced, NextSamplesAreSent, SendingGoesOn,
       HeaderIsSent, FrameIsSent DEF BleTask, Answer
  <2>5. CASE BackgroundEnds
    BY <2>1, <2>5, OthersKeep DEF BackgroundEnds
  <2>6. CASE Event
    <3>1. ~ HeaderRefused
      BY DEF HeaderRefused
    <3> QED
      BY <2>1, <2>6, <3>1, AddItemKeeps, OthersKeep, FrameIsKept DEF Event
  <2> QED
    BY <1>2, <2>2, <2>3, <2>4, <2>5, <2>6 DEF Next
<1> QED
  BY <1>1, <1>2

LEMMA PhasesKept == Spec => [](TypeInv /\ DownloadInv)
<1>1. Init => TypeInv /\ DownloadInv
  BY InitTyped DEF Init, DownloadInv
<1>2. TypeInv /\ DownloadInv /\ [Next]_vars => (TypeInv /\ DownloadInv)'
  BY NextTyped, PhaseKept
<1> QED
  BY <1>1, <1>2, PTL DEF Spec

-----------------------------------------------------------------------------
(* The cache.                                                              *)

LEMMA CacheStep ==
  ASSUME TypeInv, DownloadInv, [Next]_vars, samplesCache' # samplesCache
  PROVE  disturbed' \/ ~subscribed \/ (frame[1] # "data" /\ ~blocked)
<1> SUFFICES ASSUME ~ disturbed', subscribed
             PROVE  frame[1] # "data" /\ ~blocked
  OBVIOUS
<1>1. Phase
  BY DisturbedStays DEF DownloadInv
<1>2. ReadMoreSamples
  <2>1. ~ UNCHANGED vars
    BY DEF vars, appVars
  <2>2. CASE AppTask
    BY <2>2
       DEF AppTask, GetAvailableSamples, SetRequestedSamples, GetNextSamples, IgnoreEnumerate,
           CountSamples, BeginReadSamples, ReadNoSamples, appVars
  <2>3. ~ BleTask /\ ~ Answer
    BY DEF BleTask, Answer, AvailableSamplesResponse, RequestedSamplesResponse,
           NextSamplesResponse, TxPoolAvailable, HeaderSent, FrameSent, BleFrame, appVars
  <2>4. ~ BackgroundEnds /\ ~ Subscribe
    BY DEF BackgroundEnds, PoolEvent, EraseDone, Subscribe, appVars
  <2>5. ~ Event
    BY DEF Event, AddItem, HeaderRefused, FrameRefused, OtherRefused, Unsubscribe, Disconnect,
           ReadAvailableSamples, BleFrame, appVars
  <2> QED
    BY <2>1, <2>2, <2>3, <2>4, <2>5 DEF Next
<1>3. Reading
  BY <1>1, <1>2, ReadMoreSamplesReads
<1> QED
  BY <1>3, Tuples DEF Reading, NoAnswer

(***************************************************************************)
(* The cache that the nested application task fills is not overwritten     *)
(* between two frames.                                                     *)
(***************************************************************************)
THEOREM CacheStable == Spec => CacheIsStable
<1>1. TypeInv /\ DownloadInv /\ [Next]_vars
        => [samplesCache' # samplesCache =>
              disturbed' \/ ~subscribed \/ (frame[1] # "data" /\ ~blocked)]_vars
  BY CacheStep
<1> QED
  BY <1>1, PhasesKept, PTL DEF Spec, CacheIsStable

-----------------------------------------------------------------------------
(* The refinement.                                                         *)

\* A new item is logged, or old ones are given up for it.
LEMMA AddItemLogs ==
  ASSUME TypeInv, AddItem, ~ disturbed', ~ disturbed
  PROVE  Service!LogItem \/ Service!Forget
<1>1. first \in Nat /\ count \in Nat /\ PageItems \in Nat \ {0}
  BY Constants DEF TypeInv, StoreType
<1>2. UNCHANGED <<announced, header, received>>
  BY DEF AddItem, promiseVars
<1>3. CASE count + 1 = NrOfPages * PageItems
  <2>1. /\ first' = first + PageItems /\ count' = count + 1 - PageItems
        /\ announced = Service!NoPromise \/ Service!Complete
    BY <1>3 DEF AddItem
  <2>2. 2 * first' > 2 * first /\ 2 * (first' + count') = 2 * (first + count) + 2
    BY <1>1, <2>1
  <2> QED
    BY <1>2, <2>1, <2>2 DEF Service!Forget, Service!download
<1>4. CASE count + 1 # NrOfPages * PageItems
  <2>1. first' = first /\ count' = count + 1
    BY <1>4 DEF AddItem
  <2>2. 2 * first' = 2 * first /\ 2 * (first' + count') = 2 * (first + count) + 2
    BY <1>1, <2>1
  <2> QED
    BY <1>2, <2>2 DEF Service!LogItem, Service!download
<1> QED
  BY <1>3, <1>4

\* What is announced is what the log holds at that time.
LEMMA BeginReadSamplesAnnounces ==
  ASSUME TypeInv, Phase, subscribed, BeginReadSamples, ~ disturbed'
  PROVE  \E requested \in 0 .. 2 * (NrOfPages * PageItems) : Service!Announce(requested)
<1> DEFINE requested == request.requestedNrOfSamples
           bounded == Minimum(2 * count, requested)
<1>1. /\ NothingPromised /\ announced' = Service!NewestSamples(requested)
      /\ UNCHANGED <<first, count, header, received>>
  BY BeginReadSamplesAnswers
<1>2. requested \in Nat /\ count \in Nat /\ first \in Nat
  BY DEF TypeInv, AppType, RequestState, StoreType
<1>3. bounded \in 0 .. 2 * (NrOfPages * PageItems)
  BY <1>2, Constants DEF Minimum, TypeInv, StoreType
<1>4. Service!NewestSamples(bounded) = Service!NewestSamples(requested)
  <2>1. 2 * (first + count) - 2 * first = 2 * count
    BY <1>2
  <2>2. (IF bounded < 2 * count THEN bounded ELSE 2 * count)
          = (IF requested < 2 * count THEN requested ELSE 2 * count)
    BY <1>2 DEF Minimum
  <2> HIDE DEF bounded, requested
  <2> QED
    BY <2>1, <2>2 DEF Service!NewestSamples
<1>5. Service!Announce(bounded)
  BY <1>1, <1>4 DEF Service!Announce, Service!log, NothingPromised
<1> QED
  BY <1>3, <1>5

LEMMA HeaderIsTold ==
  ASSUME TypeInv, Phase, subscribed, HeaderSent
  PROVE  Service!SendHeader
<1>1. /\ HeaderInv /\ header' = announced.number
      /\ UNCHANGED <<first, count, announced, received>>
  BY HeaderIsSent DEF HeaderGoes
<1>2. announced # Service!NoPromise /\ header = Service!NoHeader
  BY <1>1 DEF HeaderInv, PromiseInv, Service!NoPromise
<1> QED
  BY <1>1, <1>2 DEF Service!SendHeader, Service!log

LEMMA FrameIsDelivered ==
  ASSUME TypeInv, Phase, subscribed, FrameSent
  PROVE  \E number \in 1 .. 2 * (NrOfPages * PageItems) : Service!Deliver(number)
<1> DEFINE length == Minimum(SamplesPerFrame, Left(notification))
           sent == notification.samplesTransmitted
<1>1. /\ Sending /\ received' = received \o frame[2]
      /\ UNCHANGED <<first, count, announced, header>>
  BY FrameIsSent
<1>2. /\ frame[2] = [i \in 1 .. length |-> announced.from + sent + i - 1]
      /\ SendingInv
  BY <1>1, Tuples DEF Sending, NextFrame
<1>3. /\ announced.number \in Nat /\ header = announced.number /\ Len(received) = sent
      /\ Left(notification) = announced.number - sent /\ Left(notification) > 0
      /\ sent \in Nat
  BY <1>2 DEF SendingInv, ReadyInv, PromiseInv, NotificationInv, IsSending, Left, TypeInv, BleType,
              NotificationState
<1>4. /\ length \in Nat /\ length >= 1 /\ length <= SamplesPerFrame
      /\ sent + length <= announced.number
  BY <1>3, Constants DEF Minimum
<1>5. SamplesPerFrame <= CacheSize
  <2>1. IsFrameStart(0) /\ 0 < CacheSize
    BY Constants DEF IsFrameStart
  <2> QED
    BY <2>1, FrameFits, Constants
<1>6. length \in 1 .. 2 * (NrOfPages * PageItems)
  <2> HIDE DEF length
  <2> QED
    BY <1>4, <1>5, Constants DEF CacheSize
<1>7. header # Service!NoHeader
  BY <1>3 DEF Service!NoHeader
<1> HIDE DEF length
<1>8. Service!Deliver(length)
  BY <1>1, <1>2, <1>3, <1>4, <1>7 DEF Service!Deliver, Service!log
<1> QED
  BY <1>6, <1>8

LEMMA StepImplements ==
  ASSUME TypeInv, DownloadInv, [Next]_vars
  PROVE  [Service!Next]_(Service!vars)
<1>1. CASE disturbed'
  BY <1>1 DEF Service!Next
<1>2. CASE ~ disturbed'
  <2>1. ~ disturbed /\ disturbed' = disturbed
    BY <1>2, DisturbedStays, NextTyped DEF TypeInv, ClientType
  <2>2. subscribed => Phase
    BY <2>1 DEF DownloadInv
  <2>3. ASSUME UNCHANGED <<first, count, announced, header, received>>
        PROVE  UNCHANGED Service!vars
    BY <2>1, <2>3 DEF Service!vars, Service!log, Service!download
  <2>4. CASE UNCHANGED vars
    BY <2>3, <2>4 DEF vars, storeVars, promiseVars
  <2>5. CASE AppTask
    <3>1. CASE BeginReadSamples
      <4>1. CASE subscribed
        BY <1>2, <2>1, <2>2, <3>1, <4>1, BeginReadSamplesAnnounces DEF Service!Next
      <4>2. CASE ~ subscribed
        BY <2>3, <3>1, <4>2 DEF BeginReadSamples, Enumerate, storeVars
      <4> QED
        BY <4>1, <4>2
    <3>2. CASE ~ BeginReadSamples
      BY <2>3, <2>5, <3>2
         DEF AppTask, GetAvailableSamples, SetRequestedSamples, GetNextSamples, IgnoreEnumerate,
             CountSamples, ReadMoreSamples, ReadNoSamples, Enumerate, storeVars, promiseVars
    <3> QED
      BY <3>1, <3>2
  <2>6. CASE BleTask
    BY <2>3, <2>6
       DEF BleTask, AvailableSamplesResponse, RequestedSamplesResponse, NextSamplesResponse,
           TxPoolAvailable, BleFrame, storeVars
  <2>7. CASE Answer
    <3>1. CASE subscribed
      BY <2>1, <2>2, <2>7, <3>1, HeaderIsTold, FrameIsDelivered DEF Answer, Service!Next
    <3>2. CASE ~ subscribed
      BY <2>3, <2>7, <3>2 DEF Answer, HeaderSent, FrameSent, BleFrame, storeVars
    <3> QED
      BY <3>1, <3>2
  <2>8. CASE BackgroundEnds \/ Subscribe
    BY <2>3, <2>8 DEF BackgroundEnds, PoolEvent, EraseDone, Subscribe, storeVars, promiseVars
  <2>9. CASE AddItem
    BY <1>2, <2>1, <2>9, AddItemLogs DEF Service!Next
  <2>10. CASE Unsubscribe \/ Disconnect
    BY <2>1, <2>10
       DEF Unsubscribe, Disconnect, PromiseNothing, storeVars, Service!Next, Service!Unsubscribe,
           Service!log
  <2>11. CASE HeaderRefused \/ FrameRefused \/ OtherRefused \/ ReadAvailableSamples
    BY <2>3, <2>11
       DEF HeaderRefused, FrameRefused, OtherRefused, ReadAvailableSamples, BleFrame, storeVars,
           promiseVars
  <2> QED
    BY <2>4, <2>5, <2>6, <2>7, <2>8, <2>9, <2>10, <2>11 DEF Next, Event
<1> QED
  BY <1>1, <1>2

(***************************************************************************)
(* The protocol of the two tasks implements DownloadService: the samples   *)
(* that follow the header are the newest ones of the log, in order,        *)
(* without a gap and without a repetition, for every request, every size   *)
(* of log, page and frame, and every interleaving.                         *)
(***************************************************************************)
THEOREM DownloadImplemented == Spec => ImplementsDownload
<1>1. Init => Service!Init
  BY DEF Init, Service!Init
<1>2. TypeInv /\ DownloadInv /\ [Next]_vars => [Service!Next]_(Service!vars)
  BY StepImplements
<1> QED
  BY <1>1, <1>2, PhasesKept, PTL DEF Spec, ImplementsDownload, Service!Spec
=============================================================================
