------------------------ MODULE MessageBrokerProofs ------------------------
(***************************************************************************)
(* Proofs about MessageBroker, for every capacity of the queue and every   *)
(* number of interrupt levels: the operations of CyclicBuffer are those of *)
(* a queue, no wake-up is lost, and the broker is the queue it promises to *)
(* be.                                                                     *)
(***************************************************************************)
EXTENDS MessageBroker, TLAPS

-----------------------------------------------------------------------------
(* The cyclic buffer.                                                      *)

\* Indices stay within the array.
LEMMA RestrictBoundType ==
  ASSUME NEW index \in Slots
  PROVE  RestrictBound(index + 1) \in Slots
BY CapacityAssumption DEF RestrictBound, Slots

LEMMA EmptyBufferType ==
  EmptyBuffer \in Buffer /\ BufferIsEmpty(EmptyBuffer)
BY CapacityAssumption DEF EmptyBuffer, Buffer, Slots, BufferIsEmpty

LEMMA NrOfElementsType ==
  ASSUME NEW buffer \in Buffer
  PROVE  /\ NrOfElements(buffer) \in 0 .. Capacity - 1
         /\ NrOfElements(buffer) = 0 <=> BufferIsEmpty(buffer)
         /\ NrOfElements(buffer) = Capacity - 1 <=> BufferIsFull(buffer)
<1>1. buffer.indexIn \in Slots /\ buffer.indexOut \in Slots
  BY DEF Buffer
<1> QED
  BY <1>1, CapacityAssumption
     DEF NrOfElements, BufferIsEmpty, BufferIsFull, RestrictBound, Slots

LEMMA SlotBehindType ==
  ASSUME NEW index \in Slots, NEW distance \in 0 .. Capacity
  PROVE  SlotBehind(index, distance) \in Slots
BY CapacityAssumption DEF SlotBehind, Slots

\* What a buffer holds is a sequence of elements.
LEMMA ContentsLen ==
  ASSUME NEW buffer \in Buffer
  PROVE  /\ Len(Contents(buffer)) = NrOfElements(buffer)
         /\ DOMAIN Contents(buffer) = 1 .. NrOfElements(buffer)
         /\ Contents(buffer) \in Seq(Element \cup {NoElement})
         /\ \A k \in 1 .. NrOfElements(buffer) :
              Contents(buffer)[k]
                = buffer.storage[SlotBehind(buffer.indexOut, k - 1)]
<1>1. NrOfElements(buffer) \in 0 .. Capacity - 1
  BY NrOfElementsType
<1>2. buffer.indexOut \in Slots
      /\ buffer.storage \in [Slots -> Element \cup {NoElement}]
  BY DEF Buffer
<1>3. \A k \in 1 .. NrOfElements(buffer) :
        SlotBehind(buffer.indexOut, k - 1) \in Slots
  <2> TAKE k \in 1 .. NrOfElements(buffer)
  <2>1. k - 1 \in 0 .. Capacity
    BY <1>1, CapacityAssumption
  <2> QED
    BY <1>2, <2>1, SlotBehindType
<1>4. \A k \in 1 .. NrOfElements(buffer) :
        buffer.storage[SlotBehind(buffer.indexOut, k - 1)]
          \in Element \cup {NoElement}
  BY <1>2, <1>3
<1>5. Contents(buffer)
        \in [1 .. NrOfElements(buffer) -> Element \cup {NoElement}]
  BY <1>4 DEF Contents
<1>6. NrOfElements(buffer) \in Nat
  BY <1>1, CapacityAssumption
<1> QED
  BY <1>5, <1>6, CapacityAssumption DEF Contents

LEMMA EnqueueType ==
  ASSUME NEW buffer \in Buffer, NEW element \in Element
  PROVE  Enqueue(buffer, element) \in Buffer
<1>1. /\ buffer.storage \in [Slots -> Element \cup {NoElement}]
      /\ buffer.indexIn \in Slots /\ buffer.indexOut \in Slots
  BY DEF Buffer
<1>2. [buffer.storage EXCEPT ![buffer.indexIn] = element]
        \in [Slots -> Element \cup {NoElement}]
  BY <1>1
<1>3. RestrictBound(buffer.indexIn + 1) \in Slots
  BY <1>1, RestrictBoundType
<1> QED
  BY <1>2, <1>3 DEF Enqueue, Buffer

LEMMA DequeueType ==
  ASSUME NEW buffer \in Buffer
  PROVE  /\ Dequeue(buffer) \in Buffer
         /\ FirstElement(buffer) \in Element \cup {NoElement}
<1>1. buffer.indexOut \in Slots
  BY DEF Buffer
<1>2. RestrictBound(buffer.indexOut + 1) \in Slots
  BY <1>1, RestrictBoundType
<1> QED
  BY <1>1, <1>2 DEF Dequeue, FirstElement, Buffer

\* CyclicBuffer_Empty leaves nothing.
LEMMA EmptiedType ==
  ASSUME NEW buffer \in Buffer
  PROVE  /\ Emptied(buffer) \in Buffer
         /\ BufferIsEmpty(Emptied(buffer))
         /\ Contents(Emptied(buffer)) = <<>>
<1>1. Emptied(buffer) \in Buffer
  <2>1. 0 \in Slots
    BY CapacityAssumption DEF Slots
  <2> QED
    BY <2>1 DEF Emptied, Buffer
<1>2. BufferIsEmpty(Emptied(buffer))
  BY DEF Emptied, BufferIsEmpty, Buffer
<1>3. NrOfElements(Emptied(buffer)) = 0
  BY <1>1, <1>2, NrOfElementsType
<1> QED
  BY <1>1, <1>2, <1>3, ContentsLen

(***************************************************************************)
(* CyclicBuffer_Enqueue appends its element to the contents of a buffer    *)
(* that is not full, over the end of the array as well.                    *)
(***************************************************************************)
LEMMA EnqueueAppends ==
  ASSUME NEW buffer \in Buffer, NEW element \in Element, ~BufferIsFull(buffer)
  PROVE  Contents(Enqueue(buffer, element))
           = Append(Contents(buffer), element)
<1> DEFINE after == Enqueue(buffer, element)
           n == NrOfElements(buffer)
           in == buffer.indexIn
           out == buffer.indexOut
<1>1. in \in Slots /\ out \in Slots
      /\ buffer.storage \in [Slots -> Element \cup {NoElement}]
  BY DEF Buffer
<1>2. /\ after.indexIn = RestrictBound(in + 1)
      /\ after.indexOut = out
      /\ after.storage = [buffer.storage EXCEPT ![in] = element]
  BY DEF Enqueue, Buffer
<1>3. n \in 0 .. Capacity - 2
  <2>1. n \in 0 .. Capacity - 1 /\ n # Capacity - 1
    BY NrOfElementsType
  <2> QED
    BY <2>1, CapacityAssumption
<1>4. NrOfElements(after) = n + 1
  <2>1. n = IF in >= out THEN in - out ELSE in + Capacity - out
    BY DEF NrOfElements
  <2>2. NrOfElements(after)
          = IF RestrictBound(in + 1) >= out THEN RestrictBound(in + 1) - out
            ELSE RestrictBound(in + 1) + Capacity - out
    BY <1>2 DEF NrOfElements
  <2>3. RestrictBound(in + 1) # out
    BY DEF BufferIsFull
  <2> HIDE DEF after, n, in, out
  <2> QED
    BY <1>1, <2>1, <2>2, <2>3, CapacityAssumption DEF RestrictBound, Slots
<1>5. SlotBehind(out, n) = in
  BY <1>1, CapacityAssumption DEF NrOfElements, SlotBehind, Slots
<1>6. \A k \in 1 .. n : SlotBehind(out, k - 1) \in Slots \ {in}
  <2>1. n = IF in >= out THEN in - out ELSE in + Capacity - out
    BY DEF NrOfElements
  <2> HIDE DEF n, in, out
  <2> TAKE k \in 1 .. n
  <2>2. in \in Nat /\ out \in Nat /\ in < Capacity /\ out < Capacity
    BY <1>1, CapacityAssumption DEF Slots
  <2>3. k \in Nat /\ 1 <= k /\ k <= n
    BY <1>3, CapacityAssumption
  <2>4. CASE out + (k - 1) >= Capacity
    BY <2>1, <2>2, <2>3, <2>4, CapacityAssumption DEF SlotBehind, Slots
  <2>5. CASE ~(out + (k - 1) >= Capacity)
    BY <2>1, <2>2, <2>3, <2>5, CapacityAssumption DEF SlotBehind, Slots
  <2> QED
    BY <2>4, <2>5
<1>7. after \in Buffer
  BY EnqueueType
<1>8. /\ Len(Contents(buffer)) = n
      /\ Contents(buffer) \in Seq(Element \cup {NoElement})
      /\ \A k \in 1 .. n :
           Contents(buffer)[k] = buffer.storage[SlotBehind(out, k - 1)]
  BY ContentsLen
<1>9. /\ DOMAIN Contents(after) = 1 .. n + 1
      /\ Contents(after) \in Seq(Element \cup {NoElement})
      /\ Len(Contents(after)) = n + 1
      /\ \A k \in 1 .. n + 1 :
           Contents(after)[k] = after.storage[SlotBehind(out, k - 1)]
  BY <1>2, <1>4, <1>7, ContentsLen
<1> HIDE DEF after, n, in, out
<1>10. Contents(after)[n + 1] = element
  <2>1. Contents(after)[n + 1] = after.storage[SlotBehind(out, n)]
    BY <1>3, <1>9, CapacityAssumption
  <2> QED
    BY <1>1, <1>2, <1>5, <2>1
<1>11. \A k \in 1 .. n : Contents(after)[k] = Contents(buffer)[k]
  <2> TAKE k \in 1 .. n
  <2>1. Contents(after)[k] = after.storage[SlotBehind(out, k - 1)]
    BY <1>3, <1>9, CapacityAssumption
  <2>2. SlotBehind(out, k - 1) \in Slots \ {in}
    BY <1>6
  <2> QED
    BY <1>1, <1>2, <1>8, <2>1, <2>2
<1>12. Contents(after) = Append(Contents(buffer), element)
  BY <1>3, <1>8, <1>9, <1>10, <1>11, CapacityAssumption
<1> QED
  BY <1>12 DEF after

(***************************************************************************)
(* CyclicBuffer_Dequeue takes the first of the contents.                   *)
(***************************************************************************)
LEMMA DequeueTakesHead ==
  ASSUME NEW buffer \in Buffer, ~BufferIsEmpty(buffer)
  PROVE  /\ Contents(buffer) # <<>>
         /\ FirstElement(buffer) = Head(Contents(buffer))
         /\ Contents(Dequeue(buffer)) = Tail(Contents(buffer))
<1> DEFINE after == Dequeue(buffer)
           n == NrOfElements(buffer)
           out == buffer.indexOut
<1>1. buffer.indexIn \in Slots /\ out \in Slots
  BY DEF Buffer
<1>2. /\ after.indexIn = buffer.indexIn
      /\ after.indexOut = RestrictBound(out + 1)
      /\ after.storage = buffer.storage
  BY DEF Dequeue, Buffer
<1>3. n \in 1 .. Capacity - 1
  <2>1. n \in 0 .. Capacity - 1 /\ n # 0
    BY NrOfElementsType
  <2> QED
    BY <2>1, CapacityAssumption
<1>4. NrOfElements(after) = n - 1
  BY <1>1, <1>2, <1>3, CapacityAssumption
     DEF NrOfElements, BufferIsEmpty, RestrictBound, Slots
<1>5. \A k \in 1 .. n - 1 :
        SlotBehind(RestrictBound(out + 1), k - 1) = SlotBehind(out, k)
  BY <1>1, <1>3, CapacityAssumption DEF RestrictBound, SlotBehind, Slots
<1>6. SlotBehind(out, 0) = out
  BY <1>1, CapacityAssumption DEF SlotBehind, Slots
<1>7. after \in Buffer
  BY DequeueType
<1>8. /\ Len(Contents(buffer)) = n
      /\ Contents(buffer) \in Seq(Element \cup {NoElement})
      /\ \A k \in 1 .. n :
           Contents(buffer)[k] = buffer.storage[SlotBehind(out, k - 1)]
  BY ContentsLen
<1>9. /\ Len(Contents(after)) = n - 1
      /\ Contents(after) \in Seq(Element \cup {NoElement})
      /\ \A k \in 1 .. n - 1 : Contents(after)[k]
           = buffer.storage[SlotBehind(RestrictBound(out + 1), k - 1)]
  BY <1>2, <1>4, <1>7, ContentsLen
<1>10. FirstElement(buffer) = buffer.storage[out]
  BY DEF FirstElement
<1> HIDE DEF after, n, out
<1>11. Contents(buffer) # <<>> /\ Contents(buffer)[1] = buffer.storage[out]
  <2>1. 1 \in 1 .. n /\ n > 0
    BY <1>3, CapacityAssumption
  <2>2. Contents(buffer)[1] = buffer.storage[SlotBehind(out, 1 - 1)]
    BY <1>8, <2>1
  <2> QED
    BY <1>6, <1>8, <2>1, <2>2
<1>12. \A k \in 1 .. n - 1 : Contents(after)[k] = Contents(buffer)[k + 1]
  <2> TAKE k \in 1 .. n - 1
  <2>1. k + 1 \in 1 .. n /\ (k + 1) - 1 = k
    BY <1>3, CapacityAssumption
  <2>2. Contents(buffer)[k + 1] = buffer.storage[SlotBehind(out, (k + 1) - 1)]
    BY <1>8, <2>1
  <2> QED
    BY <1>5, <1>9, <2>1, <2>2
<1>13. Contents(after) = Tail(Contents(buffer))
  BY <1>3, <1>8, <1>9, <1>11, <1>12, CapacityAssumption
<1> QED
  BY <1>8, <1>10, <1>11, <1>13 DEF after

-----------------------------------------------------------------------------
(* Type correctness.                                                       *)

LEMMA NotPublishingType == NotPublishing \in Publisher
BY DEF NotPublishing, Publisher

\* The contexts are numbers; the thread is the lowest of them.
LEMMA ContextNumbers ==
  /\ Thread \in Contexts
  /\ Contexts \subseteq Nat
  /\ Nobody \notin Contexts
  /\ \A context \in Contexts : context # Thread => context > Thread
BY MessageBrokerAssumption
   DEF MessageBrokerAssumption, Thread, Contexts, Nobody

LEMMA StartPublishingType ==
  ASSUME TypeOK, NEW context \in Contexts, NEW message \in Element,
         StartPublishing(context, message)
  PROVE  publisher' \in [Contexts -> Publisher]
<1>1. QueueIsEmpty \in BOOLEAN
  BY DEF QueueIsEmpty, BufferIsEmpty
<1>2. [step |-> "enqueue", message |-> message, scheduleNeeded |-> QueueIsEmpty]
        \in Publisher
  BY <1>1 DEF Publisher
<1> QED
  BY <1>2 DEF StartPublishing, TypeOK

LEMMA InitType == Init => TypeOK
BY EmptyBufferType, NotPublishingType DEF Init, TypeOK

LEMMA NextType == TypeOK /\ [Next]_vars => TypeOK'
<1> SUFFICES ASSUME TypeOK, [Next]_vars
             PROVE  TypeOK'
  OBVIOUS
<1>1. ASSUME NEW context \in Contexts, NEW message \in Message,
             PublishMessage(context, message)
      PROVE  TypeOK'
  <2>1. message \in Element
    BY MessageBrokerAssumption DEF MessageBrokerAssumption
  <2>2. publisher' \in [Contexts -> Publisher]
    BY <1>1, <2>1, StartPublishingType DEF PublishMessage
  <2> QED
    BY <1>1, <2>2 DEF PublishMessage, TypeOK
<1>2. ASSUME NEW context \in Contexts, EnqueueMessage(context)
      PROVE  TypeOK'
  <2>0. publisher[context]
          \in [step : {"enqueue", "schedule"}, message : Element,
              scheduleNeeded : BOOLEAN]
    BY <1>2 DEF EnqueueMessage, TypeOK, Publisher, NotPublishing
  <2>1. /\ publisher[context].message \in Element
        /\ [publisher[context] EXCEPT !.step = "schedule"] \in Publisher
    BY <2>0 DEF Publisher
  <2>2. messageQueue' \in Buffer
    BY <1>2, <2>1, EnqueueType DEF EnqueueMessage, TypeOK
  <2>3. publisher' \in [Contexts -> Publisher]
    BY <1>2, <2>1 DEF EnqueueMessage, TypeOK
  <2> QED
    BY <1>2, <2>2, <2>3 DEF EnqueueMessage, TypeOK
<1>3. ASSUME NEW context \in Contexts, ScheduleTask(context)
      PROVE  TypeOK'
  <2>1. publisher' \in [Contexts -> Publisher]
    BY <1>3, NotPublishingType DEF ScheduleTask, TypeOK
  <2>2. publisher[context].scheduleNeeded \in BOOLEAN
    <3>1. publisher[context]
            \in [step : {"enqueue", "schedule"}, message : Element,
                scheduleNeeded : BOOLEAN]
      BY <1>3 DEF ScheduleTask, TypeOK, Publisher, NotPublishing
    <3> QED
      BY <3>1
  <2>3. taskSet' \in BOOLEAN
    BY <1>3, <2>2 DEF ScheduleTask, TypeOK
  <2> QED
    BY <1>3, <2>1, <2>3 DEF ScheduleTask, TypeOK
<1>4. CASE RunTask
  BY <1>4 DEF RunTask, TypeOK
<1>5. CASE DequeueMessage
  <2>1. /\ messageQueue' \in Buffer
        /\ currentMessage' \in Element \cup {NoElement}
    BY <1>5, DequeueType DEF DequeueMessage, QueueIsEmpty, TypeOK
  <2> QED
    BY <1>5, <2>1 DEF DequeueMessage, TypeOK
<1>6. CASE MessageDispatched
  BY <1>6 DEF MessageDispatched, TypeOK
<1>7. CASE Reschedule
  <2>1. taskSet' \in BOOLEAN
    BY <1>7 DEF Reschedule, TypeOK
  <2> QED
    BY <1>7, <2>1 DEF Reschedule, TypeOK
<1>8. ASSUME NEW context \in Contexts, EmptyQueue(context)
      PROVE  TypeOK'
  <2>1. messageQueue' \in Buffer
    BY <1>8, EmptiedType DEF EmptyQueue, TypeOK
  <2> QED
    BY <1>8, <2>1, ContextNumbers DEF EmptyQueue, TypeOK
<1>9. CASE PublishError
  <2>1. Error \in Element
    BY MessageBrokerAssumption DEF MessageBrokerAssumption
  <2>2. failing \in Contexts
    BY <1>9 DEF PublishError, TypeOK
  <2>3. publisher' \in [Contexts -> Publisher]
    BY <1>9, <2>1, <2>2, StartPublishingType DEF PublishError
  <2> QED
    BY <1>9, <2>3 DEF PublishError, TypeOK
<1>10. CASE RunAndStop
  <2>1. /\ messageQueue' \in Buffer
        /\ currentMessage' \in Element \cup {NoElement}
    BY <1>10, DequeueType DEF RunAndStop, TypeOK
  <2> QED
    BY <1>10, <2>1 DEF RunAndStop, TypeOK
<1>11. CASE UNCHANGED vars
  BY <1>11 DEF vars, TypeOK
<1> QED
  BY <1>1, <1>2, <1>3, <1>4, <1>5, <1>6, <1>7, <1>8, <1>9, <1>10, <1>11
     DEF Next, Publish, Run
-----------------------------------------------------------------------------
(* No lost wake-up.  A publisher that found the queue not empty need not   *)
(* set the task, for nothing is taken from the queue while it is active.   *)

WakeUpInv ==
  /\ TypeOK
  /\ NoLostWakeUp
  /\ failing = Nobody =>
       \A context \in Contexts :
         IsPublishing(context) =>
           publisher[context].scheduleNeeded \/ ~QueueIsEmpty

\* The thread runs only if no context publishes.
LEMMA TaskRunsAlone ==
  ASSUME NEW step, TaskRuns(step)
  PROVE  \A context \in Contexts : ~IsPublishing(context)
BY ContextNumbers DEF TaskRuns, Runs

\* A message that was enqueued, or found no room, leaves the queue not empty.
LEMMA EnqueuedNotEmpty ==
  ASSUME NEW buffer \in Buffer, NEW element \in Element
  PROVE  ~BufferIsEmpty(Enqueue(buffer, element))
<1>1. CASE BufferIsFull(buffer)
  <2>1. NrOfElements(buffer) # 0
    BY <1>1, NrOfElementsType, CapacityAssumption
  <2> QED
    BY <1>1, <2>1, NrOfElementsType DEF Enqueue
<1>2. CASE ~BufferIsFull(buffer)
  <2>1. /\ Enqueue(buffer, element).indexIn = RestrictBound(buffer.indexIn + 1)
        /\ Enqueue(buffer, element).indexOut = buffer.indexOut
    BY <1>2 DEF Enqueue, Buffer
  <2> QED
    BY <1>2, <2>1 DEF BufferIsFull, BufferIsEmpty
<1> QED
  BY <1>1, <1>2

LEMMA WakeUpNext == WakeUpInv /\ [Next]_vars => WakeUpInv'
<1> SUFFICES ASSUME WakeUpInv, [Next]_vars, failing' = Nobody
             PROVE  /\ NoLostWakeUp'
                    /\ \A context \in Contexts :
                         IsPublishing(context)' =>
                           \/ publisher'[context].scheduleNeeded
                           \/ ~QueueIsEmpty'
  BY NextType DEF WakeUpInv, NoLostWakeUp
<1> DEFINE Published ==
             \A context \in Contexts :
               IsPublishing(context) =>
                 publisher[context].scheduleNeeded \/ ~QueueIsEmpty
<1>a. failing = Nobody
  BY ContextNumbers
     DEF WakeUpInv, Next, Publish, Run, PublishMessage, EnqueueMessage,
         ScheduleTask, RunTask, DequeueMessage, MessageDispatched,
         Reschedule, EmptyQueue, PublishError, RunAndStop, vars
<1>b. Published /\ NoLostWakeUp /\ TypeOK
  BY <1>a DEF WakeUpInv
<1>1. ASSUME NEW context \in Contexts, NEW message \in Message,
             PublishMessage(context, message)
      PROVE  NoLostWakeUp' /\ Published'
  <2>1. /\ \A other \in Contexts \ {context} :
             publisher'[other] = publisher[other]
        /\ publisher'[context].scheduleNeeded = QueueIsEmpty
        /\ ~IsPublishing(context)
    BY <1>1, <1>b DEF PublishMessage, StartPublishing, TypeOK
  <2>2. UNCHANGED <<messageQueue, taskSet, task, failing>>
    BY <1>1 DEF PublishMessage
  <2>3. Published'
    BY <1>b, <2>1, <2>2 DEF IsPublishing, QueueIsEmpty
  <2>4. NoLostWakeUp'
    BY <1>b, <2>1, <2>2 DEF NoLostWakeUp, IsPublishing, QueueIsEmpty
  <2> QED
    BY <2>3, <2>4
<1>2. ASSUME NEW context \in Contexts, EnqueueMessage(context)
      PROVE  NoLostWakeUp' /\ Published'
  <2>1. publisher[context]
          \in [step : {"enqueue", "schedule"}, message : Element,
              scheduleNeeded : BOOLEAN]
    BY <1>2, <1>b DEF EnqueueMessage, TypeOK, Publisher, NotPublishing
  <2>2. ~QueueIsEmpty'
    BY <1>2, <1>b, <2>1, EnqueuedNotEmpty DEF EnqueueMessage, QueueIsEmpty, TypeOK
  <2>3. /\ \A other \in Contexts \ {context} :
             publisher'[other] = publisher[other]
        /\ publisher'[context].scheduleNeeded = publisher[context].scheduleNeeded
        /\ IsPublishing(context)'
        /\ IsPublishing(context)
    BY <1>2, <1>b, <2>1 DEF EnqueueMessage, TypeOK, IsPublishing
  <2>4. UNCHANGED <<taskSet, task, failing>>
    BY <1>2 DEF EnqueueMessage
  <2>5. Published'
    BY <2>2
  <2>6. CASE publisher[context].scheduleNeeded
    BY <2>3, <2>5, <2>6 DEF NoLostWakeUp, IsPublishing
  <2>7. CASE ~publisher[context].scheduleNeeded
    <3>1. ~QueueIsEmpty
      BY <1>b, <2>3, <2>7
    <3>2. CASE taskSet \/ task # "waiting" \/ failing # Nobody
      BY <2>4, <2>5, <3>2 DEF NoLostWakeUp
    <3>3. CASE \E other \in Contexts :
                 IsPublishing(other) /\ publisher[other].scheduleNeeded
      <4>1. PICK other \in Contexts :
                 IsPublishing(other) /\ publisher[other].scheduleNeeded
        BY <3>3
      <4>2. other # context
        BY <2>7, <4>1
      <4>3. IsPublishing(other)' /\ publisher'[other].scheduleNeeded
        BY <2>3, <4>1, <4>2 DEF IsPublishing
      <4> QED
        BY <2>5, <4>3 DEF NoLostWakeUp
    <3> QED
      BY <1>b, <3>1, <3>2, <3>3 DEF NoLostWakeUp
  <2> QED
    BY <2>5, <2>6, <2>7
<1>3. ASSUME NEW context \in Contexts, ScheduleTask(context)
      PROVE  NoLostWakeUp' /\ Published'
  <2>1. /\ \A other \in Contexts \ {context} :
             publisher'[other] = publisher[other]
        /\ ~IsPublishing(context)'
        /\ taskSet' = (taskSet \/ publisher[context].scheduleNeeded)
    BY <1>3, <1>b DEF ScheduleTask, TypeOK, IsPublishing, NotPublishing
  <2>2. UNCHANGED <<messageQueue, task, failing>>
    BY <1>3 DEF ScheduleTask
  <2>3. Published'
    BY <1>b, <2>1, <2>2 DEF IsPublishing, QueueIsEmpty
  <2>4. NoLostWakeUp'
    BY <1>b, <2>1, <2>2 DEF NoLostWakeUp, IsPublishing, QueueIsEmpty
  <2> QED
    BY <2>3, <2>4
<1>4. ASSUME NEW step, TaskRuns(step), UNCHANGED publisher
      PROVE  Published'
  BY <1>4, TaskRunsAlone DEF IsPublishing
<1>5. CASE RunTask
  BY <1>4, <1>5 DEF RunTask, NoLostWakeUp
<1>6. CASE DequeueMessage
  BY <1>4, <1>6 DEF DequeueMessage, NoLostWakeUp
<1>7. CASE MessageDispatched
  BY <1>4, <1>7 DEF MessageDispatched, NoLostWakeUp
<1>8. CASE Reschedule
  <2>1. taskSet' = (taskSet \/ ~QueueIsEmpty) /\ messageQueue' = messageQueue
    BY <1>8 DEF Reschedule
  <2>2. NoLostWakeUp'
    BY <2>1 DEF NoLostWakeUp, QueueIsEmpty
  <2> QED
    BY <1>4, <1>8, <2>2 DEF Reschedule
<1>9. CASE \/ \E context \in Contexts : EmptyQueue(context)
           \/ PublishError
           \/ RunAndStop
  BY <1>9, <1>a, <1>b, ContextNumbers
     DEF EmptyQueue, PublishError, RunAndStop, TypeOK
<1>10. CASE UNCHANGED vars
  BY <1>10, <1>b DEF vars, NoLostWakeUp, IsPublishing, QueueIsEmpty
<1>11. CASE \E context \in Contexts : Publish(context)
  BY <1>1, <1>2, <1>3, <1>11 DEF Publish
<1>12. CASE Run
  BY <1>5, <1>6, <1>7, <1>8, <1>12 DEF Run
<1> QED
  BY <1>9, <1>10, <1>11, <1>12 DEF Next

LEMMA WakeUpInit == Init => WakeUpInv
<1> SUFFICES ASSUME Init
             PROVE  WakeUpInv
  OBVIOUS
<1>1. QueueIsEmpty
  BY EmptyBufferType DEF Init, QueueIsEmpty
<1>2. \A context \in Contexts : ~IsPublishing(context)
  BY DEF Init, IsPublishing, NotPublishing
<1> QED
  BY <1>1, <1>2, InitType DEF WakeUpInv, NoLostWakeUp

(***************************************************************************)
(* In every behaviour, as long as messages wait in the queue, the task of  *)
(* the broker is set, or will be by somebody who already runs.             *)
(***************************************************************************)
THEOREM WakeUpsAreKept == Spec => []NoLostWakeUp
<1>1. Init => WakeUpInv
  BY WakeUpInit
<1>2. WakeUpInv /\ [Next]_vars => WakeUpInv'
  BY WakeUpNext
<1>3. WakeUpInv => NoLostWakeUp
  BY DEF WakeUpInv
<1> QED
  BY <1>1, <1>2, <1>3, PTL DEF Spec

\* The variables keep their types, the indices stay within the array.
THEOREM TypeCorrect == Spec => []TypeOK
<1>1. Init => TypeOK
  BY InitType
<1>2. TypeOK /\ [Next]_vars => TypeOK'
  BY NextType
<1> QED
  BY <1>1, <1>2, PTL DEF Spec

-----------------------------------------------------------------------------
(* The broker implements its queue.                                        *)

LEMMA QueueInit == Init => Queue!Init
<1> SUFFICES ASSUME Init
             PROVE  Contents(messageQueue) = <<>> /\ ~(failing # Nobody)
  BY DEF Queue!Init
<1>1. messageQueue \in Buffer /\ BufferIsEmpty(messageQueue)
  BY EmptyBufferType DEF Init
<1>2. NrOfElements(messageQueue) = 0
  BY <1>1, NrOfElementsType
<1>3. Contents(messageQueue) = <<>>
  BY <1>1, <1>2, ContentsLen
<1> QED
  BY <1>3 DEF Init

LEMMA QueueNext ==
  TypeOK /\ [Next]_vars => [Queue!Next]_(Queue!queueVars)
<1> SUFFICES ASSUME TypeOK, [Next]_vars
             PROVE  \/ Queue!Next
                    \/ /\ Contents(messageQueue)' = Contents(messageQueue)
                       /\ UNCHANGED (failing # Nobody)
  BY DEF Queue!queueVars
<1>a. messageQueue \in Buffer
  BY DEF TypeOK
<1>b. ASSUME UNCHANGED messageQueue
      PROVE  Contents(messageQueue)' = Contents(messageQueue)
  BY <1>b DEF Contents, NrOfElements, SlotBehind
<1>c. ASSUME ~QueueIsEmpty, messageQueue' = Dequeue(messageQueue),
             UNCHANGED failing
      PROVE  Queue!Deliver
  <2>1. /\ Contents(messageQueue) # <<>>
        /\ Contents(Dequeue(messageQueue)) = Tail(Contents(messageQueue))
    BY <1>a, <1>c, DequeueTakesHead DEF QueueIsEmpty
  <2>2. Contents(messageQueue)' = Contents(messageQueue')
    BY DEF Contents, NrOfElements, SlotBehind
  <2> QED
    BY <1>c, <2>1, <2>2 DEF Queue!Deliver, Nobody
<1>1. ASSUME NEW context \in Contexts, EnqueueMessage(context)
      PROVE  \/ \E element \in Element : Queue!Publish(element)
             \/ /\ Contents(messageQueue)' = Contents(messageQueue)
                /\ UNCHANGED (failing # Nobody)
  <2>0. UNCHANGED (failing # Nobody)
    BY <1>1 DEF EnqueueMessage, Nobody
  <2>1. publisher[context].message \in Element
    BY <1>1 DEF EnqueueMessage, TypeOK, Publisher, NotPublishing
  <2> DEFINE element == publisher[context].message
  <2>2. messageQueue' = Enqueue(messageQueue, element)
    BY <1>1 DEF EnqueueMessage
  <2>3. CASE BufferIsFull(messageQueue)
    BY <1>b, <2>0, <2>2, <2>3 DEF Enqueue
  <2>4. CASE ~BufferIsFull(messageQueue)
    <3>1. Contents(Enqueue(messageQueue, element))
            = Append(Contents(messageQueue), element)
      BY <1>a, <2>1, <2>4, EnqueueAppends
    <3>2. Contents(messageQueue)' = Contents(messageQueue')
      BY DEF Contents, NrOfElements, SlotBehind
    <3>3. Len(Contents(messageQueue)) < Capacity - 1
      <4>1. /\ NrOfElements(messageQueue) \in 0 .. Capacity - 1
            /\ NrOfElements(messageQueue) # Capacity - 1
            /\ Len(Contents(messageQueue)) = NrOfElements(messageQueue)
        BY <1>a, <2>4, NrOfElementsType, ContentsLen
      <4> QED
        BY <4>1, CapacityAssumption
    <3> QED
      BY <2>0, <2>1, <2>2, <3>1, <3>2, <3>3 DEF Queue!Publish
  <2> QED
    BY <2>3, <2>4
<1>2. CASE DequeueMessage
  <2>1. CASE QueueIsEmpty
    BY <1>2, <1>b, <2>1 DEF DequeueMessage
  <2>2. CASE ~QueueIsEmpty
    BY <1>2, <1>c, <2>2 DEF DequeueMessage, Queue!Next
  <2> QED
    BY <2>1, <2>2
<1>3. ASSUME NEW context \in Contexts, EmptyQueue(context)
      PROVE  Queue!Clear
  <2>1. Contents(Emptied(messageQueue)) = <<>>
    BY <1>a, EmptiedType
  <2>2. Contents(messageQueue)' = Contents(messageQueue')
    BY DEF Contents, NrOfElements, SlotBehind
  <2>3. (failing # Nobody)'
    BY <1>3, MessageBrokerAssumption DEF EmptyQueue, Contexts, Nobody
  <2> QED
    BY <1>3, <2>1, <2>2, <2>3 DEF EmptyQueue, Queue!Clear
<1>4. CASE RunAndStop
  <2>1. CASE QueueIsEmpty
    BY <1>4, <1>b, <2>1 DEF RunAndStop, Nobody
  <2>2. CASE ~QueueIsEmpty
    BY <1>4, <1>c, <2>2 DEF RunAndStop, Queue!Next
  <2> QED
    BY <2>1, <2>2
<1>5. CASE \/ \E context \in Contexts :
                \/ \E message \in Message : PublishMessage(context, message)
                \/ ScheduleTask(context)
           \/ RunTask \/ MessageDispatched \/ Reschedule
           \/ PublishError \/ UNCHANGED vars
  <2>1. UNCHANGED <<messageQueue, failing>>
    BY <1>5 DEF PublishMessage, ScheduleTask, RunTask,
                MessageDispatched, Reschedule, PublishError, vars
  <2> QED
    BY <1>b, <2>1 DEF Nobody
<1> QED
  BY <1>1, <1>2, <1>3, <1>4, <1>5 DEF Next, Publish, Run, Queue!Next

(***************************************************************************)
(* Whatever the interrupts do, the broker is a queue: a message that is    *)
(* accepted is delivered at most once and in the order of publication, and *)
(* none is taken back but by an unrecoverable error.                       *)
(***************************************************************************)
THEOREM BrokerIsQueue == Spec => ImplementsQueue
<1>1. Init => Queue!Init
  BY QueueInit
<1>2. TypeOK /\ [Next]_vars => [Queue!Next]_(Queue!queueVars)
  BY QueueNext
<1>3. Init /\ [][Next]_vars => []TypeOK
  BY TypeCorrect DEF Spec
<1> QED
  BY <1>1, <1>2, <1>3, PTL DEF Spec, ImplementsQueue, Queue!Spec

\* A message is lost only if all slots but one are taken.
THEOREM LossIsOverflow == Spec => LostOnlyIfFull
<1>1. ASSUME TypeOK, NEW context \in Contexts, EnqueueMessage(context),
             messageQueue' = messageQueue
      PROVE  Len(Contents(messageQueue)) = Capacity - 1
  <2> DEFINE element == publisher[context].message
  <2>1. element \in Element /\ messageQueue \in Buffer
    BY <1>1 DEF EnqueueMessage, TypeOK, Publisher, NotPublishing
  <2>2. messageQueue = Enqueue(messageQueue, element)
    BY <1>1 DEF EnqueueMessage
  <2>3. BufferIsFull(messageQueue)
    <3>1. SUFFICES ASSUME ~BufferIsFull(messageQueue)
                   PROVE  FALSE
      OBVIOUS
    <3>2. Contents(messageQueue) = Append(Contents(messageQueue), element)
      BY <2>1, <2>2, <3>1, EnqueueAppends
    <3>3. Contents(messageQueue) \in Seq(Element \cup {NoElement})
      BY <2>1, ContentsLen
    <3>4. Len(Contents(messageQueue)) = Len(Contents(messageQueue)) + 1
      BY <2>1, <3>2, <3>3
    <3> QED
      BY <3>3, <3>4
  <2> QED
    BY <2>1, <2>3, NrOfElementsType, ContentsLen
<1>2. TypeOK /\ [Next]_vars =>
        [\A context \in Contexts :
           EnqueueMessage(context) /\ messageQueue' = messageQueue
             => Len(Contents(messageQueue)) = Capacity - 1]_vars
  BY <1>1
<1>3. Init /\ [][Next]_vars => []TypeOK
  BY TypeCorrect DEF Spec
<1> QED
  BY <1>2, <1>3, PTL DEF Spec, LostOnlyIfFull

=============================================================================
