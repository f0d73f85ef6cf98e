---------------------------- MODULE MessageBroker ----------------------------
(***************************************************************************)
(* A message broker (utility/scheduler/MessageBroker.c) with its cyclic    *)
(* buffer, its task in the sequencer, and its publishers: the tasks, which *)
(* run one after the other, and interrupt handlers, which preempt the      *)
(* tasks and the handlers of lower levels between any two steps.           *)
(* CyclicBuffer_Enqueue and _Dequeue are critical sections, the query      *)
(* CyclicBuffer_IsEmpty in PublishMessage is outside of them.              *)
(*                                                                         *)
(* Simplifications:                                                        *)
(*  - Of an interrupt handler only its publications are modelled, of the   *)
(*    listeners only that they publish messages themselves.                *)
(*  - IsEmpty is one step: it reads two indices, but only one of them can  *)
(*    change while its context is preempted.                               *)
(***************************************************************************)
EXTENDS CyclicBuffer

CONSTANTS
  Message,   \* messages that are published
  Error,     \* the message MESSAGE_ID_STATE_CHANGE_ERROR
  IrqLevels, \* number of interrupt priorities in use
  MayFail    \* whether an unrecoverable error may occur

ASSUME MessageBrokerAssumption ==
  /\ Element = Message \cup {Error}
  /\ NoElement \notin Element
  /\ Error \notin Message
  /\ IrqLevels \in Nat
  /\ MayFail \in BOOLEAN

Thread == 0
Contexts == 0 .. IrqLevels
Nobody == IrqLevels + 1

VARIABLES
  messageQueue,    \* CyclicBuffer_Buffer_t
  currentMessage,  \* storage of the message that is dispatched
  taskSet,         \* bit of this broker in TaskSet of the sequencer
  task,            \* progress of MessageBroker_Run
  publisher,       \* progress of MessageBroker_PublishMessage, by context
  failing,         \* context in ErrorHandler_UnrecoverableError, or Nobody
  errorStep,       \* its progress
  halted           \* interrupts are off, `while (1);'

vars == <<messageQueue, currentMessage, taskSet, task, publisher, failing,
          errorStep, halted>>

NotPublishing == [step |-> "none", message |-> NoElement, scheduleNeeded |-> FALSE]

Publisher == {NotPublishing} \cup
  [step : {"enqueue", "schedule"}, message : Element, scheduleNeeded : BOOLEAN]

TypeOK ==
  /\ messageQueue \in Buffer
  /\ currentMessage \in Element \cup {NoElement}
  /\ taskSet \in BOOLEAN
  /\ task \in {"waiting", "dequeue", "dispatch", "check"}
  /\ publisher \in [Contexts -> Publisher]
  /\ failing \in Contexts \cup {Nobody}
  /\ errorStep \in {"none", "publish", "run"}
  /\ errorStep = "none" <=> failing = Nobody
  /\ halted \in BOOLEAN

QueueIsEmpty == BufferIsEmpty(messageQueue)
IsPublishing(context) == publisher[context].step # "none"

\* No context of a higher level is active, and none stopped for ever.
Runs(context) ==
  /\ ~halted
  /\ \A other \in Contexts : other > context => ~IsPublishing(other)
  /\ failing = Nobody \/ failing <= context

-----------------------------------------------------------------------------
(* MessageBroker_PublishMessage                                            *)

StartPublishing(context, message) ==
  publisher' = [publisher EXCEPT ![context] =
                  [step |-> "enqueue", message |-> message,
                   scheduleNeeded |-> QueueIsEmpty]]

\* A task other than that of the broker runs while this one is waiting.
PublishMessage(context, message) ==
  /\ Runs(context)
  /\ failing # context
  /\ ~IsPublishing(context)
  /\ context = Thread => task \in {"waiting", "dispatch"}
  /\ StartPublishing(context, message)
  /\ UNCHANGED <<messageQueue, currentMessage, taskSet, task, failing,
                 errorStep, halted>>

EnqueueMessage(context) ==
  /\ Runs(context)
  /\ publisher[context].step = "enqueue"
  /\ messageQueue' = Enqueue(messageQueue, publisher[context].message)
  /\ publisher' = [publisher EXCEPT ![context].step = "schedule"]
  /\ UNCHANGED <<currentMessage, taskSet, task, failing,
                 errorStep, halted>>

\* Mutant: the task is not set.
ScheduleTaskNever(context) ==
  /\ Runs(context)
  /\ publisher[context].step = "schedule"
  /\ publisher' = [publisher EXCEPT ![context] = NotPublishing]
  /\ UNCHANGED <<messageQueue, currentMessage, taskSet, task, failing,
                 errorStep, halted>>

ScheduleTask(context) ==
  /\ Runs(context)
  /\ publisher[context].step = "schedule"
  /\ taskSet' = (taskSet \/ publisher[context].scheduleNeeded)
  /\ publisher' = [publisher EXCEPT ![context] = NotPublishing]
  /\ UNCHANGED <<messageQueue, currentMessage, task, failing,
                 errorStep, halted>>

-----------------------------------------------------------------------------
(* The sequencer, and MessageBroker_Run                                    *)

\* The thread is free to go on with the task of the broker.
TaskRuns(step) ==
  /\ Runs(Thread)
  /\ ~IsPublishing(Thread)
  /\ failing = Nobody
  /\ task = step

\* The sequencer clears the bit before it calls the task.
RunTask ==
  /\ TaskRuns("waiting")
  /\ taskSet
  /\ taskSet' = FALSE
  /\ task' = "dequeue"
  /\ UNCHANGED <<messageQueue, currentMessage, publisher, failing,
                 errorStep, halted>>

\* The task is only set when a message waits; if none did, nothing would be
\* dispatched.
DequeueMessage ==
  /\ TaskRuns("dequeue")
  /\ IF QueueIsEmpty
       THEN /\ task' = "check"
            /\ UNCHANGED <<messageQueue, currentMessage>>
       ELSE /\ task' = "dispatch"
            /\ currentMessage' = FirstElement(messageQueue)
            /\ messageQueue' = Dequeue(messageQueue)
  /\ UNCHANGED <<taskSet, publisher, failing, errorStep, halted>>

\* All listeners returned.
MessageDispatched ==
  /\ TaskRuns("dispatch")
  /\ task' = "check"
  /\ UNCHANGED <<messageQueue, currentMessage, taskSet, publisher, failing,
                 errorStep, halted>>

\* Mutant: the rest of the queue is forgotten.
ReturnWithoutReschedule ==
  /\ TaskRuns("check")
  /\ task' = "waiting"
  /\ UNCHANGED <<messageQueue, currentMessage, taskSet, publisher, failing,
                 errorStep, halted>>

Reschedule ==
  /\ TaskRuns("check")
  /\ taskSet' = (taskSet \/ ~QueueIsEmpty)
  /\ task' = "waiting"
  /\ UNCHANGED <<messageQueue, currentMessage, publisher, failing,
                 errorStep, halted>>

-----------------------------------------------------------------------------
(* ErrorHandler_UnrecoverableError (System.c): empties the queue, publishes *)
(* the error, runs the broker once, and stops.                             *)

EmptyQueue(context) ==
  /\ MayFail
  /\ Runs(context)
  /\ failing # context
  /\ ~IsPublishing(context)
  /\ context = Thread => task \in {"waiting", "dispatch"}
  /\ messageQueue' = Emptied(messageQueue)
  /\ failing' = context
  /\ errorStep' = "publish"
  /\ UNCHANGED <<currentMessage, taskSet, task, publisher, halted>>

PublishError ==
  /\ errorStep = "publish"
  /\ Runs(failing)
  /\ StartPublishing(failing, Error)
  /\ errorStep' = "run"
  /\ UNCHANGED <<messageQueue, currentMessage, taskSet, task, failing, halted>>

\* One message is dispatched, then nothing runs any more.
RunAndStop ==
  /\ errorStep = "run"
  /\ Runs(failing)
  /\ ~IsPublishing(failing)
  /\ IF QueueIsEmpty
       THEN UNCHANGED <<messageQueue, currentMessage>>
       ELSE /\ currentMessage' = FirstElement(messageQueue)
            /\ messageQueue' = Dequeue(messageQueue)
  /\ halted' = TRUE
  /\ UNCHANGED <<taskSet, task, publisher, failing, errorStep>>

-----------------------------------------------------------------------------

Init ==
  /\ messageQueue = EmptyBuffer
  /\ currentMessage = NoElement
  /\ taskSet = FALSE
  /\ task = "waiting"
  /\ publisher = [context \in Contexts |-> NotPublishing]
  /\ failing = Nobody
  /\ errorStep = "none"
  /\ halted = FALSE

Publish(context) ==
  \/ \E message \in Message : PublishMessage(context, message)
  \/ EnqueueMessage(context)
  \/ ScheduleTask(context)

Run == \/ RunTask
       \/ DequeueMessage
       \/ MessageDispatched
       \/ Reschedule

Next == \/ \E context \in Contexts : Publish(context) \/ EmptyQueue(context)
        \/ Run
        \/ PublishError
        \/ RunAndStop

Spec == Init /\ [][Next]_vars

(***************************************************************************)
(* A publication that began goes on: no interrupt handler runs for ever.   *)
(* Between interrupts the sequencer gets to every task that is set again   *)
(* and again.                                                              *)
(***************************************************************************)
Fairness ==
  /\ \A context \in Contexts :
       SF_vars(EnqueueMessage(context) \/ ScheduleTask(context))
  /\ SF_vars(Run)

FairSpec == Spec /\ Fairness

-----------------------------------------------------------------------------
(* Properties.                                                             *)

(***************************************************************************)
(* No lost wake-up: as long as messages wait, the task of the broker is    *)
(* set, or it runs and looks into the queue once more, or a publisher that *)
(* found the queue empty is about to set it.  PublishMessage sets the task *)
(* only if it finds the queue empty, outside of a critical section.        *)
(***************************************************************************)
NoLostWakeUp ==
  ~QueueIsEmpty =>
    \/ taskSet
    \/ task # "waiting"
    \/ \E context \in Contexts :
         IsPublishing(context) /\ publisher[context].scheduleNeeded
    \/ failing # Nobody

\* A message is lost only if all slots but one are taken.
LostOnlyIfFull ==
  [][\A context \in Contexts :
       EnqueueMessage(context) /\ messageQueue' = messageQueue
         => Len(Contents(messageQueue)) = Capacity - 1]_vars

Queue == INSTANCE BoundedQueue WITH
           queue <- Contents(messageQueue), emergency <- failing # Nobody,
           Message <- Element, Room <- Capacity - 1

(***************************************************************************)
(* Messages are delivered once and in the order of their publication.      *)
(***************************************************************************)
ImplementsQueue == Queue!Spec

\* The same, and no message waits for ever.
ImplementsFairQueue == Queue!FairSpec

=============================================================================
