----------------------- MODULE SensorControllerProofs -----------------------
(***************************************************************************)
(* Proofs about SensorController, for any number of faults: answers are    *)
(* labelled with the right command, the controller gives up only without a *)
(* reset, and asserts only in irregular runs.                              *)
(*                                                                         *)
(* All three rest on what may be under way in which state: a transfer, a   *)
(* timer or a message that reports their end (a completion), and a time    *)
(* tick that waits.                                                        *)
(***************************************************************************)
EXTENDS SensorController, TLAPS

\* Some message of the queue has an identifier of A; one with an identifier
\* of B waits behind it.
Waiting(q, A) == \E i \in DOMAIN q : q[i].id \in A

Behind(q, A, B) ==
  \E i, j \in DOMAIN q : i < j /\ q[i].id \in A /\ q[j].id \in B

Tick == {"TIME_ELAPSED"}
Ble == {"BLE_SUBSYSTEM_READY"}
Sent == {"REQUEST_SENT"}
Ready == {"SENSOR_READY"}
Answer == {"SENSOR_DATA", "SENSOR_ERROR"}
Reset == {"GENERAL_CALL_RESET"}
Completion == Sent \cup Ready \cup Answer \cup Reset

\* BLE_SUBSYSTEM_READY, the one message that is not aligned with the ticks,
\* was not handled yet.
Undisturbed == ~bleReady \/ Waiting(messages, Ble)

Matching == result \in {None, parameter1}

TickInv ==
  /\ ~Behind(messages, Tick, Tick)
  /\ ~Behind(messages, Ble, Ble)
  /\ Waiting(messages, Ble) => bleReady
  /\ tickMayOverlap => ~Undisturbed /\ ~Waiting(messages, Tick)
  /\ Undisturbed /\ Waiting(messages, Tick) =>
       /\ transfer = None /\ ~sensorTimer /\ ~resetTimer
       /\ ~Waiting(messages, Completion)

IdleInv ==
  state = "Idle" =>
    /\ transfer = None /\ callback = None
    /\ ~Waiting(messages, Reset)
    /\ Undisturbed \/ tickMayOverlap \/ Waiting(messages, Tick) =>
         ~sensorTimer /\ ~Waiting(messages, Completion)

\* A request is under way, or sent, or its result is ready.
StartedInv ==
  state = "Started" =>
    /\ transfer \in {None, "request"}
    /\ transfer # None => ~sensorTimer /\ ~Waiting(messages, Completion)
    /\ sensorTimer => ~Waiting(messages, Completion)
    /\ ~Waiting(messages, Answer) /\ ~Waiting(messages, Reset)
    /\ ~Behind(messages, Completion, Completion)
    /\ sensorTimer \/ Waiting(messages, Sent) \/ Waiting(messages, Ready) =>
         Matching
    /\ sensorTimer \/ Waiting(messages, Ready) => consecutiveErrors = 0

RestartedInv ==
  state = "Restarted" =>
    /\ transfer \in {None, "request"}
    /\ ~sensorTimer
    /\ ~Waiting(messages, Ready) /\ ~Waiting(messages, Answer)
    /\ ~Waiting(messages, Reset)
    /\ Matching
    /\ consecutiveErrors = 0

ReadingInv ==
  state = "Reading" =>
    /\ transfer \in {None, "response"}
    /\ ~sensorTimer
    /\ ~Waiting(messages, Ready) /\ ~Waiting(messages, Reset)
    /\ Waiting(messages, Answer) => transfer = None
    /\ ~Behind(messages, Answer, Completion)
    /\ Matching
    /\ consecutiveErrors = 0

ErrorInv ==
  IF state = "Error"
    THEN /\ transfer \in {None, "reset"}
         /\ ~tickMayOverlap /\ ~activeReminder
         /\ Waiting(messages, Reset) \/ resetTimer =>
              transfer = None /\ callback = None /\ resetSent
         /\ ~Behind(messages, Reset, Reset)
         /\ resetTimer => ~Waiting(messages, Reset) /\ consecutiveErrors = 0
         /\ resetSent => Waiting(messages, Reset) \/ resetTimer
         /\ Waiting(messages, Tick) => transfer = None /\ ~resetSent
         /\ Undisturbed =>
              /\ ~sensorTimer
              /\ ~Waiting(messages, Sent) /\ ~Waiting(messages, Ready)
              /\ ~Waiting(messages, Answer)
    ELSE ~resetTimer /\ consecutiveErrors < MaxErrors

\* As long as no completion was lost and no tick came too early.
RegularInv ==
  ~irregular =>
    /\ callback = None <=> transfer = None
    /\ state = "Started" /\ Waiting(messages, Tick) =>
         ~sensorTimer /\ ~Behind(messages, Completion, Tick)
    /\ state \in {"Restarted", "Reading"} /\ Waiting(messages, Tick) =>
         transfer = None /\ ~Waiting(messages, Completion)

RunningInv ==
  /\ TickInv
  /\ IdleInv /\ StartedInv /\ RestartedInv /\ ReadingInv /\ ErrorInv
  /\ RegularInv

IInv ==
  /\ TypeOK
  /\ DataMatchesCommand
  /\ GivesUpOnlyWithoutReset
  /\ AssertsOnlyIfIrregular
  /\ halted = "no" => RunningInv

LEMMA Constants == MaxErrors \in Nat /\ MaxErrors >= 2 /\ MaxFaults \in Nat
BY SensorControllerAssumption DEF SensorControllerAssumption

-----------------------------------------------------------------------------
(* The queue.                                                              *)

\* The responses of the queue carry the right label.
Labelled(q) ==
  \A i \in DOMAIN q :
    q[i].id = "SENSOR_DATA" => q[i].parameter1 = q[i].answers

\* The kinds of completions.
LEMMA Kinds ==
  ASSUME NEW q
  PROVE  Waiting(q, Completion) <=> \/ Waiting(q, Sent)
                                    \/ Waiting(q, Ready)
                                    \/ Waiting(q, Answer)
                                    \/ Waiting(q, Reset)
BY DEF Waiting, Completion

\* Publishing a message.
LEMMA Published ==
  ASSUME NEW q \in Seq(Message), NEW m \in Message
  PROVE  /\ Append(q, m) \in Seq(Message)
         /\ \A A : Waiting(Append(q, m), A) <=> Waiting(q, A) \/ m.id \in A
         /\ \A A, B : Behind(Append(q, m), A, B)
                        <=> Behind(q, A, B) \/ (Waiting(q, A) /\ m.id \in B)
         /\ Labelled(q) /\ (m.id = "SENSOR_DATA" => m.parameter1 = m.answers)
              => Labelled(Append(q, m))
<1> DEFINE n == Append(q, m)
<1>1. /\ n \in Seq(Message)
      /\ DOMAIN n = 1 .. Len(q) + 1
      /\ DOMAIN q = 1 .. Len(q)
      /\ Len(q) \in Nat
      /\ n[Len(q) + 1] = m
      /\ \A i \in 1 .. Len(q) : n[i] = q[i]
  OBVIOUS
<1> HIDE DEF n
<1>2. ASSUME NEW A
      PROVE  Waiting(n, A) <=> Waiting(q, A) \/ m.id \in A
  BY <1>1 DEF Waiting
<1>3. ASSUME NEW A, NEW B
      PROVE  Behind(n, A, B) <=> Behind(q, A, B) \/ (Waiting(q, A) /\ m.id \in B)
  BY <1>1 DEF Waiting, Behind
<1>4. Labelled(q) /\ (m.id = "SENSOR_DATA" => m.parameter1 = m.answers)
        => Labelled(n)
  BY <1>1 DEF Labelled
<1> QED
  BY <1>1, <1>2, <1>3, <1>4 DEF n

\* Taking the head of the queue.
LEMMA Taken ==
  ASSUME NEW q \in Seq(Message), q # <<>>
  PROVE  /\ Tail(q) \in Seq(Message)
         /\ Head(q) \in Message
         /\ \A A : Waiting(Tail(q), A) => Waiting(q, A)
         /\ \A A : Waiting(q, A) => Head(q).id \in A \/ Waiting(Tail(q), A)
         /\ \A A : Head(q).id \in A => Waiting(q, A)
         /\ \A A, B : Behind(Tail(q), A, B) => Behind(q, A, B)
         /\ \A A, B : Head(q).id \in A /\ ~Behind(q, A, B)
                        => ~Waiting(Tail(q), B)
         /\ Labelled(q) => Labelled(Tail(q))
<1> DEFINE n == Tail(q)
<1>1. /\ n \in Seq(Message)
      /\ Len(q) \in Nat \ {0}
      /\ DOMAIN q = 1 .. Len(q)
      /\ DOMAIN n = 1 .. Len(q) - 1
      /\ \A i \in 1 .. Len(q) - 1 : n[i] = q[i + 1]
      /\ Head(q) = q[1]
      /\ q[1] \in Message
  OBVIOUS
<1> HIDE DEF n
<1>2. ASSUME NEW A
      PROVE  Waiting(n, A) => Waiting(q, A)
  BY <1>1 DEF Waiting
<1>3. ASSUME NEW A, Waiting(q, A)
      PROVE  Head(q).id \in A \/ Waiting(n, A)
  <2>1. PICK i \in 1 .. Len(q) : q[i].id \in A
    BY <1>1, <1>3 DEF Waiting
  <2>2. CASE i = 1
    BY <1>1, <2>1, <2>2
  <2>3. CASE i # 1
    <3>1. i - 1 \in DOMAIN n /\ n[i - 1] = q[i]
      BY <1>1, <2>3
    <3> QED
      BY <2>1, <3>1 DEF Waiting
  <2> QED
    BY <2>2, <2>3
<1>4. ASSUME NEW A, Head(q).id \in A
      PROVE  Waiting(q, A)
  BY <1>1, <1>4 DEF Waiting
<1>5. ASSUME NEW A, NEW B, Behind(n, A, B)
      PROVE  Behind(q, A, B)
  <2>1. PICK i, j \in DOMAIN n : i < j /\ n[i].id \in A /\ n[j].id \in B
    BY <1>5 DEF Behind
  <2>2. /\ i + 1 \in DOMAIN q /\ j + 1 \in DOMAIN q /\ i + 1 < j + 1
        /\ n[i] = q[i + 1] /\ n[j] = q[j + 1]
    BY <1>1, <2>1
  <2> QED
    BY <2>1, <2>2 DEF Behind
<1>6. ASSUME NEW A, NEW B, Head(q).id \in A, Waiting(n, B)
      PROVE  Behind(q, A, B)
  <2>1. PICK i \in DOMAIN n : n[i].id \in B
    BY <1>6 DEF Waiting
  <2>2. i + 1 \in DOMAIN q /\ 1 \in DOMAIN q /\ 1 < i + 1 /\ n[i] = q[i + 1]
    BY <1>1, <2>1
  <2> QED
    BY <1>1, <1>6, <2>1, <2>2 DEF Behind
<1>7. Labelled(q) => Labelled(n)
  BY <1>1 DEF Labelled
<1> QED
  BY <1>1, <1>2, <1>3, <1>4, <1>5, <1>6, <1>7 DEF n

-----------------------------------------------------------------------------
(* Interrupts.                                                             *)

\* What an interrupt that publishes changes about the queue.
LEMMA PublishedFacts ==
  ASSUME TypeOK, NEW m \in Message, messages' = Append(messages, m)
  PROVE  /\ messages' \in Seq(Message)
         /\ \A A : Waiting(messages', A) <=> Waiting(messages, A) \/ m.id \in A
         /\ \A A, B : Behind(messages', A, B)
              <=> Behind(messages, A, B) \/ (Waiting(messages, A) /\ m.id \in B)
         /\ DataMatchesCommand
            /\ (m.id = "SENSOR_DATA" => m.parameter1 = m.answers)
              => DataMatchesCommand'
BY Published DEF TypeOK, DataMatchesCommand, Labelled

\* The command was sent; the result will be the one of this command.
LEMMA RequestCompletedInv ==
  ASSUME IInv, RequestCompleted
  PROVE  IInv'
<1> DEFINE m == Signal("REQUEST_SENT")
<1>1. m \in Message /\ m.id = "REQUEST_SENT"
  BY DEF Signal, Message, IInv, TypeOK
<1>2. messages' = Append(messages, m) /\ TypeOK
  BY DEF RequestCompleted, IInv
<1> HIDE DEF m
<1>3. /\ messages' \in Seq(Message)
      /\ \A A : Waiting(messages', A) <=> Waiting(messages, A) \/ m.id \in A
      /\ \A A, B : Behind(messages', A, B)
           <=> Behind(messages, A, B) \/ (Waiting(messages, A) /\ m.id \in B)
      /\ DataMatchesCommand'
  BY <1>1, <1>2, PublishedFacts DEF IInv
<1>4. TypeOK'
  BY <1>3 DEF IInv, TypeOK, RequestCompleted, historyVars,
              None, Command
<1>5. RunningInv'
  BY <1>1, <1>3, Kinds, Constants
     DEF IInv, TypeOK, RequestCompleted, historyVars,
         RunningInv, TickInv, IdleInv, StartedInv, RestartedInv, ReadingInv,
         ErrorInv, RegularInv, Undisturbed, Matching, Tick, Ble, Sent, Ready,
         Answer, Reset, Completion, None,
         Command
<1> QED
  BY <1>3, <1>4, <1>5
     DEF IInv, RequestCompleted, historyVars,
         GivesUpOnlyWithoutReset, AssertsOnlyIfIrregular

\* A response was read: its label is the command of the last request.
LEMMA ResponseReceivedInv ==
  ASSUME IInv, ResponseReceived
  PROVE  IInv'
<1> DEFINE m == [id |-> "SENSOR_DATA", parameter1 |-> parameter1,
                 answers |-> result]
<1>1. /\ UNCHANGED <<state, consecutiveErrors, activeReminder, command,
                     parameter1, sensorTimer, resetTimer, resultReady, halted,
                     bleReady, tickMayOverlap, faults, irregular, resetSent>>
      /\ halted = "no" /\ transfer = "response" /\ result # None
      /\ transfer' = None /\ callback' = None /\ result' = None
      /\ messages' = Append(messages, m)
  BY DEF ResponseReceived, historyVars
<1>2. TypeOK /\ RunningInv
  BY <1>1 DEF IInv
<1>3. state = "Reading" /\ result = parameter1
  BY <1>1, <1>2 DEF RunningInv, ReadingInv, IdleInv, StartedInv, RestartedInv,
     ErrorInv, None, TypeOK, Matching
<1>4. result \in Command
  BY <1>1, <1>2 DEF TypeOK
<1>5. m \in Message /\ m.id = "SENSOR_DATA" /\ m.parameter1 = m.answers
  BY <1>3, <1>4 DEF Message
<1> HIDE DEF m
<1>6. /\ messages' \in Seq(Message)
      /\ \A A : Waiting(messages', A) <=> Waiting(messages, A) \/ m.id \in A
      /\ \A A, B : Behind(messages', A, B)
           <=> Behind(messages, A, B) \/ (Waiting(messages, A) /\ m.id \in B)
      /\ DataMatchesCommand'
  BY <1>1, <1>2, <1>5, PublishedFacts DEF IInv
<1>7. TypeOK'
  BY <1>1, <1>2, <1>6 DEF TypeOK
<1>8. RunningInv'
  BY <1>1, <1>2, <1>3, <1>5, <1>6, Kinds
     DEF RunningInv, TickInv, IdleInv, StartedInv, RestartedInv, ReadingInv,
         ErrorInv, RegularInv, Undisturbed, Matching, Tick, Ble, Sent, Ready,
         Answer, Reset, Completion, None
<1> QED
  BY <1>1, <1>6, <1>7, <1>8
     DEF IInv, GivesUpOnlyWithoutReset, AssertsOnlyIfIrregular

\* The reset was sent.
LEMMA GeneralCallResetSentInv ==
  ASSUME IInv, GeneralCallResetSent
  PROVE  IInv'
<1> DEFINE m == Signal("GENERAL_CALL_RESET")
<1>1. m \in Message /\ m.id = "GENERAL_CALL_RESET"
  BY DEF Signal, Message, IInv, TypeOK
<1>2. messages' = Append(messages, m) /\ TypeOK
  BY DEF GeneralCallResetSent, IInv
<1> HIDE DEF m
<1>3. /\ messages' \in Seq(Message)
      /\ \A A : Waiting(messages', A) <=> Waiting(messages, A) \/ m.id \in A
      /\ \A A, B : Behind(messages', A, B)
           <=> Behind(messages, A, B) \/ (Waiting(messages, A) /\ m.id \in B)
      /\ DataMatchesCommand'
  BY <1>1, <1>2, PublishedFacts DEF IInv
<1>4. TypeOK'
  BY <1>3 DEF IInv, TypeOK, GeneralCallResetSent,
              None, Command
<1>5. RunningInv'
  BY <1>1, <1>3, Kinds, Constants
     DEF IInv, TypeOK, GeneralCallResetSent,
         RunningInv, TickInv, IdleInv, StartedInv, RestartedInv, ReadingInv,
         ErrorInv, RegularInv, Undisturbed, Matching, Tick, Ble, Sent, Ready,
         Answer, Reset, Completion, None,
         Command
<1> QED
  BY <1>3, <1>4, <1>5
     DEF IInv, GeneralCallResetSent,
         GivesUpOnlyWithoutReset, AssertsOnlyIfIrregular

\* A response has a wrong checksum.
LEMMA ResponseCorruptedInv ==
  ASSUME IInv, ResponseCorrupted
  PROVE  IInv'
<1> DEFINE m == Signal("SENSOR_ERROR")
<1>1. m \in Message /\ m.id = "SENSOR_ERROR"
  BY DEF Signal, Message, IInv, TypeOK
<1>2. messages' = Append(messages, m) /\ TypeOK
  BY DEF ResponseCorrupted, IInv
<1> HIDE DEF m
<1>3. /\ messages' \in Seq(Message)
      /\ \A A : Waiting(messages', A) <=> Waiting(messages, A) \/ m.id \in A
      /\ \A A, B : Behind(messages', A, B)
           <=> Behind(messages, A, B) \/ (Waiting(messages, A) /\ m.id \in B)
      /\ DataMatchesCommand'
  BY <1>1, <1>2, PublishedFacts DEF IInv
<1>4. TypeOK'
  <2>1. faults' \in 0 .. MaxFaults
    BY <1>2, Constants DEF ResponseCorrupted, Fault, TypeOK
  <2> QED
    BY <1>2, <1>3, <2>1 DEF TypeOK, ResponseCorrupted, Fault
<1>5. RunningInv'
  BY <1>1, <1>3, Kinds, Constants
     DEF IInv, TypeOK, ResponseCorrupted, Fault,
         RunningInv, TickInv, IdleInv, StartedInv, RestartedInv, ReadingInv,
         ErrorInv, RegularInv, Undisturbed, Matching, Tick, Ble, Sent, Ready,
         Answer, Reset, Completion, None,
         Command
<1> QED
  BY <1>3, <1>4, <1>5
     DEF IInv, ResponseCorrupted, Fault,
         GivesUpOnlyWithoutReset, AssertsOnlyIfIrregular

\* The timer of the sensor expires.
LEMMA SensorReadyCbInv ==
  ASSUME IInv, SensorReadyCb
  PROVE  IInv'
<1> DEFINE m == Signal("SENSOR_READY")
<1>1. m \in Message /\ m.id = "SENSOR_READY"
  BY DEF Signal, Message, IInv, TypeOK
<1>2. messages' = Append(messages, m) /\ TypeOK
  BY DEF SensorReadyCb, IInv
<1> HIDE DEF m
<1>3. /\ messages' \in Seq(Message)
      /\ \A A : Waiting(messages', A) <=> Waiting(messages, A) \/ m.id \in A
      /\ \A A, B : Behind(messages', A, B)
           <=> Behind(messages, A, B) \/ (Waiting(messages, A) /\ m.id \in B)
      /\ DataMatchesCommand'
  BY <1>1, <1>2, PublishedFacts DEF IInv
<1>4. TypeOK'
  <2>1. UNCHANGED <<state, consecutiveErrors, activeReminder, command,
                    parameter1, resetTimer, callback, transfer, result,
                    resultReady, halted, bleReady, tickMayOverlap, faults,
                    irregular, resetSent>>
    BY DEF SensorReadyCb, historyVars, i2cVars, sensorVars
  <2>2. sensorTimer' \in BOOLEAN
    BY DEF SensorReadyCb
  <2> QED
    BY <1>2, <1>3, <2>1, <2>2 DEF TypeOK
<1>5. RunningInv'
  BY <1>1, <1>3, Kinds, Constants
     DEF IInv, TypeOK, SensorReadyCb, i2cVars, sensorVars, historyVars,
         RunningInv, TickInv, IdleInv, StartedInv, RestartedInv, ReadingInv,
         ErrorInv, RegularInv, Undisturbed, Matching, Tick, Ble, Sent, Ready,
         Answer, Reset, Completion, None,
         Command
<1> QED
  BY <1>3, <1>4, <1>5
     DEF IInv, SensorReadyCb, i2cVars, sensorVars, historyVars,
         GivesUpOnlyWithoutReset, AssertsOnlyIfIrregular

\* A tick finds the controller settled, or it is the one that overlaps.
LEMMA TimeTickInv ==
  ASSUME IInv, TimeTick
  PROVE  IInv'
<1> DEFINE m == Signal("TIME_ELAPSED")
<1>1. m \in Message /\ m.id = "TIME_ELAPSED"
  BY DEF Signal, Message
<1>2. messages' = Append(messages, m) /\ TypeOK
  BY DEF TimeTick, IInv
<1> HIDE DEF m
<1>3. /\ messages' \in Seq(Message)
      /\ \A A : Waiting(messages', A) <=> Waiting(messages, A) \/ m.id \in A
      /\ \A A, B : Behind(messages', A, B)
           <=> Behind(messages, A, B) \/ (Waiting(messages, A) /\ m.id \in B)
      /\ DataMatchesCommand'
  BY <1>1, <1>2, PublishedFacts DEF IInv
<1>4. /\ UNCHANGED <<state, consecutiveErrors, activeReminder, command,
                     parameter1, sensorTimer, resetTimer, callback, transfer,
                     result, resultReady, halted, bleReady, faults, resetSent>>
      /\ halted = "no"
  BY DEF TimeTick, i2cVars, sensorVars
<1>5. TypeOK'
  <2>1. irregular' \in BOOLEAN /\ tickMayOverlap' \in BOOLEAN
    BY DEF TimeTick
  <2> QED
    BY <1>3, <1>4, <2>1 DEF IInv, TypeOK
<1>6. RunningInv
  BY <1>4 DEF IInv
\* The tick comes when nothing is under way, or it is the one that overlaps.
<1>7. \/ /\ transfer = None /\ ~sensorTimer /\ ~resetTimer
         /\ ~Waiting(messages, Completion) /\ ~Waiting(messages, Tick)
      \/ tickMayOverlap /\ irregular' /\ ~Waiting(messages, Tick)
         /\ ~Undisturbed
  <2>1. CASE Settled
    BY <2>1 DEF Settled, Waiting, Completion, Sent, Ready, Answer, Reset, Tick
  <2>2. CASE ~Settled
    BY <1>6, <2>2 DEF TimeTick, RunningInv, TickInv
  <2> QED
    BY <2>1, <2>2
<1>8. ~tickMayOverlap' /\ (irregular => irregular')
  BY DEF TimeTick
<1>9. /\ \A A : m.id \notin A => (Waiting(messages', A) <=> Waiting(messages, A))
      /\ m.id \in Tick
      /\ \A A \in {Ble, Sent, Ready, Answer, Reset, Completion} : m.id \notin A
  BY <1>1, <1>3 DEF Tick, Ble, Sent, Ready, Answer, Reset, Completion
<1>10. Undisturbed' <=> Undisturbed
  BY <1>4, <1>9 DEF Undisturbed
<1>11. TickInv' /\ IdleInv' /\ ErrorInv'
  <2>1. TickInv'
    BY <1>3, <1>4, <1>6, <1>7, <1>8, <1>9, <1>10 DEF RunningInv, TickInv
  <2>2. IdleInv'
    BY <1>4, <1>6, <1>7, <1>8, <1>9, <1>10 DEF RunningInv, IdleInv
  <2>3. ASSUME state = "Error"
        PROVE  ErrorInv'
    <3>1. transfer = None /\ ~resetSent /\ ~Waiting(messages, Completion)
      BY <1>6, <1>7, <2>3, Kinds DEF RunningInv, ErrorInv
    <3> QED
      BY <1>3, <1>4, <1>6, <1>8, <1>9, <1>10, <2>3, <3>1 DEF RunningInv, ErrorInv
  <2>4. ASSUME state # "Error"
        PROVE  ErrorInv'
    BY <1>4, <1>6, <2>4 DEF RunningInv, ErrorInv
  <2> QED
    BY <2>1, <2>2, <2>3, <2>4
<1>12. StartedInv' /\ RestartedInv' /\ ReadingInv'
  BY <1>3, <1>4, <1>6, <1>9 DEF RunningInv, StartedInv, RestartedInv, ReadingInv, Matching
<1>13. RegularInv'
  <2>1. SUFFICES ASSUME ~irregular' PROVE RegularInv'
    BY DEF RegularInv
  <2>2. /\ transfer = None /\ ~sensorTimer
        /\ ~Waiting(messages, Completion) /\ ~irregular
    BY <1>7, <1>8, <2>1
  <2>3. ~Behind(messages', Completion, Tick)
    BY <1>9, <2>2 DEF Waiting, Behind
  <2> QED
    BY <1>4, <1>6, <1>9, <2>2, <2>3 DEF RunningInv, RegularInv
<1> QED
  BY <1>3, <1>4, <1>5, <1>8, <1>11, <1>12, <1>13
     DEF IInv, RunningInv, GivesUpOnlyWithoutReset, AssertsOnlyIfIrregular

\* The message that is not aligned with the ticks.
LEMMA BleSubsystemReadyInv ==
  ASSUME IInv, BleSubsystemReady
  PROVE  IInv'
<1> DEFINE m == Signal("BLE_SUBSYSTEM_READY")
<1>1. m \in Message /\ m.id = "BLE_SUBSYSTEM_READY"
  BY DEF Signal, Message, IInv, TypeOK
<1>2. messages' = Append(messages, m) /\ TypeOK
  BY DEF BleSubsystemReady, IInv
<1> HIDE DEF m
<1>3. /\ messages' \in Seq(Message)
      /\ \A A : Waiting(messages', A) <=> Waiting(messages, A) \/ m.id \in A
      /\ \A A, B : Behind(messages', A, B)
           <=> Behind(messages, A, B) \/ (Waiting(messages, A) /\ m.id \in B)
      /\ DataMatchesCommand'
  BY <1>1, <1>2, PublishedFacts DEF IInv
<1>4. TypeOK'
  BY <1>3 DEF IInv, TypeOK, BleSubsystemReady, i2cVars, sensorVars, historyVars,
              None, Command
<1>5. RunningInv'
  BY <1>1, <1>3, Kinds, Constants
     DEF IInv, TypeOK, BleSubsystemReady, i2cVars, sensorVars, historyVars,
         RunningInv, TickInv, IdleInv, StartedInv, RestartedInv, ReadingInv,
         ErrorInv, RegularInv, Undisturbed, Matching, Tick, Ble, Sent, Ready,
         Answer, Reset, Completion, None,
         Command
<1> QED
  BY <1>3, <1>4, <1>5
     DEF IInv, BleSubsystemReady, i2cVars, sensorVars, historyVars,
         GivesUpOnlyWithoutReset, AssertsOnlyIfIrregular

\* The sensor has no result.
LEMMA ReadRefusedInv ==
  ASSUME IInv, ReadRefused
  PROVE  IInv'
<1>1. TypeOK'
  BY Constants
     DEF IInv, TypeOK, ReadRefused, ErrorCallback, sensorVars,
         RunningInv, ErrorInv, None, Command
<1>2. halted = "no" => RunningInv'
  BY Kinds, Constants
     DEF IInv, TypeOK, ReadRefused, ErrorCallback, sensorVars,
         RunningInv, TickInv, IdleInv, StartedInv, RestartedInv, ReadingInv,
         ErrorInv, RegularInv, Undisturbed, Matching, Tick, Ble, Sent, Ready,
         Answer, Reset, Completion, None,
         Command
<1> QED
  BY <1>1, <1>2
     DEF IInv, ReadRefused, ErrorCallback, sensorVars,
         GivesUpOnlyWithoutReset, AssertsOnlyIfIrregular, DataMatchesCommand

\* A transfer ends with an error.
LEMMA TransferFailsInv ==
  ASSUME IInv, TransferFails
  PROVE  IInv'
<1>1. TypeOK'
  BY Constants
     DEF IInv, TypeOK, TransferFails, Fault, ErrorCallback, sensorVars,
         RunningInv, ErrorInv, None, Command
<1>2. halted = "no" => RunningInv'
  BY Kinds, Constants
     DEF IInv, TypeOK, TransferFails, Fault, ErrorCallback, sensorVars,
         RunningInv, TickInv, IdleInv, StartedInv, RestartedInv, ReadingInv,
         ErrorInv, RegularInv, Undisturbed, Matching, Tick, Ble, Sent, Ready,
         Answer, Reset, Completion, None,
         Command
<1> QED
  BY <1>1, <1>2
     DEF IInv, TransferFails, Fault, ErrorCallback, sensorVars,
         GivesUpOnlyWithoutReset, AssertsOnlyIfIrregular, DataMatchesCommand

\* A transfer whose end is not reported.
LEMMA CompletionLostInv ==
  ASSUME IInv, CompletionLost
  PROVE  IInv'
<1>1. TypeOK'
  BY Constants
     DEF IInv, TypeOK, CompletionLost, Fault, sensorVars,
         RunningInv, ErrorInv, None, Command
<1>2. halted = "no" => RunningInv'
  BY Kinds, Constants
     DEF IInv, TypeOK, CompletionLost, Fault, sensorVars,
         RunningInv, TickInv, IdleInv, StartedInv, RestartedInv, ReadingInv,
         ErrorInv, RegularInv, Undisturbed, Matching, Tick, Ble, Sent, Ready,
         Answer, Reset, Completion, None,
         Command
<1> QED
  BY <1>1, <1>2
     DEF IInv, CompletionLost, Fault, sensorVars,
         GivesUpOnlyWithoutReset, AssertsOnlyIfIrregular, DataMatchesCommand

\* The sensor finishes.
LEMMA ResultBecomesReadyInv ==
  ASSUME IInv, ResultBecomesReady
  PROVE  IInv'
<1>1. TypeOK'
  BY Constants
     DEF IInv, TypeOK, ResultBecomesReady, i2cVars, historyVars,
         RunningInv, ErrorInv, None, Command
<1>2. halted = "no" => RunningInv'
  BY Kinds, Constants
     DEF IInv, TypeOK, ResultBecomesReady, i2cVars, historyVars,
         RunningInv, TickInv, IdleInv, StartedInv, RestartedInv, ReadingInv,
         ErrorInv, RegularInv, Undisturbed, Matching, Tick, Ble, Sent, Ready,
         Answer, Reset, Completion, None,
         Command
<1> QED
  BY <1>1, <1>2
     DEF IInv, ResultBecomesReady, i2cVars, historyVars,
         GivesUpOnlyWithoutReset, AssertsOnlyIfIrregular, DataMatchesCommand

\* The time of the reset is over; nobody waits to be reminded.
LEMMA SetIdleStateInv ==
  ASSUME IInv, SetIdleState
  PROVE  IInv'
<1>1. resetTimer /\ halted = "no" /\ RunningInv /\ TypeOK
  BY DEF SetIdleState, IInv
<1>2. /\ state = "Error" /\ ~activeReminder /\ consecutiveErrors = 0
      /\ transfer = None /\ callback = None /\ ~Waiting(messages, Reset)
      /\ ~Waiting(messages, Tick) /\ ~tickMayOverlap
      /\ Undisturbed => ~sensorTimer /\ ~Waiting(messages, Completion)
  BY <1>1, Kinds DEF RunningInv, ErrorInv
<1>3. /\ state' = "Idle" /\ ~resetTimer' /\ ~activeReminder'
      /\ UNCHANGED <<command, callback, transfer, halted, consecutiveErrors,
                     parameter1, sensorTimer, result, resultReady, messages,
                     bleReady, tickMayOverlap, faults, irregular, resetSent>>
  BY <1>1, <1>2 DEF SetIdleState, i2cVars, sensorVars, historyVars

<1>4. TypeOK'
  <2>1. resetTimer' \in BOOLEAN /\ activeReminder' \in BOOLEAN
    BY DEF SetIdleState
  <2> QED
    BY <1>1, <1>3, <2>1 DEF TypeOK
<1>5. RunningInv'
  BY <1>1, <1>2, <1>3, Constants
     DEF RunningInv, TickInv, IdleInv, StartedInv, RestartedInv, ReadingInv,
         ErrorInv, RegularInv, Undisturbed
<1> QED
  BY <1>3, <1>4, <1>5
     DEF IInv, GivesUpOnlyWithoutReset, AssertsOnlyIfIrregular,
         DataMatchesCommand

-----------------------------------------------------------------------------
(* Handlers of messages.                                                   *)

\* What a handler changes about the queue.
LEMMA TakenFacts ==
  ASSUME TypeOK, messages # <<>>, messages' = Tail(messages)
  PROVE  /\ messages' \in Seq(Message)
         /\ \A A : Waiting(messages', A) => Waiting(messages, A)
         /\ \A A : Waiting(messages, A)
              => Head(messages).id \in A \/ Waiting(messages', A)
         /\ \A A : Head(messages).id \in A => Waiting(messages, A)
         /\ \A A, B : Behind(messages', A, B) => Behind(messages, A, B)
         /\ \A A, B : Head(messages).id \in A /\ ~Behind(messages, A, B)
              => ~Waiting(messages', B)
         /\ DataMatchesCommand => DataMatchesCommand'
BY Taken DEF TypeOK, DataMatchesCommand, Labelled

\* Nothing is under way when the serial number is requested.
LEMMA IdleBleReadyInv ==
  ASSUME IInv, IdleBleReady
  PROVE  IInv'
<1> DEFINE id == Head(messages).id
<1>1. TypeOK /\ messages # <<>> /\ messages' = Tail(messages) /\ halted = "no"
  BY DEF IInv, IdleBleReady, Dispatch, IsNext
<1>2. /\ messages' \in Seq(Message)
      /\ \A A : Waiting(messages', A) => Waiting(messages, A)
      /\ \A A : Waiting(messages, A) => id \in A \/ Waiting(messages', A)
      /\ \A A : id \in A => Waiting(messages, A)
      /\ \A A, B : Behind(messages', A, B) => Behind(messages, A, B)
      /\ \A A, B : id \in A /\ ~Behind(messages, A, B)
           => ~Waiting(messages', B)
      /\ DataMatchesCommand'
  BY <1>1, TakenFacts DEF IInv
<1> HIDE DEF id
<1>3. TypeOK'
  BY <1>1, <1>2, Constants
     DEF IInv, TypeOK, IdleBleReady, IsWaiting, Waiting, StartRequest, StartTransfer,
         ReadRequestData,
         Dispatch, IsNext, HandlerFrame, i2cVars, historyVars, RunningInv,
         ErrorInv, None, Command
<1>4. halted' = "no" => RunningInv'
  <2> SUFFICES ASSUME halted' = "no"
               PROVE  RunningInv'
    OBVIOUS
  <2>1. TickInv'
    BY <1>1, <1>2, Kinds, Constants
       DEF IInv, TypeOK, IdleBleReady, IsWaiting, Waiting, StartRequest,
           StartTransfer, ReadRequestData, Dispatch, IsNext, HandlerFrame,
           i2cVars, historyVars, id, RunningInv, TickInv, IdleInv,
           StartedInv, RestartedInv, ReadingInv, ErrorInv, RegularInv,
           Undisturbed, Matching, Tick, Ble, Sent, Ready, Answer, Reset,
           Completion, None, Command
  <2>2. IdleInv'
    BY <1>1, <1>2, Kinds, Constants
       DEF IInv, TypeOK, IdleBleReady, IsWaiting, Waiting, StartRequest,
           StartTransfer, ReadRequestData, Dispatch, IsNext, HandlerFrame,
           i2cVars, historyVars, id, RunningInv, TickInv, IdleInv,
           StartedInv, RestartedInv, ReadingInv, ErrorInv, RegularInv,
           Undisturbed, Matching, Tick, Ble, Sent, Ready, Answer, Reset,
           Completion, None, Command
  <2>3. StartedInv'
    <3>1. transfer' = "request" /\ ~sensorTimer /\ UNCHANGED sensorTimer
      BY <1>1, <1>2
         DEF IdleBleReady, StartRequest, StartTransfer, IInv, RunningInv,
             IdleInv, Undisturbed, Dispatch, IsNext, Ble, Tick, id
    <3>2. ~Waiting(messages, Completion)
      BY <1>1, <1>2
         DEF IdleBleReady, IInv, RunningInv, IdleInv, Undisturbed, Dispatch,
             IsNext, Ble, Tick, id
    <3>3. ~Behind(messages', Completion, Completion)
      BY <1>2, <3>2 DEF Behind, Waiting
    <3> QED
      BY <1>2, <3>1, <3>2, <3>3, Kinds DEF StartedInv, None
  <2>4. RestartedInv'
    BY <1>1, <1>2, Kinds, Constants
       DEF IInv, TypeOK, IdleBleReady, IsWaiting, Waiting, StartRequest,
           StartTransfer, ReadRequestData, Dispatch, IsNext, HandlerFrame,
           i2cVars, historyVars, id, RunningInv, TickInv, IdleInv,
           StartedInv, RestartedInv, ReadingInv, ErrorInv, RegularInv,
           Undisturbed, Matching, Tick, Ble, Sent, Ready, Answer, Reset,
           Completion, None, Command
  <2>5. ReadingInv'
    BY <1>1, <1>2, Kinds, Constants
       DEF IInv, TypeOK, IdleBleReady, IsWaiting, Waiting, StartRequest,
           StartTransfer, ReadRequestData, Dispatch, IsNext, HandlerFrame,
           i2cVars, historyVars, id, RunningInv, TickInv, IdleInv,
           StartedInv, RestartedInv, ReadingInv, ErrorInv, RegularInv,
           Undisturbed, Matching, Tick, Ble, Sent, Ready, Answer, Reset,
           Completion, None, Command
  <2>6. ErrorInv'
    BY <1>1, <1>2, Kinds, Constants
       DEF IInv, TypeOK, IdleBleReady, IsWaiting, Waiting, StartRequest,
           StartTransfer, ReadRequestData, Dispatch, IsNext, HandlerFrame,
           i2cVars, historyVars, id, RunningInv, TickInv, IdleInv,
           StartedInv, RestartedInv, ReadingInv, ErrorInv, RegularInv,
           Undisturbed, Matching, Tick, Ble, Sent, Ready, Answer, Reset,
           Completion, None, Command
  <2>7. RegularInv'
    <3>1. transfer' = "request" /\ callback' = "RequestCompleted" /\ state' = "Started" /\ UNCHANGED <<sensorTimer, irregular>>
      BY <1>1, <1>2
         DEF IdleBleReady, StartRequest, StartTransfer, HandlerFrame,
             historyVars, IInv
    <3>2. ~Waiting(messages, Completion) /\ ~sensorTimer
      BY <1>1, <1>2
         DEF IdleBleReady, IInv, RunningInv, IdleInv, Undisturbed, Dispatch,
             IsNext, Ble, id
    <3>3. ~Behind(messages', Completion, Tick)
      BY <1>2, <3>2 DEF Behind, Waiting
    <3> QED
      BY <3>1, <3>2, <3>3 DEF RegularInv, None
  <2> QED
    BY <2>1, <2>2, <2>3, <2>4, <2>5, <2>6, <2>7 DEF RunningInv
<1>5. GivesUpOnlyWithoutReset' /\ AssertsOnlyIfIrregular'
  BY <1>1, <1>2, Kinds, Constants
     DEF IInv, TypeOK, IdleBleReady, IsWaiting, Waiting, StartRequest, StartTransfer,
         ReadRequestData,
         Dispatch, IsNext, HandlerFrame, i2cVars, historyVars, id,
         GivesUpOnlyWithoutReset, AssertsOnlyIfIrregular,
         RunningInv, TickInv, IdleInv, StartedInv, RestartedInv, ReadingInv,
         ErrorInv, RegularInv, Undisturbed, Matching, Tick, Ble, Sent, Ready,
         Answer, Reset, Completion, None,
         Command
<1> QED
  BY <1>2, <1>3, <1>4, <1>5 DEF IInv

\* Nothing is under way when a tick requests a measurement.
LEMMA IdleTimeElapsedInv ==
  ASSUME IInv, IdleTimeElapsed
  PROVE  IInv'
<1> DEFINE id == Head(messages).id
<1>1. TypeOK /\ messages # <<>> /\ messages' = Tail(messages) /\ halted = "no"
  BY DEF IInv, IdleTimeElapsed, Dispatch, IsNext
<1>2. /\ messages' \in Seq(Message)
      /\ \A A : Waiting(messages', A) => Waiting(messages, A)
      /\ \A A : Waiting(messages, A) => id \in A \/ Waiting(messages', A)
      /\ \A A : id \in A => Waiting(messages, A)
      /\ \A A, B : Behind(messages', A, B) => Behind(messages, A, B)
      /\ \A A, B : id \in A /\ ~Behind(messages, A, B)
           => ~Waiting(messages', B)
      /\ DataMatchesCommand'
  BY <1>1, TakenFacts DEF IInv
<1> HIDE DEF id
<1>3. TypeOK'
  BY <1>1, <1>2, Constants
     DEF IInv, TypeOK, IdleTimeElapsed, StartRequest, StartTransfer, ReadRequestData,
         Dispatch, IsNext, HandlerFrame, i2cVars, historyVars, RunningInv,
         ErrorInv, None, Command
<1>4. halted' = "no" => RunningInv'
  <2> SUFFICES ASSUME halted' = "no"
               PROVE  RunningInv'
    OBVIOUS
  <2>1. TickInv'
    BY <1>1, <1>2, Kinds, Constants
       DEF IInv, TypeOK, IdleTimeElapsed, StartRequest, StartTransfer,
           ReadRequestData, Dispatch, IsNext, HandlerFrame, i2cVars,
           historyVars, id, RunningInv, TickInv, IdleInv, StartedInv,
           RestartedInv, ReadingInv, ErrorInv, RegularInv, Undisturbed,
           Matching, Tick, Ble, Sent, Ready, Answer, Reset, Completion, None,
           Command
  <2>2. IdleInv'
    BY <1>1, <1>2, Kinds, Constants
       DEF IInv, TypeOK, IdleTimeElapsed, StartRequest, StartTransfer,
           ReadRequestData, Dispatch, IsNext, HandlerFrame, i2cVars,
           historyVars, id, RunningInv, TickInv, IdleInv, StartedInv,
           RestartedInv, ReadingInv, ErrorInv, RegularInv, Undisturbed,
           Matching, Tick, Ble, Sent, Ready, Answer, Reset, Completion, None,
           Command
  <2>3. StartedInv'
    <3>1. transfer' = "request" /\ ~sensorTimer /\ UNCHANGED sensorTimer
      BY <1>1, <1>2
         DEF IdleTimeElapsed, StartRequest, StartTransfer, IInv, RunningInv,
             IdleInv, Undisturbed, Dispatch, IsNext, Ble, Tick, id
    <3>2. ~Waiting(messages, Completion)
      BY <1>1, <1>2
         DEF IdleTimeElapsed, IInv, RunningInv, IdleInv, Undisturbed,
             Dispatch, IsNext, Ble, Tick, id
    <3>3. ~Behind(messages', Completion, Completion)
      BY <1>2, <3>2 DEF Behind, Waiting
    <3> QED
      BY <1>2, <3>1, <3>2, <3>3, Kinds DEF StartedInv, None
  <2>4. RestartedInv'
    BY <1>1, <1>2, Kinds, Constants
       DEF IInv, TypeOK, IdleTimeElapsed, StartRequest, StartTransfer,
           ReadRequestData, Dispatch, IsNext, HandlerFrame, i2cVars,
           historyVars, id, RunningInv, TickInv, IdleInv, StartedInv,
           RestartedInv, ReadingInv, ErrorInv, RegularInv, Undisturbed,
           Matching, Tick, Ble, Sent, Ready, Answer, Reset, Completion, None,
           Command
  <2>5. ReadingInv'
    BY <1>1, <1>2, Kinds, Constants
       DEF IInv, TypeOK, IdleTimeElapsed, StartRequest, StartTransfer,
           ReadRequestData, Dispatch, IsNext, HandlerFrame, i2cVars,
           historyVars, id, RunningInv, TickInv, IdleInv, StartedInv,
           RestartedInv, ReadingInv, ErrorInv, RegularInv, Undisturbed,
           Matching, Tick, Ble, Sent, Ready, Answer, Reset, Completion, None,
           Command
  <2>6. ErrorInv'
    BY <1>1, <1>2, Kinds, Constants
       DEF IInv, TypeOK, IdleTimeElapsed, StartRequest, StartTransfer,
           ReadRequestData, Dispatch, IsNext, HandlerFrame, i2cVars,
           historyVars, id, RunningInv, TickInv, IdleInv, StartedInv,
           RestartedInv, ReadingInv, ErrorInv, RegularInv, Undisturbed,
           Matching, Tick, Ble, Sent, Ready, Answer, Reset, Completion, None,
           Command
  <2>7. RegularInv'
    BY <1>1, <1>2, Kinds, Constants
       DEF IInv, TypeOK, IdleTimeElapsed, StartRequest, StartTransfer,
           ReadRequestData, Dispatch, IsNext, HandlerFrame, i2cVars,
           historyVars, id, RunningInv, TickInv, IdleInv, StartedInv,
           RestartedInv, ReadingInv, ErrorInv, RegularInv, Undisturbed,
           Matching, Tick, Ble, Sent, Ready, Answer, Reset, Completion, None,
           Command
  <2> QED
    BY <2>1, <2>2, <2>3, <2>4, <2>5, <2>6, <2>7 DEF RunningInv
<1>5. GivesUpOnlyWithoutReset' /\ AssertsOnlyIfIrregular'
  BY <1>1, <1>2, Kinds, Constants
     DEF IInv, TypeOK, IdleTimeElapsed, StartRequest, StartTransfer, ReadRequestData,
         Dispatch, IsNext, HandlerFrame, i2cVars, historyVars, id,
         GivesUpOnlyWithoutReset, AssertsOnlyIfIrregular,
         RunningInv, TickInv, IdleInv, StartedInv, RestartedInv, ReadingInv,
         ErrorInv, RegularInv, Undisturbed, Matching, Tick, Ble, Sent, Ready,
         Answer, Reset, Completion, None,
         Command
<1> QED
  BY <1>2, <1>3, <1>4, <1>5 DEF IInv

\* The request was the only thing under way.
LEMMA StartedRequestSentInv ==
  ASSUME IInv, StartedRequestSent
  PROVE  IInv'
<1> DEFINE id == Head(messages).id
<1>1. TypeOK /\ messages # <<>> /\ messages' = Tail(messages) /\ halted = "no"
  BY DEF IInv, StartedRequestSent, Dispatch, IsNext
<1>2. /\ messages' \in Seq(Message)
      /\ \A A : Waiting(messages', A) => Waiting(messages, A)
      /\ \A A : Waiting(messages, A) => id \in A \/ Waiting(messages', A)
      /\ \A A : id \in A => Waiting(messages, A)
      /\ \A A, B : Behind(messages', A, B) => Behind(messages, A, B)
      /\ \A A, B : id \in A /\ ~Behind(messages, A, B)
           => ~Waiting(messages', B)
      /\ DataMatchesCommand'
  BY <1>1, TakenFacts DEF IInv
<1> HIDE DEF id
<1>3. TypeOK'
  BY <1>1, <1>2, Constants
     DEF IInv, TypeOK, StartedRequestSent,
         Dispatch, IsNext, HandlerFrame, i2cVars, historyVars, RunningInv,
         ErrorInv, None, Command
<1>4. halted' = "no" => RunningInv'
  BY <1>1, <1>2, Kinds, Constants
     DEF IInv, TypeOK, StartedRequestSent,
         Dispatch, IsNext, HandlerFrame, i2cVars, historyVars, id,
         RunningInv, TickInv, IdleInv, StartedInv, RestartedInv, ReadingInv,
         ErrorInv, RegularInv, Undisturbed, Matching, Tick, Ble, Sent, Ready,
         Answer, Reset, Completion, None,
         Command
<1>5. GivesUpOnlyWithoutReset' /\ AssertsOnlyIfIrregular'
  BY <1>1, <1>2, Kinds, Constants
     DEF IInv, TypeOK, StartedRequestSent,
         Dispatch, IsNext, HandlerFrame, i2cVars, historyVars, id,
         GivesUpOnlyWithoutReset, AssertsOnlyIfIrregular,
         RunningInv, TickInv, IdleInv, StartedInv, RestartedInv, ReadingInv,
         ErrorInv, RegularInv, Undisturbed, Matching, Tick, Ble, Sent, Ready,
         Answer, Reset, Completion, None,
         Command
<1> QED
  BY <1>2, <1>3, <1>4, <1>5 DEF IInv

\* The result is read when nothing else is under way.
LEMMA StartedSensorReadyInv ==
  ASSUME IInv, StartedSensorReady
  PROVE  IInv'
<1> DEFINE id == Head(messages).id
<1>1. TypeOK /\ messages # <<>> /\ messages' = Tail(messages) /\ halted = "no"
  BY DEF IInv, StartedSensorReady, Dispatch, IsNext
<1>2. /\ messages' \in Seq(Message)
      /\ \A A : Waiting(messages', A) => Waiting(messages, A)
      /\ \A A : Waiting(messages, A) => id \in A \/ Waiting(messages', A)
      /\ \A A : id \in A => Waiting(messages, A)
      /\ \A A, B : Behind(messages', A, B) => Behind(messages, A, B)
      /\ \A A, B : id \in A /\ ~Behind(messages, A, B)
           => ~Waiting(messages', B)
      /\ DataMatchesCommand'
  BY <1>1, TakenFacts DEF IInv
<1> HIDE DEF id
<1>3. TypeOK'
  BY <1>1, <1>2, Constants
     DEF IInv, TypeOK, StartedSensorReady, StartRequest, StartTransfer, ReadRequestData,
         Dispatch, IsNext, HandlerFrame, i2cVars, historyVars, RunningInv,
         ErrorInv, None, Command
<1>4. halted' = "no" => RunningInv'
  <2> SUFFICES ASSUME halted' = "no"
               PROVE  RunningInv'
    OBVIOUS
  <2>1. TickInv'
    BY <1>1, <1>2, Kinds, Constants
       DEF IInv, TypeOK, StartedSensorReady, StartRequest, StartTransfer,
           ReadRequestData, Dispatch, IsNext, HandlerFrame, i2cVars,
           historyVars, id, RunningInv, TickInv, IdleInv, StartedInv,
           RestartedInv, ReadingInv, ErrorInv, RegularInv, Undisturbed,
           Matching, Tick, Ble, Sent, Ready, Answer, Reset, Completion, None,
           Command
  <2>2. IdleInv'
    BY <1>1, <1>2, Kinds, Constants
       DEF IInv, TypeOK, StartedSensorReady, StartRequest, StartTransfer,
           ReadRequestData, Dispatch, IsNext, HandlerFrame, i2cVars,
           historyVars, id, RunningInv, TickInv, IdleInv, StartedInv,
           RestartedInv, ReadingInv, ErrorInv, RegularInv, Undisturbed,
           Matching, Tick, Ble, Sent, Ready, Answer, Reset, Completion, None,
           Command
  <2>3. StartedInv'
    BY <1>1, <1>2, Kinds, Constants
       DEF IInv, TypeOK, StartedSensorReady, StartRequest, StartTransfer,
           ReadRequestData, Dispatch, IsNext, HandlerFrame, i2cVars,
           historyVars, id, RunningInv, TickInv, IdleInv, StartedInv,
           RestartedInv, ReadingInv, ErrorInv, RegularInv, Undisturbed,
           Matching, Tick, Ble, Sent, Ready, Answer, Reset, Completion, None,
           Command
  <2>4. RestartedInv'
    BY <1>1, <1>2, Kinds, Constants
       DEF IInv, TypeOK, StartedSensorReady, StartRequest, StartTransfer,
           ReadRequestData, Dispatch, IsNext, HandlerFrame, i2cVars,
           historyVars, id, RunningInv, TickInv, IdleInv, StartedInv,
           RestartedInv, ReadingInv, ErrorInv, RegularInv, Undisturbed,
           Matching, Tick, Ble, Sent, Ready, Answer, Reset, Completion, None,
           Command
  <2>5. ReadingInv'
    <3>1. transfer' = "response" /\ UNCHANGED <<sensorTimer, result, parameter1, consecutiveErrors>>
      BY <1>1
         DEF StartedSensorReady, ReadRequestData, StartTransfer,
             HandlerFrame, IInv
    <3>2. ~sensorTimer /\ consecutiveErrors = 0 /\ Matching
      BY <1>1, <1>2, Kinds
         DEF StartedSensorReady, IInv, RunningInv, StartedInv, RestartedInv,
             Dispatch, IsNext, Ready, Tick, Completion, id
    <3>3. ~Waiting(messages', Ready) /\ ~Waiting(messages', Answer) /\ ~Waiting(messages', Reset)
      BY <1>1, <1>2, Kinds
         DEF StartedSensorReady, IInv, RunningInv, StartedInv, RestartedInv,
             Dispatch, IsNext, Ready, Tick, Completion, id
    <3>4. ~Behind(messages', Answer, Completion)
      BY <3>3 DEF Behind, Waiting
    <3> QED
      BY <3>1, <3>2, <3>3, <3>4 DEF ReadingInv, Matching
  <2>6. ErrorInv'
    BY <1>1, <1>2, Kinds, Constants
       DEF IInv, TypeOK, StartedSensorReady, StartRequest, StartTransfer,
           ReadRequestData, Dispatch, IsNext, HandlerFrame, i2cVars,
           historyVars, id, RunningInv, TickInv, IdleInv, StartedInv,
           RestartedInv, ReadingInv, ErrorInv, RegularInv, Undisturbed,
           Matching, Tick, Ble, Sent, Ready, Answer, Reset, Completion, None,
           Command
  <2>7. RegularInv'
    BY <1>1, <1>2, Kinds, Constants
       DEF IInv, TypeOK, StartedSensorReady, StartRequest, StartTransfer,
           ReadRequestData, Dispatch, IsNext, HandlerFrame, i2cVars,
           historyVars, id, RunningInv, TickInv, IdleInv, StartedInv,
           RestartedInv, ReadingInv, ErrorInv, RegularInv, Undisturbed,
           Matching, Tick, Ble, Sent, Ready, Answer, Reset, Completion, None,
           Command
  <2> QED
    BY <2>1, <2>2, <2>3, <2>4, <2>5, <2>6, <2>7 DEF RunningInv
<1>5. GivesUpOnlyWithoutReset' /\ AssertsOnlyIfIrregular'
  BY <1>1, <1>2, Kinds, Constants
     DEF IInv, TypeOK, StartedSensorReady, StartRequest, StartTransfer, ReadRequestData,
         Dispatch, IsNext, HandlerFrame, i2cVars, historyVars, id,
         GivesUpOnlyWithoutReset, AssertsOnlyIfIrregular,
         RunningInv, TickInv, IdleInv, StartedInv, RestartedInv, ReadingInv,
         ErrorInv, RegularInv, Undisturbed, Matching, Tick, Ble, Sent, Ready,
         Answer, Reset, Completion, None,
         Command
<1> QED
  BY <1>2, <1>3, <1>4, <1>5 DEF IInv

\* The tick after a measurement reads the result of the next one.
LEMMA RestartedTimeElapsedInv ==
  ASSUME IInv, RestartedTimeElapsed
  PROVE  IInv'
<1> DEFINE id == Head(messages).id
<1>1. TypeOK /\ messages # <<>> /\ messages' = Tail(messages) /\ halted = "no"
  BY DEF IInv, RestartedTimeElapsed, Dispatch, IsNext
<1>2. /\ messages' \in Seq(Message)
      /\ \A A : Waiting(messages', A) => Waiting(messages, A)
      /\ \A A : Waiting(messages, A) => id \in A \/ Waiting(messages', A)
      /\ \A A : id \in A => Waiting(messages, A)
      /\ \A A, B : Behind(messages', A, B) => Behind(messages, A, B)
      /\ \A A, B : id \in A /\ ~Behind(messages, A, B)
           => ~Waiting(messages', B)
      /\ DataMatchesCommand'
  BY <1>1, TakenFacts DEF IInv
<1> HIDE DEF id
<1>3. TypeOK'
  BY <1>1, <1>2, Constants
     DEF IInv, TypeOK, RestartedTimeElapsed, StartRequest, StartTransfer, ReadRequestData,
         Dispatch, IsNext, HandlerFrame, i2cVars, historyVars, RunningInv,
         ErrorInv, None, Command
<1>4. halted' = "no" => RunningInv'
  <2> SUFFICES ASSUME halted' = "no"
               PROVE  RunningInv'
    OBVIOUS
  <2>1. TickInv'
    BY <1>1, <1>2, Kinds, Constants
       DEF IInv, TypeOK, RestartedTimeElapsed, StartRequest, StartTransfer,
           ReadRequestData, Dispatch, IsNext, HandlerFrame, i2cVars,
           historyVars, id, RunningInv, TickInv, IdleInv, StartedInv,
           RestartedInv, ReadingInv, ErrorInv, RegularInv, Undisturbed,
           Matching, Tick, Ble, Sent, Ready, Answer, Reset, Completion, None,
           Command
  <2>2. IdleInv'
    BY <1>1, <1>2, Kinds, Constants
       DEF IInv, TypeOK, RestartedTimeElapsed, StartRequest, StartTransfer,
           ReadRequestData, Dispatch, IsNext, HandlerFrame, i2cVars,
           historyVars, id, RunningInv, TickInv, IdleInv, StartedInv,
           RestartedInv, ReadingInv, ErrorInv, RegularInv, Undisturbed,
           Matching, Tick, Ble, Sent, Ready, Answer, Reset, Completion, None,
           Command
  <2>3. StartedInv'
    BY <1>1, <1>2, Kinds, Constants
       DEF IInv, TypeOK, RestartedTimeElapsed, StartRequest, StartTransfer,
           ReadRequestData, Dispatch, IsNext, HandlerFrame, i2cVars,
           historyVars, id, RunningInv, TickInv, IdleInv, StartedInv,
           RestartedInv, ReadingInv, ErrorInv, RegularInv, Undisturbed,
           Matching, Tick, Ble, Sent, Ready, Answer, Reset, Completion, None,
           Command
  <2>4. RestartedInv'
    BY <1>1, <1>2, Kinds, Constants
       DEF IInv, TypeOK, RestartedTimeElapsed, StartRequest, StartTransfer,
           ReadRequestData, Dispatch, IsNext, HandlerFrame, i2cVars,
           historyVars, id, RunningInv, TickInv, IdleInv, StartedInv,
           RestartedInv, ReadingInv, ErrorInv, RegularInv, Undisturbed,
           Matching, Tick, Ble, Sent, Ready, Answer, Reset, Completion, None,
           Command
  <2>5. ReadingInv'
    <3>1. transfer' = "response" /\ UNCHANGED <<sensorTimer, result, parameter1, consecutiveErrors>>
      BY <1>1
         DEF RestartedTimeElapsed, ReadRequestData, StartTransfer,
             HandlerFrame, IInv
    <3>2. ~sensorTimer /\ consecutiveErrors = 0 /\ Matching
      BY <1>1, <1>2, Kinds
         DEF RestartedTimeElapsed, IInv, RunningInv, StartedInv,
             RestartedInv, Dispatch, IsNext, Ready, Tick, Completion, id
    <3>3. ~Waiting(messages', Ready) /\ ~Waiting(messages', Answer) /\ ~Waiting(messages', Reset)
      BY <1>1, <1>2, Kinds
         DEF RestartedTimeElapsed, IInv, RunningInv, StartedInv,
             RestartedInv, Dispatch, IsNext, Ready, Tick, Completion, id
    <3>4. ~Behind(messages', Answer, Completion)
      BY <3>3 DEF Behind, Waiting
    <3> QED
      BY <3>1, <3>2, <3>3, <3>4 DEF ReadingInv, Matching
  <2>6. ErrorInv'
    BY <1>1, <1>2, Kinds, Constants
       DEF IInv, TypeOK, RestartedTimeElapsed, StartRequest, StartTransfer,
           ReadRequestData, Dispatch, IsNext, HandlerFrame, i2cVars,
           historyVars, id, RunningInv, TickInv, IdleInv, StartedInv,
           RestartedInv, ReadingInv, ErrorInv, RegularInv, Undisturbed,
           Matching, Tick, Ble, Sent, Ready, Answer, Reset, Completion, None,
           Command
  <2>7. RegularInv'
    BY <1>1, <1>2, Kinds, Constants
       DEF IInv, TypeOK, RestartedTimeElapsed, StartRequest, StartTransfer,
           ReadRequestData, Dispatch, IsNext, HandlerFrame, i2cVars,
           historyVars, id, RunningInv, TickInv, IdleInv, StartedInv,
           RestartedInv, ReadingInv, ErrorInv, RegularInv, Undisturbed,
           Matching, Tick, Ble, Sent, Ready, Answer, Reset, Completion, None,
           Command
  <2> QED
    BY <2>1, <2>2, <2>3, <2>4, <2>5, <2>6, <2>7 DEF RunningInv
<1>5. GivesUpOnlyWithoutReset' /\ AssertsOnlyIfIrregular'
  BY <1>1, <1>2, Kinds, Constants
     DEF IInv, TypeOK, RestartedTimeElapsed, StartRequest, StartTransfer, ReadRequestData,
         Dispatch, IsNext, HandlerFrame, i2cVars, historyVars, id,
         GivesUpOnlyWithoutReset, AssertsOnlyIfIrregular,
         RunningInv, TickInv, IdleInv, StartedInv, RestartedInv, ReadingInv,
         ErrorInv, RegularInv, Undisturbed, Matching, Tick, Ble, Sent, Ready,
         Answer, Reset, Completion, None,
         Command
<1> QED
  BY <1>2, <1>3, <1>4, <1>5 DEF IInv

\* A result was read: the next measurement is requested.
LEMMA ReadingSensorDataInv ==
  ASSUME IInv, ReadingSensorData
  PROVE  IInv'
<1> DEFINE id == Head(messages).id
<1>1. TypeOK /\ messages # <<>> /\ messages' = Tail(messages) /\ halted = "no"
  BY DEF IInv, ReadingSensorData, Dispatch, IsNext
<1>2. /\ messages' \in Seq(Message)
      /\ \A A : Waiting(messages', A) => Waiting(messages, A)
      /\ \A A : Waiting(messages, A) => id \in A \/ Waiting(messages', A)
      /\ \A A : id \in A => Waiting(messages, A)
      /\ \A A, B : Behind(messages', A, B) => Behind(messages, A, B)
      /\ \A A, B : id \in A /\ ~Behind(messages, A, B)
           => ~Waiting(messages', B)
      /\ DataMatchesCommand'
  BY <1>1, TakenFacts DEF IInv
<1> HIDE DEF id
<1>3. TypeOK'
  BY <1>1, <1>2, Constants
     DEF IInv, TypeOK, ReadingSensorData, StartRequest, StartTransfer, ReadRequestData,
         Dispatch, IsNext, HandlerFrame, i2cVars, historyVars, RunningInv,
         ErrorInv, None, Command
<1>4. halted' = "no" => RunningInv'
  BY <1>1, <1>2, Kinds, Constants
     DEF IInv, TypeOK, ReadingSensorData, StartRequest, StartTransfer, ReadRequestData,
         Dispatch, IsNext, HandlerFrame, i2cVars, historyVars, id,
         RunningInv, TickInv, IdleInv, StartedInv, RestartedInv, ReadingInv,
         ErrorInv, RegularInv, Undisturbed, Matching, Tick, Ble, Sent, Ready,
         Answer, Reset, Completion, None,
         Command
<1>5. GivesUpOnlyWithoutReset' /\ AssertsOnlyIfIrregular'
  BY <1>1, <1>2, Kinds, Constants
     DEF IInv, TypeOK, ReadingSensorData, StartRequest, StartTransfer, ReadRequestData,
         Dispatch, IsNext, HandlerFrame, i2cVars, historyVars, id,
         GivesUpOnlyWithoutReset, AssertsOnlyIfIrregular,
         RunningInv, TickInv, IdleInv, StartedInv, RestartedInv, ReadingInv,
         ErrorInv, RegularInv, Undisturbed, Matching, Tick, Ble, Sent, Ready,
         Answer, Reset, Completion, None,
         Command
<1> QED
  BY <1>2, <1>3, <1>4, <1>5 DEF IInv

\* A request is given up; what it left behind is drained before the next one.
LEMMA HandleErrorInv ==
  ASSUME IInv, HandleError
  PROVE  IInv'
<1> DEFINE id == Head(messages).id
<1>1. TypeOK /\ messages # <<>> /\ messages' = Tail(messages) /\ halted = "no"
  BY DEF IInv, HandleError, Dispatch, IsNext
<1>2. /\ messages' \in Seq(Message)
      /\ \A A : Waiting(messages', A) => Waiting(messages, A)
      /\ \A A : Waiting(messages, A) => id \in A \/ Waiting(messages', A)
      /\ \A A : id \in A => Waiting(messages, A)
      /\ \A A, B : Behind(messages', A, B) => Behind(messages, A, B)
      /\ \A A, B : id \in A /\ ~Behind(messages, A, B)
           => ~Waiting(messages', B)
      /\ DataMatchesCommand'
  BY <1>1, TakenFacts DEF IInv
<1> HIDE DEF id
<1>3. TypeOK'
  <2>1. consecutiveErrors' \in 0 .. MaxErrors
    BY <1>1, Constants
       DEF IInv, TypeOK, HandleError, RunningInv, ErrorInv, MustReset,
           Dispatch, IsNext
  <2>2. /\ UNCHANGED <<command, parameter1, sensorTimer, resetTimer,
                        resultReady, halted, bleReady, tickMayOverlap,
                        faults, irregular>>
        /\ activeReminder' \in BOOLEAN
    BY DEF HandleError
  <2>3. /\ state' \in {"Idle", "Error"}
        /\ callback' \in {None, "GeneralCallResetSentCb"}
        /\ transfer' \in {None, "reset"}
        /\ result' \in {result, command}
    BY DEF HandleError
  <2>4. resetSent' \in BOOLEAN
    BY <1>1 DEF HandleError, TypeOK
  <2> QED
    BY <1>1, <1>2, <2>1, <2>2, <2>3, <2>4 DEF TypeOK
<1>4. halted' = "no" => RunningInv'
  <2> SUFFICES ASSUME halted' = "no"
               PROVE  RunningInv'
    OBVIOUS
  <2>1. TickInv'
    BY <1>1, <1>2, Kinds, Constants
       DEF IInv, TypeOK, HandleError, MustReset, Dispatch, IsNext,
           HandlerFrame, i2cVars, historyVars, id, RunningInv, TickInv,
           IdleInv, StartedInv, RestartedInv, ReadingInv, ErrorInv,
           RegularInv, Undisturbed, Matching, Tick, Ble, Sent, Ready, Answer,
           Reset, Completion, None, Command
  <2>2. IdleInv'
    BY <1>1, <1>2, Kinds, Constants
       DEF IInv, TypeOK, HandleError, MustReset, Dispatch, IsNext,
           HandlerFrame, i2cVars, historyVars, id, RunningInv, TickInv,
           IdleInv, StartedInv, RestartedInv, ReadingInv, ErrorInv,
           RegularInv, Undisturbed, Matching, Tick, Ble, Sent, Ready, Answer,
           Reset, Completion, None, Command
  <2>3. StartedInv'
    BY <1>1, <1>2, Kinds, Constants
       DEF IInv, TypeOK, HandleError, MustReset, Dispatch, IsNext,
           HandlerFrame, i2cVars, historyVars, id, RunningInv, TickInv,
           IdleInv, StartedInv, RestartedInv, ReadingInv, ErrorInv,
           RegularInv, Undisturbed, Matching, Tick, Ble, Sent, Ready, Answer,
           Reset, Completion, None, Command
  <2>4. RestartedInv'
    BY <1>1, <1>2, Kinds, Constants
       DEF IInv, TypeOK, HandleError, MustReset, Dispatch, IsNext,
           HandlerFrame, i2cVars, historyVars, id, RunningInv, TickInv,
           IdleInv, StartedInv, RestartedInv, ReadingInv, ErrorInv,
           RegularInv, Undisturbed, Matching, Tick, Ble, Sent, Ready, Answer,
           Reset, Completion, None, Command
  <2>5. ReadingInv'
    BY <1>1, <1>2, Kinds, Constants
       DEF IInv, TypeOK, HandleError, MustReset, Dispatch, IsNext,
           HandlerFrame, i2cVars, historyVars, id, RunningInv, TickInv,
           IdleInv, StartedInv, RestartedInv, ReadingInv, ErrorInv,
           RegularInv, Undisturbed, Matching, Tick, Ble, Sent, Ready, Answer,
           Reset, Completion, None, Command
  <2>6. ErrorInv'
    <3>1. CASE state' = "Error"
      <4>1. transfer' = "reset" /\ ~resetSent' /\ ~activeReminder'
        BY <1>1, <3>1 DEF HandleError
      <4>2. ~resetTimer /\ UNCHANGED <<resetTimer, tickMayOverlap, sensorTimer, bleReady>>
        BY <1>1 DEF HandleError, IInv, RunningInv, ErrorInv
      <4>3. id \in Tick
        BY <1>1, <3>1, Constants
           DEF HandleError, MustReset, IInv, RunningInv, ReadingInv,
               Dispatch, IsNext, Tick, id
      <4>4. ~tickMayOverlap /\ ~Waiting(messages', Tick)
        BY <1>1, <1>2, <4>3 DEF IInv, RunningInv, TickInv
      <4>5. Undisturbed => ~sensorTimer /\ ~Waiting(messages, Completion)
        BY <1>1, <1>2, <4>3 DEF IInv, RunningInv, TickInv
      <4>6. Undisturbed' => Undisturbed
        BY <1>2, <4>2 DEF Undisturbed
      <4>7. ~Waiting(messages, Reset)
        BY <1>1, Kinds
           DEF HandleError, IInv, RunningInv, StartedInv, ReadingInv
      <4>8. ~Waiting(messages', Reset) /\ ~Behind(messages', Reset, Reset)
        BY <1>2, <4>7 DEF Behind, Waiting
      <4>9. Undisturbed' => /\ ~sensorTimer' /\ ~Waiting(messages', Sent)
                            /\ ~Waiting(messages', Ready) /\ ~Waiting(messages', Answer)
        BY <1>2, <4>2, <4>5, <4>6, Kinds
      <4> QED
        BY <3>1, <4>1, <4>2, <4>4, <4>8, <4>9 DEF ErrorInv, None
    <3>2. CASE state' # "Error"
      BY <1>1, <1>2, <3>2, Constants
         DEF HandleError, MustReset, ErrorInv, IInv, RunningInv, TypeOK
    <3> QED
      BY <3>1, <3>2
  <2>7. RegularInv'
    BY <1>1, <1>2, Kinds, Constants
       DEF IInv, TypeOK, HandleError, MustReset, Dispatch, IsNext,
           HandlerFrame, i2cVars, historyVars, id, RunningInv, TickInv,
           IdleInv, StartedInv, RestartedInv, ReadingInv, ErrorInv,
           RegularInv, Undisturbed, Matching, Tick, Ble, Sent, Ready, Answer,
           Reset, Completion, None, Command
  <2> QED
    BY <2>1, <2>2, <2>3, <2>4, <2>5, <2>6, <2>7 DEF RunningInv
<1>5. GivesUpOnlyWithoutReset' /\ AssertsOnlyIfIrregular'
  BY <1>1, <1>2, Kinds, Constants
     DEF IInv, TypeOK, HandleError, MustReset,
         Dispatch, IsNext, HandlerFrame, i2cVars, historyVars, id,
         GivesUpOnlyWithoutReset, AssertsOnlyIfIrregular,
         RunningInv, TickInv, IdleInv, StartedInv, RestartedInv, ReadingInv,
         ErrorInv, RegularInv, Undisturbed, Matching, Tick, Ble, Sent, Ready,
         Answer, Reset, Completion, None,
         Command
<1> QED
  BY <1>2, <1>3, <1>4, <1>5 DEF IInv

\* The controller waits for the end of the reset.
LEMMA ErrorGeneralCallResetInv ==
  ASSUME IInv, ErrorGeneralCallReset
  PROVE  IInv'
<1> DEFINE id == Head(messages).id
<1>1. TypeOK /\ messages # <<>> /\ messages' = Tail(messages) /\ halted = "no"
  BY DEF IInv, ErrorGeneralCallReset, Dispatch, IsNext
<1>2. /\ messages' \in Seq(Message)
      /\ \A A : Waiting(messages', A) => Waiting(messages, A)
      /\ \A A : Waiting(messages, A) => id \in A \/ Waiting(messages', A)
      /\ \A A : id \in A => Waiting(messages, A)
      /\ \A A, B : Behind(messages', A, B) => Behind(messages, A, B)
      /\ \A A, B : id \in A /\ ~Behind(messages, A, B)
           => ~Waiting(messages', B)
      /\ DataMatchesCommand'
  BY <1>1, TakenFacts DEF IInv
<1> HIDE DEF id
<1>3. TypeOK'
  BY <1>1, <1>2, Constants
     DEF IInv, TypeOK, ErrorGeneralCallReset, sensorVars,
         Dispatch, IsNext, HandlerFrame, i2cVars, historyVars, RunningInv,
         ErrorInv, None, Command
<1>4. halted' = "no" => RunningInv'
  BY <1>1, <1>2, Kinds, Constants
     DEF IInv, TypeOK, ErrorGeneralCallReset, sensorVars,
         Dispatch, IsNext, HandlerFrame, i2cVars, historyVars, id,
         RunningInv, TickInv, IdleInv, StartedInv, RestartedInv, ReadingInv,
         ErrorInv, RegularInv, Undisturbed, Matching, Tick, Ble, Sent, Ready,
         Answer, Reset, Completion, None,
         Command
<1>5. GivesUpOnlyWithoutReset' /\ AssertsOnlyIfIrregular'
  BY <1>1, <1>2, Kinds, Constants
     DEF IInv, TypeOK, ErrorGeneralCallReset, sensorVars,
         Dispatch, IsNext, HandlerFrame, i2cVars, historyVars, id,
         GivesUpOnlyWithoutReset, AssertsOnlyIfIrregular,
         RunningInv, TickInv, IdleInv, StartedInv, RestartedInv, ReadingInv,
         ErrorInv, RegularInv, Undisturbed, Matching, Tick, Ble, Sent, Ready,
         Answer, Reset, Completion, None,
         Command
<1> QED
  BY <1>2, <1>3, <1>4, <1>5 DEF IInv

\* A tick that finds no reset sent.
LEMMA ErrorTimeElapsedInv ==
  ASSUME IInv, ErrorTimeElapsed
  PROVE  IInv'
<1> DEFINE id == Head(messages).id
<1>1. TypeOK /\ messages # <<>> /\ messages' = Tail(messages) /\ halted = "no"
  BY DEF IInv, ErrorTimeElapsed, Dispatch, IsNext
<1>2. /\ messages' \in Seq(Message)
      /\ \A A : Waiting(messages', A) => Waiting(messages, A)
      /\ \A A : Waiting(messages, A) => id \in A \/ Waiting(messages', A)
      /\ \A A : id \in A => Waiting(messages, A)
      /\ \A A, B : Behind(messages', A, B) => Behind(messages, A, B)
      /\ \A A, B : id \in A /\ ~Behind(messages, A, B)
           => ~Waiting(messages', B)
      /\ DataMatchesCommand'
  BY <1>1, TakenFacts DEF IInv
<1> HIDE DEF id
<1>3. TypeOK'
  BY <1>1, <1>2, Constants
     DEF IInv, TypeOK, ErrorTimeElapsed,
         Dispatch, IsNext, HandlerFrame, i2cVars, historyVars, RunningInv,
         ErrorInv, None, Command
<1>4. halted' = "no" => RunningInv'
  BY <1>1, <1>2, Kinds, Constants
     DEF IInv, TypeOK, ErrorTimeElapsed,
         Dispatch, IsNext, HandlerFrame, i2cVars, historyVars, id,
         RunningInv, TickInv, IdleInv, StartedInv, RestartedInv, ReadingInv,
         ErrorInv, RegularInv, Undisturbed, Matching, Tick, Ble, Sent, Ready,
         Answer, Reset, Completion, None,
         Command
<1>5. GivesUpOnlyWithoutReset' /\ AssertsOnlyIfIrregular'
  BY <1>1, <1>2, Kinds, Constants
     DEF IInv, TypeOK, ErrorTimeElapsed,
         Dispatch, IsNext, HandlerFrame, i2cVars, historyVars, id,
         GivesUpOnlyWithoutReset, AssertsOnlyIfIrregular,
         RunningInv, TickInv, IdleInv, StartedInv, RestartedInv, ReadingInv,
         ErrorInv, RegularInv, Undisturbed, Matching, Tick, Ble, Sent, Ready,
         Answer, Reset, Completion, None,
         Command
<1> QED
  BY <1>2, <1>3, <1>4, <1>5 DEF IInv

\* BLE_SUBSYSTEM_READY during a request.
LEMMA SetReminderIfNeededInv ==
  ASSUME IInv, SetReminderIfNeeded
  PROVE  IInv'
<1> DEFINE id == Head(messages).id
<1>1. TypeOK /\ messages # <<>> /\ messages' = Tail(messages) /\ halted = "no"
  BY DEF IInv, SetReminderIfNeeded, Dispatch, IsNext
<1>2. /\ messages' \in Seq(Message)
      /\ \A A : Waiting(messages', A) => Waiting(messages, A)
      /\ \A A : Waiting(messages, A) => id \in A \/ Waiting(messages', A)
      /\ \A A : id \in A => Waiting(messages, A)
      /\ \A A, B : Behind(messages', A, B) => Behind(messages, A, B)
      /\ \A A, B : id \in A /\ ~Behind(messages, A, B)
           => ~Waiting(messages', B)
      /\ DataMatchesCommand'
  BY <1>1, TakenFacts DEF IInv
<1> HIDE DEF id
<1>3. TypeOK'
  BY <1>1, <1>2, Constants
     DEF IInv, TypeOK, SetReminderIfNeeded,
         Dispatch, IsNext, HandlerFrame, i2cVars, historyVars, RunningInv,
         ErrorInv, None, Command
<1>4. halted' = "no" => RunningInv'
  BY <1>1, <1>2, Kinds, Constants
     DEF IInv, TypeOK, SetReminderIfNeeded,
         Dispatch, IsNext, HandlerFrame, i2cVars, historyVars, id,
         RunningInv, TickInv, IdleInv, StartedInv, RestartedInv, ReadingInv,
         ErrorInv, RegularInv, Undisturbed, Matching, Tick, Ble, Sent, Ready,
         Answer, Reset, Completion, None,
         Command
<1>5. GivesUpOnlyWithoutReset' /\ AssertsOnlyIfIrregular'
  BY <1>1, <1>2, Kinds, Constants
     DEF IInv, TypeOK, SetReminderIfNeeded,
         Dispatch, IsNext, HandlerFrame, i2cVars, historyVars, id,
         GivesUpOnlyWithoutReset, AssertsOnlyIfIrregular,
         RunningInv, TickInv, IdleInv, StartedInv, RestartedInv, ReadingInv,
         ErrorInv, RegularInv, Undisturbed, Matching, Tick, Ble, Sent, Ready,
         Answer, Reset, Completion, None,
         Command
<1> QED
  BY <1>2, <1>3, <1>4, <1>5 DEF IInv

\* A message that the state does not handle.
LEMMA IgnoreMessageInv ==
  ASSUME IInv, IgnoreMessage
  PROVE  IInv'
<1> DEFINE id == Head(messages).id
<1>1. TypeOK /\ messages # <<>> /\ messages' = Tail(messages) /\ halted = "no"
  BY DEF IInv, IgnoreMessage, Dispatch, IsNext
<1>2. /\ messages' \in Seq(Message)
      /\ \A A : Waiting(messages', A) => Waiting(messages, A)
      /\ \A A : Waiting(messages, A) => id \in A \/ Waiting(messages', A)
      /\ \A A : id \in A => Waiting(messages, A)
      /\ \A A, B : Behind(messages', A, B) => Behind(messages, A, B)
      /\ \A A, B : id \in A /\ ~Behind(messages, A, B)
           => ~Waiting(messages', B)
      /\ DataMatchesCommand'
  BY <1>1, TakenFacts DEF IInv
<1> HIDE DEF id
<1>3. TypeOK'
  BY <1>1, <1>2, Constants
     DEF IInv, TypeOK, IgnoreMessage, Handled,
         Dispatch, IsNext, HandlerFrame, i2cVars, historyVars, RunningInv,
         ErrorInv, None, Command
<1>4. halted' = "no" => RunningInv'
  BY <1>1, <1>2, Kinds, Constants
     DEF IInv, TypeOK, IgnoreMessage, Handled,
         Dispatch, IsNext, HandlerFrame, i2cVars, historyVars, id,
         RunningInv, TickInv, IdleInv, StartedInv, RestartedInv, ReadingInv,
         ErrorInv, RegularInv, Undisturbed, Matching, Tick, Ble, Sent, Ready,
         Answer, Reset, Completion, None,
         Command
<1>5. GivesUpOnlyWithoutReset' /\ AssertsOnlyIfIrregular'
  BY <1>1, <1>2, Kinds, Constants
     DEF IInv, TypeOK, IgnoreMessage, Handled,
         Dispatch, IsNext, HandlerFrame, i2cVars, historyVars, id,
         GivesUpOnlyWithoutReset, AssertsOnlyIfIrregular,
         RunningInv, TickInv, IdleInv, StartedInv, RestartedInv, ReadingInv,
         ErrorInv, RegularInv, Undisturbed, Matching, Tick, Ble, Sent, Ready,
         Answer, Reset, Completion, None,
         Command
<1> QED
  BY <1>2, <1>3, <1>4, <1>5 DEF IInv

-----------------------------------------------------------------------------
(* Theorems.                                                               *)

LEMMA InitInv == Init => IInv
<1> SUFFICES ASSUME Init
             PROVE  IInv
  OBVIOUS
<1>1. messages \in Seq(Message) /\ DOMAIN messages = {}
  BY DEF Init
<1>2. TypeOK
  <2>1. consecutiveErrors \in 0 .. MaxErrors /\ faults \in 0 .. MaxFaults
    BY Constants DEF Init
  <2> QED
    BY <1>1, <2>1 DEF Init, TypeOK
<1>3. /\ \A A : ~Waiting(messages, A)
      /\ \A A, B : ~Behind(messages, A, B)
  BY <1>1 DEF Waiting, Behind
<1>4. RunningInv
  BY <1>3, Constants
     DEF Init, RunningInv, TickInv, IdleInv, StartedInv, RestartedInv,
         ReadingInv, ErrorInv, RegularInv, Undisturbed
<1> QED
  BY <1>1, <1>2, <1>4
     DEF Init, IInv, DataMatchesCommand, GivesUpOnlyWithoutReset,
         AssertsOnlyIfIrregular

LEMMA NextInv == IInv /\ [Next]_vars => IInv'
<1> SUFFICES ASSUME IInv, [Next]_vars
             PROVE  IInv'
  OBVIOUS
<1>1. CASE HandleMessage
  BY <1>1, IdleBleReadyInv, IdleTimeElapsedInv, StartedRequestSentInv,
     StartedSensorReadyInv, RestartedTimeElapsedInv, ReadingSensorDataInv,
     HandleErrorInv, ErrorGeneralCallResetInv, ErrorTimeElapsedInv,
     SetReminderIfNeededInv, IgnoreMessageInv DEF HandleMessage
<1>2. CASE TransferEnds
  BY <1>2, RequestCompletedInv, ResponseReceivedInv, GeneralCallResetSentInv,
     ReadRefusedInv DEF TransferEnds
<1>3. CASE TransferFails \/ CompletionLost \/ ResponseCorrupted
  BY <1>3, TransferFailsInv, CompletionLostInv, ResponseCorruptedInv
<1>4. CASE \/ ResultBecomesReady \/ SensorReadyCb \/ SetIdleState \/ TimeTick
           \/ BleSubsystemReady
  BY <1>4, ResultBecomesReadyInv, SensorReadyCbInv, SetIdleStateInv,
     TimeTickInv, BleSubsystemReadyInv
<1>5. CASE UNCHANGED vars
  BY <1>5 DEF vars, i2cVars, sensorVars, historyVars, IInv, TypeOK,
     DataMatchesCommand, GivesUpOnlyWithoutReset, AssertsOnlyIfIrregular,
     RunningInv, TickInv, IdleInv, StartedInv, RestartedInv, ReadingInv,
     ErrorInv, RegularInv, Undisturbed, Matching
<1> QED
  BY <1>1, <1>2, <1>3, <1>4, <1>5 DEF Next

LEMMA Inductive == Spec => []IInv
BY InitInv, NextInv, PTL DEF Spec

(***************************************************************************)
(* The types hold for any number of faults; the errors that are counted    *)
(* never exceed MAX_CONSECUTIVE_ERRORS.                                    *)
(***************************************************************************)
THEOREM TypeCorrect == Spec => []TypeOK
<1>1. IInv => TypeOK
  BY DEF IInv
<1> QED
  BY <1>1, Inductive, PTL

(***************************************************************************)
(* A response is labelled with the command that the sensor answers,        *)
(* whatever faults there are: Sht4x.c never reports a serial number as a   *)
(* measurement.                                                            *)
(***************************************************************************)
THEOREM LabelsAreRight == Spec => []DataMatchesCommand
<1>1. IInv => DataMatchesCommand
  BY DEF IInv
<1> QED
  BY <1>1, Inductive, PTL

(***************************************************************************)
(* ErrorHandler_UnrecoverableError is called only when the general call    *)
(* reset was not sent; it needs MAX_CONSECUTIVE_ERRORS to be at least two. *)
(***************************************************************************)
THEOREM ResetIsWaitedFor == Spec => []GivesUpOnlyWithoutReset
<1>1. IInv => GivesUpOnlyWithoutReset
  BY DEF IInv
<1> QED
  BY <1>1, Inductive, PTL

(***************************************************************************)
(* The assertion of I2c3.c that no transfer is under way fails only after  *)
(* a completion was lost or a tick came too early: failed transfers and    *)
(* wrong checksums alone do not lead to it.                                *)
(***************************************************************************)
THEOREM RegularRunsDoNotAssert == Spec => []AssertsOnlyIfIrregular
<1>1. IInv => AssertsOnlyIfIrregular
  BY DEF IInv
<1> QED
  BY <1>1, Inductive, PTL

=============================================================================
