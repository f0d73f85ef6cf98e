-------------------------- MODULE SensorController --------------------------
(***************************************************************************)
(* The sensor controller: a state machine that is driven by messages of    *)
(* the application broker, over the requests of Sht4x.c, the interrupts    *)
(* of the I2C driver and of two timers, and the sensor itself.             *)
(*                                                                         *)
(* The time tick has a period of at least a second, everything it causes   *)
(* takes less than a twentieth of that.  So a tick finds the controller    *)
(* settled, unless BLE_SUBSYSTEM_READY has just made it read the serial    *)
(* number.  An interrupt handler is one step; so is the handler of a       *)
(* message.  Values and checksums are left out: of a response there is the *)
(* command that it answers.                                                *)
(***************************************************************************)
EXTENDS Naturals, Sequences

CONSTANTS
  MaxErrors,  \* MAX_CONSECUTIVE_ERRORS
  MaxFaults   \* bound on the transfers that go wrong

\* MAX_CONSECUTIVE_ERRORS is 3.  With 1, a wrong checksum of the serial number
\* would reset the sensor, and the next tick could come before the reset ends.
ASSUME SensorControllerAssumption ==
  /\ MaxErrors \in Nat /\ MaxErrors >= 2
  /\ MaxFaults \in Nat

VARIABLES
  \* SensorController.c
  state, consecutiveErrors, activeReminder,
  \* Sht4x.c: _command, _sht4xMessage.head.parameter1, _timer runs
  command, parameter1, sensorTimer,
  \* _resetTimer runs
  resetTimer,
  \* I2c3.c: _operationCompleteCb, and the transfer on the bus
  callback, transfer,
  \* the sensor: command whose result it holds, and whether it is measured
  result, resultReady,
  \* queue of the application broker
  messages,
  \* "no", or what stopped the program
  halted,
  \* BLE_SUBSYSTEM_READY was published
  bleReady,
  \* a tick may come though the controller is not settled
  tickMayOverlap,
  \* history: faults so far, a completion was lost or a tick did overlap, the
  \* general call reset was sent
  faults, irregular, resetSent

sensorVars == <<result, resultReady>>
i2cVars == <<callback, transfer>>
historyVars == <<faults, irregular, resetSent>>
vars == <<state, consecutiveErrors, activeReminder, command, parameter1,
          sensorTimer, resetTimer, i2cVars, sensorVars, messages, halted,
          bleReady, tickMayOverlap, historyVars>>

Command == {"serial", "measurement"}
None == "none"

Message ==
  [id : {"SENSOR_DATA"}, parameter1 : Command \cup {None}, answers : Command]
  \cup [id : {"BLE_SUBSYSTEM_READY", "TIME_ELAPSED", "GENERAL_CALL_RESET",
              "REQUEST_SENT", "SENSOR_READY", "SENSOR_ERROR"}]

TypeOK ==
  /\ state \in {"Idle", "Started", "Restarted", "Reading", "Error"}
  /\ consecutiveErrors \in 0 .. MaxErrors
  /\ activeReminder \in BOOLEAN
  /\ command \in Command \cup {None}
  /\ parameter1 \in Command \cup {None}
  /\ sensorTimer \in BOOLEAN
  /\ resetTimer \in BOOLEAN
  /\ callback \in {None, "RequestCompleted", "ResponseReceived",
                   "GeneralCallResetSentCb"}
  /\ transfer \in {None, "request", "response", "reset"}
  /\ result \in Command \cup {None}
  /\ resultReady \in BOOLEAN
  /\ messages \in Seq(Message)
  /\ halted \in {"no", "assertion", "error"}
  /\ bleReady \in BOOLEAN
  /\ tickMayOverlap \in BOOLEAN
  /\ faults \in 0 .. MaxFaults
  /\ irregular \in BOOLEAN
  /\ resetSent \in BOOLEAN

-----------------------------------------------------------------------------
(* Queue and I2C driver.                                                   *)

Signal(id) == [id |-> id]

IsWaiting(id) == \E i \in DOMAIN messages : messages[i].id = id

IsNext(id) == halted = "no" /\ messages # <<>> /\ Head(messages).id = id

Dispatch(id) == IsNext(id) /\ messages' = Tail(messages)

\* I2c3_Write and I2c3_Read.
StartTransfer(newTransfer, newCallback) ==
  IF callback = None
    THEN /\ callback' = newCallback
         /\ transfer' = newTransfer
         /\ halted' = "no"
    ELSE /\ halted' = "assertion"
         /\ UNCHANGED i2cVars

StartRequest(newCommand) ==
  /\ command' = newCommand
  /\ StartTransfer("request", "RequestCompleted")

ReadRequestData == StartTransfer("response", "ResponseReceived")

-----------------------------------------------------------------------------
(* Interrupts of the I2C driver.                                           *)

\* Mutant: the message keeps the parameter of the request before.
RequestCompletedOnce ==
  /\ halted = "no"
  /\ transfer = "request"
  /\ transfer' = None
  /\ callback' = None
  /\ result' = command
  /\ resultReady' = FALSE
  /\ parameter1' = IF parameter1 = None THEN command ELSE parameter1
  /\ messages' = Append(messages, Signal("REQUEST_SENT"))
  /\ UNCHANGED <<state, consecutiveErrors, activeReminder, command, sensorTimer,
                 resetTimer, halted, bleReady, tickMayOverlap, historyVars>>

\* HAL_I2C_MasterTxCpltCallback for a request; the sensor starts to measure.
RequestCompleted ==
  /\ halted = "no"
  /\ transfer = "request"
  /\ transfer' = None
  /\ callback' = None
  /\ result' = command
  /\ resultReady' = FALSE
  /\ parameter1' = command
  /\ messages' = Append(messages, Signal("REQUEST_SENT"))
  /\ UNCHANGED <<state, consecutiveErrors, activeReminder, command, sensorTimer,
                 resetTimer, halted, bleReady, tickMayOverlap, historyVars>>

\* HAL_I2C_MasterRxCpltCallback; the checksums are right.
ResponseReceived ==
  /\ halted = "no"
  /\ transfer = "response"
  /\ result # None /\ resultReady
  /\ transfer' = None
  /\ callback' = None
  /\ result' = None
  /\ messages' = Append(messages, [id |-> "SENSOR_DATA",
                                   parameter1 |-> parameter1,
                                   answers |-> result])
  /\ UNCHANGED <<state, consecutiveErrors, activeReminder, command, parameter1,
                 sensorTimer, resetTimer, resultReady, halted, bleReady,
                 tickMayOverlap, historyVars>>

\* HAL_I2C_MasterTxCpltCallback for the general call reset.
GeneralCallResetSent ==
  /\ halted = "no"
  /\ transfer = "reset"
  /\ transfer' = None
  /\ callback' = None
  /\ result' = None
  /\ messages' = Append(messages, Signal("GENERAL_CALL_RESET"))
  /\ resetSent' = TRUE
  /\ UNCHANGED <<state, consecutiveErrors, activeReminder, command, parameter1,
                 sensorTimer, resetTimer, resultReady, halted, bleReady,
                 tickMayOverlap, faults, irregular>>

\* Mutant: the callback is kept.
ErrorCallbackKept ==
  /\ transfer' = None
  /\ UNCHANGED <<state, consecutiveErrors, activeReminder, command, parameter1,
                 sensorTimer, resetTimer, callback, messages, halted, bleReady,
                 tickMayOverlap, resetSent>>

\* HAL_I2C_ErrorCallback; nobody listens to the error it publishes.
ErrorCallback ==
  /\ transfer' = None
  /\ callback' = None
  /\ UNCHANGED <<state, consecutiveErrors, activeReminder, command, parameter1,
                 sensorTimer, resetTimer, messages, halted, bleReady,
                 tickMayOverlap, resetSent>>

\* The sensor does not acknowledge a read as long as it has no result.
ReadRefused ==
  /\ halted = "no"
  /\ transfer = "response"
  /\ result = None \/ ~resultReady
  /\ ErrorCallback
  /\ UNCHANGED <<sensorVars, faults, irregular>>

Fault == halted = "no" /\ faults < MaxFaults /\ faults' = faults + 1

TransferFails ==
  /\ Fault
  /\ transfer # None
  /\ ErrorCallback
  /\ UNCHANGED <<sensorVars, irregular>>

\* No interrupt reports the end of the transfer.
CompletionLost ==
  /\ Fault
  /\ transfer # None
  /\ transfer' = None
  /\ irregular' = TRUE
  /\ UNCHANGED <<state, consecutiveErrors, activeReminder, command, parameter1,
                 sensorTimer, resetTimer, callback, sensorVars, messages, halted,
                 bleReady, tickMayOverlap, resetSent>>

\* ResponseReceived; a checksum is wrong.
ResponseCorrupted ==
  /\ Fault
  /\ transfer = "response"
  /\ result # None /\ resultReady
  /\ transfer' = None
  /\ callback' = None
  /\ result' = None
  /\ messages' = Append(messages, Signal("SENSOR_ERROR"))
  /\ UNCHANGED <<state, consecutiveErrors, activeReminder, command, parameter1,
                 sensorTimer, resetTimer, resultReady, halted, bleReady,
                 tickMayOverlap, irregular, resetSent>>

-----------------------------------------------------------------------------
(* Sensor, timers and time ticks.                                          *)

ResultBecomesReady ==
  /\ ~resultReady
  /\ resultReady' = TRUE
  /\ UNCHANGED <<state, consecutiveErrors, activeReminder, command, parameter1,
                 sensorTimer, resetTimer, i2cVars, result, messages, halted,
                 bleReady, tickMayOverlap, historyVars>>

\* SensorReadyCb: the timer takes longer than the sensor.
SensorReadyCb ==
  /\ halted = "no"
  /\ sensorTimer /\ resultReady
  /\ sensorTimer' = FALSE
  /\ messages' = Append(messages, Signal("SENSOR_READY"))
  /\ UNCHANGED <<state, consecutiveErrors, activeReminder, command, parameter1,
                 resetTimer, i2cVars, sensorVars, halted, bleReady,
                 tickMayOverlap, historyVars>>

\* SetIdleState, from the interrupt of the reset timer.
SetIdleState ==
  /\ halted = "no"
  /\ resetTimer
  /\ resetTimer' = FALSE
  /\ activeReminder' = FALSE
  /\ IF activeReminder
       THEN state' = "Started" /\ StartRequest("serial")
       ELSE state' = "Idle" /\ UNCHANGED <<command, i2cVars, halted>>
  /\ UNCHANGED <<consecutiveErrors, parameter1, sensorTimer, sensorVars, messages,
                 bleReady, tickMayOverlap, historyVars>>

Settled ==
  /\ transfer = None /\ resultReady
  /\ ~sensorTimer /\ ~resetTimer
  /\ \A i \in DOMAIN messages : messages[i].id = "BLE_SUBSYSTEM_READY"

\* Presentation.c, PublishAppTimeTickCb
TimeTick ==
  /\ halted = "no"
  /\ Settled \/ tickMayOverlap
  /\ messages' = Append(messages, Signal("TIME_ELAPSED"))
  /\ tickMayOverlap' = FALSE
  /\ irregular' = (irregular \/ ~Settled)
  /\ UNCHANGED <<state, consecutiveErrors, activeReminder, command, parameter1,
                 sensorTimer, resetTimer, i2cVars, sensorVars, halted, bleReady,
                 faults, resetSent>>

BleSubsystemReady ==
  /\ halted = "no"
  /\ ~bleReady
  /\ bleReady' = TRUE
  /\ messages' = Append(messages, Signal("BLE_SUBSYSTEM_READY"))
  /\ UNCHANGED <<state, consecutiveErrors, activeReminder, command, parameter1,
                 sensorTimer, resetTimer, i2cVars, sensorVars, halted,
                 tickMayOverlap, historyVars>>

-----------------------------------------------------------------------------
(* Message handlers of SensorController.c.                                 *)

\* What no handler of a message changes.
HandlerFrame ==
  UNCHANGED <<parameter1, resetTimer, resultReady, bleReady, historyVars>>

IdleBleReady ==
  /\ state = "Idle"
  /\ Dispatch("BLE_SUBSYSTEM_READY")
  /\ StartRequest("serial")
  /\ state' = "Started"
  /\ tickMayOverlap' = ~IsWaiting("TIME_ELAPSED")
  /\ UNCHANGED <<consecutiveErrors, activeReminder, sensorTimer, result>>
  /\ HandlerFrame

IdleTimeElapsed ==
  /\ state = "Idle"
  /\ Dispatch("TIME_ELAPSED")
  /\ StartRequest("measurement")
  /\ state' = "Started"
  /\ UNCHANGED <<consecutiveErrors, activeReminder, sensorTimer, result,
                 tickMayOverlap>>
  /\ HandlerFrame

StartedRequestSent ==
  /\ state = "Started"
  /\ Dispatch("REQUEST_SENT")
  /\ consecutiveErrors' = 0
  /\ sensorTimer' = TRUE
  /\ UNCHANGED <<state, activeReminder, command, i2cVars, result, halted,
                 tickMayOverlap>>
  /\ HandlerFrame

StartedSensorReady ==
  /\ state = "Started"
  /\ Dispatch("SENSOR_READY")
  /\ ReadRequestData
  /\ state' = "Reading"
  /\ UNCHANGED <<consecutiveErrors, activeReminder, command, sensorTimer, result,
                 tickMayOverlap>>
  /\ HandlerFrame

\* Mutant: the tick is ignored.
RestartedIgnoresTime ==
  /\ state = "Restarted"
  /\ Dispatch("TIME_ELAPSED")
  /\ UNCHANGED <<state, consecutiveErrors, activeReminder, command, i2cVars,
                 halted, sensorTimer, result, tickMayOverlap>>
  /\ HandlerFrame

RestartedTimeElapsed ==
  /\ state = "Restarted"
  /\ Dispatch("TIME_ELAPSED")
  /\ ReadRequestData
  /\ state' = "Reading"
  /\ UNCHANGED <<consecutiveErrors, activeReminder, command, sensorTimer, result,
                 tickMayOverlap>>
  /\ HandlerFrame

ReadingSensorData ==
  /\ state = "Reading"
  /\ Dispatch("SENSOR_DATA")
  /\ consecutiveErrors' = 0
  /\ StartRequest("measurement")
  /\ state' = "Restarted"
  /\ UNCHANGED <<activeReminder, sensorTimer, result, tickMayOverlap>>
  /\ HandlerFrame

MustReset(errors) == errors >= MaxErrors

\* HandleError; the sensor may have got the request that is given up.
HandleError ==
  /\ \/ state = "Reading" /\ Dispatch("SENSOR_ERROR")
     \/ state \in {"Started", "Reading"} /\ Dispatch("TIME_ELAPSED")
  /\ activeReminder' = FALSE
  /\ consecutiveErrors' = consecutiveErrors + 1
  /\ IF MustReset(consecutiveErrors')
       THEN /\ state' = "Error"
            /\ callback' = "GeneralCallResetSentCb"
            /\ transfer' = "reset"
            /\ resetSent' = FALSE
       ELSE /\ state' = "Idle"
            /\ callback' = None
            /\ transfer' = None
            /\ UNCHANGED resetSent
  /\ result' \in {result} \cup (IF transfer = "request" THEN {command} ELSE {})
  /\ UNCHANGED <<command, parameter1, sensorTimer, resetTimer, resultReady,
                 halted, bleReady, tickMayOverlap, faults, irregular>>

\* Mutant: the timer is not started.
ErrorIgnoresGeneralCallReset ==
  /\ state = "Error"
  /\ Dispatch("GENERAL_CALL_RESET")
  /\ consecutiveErrors' = 0
  /\ UNCHANGED <<state, activeReminder, command, parameter1, sensorTimer,
                 resetTimer, i2cVars, sensorVars, halted, bleReady,
                 tickMayOverlap, historyVars>>

ErrorGeneralCallReset ==
  /\ state = "Error"
  /\ Dispatch("GENERAL_CALL_RESET")
  /\ consecutiveErrors' = 0
  /\ resetTimer' = TRUE
  /\ UNCHANGED <<state, activeReminder, command, parameter1, sensorTimer, i2cVars,
                 sensorVars, halted, bleReady, tickMayOverlap, historyVars>>

\* The sensor does not answer: ErrorHandler_UnrecoverableError.
ErrorTimeElapsed ==
  /\ state = "Error"
  /\ Dispatch("TIME_ELAPSED")
  /\ halted' = "error"
  /\ UNCHANGED <<state, consecutiveErrors, activeReminder, command, i2cVars,
                 sensorTimer, result, tickMayOverlap>>
  /\ HandlerFrame

SetReminderIfNeeded ==
  /\ state \in {"Started", "Restarted", "Reading"}
  /\ Dispatch("BLE_SUBSYSTEM_READY")
  /\ activeReminder' = TRUE
  /\ UNCHANGED <<state, consecutiveErrors, command, i2cVars, halted, sensorTimer,
                 result, tickMayOverlap>>
  /\ HandlerFrame

Handled(id) ==
  CASE state = "Idle" -> id \in {"BLE_SUBSYSTEM_READY", "TIME_ELAPSED"}
    [] state = "Started" -> id \in {"BLE_SUBSYSTEM_READY", "TIME_ELAPSED",
                                   "REQUEST_SENT", "SENSOR_READY"}
    [] state = "Restarted" -> id \in {"BLE_SUBSYSTEM_READY", "TIME_ELAPSED"}
    [] state = "Reading" -> id \in {"BLE_SUBSYSTEM_READY", "TIME_ELAPSED",
                                   "SENSOR_DATA", "SENSOR_ERROR"}
    [] state = "Error" -> id \in {"GENERAL_CALL_RESET", "TIME_ELAPSED"}

IgnoreMessage ==
  /\ messages # <<>>
  /\ ~Handled(Head(messages).id)
  /\ Dispatch(Head(messages).id)
  /\ UNCHANGED <<state, consecutiveErrors, activeReminder, command, i2cVars,
                 halted, sensorTimer, result, tickMayOverlap>>
  /\ HandlerFrame

-----------------------------------------------------------------------------
(* Specification.                                                          *)

Init ==
  /\ state = "Idle"
  /\ consecutiveErrors = 0
  /\ activeReminder = FALSE
  /\ command = None
  /\ parameter1 = None
  /\ sensorTimer = FALSE
  /\ resetTimer = FALSE
  /\ callback = None
  /\ transfer = None
  /\ result = None
  /\ resultReady = TRUE
  /\ messages = <<>>
  /\ halted = "no"
  /\ bleReady = FALSE
  /\ tickMayOverlap = FALSE
  /\ faults = 0
  /\ irregular = FALSE
  /\ resetSent = FALSE

HandleMessage ==
  \/ IdleBleReady \/ IdleTimeElapsed
  \/ StartedRequestSent \/ StartedSensorReady
  \/ RestartedTimeElapsed
  \/ ReadingSensorData
  \/ HandleError
  \/ ErrorGeneralCallReset \/ ErrorTimeElapsed
  \/ SetReminderIfNeeded
  \/ IgnoreMessage

TransferEnds ==
  RequestCompleted \/ ResponseReceived \/ GeneralCallResetSent \/ ReadRefused

Next ==
  \/ HandleMessage
  \/ TransferEnds
  \/ TransferFails \/ CompletionLost \/ ResponseCorrupted
  \/ ResultBecomesReady
  \/ SensorReadyCb \/ SetIdleState
  \/ TimeTick
  \/ BleSubsystemReady

Spec == Init /\ [][Next]_vars

\* Broker, bus, sensor and timers go on, and ticks come.
Fairness ==
  /\ WF_vars(HandleMessage)
  /\ WF_vars(TransferEnds)
  /\ WF_vars(ResultBecomesReady)
  /\ WF_vars(SensorReadyCb)
  /\ WF_vars(SetIdleState)
  /\ WF_vars(TimeTick)

FairSpec == Spec /\ Fairness

-----------------------------------------------------------------------------
(* Properties.                                                             *)

(***************************************************************************)
(* A response is labelled with the command that the sensor answers:        *)
(* _command, the label in the message template and the sensor are set by   *)
(* different interrupts, and errors may come between any two of them.      *)
(***************************************************************************)
DataMatchesCommand ==
  \A i \in DOMAIN messages :
    messages[i].id = "SENSOR_DATA" =>
      messages[i].parameter1 = messages[i].answers

(***************************************************************************)
(* The controller gives up only when the general call reset did not reach  *)
(* the sensor: after a reset that was sent it is idle before the next tick *)
(* comes, and counts the errors anew.                                      *)
(***************************************************************************)
GivesUpOnlyWithoutReset == halted = "error" => ~resetSent

(***************************************************************************)
(* Transfers that fail, are refused or bring wrong checksums never lead to *)
(* the assertion of the I2C driver; a completion that is lost, or a tick   *)
(* that overlaps the reading of the serial number, may.                    *)
(***************************************************************************)
AssertsOnlyIfIrregular == halted = "assertion" => irregular

(***************************************************************************)
(* After the last fault measurements arrive again and again, unless the    *)
(* program was stopped.                                                    *)
(***************************************************************************)
MeasurementsContinue ==
  <>(halted # "no") \/ []<>(IsNext("SENSOR_DATA") /\ state = "Reading")

(***************************************************************************)
(* I2c3.c:114 asserts that no transfer is under way when another one is    *)
(* started.  Without any fault this should hold.                           *)
(***************************************************************************)
TransfersDoNotOverlap == halted # "assertion"

=============================================================================
