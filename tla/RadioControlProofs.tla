------------------------- MODULE RadioControlProofs -------------------------
(***************************************************************************)
(* What the application knows of the radio agrees with CPU2, a radio that  *)
(* is off is silent, the symbol on the display follows it, and advertising *)
(* stays connectable: proved for any handles and bounds.                   *)
(***************************************************************************)
EXTENDS RadioControl, SequenceTheorems, TLAPS

Event(id, handle) == [id |-> id, handle |-> handle]

\* Status and CPU2, with the events that have not been handled yet.
IdleInv ==
  /\ deviceConnectionStatus = "idle"
  /\ connectionHandle = NoHandle
  /\ advertising = NotAdvertising
  /\ links = {}
  /\ events = <<>>
  /\ command.name \in {"none", "cancel"}

AdvertisingInv ==
  /\ deviceConnectionStatus = "advertising"
  /\ connectionHandle = NoHandle
  /\ links = {}
  /\ events = <<>>
  /\ advertising = IF command.name = "start" THEN NotAdvertising
                                             ELSE currentAdvertisementMode
  /\ command.name = "cancel" => command.then = "switchOff"

\* A connection was made, and perhaps lost, and the status says advertising.
ConnectingInv ==
  /\ deviceConnectionStatus = "advertising"
  /\ connectionHandle = NoHandle
  /\ advertising = NotAdvertising
  /\ \E handle \in Handle :
       \/ links = {handle} /\ events = <<Event("connected", handle)>>
       \/ /\ links = {}
          /\ events = <<Event("connected", handle), Event("disconnected", handle)>>
  /\ command.name = "cancel" => command.then = "switchOff"
  /\ command.then # "switchOn"
  /\ bleState = "default"

ConnectedInv ==
  /\ deviceConnectionStatus = "connected"
  /\ advertising = NotAdvertising
  /\ connectionHandle \in Handle
  /\ \/ links = {connectionHandle} /\ events = <<>>
     \/ links = {} /\ events = <<Event("disconnected", connectionHandle)>>
  /\ command = NoCommand
  /\ bleState = "default"

LinkInv == IdleInv \/ AdvertisingInv \/ ConnectingInv \/ ConnectedInv

\* The command that waits: what it asks for, and when the radio is off.
CommandInv ==
  /\ command.name = "none" => command = NoCommand
  /\ command.name \in {"stop", "start"} => command.mode.connectable
  /\ bleState = "default" => command.then # "switchOn"
  /\ bleState = "disabled" =>
       \/ deviceConnectionStatus = "idle" /\ command = NoCommand
       \/ /\ deviceConnectionStatus = "advertising"
          /\ command.name = "start"
          /\ command.then = "switchOn"

\* Modes that are, or will be, advertised are connectable.
ModeInv ==
  /\ bleState = "default" => currentAdvertisementMode.connectable
  /\ advertising # NotAdvertising => advertising.connectable

MessageInv ==
  \A i \in DOMAIN bleMessages :
    bleMessages[i].id = "START_ADVERTISE" => bleMessages[i].mode.connectable

RadioInv == LinkInv /\ CommandInv /\ ModeInv /\ MessageInv

IInv == TypeOK /\ (~ overtaken => RadioInv)

-----------------------------------------------------------------------------
(* Sequences and messages.                                                 *)

\* What a queue holds after a message was published.
LEMMA Appended ==
  ASSUME NEW S, NEW s \in Seq(S), NEW e \in S
  PROVE  /\ Append(s, e) \in Seq(S)
         /\ \A i \in DOMAIN Append(s, e) :
              Append(s, e)[i] = e \/ (i \in DOMAIN s /\ Append(s, e)[i] = s[i])
  <1>1. /\ Append(s, e) \in Seq(S)
        /\ Len(Append(s, e)) = Len(s) + 1
        /\ \A i \in 1 .. Len(s) : Append(s, e)[i] = s[i]
        /\ Append(s, e)[Len(s) + 1] = e
    BY AppendProperties
  <1>2. DOMAIN s = 1 .. Len(s) /\ DOMAIN Append(s, e) = 1 .. Len(s) + 1 /\ Len(s) \in Nat
    BY <1>1
  <1>3. ASSUME NEW i \in DOMAIN Append(s, e)
        PROVE  Append(s, e)[i] = e \/ (i \in DOMAIN s /\ Append(s, e)[i] = s[i])
    <2>1. CASE i = Len(s) + 1
      BY <1>1, <2>1
    <2>2. CASE i # Len(s) + 1
      <3>1. i \in 1 .. Len(s)
        BY <1>2, <1>3, <2>2
      <3> QED
        BY <1>1, <1>2, <3>1
    <2> QED
      BY <2>1, <2>2
  <1> QED
    BY <1>1, <1>3

\* What a queue holds after a message was taken.
LEMMA Taken ==
  ASSUME NEW S, NEW s \in Seq(S), s # <<>>
  PROVE  /\ Head(s) \in S
         /\ Head(s) = s[1]
         /\ 1 \in DOMAIN s
         /\ Tail(s) \in Seq(S)
         /\ \A i \in DOMAIN Tail(s) : i + 1 \in DOMAIN s /\ Tail(s)[i] = s[i + 1]
  BY HeadTailProperties

\* The messages that the code publishes have the right types.
LEMMA Messages ==
  /\ \A id \in {"BLE_SUBSYSTEM_ON", "BLE_SUBSYSTEM_OFF", "DISCONNECT"} :
       Signal(id) \in AppMessage
  /\ \A id \in {"SENSOR_DATA", "LONG_PRESS", "BLE_OFF"} : Signal(id) \in BleMessage
  /\ \A m \in BleMessage : m.id = "START_ADVERTISE" => m.mode \in Mode
  /\ \A m \in AppMessage : m.id = "READOUT_INTERVAL_CHANGE" => m.interval \in Interval
  /\ InitialMode \in Mode
  /\ NoCommand \in Command
  BY DEF Signal, AppMessage, BleMessage, InitialMode, Mode, Interval, NoCommand,
         Command

\* A message about radio or connection may be published.
LEMMA Published ==
  ASSUME NEW s \in Seq(AppMessage)
  PROVE  \A id \in {"BLE_SUBSYSTEM_ON", "BLE_SUBSYSTEM_OFF", "DISCONNECT"} :
           Append(s, Signal(id)) \in Seq(AppMessage)
  BY Messages, Appended

\* A changed readout interval is published with the right type.
LEMMA ReadoutIntervalTyped ==
  ASSUME NEW messages \in Seq(AppMessage), NEW interval \in Interval
  PROVE  WithReadoutInterval(messages, interval) \in Seq(AppMessage)
  <1>1. [id |-> "READOUT_INTERVAL_CHANGE", interval |-> interval] \in AppMessage
    BY DEF AppMessage
  <1> QED
    BY <1>1, Appended DEF WithReadoutInterval

\* Status and command of a request to advertise have the right types.
LEMMA RequestTyped ==
  ASSUME NEW status \in Status, NEW current \in Mode, NEW mode \in Mode,
         NEW then \in {"return", "switchOff", "switchOn", "restart"},
         AdvertiseRequest(status, current, mode, then)
  PROVE  /\ deviceConnectionStatus' \in Status
         /\ command' \in Command
         /\ command'.name \in {"stop", "start"} => command'.mode \in Mode
         /\ command'.name = "start" => deviceConnectionStatus' = "advertising"
  <1>1. CASE status = "advertising" /\ current # mode
    BY <1>1 DEF AdvertiseRequest, Command, Status
  <1>2. CASE status = "idle"
    BY <1>2 DEF AdvertiseRequest, Command, Status
  <1>3. CASE ~ (status = "advertising" /\ current # mode) /\ status # "idle"
    BY <1>3, Messages DEF AdvertiseRequest, Command, Status, NoCommand
  <1> QED
    BY <1>1, <1>2, <1>3

-----------------------------------------------------------------------------
(* Types.                                                                  *)

\* Every step keeps the types.
LEMMA TypeNext ==
  ASSUME TypeOK, [Next]_vars
  PROVE  TypeOK'
  <1> USE Messages DEF TypeOK
  <1>1. CASE UNCHANGED vars
    BY <1>1 DEF vars, cpu2Vars, gapVars, batteryVars, presentationVars, historyVars
  <1>2. ASSUME NEW handle \in Handle, Connects(handle)
        PROVE  TypeOK'
    <2>1. [id |-> "connected", handle |-> handle]
            \in [id : {"connected", "disconnected"}, handle : Handle]
      OBVIOUS
    <2> QED
      BY <1>2, <2>1, Appended DEF Connects, gapVars, batteryVars,
         presentationVars, historyVars
  <1>3. ASSUME NEW handle \in Handle, Disconnects(handle)
        PROVE  TypeOK'
    <2>1. [id |-> "disconnected", handle |-> handle]
            \in [id : {"connected", "disconnected"}, handle : Handle]
      OBVIOUS
    <2> QED
      BY <1>3, <2>1, Appended DEF Disconnects, gapVars, batteryVars,
         presentationVars, historyVars
  <1>4. CASE StopCompletes
    BY <1>4 DEF StopCompletes, Status, Command, batteryVars, presentationVars,
       historyVars
  <1>5. CASE StartCompletes
    <2>1. appMessages' \in Seq(AppMessage) /\ bleState' \in {"default", "disabled"}
      BY <1>5, Published DEF StartCompletes, EnableBle
    <2>2. /\ advertising' \in Mode \cup {NotAdvertising}
          /\ currentAdvertisementMode' \in Mode
          /\ overtaken' \in BOOLEAN
      BY <1>5 DEF StartCompletes
    <2> QED
      BY <1>5, <2>1, <2>2 DEF StartCompletes, NoCommand, batteryVars,
         presentationVars
  <1>6. CASE CancelCompletes
    <2> DEFINE after == AfterCancel(advertising # NotAdvertising)
    <2>1. after.status \in Status /\ after.mode \in Mode
      BY DEF AfterCancel, Status, Mode
    <2>2. CASE command.then = "switchOff"
      <3>1. /\ deviceConnectionStatus' = after.status
            /\ command' = NoCommand
            /\ SwitchedOff(after.status)
        BY <1>6, <2>2 DEF CancelCompletes
      <3>2. /\ appMessages' \in Seq(AppMessage)
            /\ bleState' \in {"default", "disabled"}
            /\ refused' \in BOOLEAN
        BY <3>1, Published DEF SwitchedOff
      <3> QED
        BY <1>6, <2>1, <3>1, <3>2 DEF CancelCompletes, NoCommand, batteryVars,
           presentationVars
    <2>3. CASE command.then = "restart"
      <3>1. /\ AdvertiseRequest(after.status, after.mode, after.mode, "return")
            /\ UNCHANGED <<bleState, appMessages, refused>>
        BY <1>6, <2>3 DEF CancelCompletes
      <3>2. /\ deviceConnectionStatus' \in Status
            /\ command' \in Command
            /\ command'.name \in {"stop", "start"} => command'.mode \in Mode
            /\ command'.name = "start" => deviceConnectionStatus' = "advertising"
        BY <2>1, <3>1, RequestTyped
      <3> QED
        BY <1>6, <2>1, <3>1, <3>2 DEF CancelCompletes, batteryVars,
           presentationVars
    <2> QED
      BY <1>6, <2>2, <2>3 DEF CancelCompletes
  <1>7. CASE ConnectionComplete
    <2>1. /\ Head(events) \in [id : {"connected", "disconnected"}, handle : Handle]
          /\ events' \in Seq([id : {"connected", "disconnected"}, handle : Handle])
      BY <1>7, Taken DEF ConnectionComplete, NextEvent
    <2>2. deviceConnectionStatus' = "connected" /\ command' = command
      BY <1>7 DEF ConnectionComplete
    <2>3. command.name = "none"
      BY <1>7 DEF ConnectionComplete, NextEvent, NoCommandWaits
    <2> QED
      BY <1>7, <2>1, <2>2, <2>3 DEF ConnectionComplete, Status, batteryVars,
         presentationVars, historyVars
  <1>8. CASE DisconnectionComplete
    <2>1. events' \in Seq([id : {"connected", "disconnected"}, handle : Handle])
      BY <1>8, Taken DEF DisconnectionComplete, NextEvent
    <2>2. appMessages' \in Seq(AppMessage)
      BY <1>8, Published DEF DisconnectionComplete
    <2>3. /\ command' \in Command
          /\ command'.name \notin {"stop", "start"}
      BY <1>8 DEF DisconnectionComplete, Command, NoCommand
    <2> QED
      BY <1>8, <2>1, <2>2, <2>3 DEF DisconnectionComplete, Status, batteryVars,
         presentationVars, historyVars
  <1>9. CASE SensorData
    <2>1. /\ deviceConnectionStatus' \in Status
          /\ command' \in Command
          /\ command'.name \in {"stop", "start"} => command'.mode \in Mode
          /\ command'.name = "start" => deviceConnectionStatus' = "advertising"
      BY <1>9, RequestTyped DEF SensorData
    <2>2. bleMessages' \in Seq(BleMessage)
      BY <1>9, Taken DEF SensorData, DispatchBle
    <2> QED
      BY <1>9, <2>1, <2>2 DEF SensorData, bleTaskUnchanged, cpu2Vars,
         presentationVars
  <1>10. CASE StartAdvertise
    <2>1. Head(bleMessages).mode \in Mode /\ bleMessages' \in Seq(BleMessage)
      BY <1>10, Taken DEF StartAdvertise, DispatchBle
    <2>2. /\ deviceConnectionStatus' \in Status
          /\ command' \in Command
          /\ command'.name \in {"stop", "start"} => command'.mode \in Mode
          /\ command'.name = "start" => deviceConnectionStatus' = "advertising"
      BY <1>10, <2>1, RequestTyped DEF StartAdvertise
    <2> QED
      BY <1>10, <2>1, <2>2 DEF StartAdvertise, bleTaskUnchanged, cpu2Vars,
         presentationVars
  <1>11. ASSUME NEW id \in {"BLE_OFF", "LONG_PRESS"}, SwitchBleOff(id)
         PROVE  TypeOK'
    <2>1. bleMessages' \in Seq(BleMessage)
      BY <1>11, Taken DEF SwitchBleOff, DispatchBle
    <2>2. /\ appMessages' \in Seq(AppMessage)
          /\ bleState' \in {"default", "disabled"}
          /\ refused' \in BOOLEAN
      BY <1>11, Published DEF SwitchBleOff, SwitchedOff
    <2>3. /\ command' \in Command
          /\ command'.name \notin {"stop", "start"}
      BY <1>11 DEF SwitchBleOff, Command, NoCommand, DispatchBle, NoCommandWaits
    <2>4. criticalHandled' \in BOOLEAN
      BY <1>11 DEF SwitchBleOff, IsCriticalOff
    <2> QED
      BY <1>11, <2>1, <2>2, <2>3, <2>4 DEF SwitchBleOff, bleTaskUnchanged,
         cpu2Vars, presentationVars
  <1>12. CASE SwitchBleOn
    <2>1. /\ deviceConnectionStatus' \in Status
          /\ command' \in Command
          /\ command'.name \in {"stop", "start"} => command'.mode \in Mode
          /\ command'.name = "start" => deviceConnectionStatus' = "advertising"
      BY <1>12, RequestTyped DEF SwitchBleOn
    <2>2. bleMessages' \in Seq(BleMessage)
      BY <1>12, Taken DEF SwitchBleOn, DispatchBle
    <2>3. /\ appMessages' \in Seq(AppMessage)
          /\ bleState' \in {"default", "disabled"}
      BY <1>12, Published DEF SwitchBleOn
    <2>4. automaticBleOff' \in BOOLEAN
      BY <1>12 DEF SwitchBleOn
    <2> QED
      BY <1>12, <2>1, <2>2, <2>3, <2>4 DEF SwitchBleOn, bleTaskUnchanged,
         cpu2Vars, presentationVars
  <1>13. CASE IgnoreWhileDisabled
    <2>1. bleMessages' \in Seq(BleMessage)
      BY <1>13, Taken DEF IgnoreWhileDisabled, DispatchBle
    <2>2. criticalHandled' \in BOOLEAN
      BY <1>13 DEF IgnoreWhileDisabled, IsCriticalOff
    <2> QED
      BY <1>13, <2>1, <2>2 DEF IgnoreWhileDisabled, bleTaskUnchanged, cpu2Vars,
         presentationVars
  <1>14. CASE TimeElapsed
    <2>1. appMessages' \in Seq(AppMessage)
      BY <1>14, ReadoutIntervalTyped DEF TimeElapsed, Interval
    <2> QED
      BY <1>14, <2>1 DEF TimeElapsed, BridgeReceives, appTaskUnchanged, cpu2Vars,
         gapVars, batteryVars, presentationVars, historyVars
  <1>15. CASE NewSensorData
    BY <1>15, Appended DEF NewSensorData, appTaskUnchanged, cpu2Vars, gapVars,
       batteryVars, presentationVars, historyVars
  <1>16. CASE LongPress
    <2>1. appMessages' \in Seq(AppMessage)
      BY <1>16, ReadoutIntervalTyped DEF LongPress, Interval
    <2>2. bleMessages' \in Seq(BleMessage)
      BY <1>16, Appended DEF LongPress
    <2> QED
      BY <1>16, <2>1, <2>2 DEF LongPress, appTaskUnchanged, cpu2Vars, gapVars,
         batteryVars, presentationVars, historyVars
  <1>17. ASSUME NEW level \in AppState \ {"undefined"}, BatteryStateChange(level)
         PROVE  TypeOK'
    <2>1. bleMessages' \in Seq(BleMessage)
      BY <1>17, Appended DEF BatteryStateChange
    <2> QED
      BY <1>17, <2>1 DEF BatteryStateChange, appTaskUnchanged, cpu2Vars, gapVars,
         presentationVars, historyVars
  <1>18. CASE ReadoutIntervalChange
    <2>1. /\ appMessages' \in Seq(AppMessage)
          /\ timeStep' \in Interval
      BY <1>18, Taken DEF ReadoutIntervalChange, DispatchApp
    <2>2. [id |-> "START_ADVERTISE",
           mode |-> [currentAdvertisementMode EXCEPT !.interval = timeStep']]
             \in BleMessage
      BY <2>1 DEF BleMessage, Mode
    <2>3. bleMessages' \in Seq(BleMessage)
      BY <1>18, <2>2, Appended DEF ReadoutIntervalChange
    <2> QED
      BY <1>18, <2>1, <2>3 DEF ReadoutIntervalChange, appTaskUnchanged, cpu2Vars,
         gapVars, batteryVars, historyVars
  <1>19. CASE BleSubsystemChange
    BY <1>19, Taken DEF BleSubsystemChange, DispatchApp, appTaskUnchanged,
       cpu2Vars, gapVars, batteryVars, historyVars
  <1>20. CASE Disconnected
    <2>1. appMessages' \in Seq(AppMessage)
      BY <1>20, Taken, ReadoutIntervalTyped DEF Disconnected, DispatchApp, Interval
    <2> QED
      BY <1>20, <2>1 DEF Disconnected, appTaskUnchanged, cpu2Vars, gapVars,
         batteryVars, presentationVars, historyVars
  <1> QED
    BY <1>1, <1>2, <1>3, <1>4, <1>5, <1>6, <1>7, <1>8, <1>9, <1>10, <1>11,
       <1>12, <1>13, <1>14, <1>15, <1>16, <1>17, <1>18, <1>19, <1>20
    DEF Next, EventTask, BleMessageTask, CommandCompletes, AppTask, Outside

-----------------------------------------------------------------------------
(* Radio.                                                                  *)

radioVars == <<cpu2Vars, gapVars, connectionHandle, bleState, command>>

\* One or two events.
LEMMA Tuples ==
  ASSUME NEW S, NEW a \in S, NEW b \in S
  PROVE  /\ <<a>> # <<>> /\ <<a, b>> # <<>>
         /\ Head(<<a>>) = a /\ Tail(<<a>>) = <<>>
         /\ Head(<<a, b>>) = a /\ Tail(<<a, b>>) = <<b>>
         /\ Append(<<>>, a) = <<a>> /\ Append(<<a>>, b) = <<a, b>>
  <1>1. <<a>> # <<>> /\ <<a, b>> # <<>>
    OBVIOUS
  <1>2. Head(<<a>>) = a /\ Head(<<a, b>>) = a
    OBVIOUS
  <1>3. Tail(<<a>>) = <<>>
    OBVIOUS
  <1>4. Tail(<<a, b>>) = <<b>>
    OBVIOUS
  <1>5. Append(<<>>, a) = <<a>>
    OBVIOUS
  <1>6. Append(<<a>>, b) = <<a, b>>
    <2>1. <<a>> \in Seq(S) /\ <<a, b>> \in Seq(S)
      OBVIOUS
    <2>2. Append(<<a>>, b) \in Seq(S) /\ Len(Append(<<a>>, b)) = 2
      BY <2>1, AppendProperties
    <2>3. Append(<<a>>, b)[1] = a /\ Append(<<a>>, b)[2] = b
      BY <2>1, AppendProperties
    <2>4. ASSUME NEW i \in 1 .. Len(Append(<<a>>, b))
          PROVE  Append(<<a>>, b)[i] = <<a, b>>[i]
      <3>1. i = 1 \/ i = 2
        BY <2>2
      <3> QED
        BY <2>3, <3>1
    <2>5. Len(<<a, b>>) = 2
      OBVIOUS
    <2> QED
      BY <2>1, <2>2, <2>4, <2>5, SeqEqual
  <1> QED
    BY <1>1, <1>2, <1>3, <1>4, <1>5, <1>6

\* A mode can be told from NotAdvertising.
LEMMA ModeAdvertises == \A mode \in Mode : mode # NotAdvertising
  BY DEF Mode, Interval, NotAdvertising

\* Only the queue to the BLE side changes.
LEMMA RadioUnchanged ==
  ASSUME LinkInv, CommandInv, ModeInv, UNCHANGED radioVars
  PROVE  LinkInv' /\ CommandInv' /\ ModeInv'
  BY DEF LinkInv, IdleInv, AdvertisingInv, ConnectingInv, ConnectedInv,
     CommandInv, ModeInv, radioVars, cpu2Vars, gapVars

\* A message that is no request to advertise is published.
LEMMA MessagePublished ==
  ASSUME TypeOK, MessageInv, NEW m \in BleMessage,
         m.id = "START_ADVERTISE" => m.mode.connectable,
         bleMessages' = Append(bleMessages, m)
  PROVE  MessageInv'
  <1>1. \A i \in DOMAIN bleMessages' :
          bleMessages'[i] = m \/ (i \in DOMAIN bleMessages /\ bleMessages'[i] = bleMessages[i])
    BY Appended DEF TypeOK
  <1> QED
    BY <1>1 DEF MessageInv

\* A message is taken.
LEMMA MessageTaken ==
  ASSUME TypeOK, MessageInv, NEW id, DispatchBle(id)
  PROVE  /\ MessageInv'
         /\ Head(bleMessages) \in BleMessage
         /\ Head(bleMessages).id = id
         /\ id = "START_ADVERTISE" => Head(bleMessages).mode.connectable
         /\ command.name = "none"
  <1>1. /\ Head(bleMessages) \in BleMessage
        /\ Head(bleMessages) = bleMessages[1]
        /\ 1 \in DOMAIN bleMessages
        /\ \A i \in DOMAIN bleMessages' :
             i + 1 \in DOMAIN bleMessages /\ bleMessages'[i] = bleMessages[i + 1]
    BY Taken DEF TypeOK, DispatchBle
  <1> QED
    BY <1>1 DEF MessageInv, DispatchBle, NoCommandWaits

\* A request to advertise leaves status and CPU2 in agreement.
LEMMA RequestKeeps ==
  ASSUME TypeOK, LinkInv, CommandInv, ModeInv, command = NoCommand,
         NEW mode \in Mode, mode.connectable, NEW then \in {"return", "switchOn"},
         then = "switchOn" <=> bleState = "disabled",
         AdvertiseRequest(deviceConnectionStatus, currentAdvertisementMode, mode, then),
         UNCHANGED <<cpu2Vars, currentAdvertisementMode, connectionHandle, bleState>>
  PROVE  LinkInv' /\ CommandInv' /\ ModeInv'
  <1> USE DEF cpu2Vars
  <1>1. ModeInv'
    BY DEF ModeInv
  <1>2. CASE IdleInv
    <2>1. /\ deviceConnectionStatus' = "advertising"
          /\ command' = [name |-> "start", mode |-> mode, then |-> then]
      BY <1>2 DEF IdleInv, AdvertiseRequest
    <2>2. AdvertisingInv'
      BY <1>2, <2>1 DEF IdleInv, AdvertisingInv
    <2>3. CommandInv'
      BY <2>1 DEF CommandInv, TypeOK
    <2> QED
      BY <1>1, <2>2, <2>3 DEF LinkInv
  <1>3. ASSUME deviceConnectionStatus # "idle"
        PROVE  CommandInv' /\ then = "return" /\ bleState = "default"
    <2>1. then = "return" /\ bleState = "default"
      BY <1>3 DEF CommandInv, NoCommand, TypeOK
    <2>2. command' = NoCommand \/ command' = [name |-> "stop", mode |-> mode, then |-> then]
      BY <1>3 DEF AdvertiseRequest
    <2> QED
      BY <2>1, <2>2 DEF CommandInv, NoCommand
  <1>4. CASE AdvertisingInv
    <2>1. /\ deviceConnectionStatus' = "advertising"
          /\ command'.name \in {"none", "stop"}
      BY <1>4 DEF AdvertisingInv, AdvertiseRequest, NoCommand
    <2>2. AdvertisingInv'
      BY <1>4, <2>1 DEF AdvertisingInv, NoCommand
    <2> QED
      BY <1>1, <1>3, <1>4, <2>2 DEF LinkInv, AdvertisingInv
  <1>5. CASE ConnectingInv
    <2>1. /\ deviceConnectionStatus' = "advertising"
          /\ command'.name \in {"none", "stop"}
          /\ command'.then = "return"
      BY <1>3, <1>5 DEF ConnectingInv, AdvertiseRequest, NoCommand
    <2>2. ConnectingInv'
      BY <1>5, <2>1 DEF ConnectingInv
    <2> QED
      BY <1>1, <1>3, <1>5, <2>2 DEF LinkInv, ConnectingInv
  <1>6. CASE ConnectedInv
    <2>1. deviceConnectionStatus' = "connected" /\ command' = NoCommand
      BY <1>6 DEF ConnectedInv, AdvertiseRequest
    <2>2. ConnectedInv'
      BY <1>6, <2>1 DEF ConnectedInv
    <2> QED
      BY <1>1, <1>3, <1>6, <2>2 DEF LinkInv, ConnectedInv
  <1> QED
    BY <1>2, <1>4, <1>5, <1>6 DEF LinkInv

\* The queue of the BLE side does not change.
LEMMA MessagesUnchanged ==
  ASSUME MessageInv, UNCHANGED bleMessages
  PROVE  MessageInv'
  BY DEF MessageInv

\* A connection is made: only somebody who advertises is found.
LEMMA ConnectsKeeps ==
  ASSUME TypeOK, RadioInv, NEW handle \in Handle, Connects(handle)
  PROVE  LinkInv' /\ CommandInv' /\ ModeInv'
  <1> USE DEF RadioInv, Connects, gapVars, batteryVars, presentationVars, historyVars
  <1>1. AdvertisingInv /\ command.name # "start"
    BY ModeAdvertises DEF LinkInv, IdleInv, AdvertisingInv, ConnectingInv,
       ConnectedInv, NotAdvertising
  <1>2. bleState = "default" /\ command.then # "switchOn"
    BY <1>1 DEF CommandInv, AdvertisingInv, TypeOK
  <1>3. links' = {handle} /\ events' = <<Event("connected", handle)>>
    BY <1>1, Tuples DEF AdvertisingInv, Event
  <1>4. ConnectingInv'
    BY <1>1, <1>2, <1>3 DEF AdvertisingInv, ConnectingInv, Event
  <1>5. CommandInv' /\ ModeInv'
    BY DEF CommandInv, ModeInv
  <1> QED
    BY <1>4, <1>5 DEF LinkInv

\* A connection is lost.
LEMMA DisconnectsKeeps ==
  ASSUME TypeOK, RadioInv, NEW handle \in Handle, Disconnects(handle)
  PROVE  LinkInv' /\ CommandInv' /\ ModeInv'
  <1> USE DEF RadioInv, Disconnects, gapVars, batteryVars, presentationVars, historyVars
  <1>1. CommandInv' /\ ModeInv'
    BY DEF CommandInv, ModeInv
  <1>2. CASE ConnectingInv
    <2>1. links = {handle} /\ events = <<Event("connected", handle)>>
      BY <1>2 DEF ConnectingInv
    <2>2. /\ links' = {}
          /\ events' = <<Event("connected", handle), Event("disconnected", handle)>>
      <3>1. Event("connected", handle) \in {Event(id, handle) : id \in {"connected", "disconnected"}}
        OBVIOUS
      <3>2. Event("disconnected", handle) \in {Event(id, handle) : id \in {"connected", "disconnected"}}
        OBVIOUS
      <3> QED
        BY <2>1, <3>1, <3>2, Tuples DEF Event
    <2>3. ConnectingInv'
      BY <1>2, <2>2 DEF ConnectingInv, Event
    <2> QED
      BY <1>1, <2>3 DEF LinkInv
  <1>3. CASE ConnectedInv
    <2>1. links = {handle} /\ events = <<>> /\ handle = connectionHandle
      BY <1>3 DEF ConnectedInv
    <2>2. links' = {} /\ events' = <<Event("disconnected", handle)>>
      BY <2>1, Tuples DEF Event
    <2>3. ConnectedInv'
      BY <1>3, <2>1, <2>2 DEF ConnectedInv, Event
    <2> QED
      BY <1>1, <2>3 DEF LinkInv
  <1>4. CASE IdleInv \/ AdvertisingInv
    BY <1>4 DEF IdleInv, AdvertisingInv
  <1> QED
    BY <1>2, <1>3, <1>4 DEF LinkInv

\* CPU2 has stopped for a new mode.
LEMMA StopKeeps ==
  ASSUME TypeOK, RadioInv, StopCompletes
  PROVE  LinkInv' /\ CommandInv' /\ ModeInv'
  <1> USE DEF RadioInv, StopCompletes, batteryVars, presentationVars, historyVars
  <1>1. bleState = "default" /\ command.then # "switchOn"
    BY DEF CommandInv, NoCommand, TypeOK
  <1>2. command'.name = "start" /\ command'.mode = command.mode /\ command'.then = command.then
    BY DEF TypeOK, Command
  <1>3. CommandInv' /\ ModeInv'
    BY <1>1, <1>2 DEF CommandInv, ModeInv, NoCommand
  <1>4. CASE AdvertisingInv
    BY <1>2, <1>3, <1>4 DEF AdvertisingInv, LinkInv
  <1>5. CASE ConnectingInv
    <2>1. ConnectingInv'
      BY <1>1, <1>2, <1>5 DEF ConnectingInv
    <2> QED
      BY <1>3, <2>1 DEF LinkInv
  <1> QED
    BY <1>4, <1>5 DEF LinkInv, IdleInv, ConnectedInv, NoCommand

\* CPU2 was asked to advertise; if it had made a connection before and still
\* accepts, the request has overtaken the event.
LEMMA StartKeeps ==
  ASSUME TypeOK, RadioInv, StartCompletes, ~ overtaken'
  PROVE  LinkInv' /\ CommandInv' /\ ModeInv'
  <1> USE DEF RadioInv, StartCompletes
  <1>1. bleState' = "default" /\ command' = NoCommand
    BY DEF CommandInv, EnableBle, NoCommand, TypeOK
  <1>2. CommandInv'
    BY <1>1 DEF CommandInv, NoCommand
  <1>3. CASE AdvertisingInv
    <2>1. advertising' = command.mode /\ currentAdvertisementMode' = command.mode
      BY <1>3 DEF AdvertisingInv, StartRefused
    <2>2. AdvertisingInv'
      BY <1>1, <1>3, <2>1 DEF AdvertisingInv, NoCommand
    <2>3. ModeInv'
      BY <2>1 DEF ModeInv, CommandInv
    <2> QED
      BY <1>2, <2>2, <2>3 DEF LinkInv
  <1>4. CASE ConnectingInv
    <2>1. events # <<>>
      BY <1>4 DEF ConnectingInv
    <2>2. UNCHANGED <<advertising, currentAdvertisementMode>>
      BY <2>1
    <2>3. ConnectingInv'
      BY <1>1, <1>4, <2>2 DEF ConnectingInv, NoCommand
    <2>4. ModeInv'
      BY <1>4, <2>2 DEF ConnectingInv, ModeInv
    <2> QED
      BY <1>2, <2>3, <2>4 DEF LinkInv
  <1> QED
    BY <1>3, <1>4 DEF LinkInv, IdleInv, ConnectedInv, NoCommand

\* CPU2 was asked to stop, which fails unless it advertises.
LEMMA CancelKeeps ==
  ASSUME TypeOK, RadioInv, CancelCompletes
  PROVE  LinkInv' /\ CommandInv' /\ ModeInv'
  <1> USE DEF RadioInv
  <1> DEFINE after == AfterCancel(advertising # NotAdvertising)
  <1>1. /\ command.name = "cancel"
        /\ advertising' = NotAdvertising
        /\ currentAdvertisementMode' = after.mode
        /\ UNCHANGED <<links, events, connectionHandle>>
    BY DEF CancelCompletes
  <1>2. bleState = "default"
    BY <1>1 DEF CommandInv, NoCommand, TypeOK
  <1>3. CASE IdleInv
    <2>1. after.status = "idle" /\ after.mode = currentAdvertisementMode
      BY <1>3 DEF IdleInv, AfterCancel
    <2>2. CASE command.then = "switchOff"
      <3>1. /\ deviceConnectionStatus' = "idle"
            /\ command' = NoCommand
            /\ bleState' = "disabled"
        BY <2>1, <2>2 DEF CancelCompletes, SwitchedOff
      <3>2. IdleInv'
        BY <1>1, <1>3, <3>1 DEF IdleInv, NoCommand
      <3>3. CommandInv' /\ ModeInv'
        BY <1>1, <3>1 DEF CommandInv, ModeInv, NoCommand
      <3> QED
        BY <3>2, <3>3 DEF LinkInv
    <2>3. CASE command.then = "restart"
      <3>1. /\ deviceConnectionStatus' = "advertising"
            /\ command' = [name |-> "start", mode |-> currentAdvertisementMode,
                           then |-> "return"]
            /\ bleState' = bleState
        BY <2>1, <2>3 DEF CancelCompletes, AdvertiseRequest
      <3>2. AdvertisingInv'
        BY <1>1, <1>3, <3>1 DEF IdleInv, AdvertisingInv
      <3>3. CommandInv' /\ ModeInv'
        BY <1>1, <1>2, <2>1, <3>1 DEF CommandInv, ModeInv, NoCommand
      <3> QED
        BY <3>2, <3>3 DEF LinkInv
    <2> QED
      BY <2>2, <2>3 DEF CancelCompletes
  <1>4. CASE AdvertisingInv
    <2>1. command.then = "switchOff" /\ advertising # NotAdvertising
      BY <1>1, <1>4, ModeAdvertises DEF AdvertisingInv, TypeOK
    <2>2. /\ deviceConnectionStatus' = "idle"
          /\ command' = NoCommand
          /\ bleState' = "disabled"
      BY <2>1 DEF CancelCompletes, SwitchedOff, AfterCancel
    <2>3. IdleInv'
      BY <1>1, <1>4, <2>2 DEF AdvertisingInv, IdleInv, NoCommand
    <2>4. CommandInv' /\ ModeInv'
      BY <1>1, <2>2 DEF CommandInv, ModeInv, NoCommand
    <2> QED
      BY <2>3, <2>4 DEF LinkInv
  <1>5. CASE ConnectingInv
    <2>1. /\ command.then = "switchOff"
          /\ after.status = "advertising"
          /\ after.mode = currentAdvertisementMode
      BY <1>1, <1>5 DEF ConnectingInv, AfterCancel
    <2>2. /\ deviceConnectionStatus' = "advertising"
          /\ command' = NoCommand
          /\ bleState' = bleState
      BY <2>1 DEF CancelCompletes, SwitchedOff
    <2>3. ConnectingInv'
      BY <1>1, <1>5, <2>2 DEF ConnectingInv, NoCommand
    <2>4. CommandInv' /\ ModeInv'
      BY <1>1, <1>2, <2>1, <2>2 DEF CommandInv, ModeInv, NoCommand
    <2> QED
      BY <2>3, <2>4 DEF LinkInv
  <1> QED
    BY <1>1, <1>3, <1>4, <1>5 DEF LinkInv, ConnectedInv, NoCommand

\* The event of a connection is handled.
LEMMA ConnectionCompleteKeeps ==
  ASSUME TypeOK, RadioInv, ConnectionComplete
  PROVE  LinkInv' /\ CommandInv' /\ ModeInv'
  <1> USE DEF RadioInv
  <1>1. /\ command = NoCommand
        /\ events # <<>>
        /\ Head(events).id = "connected"
        /\ events' = Tail(events)
        /\ deviceConnectionStatus' = "connected"
        /\ connectionHandle' = Head(events).handle
        /\ UNCHANGED <<advertising, links, currentAdvertisementMode, bleState, command>>
    BY DEF ConnectionComplete, NextEvent, NoCommandWaits, CommandInv
  <1>2. ConnectingInv
    <2>1. ASSUME ConnectedInv PROVE FALSE
      <3>1. events = <<Event("disconnected", connectionHandle)>>
        BY <1>1, <2>1 DEF ConnectedInv
      <3>2. Head(events) = Event("disconnected", connectionHandle)
        BY <3>1, Tuples
      <3> QED
        BY <1>1, <3>2 DEF Event
    <2> QED
      BY <1>1, <2>1 DEF LinkInv, IdleInv, AdvertisingInv
  <1>3. PICK handle \in Handle :
          \/ links = {handle} /\ events = <<Event("connected", handle)>>
          \/ /\ links = {}
             /\ events = <<Event("connected", handle), Event("disconnected", handle)>>
    BY <1>2 DEF ConnectingInv
  <1>4. connectionHandle' = handle
    BY <1>1, <1>3, Tuples DEF Event
  <1>5. \/ links' = {handle} /\ events' = <<>>
        \/ links' = {} /\ events' = <<Event("disconnected", handle)>>
    <2> DEFINE Events == {Event(id, handle) : id \in {"connected", "disconnected"}}
    <2>1. Event("connected", handle) \in Events /\ Event("disconnected", handle) \in Events
      OBVIOUS
    <2> HIDE DEF Events
    <2>2. CASE links = {handle} /\ events = <<Event("connected", handle)>>
      <3>1. Tail(<<Event("connected", handle)>>) = <<>>
        BY <2>1, Tuples
      <3> QED
        BY <1>1, <2>2, <3>1
    <2>3. CASE /\ links = {}
               /\ events = <<Event("connected", handle), Event("disconnected", handle)>>
      <3>1. Tail(<<Event("connected", handle), Event("disconnected", handle)>>)
              = <<Event("disconnected", handle)>>
        BY <2>1, Tuples
      <3> QED
        BY <1>1, <2>3, <3>1
    <2> QED
      BY <1>3, <2>2, <2>3
  <1>6. ConnectedInv'
    BY <1>1, <1>2, <1>4, <1>5 DEF ConnectingInv, ConnectedInv, Event
  <1>7. CommandInv' /\ ModeInv'
    BY <1>1, <1>2 DEF ConnectingInv, CommandInv, ModeInv, NoCommand
  <1> QED
    BY <1>6, <1>7 DEF LinkInv

\* The event of a lost connection is handled.
LEMMA DisconnectionCompleteKeeps ==
  ASSUME TypeOK, RadioInv, DisconnectionComplete
  PROVE  LinkInv' /\ CommandInv' /\ ModeInv'
  <1> USE DEF RadioInv
  <1>1. /\ events # <<>>
        /\ Head(events).id = "disconnected"
        /\ events' = Tail(events)
        /\ UNCHANGED <<advertising, links, currentAdvertisementMode, bleState>>
    BY DEF DisconnectionComplete, NextEvent
  <1>2. ConnectedInv
    <2>1. ASSUME ConnectingInv PROVE FALSE
      <3>1. PICK handle \in Handle :
              \/ events = <<Event("connected", handle)>>
              \/ events = <<Event("connected", handle), Event("disconnected", handle)>>
        BY <2>1 DEF ConnectingInv
      <3> DEFINE Events == {Event(id, handle) : id \in {"connected", "disconnected"}}
      <3>2. Event("connected", handle) \in Events /\ Event("disconnected", handle) \in Events
        OBVIOUS
      <3> HIDE DEF Events
      <3>3. Head(events) = Event("connected", handle)
        BY <3>1, <3>2, Tuples
      <3> QED
        BY <1>1, <3>3 DEF Event
    <2> QED
      BY <1>1, <2>1 DEF LinkInv, IdleInv, AdvertisingInv
  <1>3. links = {} /\ events = <<Event("disconnected", connectionHandle)>>
    BY <1>1, <1>2 DEF ConnectedInv
  <1>4. Head(events).handle = connectionHandle /\ events' = <<>>
    BY <1>1, <1>3, Tuples DEF Event
  <1>5. deviceConnectionStatus' = "idle" /\ connectionHandle' = NoHandle
    BY <1>4 DEF DisconnectionComplete
  <1>6. command' = [NoCommand EXCEPT !.name = "cancel", !.then = "restart"]
    BY <1>5 DEF DisconnectionComplete
  <1>7. IdleInv'
    BY <1>1, <1>2, <1>3, <1>4, <1>5, <1>6 DEF ConnectedInv, IdleInv, NoCommand
  <1>8. CommandInv' /\ ModeInv'
    BY <1>1, <1>2, <1>6 DEF ConnectedInv, CommandInv, ModeInv, NoCommand
  <1> QED
    BY <1>7, <1>8 DEF LinkInv

\* A request to switch the radio off is taken.
LEMMA SwitchBleOffKeeps ==
  ASSUME TypeOK, RadioInv, NEW id \in {"BLE_OFF", "LONG_PRESS"}, SwitchBleOff(id)
  PROVE  LinkInv' /\ CommandInv' /\ ModeInv'
  <1> USE DEF RadioInv
  <1>1. /\ bleState = "default"
        /\ command = NoCommand
        /\ UNCHANGED <<advertising, links, events, deviceConnectionStatus,
                       currentAdvertisementMode, connectionHandle>>
    BY DEF SwitchBleOff, bleTaskUnchanged, cpu2Vars, DispatchBle, NoCommandWaits,
       CommandInv
  <1>2. CASE deviceConnectionStatus = "connected"
    <2>1. UNCHANGED <<bleState, command>>
      BY <1>2 DEF SwitchBleOff, SwitchedOff
    <2> QED
      BY <1>1, <2>1, RadioUnchanged DEF radioVars, cpu2Vars, gapVars
  <1>3. CASE deviceConnectionStatus # "connected"
    <2>1. /\ command' = [NoCommand EXCEPT !.name = "cancel", !.then = "switchOff"]
          /\ bleState' = bleState
      BY <1>3 DEF SwitchBleOff
    <2>2. command'.name = "cancel" /\ command'.then = "switchOff"
      BY <2>1 DEF NoCommand
    <2>3. CommandInv' /\ ModeInv'
      BY <1>1, <2>1, <2>2 DEF CommandInv, ModeInv
    <2>4. LinkInv'
      BY <1>1, <1>3, <2>1, <2>2 DEF LinkInv, IdleInv, AdvertisingInv,
         ConnectingInv, ConnectedInv, NoCommand
    <2> QED
      BY <2>3, <2>4
  <1> QED
    BY <1>2, <1>3

-----------------------------------------------------------------------------
(* The invariant.                                                          *)

\* Every step keeps it.
LEMMA NextRadio ==
  ASSUME TypeOK, RadioInv, [Next]_vars, ~ overtaken'
  PROVE  RadioInv'
  <1> USE DEF RadioInv
  <1> DEFINE Goal == LinkInv' /\ CommandInv' /\ ModeInv'
  <1>1. CASE UNCHANGED vars
    BY <1>1, RadioUnchanged, MessagesUnchanged
    DEF vars, radioVars, cpu2Vars, gapVars
  <1>2. ASSUME NEW handle \in Handle, Connects(handle) \/ Disconnects(handle)
        PROVE  RadioInv'
    BY <1>2, ConnectsKeeps, DisconnectsKeeps, MessagesUnchanged
    DEF Connects, Disconnects
  <1>3. CASE CommandCompletes
    BY <1>3, StopKeeps, StartKeeps, CancelKeeps, MessagesUnchanged
    DEF CommandCompletes, StopCompletes, StartCompletes, CancelCompletes
  <1>4. CASE EventTask
    BY <1>4, ConnectionCompleteKeeps, DisconnectionCompleteKeeps, MessagesUnchanged
    DEF EventTask, ConnectionComplete, DisconnectionComplete
  <1>5. CASE SensorData
    <2>1. MessageInv' /\ command = NoCommand
      BY <1>5, MessageTaken DEF SensorData, CommandInv
    <2>2. currentAdvertisementMode \in Mode /\ currentAdvertisementMode.connectable
      BY <1>5 DEF SensorData, ModeInv, TypeOK
    <2> QED
      BY <1>5, <2>1, <2>2, RequestKeeps DEF SensorData, bleTaskUnchanged
  <1>6. CASE StartAdvertise
    <2>1. /\ MessageInv'
          /\ command = NoCommand
          /\ Head(bleMessages).mode.connectable
          /\ Head(bleMessages).mode \in Mode
      BY <1>6, MessageTaken, Messages DEF StartAdvertise, CommandInv
    <2> QED
      BY <1>6, <2>1, RequestKeeps DEF StartAdvertise, bleTaskUnchanged
  <1>7. ASSUME NEW id \in {"BLE_OFF", "LONG_PRESS"}, SwitchBleOff(id)
        PROVE  RadioInv'
    BY <1>7, SwitchBleOffKeeps, MessageTaken DEF SwitchBleOff
  <1>8. CASE SwitchBleOn
    <2>1. MessageInv' /\ command = NoCommand
      BY <1>8, MessageTaken DEF SwitchBleOn, CommandInv
    <2>2. deviceConnectionStatus = "idle"
      BY <1>8, <2>1 DEF SwitchBleOn, CommandInv, NoCommand
    <2>3. bleState' = bleState
      BY <1>8, <2>2 DEF SwitchBleOn, AdvertiseRequest, NoCommand
    <2>4. InitialMode \in Mode /\ InitialMode.connectable
      BY Messages DEF InitialMode
    <2> QED
      BY <1>8, <2>1, <2>3, <2>4, RequestKeeps DEF SwitchBleOn, bleTaskUnchanged
  <1>9. CASE IgnoreWhileDisabled
    <2>1. MessageInv'
      BY <1>9, MessageTaken DEF IgnoreWhileDisabled
    <2>2. UNCHANGED radioVars
      BY <1>9 DEF IgnoreWhileDisabled, bleTaskUnchanged, radioVars, gapVars
    <2> QED
      BY <2>1, <2>2, RadioUnchanged
  <1>10. ASSUME UNCHANGED appTaskUnchanged, MessageInv'
         PROVE  RadioInv'
    BY <1>10, RadioUnchanged DEF appTaskUnchanged, radioVars
  <1>11. CASE TimeElapsed \/ BleSubsystemChange \/ Disconnected
    BY <1>10, <1>11, MessagesUnchanged
    DEF TimeElapsed, BleSubsystemChange, Disconnected
  <1>12. CASE NewSensorData
    <2>1. Signal("SENSOR_DATA") \in BleMessage /\ Signal("SENSOR_DATA").id = "SENSOR_DATA"
      BY Messages DEF Signal
    <2>2. MessageInv'
      BY <1>12, <2>1, MessagePublished DEF NewSensorData
    <2> QED
      BY <1>10, <1>12, <2>2 DEF NewSensorData
  <1>13. CASE LongPress
    <2>1. Signal("LONG_PRESS") \in BleMessage /\ Signal("LONG_PRESS").id = "LONG_PRESS"
      BY Messages DEF Signal
    <2>2. MessageInv'
      BY <1>13, <2>1, MessagePublished, MessagesUnchanged DEF LongPress
    <2> QED
      BY <1>10, <1>13, <2>2 DEF LongPress
  <1>14. ASSUME NEW level \in AppState, BatteryStateChange(level)
         PROVE  RadioInv'
    <2>1. Signal("BLE_OFF") \in BleMessage /\ Signal("BLE_OFF").id = "BLE_OFF"
      BY Messages DEF Signal
    <2>2. MessageInv'
      BY <1>14, <2>1, MessagePublished, MessagesUnchanged DEF BatteryStateChange
    <2> QED
      BY <1>10, <1>14, <2>2 DEF BatteryStateChange
  <1>15. CASE ReadoutIntervalChange
    <2> DEFINE interval == Head(appMessages).interval
               mode == [currentAdvertisementMode EXCEPT !.interval = interval]
               m == [id |-> "START_ADVERTISE", mode |-> mode]
    <2>1. interval \in Interval
      BY <1>15, Taken, Messages DEF ReadoutIntervalChange, DispatchApp, TypeOK
    <2>2. mode \in Mode /\ mode.connectable = currentAdvertisementMode.connectable
      BY <2>1 DEF Mode, TypeOK
    <2>3. m \in BleMessage
      BY <2>2 DEF BleMessage
    <2>4. MessageInv'
      <3>1. CASE BridgeReceives
        <4>1. m.mode.connectable
          BY <2>2, <3>1 DEF BridgeReceives, ModeInv
        <4>2. bleMessages' = Append(bleMessages, m)
          BY <1>15, <3>1 DEF ReadoutIntervalChange
        <4> QED
          BY <2>3, <4>1, <4>2, MessagePublished
      <3>2. CASE ~ BridgeReceives
        BY <1>15, <3>2, MessagesUnchanged DEF ReadoutIntervalChange
      <3> QED
        BY <3>1, <3>2
    <2> QED
      BY <1>10, <1>15, <2>4 DEF ReadoutIntervalChange
  <1> QED
    BY <1>1, <1>2, <1>3, <1>4, <1>5, <1>6, <1>7, <1>8, <1>9, <1>11, <1>12,
       <1>13, <1>14, <1>15
    DEF Next, BleMessageTask, AppTask, Outside

\* The initial state: nothing advertises yet.
LEMMA InitInv == Init => IInv
  <1> SUFFICES ASSUME Init PROVE IInv
    OBVIOUS
  <1> USE Messages DEF Init
  <1>1. appMessages \in Seq(AppMessage)
    <2>1. Signal("BLE_SUBSYSTEM_ON") \in AppMessage
      BY Messages
    <2> QED
      BY <2>1
  <1>2. TypeOK
    <2>1. /\ events \in Seq([id : {"connected", "disconnected"}, handle : Handle])
          /\ bleMessages \in Seq(BleMessage)
      OBVIOUS
    <2>2. command.name = "none" /\ command \in Command
      BY DEF NoCommand
    <2>3. timeStep \in Interval /\ currentAdvertisementMode \in Mode
      BY DEF Interval
    <2> QED
      BY <1>1, <2>1, <2>2, <2>3 DEF TypeOK, Status, AppState
  <1>3. LinkInv /\ CommandInv /\ ModeInv
    BY DEF LinkInv, IdleInv, CommandInv, ModeInv, NoCommand, InitialMode
  <1>4. MessageInv
    BY DEF MessageInv
  <1> QED
    BY <1>2, <1>3, <1>4 DEF IInv, RadioInv

\* Advertising that has overtaken an event stays on record.
LEMMA OvertakenStays == ASSUME TypeOK, [Next]_vars PROVE overtaken => overtaken'
  BY DEF Next, EventTask, ConnectionComplete, DisconnectionComplete,
     BleMessageTask, SensorData, StartAdvertise, SwitchBleOn, IgnoreWhileDisabled,
     SwitchBleOff, bleTaskUnchanged, CommandCompletes, CancelCompletes,
     StopCompletes, StartCompletes, AppTask, ReadoutIntervalChange,
     BleSubsystemChange, Disconnected, Outside, Connects, Disconnects,
     TimeElapsed, NewSensorData, LongPress, BatteryStateChange, appTaskUnchanged,
     historyVars, vars

LEMMA NextInv == IInv /\ [Next]_vars => IInv'
  BY TypeNext, NextRadio, OvertakenStays DEF IInv, TypeOK

-----------------------------------------------------------------------------
(* The symbol on the display.                                              *)

\* News that are published say what the radio is now.
LEMMA NewsPublished ==
  ASSUME NEW S, NEW s \in Seq(S), NEW symbol, NEW e \in S, IsNews(e)
  PROVE  Follows(Append(s, e), symbol, e.id = "BLE_SUBSYSTEM_ON")
  <1> DEFINE t == Append(s, e)
  <1>1. Len(s) \in Nat /\ DOMAIN t = 1 .. Len(s) + 1 /\ t[Len(s) + 1] = e
    BY AppendProperties
  <1>2. Len(s) + 1 \in DOMAIN t
    BY <1>1
  <1>3. ASSUME NEW k \in DOMAIN t, IsNews(t[k]),
               \A later \in DOMAIN t : later > k => ~ IsNews(t[later])
        PROVE  t[k] = e
    BY <1>1, <1>2, <1>3
  <1> HIDE DEF t
  <1>4. Follows(t, symbol, e.id = "BLE_SUBSYSTEM_ON")
    BY <1>1, <1>2, <1>3 DEF Follows
  <1> QED
    BY <1>4 DEF t

\* Another message that is published changes nothing.
LEMMA OtherPublished ==
  ASSUME NEW S, NEW s \in Seq(S), NEW symbol, NEW radioOn, NEW e \in S, ~ IsNews(e),
         Follows(s, symbol, radioOn)
  PROVE  Follows(Append(s, e), symbol, radioOn)
  <1> DEFINE t == Append(s, e)
  <1>1. /\ Len(s) \in Nat
        /\ DOMAIN s = 1 .. Len(s)
        /\ DOMAIN t = 1 .. Len(s) + 1
        /\ t[Len(s) + 1] = e
        /\ \A i \in 1 .. Len(s) : t[i] = s[i]
    BY AppendProperties
  <1>2. \A k \in DOMAIN s : k \in DOMAIN t /\ t[k] = s[k]
    BY <1>1
  <1>3. \A k \in DOMAIN t : IsNews(t[k]) => k \in DOMAIN s
    BY <1>1
  <1> HIDE DEF t
  <1>4. Follows(t, symbol, radioOn)
    BY <1>2, <1>3 DEF Follows
  <1> QED
    BY <1>4 DEF t

\* The symbol after a message was taken.
LEMMA NewsTaken ==
  ASSUME NEW S, NEW s \in Seq(S), s # <<>>, NEW symbol \in BOOLEAN,
         NEW shown \in BOOLEAN, NEW radioOn \in BOOLEAN, Follows(s, symbol, radioOn),
         shown = IF IsNews(Head(s)) THEN Head(s).id = "BLE_SUBSYSTEM_ON" ELSE symbol
  PROVE  Follows(Tail(s), shown, radioOn)
  <1> DEFINE t == Tail(s)
  <1>1. /\ Head(s) = s[1]
        /\ 1 \in DOMAIN s
        /\ \A i \in DOMAIN t : i \in Nat /\ i + 1 \in DOMAIN s /\ t[i] = s[i + 1]
        /\ \A k \in DOMAIN s : k \in Nat /\ (k = 1 \/ (k > 1 /\ k - 1 \in DOMAIN t))
    BY HeadTailProperties
  <1> HIDE DEF t
  <1>2. \A k \in DOMAIN s : k > 1 => s[k] = t[k - 1]
    BY <1>1
  <1>3. ASSUME NEW k \in DOMAIN t, IsNews(t[k]),
               \A later \in DOMAIN t : later > k => ~ IsNews(t[later])
        PROVE  t[k].id = "BLE_SUBSYSTEM_ON" <=> radioOn
    <2>1. k + 1 \in DOMAIN s /\ s[k + 1] = t[k]
      BY <1>1
    <2>2. ASSUME NEW later \in DOMAIN s, later > k + 1
          PROVE  ~ IsNews(s[later])
      <3>1. later - 1 \in DOMAIN t /\ later - 1 > k /\ s[later] = t[later - 1]
        BY <1>1, <1>2, <2>2
      <3> QED
        BY <1>3, <3>1
    <2> QED
      BY <1>3, <2>1, <2>2 DEF Follows
  <1>4. ASSUME \A k \in DOMAIN t : ~ IsNews(t[k])
        PROVE  shown <=> radioOn
    <2>1. \A k \in DOMAIN s : k > 1 => ~ IsNews(s[k])
      BY <1>1, <1>2, <1>4
    <2>2. CASE IsNews(Head(s))
      <3>1. Head(s).id = "BLE_SUBSYSTEM_ON" <=> radioOn
        BY <1>1, <2>1, <2>2 DEF Follows
      <3> QED
        BY <2>2, <3>1
    <2>3. CASE ~ IsNews(Head(s))
      <3>1. \A k \in DOMAIN s : ~ IsNews(s[k])
        BY <1>1, <2>1, <2>3
      <3> QED
        BY <2>3, <3>1 DEF Follows
    <2> QED
      BY <2>2, <2>3
  <1>5. Follows(t, shown, radioOn)
    BY <1>3, <1>4 DEF Follows
  <1> QED
    BY <1>5 DEF t

\* Whether the readout interval is published along does not matter.
LEMMA IntervalPublished ==
  ASSUME NEW s \in Seq(AppMessage), NEW interval \in Interval, NEW symbol, NEW radioOn,
         Follows(s, symbol, radioOn)
  PROVE  Follows(WithReadoutInterval(s, interval), symbol, radioOn)
  <1> DEFINE m == [id |-> "READOUT_INTERVAL_CHANGE", interval |-> interval]
  <1>1. m \in AppMessage /\ ~ IsNews(m)
    BY DEF AppMessage, IsNews
  <1> QED
    BY <1>1, OtherPublished DEF WithReadoutInterval

\* What the code publishes as the radio is switched.
LEMMA SwitchPublished ==
  ASSUME TypeOK
  PROVE  /\ Follows(Append(appMessages, Signal("BLE_SUBSYSTEM_ON")), bleOn, TRUE)
         /\ Follows(Append(appMessages, Signal("BLE_SUBSYSTEM_OFF")), bleOn, FALSE)
  <1> DEFINE on == Signal("BLE_SUBSYSTEM_ON")
             off == Signal("BLE_SUBSYSTEM_OFF")
  <1>1. /\ on \in AppMessage /\ IsNews(on)
        /\ off \in AppMessage /\ IsNews(off)
    BY Messages DEF Signal, IsNews
  <1>2. Follows(Append(appMessages, on), bleOn, on.id = "BLE_SUBSYSTEM_ON")
    BY <1>1, NewsPublished DEF TypeOK
  <1>3. Follows(Append(appMessages, off), bleOn, off.id = "BLE_SUBSYSTEM_ON")
    BY <1>1, NewsPublished DEF TypeOK
  <1>4. (on.id = "BLE_SUBSYSTEM_ON") = TRUE /\ (off.id = "BLE_SUBSYSTEM_ON") = FALSE
    BY DEF Signal
  <1> QED
    BY <1>2, <1>3, <1>4

\* Every step keeps it.
LEMMA NextSymbol ==
  ASSUME TypeOK, SymbolFollowsRadio, [Next]_vars
  PROVE  SymbolFollowsRadio'
  <1> USE DEF SymbolFollowsRadio, TypeOK
  <1>1. ASSUME UNCHANGED <<appMessages, bleOn, bleState>>
        PROVE  SymbolFollowsRadio'
    BY <1>1
  <1>2. ASSUME UNCHANGED bleOn,
               \/ /\ bleState' = "default"
                  /\ appMessages' = Append(appMessages, Signal("BLE_SUBSYSTEM_ON"))
               \/ /\ bleState' = "disabled"
                  /\ appMessages' = Append(appMessages, Signal("BLE_SUBSYSTEM_OFF"))
        PROVE  SymbolFollowsRadio'
    <2>1. CASE /\ bleState' = "default"
               /\ appMessages' = Append(appMessages, Signal("BLE_SUBSYSTEM_ON"))
      <3>1. (bleState' = "default") = TRUE
        BY <2>1
      <3> QED
        BY <1>2, <2>1, <3>1, SwitchPublished
    <2>2. CASE /\ bleState' = "disabled"
               /\ appMessages' = Append(appMessages, Signal("BLE_SUBSYSTEM_OFF"))
      <3>1. (bleState' = "default") = FALSE
        BY <2>2
      <3> QED
        BY <1>2, <2>2, <3>1, SwitchPublished
    <2> QED
      BY <1>2, <2>1, <2>2
  <1>3. CASE UNCHANGED vars
    BY <1>1, <1>3 DEF vars, presentationVars
  <1>4. CASE Outside
    <2>1. CASE TimeElapsed
      BY <1>1, <2>1, IntervalPublished DEF TimeElapsed, Interval, appTaskUnchanged, presentationVars
    <2>2. CASE LongPress
      BY <2>2, IntervalPublished DEF LongPress, Interval, appTaskUnchanged, presentationVars
    <2>3. CASE ~ TimeElapsed /\ ~ LongPress
      BY <1>1, <1>4, <2>3 DEF Outside, Connects, Disconnects, NewSensorData,
         BatteryStateChange, appTaskUnchanged, presentationVars
    <2> QED
      BY <2>1, <2>2, <2>3
  <1>5. CASE CommandCompletes
    BY <1>1, <1>2, <1>5 DEF CommandCompletes, StopCompletes, StartCompletes,
       CancelCompletes, EnableBle, SwitchedOff, presentationVars
  <1>6. CASE ConnectionComplete
    BY <1>1, <1>6 DEF ConnectionComplete, presentationVars
  <1>7. CASE DisconnectionComplete
    <2>1. Signal("DISCONNECT") \in AppMessage /\ ~ IsNews(Signal("DISCONNECT"))
      BY Messages DEF Signal, IsNews
    <2>2. UNCHANGED <<bleOn, bleState>>
          /\ (appMessages' = appMessages \/ appMessages' = Append(appMessages, Signal("DISCONNECT")))
      BY <1>7 DEF DisconnectionComplete, presentationVars
    <2>3. Follows(Append(appMessages, Signal("DISCONNECT")), bleOn, bleState = "default")
      BY <2>1, OtherPublished
    <2> QED
      BY <1>1, <2>2, <2>3
  <1>8. CASE BleMessageTask
    BY <1>1, <1>2, <1>8 DEF BleMessageTask, SensorData, StartAdvertise, SwitchBleOn,
       IgnoreWhileDisabled, SwitchBleOff, SwitchedOff, bleTaskUnchanged, presentationVars
  <1>9. CASE AppTask
    <2> DEFINE head == Head(appMessages)
               symbol == IF IsNews(head) THEN head.id = "BLE_SUBSYSTEM_ON" ELSE bleOn
    <2>1. /\ appMessages # <<>>
          /\ UNCHANGED bleState
          /\ bleOn' = symbol
          /\ \/ appMessages' = Tail(appMessages)
             \/ appMessages' = WithReadoutInterval(Tail(appMessages), "short")
      BY <1>9 DEF AppTask, ReadoutIntervalChange, BleSubsystemChange, Disconnected,
         DispatchApp, appTaskUnchanged, presentationVars, IsNews
    <2>2. Tail(appMessages) \in Seq(AppMessage) /\ symbol \in BOOLEAN
      BY <2>1, Taken
    <2>3. Follows(Tail(appMessages), symbol, bleState = "default")
      BY <2>1, <2>2, NewsTaken
    <2>4. Follows(WithReadoutInterval(Tail(appMessages), "short"), symbol, bleState = "default")
      BY <2>2, <2>3, IntervalPublished DEF Interval
    <2> QED
      BY <2>1, <2>3, <2>4
  <1> QED
    BY <1>3, <1>4, <1>5, <1>6, <1>7, <1>8, <1>9 DEF Next, EventTask

-----------------------------------------------------------------------------
(* Theorems.                                                               *)

\* Status, events and CPU2 stay in agreement.
THEOREM Invariant == Spec => []IInv
  BY InitInv, NextInv, PTL DEF Spec

\* All variables keep their types.
THEOREM TypeCorrect == Spec => []TypeOK
  <1>1. IInv => TypeOK
    BY DEF IInv
  <1> QED
    BY <1>1, Invariant, PTL

\* What the application believes of the radio is what CPU2 does, unless a
\* request to advertise has overtaken an event (BleGap.c).
THEOREM StatusIsRight == Spec => []StatusAgrees
  <1>1. IInv => StatusAgrees
    <2> SUFFICES ASSUME IInv, Settled, ~ overtaken
                 PROVE  /\ (deviceConnectionStatus = "connected") <=> (links # {})
                        /\ (deviceConnectionStatus = "advertising")
                             <=> (advertising # NotAdvertising)
                        /\ deviceConnectionStatus = "advertising"
                             => advertising = currentAdvertisementMode
                        /\ connectionHandle # NoHandle => links = {connectionHandle}
      BY DEF StatusAgrees
    <2> USE ModeAdvertises DEF IInv, RadioInv, LinkInv, TypeOK, Settled, NoCommandWaits
    <2>1. CASE IdleInv
      BY <2>1 DEF IdleInv
    <2>2. CASE AdvertisingInv
      BY <2>2 DEF AdvertisingInv
    <2>3. CASE ConnectedInv
      BY <2>3 DEF ConnectedInv
    <2>4. CASE ConnectingInv
      BY <2>4 DEF ConnectingInv
    <2> QED
      BY <2>1, <2>2, <2>3, <2>4
  <1> QED
    BY <1>1, Invariant, PTL

\* A radio that is switched off neither advertises nor keeps a connection
\* (SwitchBleOff), unless a request to advertise has overtaken an event.
THEOREM OffIsSilent == Spec => []OffMeansSilent
  <1>1. IInv => OffMeansSilent
    BY DEF IInv, RadioInv, LinkInv, CommandInv, IdleInv, AdvertisingInv,
       ConnectingInv, ConnectedInv, OffMeansSilent, NoCommandWaits, NoCommand
  <1> QED
    BY <1>1, Invariant, PTL

\* As long as the radio advertises it accepts connections (BleContext.c:299).
THEOREM AlwaysConnectable == Spec => []StaysConnectable
  <1>1. IInv => StaysConnectable
    BY DEF IInv, RadioInv, ModeInv, StaysConnectable
  <1> QED
    BY <1>1, Invariant, PTL

\* The symbol on the display shows whether the radio is on, as soon as the
\* last message about it has arrived, also when advertising has overtaken an
\* event (BleContext.c:254, 569, 837).
THEOREM SymbolIsRight == Spec => []SymbolFollowsRadio
  <1>1. Init => SymbolFollowsRadio
    <2> SUFFICES ASSUME Init PROVE SymbolFollowsRadio
      OBVIOUS
    <2>1. /\ DOMAIN appMessages = {1}
          /\ appMessages[1].id = "BLE_SUBSYSTEM_ON"
          /\ bleState = "default"
      BY DEF Init, Signal
    <2> QED
      BY <2>1 DEF SymbolFollowsRadio, Follows, IsNews
  <1>2. TypeOK /\ SymbolFollowsRadio /\ [Next]_vars => SymbolFollowsRadio'
    BY NextSymbol
  <1> QED
    BY <1>1, <1>2, TypeCorrect, PTL DEF Spec

=============================================================================
