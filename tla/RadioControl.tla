---------------------------- MODULE RadioControl ----------------------------
(***************************************************************************)
(* The radio as the application switches it: BleGap.c, the message         *)
(* handlers of BleContext.c, the state of the battery and the readout      *)
(* interval, against the BLE stack on CPU2.                                *)
(*                                                                         *)
(* The two tasks that may send commands to CPU2 are paused while one of    *)
(* them waits for a response; the task of the application broker runs      *)
(* nested then.  So a handler of the BLE side is a chain of steps, one per *)
(* command that changes something, and a handler of the application is one *)
(* step.  Messages that come from outside (button, sensor, battery, time)  *)
(* may be published at any moment and are dispatched without passing       *)
(* through the queue here; those that the modelled code publishes wait in  *)
(* appMessages and bleMessages.  Pairing, and the commands that only set a *)
(* value (advertisement data, characteristics), are left out.              *)
(***************************************************************************)
EXTENDS Naturals, Sequences

CONSTANTS
  Handle,       \* connection handles of CPU2, one per link
  NoHandle,
  MaxMessages,  \* bound on waiting messages when something comes from outside
  MaxEvents     \* bound on events of CPU2 that wait

ASSUME RadioControlAssumption ==
  NoHandle \notin Handle /\ MaxMessages \in Nat /\ MaxEvents \in Nat

VARIABLES
  \* CPU2: mode it advertises in, links
  advertising, links,
  \* events of CPU2 that wait for hci_user_evt_proc
  events,
  \* gBleApplicationContext
  deviceConnectionStatus, currentAdvertisementMode, connectionHandle,
  currentApplicationState, automaticBleOff,
  \* timeRunningSeconds >= 5
  started,
  \* message handler of _bleAppListener; the receive mask of _bleBridge is
  \* always changed along with it
  bleState,
  \* command that waits for a response, and what is to be done then
  command,
  \* Presentation.c
  timeStep, bleOn,
  \* queues
  appMessages, bleMessages,
  \* history: advertising started while an event of CPU2 was waiting; with a
  \* critical battery the radio was not switched off because CPU2 did not
  \* advertise; a BLE_OFF was handled after the battery had become critical
  overtaken, refused, criticalHandled

cpu2Vars == <<advertising, links, events>>
gapVars == <<deviceConnectionStatus, currentAdvertisementMode>>
batteryVars == <<currentApplicationState, automaticBleOff>>
presentationVars == <<timeStep, bleOn>>
historyVars == <<overtaken, refused, criticalHandled>>
vars == <<cpu2Vars, gapVars, connectionHandle, batteryVars, started, bleState,
          command, presentationVars, appMessages, bleMessages, historyVars>>

Interval == {"short", "long"}
Mode == [connectable : BOOLEAN, interval : Interval]
NotAdvertising == [connectable |-> FALSE, interval |-> "none"]
InitialMode == [connectable |-> TRUE, interval |-> "short"]

Status == {"idle", "advertising", "connected"}
AppState == {"undefined", "unrestricted", "reduced", "critical"}

AppMessage ==
  [id : {"BLE_SUBSYSTEM_ON", "BLE_SUBSYSTEM_OFF", "DISCONNECT"}]
  \cup [id : {"READOUT_INTERVAL_CHANGE"}, interval : Interval]

BleMessage ==
  [id : {"SENSOR_DATA", "LONG_PRESS", "BLE_OFF"}]
  \cup [id : {"START_ADVERTISE"}, mode : Mode]

Signal(id) == [id |-> id]

\* Commands: "cancel" is the one of BleGap_AdvertiseCancel, "stop" and "start"
\* are those of BleGap_AdvertiseRequest.
NoCommand == [name |-> "none", mode |-> NotAdvertising, then |-> "return"]
Command ==
  [name : {"none", "cancel", "stop", "start"}, mode : Mode \cup {NotAdvertising},
   then : {"return", "switchOff", "switchOn", "restart"}]

TypeOK ==
  /\ advertising \in Mode \cup {NotAdvertising}
  /\ links \subseteq Handle
  /\ events \in Seq([id : {"connected", "disconnected"}, handle : Handle])
  /\ deviceConnectionStatus \in Status
  /\ currentAdvertisementMode \in Mode
  /\ connectionHandle \in Handle \cup {NoHandle}
  /\ currentApplicationState \in AppState
  /\ automaticBleOff \in BOOLEAN
  /\ started \in BOOLEAN
  /\ bleState \in {"default", "disabled"}
  /\ command \in Command
  /\ command.name \in {"stop", "start"} => command.mode \in Mode
  /\ command.name = "start" => deviceConnectionStatus = "advertising"
  /\ timeStep \in Interval
  /\ bleOn \in BOOLEAN
  /\ appMessages \in Seq(AppMessage)
  /\ bleMessages \in Seq(BleMessage)
  /\ overtaken \in BOOLEAN
  /\ refused \in BOOLEAN
  /\ criticalHandled \in BOOLEAN

-----------------------------------------------------------------------------
(* CPU2.                                                                   *)

\* Bound: something new comes from outside only if few messages wait.
HasRoom == Len(appMessages) + Len(bleMessages) < MaxMessages

\* A client connects; that ends the advertising.
Connects(handle) ==
  /\ advertising.connectable
  /\ handle \notin links
  /\ HasRoom
  /\ Len(events) < MaxEvents
  /\ advertising' = NotAdvertising
  /\ links' = links \cup {handle}
  /\ events' = Append(events, [id |-> "connected", handle |-> handle])
  /\ UNCHANGED <<gapVars, connectionHandle, batteryVars, started, bleState,
                 command, presentationVars, appMessages, bleMessages,
                 historyVars>>

Disconnects(handle) ==
  /\ handle \in links
  /\ Len(events) < MaxEvents
  /\ links' = links \ {handle}
  /\ events' = Append(events, [id |-> "disconnected", handle |-> handle])
  /\ UNCHANGED <<advertising, gapVars, connectionHandle, batteryVars, started,
                 bleState, command, presentationVars, appMessages, bleMessages,
                 historyVars>>

-----------------------------------------------------------------------------
(* Requests to advertise.                                                  *)

\* BleGap_AdvertiseRequest with the given status and current mode, up to its
\* first command, and what the caller does after it.
AdvertiseRequest(status, current, mode, then) ==
  CASE status = "advertising" /\ current # mode ->
         /\ deviceConnectionStatus' = status
         /\ command' = [name |-> "stop", mode |-> mode, then |-> then]
    [] status = "idle" ->
         /\ deviceConnectionStatus' = "advertising"
         /\ command' = [name |-> "start", mode |-> mode, then |-> then]
    [] OTHER ->
         /\ deviceConnectionStatus' = status
         /\ command' = NoCommand

\* aci_gap_set_non_discoverable in BleGap_AdvertiseRequest; whether it
\* succeeds is not looked at.
StopCompletes ==
  /\ command.name = "stop"
  /\ advertising' = NotAdvertising
  /\ deviceConnectionStatus' = "advertising"
  /\ command' = [command EXCEPT !.name = "start"]
  /\ UNCHANGED <<links, events, currentAdvertisementMode, connectionHandle,
                 batteryVars, started, bleState, presentationVars, appMessages,
                 bleMessages, historyVars>>

\* aci_gap_set_discoverable: CPU2 cannot be asked twice; with a connection and
\* a free link it may accept or refuse.
StartAccepted == advertising = NotAdvertising
StartRefused == advertising # NotAdvertising \/ links # {}

\* The rest of BleDisabledStateCb.
EnableBle ==
  IF command.then = "switchOn"
    THEN /\ bleState' = "default"
         /\ appMessages' = Append(appMessages, Signal("BLE_SUBSYSTEM_ON"))
    ELSE UNCHANGED <<bleState, appMessages>>

StartCompletes ==
  /\ command.name = "start"
  /\ \/ /\ StartAccepted
        /\ advertising' = command.mode
        /\ currentAdvertisementMode' = command.mode
        /\ overtaken' = (overtaken \/ events # <<>>)
     \/ /\ StartRefused
        /\ UNCHANGED <<advertising, currentAdvertisementMode, overtaken>>
  /\ command' = NoCommand
  /\ EnableBle
  /\ UNCHANGED <<links, events, deviceConnectionStatus, connectionHandle,
                 batteryVars, started, presentationVars, bleMessages, refused,
                 criticalHandled>>

-----------------------------------------------------------------------------
(* The end of advertising.                                                 *)

\* Mutant: the radio counts as off also if CPU2 did not stop.
SwitchedOffAnyway(status) ==
  /\ bleState' = "disabled"
  /\ appMessages' = Append(appMessages, Signal("BLE_SUBSYSTEM_OFF"))
  /\ UNCHANGED refused

\* Mutant: the news are spread though the radio stays on.
SwitchedOffAndTold(status) ==
  /\ bleState' = IF status = "idle" THEN "disabled" ELSE bleState
  /\ appMessages' = Append(appMessages, Signal("BLE_SUBSYSTEM_OFF"))
  /\ UNCHANGED refused

\* SwitchBleOff after BleGap_AdvertiseCancel.
SwitchedOff(status) ==
  IF status = "idle"
    THEN /\ bleState' = "disabled"
         /\ appMessages' = Append(appMessages, Signal("BLE_SUBSYSTEM_OFF"))
         /\ UNCHANGED refused
    ELSE /\ refused' = (refused \/ currentApplicationState = "critical")
         /\ UNCHANGED <<bleState, appMessages>>

\* Mutant: the result of the command is not looked at.
AfterCancelUnchecked(ok) ==
  [status |-> "idle",
   mode |-> [currentAdvertisementMode EXCEPT !.connectable = FALSE]]

\* Status and mode after the command of BleGap_AdvertiseCancel.
AfterCancel(ok) ==
  IF ok
    THEN [status |-> "idle",
          mode |-> [currentAdvertisementMode EXCEPT !.connectable = FALSE]]
    ELSE [status |-> deviceConnectionStatus, mode |-> currentAdvertisementMode]

CancelCompletes ==
  /\ command.name = "cancel"
  /\ advertising' = NotAdvertising
  /\ LET after == AfterCancel(advertising # NotAdvertising)
     IN /\ currentAdvertisementMode' = after.mode
        /\ \/ /\ command.then = "switchOff"
              /\ deviceConnectionStatus' = after.status
              /\ command' = NoCommand
              /\ SwitchedOff(after.status)
           \/ /\ command.then = "restart"
              /\ AdvertiseRequest(after.status, after.mode, after.mode, "return")
              /\ UNCHANGED <<bleState, appMessages, refused>>
  /\ UNCHANGED <<links, events, connectionHandle, batteryVars, started,
                 presentationVars, bleMessages, overtaken, criticalHandled>>

-----------------------------------------------------------------------------
(* Tasks of the BLE side: events of CPU2 and messages, unless a command     *)
(* waits for its response.                                                 *)

NoCommandWaits == command.name = "none"

NextEvent(id) == NoCommandWaits /\ events # <<>> /\ Head(events).id = id

\* HCI_LE_CONNECTION_COMPLETE.
ConnectionComplete ==
  /\ NextEvent("connected")
  /\ events' = Tail(events)
  /\ deviceConnectionStatus' = "connected"
  /\ connectionHandle' = Head(events).handle
  /\ UNCHANGED <<advertising, links, currentAdvertisementMode, batteryVars,
                 started, bleState, command, presentationVars, appMessages,
                 bleMessages, historyVars>>

\* Mutant: the status is not reset.
DisconnectionCompleteOnlyTold ==
  /\ NextEvent("disconnected")
  /\ events' = Tail(events)
  /\ IF Head(events).handle = connectionHandle
       THEN /\ connectionHandle' = NoHandle
            /\ appMessages' = Append(appMessages, Signal("DISCONNECT"))
       ELSE UNCHANGED <<connectionHandle, appMessages>>
  /\ UNCHANGED <<deviceConnectionStatus, command, advertising, links,
                 currentAdvertisementMode, batteryVars, started, bleState,
                 presentationVars, bleMessages, historyVars>>

\* HCI_DISCONNECTION_COMPLETE, up to the first command.
DisconnectionComplete ==
  /\ NextEvent("disconnected")
  /\ events' = Tail(events)
  /\ IF Head(events).handle = connectionHandle
       THEN /\ deviceConnectionStatus' = "idle"
            /\ connectionHandle' = NoHandle
            /\ appMessages' = Append(appMessages, Signal("DISCONNECT"))
       ELSE UNCHANGED <<deviceConnectionStatus, connectionHandle, appMessages>>
  /\ command' = IF deviceConnectionStatus' # "connected"
                  THEN [NoCommand EXCEPT !.name = "cancel", !.then = "restart"]
                  ELSE NoCommand
  /\ UNCHANGED <<advertising, links, currentAdvertisementMode, batteryVars,
                 started, bleState, presentationVars, bleMessages, historyVars>>

DispatchBle(id) ==
  /\ NoCommandWaits
  /\ bleMessages # <<>>
  /\ Head(bleMessages).id = id
  /\ bleMessages' = Tail(bleMessages)

IsCriticalOff(id) == id = "BLE_OFF" /\ currentApplicationState = "critical"

bleTaskUnchanged ==
  <<cpu2Vars, currentAdvertisementMode, connectionHandle, currentApplicationState,
    started, presentationVars, overtaken>>

\* New values are advertised; that starts advertising, if nothing else did.
SensorData ==
  /\ DispatchBle("SENSOR_DATA")
  /\ bleState = "default"
  /\ AdvertiseRequest(deviceConnectionStatus, currentAdvertisementMode,
                      currentAdvertisementMode, "return")
  /\ UNCHANGED <<bleTaskUnchanged, automaticBleOff, bleState, appMessages,
                 refused, criticalHandled>>

StartAdvertise ==
  /\ DispatchBle("START_ADVERTISE")
  /\ bleState = "default"
  /\ AdvertiseRequest(deviceConnectionStatus, currentAdvertisementMode,
                      Head(bleMessages).mode, "return")
  /\ UNCHANGED <<bleTaskUnchanged, automaticBleOff, bleState, appMessages,
                 refused, criticalHandled>>

\* SwitchBleOff, for BLE_OFF or a long press of the button.
SwitchBleOff(id) ==
  /\ DispatchBle(id)
  /\ bleState = "default"
  /\ \/ /\ deviceConnectionStatus # "connected"
        /\ command' = [NoCommand EXCEPT !.name = "cancel", !.then = "switchOff"]
        /\ UNCHANGED <<bleState, appMessages, refused>>
     \/ /\ deviceConnectionStatus = "connected"
        /\ SwitchedOff(deviceConnectionStatus)
        /\ UNCHANGED command
  /\ criticalHandled' = (criticalHandled \/ IsCriticalOff(id))
  /\ UNCHANGED <<bleTaskUnchanged, deviceConnectionStatus, automaticBleOff>>

\* A long press while the radio is off.
SwitchBleOn ==
  /\ DispatchBle("LONG_PRESS")
  /\ bleState = "disabled"
  /\ currentApplicationState # "critical"
  /\ automaticBleOff' = (automaticBleOff /\ currentApplicationState # "reduced")
  /\ AdvertiseRequest(deviceConnectionStatus, currentAdvertisementMode,
                      InitialMode, "switchOn")
  /\ IF command' = NoCommand
       THEN /\ bleState' = "default"
            /\ appMessages' = Append(appMessages, Signal("BLE_SUBSYSTEM_ON"))
       ELSE UNCHANGED <<bleState, appMessages>>
  /\ UNCHANGED <<bleTaskUnchanged, refused, criticalHandled>>

\* What BleDisabledStateCb does not handle.
IgnoreWhileDisabled ==
  /\ bleState = "disabled"
  /\ \E id \in {"SENSOR_DATA", "START_ADVERTISE", "BLE_OFF", "LONG_PRESS"} :
       /\ DispatchBle(id)
       /\ id = "LONG_PRESS" => currentApplicationState = "critical"
       /\ criticalHandled' = (criticalHandled \/ IsCriticalOff(id))
  /\ UNCHANGED <<bleTaskUnchanged, deviceConnectionStatus, command,
                 automaticBleOff, bleState, appMessages, refused>>

-----------------------------------------------------------------------------
(* Task of the application broker: the presentation, then the bridge to    *)
(* the BLE side, then the battery monitor.                                 *)

\* PublishReadoutIntervalIfChanged behind the messages given.
WithReadoutInterval(messages, interval) ==
  IF interval = timeStep
    THEN messages
    ELSE Append(messages, [id |-> "READOUT_INTERVAL_CHANGE", interval |-> interval])

appTaskUnchanged ==
  <<cpu2Vars, gapVars, connectionHandle, bleState, command, historyVars>>

\* The receive mask of _bleBridge lets everything pass.
BridgeReceives == bleState = "default"

\* TIME_ELAPSED; without use the readout gets slower.
TimeElapsed ==
  /\ HasRoom
  /\ appMessages' \in {appMessages, WithReadoutInterval(appMessages, "long")}
  /\ started' = (started \/ BridgeReceives)
  /\ UNCHANGED <<appTaskUnchanged, batteryVars, presentationVars, bleMessages>>

\* SENSOR_DATA, forwarded.
NewSensorData ==
  /\ HasRoom
  /\ BridgeReceives
  /\ bleMessages' = Append(bleMessages, Signal("SENSOR_DATA"))
  /\ UNCHANGED <<appTaskUnchanged, batteryVars, started, presentationVars,
                 appMessages>>

\* A long press of the button, forwarded unless it comes during the first
\* seconds.
LongPress ==
  /\ HasRoom
  /\ appMessages' = WithReadoutInterval(appMessages, "short")
  /\ bleMessages' = IF started THEN Append(bleMessages, Signal("LONG_PRESS"))
                               ELSE bleMessages
  /\ UNCHANGED <<appTaskUnchanged, batteryVars, started, presentationVars>>

\* Mutant: the choice of the user counts also when the battery is critical.
SwitchesOffAutomatically(level) ==
  level \in {"reduced", "critical"} /\ automaticBleOff

\* Whether the bridge sends BLE_OFF when the battery gets to this level.
SwitchesOff(level) ==
  \/ level = "critical"
  \/ level = "reduced" /\ automaticBleOff

\* STATE_CHANGE of the battery monitor, which measured another level.  The
\* bridge does not recover from a critical one: it ignores all further changes.
BatteryStateChange(level) ==
  /\ HasRoom
  /\ currentApplicationState \notin {level, "critical"}
  /\ currentApplicationState' = level
  /\ bleMessages' = IF SwitchesOff(level)
                      THEN Append(bleMessages, Signal("BLE_OFF"))
                      ELSE bleMessages
  /\ UNCHANGED <<appTaskUnchanged, automaticBleOff, started, presentationVars,
                 appMessages>>

DispatchApp(id) ==
  /\ appMessages # <<>>
  /\ Head(appMessages).id = id

\* HandleReadoutIntervalChange: the mode is the current one but for the
\* interval.
ReadoutIntervalChange ==
  /\ DispatchApp("READOUT_INTERVAL_CHANGE")
  /\ LET interval == Head(appMessages).interval
     IN /\ timeStep' = interval
        /\ bleMessages' =
             IF BridgeReceives
               THEN Append(bleMessages,
                      [id |-> "START_ADVERTISE",
                       mode |-> [currentAdvertisementMode
                                   EXCEPT !.interval = interval]])
               ELSE bleMessages
  /\ appMessages' = Tail(appMessages)
  /\ UNCHANGED <<appTaskUnchanged, batteryVars, started, bleOn>>

BleSubsystemChange ==
  /\ \/ DispatchApp("BLE_SUBSYSTEM_ON") /\ bleOn' = TRUE
     \/ DispatchApp("BLE_SUBSYSTEM_OFF") /\ bleOn' = FALSE
  /\ appMessages' = Tail(appMessages)
  /\ UNCHANGED <<appTaskUnchanged, batteryVars, started, timeStep, bleMessages>>

Disconnected ==
  /\ DispatchApp("DISCONNECT")
  /\ appMessages' = WithReadoutInterval(Tail(appMessages), "short")
  /\ UNCHANGED <<appTaskUnchanged, batteryVars, started, presentationVars,
                 bleMessages>>

-----------------------------------------------------------------------------

Init ==
  /\ advertising = NotAdvertising
  /\ links = {}
  /\ events = <<>>
  /\ deviceConnectionStatus = "idle"
  /\ currentAdvertisementMode = InitialMode
  /\ connectionHandle = NoHandle
  /\ currentApplicationState = "undefined"
  /\ automaticBleOff = TRUE
  /\ started = FALSE
  /\ bleState = "default"
  /\ command = NoCommand
  /\ timeStep = "short"
  /\ bleOn = FALSE
  /\ appMessages = <<Signal("BLE_SUBSYSTEM_ON")>>
  /\ bleMessages = <<>>
  /\ overtaken = FALSE
  /\ refused = FALSE
  /\ criticalHandled = FALSE

EventTask == ConnectionComplete \/ DisconnectionComplete

BleMessageTask ==
  \/ SensorData \/ StartAdvertise \/ SwitchBleOn \/ IgnoreWhileDisabled
  \/ \E id \in {"BLE_OFF", "LONG_PRESS"} : SwitchBleOff(id)

CommandCompletes == CancelCompletes \/ StopCompletes \/ StartCompletes

AppTask == ReadoutIntervalChange \/ BleSubsystemChange \/ Disconnected

Outside ==
  \/ \E handle \in Handle : Connects(handle) \/ Disconnects(handle)
  \/ TimeElapsed \/ NewSensorData \/ LongPress
  \/ \E level \in AppState \ {"undefined"} : BatteryStateChange(level)

Next == EventTask \/ BleMessageTask \/ CommandCompletes \/ AppTask \/ Outside

Spec == Init /\ [][Next]_vars

\* CPU2 answers every command, and the sequencer runs a task that is set;
\* those that send commands are paused again and again, but it takes them in
\* turn.
FairSpec ==
  /\ Spec
  /\ WF_vars(CommandCompletes)
  /\ WF_vars(AppTask)
  /\ SF_vars(EventTask)
  /\ SF_vars(BleMessageTask)

-----------------------------------------------------------------------------
(* Properties.                                                             *)

Settled == NoCommandWaits /\ events = <<>>

\* What the application believes of the radio is what CPU2 does, once it has
\* seen all events and answers, though commands to it may meet a connection
\* that was just made or lost (BleGap.c never compares the two).
StatusAgrees ==
  Settled /\ ~ overtaken =>
    /\ (deviceConnectionStatus = "connected") <=> (links # {})
    /\ (deviceConnectionStatus = "advertising") <=> (advertising # NotAdvertising)
    /\ deviceConnectionStatus = "advertising" => advertising = currentAdvertisementMode
    /\ connectionHandle # NoHandle => links = {connectionHandle}

\* A radio that is switched off (SwitchBleOff) neither advertises nor keeps a
\* connection, nor does it start again by itself.
OffMeansSilent ==
  bleState = "disabled" /\ NoCommandWaits /\ ~ overtaken =>
    advertising = NotAdvertising /\ links = {} /\ events = <<>>

\* What the symbol shows follows the radio: the last message about it that
\* waits says what the radio is, and if none waits the symbol does.
IsNews(message) == message.id \in {"BLE_SUBSYSTEM_ON", "BLE_SUBSYSTEM_OFF"}

Follows(messages, symbol, radioOn) ==
  /\ \A k \in DOMAIN messages :
       /\ IsNews(messages[k])
       /\ \A later \in DOMAIN messages : later > k => ~ IsNews(messages[later])
       => (messages[k].id = "BLE_SUBSYSTEM_ON" <=> radioOn)
  /\ (\A k \in DOMAIN messages : ~ IsNews(messages[k])) => (symbol <=> radioOn)

\* The symbol on the display shows whether the radio is on, as soon as the
\* last message about it has arrived (BleContext.c:254, 569, 837).
SymbolFollowsRadio == Follows(appMessages, bleOn, bleState = "default")

\* As long as the radio is on and advertises it accepts connections: the
\* AdvertiseCancel of a disconnection, which clears connectable, must not
\* succeed (BleContext.c:299).
StaysConnectable ==
  ~ overtaken => (advertising # NotAdvertising => advertising.connectable)

\* A critical battery switches the radio off for good, unless a connection
\* keeps SwitchBleOff from it.
CriticalSwitchesOff ==
  <>[](currentApplicationState = "critical" /\ ~ overtaken =>
         bleState = "disabled" \/ refused)

\* "Once the battery level was critical, the battery should be changed or we
\* do not do any further BLE operation" (BleContext.c:630): after the request
\* to switch the radio off was handled nothing is advertised any more.
NoBleAfterCritical ==
  criticalHandled /\ NoCommandWaits => advertising = NotAdvertising

=============================================================================
