----------------------------- MODULE TimerServer -----------------------------
(***************************************************************************)
(* The virtual timers of app_service/timer_server over one wake-up counter *)
(* of the real time clock.                                                 *)
(*                                                                         *)
(* Three levels of priority call the server: the task, the interrupt of    *)
(* the button, and the interrupt of the wake-up counter with its           *)
(* callbacks.  A critical section is one step; between two of them a       *)
(* higher level may run, and then runs to its end.                         *)
(*                                                                         *)
(* Time is counted in ticks.  The sub-second register and the wake-up      *)
(* counter have the same rate, but not the same phase.                     *)
(***************************************************************************)
EXTENDS Integers

CONSTANTS
  MaxNbrConcurrentTimer,  \* MAX_NBR_CONCURRENT_TIMER
  ButtonTimers,           \* timers that belong to the button
  ModesOf,                \* modes that a timer may be created with
  Timeouts,               \* ticks clients ask for
  SynchPrescaler,         \* gSynchPrescalerUserConfig
  HandlerMaxDelay,        \* RTC_HANDLER_MAX_DELAY, in ticks
  MaxCalls                \* bound on the calls that start, stop, delete timers

ASSUME TimerServerAssumption ==
  /\ MaxNbrConcurrentTimer \in Nat \ {0}
  /\ ButtonTimers \subseteq 0 .. MaxNbrConcurrentTimer - 1
  /\ ModesOf \in [0 .. MaxNbrConcurrentTimer - 1 -> SUBSET {"SINGLE_SHOT", "REPEATED"}]
  /\ Timeouts \subseteq Nat \ {0}
  /\ {SynchPrescaler, HandlerMaxDelay, MaxCalls} \subseteq Nat
  /\ SynchPrescaler > HandlerMaxDelay + 1

VARIABLES
  \* gTimerContext
  timerIdStatus, mode, counterInit, countLeft, previousId, nextId,
  gCurrentRunningTimerId, gPreviousRunningTimerId,
  \* RTC_SSR, gSsrValueOnLastSetup, gWakeupTimerLimitation
  ssr, ssrOnLastSetup, limitation,
  \* the wake-up counter, or Disabled; its interrupt is pending
  wakeupCounter, pending,
  \* next critical section of the wake-up handler, and of a start by a level
  handler, starting,
  \* history: ticks until a running timer is due; how long the interrupt waits
  due, delay,
  \* bounded by MaxCalls
  calls

list == <<timerIdStatus, previousId, nextId, gCurrentRunningTimerId,
          gPreviousRunningTimerId>>
wakeup == <<ssrOnLastSetup, limitation, wakeupCounter, pending>>
vars == <<list, mode, counterInit, countLeft, ssr, wakeup, handler, starting,
          due, delay, calls>>

TimerIds == 0 .. MaxNbrConcurrentTimer - 1
NoTimer == MaxNbrConcurrentTimer
Modes == {"SINGLE_SHOT", "REPEATED"}
Disabled == -1
Forbidden == -1   \* SSR_FORBIDDEN_VALUE
Levels == {"task", "button"}
Idle == [pc |-> "idle", id |-> NoTimer, ticks |-> 0]

IsRunning(id) == timerIdStatus[id] = "RUNNING"
Running == {id \in TimerIds : IsRunning(id)}

TypeOK ==
  /\ timerIdStatus \in [TimerIds -> {"FREE", "CREATED", "RUNNING"}]
  /\ mode \in [TimerIds -> Modes]
  /\ counterInit \in [TimerIds -> Nat] /\ countLeft \in [TimerIds -> Nat]
  /\ previousId \in [TimerIds -> TimerIds] /\ nextId \in [TimerIds -> 0 .. NoTimer]
  /\ gCurrentRunningTimerId \in 0 .. NoTimer
  /\ gPreviousRunningTimerId \in 0 .. NoTimer
  /\ ssr \in 0 .. SynchPrescaler - 1
  /\ ssrOnLastSetup \in 0 .. SynchPrescaler - 1 \cup {Forbidden}
  /\ limitation \in {"OVERPASSED", "LARGE_ENOUGH"}
  /\ wakeupCounter \in Nat \cup {Disabled}
  /\ pending \in BOOLEAN
  /\ handler \in [pc : {"idle", "restart", "stop", "callback"},
                  id : 0 .. NoTimer, ticks : {0}]
  /\ starting \in [Levels -> [pc : {"idle", "stop", "link"}, id : 0 .. NoTimer,
                              ticks : Nat]]
  /\ due \in [TimerIds -> Int]
  /\ delay \in Nat /\ calls \in Nat

-----------------------------------------------------------------------------
(* TimerServerRtcInterface.c.                                              *)

\* A margin for the delay of the interrupt, so that the sub-second register
\* does not wrap before the elapsed time is read.
MaxWakeupTimerSetup == SynchPrescaler - 1 - HandlerMaxDelay

\* Mutant: the register holds the prescaler less one.
ReturnTimeElapsedUncorrected(setup) ==
  IF setup = Forbidden THEN 0
  ELSE IF setup >= ssr THEN setup - ssr
  ELSE setup + (SynchPrescaler - 1 - ssr)

\* The register counts down, and wraps.
ReturnTimeElapsed(setup) ==
  IF setup = Forbidden THEN 0
  ELSE IF setup >= ssr THEN setup - ssr
  ELSE setup + (SynchPrescaler - ssr)

WakeupCounterValue(timeLeft, elapsed) ==
  IF timeLeft < elapsed THEN 0
  ELSE IF timeLeft > elapsed + MaxWakeupTimerSetup THEN MaxWakeupTimerSetup
  ELSE timeLeft - elapsed

\* Mutant: the flag is not set.
AlwaysLargeEnough(timeLeft, elapsed) == "LARGE_ENOUGH"

WakeupTimerLimitation(timeLeft, elapsed) ==
  IF timeLeft > elapsed + MaxWakeupTimerSetup THEN "OVERPASSED"
                                              ELSE "LARGE_ENOUGH"

\* A value of zero simulates that the timer expired.
RestartWakeupCounter(value) ==
  /\ ssrOnLastSetup' = ssr
  /\ pending' = (value = 0)
  /\ wakeupCounter' = IF value = 0 THEN Disabled ELSE value

Remaining(count, elapsed) == IF count < elapsed THEN 0 ELSE count - elapsed

\* The counts of the listed timers become relative to now, and the wake-up
\* counter is set for the first one.
RescheduleTimerList(first, listed, counts, setup) ==
  LET elapsed == ReturnTimeElapsed(setup)
  IN  /\ limitation' = WakeupTimerLimitation(counts[first], elapsed)
      /\ countLeft' = [id \in TimerIds |->
           IF id \in listed THEN Remaining(counts[id], elapsed) ELSE counts[id]]
      /\ RestartWakeupCounter(WakeupCounterValue(counts[first], elapsed))

-----------------------------------------------------------------------------
(* TimerServerHelper.c.                                                    *)

LinkFirst(id) ==
  /\ gCurrentRunningTimerId = NoTimer
  /\ nextId' = [nextId EXCEPT ![id] = NoTimer]
  /\ UNCHANGED previousId
  /\ gPreviousRunningTimerId' = gCurrentRunningTimerId
  /\ gCurrentRunningTimerId' = id

LinkTimerBefore(id, timeLeft) ==
  /\ gCurrentRunningTimerId # NoTimer
  /\ countLeft[gCurrentRunningTimerId] > timeLeft
  /\ nextId' = [nextId EXCEPT ![id] = gCurrentRunningTimerId]
  /\ previousId' = [previousId EXCEPT ![gCurrentRunningTimerId] = id]
  /\ gPreviousRunningTimerId' = gCurrentRunningTimerId
  /\ gCurrentRunningTimerId' = id

\* Mutant: the loop stops early.
IsAnyLookup(lookup, timeLeft) == countLeft[lookup] <= timeLeft

\* The loop of LinkTimer stops at this timer; in a sorted list there is one.
IsLookup(lookup, timeLeft) ==
  /\ countLeft[lookup] <= timeLeft
  /\ nextId[lookup] # NoTimer => countLeft[nextId[lookup]] > timeLeft

LinkTimerAfter(id, timeLeft) ==
  /\ gCurrentRunningTimerId # NoTimer
  /\ countLeft[gCurrentRunningTimerId] <= timeLeft
  /\ \E lookup \in Running :
       /\ IsLookup(lookup, timeLeft)
       /\ nextId' = [nextId EXCEPT ![id] = nextId[lookup], ![lookup] = id]
       /\ previousId' = [t \in TimerIds |->
            IF t = id THEN lookup
            ELSE IF t = nextId[lookup] THEN id
            ELSE previousId[t]]
  /\ UNCHANGED <<gCurrentRunningTimerId, gPreviousRunningTimerId>>

LinkTimer(id, timeLeft) ==
  \/ LinkFirst(id)
  \/ LinkTimerBefore(id, timeLeft)
  \/ LinkTimerAfter(id, timeLeft)

\* Mutant: the back link of the next timer is kept.
UnlinkTimerForward(id) ==
  /\ timerIdStatus' = [timerIdStatus EXCEPT ![id] = "CREATED"]
  /\ IF id = gCurrentRunningTimerId
       THEN /\ gPreviousRunningTimerId' = gCurrentRunningTimerId
            /\ gCurrentRunningTimerId' = nextId[id]
            /\ UNCHANGED <<previousId, nextId>>
       ELSE /\ nextId' = [nextId EXCEPT ![previousId[id]] = nextId[id]]
            /\ UNCHANGED <<gCurrentRunningTimerId, gPreviousRunningTimerId,
                           previousId>>

UnlinkTimer(id) ==
  /\ timerIdStatus' = [timerIdStatus EXCEPT ![id] = "CREATED"]
  /\ IF id = gCurrentRunningTimerId
       THEN /\ gPreviousRunningTimerId' = gCurrentRunningTimerId
            /\ gCurrentRunningTimerId' = nextId[id]
            /\ UNCHANGED <<previousId, nextId>>
       ELSE /\ nextId' = [nextId EXCEPT ![previousId[id]] = nextId[id]]
            /\ previousId' = [t \in TimerIds |->
                 IF t = nextId[id] THEN previousId[id] ELSE previousId[t]]
            /\ UNCHANGED <<gCurrentRunningTimerId, gPreviousRunningTimerId>>

-----------------------------------------------------------------------------
(* TimerServer.c: critical sections.                                       *)

\* The one of StartTimer.
Link(id, ticks) ==
  LET setup == IF gCurrentRunningTimerId = NoTimer THEN Forbidden
                                                   ELSE ssrOnLastSetup
      timeLeft == ticks + ReturnTimeElapsed(setup)
  IN  /\ timerIdStatus' = [timerIdStatus EXCEPT ![id] = "RUNNING"]
      /\ counterInit' = [counterInit EXCEPT ![id] = ticks]
      /\ due' = [due EXCEPT ![id] = ticks]
      /\ LinkTimer(id, timeLeft)
      /\ IF gPreviousRunningTimerId' # gCurrentRunningTimerId'
           THEN RescheduleTimerList(gCurrentRunningTimerId', Running \cup {id},
                                    [countLeft EXCEPT ![id] = timeLeft], setup)
           ELSE /\ countLeft' = [countLeft EXCEPT ![id] = ticks]
                /\ ssrOnLastSetup' = setup
                /\ UNCHANGED <<limitation, wakeupCounter, pending>>

\* Mutant: the wake-up counter is not set for the next timer.
UnlinkAndKeepWakeup(id) ==
  /\ IsRunning(id)
  /\ due' = [due EXCEPT ![id] = 0]
  /\ UnlinkTimer(id)
  /\ IF gCurrentRunningTimerId' = NoTimer
       THEN /\ ssrOnLastSetup' = Forbidden
            /\ wakeupCounter' = Disabled
            /\ UNCHANGED <<pending, countLeft, limitation>>
       ELSE UNCHANGED <<countLeft, wakeup>>
  /\ UNCHANGED counterInit

\* The one of TimerServer_Stop.
Unlink(id) ==
  /\ IsRunning(id)
  /\ due' = [due EXCEPT ![id] = 0]
  /\ UnlinkTimer(id)
  /\ IF gCurrentRunningTimerId' = NoTimer
       THEN /\ ssrOnLastSetup' = Forbidden
            /\ wakeupCounter' = Disabled
            /\ pending' = FALSE
            /\ UNCHANGED <<countLeft, limitation>>
       ELSE IF gPreviousRunningTimerId' # gCurrentRunningTimerId'
       THEN RescheduleTimerList(gCurrentRunningTimerId', Running \ {id}, countLeft,
                                ssrOnLastSetup)
       ELSE UNCHANGED <<countLeft, wakeup>>
  /\ UNCHANGED counterInit

\* TimerServer_Stop of a timer that may have elapsed meanwhile.
StopIfRunning(id) ==
  \/ Unlink(id)
  \/ ~IsRunning(id) /\ UNCHANGED <<list, counterInit, countLeft, wakeup, due>>

\* The interrupt does not wait any more.
WaitEnds == delay' = IF pending' THEN delay ELSE 0

-----------------------------------------------------------------------------
(* Task, and interrupt of the button.                                      *)

\* No higher level runs.
Runs(level) ==
  /\ handler = Idle
  /\ level = "task" => starting["button"] = Idle

OwnTimers(level) ==
  IF level = "button" THEN ButtonTimers ELSE TimerIds \ ButtonTimers

TaskCalls == Runs("task") /\ starting["task"] = Idle

IsFirstFree(id) ==
  /\ timerIdStatus[id] = "FREE"
  /\ \A before \in 0 .. id - 1 : timerIdStatus[before] # "FREE"

CreateTimer ==
  /\ TaskCalls
  /\ \E id \in TimerIds : \E timerMode \in ModesOf[id] :
       /\ IsFirstFree(id)
       /\ timerIdStatus' = [timerIdStatus EXCEPT ![id] = "CREATED"]
       /\ mode' = [mode EXCEPT ![id] = timerMode]
  /\ UNCHANGED <<previousId, nextId, gCurrentRunningTimerId,
                 gPreviousRunningTimerId, counterInit, countLeft, ssr, wakeup,
                 handler, starting, due, delay>>

\* Clients delete a timer after they stopped it.
DeleteTimer ==
  /\ TaskCalls
  /\ \E id \in OwnTimers("task") :
       /\ timerIdStatus[id] = "CREATED"
       /\ timerIdStatus' = [timerIdStatus EXCEPT ![id] = "FREE"]
  /\ UNCHANGED <<previousId, nextId, gCurrentRunningTimerId,
                 gPreviousRunningTimerId, mode, counterInit, countLeft, ssr,
                 wakeup, handler, starting, due, delay>>

\* StartTimer: the status is read before the critical section.  The button
\* does not start its timer again, its interrupt is off.
Start ==
  /\ \E level \in Levels :
       /\ Runs(level)
       /\ starting[level] = Idle
       /\ \E id \in OwnTimers(level), ticks \in Timeouts :
            /\ timerIdStatus[id] # "FREE"
            /\ level = "button" => ~IsRunning(id)
            /\ starting' = [starting EXCEPT ![level] =
                 [pc |-> IF IsRunning(id) THEN "stop" ELSE "link",
                  id |-> id, ticks |-> ticks]]
  /\ UNCHANGED <<list, mode, counterInit, countLeft, ssr, wakeup, handler, due,
                 delay>>

StartStops ==
  /\ \E level \in Levels :
       /\ Runs(level)
       /\ starting[level].pc = "stop"
       /\ StopIfRunning(starting[level].id)
       /\ starting' = [starting EXCEPT ![level].pc = "link"]
  /\ WaitEnds
  /\ UNCHANGED <<mode, ssr, handler>>

StartLinks ==
  /\ \E level \in Levels :
       /\ Runs(level)
       /\ starting[level].pc = "link"
       /\ Link(starting[level].id, starting[level].ticks)
       /\ starting' = [starting EXCEPT ![level] = Idle]
  /\ WaitEnds
  /\ UNCHANGED <<mode, ssr, handler>>

Stop ==
  /\ TaskCalls
  /\ \E id \in OwnTimers("task") : Unlink(id)
  /\ WaitEnds
  /\ UNCHANGED <<mode, ssr, handler, starting>>

-----------------------------------------------------------------------------
(* The interrupt of the wake-up counter: TimerServer_RtcWakeupHandler.     *)

\* The wake-up counter ends early in a tick when its phase is ahead.
WakeupCounterEnds ==
  /\ wakeupCounter = 1
  /\ wakeupCounter' = Disabled
  /\ pending' = TRUE
  /\ UNCHANGED <<list, mode, counterInit, countLeft, ssr, ssrOnLastSetup,
                 limitation, handler, starting, due, delay>>

\* The handler is entered; the current timer is the one that elapsed.
WakeupIsFor(id) ==
  /\ handler = Idle
  /\ pending
  /\ id = gCurrentRunningTimerId
  /\ id # NoTimer

RepeatedElapses ==
  \E id \in TimerIds :
    /\ WakeupIsFor(id)
    /\ limitation # "OVERPASSED"
    /\ mode[id] = "REPEATED"
    /\ UnlinkTimer(id)
    /\ due' = [due EXCEPT ![id] = 0]
    /\ handler' = [Idle EXCEPT !.pc = "restart", !.id = id]
    /\ wakeupCounter' = Disabled
    /\ pending' = FALSE
    /\ UNCHANGED <<mode, counterInit, countLeft, ssr, ssrOnLastSetup, limitation,
                   starting, delay>>

SingleShotElapses ==
  \E id \in TimerIds :
    /\ WakeupIsFor(id)
    /\ limitation # "OVERPASSED"
    /\ mode[id] = "SINGLE_SHOT"
    /\ handler' = [Idle EXCEPT !.pc = "stop", !.id = id]
    /\ wakeupCounter' = Disabled
    /\ pending' = FALSE
    /\ UNCHANGED <<list, mode, counterInit, countLeft, ssr, ssrOnLastSetup,
                   limitation, starting, due, delay>>

\* Only a part of the time was set.
PartElapses ==
  \E id \in TimerIds :
    /\ WakeupIsFor(id)
    /\ limitation = "OVERPASSED"
    /\ RescheduleTimerList(id, Running, countLeft, ssrOnLastSetup)
    /\ WaitEnds
    /\ UNCHANGED <<list, mode, counterInit, ssr, handler, starting, due>>

HandlerRestarts ==
  /\ handler.pc = "restart"
  /\ Link(handler.id, counterInit[handler.id])
  /\ handler' = [handler EXCEPT !.pc = "callback"]
  /\ UNCHANGED <<mode, ssr, starting, delay>>

HandlerStops ==
  /\ handler.pc = "stop"
  /\ StopIfRunning(handler.id)
  /\ handler' = [handler EXCEPT !.pc = "callback"]
  /\ UNCHANGED <<mode, ssr, starting, delay>>

\* The callback of the button may stop its timer.
CallbackStops ==
  /\ handler.pc = "callback"
  /\ handler.id \in ButtonTimers
  /\ Unlink(handler.id)
  /\ UNCHANGED <<mode, ssr, handler, starting, delay>>

HandlerReturns ==
  /\ handler.pc = "callback"
  /\ handler' = Idle
  /\ UNCHANGED <<list, mode, counterInit, countLeft, ssr, wakeup, starting, due>>
  /\ WaitEnds

-----------------------------------------------------------------------------
(* Clock.                                                                  *)

IsWaiting == pending \/ handler # Idle

\* The interrupt is not held up for longer than HandlerMaxDelay.
Tick ==
  /\ IsWaiting => delay < HandlerMaxDelay
  /\ delay' = IF IsWaiting THEN delay + 1 ELSE 0
  /\ ssr' = IF ssr = 0 THEN SynchPrescaler - 1 ELSE ssr - 1
  /\ due' = [id \in TimerIds |-> IF IsRunning(id) THEN due[id] - 1 ELSE due[id]]
  /\ IF wakeupCounter = 1
       THEN wakeupCounter' = Disabled /\ pending' = TRUE
       ELSE /\ wakeupCounter' = IF wakeupCounter = Disabled THEN Disabled
                                                            ELSE wakeupCounter - 1
            /\ UNCHANGED pending
  /\ UNCHANGED <<list, mode, counterInit, countLeft, ssrOnLastSetup, limitation,
                 handler, starting>>

-----------------------------------------------------------------------------
(* Specification.                                                          *)

Init ==
  /\ timerIdStatus = [id \in TimerIds |-> "FREE"]
  /\ mode = [id \in TimerIds |-> "SINGLE_SHOT"]
  /\ counterInit = [id \in TimerIds |-> 0]
  /\ countLeft = [id \in TimerIds |-> 0]
  /\ previousId = [id \in TimerIds |-> 0]
  /\ nextId = [id \in TimerIds |-> 0]
  /\ gCurrentRunningTimerId = NoTimer
  /\ gPreviousRunningTimerId = 0
  /\ ssr = SynchPrescaler - 1
  /\ ssrOnLastSetup = Forbidden
  /\ limitation = "OVERPASSED"
  /\ wakeupCounter = Disabled
  /\ pending = FALSE
  /\ handler = Idle
  /\ starting = [level \in Levels |-> Idle]
  /\ due = [id \in TimerIds |-> 0]
  /\ delay = 0
  /\ calls = 0

\* Calls of clients.
Call ==
  /\ calls < MaxCalls
  /\ calls' = calls + 1
  /\ DeleteTimer \/ Start \/ Stop \/ CallbackStops

Step ==
  /\ UNCHANGED calls
  /\ \/ CreateTimer \/ StartStops \/ StartLinks
     \/ RepeatedElapses \/ SingleShotElapses \/ PartElapses
     \/ HandlerRestarts \/ HandlerStops \/ HandlerReturns
     \/ WakeupCounterEnds \/ Tick

Next == Call \/ Step

Spec == Init /\ [][Next]_vars

-----------------------------------------------------------------------------
(* Properties.                                                             *)

(***************************************************************************)
(* Next and previous timer of gTimerContext link the running timers, and   *)
(* no others, in both directions, and nothing comes before the current     *)
(* one, whatever is started, stopped and elapses in between.               *)
(***************************************************************************)
ListIsLinked ==
  /\ gCurrentRunningTimerId \in Running \cup {NoTimer}
  /\ \A id \in Running :
       /\ nextId[id] \in Running \cup {NoTimer}
       /\ nextId[id] # NoTimer => /\ previousId[nextId[id]] = id
                                 /\ nextId[id] # gCurrentRunningTimerId
       /\ id # gCurrentRunningTimerId =>
            previousId[id] \in Running /\ nextId[previousId[id]] = id

(***************************************************************************)
(* The first timer is the next one to elapse: counts do not decrease along *)
(* the list, though they are relative to different times until they are    *)
(* rescheduled.                                                            *)
(***************************************************************************)
ListIsSorted ==
  \A id \in Running :
    nextId[id] # NoTimer => countLeft[id] <= countLeft[nextId[id]]

(***************************************************************************)
(* The branch of StartTimer that does not reschedule, and leaves the count *)
(* of the new timer too small, is never taken: the two ids differ.         *)
(***************************************************************************)
AlwaysReschedules == gPreviousRunningTimerId # gCurrentRunningTimerId

(***************************************************************************)
(* A wake-up is not lost: as long as a timer runs there is a current one,  *)
(* and the counter is armed, or its interrupt is pending or served.        *)
(***************************************************************************)
WakeupIsNotLost ==
  Running # {} =>
    /\ gCurrentRunningTimerId # NoTimer
    /\ wakeupCounter # Disabled \/ pending \/ handler # Idle

(***************************************************************************)
(* TimerServer.c:194-195 "We should never end up in this case": the        *)
(* handler always finds a running timer.                                   *)
(***************************************************************************)
WakeupFindsTimer == pending /\ handler = Idle => Running # {}

(***************************************************************************)
(* No timer elapses before its time, up to the phase of the counter, also  *)
(* when others are started and stopped, the register wraps and the time is *)
(* longer than the counter can count.                                      *)
(***************************************************************************)
NeverEarly ==
  [][\A id \in TimerIds :
       handler = Idle /\ handler' # Idle /\ handler'.id = id => due[id] <= 1]_vars

(***************************************************************************)
(* No timer is later than the interrupt may be delayed.                    *)
(***************************************************************************)
NeverLate == \A id \in Running : due[id] >= -HandlerMaxDelay

=============================================================================
