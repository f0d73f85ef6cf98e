------------------------- MODULE TimerServerProofs -------------------------
(***************************************************************************)
(* Proofs about TimerServer, for any number of timers and calls, any       *)
(* timeouts and any prescaler: the types, the links and the order of       *)
(* gTimerContext, that no wake-up is lost, and that timers elapse neither  *)
(* early nor late.                                                         *)
(***************************************************************************)
EXTENDS TimerServer, TLAPS

(***************************************************************************)
(* A timer that a level or the handler is about to link is not on the list *)
(* and is not linked by somebody else: timers have one owner, and the      *)
(* handler runs to its end.                                                *)
(***************************************************************************)
LinkTargets ==
  /\ \A level \in Levels :
       starting[level].pc # "idle" => starting[level].id \in OwnTimers(level)
  /\ \A level \in Levels :
       starting[level].pc = "link" => ~IsRunning(starting[level].id)
  /\ handler.pc # "idle" => handler.id \in TimerIds
  /\ handler.pc = "restart" =>
       /\ ~IsRunning(handler.id)
       /\ \A level \in Levels :
            starting[level].pc = "link" => starting[level].id # handler.id

ListInv == ListIsLinked /\ AlwaysReschedules

IInv == TypeOK /\ LinkTargets /\ ListInv

ListType ==
  /\ timerIdStatus \in [TimerIds -> {"FREE", "CREATED", "RUNNING"}]
  /\ previousId \in [TimerIds -> TimerIds]
  /\ nextId \in [TimerIds -> 0 .. NoTimer]
  /\ gCurrentRunningTimerId \in 0 .. NoTimer
  /\ gPreviousRunningTimerId \in 0 .. NoTimer

WakeupType ==
  /\ countLeft \in [TimerIds -> Nat]
  /\ ssrOnLastSetup \in 0 .. SynchPrescaler - 1 \cup {Forbidden}
  /\ limitation \in {"OVERPASSED", "LARGE_ENOUGH"}
  /\ wakeupCounter \in Nat \cup {Disabled}
  /\ pending \in BOOLEAN

-----------------------------------------------------------------------------
(* The list.                                                               *)

LEMMA LinkTimerKeepsList ==
  ASSUME ListType, ListInv, NEW id \in TimerIds, ~IsRunning(id), NEW timeLeft,
         timerIdStatus' = [timerIdStatus EXCEPT ![id] = "RUNNING"],
         LinkTimer(id, timeLeft)
  PROVE  ListType' /\ ListInv'
<1>1. Running' = Running \cup {id} /\ id \notin Running
  BY DEF Running, IsRunning, ListType
<1>2. timerIdStatus' \in [TimerIds -> {"FREE", "CREATED", "RUNNING"}]
  BY DEF ListType
<1>3. id # NoTimer /\ id \in 0 .. NoTimer /\ Running \subseteq TimerIds
      /\ NoTimer \in 0 .. NoTimer /\ NoTimer \notin TimerIds
  BY TimerServerAssumption DEF TimerIds, NoTimer, Running
<1>4. CASE LinkFirst(id)
  <2>1. ListType'
    BY <1>2, <1>3, <1>4 DEF LinkFirst, ListType
  <2>2. ListIsLinked'
    BY <1>1, <1>3, <1>4 DEF LinkFirst, ListType, ListInv, ListIsLinked
  <2>3. AlwaysReschedules'
    BY <1>3, <1>4 DEF LinkFirst, AlwaysReschedules
  <2>4. QED
    BY <2>1, <2>2, <2>3 DEF ListInv
<1>5. CASE LinkTimerBefore(id, timeLeft)
  <2>1. gCurrentRunningTimerId \in Running
    BY <1>5 DEF LinkTimerBefore, ListInv, ListIsLinked
  <2>2. ListType'
    BY <1>2, <1>3, <1>5, <2>1 DEF LinkTimerBefore, ListType
  <2>3. ListIsLinked'
    BY <1>1, <1>3, <1>5, <2>1 DEF LinkTimerBefore, ListType, ListInv, ListIsLinked
  <2>4. AlwaysReschedules'
    BY <1>1, <1>5, <2>1 DEF LinkTimerBefore, AlwaysReschedules
  <2>5. QED
    BY <2>2, <2>3, <2>4 DEF ListInv
<1>6. CASE LinkTimerAfter(id, timeLeft)
  <2>1. PICK lookup \in Running :
          /\ nextId' = [nextId EXCEPT ![id] = nextId[lookup], ![lookup] = id]
          /\ previousId' = [t \in TimerIds |->
               IF t = id THEN lookup
               ELSE IF t = nextId[lookup] THEN id
               ELSE previousId[t]]
    BY <1>6 DEF LinkTimerAfter
  <2>2. /\ gCurrentRunningTimerId \in Running
        /\ UNCHANGED <<gCurrentRunningTimerId, gPreviousRunningTimerId>>
    BY <1>6 DEF LinkTimerAfter, ListInv, ListIsLinked
  <2>3. ListType'
    BY <1>2, <1>3, <2>1, <2>2 DEF ListType
  <2>4. ListIsLinked'
    <3> DEFINE after == nextId[lookup]
    <3>1. lookup \in Running /\ lookup \in TimerIds /\ lookup # id /\ after \in Running \cup {NoTimer}
          /\ after # id /\ nextId[lookup] = after
      BY <1>1, <1>3 DEF ListInv, ListIsLinked
    <3>2. /\ nextId'[id] = after
          /\ nextId'[lookup] = id
          /\ \A t \in TimerIds \ {id, lookup} : nextId'[t] = nextId[t]
      BY <2>1, <3>1 DEF ListType
    <3>3. /\ previousId'[id] = lookup
          /\ after # NoTimer => previousId'[after] = id
          /\ \A t \in TimerIds \ {id, after} : previousId'[t] = previousId[t]
      BY <1>3, <2>1, <3>1
    <3>4. /\ after # NoTimer => previousId[after] = lookup
          /\ after # gCurrentRunningTimerId
      BY <1>3, <2>1, <2>2, <3>1 DEF ListInv, ListIsLinked
    <3> HIDE DEF after
    <3>5. ASSUME NEW t \in Running'
          PROVE  /\ nextId'[t] \in Running' \cup {NoTimer}
                 /\ nextId'[t] # NoTimer => /\ previousId'[nextId'[t]] = t
                                           /\ nextId'[t] # gCurrentRunningTimerId'
                 /\ t # gCurrentRunningTimerId' =>
                      previousId'[t] \in Running' /\ nextId'[previousId'[t]] = t
      <4>1. CASE t = id
        BY <1>1, <1>3, <2>2, <3>1, <3>2, <3>3, <3>4, <4>1
      <4>2. CASE t = lookup
        <5>1. CASE after = lookup
          BY <1>1, <1>3, <2>2, <3>1, <3>2, <3>3, <3>4, <4>2, <5>1
        <5>2. CASE after # lookup
          <6>1. t # gCurrentRunningTimerId =>
                  /\ previousId[t] \in Running
                  /\ nextId[previousId[t]] = t
                  /\ previousId[t] # lookup
            BY <3>1, <4>2, <5>2 DEF ListInv, ListIsLinked
          <6>2. t # gCurrentRunningTimerId =>
                  /\ previousId'[t] = previousId[t]
                  /\ nextId'[previousId[t]] = t
            BY <1>1, <1>3, <3>1, <3>2, <3>3, <4>2, <5>2, <6>1
          <6> QED
            BY <1>1, <1>3, <2>2, <3>1, <3>2, <3>3, <4>2, <5>2, <6>1, <6>2
        <5> QED
          BY <5>1, <5>2
      <4>3. CASE t # id /\ t # lookup
        <5>1. /\ t \in Running
              /\ nextId[t] \in Running \cup {NoTimer}
              /\ nextId[t] # NoTimer => /\ previousId[nextId[t]] = t
                                       /\ nextId[t] # gCurrentRunningTimerId
              /\ t # gCurrentRunningTimerId =>
                   previousId[t] \in Running /\ nextId[previousId[t]] = t
          BY <1>1, <4>3 DEF ListInv, ListIsLinked
        <5>2. nextId[t] # NoTimer => nextId[t] # after /\ nextId[t] # id
          BY <1>1, <3>4, <4>3, <5>1
        <5>3. /\ nextId'[t] = nextId[t]
              /\ nextId[t] # NoTimer => previousId'[nextId[t]] = t
          BY <1>1, <1>3, <3>2, <3>3, <4>3, <5>1, <5>2
        <5>4. t # gCurrentRunningTimerId =>
                previousId'[t] \in Running' /\ nextId'[previousId'[t]] = t
          <6>1. CASE t = after
            BY <1>1, <1>3, <3>2, <3>3, <6>1
          <6>2. CASE t # after
            <7>1. ASSUME t # gCurrentRunningTimerId
                  PROVE  /\ previousId'[t] = previousId[t]
                         /\ previousId[t] \in TimerIds \ {id, lookup}
              BY <1>1, <1>3, <3>1, <3>3, <4>3, <5>1, <6>2, <7>1
            <7> QED
              BY <1>1, <3>2, <5>1, <7>1
          <6> QED
            BY <6>1, <6>2
        <5> QED
          BY <1>1, <2>2, <5>1, <5>3, <5>4
      <4> QED
        BY <4>1, <4>2, <4>3
    <3> QED
      BY <1>1, <2>2, <3>5 DEF ListIsLinked
  <2>5. AlwaysReschedules'
    BY <2>2 DEF ListInv, AlwaysReschedules
  <2>6. QED
    BY <2>3, <2>4, <2>5 DEF ListInv
<1>7. QED
  BY <1>4, <1>5, <1>6 DEF LinkTimer

LEMMA UnlinkTimerKeepsList ==
  ASSUME ListType, ListInv, NEW id \in TimerIds, IsRunning(id), UnlinkTimer(id)
  PROVE  ListType' /\ ListInv'
<1>1. Running' = Running \ {id} /\ id \in Running
  BY DEF Running, IsRunning, ListType, UnlinkTimer
<1>2. timerIdStatus' \in [TimerIds -> {"FREE", "CREATED", "RUNNING"}]
  BY DEF ListType, UnlinkTimer
<1>3. id # NoTimer /\ Running \subseteq TimerIds /\ NoTimer \notin TimerIds
  BY TimerServerAssumption DEF TimerIds, NoTimer, Running
<1>4. CASE id = gCurrentRunningTimerId
  <2>1. ListType'
    BY <1>2, <1>4 DEF UnlinkTimer, ListType
  <2>2. ListIsLinked'
    BY <1>1, <1>3, <1>4 DEF UnlinkTimer, ListType, ListInv, ListIsLinked
  <2>3. AlwaysReschedules'
    BY <1>1, <1>3, <1>4 DEF UnlinkTimer, ListInv, ListIsLinked, AlwaysReschedules
  <2>4. QED
    BY <2>1, <2>2, <2>3 DEF ListInv
<1>5. CASE id # gCurrentRunningTimerId
  <2>1. ListType'
    BY <1>2, <1>5 DEF UnlinkTimer, ListType
  <2>2. ListIsLinked'
    <3> DEFINE before == previousId[id]
               after == nextId[id]
    <3>1. /\ before \in Running /\ nextId[before] = id /\ before \in TimerIds
          /\ after \in Running \cup {NoTimer}
          /\ after # NoTimer => previousId[after] = id
                             /\ after # gCurrentRunningTimerId
          /\ previousId[id] = before /\ nextId[id] = after
          /\ UNCHANGED gCurrentRunningTimerId
          /\ gCurrentRunningTimerId \in Running' \cup {NoTimer}
      BY <1>1, <1>3, <1>5 DEF ListInv, ListIsLinked, UnlinkTimer
    <3>2. /\ nextId'[before] = after
          /\ \A t \in TimerIds \ {before} : nextId'[t] = nextId[t]
          /\ after # NoTimer => previousId'[after] = before
          /\ \A t \in TimerIds \ {after} : previousId'[t] = previousId[t]
      BY <1>3, <1>5, <3>1 DEF UnlinkTimer, ListType
    <3> HIDE DEF before, after
    <3>3. ASSUME NEW t \in Running'
          PROVE  /\ nextId'[t] \in Running' \cup {NoTimer}
                 /\ nextId'[t] # NoTimer => /\ previousId'[nextId'[t]] = t
                                           /\ nextId'[t] # gCurrentRunningTimerId'
                 /\ t # gCurrentRunningTimerId' =>
                      previousId'[t] \in Running' /\ nextId'[previousId'[t]] = t
      <4>1. /\ t \in Running /\ t # id /\ t \in TimerIds
            /\ nextId[t] \in Running \cup {NoTimer}
            /\ nextId[t] # NoTimer => /\ previousId[nextId[t]] = t
                                     /\ nextId[t] # gCurrentRunningTimerId
            /\ t # gCurrentRunningTimerId =>
                 previousId[t] \in Running /\ nextId[previousId[t]] = t
        BY <1>1, <1>3 DEF ListInv, ListIsLinked
      <4>2. /\ nextId'[t] \in Running' \cup {NoTimer}
            /\ nextId'[t] # NoTimer => /\ previousId'[nextId'[t]] = t
                                      /\ nextId'[t] # gCurrentRunningTimerId
        <5>1. CASE t = before
          BY <1>1, <1>3, <3>1, <3>2, <4>1, <5>1
        <5>2. CASE t # before
          <6>1. nextId[t] # id /\ nextId'[t] = nextId[t]
            BY <1>3, <3>1, <3>2, <4>1, <5>2
          <6>2. nextId[t] # NoTimer => nextId[t] # after
            BY <1>3, <3>1, <4>1
          <6> QED
            BY <1>1, <1>3, <3>2, <4>1, <6>1, <6>2
        <5> QED
          BY <5>1, <5>2
      <4>3. t # gCurrentRunningTimerId =>
              previousId'[t] \in Running' /\ nextId'[previousId'[t]] = t
        <5>1. CASE t = after
          BY <1>1, <1>3, <3>1, <3>2, <4>1, <5>1
        <5>2. CASE t # after
          <6>1. ASSUME t # gCurrentRunningTimerId
                PROVE  /\ previousId'[t] = previousId[t]
                       /\ previousId[t] # id /\ previousId[t] # before
            BY <3>1, <3>2, <4>1, <5>2, <6>1
          <6> QED
            BY <1>1, <1>3, <3>2, <4>1, <6>1
        <5> QED
          BY <5>1, <5>2
      <4> QED
        BY <3>1, <4>2, <4>3
    <3> QED
      BY <1>1, <3>1, <3>3 DEF ListIsLinked
  <2>3. AlwaysReschedules'
    BY <1>5 DEF UnlinkTimer, ListInv, AlwaysReschedules
  <2>4. QED
    BY <2>1, <2>2, <2>3 DEF ListInv
<1>6. QED
  BY <1>4, <1>5

-----------------------------------------------------------------------------
(* The wake-up counter.                                                    *)

\* Elapsed times and set-ups are natural numbers.
LEMMA RescheduleType ==
  ASSUME ssr \in 0 .. SynchPrescaler - 1,
         NEW first \in TimerIds, NEW listed,
         NEW counts \in [TimerIds -> Nat],
         NEW setup \in 0 .. SynchPrescaler - 1 \cup {Forbidden}
  PROVE  /\ ReturnTimeElapsed(setup) \in Nat
         /\ RescheduleTimerList(first, listed, counts, setup) => WakeupType'
<1> DEFINE elapsed == ReturnTimeElapsed(setup)
           value == WakeupCounterValue(counts[first], elapsed)
<1>1. SynchPrescaler \in Nat /\ MaxWakeupTimerSetup \in Nat
  BY TimerServerAssumption DEF MaxWakeupTimerSetup
<1>2. elapsed \in Nat
  BY <1>1 DEF ReturnTimeElapsed, Forbidden
<1> HIDE DEF elapsed
<1>3. value \in Nat
  BY <1>1, <1>2 DEF WakeupCounterValue
<1>4. \A id \in TimerIds : Remaining(counts[id], elapsed) \in Nat
  BY <1>2 DEF Remaining
<1>5. WakeupTimerLimitation(counts[first], elapsed) \in {"OVERPASSED", "LARGE_ENOUGH"}
  BY DEF WakeupTimerLimitation
<1> HIDE DEF value
<1>6. ASSUME RescheduleTimerList(first, listed, counts, setup)
      PROVE  WakeupType'
  <2>1. /\ limitation' = WakeupTimerLimitation(counts[first], elapsed)
        /\ countLeft' = [id \in TimerIds |->
             IF id \in listed THEN Remaining(counts[id], elapsed) ELSE counts[id]]
        /\ ssrOnLastSetup' = ssr
        /\ wakeupCounter' = IF value = 0 THEN Disabled ELSE value
    BY <1>6 DEF RescheduleTimerList, RestartWakeupCounter, elapsed, value
  <2>2. pending' \in BOOLEAN
    BY <1>6, Zenon DEF RescheduleTimerList, RestartWakeupCounter
  <2>3. countLeft' \in [TimerIds -> Nat]
    BY <1>4, <2>1
  <2> QED
    BY <1>3, <1>5, <2>1, <2>2, <2>3 DEF WakeupType
<1> QED
  BY <1>2, <1>6 DEF elapsed

LEMMA LinkType ==
  ASSUME TypeOK, ListInv, NEW id \in TimerIds, ~IsRunning(id), NEW ticks \in Nat,
         Link(id, ticks)
  PROVE  /\ ListType' /\ ListInv' /\ WakeupType'
         /\ counterInit' \in [TimerIds -> Nat]
         /\ due' \in [TimerIds -> Int]
         /\ timerIdStatus' = [timerIdStatus EXCEPT ![id] = "RUNNING"]
<1> DEFINE setup == IF gCurrentRunningTimerId = NoTimer THEN Forbidden
                                                        ELSE ssrOnLastSetup
           timeLeft == ticks + ReturnTimeElapsed(setup)
           counts == [countLeft EXCEPT ![id] = timeLeft]
<1>1. ListType /\ ssr \in 0 .. SynchPrescaler - 1
  BY DEF TypeOK, ListType
<1>2. setup \in 0 .. SynchPrescaler - 1 \cup {Forbidden}
  BY DEF TypeOK
<1>3. /\ timerIdStatus' = [timerIdStatus EXCEPT ![id] = "RUNNING"]
      /\ counterInit' = [counterInit EXCEPT ![id] = ticks]
      /\ due' = [due EXCEPT ![id] = ticks]
      /\ LinkTimer(id, timeLeft)
  BY DEF Link
<1>4. IF gPreviousRunningTimerId' # gCurrentRunningTimerId'
        THEN RescheduleTimerList(gCurrentRunningTimerId', Running \cup {id},
                                 counts, setup)
        ELSE /\ countLeft' = [countLeft EXCEPT ![id] = ticks]
             /\ ssrOnLastSetup' = setup
             /\ UNCHANGED <<limitation, wakeupCounter, pending>>
  BY DEF Link
<1> HIDE DEF setup
<1>5. ReturnTimeElapsed(setup) \in Nat
  BY <1>1, <1>2, RescheduleType DEF TypeOK
<1>6. counts \in [TimerIds -> Nat]
  BY <1>5 DEF TypeOK
<1> HIDE DEF timeLeft
<1>7. ListType' /\ ListInv'
  BY <1>1, <1>3, LinkTimerKeepsList
<1>8. gCurrentRunningTimerId' \in TimerIds
  <2>1. gCurrentRunningTimerId # NoTimer => gCurrentRunningTimerId \in TimerIds
    BY <1>1, TimerServerAssumption DEF ListType, TimerIds, NoTimer
  <2> QED
    BY <1>3, <2>1 DEF LinkTimer, LinkFirst, LinkTimerBefore, LinkTimerAfter
<1> HIDE DEF counts
<1>9. RescheduleTimerList(gCurrentRunningTimerId', Running \cup {id}, counts, setup)
  BY <1>4, <1>7 DEF ListInv, AlwaysReschedules
<1>10. WakeupType'
  BY <1>1, <1>2, <1>6, <1>8, <1>9, RescheduleType
<1>11. counterInit' \in [TimerIds -> Nat] /\ due' \in [TimerIds -> Int]
  BY <1>3 DEF TypeOK
<1> QED
  BY <1>3, <1>7, <1>10, <1>11

LEMMA UnlinkType ==
  ASSUME TypeOK, ListInv, NEW id \in TimerIds, Unlink(id)
  PROVE  /\ ListType' /\ ListInv' /\ WakeupType'
         /\ counterInit' \in [TimerIds -> Nat]
         /\ due' \in [TimerIds -> Int]
         /\ timerIdStatus' = [timerIdStatus EXCEPT ![id] = "CREATED"]
<1>1. ListType /\ ssr \in 0 .. SynchPrescaler - 1
      /\ ssrOnLastSetup \in 0 .. SynchPrescaler - 1 \cup {Forbidden}
      /\ countLeft \in [TimerIds -> Nat]
  BY DEF TypeOK, ListType
<1>2. WakeupType
  BY DEF TypeOK, WakeupType
<1>3. /\ IsRunning(id)
      /\ due' = [due EXCEPT ![id] = 0]
      /\ UnlinkTimer(id)
      /\ UNCHANGED counterInit
  BY DEF Unlink
<1>4. ListType' /\ ListInv'
  BY <1>1, <1>3, UnlinkTimerKeepsList
<1>7. /\ counterInit' \in [TimerIds -> Nat] /\ due' \in [TimerIds -> Int]
      /\ timerIdStatus' = [timerIdStatus EXCEPT ![id] = "CREATED"]
  BY <1>3 DEF TypeOK, UnlinkTimer
<1>8. WakeupType'
  <2>1. CASE gCurrentRunningTimerId' = NoTimer
    BY <1>2, <2>1 DEF Unlink, WakeupType
  <2>2. CASE gCurrentRunningTimerId' # NoTimer
    <3>1. gCurrentRunningTimerId' \in TimerIds
      BY <1>4, <2>2, TimerServerAssumption DEF ListType, TimerIds, NoTimer
    <3>2. RescheduleTimerList(gCurrentRunningTimerId', Running \ {id}, countLeft,
                              ssrOnLastSetup)
      BY <1>4, <2>2 DEF Unlink, ListInv, AlwaysReschedules
    <3> QED
      BY <1>1, <3>1, <3>2, RescheduleType
  <2> QED
    BY <2>1, <2>2
<1> QED
  BY <1>4, <1>7, <1>8

-----------------------------------------------------------------------------
(* The specification.                                                      *)

\* What is left of TypeOK when a list operation has been done.
RestType ==
  /\ mode \in [TimerIds -> Modes]
  /\ ssr \in 0 .. SynchPrescaler - 1
  /\ handler \in [pc : {"idle", "restart", "stop", "callback"},
                  id : 0 .. NoTimer, ticks : {0}]
  /\ starting \in [Levels -> [pc : {"idle", "stop", "link"}, id : 0 .. NoTimer,
                              ticks : Nat]]
  /\ delay \in Nat /\ calls \in Nat

LEMMA TypeParts ==
  TypeOK <=> /\ ListType /\ WakeupType /\ RestType
             /\ counterInit \in [TimerIds -> Nat]
             /\ due \in [TimerIds -> Int]
<1>1. TypeOK => /\ ListType /\ WakeupType /\ RestType
                /\ counterInit \in [TimerIds -> Nat]
                /\ due \in [TimerIds -> Int]
  BY DEF TypeOK, ListType, WakeupType, RestType
<1>2. ASSUME ListType, WakeupType, RestType, counterInit \in [TimerIds -> Nat],
             due \in [TimerIds -> Int]
      PROVE  TypeOK
  BY <1>2 DEF TypeOK, ListType, WakeupType, RestType
<1> QED
  BY <1>1, <1>2

LEMMA NextTypeParts ==
  ASSUME ListType', WakeupType', RestType', counterInit' \in [TimerIds -> Nat],
         due' \in [TimerIds -> Int]
  PROVE  TypeOK'
BY DEF TypeOK, ListType, WakeupType, RestType

LEMMA IdleType ==
  /\ Idle \in [pc : {"idle", "restart", "stop", "callback"}, id : 0 .. NoTimer,
               ticks : {0}]
  /\ Idle \in [pc : {"idle", "stop", "link"}, id : 0 .. NoTimer, ticks : Nat]
  /\ Idle.pc = "idle"
  /\ \A id \in TimerIds : id \in 0 .. NoTimer
BY TimerServerAssumption DEF Idle, NoTimer, TimerIds

\* A timer belongs to one level.
LEMMA Owners ==
  /\ \A level \in Levels : OwnTimers(level) \subseteq TimerIds
  /\ OwnTimers("task") \cap OwnTimers("button") = {}
  /\ Levels = {"task", "button"}
BY TimerServerAssumption DEF OwnTimers, Levels, TimerIds

THEOREM InitInvariant == Init => IInv
<1> SUFFICES ASSUME Init PROVE IInv
  OBVIOUS
<1>1. ListType /\ counterInit \in [TimerIds -> Nat] /\ due \in [TimerIds -> Int]
  BY TimerServerAssumption DEF Init, ListType, TimerIds, NoTimer
<1>2. WakeupType
  BY DEF Init, WakeupType, Forbidden, Disabled
<1>3. RestType
  <2>1. ssr \in 0 .. SynchPrescaler - 1
    BY TimerServerAssumption DEF Init
  <2> QED
    BY <2>1, IdleType DEF Init, RestType, Modes, Levels
<1>4. LinkTargets
  BY IdleType DEF Init, LinkTargets
<1>5. ListInv
  <2>1. Running = {}
    BY DEF Init, Running, IsRunning
  <2> QED
    BY <2>1, TimerServerAssumption DEF Init, ListInv, ListIsLinked,
       AlwaysReschedules, NoTimer
<1> QED
  BY <1>1, <1>2, <1>3, <1>4, <1>5, TypeParts DEF IInv

\* ListIsLinked depends on the running timers and their links only.
LEMMA SameList ==
  ASSUME ListInv, Running' = Running,
         UNCHANGED <<previousId, nextId, gCurrentRunningTimerId,
                     gPreviousRunningTimerId>>
  PROVE  ListInv'
BY DEF ListInv, ListIsLinked, AlwaysReschedules

LEMMA CreateTimerKeeps ==
  ASSUME IInv, CreateTimer, UNCHANGED calls PROVE IInv'
<1>1. PICK id \in TimerIds : \E timerMode \in ModesOf[id] :
        /\ timerIdStatus[id] = "FREE"
        /\ timerIdStatus' = [timerIdStatus EXCEPT ![id] = "CREATED"]
        /\ mode' = [mode EXCEPT ![id] = timerMode]
  BY DEF CreateTimer, IsFirstFree
<1>2. /\ Runs("task") /\ starting["task"] = Idle
      /\ UNCHANGED <<previousId, nextId, gCurrentRunningTimerId,
                     gPreviousRunningTimerId, counterInit, countLeft, ssr, wakeup,
                     handler, starting, due, delay, calls>>
  BY DEF CreateTimer, TaskCalls
<1>3. ListType /\ WakeupType /\ RestType /\ counterInit \in [TimerIds -> Nat]
      /\ due \in [TimerIds -> Int]
  BY TypeParts DEF IInv
<1>4. ListType' /\ WakeupType'
  <2>1. WakeupType'
    BY <1>2, <1>3 DEF WakeupType, wakeup
  <2> QED
    BY <1>1, <1>2, <1>3, <2>1 DEF ListType
<1>5. RestType'
  <2>1. mode' \in [TimerIds -> Modes]
    BY <1>1, <1>3, TimerServerAssumption DEF RestType, Modes, TimerIds
  <2> QED
    BY <1>2, <1>3, <2>1 DEF RestType
<1>6. \A t \in TimerIds : IsRunning(t)' <=> IsRunning(t)
  BY <1>1, <1>3 DEF ListType, IsRunning
<1>7. LinkTargets'
  BY <1>2, <1>6, Owners, IdleType DEF IInv, LinkTargets, Runs
<1>8. ListInv'
  <2>1. Running' = Running
    BY <1>6 DEF Running
  <2> QED
    BY <1>2, <2>1, SameList DEF IInv
<1> QED
  BY <1>2, <1>3, <1>4, <1>5, <1>7, <1>8, NextTypeParts DEF IInv

LEMMA DeleteTimerKeeps ==
  ASSUME IInv, DeleteTimer, calls' = calls + 1 PROVE IInv'
<1>1. PICK id \in TimerIds :
        /\ timerIdStatus[id] = "CREATED"
        /\ timerIdStatus' = [timerIdStatus EXCEPT ![id] = "FREE"]
  BY Owners DEF DeleteTimer
<1>2. /\ Runs("task") /\ starting["task"] = Idle
      /\ UNCHANGED <<previousId, nextId, gCurrentRunningTimerId,
                     gPreviousRunningTimerId, mode, counterInit, countLeft, ssr,
                     wakeup, handler, starting, due, delay>>
  BY DEF DeleteTimer, TaskCalls
<1>3. ListType /\ WakeupType /\ RestType /\ counterInit \in [TimerIds -> Nat]
      /\ due \in [TimerIds -> Int]
  BY TypeParts DEF IInv
<1>4. ListType' /\ WakeupType'
  <2>1. WakeupType'
    BY <1>2, <1>3 DEF WakeupType, wakeup
  <2> QED
    BY <1>1, <1>2, <1>3, <2>1 DEF ListType
<1>5. RestType'
  BY <1>2, <1>3 DEF RestType
<1>6. \A t \in TimerIds : IsRunning(t)' <=> IsRunning(t)
  BY <1>1, <1>3 DEF ListType, IsRunning
<1>7. LinkTargets'
  BY <1>2, <1>6, Owners, IdleType DEF IInv, LinkTargets, Runs
<1>8. ListInv'
  <2>1. Running' = Running
    BY <1>6 DEF Running
  <2> QED
    BY <1>2, <2>1, SameList DEF IInv
<1> QED
  BY <1>2, <1>3, <1>4, <1>5, <1>7, <1>8, NextTypeParts DEF IInv

\* Steps that leave the list alone.
LEMMA OtherListKept ==
  ASSUME IInv, UNCHANGED list
  PROVE  /\ ListType' /\ ListInv'
         /\ \A id : IsRunning(id)' <=> IsRunning(id)
<1>1. ListType /\ ListInv
  BY TypeParts DEF IInv
<1>2. \A id : IsRunning(id)' <=> IsRunning(id)
  BY DEF list, IsRunning
<1>3. Running' = Running
  BY <1>2 DEF Running
<1> QED
  BY <1>1, <1>2, <1>3, SameList DEF list, ListType

LEMMA StartKeeps ==
  ASSUME IInv, Start, calls' = calls + 1 PROVE IInv'
<1>1. PICK level \in Levels : \E id \in OwnTimers(level), ticks \in Timeouts :
        /\ Runs(level)
        /\ starting[level] = Idle
        /\ starting' = [starting EXCEPT ![level] =
             [pc |-> IF IsRunning(id) THEN "stop" ELSE "link",
              id |-> id, ticks |-> ticks]]
  BY DEF Start
<1>2. PICK id \in OwnTimers(level), ticks \in Timeouts :
        /\ Runs(level)
        /\ starting' = [starting EXCEPT ![level] =
             [pc |-> IF IsRunning(id) THEN "stop" ELSE "link",
              id |-> id, ticks |-> ticks]]
  BY <1>1
<1>3. UNCHANGED <<list, mode, counterInit, countLeft, ssr, wakeup, handler, due,
                  delay>>
  BY DEF Start
<1>4. WakeupType /\ RestType /\ counterInit \in [TimerIds -> Nat]
      /\ due \in [TimerIds -> Int]
  BY TypeParts DEF IInv
<1>5. ListType' /\ ListInv' /\ \A t : IsRunning(t)' <=> IsRunning(t)
  BY <1>3, OtherListKept
<1>6. WakeupType'
  BY <1>3, <1>4 DEF WakeupType, wakeup
<1>7. RestType'
  <2>1. id \in 0 .. NoTimer /\ ticks \in Nat
    BY <1>2, Owners, IdleType, TimerServerAssumption
  <2>2. starting' \in [Levels -> [pc : {"idle", "stop", "link"}, id : 0 .. NoTimer,
                                  ticks : Nat]]
    BY <1>2, <1>4, <2>1 DEF RestType
  <2> QED
    BY <1>3, <1>4, <2>2 DEF RestType
<1>8. LinkTargets'
  <2>1. handler' = Idle /\ handler'.pc = "idle"
    BY <1>2, <1>3, IdleType DEF Runs
  <2>2. ASSUME NEW l \in Levels
        PROVE  /\ starting'[l].pc # "idle" => starting'[l].id \in OwnTimers(l)
               /\ starting'[l].pc = "link" => ~IsRunning(starting'[l].id)
    BY <1>2, <1>4, <2>2 DEF IInv, LinkTargets, RestType
  <2> QED
    BY <1>5, <2>1, <2>2 DEF LinkTargets, OwnTimers
<1> QED
  BY <1>3, <1>4, <1>5, <1>6, <1>7, <1>8, NextTypeParts DEF IInv

LEMMA DelayType ==
  ASSUME IInv, WaitEnds
  PROVE  delay' \in Nat
BY TypeParts DEF IInv, RestType, WaitEnds

LEMMA StopIfRunningKeeps ==
  ASSUME IInv, NEW id \in TimerIds, StopIfRunning(id)
  PROVE  /\ ListType' /\ ListInv' /\ WakeupType'
         /\ counterInit' \in [TimerIds -> Nat] /\ due' \in [TimerIds -> Int]
         /\ timerIdStatus'[id] # "RUNNING"
         /\ \A t \in TimerIds : timerIdStatus'[t] = "RUNNING" => IsRunning(t)
<1>1. WakeupType /\ ListType /\ counterInit \in [TimerIds -> Nat]
      /\ due \in [TimerIds -> Int]
  BY TypeParts DEF IInv
<1>2. CASE Unlink(id)
  <2>1. /\ ListType' /\ ListInv' /\ WakeupType'
        /\ counterInit' \in [TimerIds -> Nat] /\ due' \in [TimerIds -> Int]
        /\ timerIdStatus' = [timerIdStatus EXCEPT ![id] = "CREATED"]
    BY <1>2, UnlinkType DEF IInv
  <2> QED
    BY <1>1, <2>1 DEF ListType, IsRunning
<1>3. CASE ~IsRunning(id) /\ UNCHANGED <<list, counterInit, countLeft, wakeup, due>>
  <2>1. ListType' /\ ListInv'
    BY <1>3, OtherListKept
  <2>2. timerIdStatus' = timerIdStatus
    BY <1>3 DEF list
  <2>3. WakeupType'
    BY <1>1, <1>3 DEF WakeupType, wakeup
  <2> QED
    BY <1>1, <1>3, <2>1, <2>2, <2>3 DEF IsRunning
<1> QED
  BY <1>2, <1>3 DEF StopIfRunning

LEMMA StartStopsKeeps ==
  ASSUME IInv, StartStops, UNCHANGED calls PROVE IInv'
<1>1. PICK level \in Levels :
        /\ Runs(level)
        /\ starting[level].pc = "stop"
        /\ StopIfRunning(starting[level].id)
        /\ starting' = [starting EXCEPT ![level].pc = "link"]
  BY DEF StartStops
<1>2. WaitEnds /\ UNCHANGED <<mode, ssr, handler>>
  BY DEF StartStops
<1>3. RestType
  BY TypeParts DEF IInv
<1>4. PICK id \in OwnTimers(level) : id = starting[level].id
  BY <1>1 DEF IInv, LinkTargets
<1>5. id \in TimerIds
  BY Owners
<1>6. /\ ListType' /\ ListInv' /\ WakeupType'
      /\ counterInit' \in [TimerIds -> Nat] /\ due' \in [TimerIds -> Int]
      /\ timerIdStatus'[id] # "RUNNING"
      /\ \A t \in TimerIds : timerIdStatus'[t] = "RUNNING" => IsRunning(t)
  BY <1>1, <1>4, <1>5, StopIfRunningKeeps
<1>7. RestType'
  <2>1. starting' \in [Levels -> [pc : {"idle", "stop", "link"}, id : 0 .. NoTimer,
                                  ticks : Nat]]
    BY <1>1, <1>3 DEF RestType
  <2> QED
    BY <1>2, <1>3, <2>1, DelayType DEF RestType
<1>8. LinkTargets'
  <2>1. handler' = Idle /\ handler'.pc = "idle"
    BY <1>1, <1>2, IdleType DEF Runs
  <2>2. ASSUME NEW l \in Levels
        PROVE  /\ starting'[l].pc # "idle" => starting'[l].id \in OwnTimers(l)
               /\ starting'[l].pc = "link" =>
                    timerIdStatus'[starting'[l].id] # "RUNNING"
    <3>1. CASE l = level
      <4>1. starting'[l].id = id
        BY <1>1, <1>3, <1>4, <3>1 DEF RestType
      <4> QED
        BY <1>6, <3>1, <4>1
    <3>2. CASE l # level
      <4>1. starting'[l] = starting[l]
        BY <1>1, <1>3, <3>2 DEF RestType
      <4> QED
        BY <1>6, <4>1, Owners DEF IInv, LinkTargets
    <3> QED
      BY <3>1, <3>2
  <2> QED
    BY <2>1, <2>2 DEF LinkTargets, OwnTimers, IsRunning
<1> QED
  BY <1>6, <1>7, <1>8, NextTypeParts DEF IInv

LEMMA StartLinksKeeps ==
  ASSUME IInv, StartLinks, UNCHANGED calls PROVE IInv'
<1>1. PICK level \in Levels :
        /\ Runs(level)
        /\ starting[level].pc = "link"
        /\ Link(starting[level].id, starting[level].ticks)
        /\ starting' = [starting EXCEPT ![level] = Idle]
  BY DEF StartLinks
<1>2. WaitEnds /\ UNCHANGED <<mode, ssr, handler>>
  BY DEF StartLinks
<1>3. RestType /\ ListType
  BY TypeParts DEF IInv
<1>4. PICK id \in OwnTimers(level), ticks \in Nat :
        id = starting[level].id /\ ticks = starting[level].ticks
  BY <1>1, <1>3 DEF IInv, LinkTargets, RestType
<1>5. id \in TimerIds /\ ~IsRunning(id)
  BY <1>1, <1>4, Owners DEF IInv, LinkTargets
<1>6. /\ ListType' /\ ListInv' /\ WakeupType'
      /\ counterInit' \in [TimerIds -> Nat] /\ due' \in [TimerIds -> Int]
      /\ timerIdStatus' = [timerIdStatus EXCEPT ![id] = "RUNNING"]
  BY <1>1, <1>4, <1>5, LinkType DEF IInv
<1>7. RestType'
  <2>1. starting' \in [Levels -> [pc : {"idle", "stop", "link"}, id : 0 .. NoTimer,
                                  ticks : Nat]]
    BY <1>1, <1>3, IdleType DEF RestType
  <2> QED
    BY <1>2, <1>3, <2>1, DelayType DEF RestType
<1>8. LinkTargets'
  <2>1. handler' = Idle /\ handler'.pc = "idle"
    BY <1>1, <1>2, IdleType DEF Runs
  <2>2. ASSUME NEW l \in Levels
        PROVE  /\ starting'[l].pc # "idle" => starting'[l].id \in OwnTimers(l)
               /\ starting'[l].pc = "link" =>
                    timerIdStatus'[starting'[l].id] # "RUNNING"
    <3>1. CASE l = level
      BY <1>1, <1>3, <3>1, IdleType DEF RestType
    <3>2. CASE l # level
      <4>1. starting'[l] = starting[l]
        BY <1>1, <1>3, <3>2 DEF RestType
      <4>2. starting[l].pc # "idle" => starting[l].id # id /\ starting[l].id \in TimerIds
        BY <3>2, Owners DEF IInv, LinkTargets
      <4> QED
        BY <1>3, <1>6, <4>1, <4>2 DEF IInv, LinkTargets, IsRunning, ListType
    <3> QED
      BY <3>1, <3>2
  <2> QED
    BY <2>1, <2>2 DEF LinkTargets, OwnTimers, IsRunning
<1> QED
  BY <1>6, <1>7, <1>8, NextTypeParts DEF IInv

LEMMA StopKeeps ==
  ASSUME IInv, Stop, calls' = calls + 1 PROVE IInv'
<1>1. PICK id \in OwnTimers("task") : Unlink(id)
  BY DEF Stop
<1>2. /\ Runs("task") /\ starting["task"] = Idle
      /\ WaitEnds /\ UNCHANGED <<mode, ssr, handler, starting>>
  BY DEF Stop, TaskCalls
<1>3. RestType
  BY TypeParts DEF IInv
<1>4. id \in TimerIds
  BY <1>1, Owners
<1>5. /\ ListType' /\ ListInv' /\ WakeupType'
      /\ counterInit' \in [TimerIds -> Nat] /\ due' \in [TimerIds -> Int]
  BY <1>1, <1>4, UnlinkType DEF IInv
<1>6. RestType'
  BY <1>2, <1>3, DelayType DEF RestType
<1>7. LinkTargets'
  BY <1>2, Owners, IdleType DEF IInv, LinkTargets, Runs
<1> QED
  BY <1>5, <1>6, <1>7, NextTypeParts DEF IInv

\* Steps of the handler and the clock leave the starting levels as they are.
LEMMA StartTargetsKept ==
  ASSUME LinkTargets, UNCHANGED starting,
         \A level \in Levels :
           starting[level].pc = "link" => timerIdStatus'[starting[level].id] # "RUNNING",
         handler'.pc # "restart",
         handler'.pc # "idle" => handler'.id \in TimerIds
  PROVE  LinkTargets'
BY DEF LinkTargets, OwnTimers, IsRunning

LEMMA RepeatedElapsesKeeps ==
  ASSUME IInv, RepeatedElapses, UNCHANGED calls PROVE IInv'
<1>1. PICK id \in TimerIds :
        /\ WakeupIsFor(id)
        /\ UnlinkTimer(id)
        /\ due' = [due EXCEPT ![id] = 0]
        /\ handler' = [Idle EXCEPT !.pc = "restart", !.id = id]
        /\ wakeupCounter' = Disabled
        /\ pending' = FALSE
        /\ UNCHANGED <<mode, counterInit, countLeft, ssr, ssrOnLastSetup,
                       limitation, starting, delay>>
  BY DEF RepeatedElapses
<1>2. ListType /\ WakeupType /\ RestType /\ counterInit \in [TimerIds -> Nat]
      /\ due \in [TimerIds -> Int]
  BY TypeParts DEF IInv
<1>3. IsRunning(id)
  BY <1>1, TimerServerAssumption
     DEF WakeupIsFor, IInv, ListInv, ListIsLinked, Running
<1>4. ListType' /\ ListInv'
  BY <1>1, <1>2, <1>3, UnlinkTimerKeepsList DEF IInv
<1>5. WakeupType'
  BY <1>1, <1>2 DEF WakeupType
<1>6. handler'.pc = "restart" /\ handler'.id = id
  BY <1>1 DEF Idle
<1>7. RestType'
  <2>1. handler' \in [pc : {"idle", "restart", "stop", "callback"},
                      id : 0 .. NoTimer, ticks : {0}]
    BY <1>1, IdleType DEF Idle
  <2> QED
    BY <1>1, <1>2, <2>1 DEF RestType
<1>8. timerIdStatus' = [timerIdStatus EXCEPT ![id] = "CREATED"]
  BY <1>1 DEF UnlinkTimer
<1>9. LinkTargets'
  <2>1. timerIdStatus'[id] # "RUNNING"
    BY <1>2, <1>8 DEF ListType
  <2>2. ASSUME NEW level \in Levels, starting[level].pc = "link"
        PROVE  /\ timerIdStatus'[starting[level].id] # "RUNNING"
               /\ starting[level].id # id
    <3>1. starting[level].id \in TimerIds /\ ~IsRunning(starting[level].id)
      BY <2>2, Owners DEF IInv, LinkTargets
    <3> QED
      BY <1>2, <1>3, <1>8, <3>1 DEF ListType, IsRunning
  <2> QED
    BY <1>1, <1>6, <2>1, <2>2 DEF IInv, LinkTargets, OwnTimers, IsRunning
<1> QED
  BY <1>1, <1>2, <1>4, <1>5, <1>7, <1>9, NextTypeParts DEF IInv

LEMMA SingleShotElapsesKeeps ==
  ASSUME IInv, SingleShotElapses, UNCHANGED calls PROVE IInv'
<1>1. PICK id \in TimerIds :
        /\ handler' = [Idle EXCEPT !.pc = "stop", !.id = id]
        /\ wakeupCounter' = Disabled
        /\ pending' = FALSE
        /\ UNCHANGED <<list, mode, counterInit, countLeft, ssr, ssrOnLastSetup,
                       limitation, starting, due, delay>>
  BY DEF SingleShotElapses
<1>2. WakeupType /\ RestType /\ counterInit \in [TimerIds -> Nat]
      /\ due \in [TimerIds -> Int]
  BY TypeParts DEF IInv
<1>3. ListType' /\ ListInv'
  BY <1>1, OtherListKept
<1>4. WakeupType'
  BY <1>1, <1>2 DEF WakeupType
<1>5. handler'.pc = "stop" /\ handler'.id = id
  BY <1>1 DEF Idle
<1>6. RestType'
  <2>1. handler' \in [pc : {"idle", "restart", "stop", "callback"},
                      id : 0 .. NoTimer, ticks : {0}]
    BY <1>1, IdleType DEF Idle
  <2> QED
    BY <1>1, <1>2, <2>1 DEF RestType
<1>7. LinkTargets'
  <2>1. timerIdStatus' = timerIdStatus
    BY <1>1 DEF list
  <2> QED
    BY <1>1, <1>5, <2>1, StartTargetsKept DEF IInv, LinkTargets, IsRunning
<1> QED
  BY <1>1, <1>2, <1>3, <1>4, <1>6, <1>7, NextTypeParts DEF IInv

LEMMA PartElapsesKeeps ==
  ASSUME IInv, PartElapses, UNCHANGED calls PROVE IInv'
<1>1. PICK id \in TimerIds :
        /\ WakeupIsFor(id)
        /\ RescheduleTimerList(id, Running, countLeft, ssrOnLastSetup)
        /\ WaitEnds
        /\ UNCHANGED <<list, mode, counterInit, ssr, handler, starting, due>>
  BY DEF PartElapses
<1>2. WakeupType /\ RestType /\ counterInit \in [TimerIds -> Nat]
      /\ due \in [TimerIds -> Int]
  BY TypeParts DEF IInv
<1>3. ListType' /\ ListInv'
  BY <1>1, OtherListKept
<1>4. WakeupType'
  BY <1>1, <1>2, RescheduleType DEF WakeupType, RestType
<1>5. RestType'
  BY <1>1, <1>2, DelayType DEF RestType
<1>6. LinkTargets'
  <2>1. timerIdStatus' = timerIdStatus
    BY <1>1 DEF list
  <2>2. handler'.pc = "idle"
    BY <1>1, IdleType DEF WakeupIsFor
  <2> QED
    BY <1>1, <2>1, <2>2, StartTargetsKept DEF IInv, LinkTargets, IsRunning
<1> QED
  BY <1>1, <1>2, <1>3, <1>4, <1>5, <1>6, NextTypeParts DEF IInv

LEMMA HandlerRestartsKeeps ==
  ASSUME IInv, HandlerRestarts, UNCHANGED calls PROVE IInv'
<1>1. RestType /\ ListType /\ counterInit \in [TimerIds -> Nat]
  BY TypeParts DEF IInv
<1>2. PICK id \in TimerIds, ticks \in Nat :
        id = handler.id /\ ticks = counterInit[handler.id]
  BY <1>1 DEF HandlerRestarts, IInv, LinkTargets
<1>3. /\ handler.pc = "restart"
      /\ Link(id, ticks)
      /\ handler' = [handler EXCEPT !.pc = "callback"]
      /\ UNCHANGED <<mode, ssr, starting, delay>>
  BY <1>2 DEF HandlerRestarts
<1>4. /\ ~IsRunning(id)
      /\ \A level \in Levels :
           starting[level].pc = "link" => starting[level].id # id
  BY <1>2, <1>3 DEF IInv, LinkTargets
<1>5. /\ ListType' /\ ListInv' /\ WakeupType'
      /\ counterInit' \in [TimerIds -> Nat] /\ due' \in [TimerIds -> Int]
      /\ timerIdStatus' = [timerIdStatus EXCEPT ![id] = "RUNNING"]
  BY <1>3, <1>4, LinkType DEF IInv
<1>6. RestType' /\ handler'.pc = "callback" /\ handler'.id = id
  BY <1>1, <1>2, <1>3 DEF RestType
<1>7. LinkTargets'
  <2>1. ASSUME NEW level \in Levels, starting[level].pc = "link"
        PROVE  timerIdStatus'[starting[level].id] # "RUNNING"
    <3>1. starting[level].id \in TimerIds /\ ~IsRunning(starting[level].id)
      BY <2>1, Owners DEF IInv, LinkTargets
    <3> QED
      BY <1>1, <1>4, <1>5, <2>1, <3>1 DEF ListType, IsRunning
  <2> QED
    BY <1>3, <1>6, <2>1, StartTargetsKept DEF IInv
<1> QED
  BY <1>5, <1>6, <1>7, NextTypeParts DEF IInv

LEMMA HandlerStopsKeeps ==
  ASSUME IInv, HandlerStops, UNCHANGED calls PROVE IInv'
<1>1. RestType
  BY TypeParts DEF IInv
<1>2. PICK id \in TimerIds : id = handler.id
  BY DEF HandlerStops, IInv, LinkTargets
<1>3. /\ StopIfRunning(id)
      /\ handler' = [handler EXCEPT !.pc = "callback"]
      /\ UNCHANGED <<mode, ssr, starting, delay>>
  BY <1>2 DEF HandlerStops
<1>4. /\ ListType' /\ ListInv' /\ WakeupType'
      /\ counterInit' \in [TimerIds -> Nat] /\ due' \in [TimerIds -> Int]
      /\ \A t \in TimerIds : timerIdStatus'[t] = "RUNNING" => IsRunning(t)
  BY <1>3, StopIfRunningKeeps
<1>5. RestType' /\ handler'.pc = "callback" /\ handler'.id = id
  BY <1>1, <1>2, <1>3 DEF RestType
<1>6. LinkTargets'
  <2>1. \A level \in Levels :
          starting[level].pc = "link" => timerIdStatus'[starting[level].id] # "RUNNING"
    BY <1>4, Owners DEF IInv, LinkTargets
  <2> QED
    BY <1>3, <1>5, <2>1, StartTargetsKept DEF IInv
<1> QED
  BY <1>4, <1>5, <1>6, NextTypeParts DEF IInv

LEMMA CallbackStopsKeeps ==
  ASSUME IInv, CallbackStops, calls' = calls + 1 PROVE IInv'
<1>1. RestType
  BY TypeParts DEF IInv
<1>2. PICK id \in TimerIds : id = handler.id
  BY DEF CallbackStops, IInv, LinkTargets
<1>3. /\ handler.pc = "callback"
      /\ StopIfRunning(id)
      /\ UNCHANGED <<mode, ssr, handler, starting, delay>>
  BY <1>2 DEF CallbackStops, StopIfRunning
<1>4. /\ ListType' /\ ListInv' /\ WakeupType'
      /\ counterInit' \in [TimerIds -> Nat] /\ due' \in [TimerIds -> Int]
      /\ \A t \in TimerIds : timerIdStatus'[t] = "RUNNING" => IsRunning(t)
  BY <1>3, StopIfRunningKeeps
<1>5. RestType'
  BY <1>1, <1>3 DEF RestType
<1>6. LinkTargets'
  <2>1. \A level \in Levels :
          starting[level].pc = "link" => timerIdStatus'[starting[level].id] # "RUNNING"
    BY <1>4, Owners DEF IInv, LinkTargets
  <2> QED
    BY <1>2, <1>3, <2>1, StartTargetsKept DEF IInv
<1> QED
  BY <1>4, <1>5, <1>6, NextTypeParts DEF IInv

LEMMA HandlerReturnsKeeps ==
  ASSUME IInv, HandlerReturns, UNCHANGED calls PROVE IInv'
<1>1. /\ handler' = Idle
      /\ WaitEnds
      /\ UNCHANGED <<list, mode, counterInit, countLeft, ssr, wakeup, starting, due>>
  BY DEF HandlerReturns
<1>2. WakeupType /\ RestType /\ counterInit \in [TimerIds -> Nat]
      /\ due \in [TimerIds -> Int]
  BY TypeParts DEF IInv
<1>3. ListType' /\ ListInv' /\ timerIdStatus' = timerIdStatus
  BY <1>1, OtherListKept DEF list
<1>4. WakeupType'
  BY <1>1, <1>2 DEF WakeupType, wakeup
<1>5. RestType'
  BY <1>1, <1>2, DelayType, IdleType DEF RestType
<1>6. LinkTargets'
  BY <1>1, <1>3, IdleType, StartTargetsKept DEF IInv, LinkTargets, IsRunning
<1> QED
  BY <1>1, <1>2, <1>3, <1>4, <1>5, <1>6, NextTypeParts DEF IInv

LEMMA WakeupCounterEndsKeeps ==
  ASSUME IInv, WakeupCounterEnds, UNCHANGED calls PROVE IInv'
<1>1. /\ wakeupCounter' = Disabled
      /\ pending' = TRUE
      /\ UNCHANGED <<list, mode, counterInit, countLeft, ssr, ssrOnLastSetup,
                     limitation, handler, starting, due, delay>>
  BY DEF WakeupCounterEnds
<1>2. WakeupType /\ RestType /\ counterInit \in [TimerIds -> Nat]
      /\ due \in [TimerIds -> Int]
  BY TypeParts DEF IInv
<1>3. ListType' /\ ListInv' /\ timerIdStatus' = timerIdStatus
  BY <1>1, OtherListKept DEF list
<1>4. WakeupType' /\ RestType'
  BY <1>1, <1>2 DEF WakeupType, RestType
<1>5. LinkTargets'
  BY <1>1, <1>3 DEF IInv, LinkTargets, IsRunning, OwnTimers
<1> QED
  BY <1>1, <1>2, <1>3, <1>4, <1>5, NextTypeParts DEF IInv

LEMMA TickKeeps ==
  ASSUME IInv, Tick, UNCHANGED calls PROVE IInv'
<1>1. /\ delay' = IF IsWaiting THEN delay + 1 ELSE 0
      /\ ssr' = IF ssr = 0 THEN SynchPrescaler - 1 ELSE ssr - 1
      /\ due' = [id \in TimerIds |-> IF IsRunning(id) THEN due[id] - 1 ELSE due[id]]
      /\ UNCHANGED <<list, mode, counterInit, countLeft, ssrOnLastSetup, limitation,
                     handler, starting>>
  BY DEF Tick
<1>2. WakeupType /\ RestType /\ counterInit \in [TimerIds -> Nat]
      /\ due \in [TimerIds -> Int]
  BY TypeParts DEF IInv
<1>3. ListType' /\ ListInv' /\ timerIdStatus' = timerIdStatus
  BY <1>1, OtherListKept DEF list
<1>4. WakeupType'
  <2>1. wakeupCounter' \in Nat \cup {Disabled}
    BY <1>2 DEF Tick, WakeupType, Disabled
  <2>2. pending' \in BOOLEAN
    BY <1>2, Zenon DEF Tick, WakeupType
  <2> QED
    BY <1>1, <1>2, <2>1, <2>2 DEF WakeupType
<1>5. RestType'
  <2>1. ssr' \in 0 .. SynchPrescaler - 1
    BY <1>1, <1>2, TimerServerAssumption DEF RestType
  <2>2. delay' \in Nat
    BY <1>1, <1>2 DEF RestType
  <2> QED
    BY <1>1, <1>2, <2>1, <2>2 DEF RestType
<1>6. due' \in [TimerIds -> Int]
  BY <1>1, <1>2
<1>7. LinkTargets'
  BY <1>1, <1>3 DEF IInv, LinkTargets, IsRunning, OwnTimers
<1> QED
  BY <1>1, <1>2, <1>3, <1>4, <1>5, <1>6, <1>7, NextTypeParts DEF IInv

LEMMA StutterKeeps ==
  ASSUME IInv, UNCHANGED vars PROVE IInv'
<1>1. ListType /\ WakeupType /\ RestType /\ counterInit \in [TimerIds -> Nat]
      /\ due \in [TimerIds -> Int]
  BY TypeParts DEF IInv
<1>2. ListType' /\ ListInv' /\ timerIdStatus' = timerIdStatus
  BY OtherListKept DEF list, vars
<1>3. WakeupType' /\ RestType' /\ counterInit' \in [TimerIds -> Nat]
      /\ due' \in [TimerIds -> Int]
  BY <1>1 DEF WakeupType, RestType, vars, wakeup
<1>4. LinkTargets'
  BY <1>2 DEF IInv, LinkTargets, IsRunning, OwnTimers, vars
<1> QED
  BY <1>2, <1>3, <1>4, NextTypeParts DEF IInv

THEOREM NextInvariant == IInv /\ [Next]_vars => IInv'
<1> SUFFICES ASSUME IInv, [Next]_vars PROVE IInv'
  OBVIOUS
<1>1. CASE Call
  BY <1>1, DeleteTimerKeeps, StartKeeps, StopKeeps, CallbackStopsKeeps DEF Call
<1>2. CASE Step
  BY <1>2, CreateTimerKeeps, StartStopsKeeps, StartLinksKeeps, RepeatedElapsesKeeps,
     SingleShotElapsesKeeps, PartElapsesKeeps, HandlerRestartsKeeps,
     HandlerStopsKeeps, HandlerReturnsKeeps, WakeupCounterEndsKeeps, TickKeeps
     DEF Step
<1>3. CASE UNCHANGED vars
  BY <1>3, StutterKeeps
<1> QED
  BY <1>1, <1>2, <1>3 DEF Next

(***************************************************************************)
(* The inductive invariant: types, owners of the timers, and the list.     *)
(***************************************************************************)
THEOREM Invariant == Spec => []IInv
BY InitInvariant, NextInvariant, PTL DEF Spec

(***************************************************************************)
(* The variables of TimerServer keep their types.                          *)
(***************************************************************************)
THEOREM TypeCorrect == Spec => []TypeOK
<1>1. IInv => TypeOK
  BY DEF IInv
<1> QED
  BY <1>1, Invariant, PTL

(***************************************************************************)
(* ListIsLinked: gTimerContext is a doubly linked list of the running      *)
(* timers, whatever starts, stops and elapses between the critical         *)
(* sections of TimerServer_Start and of the wake-up handler.               *)
(***************************************************************************)
THEOREM ListLinked == Spec => []ListIsLinked
<1>1. IInv => ListIsLinked
  BY DEF IInv, ListInv
<1> QED
  BY <1>1, Invariant, PTL

(***************************************************************************)
(* AlwaysReschedules: a timer that is started is always scheduled.         *)
(***************************************************************************)
THEOREM AlwaysRescheduled == Spec => []AlwaysReschedules
<1>1. IInv => AlwaysReschedules
  BY DEF IInv, ListInv
<1> QED
  BY <1>1, Invariant, PTL

-----------------------------------------------------------------------------
(* The handler finds a timer.                                              *)

\* The wake-up counter is armed, and its interrupt pending, for a timer only.
ArmedForTimer == wakeupCounter # Disabled \/ pending => gCurrentRunningTimerId # NoTimer

LEMMA LinkArms ==
  ASSUME IInv, NEW id \in TimerIds, ~IsRunning(id), NEW ticks \in Nat, Link(id, ticks)
  PROVE  ArmedForTimer'
<1>1. /\ gCurrentRunningTimerId' \in {id, gCurrentRunningTimerId}
      /\ gCurrentRunningTimerId = NoTimer => gCurrentRunningTimerId' = id
  BY DEF Link, LinkTimer, LinkFirst, LinkTimerBefore, LinkTimerAfter
<1> QED
  BY <1>1, TimerServerAssumption DEF ArmedForTimer, TimerIds, NoTimer

LEMMA StopIfRunningArms ==
  ASSUME ArmedForTimer, NEW id \in TimerIds, StopIfRunning(id)
  PROVE  ArmedForTimer'
<1>1. CASE Unlink(id)
  BY <1>1 DEF Unlink, ArmedForTimer
<1>2. CASE ~IsRunning(id) /\ UNCHANGED <<list, counterInit, countLeft, wakeup, due>>
  BY <1>2 DEF ArmedForTimer, list, wakeup
<1> QED
  BY <1>1, <1>2 DEF StopIfRunning

LEMMA NextArms ==
  ASSUME IInv, ArmedForTimer, [Next]_vars
  PROVE  ArmedForTimer'
<1>1. CASE CreateTimer \/ DeleteTimer \/ Start \/ HandlerReturns \/ UNCHANGED vars
  BY <1>1 DEF CreateTimer, DeleteTimer, Start, HandlerReturns, vars, list, wakeup,
     ArmedForTimer
<1>2. CASE StartStops
  <2>1. PICK id \in TimerIds : StopIfRunning(id)
    BY <1>2, Owners DEF StartStops, IInv, LinkTargets
  <2> QED
    BY <2>1, StopIfRunningArms
<1>3. CASE StartLinks
  <2>1. PICK id \in TimerIds, ticks \in Nat : ~IsRunning(id) /\ Link(id, ticks)
    BY <1>3, Owners, TypeParts DEF StartLinks, IInv, LinkTargets, RestType
  <2> QED
    BY <2>1, LinkArms
<1>4. CASE Stop
  <2>1. PICK id \in TimerIds : StopIfRunning(id)
    BY <1>4, Owners DEF Stop, StopIfRunning
  <2> QED
    BY <2>1, StopIfRunningArms
<1>5. CASE CallbackStops
  <2>1. PICK id \in TimerIds : StopIfRunning(id)
    BY <1>5 DEF CallbackStops, StopIfRunning, IInv, LinkTargets
  <2> QED
    BY <2>1, StopIfRunningArms
<1>6. CASE HandlerStops
  <2>1. PICK id \in TimerIds : StopIfRunning(id)
    BY <1>6 DEF HandlerStops, IInv, LinkTargets
  <2> QED
    BY <2>1, StopIfRunningArms
<1>7. CASE HandlerRestarts
  <2>1. PICK id \in TimerIds, ticks \in Nat : ~IsRunning(id) /\ Link(id, ticks)
    BY <1>7, TypeParts DEF HandlerRestarts, IInv, LinkTargets
  <2> QED
    BY <2>1, LinkArms
<1>8. CASE RepeatedElapses \/ SingleShotElapses
  BY <1>8 DEF RepeatedElapses, SingleShotElapses, ArmedForTimer
<1>9. CASE PartElapses
  BY <1>9 DEF PartElapses, WakeupIsFor, list, ArmedForTimer
<1>10. CASE WakeupCounterEnds
  BY <1>10 DEF WakeupCounterEnds, list, ArmedForTimer, Disabled
<1>11. CASE Tick
  BY <1>11 DEF Tick, list, ArmedForTimer, Disabled
<1> QED
  BY <1>1, <1>2, <1>3, <1>4, <1>5, <1>6, <1>7, <1>8, <1>9, <1>10, <1>11
     DEF Next, Call, Step

(***************************************************************************)
(* WakeupFindsTimer: the branch of the handler for an empty list is not    *)
(* taken, although the interrupt may be pending while a timer is stopped.  *)
(***************************************************************************)
THEOREM WakeupFound == Spec => []WakeupFindsTimer
<1>1. Init => ArmedForTimer
  BY DEF Init, ArmedForTimer, Disabled
<1>2. IInv /\ ArmedForTimer /\ [Next]_vars => ArmedForTimer'
  BY NextArms
<1>3. IInv /\ ArmedForTimer => WakeupFindsTimer
  BY DEF IInv, ListInv, ListIsLinked, ArmedForTimer, WakeupFindsTimer
<1> QED
  BY <1>1, <1>2, <1>3, Invariant, PTL DEF Spec

-----------------------------------------------------------------------------
(* The order of the list.                                                  *)

LEMMA ListFacts ==
  ASSUME IInv
  PROVE  /\ ListType /\ WakeupType /\ RestType
         /\ counterInit \in [TimerIds -> Nat] /\ due \in [TimerIds -> Int]
         /\ Running \subseteq TimerIds /\ NoTimer \notin TimerIds
         /\ \A t : t \in Running <=> t \in TimerIds /\ IsRunning(t)
         /\ \A t \in Running : nextId[t] \in Running \cup {NoTimer}
BY TypeParts, TimerServerAssumption
   DEF IInv, Running, TimerIds, NoTimer, ListInv, ListIsLinked

\* A list stays sorted when its counts grow or shrink together, a timer is put
\* where LinkTimer looks for its place, or a timer is taken out.
IsSorted(running, next, counts) ==
  \A t \in running : next[t] # NoTimer => counts[t] <= counts[next[t]]

LEMMA LinkTimerSorts ==
  ASSUME IInv, ListIsSorted, NEW id \in TimerIds, ~IsRunning(id),
         NEW timeLeft \in Nat, LinkTimer(id, timeLeft)
  PROVE  IsSorted(Running \cup {id}, nextId', [countLeft EXCEPT ![id] = timeLeft])
<1> DEFINE counts == [countLeft EXCEPT ![id] = timeLeft]
<1>1. /\ counts[id] = timeLeft
      /\ \A t \in Running : t # id /\ counts[t] = countLeft[t] /\ countLeft[t] \in Nat
      /\ \A t \in Running :
           nextId[t] # NoTimer =>
             nextId[t] \in Running /\ countLeft[t] <= countLeft[nextId[t]]
  BY ListFacts DEF WakeupType, ListIsSorted
<1>2. \A t \in TimerIds : t \in DOMAIN nextId
  BY ListFacts DEF ListType
<1> HIDE DEF counts
<1>3. CASE LinkFirst(id)
  <2>1. nextId'[id] = NoTimer /\ \A t \in Running : nextId'[t] = nextId[t]
    BY <1>1, <1>2, <1>3, ListFacts DEF LinkFirst
  <2> QED
    BY <1>1, <2>1 DEF IsSorted, counts
<1>4. CASE LinkTimerBefore(id, timeLeft)
  <2>1. /\ nextId'[id] = gCurrentRunningTimerId
        /\ gCurrentRunningTimerId \in Running
        /\ countLeft[gCurrentRunningTimerId] > timeLeft
        /\ \A t \in Running : nextId'[t] = nextId[t]
    BY <1>1, <1>2, <1>4, ListFacts DEF LinkTimerBefore, IInv, ListInv, ListIsLinked
  <2> QED
    BY <1>1, <2>1 DEF IsSorted, counts
<1>5. CASE LinkTimerAfter(id, timeLeft)
  <2>1. PICK lookup \in Running :
          /\ IsLookup(lookup, timeLeft)
          /\ nextId' = [nextId EXCEPT ![id] = nextId[lookup], ![lookup] = id]
    BY <1>5 DEF LinkTimerAfter
  <2>2. /\ nextId'[id] = nextId[lookup]
        /\ nextId'[lookup] = id
        /\ \A t \in Running : t # lookup => nextId'[t] = nextId[t]
    BY <1>1, <1>2, <2>1, ListFacts
  <2>3. /\ countLeft[lookup] <= timeLeft
        /\ nextId[lookup] # NoTimer => countLeft[nextId[lookup]] > timeLeft
    BY <2>1 DEF IsLookup
  <2> QED
    BY <1>1, <2>2, <2>3 DEF IsSorted, counts
<1> QED
  BY <1>3, <1>4, <1>5 DEF LinkTimer

LEMMA UnlinkTimerSorts ==
  ASSUME IInv, ListIsSorted, NEW id \in Running, UnlinkTimer(id)
  PROVE  IsSorted(Running \ {id}, nextId', countLeft)
<1>1. /\ \A t \in Running : countLeft[t] \in Nat
      /\ \A t \in Running :
           nextId[t] # NoTimer =>
             nextId[t] \in Running /\ countLeft[t] <= countLeft[nextId[t]]
  BY ListFacts DEF WakeupType, ListIsSorted
<1>2. CASE id = gCurrentRunningTimerId
  BY <1>1, <1>2 DEF UnlinkTimer, IsSorted
<1>3. CASE id # gCurrentRunningTimerId
  <2>1. /\ previousId[id] \in Running /\ nextId[previousId[id]] = id
        /\ nextId' = [nextId EXCEPT ![previousId[id]] = nextId[id]]
    BY <1>3 DEF UnlinkTimer, IInv, ListInv, ListIsLinked
  <2>2. /\ nextId'[previousId[id]] = nextId[id]
        /\ \A t \in Running : t # previousId[id] => nextId'[t] = nextId[t]
    BY <2>1, ListFacts DEF ListType
  <2>3. id # NoTimer
    BY ListFacts
  <2> QED
    BY <1>1, <2>1, <2>2, <2>3 DEF IsSorted
<1> QED
  BY <1>2, <1>3

LEMMA RescheduleSorts ==
  ASSUME NEW running \in SUBSET TimerIds, NEW next, NEW counts \in [TimerIds -> Nat],
         IsSorted(running, next, counts),
         \A t \in running : next[t] \in running \cup {NoTimer},
         ssr \in 0 .. SynchPrescaler - 1, NEW first \in TimerIds,
         NEW setup \in 0 .. SynchPrescaler - 1 \cup {Forbidden},
         RescheduleTimerList(first, running, counts, setup)
  PROVE  IsSorted(running, next, countLeft')
<1>1. /\ ReturnTimeElapsed(setup) \in Nat
      /\ countLeft' = [id \in TimerIds |->
           IF id \in running THEN Remaining(counts[id], ReturnTimeElapsed(setup))
                             ELSE counts[id]]
  BY RescheduleType DEF RescheduleTimerList
<1> QED
  BY <1>1 DEF IsSorted, Remaining

\* What a start does: the timer gets its place, and the list is rescheduled.
LEMMA LinkEffect ==
  ASSUME IInv, NEW id \in TimerIds, ~IsRunning(id), NEW ticks \in Nat, Link(id, ticks),
         NEW setup, setup = IF gCurrentRunningTimerId = NoTimer THEN Forbidden
                                                                ELSE ssrOnLastSetup
  PROVE  /\ setup \in 0 .. SynchPrescaler - 1 \cup {Forbidden}
         /\ ReturnTimeElapsed(setup) \in Nat
         /\ id \notin Running /\ Running' = Running \cup {id}
         /\ gCurrentRunningTimerId' \in Running'
         /\ due' = [due EXCEPT ![id] = ticks]
         /\ LinkTimer(id, ticks + ReturnTimeElapsed(setup))
         /\ RescheduleTimerList(gCurrentRunningTimerId', Running',
              [countLeft EXCEPT ![id] = ticks + ReturnTimeElapsed(setup)], setup)
<1>1. setup \in 0 .. SynchPrescaler - 1 \cup {Forbidden}
  BY ListFacts DEF WakeupType
<1>2. ReturnTimeElapsed(setup) \in Nat
  BY <1>1, ListFacts, RescheduleType DEF RestType, WakeupType
<1>3. /\ ListType' /\ ListInv'
      /\ timerIdStatus' = [timerIdStatus EXCEPT ![id] = "RUNNING"]
  BY LinkType DEF IInv
<1>4. id \notin Running /\ Running' = Running \cup {id}
  BY <1>3, ListFacts DEF Running, IsRunning, ListType
<1>5. /\ due' = [due EXCEPT ![id] = ticks]
      /\ LinkTimer(id, ticks + ReturnTimeElapsed(setup))
  BY DEF Link
<1>6. gCurrentRunningTimerId' \in Running'
  BY <1>4, <1>5, ListFacts
     DEF LinkTimer, LinkFirst, LinkTimerBefore, LinkTimerAfter, IInv, ListInv, ListIsLinked
<1>7. RescheduleTimerList(gCurrentRunningTimerId', Running',
        [countLeft EXCEPT ![id] = ticks + ReturnTimeElapsed(setup)], setup)
  BY <1>3, <1>4 DEF Link, ListInv, AlwaysReschedules
<1> QED
  BY <1>1, <1>2, <1>4, <1>5, <1>6, <1>7

\* What a stop does: the list is rescheduled, or there is none any more.
LEMMA UnlinkEffect ==
  ASSUME IInv, NEW id \in TimerIds, Unlink(id)
  PROVE  /\ id \in Running /\ Running' = Running \ {id}
         /\ due' = [due EXCEPT ![id] = 0]
         /\ UnlinkTimer(id)
         /\ gCurrentRunningTimerId' = NoTimer =>
              /\ wakeupCounter' = Disabled /\ pending' = FALSE
              /\ UNCHANGED <<countLeft, limitation>>
         /\ gCurrentRunningTimerId' # NoTimer =>
              /\ gCurrentRunningTimerId' \in Running'
              /\ RescheduleTimerList(gCurrentRunningTimerId', Running', countLeft,
                                     ssrOnLastSetup)
<1>1. /\ ListType' /\ ListInv'
      /\ timerIdStatus' = [timerIdStatus EXCEPT ![id] = "CREATED"]
  BY UnlinkType DEF IInv
<1>2. id \in Running /\ Running' = Running \ {id}
  BY <1>1, ListFacts DEF Unlink, Running, IsRunning, ListType
<1>3. /\ due' = [due EXCEPT ![id] = 0]
      /\ UnlinkTimer(id)
      /\ gCurrentRunningTimerId' = NoTimer =>
           /\ wakeupCounter' = Disabled /\ pending' = FALSE
           /\ UNCHANGED <<countLeft, limitation>>
  BY DEF Unlink
<1>4. ASSUME gCurrentRunningTimerId' # NoTimer
      PROVE  /\ gCurrentRunningTimerId' \in Running'
             /\ RescheduleTimerList(gCurrentRunningTimerId', Running', countLeft,
                                    ssrOnLastSetup)
  BY <1>1, <1>2, <1>4 DEF Unlink, ListInv, ListIsLinked, AlwaysReschedules
<1> QED
  BY <1>2, <1>3, <1>4

LEMMA LinkKeepsOrder ==
  ASSUME IInv, ListIsSorted, NEW id \in TimerIds, ~IsRunning(id), NEW ticks \in Nat,
         Link(id, ticks)
  PROVE  ListIsSorted'
<1> DEFINE setup == IF gCurrentRunningTimerId = NoTimer THEN Forbidden
                                                        ELSE ssrOnLastSetup
           timeLeft == ticks + ReturnTimeElapsed(setup)
           counts == [countLeft EXCEPT ![id] = timeLeft]
<1>1. /\ setup \in 0 .. SynchPrescaler - 1 \cup {Forbidden}
      /\ ReturnTimeElapsed(setup) \in Nat
      /\ Running' = Running \cup {id}
      /\ gCurrentRunningTimerId' \in Running'
      /\ LinkTimer(id, timeLeft)
      /\ RescheduleTimerList(gCurrentRunningTimerId', Running', counts, setup)
  BY LinkEffect
<1>2. /\ timeLeft \in Nat /\ ssr \in 0 .. SynchPrescaler - 1
      /\ counts \in [TimerIds -> Nat]
  BY <1>1, ListFacts DEF RestType, WakeupType
<1> HIDE DEF setup, timeLeft
<1>3. IsSorted(Running', nextId', counts)
  BY <1>1, <1>2, LinkTimerSorts
<1>4. \A t \in Running' : nextId'[t] \in Running' \cup {NoTimer}
  BY LinkType DEF IInv, ListInv, ListIsLinked
<1>5. Running' \in SUBSET TimerIds /\ gCurrentRunningTimerId' \in TimerIds
  BY <1>1, ListFacts
<1> HIDE DEF counts
<1>6. IsSorted(Running', nextId', countLeft')
  BY <1>1, <1>2, <1>3, <1>4, <1>5, RescheduleSorts
<1> QED
  BY <1>6 DEF IsSorted, ListIsSorted

LEMMA StopKeepsOrder ==
  ASSUME IInv, ListIsSorted, NEW id \in TimerIds, StopIfRunning(id)
  PROVE  ListIsSorted'
<1>1. CASE Unlink(id)
  <2>1. IsSorted(Running', nextId', countLeft)
    BY <1>1, UnlinkEffect, UnlinkTimerSorts
  <2>2. /\ Running' \in SUBSET TimerIds
        /\ \A t \in Running' : nextId'[t] \in Running' \cup {NoTimer}
    <3>1. Running' \in SUBSET TimerIds
      BY <1>1, UnlinkEffect, ListFacts
    <3>2. ListInv'
      BY <1>1, UnlinkType DEF IInv
    <3> QED
      BY <3>1, <3>2 DEF ListInv, ListIsLinked
  <2>3. CASE gCurrentRunningTimerId' = NoTimer
    BY <1>1, <2>1, <2>3, UnlinkEffect DEF IsSorted, ListIsSorted
  <2>4. CASE gCurrentRunningTimerId' # NoTimer
    <3>1. /\ gCurrentRunningTimerId' \in TimerIds
          /\ RescheduleTimerList(gCurrentRunningTimerId', Running', countLeft,
                                 ssrOnLastSetup)
          /\ ssr \in 0 .. SynchPrescaler - 1
          /\ ssrOnLastSetup \in 0 .. SynchPrescaler - 1 \cup {Forbidden}
          /\ countLeft \in [TimerIds -> Nat]
      BY <1>1, <2>2, <2>4, UnlinkEffect, ListFacts DEF RestType, WakeupType
    <3>2. IsSorted(Running', nextId', countLeft')
      BY <2>1, <2>2, <3>1, RescheduleSorts
    <3> QED
      BY <3>2 DEF IsSorted, ListIsSorted
  <2> QED
    BY <2>3, <2>4
<1>2. CASE ~IsRunning(id) /\ UNCHANGED <<list, counterInit, countLeft, wakeup, due>>
  BY <1>2 DEF list, ListIsSorted, Running, IsRunning
<1> QED
  BY <1>1, <1>2 DEF StopIfRunning

\* What a step does to the list.
LEMMA ListMoves ==
  ASSUME IInv, [Next]_vars
  PROVE  \/ \E id \in TimerIds, ticks \in Nat : ~IsRunning(id) /\ Link(id, ticks)
         \/ \E id \in TimerIds : StopIfRunning(id)
         \/ RepeatedElapses
         \/ PartElapses
         \/ /\ Running' = Running
            /\ UNCHANGED <<countLeft, previousId, nextId, gCurrentRunningTimerId>>
<1>1. CASE CreateTimer \/ DeleteTimer
  <2>1. /\ \A t \in TimerIds : timerIdStatus'[t] = "RUNNING" <=> timerIdStatus[t] = "RUNNING"
        /\ UNCHANGED <<countLeft, previousId, nextId, gCurrentRunningTimerId>>
    BY <1>1, ListFacts DEF CreateTimer, DeleteTimer, IsFirstFree, ListType
  <2> QED
    BY <2>1 DEF Running, IsRunning
<1>2. CASE \/ Start \/ SingleShotElapses \/ HandlerReturns \/ WakeupCounterEnds \/ Tick
           \/ UNCHANGED vars
  <2>1. UNCHANGED <<list, countLeft>>
    <3>1. CASE Start
      BY <3>1 DEF Start
    <3>2. CASE SingleShotElapses
      BY <3>2 DEF SingleShotElapses
    <3>3. CASE HandlerReturns
      BY <3>3 DEF HandlerReturns
    <3>4. CASE WakeupCounterEnds \/ Tick
      BY <3>4 DEF WakeupCounterEnds, Tick
    <3>5. CASE UNCHANGED vars
      BY <3>5 DEF vars
    <3> QED
      BY <1>2, <3>1, <3>2, <3>3, <3>4, <3>5
  <2> QED
    BY <2>1 DEF list, Running, IsRunning
<1>3. CASE StartStops \/ Stop \/ CallbackStops \/ HandlerStops
  <2>1. \E id \in TimerIds : StopIfRunning(id)
    <3>1. CASE StartStops
      BY <3>1, Owners DEF StartStops, IInv, LinkTargets
    <3>2. CASE Stop
      BY <3>2, Owners DEF Stop, StopIfRunning
    <3>3. CASE CallbackStops
      BY <3>3 DEF CallbackStops, StopIfRunning, IInv, LinkTargets
    <3>4. CASE HandlerStops
      BY <3>4 DEF HandlerStops, IInv, LinkTargets
    <3> QED
      BY <1>3, <3>1, <3>2, <3>3, <3>4
  <2> QED
    BY <2>1
<1>4. CASE StartLinks \/ HandlerRestarts
  <2>1. \E id \in TimerIds, ticks \in Nat : ~IsRunning(id) /\ Link(id, ticks)
    <3>1. CASE StartLinks
      BY <3>1, Owners, ListFacts DEF StartLinks, IInv, LinkTargets, RestType
    <3>2. CASE HandlerRestarts
      BY <3>2, ListFacts DEF HandlerRestarts, IInv, LinkTargets
    <3> QED
      BY <1>4, <3>1, <3>2
  <2> QED
    BY <2>1
<1> QED
  BY <1>1, <1>2, <1>3, <1>4 DEF Next, Call, Step

\* The timer that elapsed is the current one.
LEMMA ElapsesEffect ==
  ASSUME IInv, NEW id, WakeupIsFor(id)
  PROVE  id \in Running
BY ListFacts DEF WakeupIsFor, IInv, ListInv, ListIsLinked

LEMMA NextKeepsOrder ==
  ASSUME IInv, ListIsSorted, [Next]_vars
  PROVE  ListIsSorted'
<1>1. CASE \E id \in TimerIds, ticks \in Nat : ~IsRunning(id) /\ Link(id, ticks)
  BY <1>1, LinkKeepsOrder
<1>2. CASE \E id \in TimerIds : StopIfRunning(id)
  BY <1>2, StopKeepsOrder
<1>3. CASE RepeatedElapses
  <2>1. PICK id \in TimerIds : WakeupIsFor(id) /\ UnlinkTimer(id) /\ UNCHANGED countLeft
    BY <1>3 DEF RepeatedElapses
  <2>2. id \in Running
    BY <2>1, ElapsesEffect
  <2>3. Running' = Running \ {id}
    BY <2>1, <2>2, ListFacts DEF UnlinkTimer, ListType, Running, IsRunning
  <2> QED
    BY <2>1, <2>2, <2>3, UnlinkTimerSorts DEF IsSorted, ListIsSorted
<1>4. CASE PartElapses
  <2>1. PICK id \in TimerIds :
          /\ RescheduleTimerList(id, Running, countLeft, ssrOnLastSetup)
          /\ UNCHANGED list
    BY <1>4 DEF PartElapses
  <2>2. /\ Running' = Running /\ nextId' = nextId
        /\ ssr \in 0 .. SynchPrescaler - 1
        /\ ssrOnLastSetup \in 0 .. SynchPrescaler - 1 \cup {Forbidden}
        /\ countLeft \in [TimerIds -> Nat]
        /\ IsSorted(Running, nextId, countLeft)
    BY <2>1, ListFacts
       DEF list, Running, IsRunning, RestType, WakeupType, IsSorted, ListIsSorted
  <2>3. IsSorted(Running, nextId, countLeft')
    BY <2>1, <2>2, ListFacts, RescheduleSorts
  <2> QED
    BY <2>2, <2>3 DEF IsSorted, ListIsSorted
<1>5. CASE /\ Running' = Running
           /\ UNCHANGED <<countLeft, previousId, nextId, gCurrentRunningTimerId>>
  BY <1>5 DEF ListIsSorted
<1> QED
  BY <1>1, <1>2, <1>3, <1>4, <1>5, ListMoves

OrderInv == IInv /\ ListIsSorted

(***************************************************************************)
(* ListIsSorted: LinkTimer always finds the place of a timer, and the      *)
(* first timer of the list is the next one to elapse.                      *)
(***************************************************************************)
THEOREM ListSorted == Spec => []ListIsSorted
<1>1. Init => OrderInv
  <2>1. Init => ListIsSorted
    BY DEF Init, ListIsSorted, Running, IsRunning
  <2> QED
    BY <2>1, InitInvariant DEF OrderInv
<1>2. OrderInv /\ [Next]_vars => OrderInv'
  BY NextInvariant, NextKeepsOrder DEF OrderInv
<1>3. OrderInv => ListIsSorted
  BY DEF OrderInv
<1> QED
  BY <1>1, <1>2, <1>3, PTL DEF Spec

-----------------------------------------------------------------------------
(* The times.  Beyond the order of the list: its timers can all be reached *)
(* from the current one; counts and elapsed time give the ticks that are   *)
(* left; and the wake-up counter is armed for no longer than the           *)
(* sub-second register can measure.                                        *)

\* Among any timers of the list one comes first.
FirstExists ==
  \A S \in SUBSET Running :
    S # {} => \E id \in S : id = gCurrentRunningTimerId \/ previousId[id] \notin S

Elapsed == ReturnTimeElapsed(ssrOnLastSetup)

IsArmed == wakeupCounter # Disabled

\* A count is exact, unless its time is over.
CountsAreRight ==
  \A id \in Running :
    /\ due[id] + Elapsed <= countLeft[id]
    /\ countLeft[id] > Elapsed => countLeft[id] = due[id] + Elapsed

\* The register does not wrap twice before the elapsed time is read.
InRange ==
  Running # {} =>
    /\ ssrOnLastSetup # Forbidden
    /\ IF IsArmed THEN Elapsed + wakeupCounter <= MaxWakeupTimerSetup
                  ELSE Elapsed <= MaxWakeupTimerSetup + delay

\* The wake-up handler has set up the counter, or does not run.
IsServed == handler = Idle \/ handler.pc = "callback"

WakeupInv ==
  /\ wakeupCounter # 0
  /\ pending => ~IsArmed
  /\ handler.pc = "stop" => IsRunning(handler.id)
  /\ Running # {} /\ IsServed => IsArmed \/ pending

DueInv ==
  /\ delay <= HandlerMaxDelay
  /\ \A id \in Running : due[id] >= IF IsArmed THEN wakeupCounter ELSE -delay
  /\ Running # {} /\ IsServed /\ limitation = "LARGE_ENOUGH" =>
       due[gCurrentRunningTimerId] <= IF IsArmed THEN wakeupCounter ELSE 1

TimeInv ==
  /\ OrderInv /\ FirstExists
  /\ CountsAreRight /\ InRange /\ WakeupInv /\ DueInv

\* The list does not run in circles beside the current timer.
LEMMA NoneRuns ==
  ASSUME IInv, FirstExists, gCurrentRunningTimerId = NoTimer
  PROVE  Running = {}
<1>1. \A id \in Running : id # NoTimer /\ previousId[id] \in Running
  BY ListFacts DEF IInv, ListInv, ListIsLinked
<1> QED
  BY <1>1 DEF FirstExists

LEMMA LinkKeepsFirst ==
  ASSUME IInv, FirstExists, NEW id \in TimerIds, id \notin Running,
         Running' = Running \cup {id}, NEW timeLeft, LinkTimer(id, timeLeft)
  PROVE  FirstExists'
<1>1. /\ \A t \in Running : t # id /\ t \in TimerIds
      /\ \A t \in Running : t # gCurrentRunningTimerId => previousId[t] \in Running
      /\ \A t \in Running : nextId[t] # NoTimer => previousId[nextId[t]] = t
  BY ListFacts DEF IInv, ListInv, ListIsLinked
<1>2. SUFFICES ASSUME NEW S \in SUBSET Running', S # {}
               PROVE  \E t \in S : t = gCurrentRunningTimerId' \/ previousId'[t] \notin S
  BY DEF FirstExists
<1>3. CASE LinkFirst(id)
  <2>1. Running = {}
    BY <1>3, NoneRuns DEF LinkFirst
  <2> QED
    BY <1>2, <1>3, <2>1 DEF LinkFirst
<1>4. CASE LinkTimerBefore(id, timeLeft)
  <2>1. gCurrentRunningTimerId' = id
    BY <1>4 DEF LinkTimerBefore
  <2>2. CASE id \notin S
    <3>1. PICK t \in S : t = gCurrentRunningTimerId \/ previousId[t] \notin S
      BY <1>2, <2>2 DEF FirstExists
    <3>2. previousId'[t] = IF t = gCurrentRunningTimerId THEN id ELSE previousId[t]
      BY <1>1, <1>2, <1>4, <2>2, ListFacts DEF LinkTimerBefore, ListType
    <3> QED
      BY <2>2, <3>1, <3>2
  <2> QED
    BY <2>1, <2>2
<1>5. CASE LinkTimerAfter(id, timeLeft)
  <2>1. PICK lookup \in Running :
          previousId' = [t \in TimerIds |->
            IF t = id THEN lookup
            ELSE IF t = nextId[lookup] THEN id
            ELSE previousId[t]]
    BY <1>5 DEF LinkTimerAfter
  <2>2. gCurrentRunningTimerId' = gCurrentRunningTimerId
    BY <1>5 DEF LinkTimerAfter
  <2>3. /\ previousId'[id] = lookup
        /\ \A t \in Running : previousId'[t] = IF t = nextId[lookup] THEN id
                                                                     ELSE previousId[t]
    BY <1>1, <2>1
  <2>4. CASE id \notin S
    <3>1. PICK t \in S : t = gCurrentRunningTimerId \/ previousId[t] \notin S
      BY <1>2, <2>4 DEF FirstExists
    <3> QED
      BY <1>2, <2>2, <2>3, <2>4, <3>1
  <2>5. CASE id \in S /\ lookup \notin S
    BY <2>3, <2>5
  <2>6. CASE id \in S /\ lookup \in S
    <3>1. S \ {id} \in SUBSET Running /\ S \ {id} # {}
      BY <1>1, <1>2, <2>6
    <3>2. PICK t \in S \ {id} :
            t = gCurrentRunningTimerId \/ previousId[t] \notin S \ {id}
      BY <3>1 DEF FirstExists
    <3>3. CASE t = gCurrentRunningTimerId
      BY <2>2, <3>2, <3>3
    <3>4. CASE t # gCurrentRunningTimerId
      <4>1. t \in Running /\ previousId[t] \in Running /\ previousId[t] \notin S \ {id}
        BY <1>1, <3>1, <3>2, <3>4
      <4>2. t # nextId[lookup]
        BY <1>1, <2>6, <4>1, ListFacts
      <4> QED
        BY <1>1, <2>3, <3>2, <4>1, <4>2
    <3> QED
      BY <3>3, <3>4
  <2> QED
    BY <2>4, <2>5, <2>6
<1> QED
  BY <1>3, <1>4, <1>5 DEF LinkTimer

LEMMA UnlinkKeepsFirst ==
  ASSUME IInv, FirstExists, NEW id \in Running, Running' = Running \ {id},
         UnlinkTimer(id)
  PROVE  FirstExists'
<1>1. /\ \A t \in Running : t \in TimerIds /\ t # NoTimer
      /\ \A t \in Running : t # gCurrentRunningTimerId =>
           previousId[t] \in Running /\ nextId[previousId[t]] = t
      /\ \A t \in Running : nextId[t] # NoTimer => previousId[nextId[t]] = t
  BY ListFacts DEF IInv, ListInv, ListIsLinked
<1>2. SUFFICES ASSUME NEW S \in SUBSET Running', S # {}
               PROVE  \E t \in S : t = gCurrentRunningTimerId' \/ previousId'[t] \notin S
  BY DEF FirstExists
<1>3. CASE id = gCurrentRunningTimerId
  <2>1. PICK t \in S : t = gCurrentRunningTimerId \/ previousId[t] \notin S
    BY <1>2 DEF FirstExists
  <2> QED
    BY <1>2, <1>3, <2>1 DEF UnlinkTimer
<1>4. CASE id # gCurrentRunningTimerId
  <2> DEFINE before == previousId[id]
             after == nextId[id]
  <2>1. /\ gCurrentRunningTimerId' = gCurrentRunningTimerId
        /\ \A t \in Running : previousId'[t] = IF t = after THEN before ELSE previousId[t]
        /\ before \in Running /\ nextId[before] = id /\ before # id
        /\ after # NoTimer => previousId[after] = id
    <3>1. before # id
      <4>1. PICK t \in {id} : t = gCurrentRunningTimerId \/ previousId[t] \notin {id}
        BY DEF FirstExists
      <4> QED
        BY <1>4, <4>1
    <3> QED
      BY <1>1, <1>4, <3>1 DEF UnlinkTimer
  <2> HIDE DEF before, after
  <2>2. CASE after \in S /\ before \in S
    <3>1. PICK t \in S \cup {id} :
            t = gCurrentRunningTimerId \/ previousId[t] \notin S \cup {id}
      BY <1>2 DEF FirstExists
    <3>2. t # id
      BY <1>4, <2>2, <3>1 DEF before
    <3>3. CASE t = gCurrentRunningTimerId
      BY <2>1, <3>1, <3>2, <3>3
    <3>4. CASE t # gCurrentRunningTimerId
      <4>1. t # after
        BY <1>1, <1>2, <2>1, <3>1, <3>2, <3>4
      <4> QED
        BY <1>2, <2>1, <3>1, <3>2, <3>4, <4>1
    <3> QED
      BY <3>3, <3>4
  <2>3. CASE ~(after \in S /\ before \in S)
    <3>1. PICK t \in S : t = gCurrentRunningTimerId \/ previousId[t] \notin S
      BY <1>2 DEF FirstExists
    <3> QED
      BY <1>2, <2>1, <2>3, <3>1
  <2> QED
    BY <2>2, <2>3
<1> QED
  BY <1>3, <1>4

LEMMA NextKeepsFirst ==
  ASSUME IInv, FirstExists, [Next]_vars
  PROVE  FirstExists'
<1>1. CASE \E id \in TimerIds, ticks \in Nat : ~IsRunning(id) /\ Link(id, ticks)
  <2>1. PICK id \in TimerIds, ticks \in Nat : ~IsRunning(id) /\ Link(id, ticks)
    BY <1>1
  <2> DEFINE setup == IF gCurrentRunningTimerId = NoTimer THEN Forbidden
                                                          ELSE ssrOnLastSetup
  <2>2. /\ id \notin Running /\ Running' = Running \cup {id}
        /\ LinkTimer(id, ticks + ReturnTimeElapsed(setup))
    BY <2>1, LinkEffect
  <2> QED
    BY <2>2, LinkKeepsFirst
<1>2. CASE \E id \in TimerIds : StopIfRunning(id)
  <2>1. PICK id \in TimerIds : StopIfRunning(id)
    BY <1>2
  <2>2. CASE Unlink(id)
    BY <2>2, UnlinkEffect, UnlinkKeepsFirst
  <2>3. CASE UNCHANGED list
    BY <2>3 DEF list, FirstExists, Running, IsRunning
  <2> QED
    BY <2>1, <2>2, <2>3 DEF StopIfRunning
<1>3. CASE RepeatedElapses
  <2>1. PICK id \in TimerIds : WakeupIsFor(id) /\ UnlinkTimer(id)
    BY <1>3 DEF RepeatedElapses
  <2>2. id \in Running
    BY <2>1, ElapsesEffect
  <2>3. Running' = Running \ {id}
    BY <2>1, <2>2, ListFacts DEF UnlinkTimer, ListType, Running, IsRunning
  <2> QED
    BY <2>1, <2>2, <2>3, UnlinkKeepsFirst
<1>4. CASE PartElapses
  BY <1>4 DEF PartElapses, list, FirstExists, Running, IsRunning
<1>5. CASE /\ Running' = Running
           /\ UNCHANGED <<countLeft, previousId, nextId, gCurrentRunningTimerId>>
  BY <1>5 DEF FirstExists
<1> QED
  BY <1>1, <1>2, <1>3, <1>4, <1>5, ListMoves

\* The current timer has the least count.
LeadsTo(running, next, previous, current) ==
  /\ \A t \in running : t # current =>
       previous[t] \in running /\ next[previous[t]] = t
  /\ \A S \in SUBSET running :
       S # {} => \E t \in S : t = current \/ previous[t] \notin S

LEMMA CurrentIsLeast ==
  ASSUME NEW running \in SUBSET TimerIds, NEW next, NEW previous,
         NEW current \in running, NEW counts \in [TimerIds -> Nat],
         IsSorted(running, next, counts),
         LeadsTo(running, next, previous, current)
  PROVE  \A t \in running : counts[current] <= counts[t]
<1> DEFINE S == {t \in running : ~(counts[current] <= counts[t])}
<1> SUFFICES ASSUME S # {} PROVE FALSE
  OBVIOUS
<1>1. PICK t \in S : t = current \/ previous[t] \notin S
  BY DEF LeadsTo
<1>2. t \in running /\ counts[t] \in Nat /\ counts[current] \in Nat
      /\ counts[t] < counts[current]
  OBVIOUS
<1>3. t # current /\ previous[t] \in running /\ next[previous[t]] = t /\ t # NoTimer
  BY <1>1, <1>2, TimerServerAssumption DEF LeadsTo, TimerIds, NoTimer
<1>4. counts[previous[t]] <= counts[t] /\ counts[previous[t]] \in Nat
  BY <1>3 DEF IsSorted
<1> QED
  BY <1>1, <1>2, <1>3, <1>4

\* What a reschedule does, if counts and elapsed time were right before.
LEMMA RescheduleEffect ==
  ASSUME NEW running \in SUBSET TimerIds, NEW first \in running,
         NEW counts \in [TimerIds -> Nat], NEW left \in [TimerIds -> Int],
         NEW setup \in 0 .. SynchPrescaler - 1 \cup {Forbidden},
         ssr \in 0 .. SynchPrescaler - 1, ssr' = ssr,
         \A t \in running : counts[first] <= counts[t],
         \A t \in running :
           /\ left[t] + ReturnTimeElapsed(setup) <= counts[t]
           /\ counts[t] > ReturnTimeElapsed(setup) =>
                counts[t] = left[t] + ReturnTimeElapsed(setup),
         RescheduleTimerList(first, running, counts, setup)
  PROVE  /\ ssrOnLastSetup' # Forbidden /\ Elapsed' = 0
         /\ \A t \in running :
              /\ left[t] <= countLeft'[t]
              /\ countLeft'[t] > 0 => countLeft'[t] = left[t]
         /\ wakeupCounter' \in 1 .. MaxWakeupTimerSetup \cup {Disabled}
         /\ pending' <=> ~IsArmed'
         /\ IsArmed' => \A t \in running : left[t] >= wakeupCounter'
         /\ limitation' = "LARGE_ENOUGH" =>
              left[first] <= IF IsArmed' THEN wakeupCounter' ELSE 1
<1> DEFINE elapsed == ReturnTimeElapsed(setup)
           value == WakeupCounterValue(counts[first], elapsed)
<1>1. SynchPrescaler \in Nat /\ MaxWakeupTimerSetup \in Nat \ {0}
  BY TimerServerAssumption DEF MaxWakeupTimerSetup
<1>2. elapsed \in Nat
  BY <1>1 DEF ReturnTimeElapsed, Forbidden
<1>3. /\ limitation' = WakeupTimerLimitation(counts[first], elapsed)
      /\ countLeft' = [t \in TimerIds |->
           IF t \in running THEN Remaining(counts[t], elapsed) ELSE counts[t]]
      /\ ssrOnLastSetup' = ssr
      /\ wakeupCounter' = IF value = 0 THEN Disabled ELSE value
  BY DEF RescheduleTimerList, RestartWakeupCounter
<1>4. pending' <=> value = 0
  BY Zenon DEF RescheduleTimerList, RestartWakeupCounter
<1> HIDE DEF elapsed
<1>5. /\ value \in 0 .. MaxWakeupTimerSetup
      /\ value > 0 => value + elapsed <= counts[first]
      /\ counts[first] <= elapsed + MaxWakeupTimerSetup =>
           IF counts[first] > elapsed THEN value + elapsed = counts[first]
                                      ELSE value = 0
  BY <1>1, <1>2 DEF WakeupCounterValue
<1> HIDE DEF value
<1>6. ssrOnLastSetup' # Forbidden /\ Elapsed' = 0
  BY <1>3 DEF Elapsed, ReturnTimeElapsed, Forbidden
<1>7. ASSUME NEW t \in running
      PROVE  /\ left[t] <= countLeft'[t]
             /\ countLeft'[t] > 0 => countLeft'[t] = left[t]
  <2>1. /\ counts[t] \in Nat /\ left[t] \in Int
        /\ left[t] + elapsed <= counts[t]
        /\ counts[t] > elapsed => counts[t] = left[t] + elapsed
        /\ countLeft'[t] = Remaining(counts[t], elapsed)
    BY <1>3 DEF elapsed
  <2> QED
    BY <1>2, <2>1 DEF Remaining
<1>8. IsArmed' <=> value # 0
  BY <1>3, <1>5 DEF IsArmed, Disabled
<1>9. pending' <=> ~IsArmed'
  BY <1>4, <1>8
<1>10. wakeupCounter' \in 1 .. MaxWakeupTimerSetup \cup {Disabled}
  BY <1>1, <1>3, <1>5
<1>11. ASSUME IsArmed', NEW t \in running
       PROVE  left[t] >= wakeupCounter'
  <2>1. /\ counts[t] \in Nat /\ counts[first] \in Nat /\ left[t] \in Int
        /\ counts[first] <= counts[t]
        /\ counts[t] > elapsed => counts[t] = left[t] + elapsed
    BY DEF elapsed
  <2>2. value > 0 /\ wakeupCounter' = value
    BY <1>3, <1>5, <1>8, <1>11
  <2> QED
    BY <1>2, <1>5, <2>1, <2>2
<1>12. ASSUME limitation' = "LARGE_ENOUGH"
       PROVE  left[first] <= IF IsArmed' THEN wakeupCounter' ELSE 1
  <2>1. counts[first] <= elapsed + MaxWakeupTimerSetup
    BY <1>1, <1>2, <1>3, <1>12 DEF WakeupTimerLimitation
  <2>2. /\ counts[first] \in Nat /\ left[first] \in Int
        /\ left[first] + elapsed <= counts[first]
    BY DEF elapsed
  <2>3. CASE value # 0
    BY <1>2, <1>3, <1>5, <1>8, <2>1, <2>2, <2>3
  <2>4. CASE value = 0
    <3>1. left[first] <= 0
      BY <1>2, <1>5, <2>1, <2>2, <2>4
    <3> QED
      BY <1>8, <2>2, <2>4, <3>1
  <2> QED
    BY <2>3, <2>4
<1> QED
  BY <1>6, <1>7, <1>9, <1>10, <1>11, <1>12

TimesAreRight == CountsAreRight /\ InRange /\ WakeupInv /\ DueInv

LEMMA TimeFacts ==
  ASSUME TimeInv
  PROVE  /\ IInv /\ ListIsSorted /\ FirstExists
         /\ CountsAreRight /\ InRange /\ WakeupInv /\ DueInv
         /\ SynchPrescaler \in Nat /\ MaxWakeupTimerSetup \in Nat \ {0}
         /\ MaxWakeupTimerSetup + HandlerMaxDelay = SynchPrescaler - 1
         /\ HandlerMaxDelay \in Nat /\ delay \in Nat
         /\ wakeupCounter \in Nat \cup {Disabled}
         /\ Elapsed \in Nat
         /\ \A t \in Running : due[t] \in Int /\ countLeft[t] \in Nat /\ due[t] >= -delay
<1>1. /\ IInv /\ ListIsSorted /\ FirstExists
      /\ CountsAreRight /\ InRange /\ WakeupInv /\ DueInv
  BY DEF TimeInv, OrderInv
<1>2. /\ SynchPrescaler \in Nat /\ MaxWakeupTimerSetup \in Nat \ {0}
      /\ HandlerMaxDelay \in Nat
      /\ MaxWakeupTimerSetup + HandlerMaxDelay = SynchPrescaler - 1
  BY TimerServerAssumption DEF MaxWakeupTimerSetup
<1>3. /\ delay \in Nat /\ wakeupCounter \in Nat \cup {Disabled}
      /\ \A t \in Running : due[t] \in Int /\ countLeft[t] \in Nat
  BY <1>1, ListFacts DEF RestType, WakeupType
<1>4. Elapsed \in Nat
  <2>1. /\ ssr \in 0 .. SynchPrescaler - 1
        /\ ssrOnLastSetup \in 0 .. SynchPrescaler - 1 \cup {Forbidden}
    BY <1>1, ListFacts DEF RestType, WakeupType
  <2> QED
    BY <1>2, <2>1 DEF Elapsed, ReturnTimeElapsed, Forbidden
<1>5. ASSUME NEW t \in Running PROVE due[t] >= -delay
  BY <1>1, <1>3 DEF DueInv, IsArmed, Disabled
<1> QED
  BY <1>1, <1>2, <1>3, <1>4, <1>5

\* A reschedule of the list sets the times right.
LEMMA RescheduleKeepsTimes ==
  ASSUME TimeInv, IInv', FirstExists', ssr' = ssr,
         gCurrentRunningTimerId' \in Running',
         NEW counts \in [TimerIds -> Nat], IsSorted(Running', nextId', counts),
         NEW setup \in 0 .. SynchPrescaler - 1 \cup {Forbidden},
         RescheduleTimerList(gCurrentRunningTimerId', Running', counts, setup),
         \A t \in Running' :
           /\ due'[t] >= -delay
           /\ due'[t] + ReturnTimeElapsed(setup) <= counts[t]
           /\ counts[t] > ReturnTimeElapsed(setup) =>
                counts[t] = due'[t] + ReturnTimeElapsed(setup),
         delay' \in {0, delay}, pending' => delay' = delay,
         handler'.pc # "stop"
  PROVE  TimesAreRight'
<1> DEFINE first == gCurrentRunningTimerId'
<1>1. /\ Running' \in SUBSET TimerIds
      /\ due' \in [TimerIds -> Int] /\ countLeft' \in [TimerIds -> Nat]
      /\ LeadsTo(Running', nextId', previousId', first)
  <2>1. Running' \in SUBSET TimerIds
    BY DEF Running
  <2> QED
    BY <2>1 DEF IInv, TypeOK, ListInv, ListIsLinked, FirstExists, LeadsTo
<1>2. ssr \in 0 .. SynchPrescaler - 1
  BY TimeFacts, ListFacts DEF RestType
<1>3. \A t \in Running' : counts[first] <= counts[t]
  BY <1>1, CurrentIsLeast
<1>4. /\ ssrOnLastSetup' # Forbidden /\ Elapsed' = 0
      /\ \A t \in Running' :
           /\ due'[t] <= countLeft'[t]
           /\ countLeft'[t] > 0 => countLeft'[t] = due'[t]
      /\ wakeupCounter' \in 1 .. MaxWakeupTimerSetup \cup {Disabled}
      /\ pending' <=> ~IsArmed'
      /\ IsArmed' => \A t \in Running' : due'[t] >= wakeupCounter'
      /\ limitation' = "LARGE_ENOUGH" =>
           due'[first] <= IF IsArmed' THEN wakeupCounter' ELSE 1
  BY <1>1, <1>2, <1>3, RescheduleEffect
<1>5. CountsAreRight'
  <2>1. ASSUME NEW t \in Running'
        PROVE  /\ due'[t] + Elapsed' <= countLeft'[t]
               /\ countLeft'[t] > Elapsed' => countLeft'[t] = due'[t] + Elapsed'
    <3>1. due'[t] \in Int /\ countLeft'[t] \in Nat
      BY <1>1
    <3> QED
      BY <1>4, <3>1
  <2> QED
    BY <2>1 DEF CountsAreRight
<1>6. InRange'
  <2>1. Elapsed' + wakeupCounter' <= MaxWakeupTimerSetup
        /\ Elapsed' <= MaxWakeupTimerSetup + delay'
    BY <1>4, TimeFacts DEF Disabled
  <2> QED
    BY <1>4, <2>1 DEF InRange
<1>7. WakeupInv'
  <2>1. wakeupCounter' # 0
    BY <1>4 DEF Disabled
  <2> QED
    BY <1>4, <2>1 DEF WakeupInv
<1>8. DueInv'
  <2>1. delay' <= HandlerMaxDelay
    BY TimeFacts DEF DueInv
  <2>2. ASSUME NEW t \in Running'
        PROVE  due'[t] >= IF IsArmed' THEN wakeupCounter' ELSE -delay'
    <3>1. CASE IsArmed'
      BY <1>4, <3>1
    <3>2. CASE ~IsArmed'
      BY <1>4, <3>2
    <3> QED
      BY <3>1, <3>2
  <2> QED
    BY <1>4, <2>1, <2>2 DEF DueInv
<1> QED
  BY <1>5, <1>6, <1>7, <1>8 DEF TimesAreRight

\* Nothing runs any more.
LEMMA NoTimesToKeep ==
  ASSUME TimeInv, IInv', FirstExists', gCurrentRunningTimerId' = NoTimer,
         wakeupCounter' = Disabled, pending' = FALSE,
         delay' \in {0, delay}, handler'.pc # "stop"
  PROVE  TimesAreRight'
<1>1. Running' = {}
  <2>1. \A t \in Running' : t # NoTimer
    BY TimerServerAssumption DEF Running, TimerIds, NoTimer
  <2>2. \A t \in Running' : previousId'[t] \in Running'
    BY <2>1 DEF IInv, ListInv, ListIsLinked
  <2> QED
    BY <2>1, <2>2 DEF FirstExists
<1>2. delay' <= HandlerMaxDelay
  BY TimeFacts DEF DueInv
<1> QED
  BY <1>1, <1>2 DEF TimesAreRight, CountsAreRight, InRange, WakeupInv, DueInv, IsArmed,
     Disabled

LEMMA LinkKeepsTimes ==
  ASSUME TimeInv, IInv', FirstExists', NEW id \in TimerIds, ~IsRunning(id),
         NEW ticks \in Nat, Link(id, ticks), ssr' = ssr,
         delay' \in {0, delay}, pending' => delay' = delay, handler'.pc # "stop"
  PROVE  TimesAreRight'
<1> DEFINE setup == IF gCurrentRunningTimerId = NoTimer THEN Forbidden
                                                        ELSE ssrOnLastSetup
           elapsed == ReturnTimeElapsed(setup)
           counts == [countLeft EXCEPT ![id] = ticks + elapsed]
<1>1. IInv /\ ListIsSorted
  BY TimeFacts
<1>2. /\ setup \in 0 .. SynchPrescaler - 1 \cup {Forbidden}
      /\ elapsed \in Nat
      /\ id \notin Running /\ Running' = Running \cup {id}
      /\ gCurrentRunningTimerId' \in Running'
      /\ due' = [due EXCEPT ![id] = ticks]
      /\ LinkTimer(id, ticks + elapsed)
      /\ RescheduleTimerList(gCurrentRunningTimerId', Running', counts, setup)
  BY <1>1, LinkEffect
<1>3. Running # {} => elapsed = Elapsed
  BY TimeFacts, NoneRuns DEF Elapsed
<1> HIDE DEF setup, elapsed
<1>4. /\ counts \in [TimerIds -> Nat]
      /\ counts[id] = ticks + elapsed /\ due'[id] = ticks
      /\ \A t \in Running : counts[t] = countLeft[t] /\ due'[t] = due[t]
  BY <1>1, <1>2, ListFacts DEF WakeupType
<1>5. IsSorted(Running', nextId', counts)
  <2>1. ticks + elapsed \in Nat
    BY <1>2
  <2> DEFINE timeLeft == ticks + elapsed
  <2>2. /\ counts = [countLeft EXCEPT ![id] = timeLeft] /\ timeLeft \in Nat
        /\ LinkTimer(id, timeLeft)
    BY <1>2, <2>1
  <2> HIDE DEF timeLeft, counts
  <2> QED
    BY <1>1, <1>2, <2>2, LinkTimerSorts
<1> HIDE DEF counts
<1>6. ASSUME NEW t \in Running'
      PROVE  /\ due'[t] >= -delay
             /\ due'[t] + elapsed <= counts[t]
             /\ counts[t] > elapsed => counts[t] = due'[t] + elapsed
  <2>1. CASE t = id
    BY <1>2, <1>4, <2>1, TimeFacts
  <2>2. CASE t \in Running
    BY <1>2, <1>3, <1>4, <2>2, TimeFacts DEF CountsAreRight
  <2> QED
    BY <1>2, <2>1, <2>2
<1>7. \A t \in Running' :
        /\ due'[t] >= -delay
        /\ due'[t] + ReturnTimeElapsed(setup) <= counts[t]
        /\ counts[t] > ReturnTimeElapsed(setup) =>
             counts[t] = due'[t] + ReturnTimeElapsed(setup)
  BY <1>6 DEF elapsed
<1> QED
  BY <1>2, <1>4, <1>5, <1>7, RescheduleKeepsTimes

LEMMA UnlinkKeepsTimes ==
  ASSUME TimeInv, IInv', FirstExists', NEW id \in TimerIds, Unlink(id), ssr' = ssr,
         delay' \in {0, delay}, pending' => delay' = delay, handler'.pc # "stop"
  PROVE  TimesAreRight'
<1>1. IInv /\ ListIsSorted
  BY TimeFacts
<1>2. CASE gCurrentRunningTimerId' = NoTimer
  BY <1>1, <1>2, UnlinkEffect, NoTimesToKeep
<1>3. CASE gCurrentRunningTimerId' # NoTimer
  <2>1. /\ id \in Running /\ Running' = Running \ {id}
        /\ due' = [due EXCEPT ![id] = 0]
        /\ UnlinkTimer(id)
        /\ gCurrentRunningTimerId' \in Running'
        /\ RescheduleTimerList(gCurrentRunningTimerId', Running', countLeft,
                               ssrOnLastSetup)
    BY <1>1, <1>3, UnlinkEffect
  <2>2. /\ ssrOnLastSetup \in 0 .. SynchPrescaler - 1 \cup {Forbidden}
        /\ countLeft \in [TimerIds -> Nat]
        /\ \A t \in Running' : t \in Running /\ due'[t] = due[t]
    BY <1>1, <2>1, ListFacts DEF WakeupType
  <2>3. IsSorted(Running', nextId', countLeft)
    BY <1>1, <2>1, UnlinkTimerSorts
  <2>4. \A t \in Running' :
          /\ due'[t] >= -delay
          /\ due'[t] + ReturnTimeElapsed(ssrOnLastSetup) <= countLeft[t]
          /\ countLeft[t] > ReturnTimeElapsed(ssrOnLastSetup) =>
               countLeft[t] = due'[t] + ReturnTimeElapsed(ssrOnLastSetup)
    BY <2>2, TimeFacts DEF CountsAreRight, Elapsed
  <2> QED
    BY <2>1, <2>2, <2>3, <2>4, RescheduleKeepsTimes
<1> QED
  BY <1>2, <1>3

\* Steps that set up nothing.
LEMMA QuietKeepsTimes ==
  ASSUME TimeInv, Running' = Running,
         UNCHANGED <<gCurrentRunningTimerId, countLeft, wakeup, ssr, due>>,
         delay' \in {0, delay}, ~IsArmed /\ Running # {} => delay' = delay,
         handler'.pc # "stop", IsServed' => IsServed
  PROVE  TimesAreRight'
<1>1. /\ UNCHANGED <<countLeft, ssrOnLastSetup, limitation, wakeupCounter, ssr, due>>
      /\ pending' = pending
      /\ IsArmed' <=> IsArmed
      /\ Elapsed' = Elapsed
  BY DEF wakeup, IsArmed, Elapsed, ReturnTimeElapsed
<1>2. CountsAreRight'
  BY <1>1, TimeFacts DEF CountsAreRight
<1>3. InRange'
  BY <1>1, TimeFacts DEF InRange
<1>4. WakeupInv'
  BY <1>1, TimeFacts DEF WakeupInv
<1>5. DueInv'
  BY <1>1, TimeFacts DEF DueInv
<1> QED
  BY <1>2, <1>3, <1>4, <1>5 DEF TimesAreRight

LEMMA StopKeepsTimes ==
  ASSUME TimeInv, IInv', FirstExists', NEW id \in TimerIds, StopIfRunning(id),
         ssr' = ssr, delay' \in {0, delay}, pending' => delay' = delay,
         handler'.pc # "stop", IsServed, IsServed'
  PROVE  TimesAreRight'
<1>1. CASE Unlink(id)
  BY <1>1, UnlinkKeepsTimes
<1>2. CASE ~IsRunning(id) /\ UNCHANGED <<list, counterInit, countLeft, wakeup, due>>
  <2>1. /\ Running' = Running
        /\ UNCHANGED <<gCurrentRunningTimerId, countLeft, wakeup, ssr, due>>
    BY <1>2 DEF list, Running, IsRunning
  <2>2. ~IsArmed /\ Running # {} => delay' = delay
    <3>1. pending' = pending
      BY <1>2 DEF wakeup
    <3>2. Running # {} => IsArmed \/ pending
      BY TimeFacts DEF WakeupInv
    <3> QED
      BY <3>1, <3>2
  <2> QED
    BY <2>1, <2>2, QuietKeepsTimes
<1> QED
  BY <1>1, <1>2 DEF StopIfRunning

LEMMA DelayAfterWait ==
  ASSUME TimeInv, WaitEnds
  PROVE  delay' \in {0, delay} /\ (pending' => delay' = delay)
BY DEF WaitEnds

\* The calls of task and button.
LEMMA CallsKeepTimes ==
  ASSUME TimeInv, IInv', FirstExists',
         CreateTimer \/ DeleteTimer \/ Start \/ Stop \/ StartStops \/ StartLinks
  PROVE  TimesAreRight'
<1>1. CASE CreateTimer \/ DeleteTimer \/ Start
  <2>1. /\ UNCHANGED <<gCurrentRunningTimerId, countLeft, wakeup, ssr, due, handler, delay>>
        /\ handler = Idle
    <3>1. CASE CreateTimer
      BY <3>1 DEF CreateTimer, TaskCalls, Runs
    <3>2. CASE DeleteTimer
      BY <3>2 DEF DeleteTimer, TaskCalls, Runs
    <3>3. CASE Start
      BY <3>3 DEF Start, Runs, list
    <3> QED
      BY <1>1, <3>1, <3>2, <3>3
  <2>2. Running' = Running
    <3>1. \A t \in TimerIds : timerIdStatus'[t] = "RUNNING" <=> timerIdStatus[t] = "RUNNING"
      BY <1>1, TimeFacts, ListFacts
         DEF CreateTimer, DeleteTimer, Start, IsFirstFree, list, ListType
    <3> QED
      BY <3>1 DEF Running, IsRunning
  <2>3. handler'.pc # "stop" /\ (IsServed' => IsServed)
    BY <2>1, IdleType DEF IsServed
  <2> QED
    BY <2>1, <2>2, <2>3, QuietKeepsTimes
<1>2. CASE Stop \/ StartStops
  <2>1. /\ ssr' = ssr /\ handler' = handler /\ handler = Idle
        /\ WaitEnds
    BY <1>2 DEF Stop, StartStops, TaskCalls, Runs
  <2>2. PICK id \in TimerIds : StopIfRunning(id)
    <3>1. CASE Stop
      BY <3>1, Owners DEF Stop, StopIfRunning
    <3>2. CASE StartStops
      BY <3>2, TimeFacts, Owners DEF StartStops, IInv, LinkTargets
    <3> QED
      BY <1>2, <3>1, <3>2
  <2>3. handler'.pc # "stop" /\ IsServed /\ IsServed'
    BY <2>1, IdleType DEF IsServed
  <2> QED
    BY <2>1, <2>2, <2>3, DelayAfterWait, StopKeepsTimes
<1>3. CASE StartLinks
  <2>1. PICK level \in Levels :
          /\ Runs(level)
          /\ starting[level].pc = "link"
          /\ Link(starting[level].id, starting[level].ticks)
    BY <1>3 DEF StartLinks
  <2>2. /\ starting[level].id \in TimerIds /\ starting[level].ticks \in Nat
        /\ ~IsRunning(starting[level].id)
    BY <2>1, TimeFacts, ListFacts, Owners DEF IInv, LinkTargets, RestType
  <2>3. ssr' = ssr /\ handler' = Idle /\ WaitEnds /\ handler'.pc # "stop"
    BY <1>3, <2>1, IdleType DEF StartLinks, Runs
  <2> QED
    BY <2>1, <2>2, <2>3, DelayAfterWait, LinkKeepsTimes
<1> QED
  BY <1>1, <1>2, <1>3

LEMMA CurrentRuns ==
  ASSUME TimeInv, Running # {}
  PROVE  gCurrentRunningTimerId \in Running
BY TimeFacts, NoneRuns DEF IInv, ListInv, ListIsLinked

\* The wake-up handler.
LEMMA ElapseKeepsTimes ==
  ASSUME TimeInv, IInv', FirstExists', RepeatedElapses \/ SingleShotElapses \/ PartElapses
  PROVE  TimesAreRight'
<1>1. CASE RepeatedElapses
  <2>1. PICK id \in TimerIds :
          /\ WakeupIsFor(id)
          /\ UnlinkTimer(id)
          /\ due' = [due EXCEPT ![id] = 0]
          /\ handler' = [Idle EXCEPT !.pc = "restart", !.id = id]
          /\ wakeupCounter' = Disabled
          /\ pending' = FALSE
          /\ UNCHANGED <<mode, counterInit, countLeft, ssr, ssrOnLastSetup,
                         limitation, starting, delay>>
    BY <1>1, Zenon DEF RepeatedElapses
  <2>2. id \in Running
    BY <2>1, TimeFacts, ElapsesEffect
  <2>3. Running' = Running \ {id}
    BY <2>1, <2>2, TimeFacts, ListFacts DEF UnlinkTimer, ListType, Running, IsRunning
  <2>4. ~IsArmed
    BY <2>1, TimeFacts DEF WakeupIsFor, WakeupInv
  <2>5. /\ ~IsArmed' /\ Elapsed' = Elapsed
        /\ \A t \in Running' : t \in Running /\ due'[t] = due[t]
    BY <2>1, <2>3, TimeFacts, ListFacts DEF IsArmed, Elapsed, ReturnTimeElapsed
  <2>6. handler'.pc = "restart" /\ handler' # Idle
    BY <2>1 DEF Idle
  <2>7. CountsAreRight' /\ InRange'
    BY <2>1, <2>3, <2>4, <2>5, TimeFacts DEF CountsAreRight, InRange
  <2>8. WakeupInv'
    BY <2>1, <2>6 DEF WakeupInv, IsServed, IsArmed, Disabled
  <2>9. DueInv'
    BY <2>1, <2>5, <2>6, TimeFacts DEF DueInv, IsServed
  <2> QED
    BY <2>7, <2>8, <2>9 DEF TimesAreRight
<1>2. CASE SingleShotElapses
  <2>1. PICK id \in TimerIds :
          /\ WakeupIsFor(id)
          /\ handler' = [Idle EXCEPT !.pc = "stop", !.id = id]
          /\ wakeupCounter' = Disabled
          /\ pending' = FALSE
          /\ UNCHANGED <<list, mode, counterInit, countLeft, ssr, ssrOnLastSetup,
                         limitation, starting, due, delay>>
    BY <1>2, Zenon DEF SingleShotElapses
  <2>2. id \in Running /\ Running' = Running
    BY <2>1, TimeFacts, ElapsesEffect DEF list, Running, IsRunning
  <2>3. ~IsArmed
    BY <2>1, TimeFacts DEF WakeupIsFor, WakeupInv
  <2>4. ~IsArmed' /\ Elapsed' = Elapsed
    BY <2>1 DEF IsArmed, Elapsed, ReturnTimeElapsed
  <2>5. handler'.pc = "stop" /\ handler'.id = id /\ handler' # Idle
    BY <2>1 DEF Idle
  <2>6. CountsAreRight' /\ InRange'
    BY <2>1, <2>2, <2>3, <2>4, TimeFacts DEF CountsAreRight, InRange
  <2>7. WakeupInv'
    <3>1. timerIdStatus'[id] = "RUNNING"
      BY <2>1, <2>2 DEF list, Running, IsRunning
    <3> QED
      BY <2>1, <2>5, <3>1 DEF WakeupInv, IsServed, IsArmed, Disabled, IsRunning
  <2>8. DueInv'
    BY <2>1, <2>2, <2>4, <2>5, TimeFacts DEF DueInv, IsServed
  <2> QED
    BY <2>6, <2>7, <2>8 DEF TimesAreRight
<1>3. CASE PartElapses
  <2>1. PICK id \in TimerIds :
          /\ WakeupIsFor(id)
          /\ RescheduleTimerList(id, Running, countLeft, ssrOnLastSetup)
          /\ WaitEnds
          /\ UNCHANGED <<list, ssr, handler, due>>
    BY <1>3 DEF PartElapses
  <2>2. /\ gCurrentRunningTimerId' = id /\ nextId' = nextId
        /\ id \in Running /\ Running' = Running
    BY <2>1, TimeFacts, ElapsesEffect DEF WakeupIsFor, list, Running, IsRunning
  <2>3. /\ ssrOnLastSetup \in 0 .. SynchPrescaler - 1 \cup {Forbidden}
        /\ countLeft \in [TimerIds -> Nat]
        /\ IsSorted(Running, nextId, countLeft)
    BY TimeFacts, ListFacts DEF WakeupType, ListIsSorted, IsSorted
  <2>4. \A t \in Running :
          /\ due'[t] >= -delay
          /\ due'[t] + ReturnTimeElapsed(ssrOnLastSetup) <= countLeft[t]
          /\ countLeft[t] > ReturnTimeElapsed(ssrOnLastSetup) =>
               countLeft[t] = due'[t] + ReturnTimeElapsed(ssrOnLastSetup)
    BY <2>1, TimeFacts DEF CountsAreRight, Elapsed
  <2>5. handler'.pc # "stop"
    BY <2>1, IdleType DEF WakeupIsFor
  <2> QED
    BY <2>1, <2>2, <2>3, <2>4, <2>5, DelayAfterWait, RescheduleKeepsTimes
<1> QED
  BY <1>1, <1>2, <1>3

LEMMA HandlerKeepsTimes ==
  ASSUME TimeInv, IInv', FirstExists',
         HandlerRestarts \/ HandlerStops \/ CallbackStops \/ HandlerReturns
  PROVE  TimesAreRight'
<1>1. CASE HandlerRestarts
  <2>1. /\ handler.id \in TimerIds /\ counterInit[handler.id] \in Nat
        /\ ~IsRunning(handler.id)
        /\ Link(handler.id, counterInit[handler.id])
        /\ handler' = [handler EXCEPT !.pc = "callback"]
        /\ UNCHANGED <<ssr, delay>>
    BY <1>1, TimeFacts, ListFacts DEF HandlerRestarts, IInv, LinkTargets
  <2>2. handler'.pc # "stop"
    BY <2>1, TimeFacts, ListFacts DEF RestType
  <2> QED
    BY <2>1, <2>2, LinkKeepsTimes
<1>2. CASE HandlerStops
  <2>1. /\ handler.id \in TimerIds
        /\ handler.pc = "stop"
        /\ StopIfRunning(handler.id)
        /\ handler' = [handler EXCEPT !.pc = "callback"]
        /\ UNCHANGED <<ssr, delay>>
    BY <1>2, TimeFacts DEF HandlerStops, IInv, LinkTargets
  <2>2. Unlink(handler.id)
    BY <2>1, TimeFacts DEF WakeupInv, StopIfRunning
  <2>3. handler'.pc # "stop"
    BY <2>1, TimeFacts, ListFacts DEF RestType
  <2> QED
    BY <2>1, <2>2, <2>3, UnlinkKeepsTimes
<1>3. CASE CallbackStops
  <2>1. /\ handler.id \in TimerIds
        /\ handler.pc = "callback"
        /\ Unlink(handler.id)
        /\ UNCHANGED <<ssr, handler, delay>>
    BY <1>3, TimeFacts DEF CallbackStops, IInv, LinkTargets
  <2> QED
    BY <2>1, UnlinkKeepsTimes
<1>4. CASE HandlerReturns
  <2>1. /\ handler.pc = "callback"
        /\ handler' = Idle
        /\ UNCHANGED <<list, countLeft, ssr, wakeup, due>>
        /\ WaitEnds
    BY <1>4 DEF HandlerReturns
  <2>2. Running' = Running /\ UNCHANGED gCurrentRunningTimerId
    BY <2>1 DEF list, Running, IsRunning
  <2>3. handler'.pc # "stop" /\ IsServed
    BY <2>1, IdleType DEF IsServed
  <2>4. ~IsArmed /\ Running # {} => delay' = delay
    <3>1. pending' = pending
      BY <2>1 DEF wakeup
    <3>2. Running # {} => IsArmed \/ pending
      BY <2>3, TimeFacts DEF WakeupInv
    <3> QED
      BY <2>1, <3>1, <3>2, DelayAfterWait
  <2> QED
    BY <2>1, <2>2, <2>3, <2>4, DelayAfterWait, QuietKeepsTimes
<1> QED
  BY <1>1, <1>2, <1>3, <1>4

\* The elapsed time grows by a tick, as the register does not wrap twice.
LEMMA TickElapses ==
  ASSUME TimeInv, Tick, Running # {}
  PROVE  Elapsed' = Elapsed + 1
<1>1. /\ ssr' = IF ssr = 0 THEN SynchPrescaler - 1 ELSE ssr - 1
      /\ ssrOnLastSetup' = ssrOnLastSetup
  BY DEF Tick
<1>2. /\ ssr \in 0 .. SynchPrescaler - 1
      /\ ssrOnLastSetup \in 0 .. SynchPrescaler - 1
  BY TimeFacts, ListFacts DEF RestType, WakeupType, InRange
<1>3. Elapsed <= SynchPrescaler - 2
  <2>1. CASE IsArmed
    BY <2>1, TimeFacts DEF InRange, WakeupInv, IsArmed
  <2>2. CASE ~IsArmed
    <3>1. IsWaiting
      BY <2>2, TimeFacts DEF WakeupInv, IsServed, IsWaiting
    <3>2. delay < HandlerMaxDelay
      BY <3>1 DEF Tick
    <3> QED
      BY <2>2, <3>2, TimeFacts DEF InRange
  <2> QED
    BY <2>1, <2>2
<1> QED
  BY <1>1, <1>2, <1>3, TimeFacts DEF Elapsed, ReturnTimeElapsed, Forbidden

LEMMA ClockKeepsTimes ==
  ASSUME TimeInv, IInv', FirstExists', WakeupCounterEnds \/ Tick
  PROVE  TimesAreRight'
<1>1. CASE WakeupCounterEnds
  <2>1. /\ wakeupCounter = 1 /\ wakeupCounter' = Disabled
        /\ pending' = TRUE
        /\ UNCHANGED <<list, countLeft, ssr, ssrOnLastSetup, limitation, handler, due,
                       delay>>
    BY <1>1 DEF WakeupCounterEnds
  <2>2. /\ Running' = Running /\ UNCHANGED gCurrentRunningTimerId
        /\ IsArmed /\ ~IsArmed' /\ Elapsed' = Elapsed
        /\ \A t : IsRunning(t)' <=> IsRunning(t)
    BY <2>1 DEF list, Running, IsRunning, IsArmed, Disabled, Elapsed, ReturnTimeElapsed
  <2>3. CountsAreRight' /\ InRange'
    BY <2>1, <2>2, TimeFacts DEF CountsAreRight, InRange
  <2>4. WakeupInv'
    BY <2>1, <2>2, TimeFacts DEF WakeupInv, Disabled
  <2>5. DueInv'
    BY <2>1, <2>2, TimeFacts, CurrentRuns DEF DueInv, IsServed
  <2> QED
    BY <2>3, <2>4, <2>5 DEF TimesAreRight
<1>2. CASE Tick
  <2>1. /\ IsWaiting => delay < HandlerMaxDelay
        /\ delay' = IF IsWaiting THEN delay + 1 ELSE 0
        /\ UNCHANGED <<list, countLeft, ssrOnLastSetup, limitation, handler>>
    BY <1>2 DEF Tick
  <2>2. /\ Running' = Running /\ UNCHANGED gCurrentRunningTimerId
        /\ \A t : IsRunning(t)' <=> IsRunning(t)
        /\ IsServed' <=> IsServed
    BY <2>1 DEF list, Running, IsRunning, IsServed
  <2>3. \A t \in Running : due'[t] = due[t] - 1
    BY <1>2, TimeFacts, ListFacts DEF Tick
  <2>4. Running # {} => Elapsed' = Elapsed + 1
    BY <1>2, TickElapses
  <2>5. /\ delay' \in Nat /\ delay' <= HandlerMaxDelay
        /\ IsWaiting => delay' = delay + 1
    BY <2>1, TimeFacts
  <2>6. CountsAreRight'
    <3>1. ASSUME NEW t \in Running
          PROVE  /\ due'[t] + Elapsed' <= countLeft'[t]
                 /\ countLeft'[t] > Elapsed' => countLeft'[t] = due'[t] + Elapsed'
      BY <2>1, <2>3, <2>4, TimeFacts DEF CountsAreRight
    <3> QED
      BY <2>2, <3>1 DEF CountsAreRight
  <2>7. Running # {} => gCurrentRunningTimerId \in Running
    BY CurrentRuns
  <2>8. CASE IsArmed /\ wakeupCounter = 1
    <3>1. ~IsArmed' /\ pending' = TRUE /\ wakeupCounter' = Disabled
      BY <1>2, <2>8 DEF Tick, IsArmed
    <3>2. InRange'
      BY <2>1, <2>2, <2>4, <2>5, <2>8, <3>1, TimeFacts DEF InRange
    <3>3. WakeupInv'
      BY <2>1, <2>2, <3>1, TimeFacts DEF WakeupInv, Disabled
    <3>4. DueInv'
      BY <2>1, <2>2, <2>3, <2>5, <2>7, <2>8, <3>1, TimeFacts DEF DueInv
    <3> QED
      BY <2>6, <3>2, <3>3, <3>4 DEF TimesAreRight
  <2>9. CASE IsArmed /\ wakeupCounter # 1
    <3>1. /\ wakeupCounter \in Nat /\ wakeupCounter > 1
          /\ wakeupCounter' = wakeupCounter - 1 /\ pending' = pending
      BY <1>2, <2>9, TimeFacts DEF Tick, IsArmed, WakeupInv
    <3>2. IsArmed'
      BY <3>1 DEF IsArmed, Disabled
    <3>3. InRange'
      BY <2>1, <2>2, <2>4, <2>9, <3>1, <3>2, TimeFacts DEF InRange
    <3>4. WakeupInv'
      BY <2>1, <2>2, <2>9, <3>1, <3>2, TimeFacts DEF WakeupInv
    <3>5. DueInv'
      BY <2>1, <2>2, <2>3, <2>5, <2>7, <2>9, <3>1, <3>2, TimeFacts DEF DueInv
    <3> QED
      BY <2>6, <3>3, <3>4, <3>5 DEF TimesAreRight
  <2>10. CASE ~IsArmed
    <3>1. wakeupCounter' = Disabled /\ pending' = pending /\ ~IsArmed'
      BY <1>2, <2>10 DEF Tick, IsArmed, Disabled
    <3>2. Running # {} => IsWaiting
      BY <2>10, TimeFacts DEF WakeupInv, IsServed, IsWaiting
    <3>3. InRange'
      BY <2>1, <2>2, <2>4, <2>5, <2>10, <3>1, <3>2, TimeFacts DEF InRange
    <3>4. WakeupInv'
      BY <2>1, <2>2, <2>10, <3>1, TimeFacts DEF WakeupInv, Disabled
    <3>5. DueInv'
      BY <2>1, <2>2, <2>3, <2>5, <2>7, <2>10, <3>1, <3>2, TimeFacts DEF DueInv
    <3> QED
      BY <2>6, <3>3, <3>4, <3>5 DEF TimesAreRight
  <2> QED
    BY <2>8, <2>9, <2>10
<1> QED
  BY <1>1, <1>2

LEMMA NextKeepsTime ==
  ASSUME TimeInv, [Next]_vars
  PROVE  TimeInv'
<1>1. IInv' /\ ListIsSorted' /\ FirstExists'
  BY TimeFacts, NextInvariant, NextKeepsOrder, NextKeepsFirst
<1>2. TimesAreRight'
  <2>1. CASE UNCHANGED vars
    <3>1. /\ Running' = Running /\ IsArmed' = IsArmed /\ Elapsed' = Elapsed
          /\ IsServed' = IsServed /\ pending' = pending
          /\ UNCHANGED <<timerIdStatus, gCurrentRunningTimerId, due, countLeft, ssr,
               ssrOnLastSetup, limitation, wakeupCounter, handler, delay>>
      BY <2>1 DEF vars, list, wakeup, Running, IsRunning, IsArmed, Elapsed,
         ReturnTimeElapsed, IsServed
    <3> QED
      BY <3>1, TimeFacts DEF TimesAreRight, CountsAreRight, InRange, WakeupInv, DueInv,
         IsRunning
  <2> QED
    BY <1>1, <2>1, CallsKeepTimes, ElapseKeepsTimes, HandlerKeepsTimes, ClockKeepsTimes
       DEF Next, Call, Step
<1> QED
  BY <1>1, <1>2 DEF TimeInv, OrderInv, TimesAreRight

LEMMA InitTime == Init => TimeInv
<1> SUFFICES ASSUME Init PROVE TimeInv
  OBVIOUS
<1>1. Running = {}
  BY DEF Init, Running, IsRunning
<1>2. OrderInv /\ FirstExists
  BY <1>1, InitInvariant DEF OrderInv, ListIsSorted, FirstExists
<1>3. wakeupCounter = Disabled /\ pending = FALSE /\ handler = Idle /\ delay = 0
  BY DEF Init
<1>4. CountsAreRight /\ InRange
  BY <1>1 DEF CountsAreRight, InRange
<1>5. WakeupInv
  BY <1>1, <1>3, IdleType DEF WakeupInv, Disabled
<1>6. DueInv
  BY <1>1, <1>3, TimerServerAssumption DEF DueInv
<1> QED
  BY <1>2, <1>4, <1>5, <1>6 DEF TimeInv

(***************************************************************************)
(* The invariant of the times.                                             *)
(***************************************************************************)
THEOREM TimesKept == Spec => []TimeInv
BY InitTime, NextKeepsTime, PTL DEF Spec

(***************************************************************************)
(* WakeupIsNotLost: as long as a timer runs the wake-up counter is armed,  *)
(* or its interrupt pending or served, whatever is started and stopped     *)
(* while the interrupt waits or between two sections of its handler.       *)
(***************************************************************************)
THEOREM WakeupKept == Spec => []WakeupIsNotLost
<1>1. TimeInv => WakeupIsNotLost
  <2> SUFFICES ASSUME TimeInv, Running # {}
               PROVE  /\ gCurrentRunningTimerId # NoTimer
                      /\ wakeupCounter # Disabled \/ pending \/ handler # Idle
    BY DEF WakeupIsNotLost
  <2>1. gCurrentRunningTimerId # NoTimer
    BY TimeFacts, NoneRuns
  <2> QED
    BY <2>1, TimeFacts DEF WakeupInv, IsServed, IsArmed
<1> QED
  BY <1>1, TimesKept, PTL

(***************************************************************************)
(* NeverLate: no timer is later than the wake-up interrupt is held up,     *)
(* however long its time is, and whatever is done to the other timers.     *)
(***************************************************************************)
THEOREM TimersAreInTime == Spec => []NeverLate
<1>1. TimeInv => NeverLate
  <2> SUFFICES ASSUME TimeInv, NEW t \in Running PROVE due[t] >= -HandlerMaxDelay
    BY DEF NeverLate
  <2> QED
    BY TimeFacts DEF DueInv
<1> QED
  BY <1>1, TimesKept, PTL

(***************************************************************************)
(* NeverEarly: the handler takes a timer for elapsed only in the last tick *)
(* before it is due, or later.                                             *)
(***************************************************************************)
THEOREM TimersAreNotEarly == Spec => NeverEarly
<1> DEFINE Early == \A id \in TimerIds :
                      handler = Idle /\ handler' # Idle /\ handler'.id = id =>
                        due[id] <= 1
<1>1. TimeInv /\ [Next]_vars => [Early]_vars
  <2> SUFFICES ASSUME TimeInv, Next, NEW id \in TimerIds,
                      handler = Idle, handler' # Idle, handler'.id = id
               PROVE  due[id] <= 1
    BY DEF Early
  <2>1. PICK t \in TimerIds :
          /\ WakeupIsFor(t) /\ limitation # "OVERPASSED"
          /\ \/ handler' = [Idle EXCEPT !.pc = "restart", !.id = t]
             \/ handler' = [Idle EXCEPT !.pc = "stop", !.id = t]
    <3>1. RepeatedElapses \/ SingleShotElapses
      BY IdleType DEF Next, Call, Step, CreateTimer, DeleteTimer, Start, Stop,
         StartStops, StartLinks, CallbackStops, PartElapses, HandlerRestarts,
         HandlerStops, HandlerReturns, WakeupCounterEnds, Tick
    <3> QED
      BY <3>1, Zenon DEF RepeatedElapses, SingleShotElapses
  <2>2. t = id
    BY <2>1 DEF Idle
  <2>3. /\ id = gCurrentRunningTimerId /\ id \in Running
        /\ pending /\ ~IsArmed /\ IsServed /\ limitation = "LARGE_ENOUGH"
    BY <2>1, <2>2, TimeFacts, ListFacts, ElapsesEffect
       DEF WakeupIsFor, WakeupInv, IsServed, WakeupType
  <2> QED
    BY <2>3, TimeFacts DEF DueInv
<1> QED
  BY <1>1, TimesKept, PTL DEF Spec, NeverEarly

=============================================================================
