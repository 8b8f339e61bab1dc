---------------------------- MODULE SensorEventing ----------------------------
(***************************************************************************)
(* The sensor device with the rest of its event path: the report          *)
(* manager's eventing thread (ReportManager.tla), the report it makes,    *)
(* CSensorDevice::ReportIntervalExpired with HasStateChanged, and the      *)
(* power transitions D0Entry and D0Exit, which call CSensorDdi::Start and *)
(* Stop (SensorDdi.cpp:185-234) and so CSensorDevice::Start and Stop.      *)
(*                                                                         *)
(* The framework side, which is not in the repository: the I/O queue is  *)
(* power-managed (Queue.cpp:100), so it delivers requests only in D0 and  *)
(* drains the ones in progress before D0Exit; interrupts are connected    *)
(* only in D0, and a queued interrupt work item is flushed before D0Exit. *)
(* Start and Stop run on a queue thread's program counter, which is free  *)
(* while they run.                                                         *)
(***************************************************************************)
EXTENDS SensorDevice

VARIABLES
  d0,         \* the device is in D0 (between D0Entry and D0Exit)
  rptPc,      \* where the eventing thread is in ReportIntervalExpired
  cxState     \* the sensor state last posted to the class extension

evVars == <<d0, rptPc, cxState>>
allVars == <<vars, evVars>>

RptPCs == {"idle", "hasStateChanged", "postState", "postData"}

SETypeOK ==
  /\ SDTypeOK
  /\ d0 \in BOOLEAN
  /\ rptPc \in RptPCs
  /\ cxState \in {"NoData", "Ready"}

SEInit ==
  /\ Init
  /\ d0 = TRUE
  /\ rptPc = "idle"
  /\ cxState = "NoData"

PnPRequest(k) == [kind |-> k, client |-> NoValue, arg |-> NoArg]

\* no request of the queue, and no work item, is in progress
Drained == Quiescent /\ wiPc = "idle" /\ ~wiQueued

(***************************************************************************)
(* D0Exit -> CSensorDevice::Stop (SensorDevice.cpp:453-472):              *)
(* SetState(SENSOR_STATE_NO_DATA), then SetDataUpdateMode(Off); the steps  *)
(* are ThreadStateRead/Write and HwSetDeviceState/CommitMode.  The report  *)
(* manager is not told.                                                    *)
(***************************************************************************)
D0Exit(t) ==
  /\ d0 /\ Drained
  /\ d0' = FALSE
  /\ Goto(t, "stateRead")
  /\ req' = [req EXCEPT ![t] = PnPRequest("Stop")]
  /\ UNCHANGED <<cmVars, hwVars, devVars, loc, wiQueued, wiPc, rptPc, cxState>>

(***************************************************************************)
(* ConfigureHardware (AccelerometerDevice.cpp:1311-1395) writes and reads  *)
(* back g_ConfigurationSettings (47-76) in order under the device lock,   *)
(* stopping at the first failed access k: POWER_CTL standby, then BW_RATE *)
(* and THRESH_ACT at their defaults (the other registers are fixed        *)
(* values the model does not track).  INT_ENABLE is left alone.           *)
(***************************************************************************)
ConfigureHardware(k) ==
  /\ hwPower' = IF k # 1 THEN "standby" ELSE hwPower
  /\ hwRate' = IF k \notin {1, 2} THEN DefaultReportInterval ELSE hwRate
  /\ IF k = 0 THEN hwThreshold' \in ThresholdsOf(DefaultSensitivity)
             ELSE UNCHANGED hwThreshold

(* D0Entry -> CSensorDevice::Start (395-438): ConfigureHardware; then,    *)
(* with clients connected, ApplyUpdatedProperties and PollForData.  A     *)
(* failed Start fails D0Entry, which leaves the device out of D0.         *)
D0Entry(t) ==
  /\ ~d0 /\ Drained
  /\ \E k \in FailurePoints(3) :
       /\ d0' = (k = 0)
       /\ ConfigureHardware(k)
       /\ IF k = 0 /\ clientCount > 0
          THEN StartApply(t, PnPRequest("Start"), 0)
          ELSE UNCHANGED <<pc, req, loc>>
  /\ UNCHANGED <<cmVars, hwIntEnable, hwIntSource, intShadow, devVars,
                 wiQueued, wiPc, rptPc, cxState>>

\* the queue delivers a client request only in D0 and not during Start/Stop
QueueStep(t) ==
  \/ /\ d0 /\ \A u \in Threads : req[u] \notin PnPRequests
     /\ RequestStep(t)
  \/ pc[t] # "idle" /\ ThreadStep(t)

(***************************************************************************)
(* The eventing thread.  Its wait, wake-up and checks are the report      *)
(* manager's; the report is ReportIntervalExpired (SensorDevice.cpp:      *)
(* 2267-2345): copy the data fields, and if HasStateChanged (1657-1676)  *)
(* says so, read the state and post a state change; then post the data   *)
(* event.  The data fields themselves are data and left out.              *)
(***************************************************************************)
RMStep(A) == A /\ UNCHANGED <<cmVars, hwVars, dataUpdateMode, sensorState,
                              stateChanged, ctlVars, evVars>>

ReportDue ==
  /\ RM!ThreadDue
  /\ rptPc' = "hasStateChanged"
  /\ UNCHANGED <<cmVars, hwVars, dataUpdateMode, sensorState, stateChanged,
                 ctlVars, d0, cxState>>

\* HasStateChanged: test and clear m_fStateChanged under the cache lock
RptHasStateChanged ==
  /\ rptPc = "hasStateChanged"
  /\ stateChanged' = FALSE
  /\ rptPc' = IF stateChanged THEN "postState" ELSE "postData"
  /\ UNCHANGED <<cmVars, hwVars, dataUpdateMode, rmVars, sensorState, ctlVars,
                 d0, cxState>>

\* GetProperty(SENSOR_PROPERTY_STATE), then m_pSensorDdi->PostStateChange;
\* a SetState between the two sets m_fStateChanged again, so the next
\* report posts the newer state: one step here
RptPostStateChange ==
  /\ rptPc = "postState"
  /\ cxState' = sensorState
  /\ rptPc' = "postData"
  /\ UNCHANGED <<vars, d0>>

\* m_pSensorDdi->PostDataEvent; back to the report manager's loop
RptPostDataEvent ==
  /\ rptPc = "postData"
  /\ RM!ThreadReport
  /\ rptPc' = "idle"
  /\ UNCHANGED <<cmVars, hwVars, dataUpdateMode, sensorState, stateChanged,
                 ctlVars, d0, cxState>>

EventingThreadStep ==
  \/ RMStep(RM!ThreadWake)
  \/ RMStep(RM!ThreadNotDue)
  \/ ReportDue
  \/ RptHasStateChanged
  \/ RptPostStateChange
  \/ RptPostDataEvent

\* the interrupt is connected only in D0
IsrStep == d0 /\ OnInterruptIsr /\ UNCHANGED evVars

WorkItemStep ==
  /\ \/ WorkItemRequestData
     \/ WorkItemStateRead
     \/ WorkItemStateWrite
     \/ RaiseDataEvent
  /\ UNCHANGED evVars

SENext ==
  \/ \E t \in Threads : D0Exit(t) \/ D0Entry(t)
  \/ \E t \in Threads : QueueStep(t) /\ UNCHANGED evVars
  \/ Activity /\ UNCHANGED evVars
  \/ IsrStep
  \/ WorkItemStep
  \/ EventingThreadStep
  \/ RMStep(RM!Tick)

(***************************************************************************)
(* Fairness.  A request in progress runs to its end, the work item and    *)
(* the eventing thread run when they can, and the tick count advances.    *)
(* The interrupt gets strong fairness: INT_ENABLE is cleared for a moment *)
(* by every reprogramming, and a line asserted again and again is         *)
(* serviced.  Clients, D0 transitions and the part's activity are the     *)
(* environment and owe nothing.                                            *)
(***************************************************************************)
SEFairness ==
  /\ \A t \in Threads : WF_allVars(pc[t] # "idle" /\ ThreadStep(t) /\ UNCHANGED evVars)
  /\ SF_allVars(IsrStep)
  /\ WF_allVars(WorkItemStep)
  /\ WF_allVars(EventingThreadStep)
  /\ WF_allVars(RMStep(RM!Tick))

SESpec == SEInit /\ [][SENext]_allVars /\ SEFairness

-----------------------------------------------------------------------------
(* Activity the part latches in Eventing mode, with a subscriber, reaches *)
(* the subscribers: the eventing thread comes to post a data event,       *)
(* unless the last subscriber leaves, the mode changes or the device     *)
(* leaves D0 first (RaiseDataEvent, SensorDevice.cpp:2067-2081, and the   *)
(* report manager's throttle).                                            *)
ActivityReported ==
  (hwIntSource /\ d0 /\ dataUpdateMode = DataUpdateModeEventing /\ subscriberCount > 0)
    ~> (rptPc = "postData" \/ ~d0 \/ subscriberCount = 0
        \/ dataUpdateMode # DataUpdateModeEventing)

(* No state change is lost across D0 transitions: whenever the state in  *)
(* the cache differs from the one the class extension was last told --   *)
(* READY from Start's poll or the work item, NO_DATA from Stop -- the    *)
(* m_fStateChanged flag is set or the eventing thread has taken it and   *)
(* is about to post.  Each SetState (SensorDevice.cpp:1589-1643) decides *)
(* and writes under two acquisitions of the cache lock, with             *)
(* HasStateChanged (1657-1676) clearing the flag in between.             *)
StateChangeKept ==
  sensorState # cxState => stateChanged \/ rptPc = "postState"

(* A data event is posted only while the device is in D0 and after the  *)
(* class extension has been told the sensor is READY: Stop "disables the  *)
(* sensor device" and marks it NO_DATA (spec 4.4), and a state change is  *)
(* posted before the data it goes with (spec 4.1).                         *)
DataEventsOnlyWhenReady ==
  rptPc = "postData" => d0 /\ cxState = "Ready"
=============================================================================
