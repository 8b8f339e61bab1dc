----------------------------- MODULE SensorDevice -----------------------------
(***************************************************************************)
(* CSensorDevice and its CAccelerometerDevice specialisation               *)
(* (SpbAccelerometerV2/SensorDevice.cpp, AccelerometerDevice.cpp): the     *)
(* request handlers that the parallel I/O queue (Queue.cpp) runs on        *)
(* several threads at once, the ADXL345 register sequences they issue, the *)
(* interrupt service routine and its work item.                            *)
(*                                                                         *)
(* Each thread in Threads runs one client request at a time; pc[t] is      *)
(* where it is.  A step is what the code does between two points where     *)
(* another thread can observe or change the shared state: a client-manager *)
(* call (atomic under m_ClientListCS), one register sequence (atomic under *)
(* the device lock m_CriticalSection), or an unlocked read or write of a   *)
(* CSensorDevice member.  HRESULT failures of the register accesses are    *)
(* choices when RegisterAccessMayFail holds, at most one failing access    *)
(* per sequence.                                                           *)
(***************************************************************************)
EXTENDS ClientManager

CONSTANTS
  Threads,                \* queue threads running client requests
  RegisterAccessMayFail   \* whether an SPB register access may fail

ASSUME RegisterAccessMayFail \in BOOLEAN

VARIABLES
  dataUpdateMode,   \* m_DataUpdateMode
  hwPower,          \* ADXL345 POWER_CTL: "standby" or "measure"
  hwIntEnable,      \* ADXL345 INT_ENABLE activity bit
  hwIntSource,      \* ADXL345 INT_SOURCE activity bit (latched event)
  hwRate,           \* report interval BW_RATE was last programmed for
  hwThreshold,      \* THRESH_ACT, in change-sensitivity resolution steps
  intShadow,        \* m_InterruptsEnabled activity bit
  sensorState,      \* SENSOR_PROPERTY_STATE in the property cache
  stateChanged,     \* m_fStateChanged
  pc,               \* thread -> program point
  req,              \* thread -> the request it is serving
  loc,              \* thread -> locals: snapshot count, value read, caller
  wiQueued,         \* the ISR work item is queued
  wiPc,             \* program point of the running work item
  rmActive, rmThread, rmInterval, rmDataEvent, rmDataPending, rmElapsed,
  rmTimeout, rmCaller    \* the report manager (ReportManager.tla)

hwVars == <<hwPower, hwIntEnable, hwIntSource, hwRate, hwThreshold, intShadow>>
rmVars == <<rmActive, rmThread, rmInterval, rmDataEvent, rmDataPending,
            rmElapsed, rmTimeout, rmCaller>>

\* m_pReportManager; its ticks are report-interval units
RM == INSTANCE ReportManager WITH Intervals <- 1..ULONG_MAX, MaxElapsed <- ULONG_MAX

devVars == <<dataUpdateMode, rmVars, sensorState, stateChanged>>
ctlVars == <<pc, req, loc, wiQueued, wiPc>>
vars == <<cmVars, hwVars, devVars, ctlVars>>

NoArg == "none"

\* client requests the sensor class extension forwards (SensorDdi.cpp)
Requests ==
  [kind : {"Connect", "Disconnect", "Subscribe", "Unsubscribe"},
   client : Clients, arg : {NoArg}]
  \cup [kind : {"SetReportInterval"}, client : Clients, arg : IntervalInputs]
  \cup [kind : {"SetChangeSensitivity"}, client : Clients, arg : SensitivityBatches]

\* what an idle thread serves
NoRequest == [kind |-> "none", client |-> NoValue, arg |-> NoArg]

\* CSensorDdi::Start and Stop (SensorDdi.cpp:185-234), which the device's
\* D0Entry and D0Exit call; SensorEventing issues them
PnPRequests == {[kind |-> k, client |-> NoValue, arg |-> NoArg] : k \in {"Start", "Stop"}}

Callers == {"apply", "tail"}

Locals == [count : Nat, val : Int, mode : DataUpdateModes, caller : Callers]

ThreadPCs == {"idle", "readInterval", "hwSetReportInterval", "rmSetReportInterval",
              "readSensitivity", "hwSetChangeSensitivity", "readMode",
              "hwSetDeviceState", "commitMode", "pollRequest", "stateRead", "stateWrite"}

WorkItemPCs == {"idle", "stateRead", "stateWrite", "raise"}

\* outcomes of a sequence of n register accesses: 0 = all succeed, k = the
\* k-th access fails (the sequence stops there unless the code goes on)
FailurePoints(n) == IF RegisterAccessMayFail THEN 0..n ELSE {0}

\* the values SetChangeSensitivity folds into its minimum with
\* 'var.dblVal < minChangeSensitivity' from DBL_MAX (AccelerometerDevice.cpp:
\* 1833-1856), in resolution steps: a NaN never compares less
VtR8Values(sens) == {sens[f] : f \in Fields} \ {NaN}

\* newThreshold = (BYTE)(minChangeSensitivity / RESOLUTION) (1859-1861).
\* Past the byte range the conversion is undefined; the x86/x64 build
\* (cvttsd2si) and the ARM64 build (fcvtzu) both keep the low byte of the
\* integer part, and DBL_MAX, left when no value is a number, becomes 0 on
\* x86/x64 and 255 on ARM64.
ThresholdsOf(sens) ==
  IF VtR8Values(sens) = {} THEN {0, 255}
  ELSE {SetMin(VtR8Values(sens)) % 256}

SDTypeOK ==
  /\ CMTypeOK
  /\ dataUpdateMode \in DataUpdateModes
  /\ hwPower \in {"standby", "measure"}
  /\ hwIntEnable \in BOOLEAN /\ hwIntSource \in BOOLEAN /\ intShadow \in BOOLEAN
  /\ hwRate \in 0..ULONG_MAX
  /\ hwThreshold \in 0..255
  /\ RM!RMTypeOK
  /\ sensorState \in {"NoData", "Ready"}
  /\ stateChanged \in BOOLEAN
  /\ pc \in [Threads -> ThreadPCs]
  /\ req \in [Threads -> Requests \cup PnPRequests \cup {NoRequest}]
  /\ loc \in [Threads -> Locals]
  /\ wiQueued \in BOOLEAN
  /\ wiPc \in WorkItemPCs

InitLocals == [count |-> 0, val |-> 0, mode |-> DataUpdateModeOff, caller |-> "apply"]

(***************************************************************************)
(* After CSensorDevice::Initialize and Start with no client: the          *)
(* configuration table (AccelerometerDevice.cpp:47-76) leaves the part in *)
(* standby with the default rate and threshold; INT_ENABLE keeps its      *)
(* reset value 0 and m_InterruptsEnabled its constructor value 0.         *)
(***************************************************************************)
Init ==
  /\ CMInit
  /\ dataUpdateMode = DataUpdateModeOff
  /\ hwPower = "standby"
  /\ hwIntEnable = FALSE /\ hwIntSource = FALSE /\ intShadow = FALSE
  /\ hwRate = DefaultReportInterval
  /\ hwThreshold \in ThresholdsOf(DefaultSensitivity)
  /\ rmActive = TRUE /\ rmThread = "wait" /\ rmCaller = "idle"
  /\ rmInterval = DefaultReportInterval
  /\ rmDataEvent = FALSE /\ rmDataPending = FALSE
  /\ rmElapsed = 0 /\ rmTimeout = DefaultReportInterval
  /\ sensorState = "NoData"
  /\ stateChanged = FALSE
  /\ pc = [t \in Threads |-> "idle"]
  /\ req = [t \in Threads |-> NoRequest]
  /\ loc = [t \in Threads |-> InitLocals]
  /\ wiQueued = FALSE
  /\ wiPc = "idle"

Goto(t, p) == pc' = [pc EXCEPT ![t] = p]

Done(t) == /\ Goto(t, "idle")
           /\ req' = [req EXCEPT ![t] = NoRequest]
           /\ loc' = [loc EXCEPT ![t] = InitLocals]

SetLocal(t, field, v) == loc' = [loc EXCEPT ![t][field] = v]

(***************************************************************************)
(* The handlers' first step: the client-manager call.  ClientConnect and *)
(* ClientDisconnect (SensorDevice.cpp:1083-1224) make it and read the new *)
(* client count together under m_ClientCriticalSection, kept here in      *)
(* loc[t].count, then release the lock.  Subscribe and Unsubscribe        *)
(* (1237-1288) go on to ApplyUpdatedProperties only if the call           *)
(* succeeded; SetProperties (949-1070) applies even when the client       *)
(* manager refused the value.  A refused call that does not apply returns *)
(* its error with nothing changed, so it is a stuttering step.            *)
(***************************************************************************)
StartApply(t, r, count) ==
  /\ Goto(t, "readInterval")
  /\ req' = [req EXCEPT ![t] = r]
  /\ loc' = [loc EXCEPT ![t] = [InitLocals EXCEPT !.count = count]]

ClientConnect(t, r) ==
  /\ Connect(r.client)
  /\ StartApply(t, r, clientCount + 1)

ClientDisconnect(t, r) ==
  /\ Disconnect(r.client)
  /\ StartApply(t, r, clientCount - 1)

ClientSubscribeToEvents(t, r) ==
  /\ Subscribe(r.client)
  /\ StartApply(t, r, 0)

ClientUnsubscribeFromEvents(t, r) ==
  /\ Unsubscribe(r.client)
  /\ StartApply(t, r, 0)

\* SetProperties with SENSOR_PROPERTY_CURRENT_REPORT_INTERVAL
SetPropertiesReportInterval(t, r) ==
  /\ \/ SetDesiredReportInterval(r.client, r.arg)
     \/ ~SetDesiredReportIntervalOk(r.client, r.arg) /\ UNCHANGED cmVars
  /\ StartApply(t, r, 0)

\* SetProperties with SENSOR_PROPERTY_CHANGE_SENSITIVITY
SetPropertiesChangeSensitivity(t, r) ==
  /\ SetDesiredChangeSensitivity(r.client, r.arg)
  /\ StartApply(t, r, 0)

\* The class extension forwards a client's requests only between its
\* connect and its disconnect (SensorDdi.cpp:652-800), and a file is open
\* for other requests only once its connect callback has returned.
Issuable(r) ==
  /\ (r.kind = "Connect") = (r.client \notin DOMAIN clientList)
  /\ \A u \in Threads : ~(req[u].kind = "Connect" /\ req[u].client = r.client)

RequestStep(t) ==
  /\ pc[t] = "idle"
  /\ \E r \in {q \in Requests : Issuable(q)} :
       CASE r.kind = "Connect" -> ClientConnect(t, r)
         [] r.kind = "Disconnect" -> ClientDisconnect(t, r)
         [] r.kind = "Subscribe" -> ClientSubscribeToEvents(t, r)
         [] r.kind = "Unsubscribe" -> ClientUnsubscribeFromEvents(t, r)
         [] r.kind = "SetReportInterval" -> SetPropertiesReportInterval(t, r)
         [] r.kind = "SetChangeSensitivity" -> SetPropertiesChangeSensitivity(t, r)
  /\ UNCHANGED <<hwVars, devVars, wiQueued, wiPc>>

(***************************************************************************)
(* Register sequences.  Each runs under the device lock and returns the  *)
(* registers it leaves and its HRESULT; k is the failing access (0: none).*)
(***************************************************************************)
HwState == [power |-> hwPower, intEnable |-> hwIntEnable, intSource |-> hwIntSource,
            shadow |-> intShadow, ok |-> TRUE]

\* SetDeviceStateStandby (AccelerometerDevice.cpp:1412-1504): INT_ENABLE=0,
\* read INT_SOURCE if that worked, then POWER_CTL=STANDBY whatever happened,
\* whose result alone is returned.
StandbySequence(k) ==
  LET ieOk == k # 1
      rdOk == ieOk /\ k # 2
      pwOk == k # 3
  IN  [power |-> IF pwOk THEN "standby" ELSE hwPower,
       intEnable |-> IF ieOk THEN FALSE ELSE hwIntEnable,
       intSource |-> IF rdOk THEN FALSE ELSE hwIntSource,
       shadow |-> IF ieOk THEN FALSE ELSE intShadow,
       ok |-> pwOk]

\* A Polling transition that leaves m_InterruptsEnabled as it was.
PollingSequenceKeepsShadow(k) ==
  LET ieOk == k # 1
      pwOk == ieOk /\ k # 2
  IN  [HwState EXCEPT !.power = IF pwOk THEN "measure" ELSE hwPower,
                      !.intEnable = IF ieOk THEN FALSE ELSE hwIntEnable,
                      !.ok = pwOk]

\* SetDeviceStatePolling (1519-1586): INT_ENABLE=0, then POWER_CTL=MEASURE.
PollingSequence(k) ==
  LET ieOk == k # 1
      pwOk == ieOk /\ k # 2
  IN  [HwState EXCEPT !.power = IF pwOk THEN "measure" ELSE hwPower,
                      !.intEnable = IF ieOk THEN FALSE ELSE hwIntEnable,
                      !.shadow = IF ieOk THEN FALSE ELSE intShadow,
                      !.ok = pwOk]

\* An Eventing transition that goes on to INT_ENABLE after a failed
\* POWER_CTL write and returns the INT_ENABLE result.
EventingSequenceNoEarlyReturn(k) ==
  LET pwOk == k # 1
      ieOk == k # 2
  IN  [HwState EXCEPT !.power = IF pwOk THEN "measure" ELSE hwPower,
                      !.intEnable = IF ieOk THEN TRUE ELSE hwIntEnable,
                      !.shadow = IF ieOk THEN TRUE ELSE intShadow,
                      !.ok = ieOk]

\* SetDeviceStateEventing (1601-1667): POWER_CTL=MEASURE, then
\* INT_ENABLE=ACTIVITY, which alone updates m_InterruptsEnabled.
EventingSequence(k) ==
  LET pwOk == k # 1
      ieOk == pwOk /\ k # 2
  IN  [HwState EXCEPT !.power = IF pwOk THEN "measure" ELSE hwPower,
                      !.intEnable = IF ieOk THEN TRUE ELSE hwIntEnable,
                      !.shadow = IF ieOk THEN TRUE ELSE intShadow,
                      !.ok = ieOk]

\* SetDataUpdateMode's dispatch (SensorDevice.cpp:485-529)
ModeSequence(mode, k) ==
  CASE mode = DataUpdateModeOff -> StandbySequence(k)
    [] mode = DataUpdateModePolling -> PollingSequence(k)
    [] mode = DataUpdateModeEventing -> EventingSequence(k)

\* A reprogramming that does not turn activity interrupts back on.
ReprogramSequenceNoReenable(k, reg, v) ==
  LET en0 == k # 1
      wrOk == en0 /\ k # 2
  IN  [intEnable |-> IF en0 THEN FALSE ELSE hwIntEnable,
       value |-> IF wrOk THEN v ELSE reg,
       ok |-> wrOk]

\* SetReportInterval (1682-1772) and SetChangeSensitivity (1787-1943):
\* INT_ENABLE=0, write BW_RATE or THRESH_ACT, INT_ENABLE=ACTIVITY, each only
\* if the one before succeeded; m_InterruptsEnabled is not touched.
ReprogramSequence(k, reg, v) ==
  LET en0 == k # 1
      wrOk == en0 /\ k # 2
      en1 == wrOk /\ k # 3
  IN  [intEnable |-> IF en1 THEN TRUE ELSE IF en0 THEN FALSE ELSE hwIntEnable,
       value |-> IF wrOk THEN v ELSE reg,
       ok |-> en1]

(***************************************************************************)
(* ApplyUpdatedProperties (SensorDevice.cpp:2189-2252), one step per      *)
(* client-manager read, register sequence and member access.  A failure  *)
(* ends the handler: its tail is skipped.                                 *)
(***************************************************************************)
ReadInterval(t) ==
  /\ pc[t] = "readInterval"
  /\ SetLocal(t, "val", minReportInterval)
  /\ Goto(t, "hwSetReportInterval")
  /\ UNCHANGED <<cmVars, hwVars, devVars, req, wiQueued, wiPc>>

HwSetReportInterval(t) ==
  /\ pc[t] = "hwSetReportInterval"
  /\ \E k \in FailurePoints(3) :
       LET r == ReprogramSequence(k, hwRate, loc[t].val)
       IN  /\ hwIntEnable' = r.intEnable
           /\ hwRate' = r.value
           /\ IF r.ok THEN Goto(t, "rmSetReportInterval") /\ UNCHANGED <<req, loc>>
                      ELSE Done(t)
  /\ UNCHANGED <<cmVars, hwPower, hwIntSource, hwThreshold, intShadow, devVars,
                 wiQueued, wiPc>>

\* The report manager is not told of the new interval.
RmSetReportIntervalSkipped(t) ==
  /\ pc[t] = "rmSetReportInterval"
  /\ Goto(t, "readSensitivity")
  /\ UNCHANGED <<cmVars, hwVars, devVars, req, loc, wiQueued, wiPc>>

\* m_pReportManager->SetReportInterval(var.ulVal)
RmSetReportInterval(t) ==
  /\ pc[t] = "rmSetReportInterval"
  /\ RM!SetReportInterval(loc[t].val)
  /\ Goto(t, "readSensitivity")
  /\ UNCHANGED <<cmVars, hwVars, dataUpdateMode, sensorState,
                 stateChanged, req, loc, wiQueued, wiPc>>

ReadSensitivity(t) ==
  /\ pc[t] = "readSensitivity"
  /\ \E v \in ThresholdsOf(minSensitivity) : SetLocal(t, "val", v)
  /\ Goto(t, "hwSetChangeSensitivity")
  /\ UNCHANGED <<cmVars, hwVars, devVars, req, wiQueued, wiPc>>

HwSetChangeSensitivity(t) ==
  /\ pc[t] = "hwSetChangeSensitivity"
  /\ \E k \in FailurePoints(3) :
       LET r == ReprogramSequence(k, hwThreshold, loc[t].val)
       IN  /\ hwIntEnable' = r.intEnable
           /\ hwThreshold' = r.value
           /\ IF r.ok THEN Goto(t, "readMode") /\ UNCHANGED <<req, loc>>
                      ELSE Done(t)
  /\ UNCHANGED <<cmVars, hwPower, hwIntSource, hwRate, intShadow, devVars,
                 wiQueued, wiPc>>

\* What a thread does once ApplyUpdatedProperties has succeeded: the tails
\* of ClientConnect (first client: StopIdle, SetDataUpdateMode(Polling),
\* PollForData) and ClientDisconnect (last client: ResumeIdle,
\* SetDataUpdateMode(Off)), decided on the count snapshot, and of Start
\* (PollForData).
AfterApply(t) ==
  CASE req[t].kind = "Start" ->
         Goto(t, "pollRequest") /\ UNCHANGED <<req, loc>>
    [] \/ req[t].kind = "Connect" /\ loc[t].count = 1
       \/ req[t].kind = "Disconnect" /\ loc[t].count = 0 ->
         /\ Goto(t, "hwSetDeviceState")
         /\ loc' = [loc EXCEPT ![t].mode = IF req[t].kind = "Connect"
                                          THEN DataUpdateModePolling
                                          ELSE DataUpdateModeOff,
                               ![t].caller = "tail"]
         /\ UNCHANGED req
    [] OTHER -> Done(t)

\* newMode = GetDataUpdateMode(); if (newMode != m_DataUpdateMode) ...
ReadMode(t) ==
  /\ pc[t] = "readMode"
  /\ IF GetDataUpdateMode # dataUpdateMode
     THEN /\ Goto(t, "hwSetDeviceState")
          /\ SetLocal(t, "mode", GetDataUpdateMode)
          /\ UNCHANGED req
     ELSE AfterApply(t)
  /\ UNCHANGED <<cmVars, hwVars, devVars, wiQueued, wiPc>>

\* SetDataUpdateMode: the register sequence of the new mode.
HwSetDeviceState(t) ==
  /\ pc[t] = "hwSetDeviceState"
  /\ \E k \in FailurePoints(3) :
       LET r == ModeSequence(loc[t].mode, k)
       IN  /\ hwPower' = r.power
           /\ hwIntEnable' = r.intEnable
           /\ hwIntSource' = r.intSource
           /\ intShadow' = r.shadow
           /\ IF r.ok THEN Goto(t, "commitMode") /\ UNCHANGED <<req, loc>>
                      ELSE Done(t)
  /\ UNCHANGED <<cmVars, hwRate, hwThreshold, devVars, wiQueued, wiPc>>

\* m_DataUpdateMode = Mode, outside every lock; then back to the caller.
CommitMode(t) ==
  /\ pc[t] = "commitMode"
  /\ dataUpdateMode' = loc[t].mode
  /\ IF loc[t].caller = "apply" THEN AfterApply(t)
     ELSE IF req[t].kind = "Connect"
          THEN Goto(t, "pollRequest") /\ UNCHANGED <<req, loc>>
          ELSE Done(t)
  /\ UNCHANGED <<cmVars, hwVars, rmVars, sensorState,
                 stateChanged, wiQueued, wiPc>>

(***************************************************************************)
(* PollForData (SensorDevice.cpp:2096-2173): RequestNewData reads the     *)
(* data registers under the device lock; the cache and time stamp are    *)
(* data and left out; then SetState(SENSOR_STATE_READY).                  *)
(***************************************************************************)
PollRequest(t) ==
  /\ pc[t] = "pollRequest"
  /\ \E k \in FailurePoints(1) :
       IF k = 0 THEN Goto(t, "stateRead") /\ UNCHANGED <<req, loc>> ELSE Done(t)
  /\ UNCHANGED <<cmVars, hwVars, devVars, wiQueued, wiPc>>

(* SetState (1589-1643): GetProperty reads the state under the cache lock *)
(* and releases it; the write, under the lock again, happens only if the  *)
(* state read differed.  PollForData sets READY; Stop (453-472) sets      *)
(* NO_DATA and goes on to SetDataUpdateMode(DataUpdateModeOff).           *)
StateTarget(t) == IF req[t].kind = "Stop" THEN "NoData" ELSE "Ready"

AfterSetState(t) ==
  IF req[t].kind = "Stop"
  THEN /\ Goto(t, "hwSetDeviceState")
       /\ loc' = [loc EXCEPT ![t].mode = DataUpdateModeOff, ![t].caller = "tail"]
       /\ UNCHANGED req
  ELSE Done(t)

ThreadStateRead(t) ==
  /\ pc[t] = "stateRead"
  /\ IF sensorState # StateTarget(t)
     THEN Goto(t, "stateWrite") /\ UNCHANGED <<req, loc>>
     ELSE AfterSetState(t)
  /\ UNCHANGED <<cmVars, hwVars, devVars, wiQueued, wiPc>>

\* A SetState on a queue thread that stores the state without raising
\* m_fStateChanged.
ThreadStateWriteNoFlag(t) ==
  /\ pc[t] = "stateWrite"
  /\ sensorState' = StateTarget(t)
  /\ AfterSetState(t)
  /\ UNCHANGED <<cmVars, hwVars, dataUpdateMode, rmVars, stateChanged, wiQueued, wiPc>>

ThreadStateWrite(t) ==
  /\ pc[t] = "stateWrite"
  /\ sensorState' = StateTarget(t)
  /\ stateChanged' = TRUE
  /\ AfterSetState(t)
  /\ UNCHANGED <<cmVars, hwVars, dataUpdateMode, rmVars, wiQueued, wiPc>>

(***************************************************************************)
(* The part and the interrupt path.  The ADXL345 latches an activity     *)
(* event in INT_SOURCE while measuring with the activity interrupt       *)
(* enabled, and asserts the line until INT_SOURCE is read.               *)
(***************************************************************************)
Activity ==
  /\ hwPower = "measure" /\ hwIntEnable /\ ~hwIntSource
  /\ hwIntSource' = TRUE
  /\ UNCHANGED <<cmVars, hwPower, hwIntEnable, hwRate, hwThreshold, intShadow,
                 devVars, ctlVars>>

\* OnInterruptIsr (AccelerometerDevice.cpp:2209-2311): read INT_SOURCE,
\* which clears it, keep the bits m_InterruptsEnabled says are enabled, and
\* queue the work item for an activity bit (a queued item is not queued
\* twice).  A failed read changes nothing.
OnInterruptIsr ==
  /\ hwIntSource /\ hwIntEnable
  /\ hwIntSource' = FALSE
  /\ wiQueued' = (wiQueued \/ intShadow)
  /\ UNCHANGED <<cmVars, hwPower, hwIntEnable, hwRate, hwThreshold, intShadow,
                 devVars, pc, req, loc, wiPc>>

\* OnInterruptWorkItem (2329-2396): RequestData, then DataAvailable.
WorkItemRequestData ==
  /\ wiQueued /\ wiPc = "idle"
  /\ wiQueued' = FALSE
  /\ \E k \in FailurePoints(1) : wiPc' = IF k = 0 THEN "stateRead" ELSE "idle"
  /\ UNCHANGED <<cmVars, hwVars, devVars, pc, req, loc>>

\* A DataAvailable that raises the data event only along with a change of
\* state, as if new data needed reporting only on the first sample.
WorkItemStateReadRaiseOnChange ==
  /\ wiPc = "stateRead"
  /\ wiPc' = IF sensorState # "Ready" THEN "stateWrite" ELSE "idle"
  /\ UNCHANGED <<cmVars, hwVars, devVars, pc, req, loc, wiQueued>>

\* DataAvailable (SensorDevice.cpp:1975-2052): SetState(READY) ...
WorkItemStateRead ==
  /\ wiPc = "stateRead"
  /\ wiPc' = IF sensorState # "Ready" THEN "stateWrite" ELSE "raise"
  /\ UNCHANGED <<cmVars, hwVars, devVars, pc, req, loc, wiQueued>>

WorkItemStateWrite ==
  /\ wiPc = "stateWrite"
  /\ sensorState' = "Ready"
  /\ stateChanged' = TRUE
  /\ wiPc' = "raise"
  /\ UNCHANGED <<cmVars, hwVars, dataUpdateMode, rmVars,
                 pc, req, loc, wiQueued>>

\* ... then RaiseDataEvent (2067-2081): tell the report manager if anyone
\* is subscribed.
RaiseDataEvent ==
  /\ wiPc = "raise"
  /\ IF subscriberCount > 0 THEN RM!NewDataAvailable ELSE UNCHANGED rmVars
  /\ wiPc' = "idle"
  /\ UNCHANGED <<cmVars, hwVars, dataUpdateMode, sensorState,
                 stateChanged, pc, req, loc, wiQueued>>

ThreadStep(t) ==
  \/ RequestStep(t)
  \/ ReadInterval(t)
  \/ HwSetReportInterval(t)
  \/ RmSetReportInterval(t)
  \/ ReadSensitivity(t)
  \/ HwSetChangeSensitivity(t)
  \/ ReadMode(t)
  \/ HwSetDeviceState(t)
  \/ CommitMode(t)
  \/ PollRequest(t)
  \/ ThreadStateRead(t)
  \/ ThreadStateWrite(t)

Next ==
  \/ \E t \in Threads : ThreadStep(t)
  \/ Activity
  \/ OnInterruptIsr
  \/ WorkItemRequestData
  \/ WorkItemStateRead
  \/ WorkItemStateWrite
  \/ RaiseDataEvent

Spec == Init /\ [][Next]_vars

-----------------------------------------------------------------------------
(***************************************************************************)
(* Properties.  A state is quiescent when no request is in progress.      *)
(***************************************************************************)
Quiescent == \A t \in Threads : pc[t] = "idle"

\* the mode the clients' registrations call for (spec 4.2 and 5)
ArbitratedMode ==
  IF DOMAIN clientList = {} THEN DataUpdateModeOff
  ELSE IF \/ \E c \in DOMAIN clientList : clientList[c].fSubscribed
          \/ ExplicitIntervals # {}
       THEN DataUpdateModeEventing
       ELSE DataUpdateModePolling

(* Once every request has returned, m_DataUpdateMode is the mode the     *)
(* connected clients call for: Off with none, Eventing with a subscriber *)
(* or an explicit report interval, Polling otherwise.  The handlers     *)
(* reach it through ApplyUpdatedProperties and the ClientConnect and     *)
(* ClientDisconnect tails, which act on a client count read earlier.     *)
ModeMatchesArbitration ==
  Quiescent => dataUpdateMode = ArbitratedMode

\* the threshold spec 5 asks for: the arbitrated sensitivity rounded down
\* to the nearest step THRESH_ACT can hold, never up
RoundedDownThreshold(sens) == SetMin(VtR8Values(sens) \cup {255})

(* Once every request has returned, the part runs at the arbitrated      *)
(* interval and threshold and the report manager throttles at that       *)
(* interval: no request leaves a value it read before another request's *)
(* newer one programmed (spec 5, "no stale application"), and the        *)
(* threshold is the arbitrated sensitivity rounded down to a step of the *)
(* register (ApplyUpdatedProperties and SetChangeSensitivity's cast).    *)
AppliedSettingsCurrent ==
  Quiescent =>
    /\ hwRate = minReportInterval
    /\ rmInterval = minReportInterval
    /\ hwThreshold = RoundedDownThreshold(minSensitivity)

(* In Eventing mode, once requests have returned, the part measures and  *)
(* both INT_ENABLE and m_InterruptsEnabled have the activity bit, so an  *)
(* activity event reaches the work item and the subscribers.             *)
EventingArmsInterrupts ==
  Quiescent /\ dataUpdateMode = DataUpdateModeEventing =>
    /\ hwPower = "measure" /\ hwIntEnable /\ intShadow

(* Outside Eventing, no activity queues the interrupt work item while no *)
(* request is in progress (spec 5: Polling and Off produce no data      *)
(* notifications).  SetReportInterval and SetChangeSensitivity turn the  *)
(* activity interrupt back on in INT_ENABLE whatever the mode; only the  *)
(* ISR's filter on m_InterruptsEnabled, cleared by the Polling and       *)
(* Standby transitions, holds it back.                                   *)
NoWorkOutsideEventing ==
  [][Quiescent /\ dataUpdateMode # DataUpdateModeEventing =>
       (wiQueued' => wiQueued)]_vars

(* A committed sampling mode (Polling or Eventing) has the part measuring *)
(* once requests have returned, whatever register accesses failed: a     *)
(* mode is committed only after its sequence succeeded, and a failed     *)
(* transition away from it leaves POWER_CTL alone.                       *)
SamplingModeMeasures ==
  Quiescent /\ dataUpdateMode \in {DataUpdateModePolling, DataUpdateModeEventing} =>
    hwPower = "measure"

(* Entering Polling disables the interrupt enable bits (spec 5), and    *)
(* nothing turns them back on while the mode stays Polling.              *)
PollingDisarmsInterrupts ==
  Quiescent /\ dataUpdateMode = DataUpdateModePolling => ~hwIntEnable

(* SetDeviceStateStandby reports success, and Off is then committed,    *)
(* only when it has disabled the activity interrupt in INT_ENABLE and in *)
(* m_InterruptsEnabled (spec 5: a failure at any step is reported and    *)
(* the mode is not committed).                                           *)
StandbySuccessDisarms ==
  [][\A t \in Threads :
       /\ pc[t] = "hwSetDeviceState" /\ loc[t].mode = DataUpdateModeOff
       /\ pc'[t] = "commitMode"
       => ~hwIntEnable' /\ ~intShadow']_vars
=============================================================================
