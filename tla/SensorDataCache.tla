--------------------------- MODULE SensorDataCache ---------------------------
(***************************************************************************)
(* The sensor's property and data cache (CSensorDevice's                   *)
(* m_spSensorDataFieldValues, SENSOR_PROPERTY_STATE and m_fStateChanged,   *)
(* all under m_CacheCriticalSection) with the threads that write and read  *)
(* it, and the report manager whose eventing thread reads it.              *)
(*                                                                         *)
(* Writers: the interrupt work item (OnInterruptWorkItem -> RequestData -> *)
(* DataAvailable: SetTimeStamp, the values, SetState(READY),              *)
(* RaiseDataEvent), and a queue thread in GetDataFields that polls        *)
(* (PollForData: RequestNewData, the values, SetTimeStamp,                *)
(* SetState(READY)).  Readers: the eventing thread's ReportIntervalExpired *)
(* (GetAllDataFields, HasStateChanged, GetProperty(STATE), the posts) and *)
(* GetDataFields, which reads the keys one GetDataField at a time.  Every *)
(* step is one acquisition of the cache lock.                              *)
(*                                                                         *)
(* A sample is identified by the number of the read that returned it: the *)
(* data registers are read at most MaxSamples times.  The mode is fixed in *)
(* a behaviour: the work item runs only in Eventing, and GetDataFields     *)
(* polls in Polling or before the first sample.  Data values, the key     *)
(* collection and a failed register read (which ends the call with the    *)
(* cache unchanged) are left out.                                          *)
(***************************************************************************)
EXTENDS Integers

CONSTANTS
  Threads,      \* queue threads serving GetDataFields
  WorkItem,     \* the interrupt work item
  Intervals,    \* report intervals, in ticks (ReportManager)
  MaxElapsed,   \* saturation of the ticks since the last report
  MaxSamples    \* bound on the reads of the data registers

ASSUME WorkItem \notin Threads /\ MaxSamples \in Nat

VARIABLES
  dataUpdateMode,  \* m_DataUpdateMode
  hwSample,        \* reads of the data registers so far
  cacheStamp,      \* the read whose SENSOR_DATA_TYPE_TIMESTAMP is cached
  cacheValues,     \* the read whose acceleration values are cached
  sensorState,     \* SENSOR_PROPERTY_STATE
  stateChanged,    \* m_fStateChanged
  cxState,         \* the state last posted to the class extension
  dpc,             \* program point of each writer and reader
  dsample,         \* the read a writer is storing
  dcopy,           \* the keys a GetDataFields call has read so far
  rptPc,           \* the eventing thread in ReportIntervalExpired
  rptCopy,         \* its GetAllDataFields copy
  rmActive, rmThread, rmInterval, rmDataEvent, rmDataPending, rmElapsed,
  rmTimeout, rmCaller   \* the report manager (ReportManager.tla)

rmVars == <<rmActive, rmThread, rmInterval, rmDataEvent, rmDataPending,
            rmElapsed, rmTimeout, rmCaller>>
cacheVars == <<hwSample, cacheStamp, cacheValues, sensorState, stateChanged>>
threadVars == <<dpc, dsample, dcopy>>
rptVars == <<rptPc, rptCopy, cxState>>
dcVars == <<dataUpdateMode, cacheVars, threadVars, rptVars, rmVars>>

RM == INSTANCE ReportManager

Writers == Threads \cup {WorkItem}
Keys == {"stamp", "values"}
NotRead == -1
Copies == [Keys -> -1..MaxSamples]
NoCopy == [k \in Keys |-> NotRead]
PCs == {"idle", "poll", "pollValues", "pollStamp", "stamp", "values",
        "stateRead", "stateWrite", "raise", "readKeys", "return"}

DCTypeOK ==
  /\ dataUpdateMode \in {"Polling", "Eventing"}
  /\ hwSample \in 0..MaxSamples
  /\ cacheStamp \in 0..MaxSamples /\ cacheValues \in 0..MaxSamples
  /\ sensorState \in {"NoData", "Ready"} /\ cxState \in {"NoData", "Ready"}
  /\ stateChanged \in BOOLEAN
  /\ dpc \in [Writers -> PCs]
  /\ dsample \in [Writers -> 0..MaxSamples]
  /\ dcopy \in [Threads -> Copies]
  /\ rptPc \in {"idle", "hasStateChanged", "postState", "postData"}
  /\ rptCopy \in Copies
  /\ RM!RMTypeOK

\* after construction (the cache holds the empty sample 0, the state is
\* NO_DATA), in one mode for the whole behaviour
DCInit ==
  /\ dataUpdateMode \in {"Polling", "Eventing"}
  /\ hwSample = 0 /\ cacheStamp = 0 /\ cacheValues = 0
  /\ sensorState = "NoData" /\ stateChanged = FALSE /\ cxState = "NoData"
  /\ dpc = [w \in Writers |-> "idle"]
  /\ dsample = [w \in Writers |-> 0]
  /\ dcopy = [t \in Threads |-> NoCopy]
  /\ rptPc = "idle" /\ rptCopy = NoCopy
  /\ RM!RMInit

Goto(w, l) == dpc' = [dpc EXCEPT ![w] = l]

\* RequestData (AccelerometerDevice.cpp:2412-2513): read the six data
\* registers under the device lock; the part has a new sample each time
RequestData(w, next) ==
  /\ hwSample < MaxSamples
  /\ hwSample' = hwSample + 1
  /\ dsample' = [dsample EXCEPT ![w] = hwSample + 1]
  /\ Goto(w, next)

\* SetTimeStamp (SensorDevice.cpp:1690-1732), under the cache lock
SetTimeStamp(w, next) ==
  /\ cacheStamp' = dsample[w]
  /\ Goto(w, next)
  /\ UNCHANGED <<hwSample, cacheValues, sensorState, stateChanged, dsample, dcopy>>

\* the loop that stores a read's values, under the cache lock
StoreValues(w, next) ==
  /\ cacheValues' = dsample[w]
  /\ Goto(w, next)
  /\ UNCHANGED <<hwSample, cacheStamp, sensorState, stateChanged, dsample, dcopy>>

\* where a writer goes once SetState(READY) is done
AfterSetState(w) == IF w = WorkItem THEN "raise" ELSE "readKeys"

\* SetState (1589-1643), first half: GetProperty(STATE) under the lock
SetStateRead(w) ==
  /\ dpc[w] = "stateRead"
  /\ Goto(w, IF sensorState # "Ready" THEN "stateWrite" ELSE AfterSetState(w))
  /\ UNCHANGED <<cacheVars, dsample, dcopy>>

\* A SetState that stores the new state without raising m_fStateChanged.
SetStateWriteNoFlag(w) ==
  /\ dpc[w] = "stateWrite"
  /\ sensorState' = "Ready"
  /\ Goto(w, AfterSetState(w))
  /\ UNCHANGED <<hwSample, cacheStamp, cacheValues, stateChanged, dsample, dcopy>>

\* second half: under the lock again, without looking at the state again,
\* store it and raise m_fStateChanged
SetStateWrite(w) ==
  /\ dpc[w] = "stateWrite"
  /\ sensorState' = "Ready"
  /\ stateChanged' = TRUE
  /\ Goto(w, AfterSetState(w))
  /\ UNCHANGED <<hwSample, cacheStamp, cacheValues, dsample, dcopy>>

-----------------------------------------------------------------------------
(* The interrupt work item: OnInterruptWorkItem (AccelerometerDevice.cpp: *)
(* 2329-2396) in Eventing mode, then DataAvailable (SensorDevice.cpp:     *)
(* 1975-2052) and RaiseDataEvent (2067-2081), which in Eventing mode has  *)
(* a subscriber to notify.                                                *)
WorkItemRequestData ==
  /\ dataUpdateMode = "Eventing" /\ dpc[WorkItem] = "idle"
  /\ RequestData(WorkItem, "stamp")
  /\ UNCHANGED <<cacheStamp, cacheValues, sensorState, stateChanged, dcopy>>

WorkItemRaise ==
  /\ dpc[WorkItem] = "raise"
  /\ RM!NewDataAvailable
  /\ Goto(WorkItem, "idle")
  /\ UNCHANGED <<cacheVars, dsample, dcopy>>

WorkItemStep ==
  /\ \/ /\ \/ WorkItemRequestData
           \/ dpc[WorkItem] = "stamp" /\ SetTimeStamp(WorkItem, "values")
           \/ dpc[WorkItem] = "values" /\ StoreValues(WorkItem, "stateRead")
           \/ SetStateRead(WorkItem)
           \/ SetStateWrite(WorkItem)
        /\ UNCHANGED rmVars
     \/ WorkItemRaise
  /\ UNCHANGED <<dataUpdateMode, rptVars>>

-----------------------------------------------------------------------------
(* GetDataFields (SensorDevice.cpp:812-948) on a queue thread: read the   *)
(* state; in Polling, or with no sample yet, PollForData (2096-2173:      *)
(* RequestNewData, the values, SetTimeStamp, SetState(READY)); then one   *)
(* GetDataField (1733-1781) per key the client asked for, in its order.  *)
GetDataFieldsStart(t) ==
  /\ dpc[t] = "idle"
  /\ Goto(t, IF dataUpdateMode = "Polling" \/ sensorState # "Ready"
             THEN "poll" ELSE "readKeys")
  /\ dcopy' = [dcopy EXCEPT ![t] = NoCopy]
  /\ UNCHANGED <<cacheVars, dsample>>

GetDataField(t) ==
  /\ dpc[t] = "readKeys"
  /\ \E k \in {j \in Keys : dcopy[t][j] = NotRead} :
       LET c == [dcopy[t] EXCEPT ![k] = IF k = "stamp" THEN cacheStamp ELSE cacheValues]
       IN  /\ dcopy' = [dcopy EXCEPT ![t] = c]
           /\ Goto(t, IF \A j \in Keys : c[j] # NotRead THEN "return" ELSE "readKeys")
  /\ UNCHANGED <<cacheVars, dsample>>

GetDataFieldsReturn(t) ==
  /\ dpc[t] = "return"
  /\ Goto(t, "idle")
  /\ UNCHANGED <<cacheVars, dsample, dcopy>>

\* RequestNewData (AccelerometerDevice.cpp:1958-2003): RequestData
RequestNewData(t) ==
  /\ dpc[t] = "poll"
  /\ RequestData(t, "pollValues")
  /\ UNCHANGED <<cacheStamp, cacheValues, sensorState, stateChanged, dcopy>>

QueueThreadStep(t) ==
  /\ \/ GetDataFieldsStart(t)
     \/ RequestNewData(t)
     \/ dpc[t] = "pollValues" /\ StoreValues(t, "pollStamp")
     \/ dpc[t] = "pollStamp" /\ SetTimeStamp(t, "stateRead")
     \/ SetStateRead(t)
     \/ SetStateWrite(t)
     \/ GetDataField(t)
     \/ GetDataFieldsReturn(t)
  /\ UNCHANGED <<dataUpdateMode, rptVars, rmVars>>

-----------------------------------------------------------------------------
(* The eventing thread: the report manager's loop, and                    *)
(* ReportIntervalExpired (2267-2351) when a report is due:                *)
(* GetAllDataFields copies the whole cache under one lock; HasStateChanged *)
(* (1657-1676) tests and clears m_fStateChanged; if it was set,           *)
(* GetProperty(STATE) and PostStateChange; then PostDataEvent.            *)
RMStep(A) == A /\ UNCHANGED <<dataUpdateMode, cacheVars, threadVars, rptVars>>

ReportDue ==
  /\ RM!ThreadDue
  /\ rptPc' = "hasStateChanged"
  /\ rptCopy' = [k \in Keys |-> IF k = "stamp" THEN cacheStamp ELSE cacheValues]
  /\ UNCHANGED <<dataUpdateMode, cacheVars, threadVars, cxState>>

RptHasStateChanged ==
  /\ rptPc = "hasStateChanged"
  /\ stateChanged' = FALSE
  /\ rptPc' = IF stateChanged THEN "postState" ELSE "postData"
  /\ UNCHANGED <<dataUpdateMode, hwSample, cacheStamp, cacheValues, sensorState,
                 threadVars, rptCopy, cxState, rmVars>>

\* GetProperty(SENSOR_PROPERTY_STATE), then PostStateChange with it
RptPostStateChange ==
  /\ rptPc = "postState"
  /\ cxState' = sensorState
  /\ rptPc' = "postData"
  /\ UNCHANGED <<dataUpdateMode, cacheVars, threadVars, rptCopy, rmVars>>

\* PostDataEvent with the copy; back to the report manager's loop
RptPostDataEvent ==
  /\ rptPc = "postData"
  /\ RM!ThreadReport
  /\ rptPc' = "idle"
  /\ UNCHANGED <<dataUpdateMode, cacheVars, threadVars, rptCopy, cxState>>

EventingThreadStep ==
  \/ RMStep(RM!ThreadWake)
  \/ RMStep(RM!ThreadExit)
  \/ RMStep(RM!ThreadNotDue)
  \/ ReportDue
  \/ RptHasStateChanged
  \/ RptPostStateChange
  \/ RptPostDataEvent

\* the device's calls into the report manager: Initialize and Uninitialize
\* (from CSensorDevice::Initialize/Uninitialize), SetReportInterval (from
\* ApplyUpdatedProperties), and the passing of time
ReportManagerCall ==
  \/ \E v \in Intervals : RMStep(RM!Initialize(v) \/ RM!SetReportInterval(v))
  \/ RMStep(RM!UninitializeSignal)
  \/ RMStep(RM!UninitializeJoin)
  \/ RMStep(RM!Tick)

DCNext ==
  \/ WorkItemStep
  \/ \E t \in Threads : QueueThreadStep(t)
  \/ EventingThreadStep
  \/ ReportManagerCall

(***************************************************************************)
(* Fairness: the report manager's (RMFairness), now over the whole of     *)
(* ReportIntervalExpired.  The writers need none for the properties.     *)
(***************************************************************************)
DCFairness ==
  /\ WF_dcVars(EventingThreadStep)
  /\ WF_dcVars(RMStep(RM!UninitializeJoin))
  /\ WF_dcVars(RMStep(RM!Tick))

DCSpec == DCInit /\ [][DCNext]_dcVars /\ DCFairness

-----------------------------------------------------------------------------
(* The report manager keeps its promises with ReportIntervalExpired's    *)
(* cache reads inside the report: no report after Uninitialize returns,  *)
(* and it refines the throttle.                                           *)
DCReportOnlyWhileStarted == RM!ReportOnlyWhileStarted

\* every report takes pending data after at least the current interval,
\* and pending data that stays due is reported (ReportThrottle)
DCImplementsThrottle == RM!ImplementsThrottle

(* No state change is lost: whenever the cached state differs from the   *)
(* one last posted to the class extension, m_fStateChanged is set or the *)
(* eventing thread has taken it and is about to post, whatever the order *)
(* of SetState's two lock acquisitions among the work item, the polling  *)
(* queue threads and HasStateChanged.                                    *)
StateChangeNotLost ==
  sensorState # cxState => stateChanged \/ rptPc = "postState"

(* A sample is handed out whole (spec 3, Sample: time stamp and values   *)
(* are overwritten together under one lock acquisition): the copy a data *)
(* event carries, and the keys a GetDataFields call returns, have the    *)
(* time stamp and the values of the same read.  DataAvailable stamps the *)
(* time before storing the values, PollForData after, each under its    *)
(* own lock acquisition, and GetDataFields reads key by key.             *)
SampleCopiesWhole ==
  /\ rptPc = "postData" => rptCopy["stamp"] = rptCopy["values"]
  /\ \A t \in Threads : dpc[t] = "return" => dcopy[t]["stamp"] = dcopy[t]["values"]

(* A state change is posted once per transition (spec 4.3, data          *)
(* arrival): the state PostStateChange sends differs from the one posted *)
(* before.  SetState decides the state changed under one acquisition of *)
(* the cache lock and stores it under another, so two writers that both *)
(* read NO_DATA both raise m_fStateChanged.                              *)
StateChangePostedOnce ==
  rptPc = "postState" => sensorState # cxState
=============================================================================
