---------------------------- MODULE ReportManager ----------------------------
(***************************************************************************)
(* CReportManager (SpbAccelerometerV2/ReportManager.h).  Only the header  *)
(* is in the repository, so the behaviour is the one spec 4.3 gives the    *)
(* class, over the members the header declares: m_fDataEventingThreadActive*)
(* , m_ReportInterval, m_LastReportTickCount, the data event m_hDataEvent, *)
(* the eventing thread and m_ThreadCS.                                     *)
(*                                                                         *)
(* The eventing thread loops: wait for the data event or a timeout equal   *)
(* to the time left until m_LastReportTickCount + m_ReportInterval; on     *)
(* waking, under m_ThreadCS, exit if deactivated, report if data is        *)
(* pending and the interval has passed, else compute the wait again.  The  *)
(* report itself (CSensorDevice::ReportIntervalExpired) runs outside the   *)
(* lock.  Uninitialize deactivates the thread, signals it and waits for it *)
(* to end.  Time is GetTickCount64() - m_LastReportTickCount, in ticks,   *)
(* saturated at MaxElapsed.                                                *)
(***************************************************************************)
EXTENDS Naturals

CONSTANTS
  Intervals,   \* report intervals SetReportInterval may be given, in ticks
  MaxElapsed   \* ticks past which the age of the last report is irrelevant

ASSUME Intervals \subseteq 1..MaxElapsed

VARIABLES
  rmActive,       \* m_fDataEventingThreadActive
  rmThread,       \* program point of the data eventing thread
  rmInterval,     \* m_ReportInterval
  rmDataEvent,    \* m_hDataEvent is signalled
  rmDataPending,  \* new data not reported yet
  rmElapsed,      \* ticks since m_LastReportTickCount
  rmTimeout,      \* ticks left of the thread's current wait
  rmCaller        \* Uninitialize: "idle", or "joining" the thread

rmVars == <<rmActive, rmThread, rmInterval, rmDataEvent, rmDataPending,
            rmElapsed, rmTimeout, rmCaller>>

RMThreadPCs == {"none", "wait", "check", "report", "exited"}

RMTypeOK ==
  /\ rmActive \in BOOLEAN
  /\ rmThread \in RMThreadPCs
  /\ rmInterval \in Intervals
  /\ rmDataEvent \in BOOLEAN
  /\ rmDataPending \in BOOLEAN
  /\ rmElapsed \in 0..MaxElapsed
  /\ rmTimeout \in 0..MaxElapsed
  /\ rmCaller \in {"idle", "joining"}

RMInit ==
  /\ rmActive = FALSE
  /\ rmThread = "none"
  /\ rmInterval \in Intervals
  /\ rmDataEvent = FALSE
  /\ rmDataPending = FALSE
  /\ rmElapsed = 0
  /\ rmTimeout = 0
  /\ rmCaller = "idle"

\* A wait computed as (last + interval) - now without checking that the
\* interval has already passed.
RemainingForUnclamped(v) == v - rmElapsed

\* the timeout of a wait for interval v: the time left until
\* m_LastReportTickCount + v, or none if that time has passed
RemainingFor(v) == IF rmElapsed >= v THEN 0 ELSE v - rmElapsed

\* Initialize: m_ReportInterval, then ActivateDataEventingThread.
Initialize(v) ==
  /\ rmThread = "none" /\ rmCaller = "idle"
  /\ rmInterval' = v
  /\ rmActive' = TRUE
  /\ rmThread' = "wait"
  /\ rmTimeout' = RemainingFor(v)
  /\ UNCHANGED <<rmDataEvent, rmDataPending, rmElapsed, rmCaller>>

\* Uninitialize / DeactivateDataEventingThread, first step: under
\* m_ThreadCS clear the active flag and wake the thread.  On an inactive
\* report manager it returns at once.
UninitializeSignal ==
  /\ rmActive /\ rmCaller = "idle"
  /\ rmActive' = FALSE
  /\ rmDataEvent' = TRUE
  /\ rmCaller' = "joining"
  /\ UNCHANGED <<rmThread, rmInterval, rmDataPending, rmElapsed, rmTimeout>>

\* A deactivation that does not wait for the thread to end.
UninitializeNoJoin ==
  /\ rmCaller = "joining"
  /\ rmThread' = IF rmThread = "exited" THEN "none" ELSE rmThread
  /\ rmCaller' = "idle"
  /\ UNCHANGED <<rmActive, rmInterval, rmDataEvent, rmDataPending, rmElapsed,
                 rmTimeout>>

\* second step: wait for the thread to end and close its handle
UninitializeJoin ==
  /\ rmCaller = "joining" /\ rmThread = "exited"
  /\ rmThread' = "none"
  /\ rmCaller' = "idle"
  /\ UNCHANGED <<rmActive, rmInterval, rmDataEvent, rmDataPending, rmElapsed,
                 rmTimeout>>

\* SetReportInterval: under m_ThreadCS; the thread sees it when it wakes.
SetReportInterval(v) ==
  /\ rmInterval' = v
  /\ UNCHANGED <<rmActive, rmThread, rmDataEvent, rmDataPending, rmElapsed,
                 rmTimeout, rmCaller>>

\* NewDataAvailable: record the data; wake the thread if there is one.
NewDataAvailable ==
  /\ rmDataPending' = TRUE
  /\ rmDataEvent' = (rmDataEvent \/ rmActive)
  /\ UNCHANGED <<rmActive, rmThread, rmInterval, rmElapsed, rmTimeout, rmCaller>>

\* A tick of GetTickCount64(), which also runs down the thread's wait.
Tick ==
  /\ rmElapsed < MaxElapsed
  /\ rmElapsed' = rmElapsed + 1
  /\ rmTimeout' = IF rmThread = "wait" /\ rmTimeout > 0 THEN rmTimeout - 1
                  ELSE rmTimeout
  /\ UNCHANGED <<rmActive, rmThread, rmInterval, rmDataEvent, rmDataPending, rmCaller>>

\* A wait that ends only on the data event, as if the timeout were INFINITE.
ThreadWakeOnEventOnly ==
  /\ rmThread = "wait" /\ rmDataEvent
  /\ rmDataEvent' = FALSE
  /\ rmThread' = "check"
  /\ UNCHANGED <<rmActive, rmInterval, rmDataPending, rmElapsed, rmTimeout, rmCaller>>

\* WaitForSingleObject(m_hDataEvent, timeout) returns: the event (an
\* auto-reset event, consumed) or the timeout.
ThreadWake ==
  /\ rmThread = "wait" /\ (rmDataEvent \/ rmTimeout = 0)
  /\ rmDataEvent' = FALSE
  /\ rmThread' = "check"
  /\ UNCHANGED <<rmActive, rmInterval, rmDataPending, rmElapsed, rmTimeout, rmCaller>>

\* the loop condition: a deactivated thread ends
ThreadExit ==
  /\ rmThread = "check" /\ ~rmActive
  /\ rmThread' = "exited"
  /\ UNCHANGED <<rmActive, rmInterval, rmDataEvent, rmDataPending, rmElapsed,
                 rmTimeout, rmCaller>>

\* A check that reports pending data without comparing the elapsed time
\* with the interval.
ThreadDueIgnoresInterval ==
  /\ rmThread = "check" /\ rmActive /\ rmDataPending
  /\ rmDataPending' = FALSE
  /\ rmElapsed' = 0
  /\ rmThread' = "report"
  /\ UNCHANGED <<rmActive, rmInterval, rmDataEvent, rmTimeout, rmCaller>>

\* data pending and the interval passed: take the data, restart the interval
ThreadDue ==
  /\ rmThread = "check" /\ rmActive /\ rmDataPending /\ rmElapsed >= rmInterval
  /\ rmDataPending' = FALSE
  /\ rmElapsed' = 0
  /\ rmThread' = "report"
  /\ UNCHANGED <<rmActive, rmInterval, rmDataEvent, rmTimeout, rmCaller>>

\* otherwise wait again, for what is left of the current interval
ThreadNotDue ==
  /\ rmThread = "check" /\ rmActive
  /\ ~(rmDataPending /\ rmElapsed >= rmInterval)
  /\ rmThread' = "wait"
  /\ rmTimeout' = RemainingFor(rmInterval)
  /\ UNCHANGED <<rmActive, rmInterval, rmDataEvent, rmDataPending, rmElapsed, rmCaller>>

\* the report, CSensorDevice::ReportIntervalExpired, outside m_ThreadCS
ThreadReport ==
  /\ rmThread = "report"
  /\ rmThread' = "wait"
  /\ rmTimeout' = RemainingFor(rmInterval)
  /\ UNCHANGED <<rmActive, rmInterval, rmDataEvent, rmDataPending, rmElapsed, rmCaller>>

RMThreadStep ==
  \/ ThreadWake
  \/ ThreadExit
  \/ ThreadDue
  \/ ThreadNotDue
  \/ ThreadReport

RMNext ==
  \/ \E v \in Intervals : Initialize(v) \/ SetReportInterval(v)
  \/ UninitializeSignal
  \/ UninitializeJoin
  \/ NewDataAvailable
  \/ Tick
  \/ RMThreadStep

(***************************************************************************)
(* Fairness: the eventing thread is scheduled while it can run, a caller  *)
(* blocked in WaitForSingleObject on the ended thread resumes, and the    *)
(* tick count advances.                                                    *)
(***************************************************************************)
RMFairness ==
  /\ WF_rmVars(RMThreadStep)
  /\ WF_rmVars(UninitializeJoin)
  /\ WF_rmVars(Tick)

RMSpec == RMInit /\ [][RMNext]_rmVars /\ RMFairness

-----------------------------------------------------------------------------
(* No report runs once Uninitialize has returned: the caller does not    *)
(* come back from the deactivation while the eventing thread is still    *)
(* inside ReportIntervalExpired (spec 4.3: stop is synchronous).         *)
ReportOnlyWhileStarted ==
  rmThread = "report" => rmActive \/ rmCaller = "joining"

\* the report manager as the throttle it promises to be: it is active from
\* Initialize until Uninitialize returns
Throttle == INSTANCE ReportThrottle
              WITH active <- rmActive \/ rmCaller = "joining",
                   pending <- rmDataPending,
                   interval <- rmInterval,
                   elapsed <- rmElapsed

(* The eventing thread implements the throttle: every report takes       *)
(* pending data after at least the current interval, and pending data    *)
(* that stays due is reported, whatever the wake-ups, interval changes   *)
(* and deactivation do in between.                                       *)
ImplementsThrottle == Throttle!ThrottleSpec
=============================================================================
