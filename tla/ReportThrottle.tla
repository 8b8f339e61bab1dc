---------------------------- MODULE ReportThrottle ----------------------------
(***************************************************************************)
(* What the report manager promises (spec 4.3): while it is active, a data *)
(* report is emitted only when new data is pending and at least the       *)
(* current report interval has passed since the previous report, and     *)
(* pending data is eventually reported.  Starting and stopping are       *)
(* atomic here; time is the number of ticks since the last report,       *)
(* saturated at MaxElapsed, which is at least every interval.             *)
(***************************************************************************)
EXTENDS Naturals

CONSTANTS
  Intervals,   \* report intervals, in ticks
  MaxElapsed   \* ticks past which the age of the last report is irrelevant

ASSUME Intervals \subseteq 1..MaxElapsed

VARIABLES
  active,      \* started and not stopped
  pending,     \* new data not reported yet
  interval,    \* the report interval
  elapsed      \* ticks since the last report

avars == <<active, pending, interval, elapsed>>

ThrottleTypeOK ==
  /\ active \in BOOLEAN
  /\ pending \in BOOLEAN
  /\ interval \in Intervals
  /\ elapsed \in 0..MaxElapsed

ThrottleInit ==
  /\ active = FALSE
  /\ pending = FALSE
  /\ interval \in Intervals
  /\ elapsed = 0

Start(v) ==
  /\ ~active
  /\ active' = TRUE
  /\ interval' = v
  /\ UNCHANGED <<pending, elapsed>>

Stop ==
  /\ active
  /\ active' = FALSE
  /\ UNCHANGED <<pending, interval, elapsed>>

ChangeInterval(v) ==
  /\ interval' = v
  /\ UNCHANGED <<active, pending, elapsed>>

NotifyNewData ==
  /\ pending' = TRUE
  /\ UNCHANGED <<active, interval, elapsed>>

Tick ==
  /\ elapsed < MaxElapsed
  /\ elapsed' = elapsed + 1
  /\ UNCHANGED <<active, pending, interval>>

\* a report: only when due, and it restarts the interval
Emit ==
  /\ active /\ pending /\ elapsed >= interval
  /\ pending' = FALSE
  /\ elapsed' = 0
  /\ UNCHANGED <<active, interval>>

ThrottleNext ==
  \/ \E v \in Intervals : Start(v) \/ ChangeInterval(v)
  \/ Stop
  \/ NotifyNewData
  \/ Tick
  \/ Emit

\* pending data that stays due is reported
ThrottleSpec == ThrottleInit /\ [][ThrottleNext]_avars /\ WF_avars(Emit)
=============================================================================
