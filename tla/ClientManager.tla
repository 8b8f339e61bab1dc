---------------------------- MODULE ClientManager ----------------------------
(***************************************************************************)
(* CClientManager (SpbAccelerometerV2/ClientManager.cpp): the registry of  *)
(* connected clients and the arbitration of their desired report interval *)
(* and per-data-field change sensitivity.                                  *)
(*                                                                         *)
(* Every public method takes m_ClientListCS for its whole body and calls   *)
(* RecalculateProperties inside it (which also takes m_MinPropsCS), so     *)
(* each method is one atomic step here.  A method whose guard fails        *)
(* returns an error and leaves the state untouched; those calls are        *)
(* stuttering steps of this module and are routed by SensorDevice through  *)
(* the ...Ok predicates.                                                   *)
(*                                                                         *)
(* Data abstraction: a change sensitivity (a VT_R8 double) is an integer   *)
(* number of resolution steps, or the model value NaN; VT_NULL (override   *)
(* cleared) and "key absent" are both NoValue, which RecalculateProperties *)
(* treats alike.  ULONG values are compared only with < and =, so any     *)
(* order-preserving map of them that keeps ULONG_MAX is exact.             *)
(***************************************************************************)
EXTENDS Integers, FiniteSets, SequencesExt

CONSTANTS
  Clients,                    \* IWDFFile* handles of client applications
  Fields,                     \* data fields that carry a change sensitivity
  DefaultReportInterval,      \* m_defaultReportInterval
  MinSupportedReportInterval, \* m_minSupportedReportInterval
  ULONG_MAX,
  IntervalInputs,             \* report intervals a client may ask for
  DefaultSensitivity,         \* m_spDefaultSensitivityValues: [Fields -> Int]
  SensitivityInputs,          \* sensitivities a client may ask for
  NoValue,                    \* VT_NULL / key not present
  NaN                         \* a VT_R8 NaN

ASSUME DefaultReportInterval \in 1..ULONG_MAX
ASSUME MinSupportedReportInterval \in 1..ULONG_MAX
ASSUME IntervalInputs \subseteq 0..ULONG_MAX
ASSUME DefaultSensitivity \in [Fields -> Nat]
ASSUME SensitivityInputs \subseteq Int \cup {NoValue, NaN}

\* ClientManager.cpp:37
CURRENT_REPORT_INTERVAL_NOT_SET == 0

\* DATA_UPDATE_MODE
DataUpdateModeOff == "Off"
DataUpdateModePolling == "Polling"
DataUpdateModeEventing == "Eventing"
DataUpdateModes == {DataUpdateModeOff, DataUpdateModePolling, DataUpdateModeEventing}

VARIABLES
  clientList,                     \* m_pClientList: connected client -> CLIENT_ENTRY
  clientCount,                    \* m_ClientCount
  subscriberCount,                \* m_SubscriberCount
  minReportInterval,              \* m_minReportInterval
  minReportIntervalExplicitlySet, \* m_minReportIntervalExplicitlySet
  minSensitivity                  \* m_spMinSensitivityValues

cmVars == <<clientList, clientCount, subscriberCount, minReportInterval,
            minReportIntervalExplicitlySet, minSensitivity>>

SensitivityValues == Int \cup {NaN}

ClientEntry == [fSubscribed : BOOLEAN,
                desiredReportInterval : 0..ULONG_MAX,
                desiredSensitivity : [Fields -> SensitivityValues \cup {NoValue}]]

CMTypeOK ==
  /\ DOMAIN clientList \subseteq Clients
  /\ \A c \in DOMAIN clientList : clientList[c] \in ClientEntry
  /\ clientCount \in Nat
  /\ subscriberCount \in Nat
  /\ minReportInterval \in 0..ULONG_MAX
  /\ minReportIntervalExplicitlySet \in BOOLEAN
  /\ minSensitivity \in [Fields -> SensitivityValues]

(***************************************************************************)
(* RecalculateProperties (ClientManager.cpp:1176-1357).  The loop walks    *)
(* the std::map in key order, i.e. in the order of the IWDFFile pointer    *)
(* values, which the driver does not control: the order is a parameter.   *)
(* The comparisons are those of the Windows min macro, (a < b) ? a : b,    *)
(* on doubles, where every comparison with a NaN is false.                 *)
(***************************************************************************)
LessThan(a, b) == a # NaN /\ b # NaN /\ a < b

MinMacro(a, b) == IF LessThan(a, b) THEN a ELSE b

\* A step that forgets that 0 means "use the default".
IntervalStepCountsUnset(acc, entry) ==
  IF entry.desiredReportInterval < acc.min
  THEN [min |-> entry.desiredReportInterval, explicit |-> TRUE]
  ELSE acc

\* one client's contribution to the running report-interval minimum
IntervalStep(acc, entry) ==
  IF /\ entry.desiredReportInterval # CURRENT_REPORT_INTERVAL_NOT_SET
     /\ entry.desiredReportInterval < acc.min
  THEN [min |-> entry.desiredReportInterval, explicit |-> TRUE]
  ELSE acc

\* A step in which the last client's override wins instead of the least.
SensitivityStepLastWins(f, acc, entry) ==
  LET var == entry.desiredSensitivity[f]
  IN  IF var = NoValue THEN acc ELSE var

\* one client's contribution to the running minimum of field f
SensitivityStep(f, acc, entry) ==
  LET var == entry.desiredSensitivity[f]
  IN  IF var = NoValue THEN acc
      ELSE IF acc = NoValue THEN var    \* varMin is VT_NULL: use client's value
      ELSE MinMacro(acc, var)

RecalculateProperties(list, order) ==
  LET entries == [i \in DOMAIN order |-> list[order[i]]]
      ri == FoldLeft(IntervalStep, [min |-> ULONG_MAX, explicit |-> FALSE], entries)
      Sens(f) == FoldLeft(LAMBDA acc, e : SensitivityStep(f, acc, e), NoValue, entries)
  IN  [minReportInterval |-> IF ri.min = ULONG_MAX THEN DefaultReportInterval ELSE ri.min,
       explicitlySet     |-> ri.explicit,
       minSensitivity    |-> [f \in Fields |->
                               IF Sens(f) = NoValue THEN DefaultSensitivity[f] ELSE Sens(f)]]

\* the map iteration orders RecalculateProperties may see
MapOrders(list) == SetToSeqs(DOMAIN list)

\* Assign the arbitrated values recalculated over newList.
Recalculate(newList) ==
  \E order \in MapOrders(newList) :
    LET r == RecalculateProperties(newList, order)
    IN  /\ minReportInterval' = r.minReportInterval
        /\ minReportIntervalExplicitlySet' = r.explicitlySet
        /\ minSensitivity' = r.minSensitivity

(***************************************************************************)
(* GetDataUpdateMode (ClientManager.cpp:608-637).                          *)
(***************************************************************************)
\* A mode that ignores an explicitly set report interval.
GetDataUpdateModeIgnoresInterval ==
  IF clientCount = 0 THEN DataUpdateModeOff
  ELSE IF subscriberCount > 0 THEN DataUpdateModeEventing
       ELSE DataUpdateModePolling

GetDataUpdateMode ==
  IF clientCount = 0 THEN DataUpdateModeOff
  ELSE IF subscriberCount > 0 \/ minReportIntervalExplicitlySet
       THEN DataUpdateModeEventing
       ELSE DataUpdateModePolling

(***************************************************************************)
(* Initialize (ClientManager.cpp:107-159), after construction.             *)
(***************************************************************************)
CMInit ==
  /\ clientList = [c \in {} |-> CHOOSE e \in ClientEntry : TRUE]
  /\ clientCount = 0
  /\ subscriberCount = 0
  /\ minReportInterval = DefaultReportInterval
  /\ minReportIntervalExplicitlySet = FALSE
  /\ minSensitivity = DefaultSensitivity

NewEntry == [fSubscribed |-> FALSE,
             desiredReportInterval |-> CURRENT_REPORT_INTERVAL_NOT_SET,
             desiredSensitivity |-> [f \in Fields |-> NoValue]]

(***************************************************************************)
(* Connect (ClientManager.cpp:174-263).                                    *)
(***************************************************************************)
ConnectOk(c) ==
  /\ Cardinality(DOMAIN clientList) = clientCount   \* sanity check
  /\ c \notin DOMAIN clientList

Connect(c) ==
  LET newList == clientList @@ (c :> NewEntry)
  IN  /\ ConnectOk(c)
      /\ clientList' = newList
      /\ clientCount' = clientCount + 1
      /\ Recalculate(newList)
      /\ UNCHANGED subscriberCount

(***************************************************************************)
(* Disconnect (ClientManager.cpp:278-375).                                 *)
(***************************************************************************)
DisconnectOk(c) ==
  /\ clientCount # 0
  /\ Cardinality(DOMAIN clientList) = clientCount
  /\ c \in DOMAIN clientList

\* A Disconnect that forgets a subscribed client's subscription.
DisconnectKeepsSubscriberCount(c) ==
  LET newList == [d \in DOMAIN clientList \ {c} |-> clientList[d]]
  IN  /\ DisconnectOk(c)
      /\ clientList' = newList
      /\ clientCount' = clientCount - 1
      /\ Recalculate(newList)
      /\ UNCHANGED subscriberCount

Disconnect(c) ==
  LET newList == [d \in DOMAIN clientList \ {c} |-> clientList[d]]
  IN  /\ DisconnectOk(c)
      /\ clientList' = newList
      /\ subscriberCount' = IF clientList[c].fSubscribed
                            THEN subscriberCount - 1 ELSE subscriberCount
      /\ clientCount' = clientCount - 1
      /\ Recalculate(newList)

(***************************************************************************)
(* Subscribe / Unsubscribe (ClientManager.cpp:390-545).                    *)
(***************************************************************************)
SubscribeOk(c) == c \in DOMAIN clientList /\ ~clientList[c].fSubscribed

Subscribe(c) ==
  LET newList == [clientList EXCEPT ![c].fSubscribed = TRUE]
  IN  /\ SubscribeOk(c)
      /\ clientList' = newList
      /\ subscriberCount' = subscriberCount + 1
      /\ Recalculate(newList)
      /\ UNCHANGED clientCount

\* An Unsubscribe that does not check the client is subscribed.
UnsubscribeOkNoCheck(c) == c \in DOMAIN clientList

UnsubscribeOk(c) == c \in DOMAIN clientList /\ clientList[c].fSubscribed

Unsubscribe(c) ==
  LET newList == [clientList EXCEPT ![c].fSubscribed = FALSE]
  IN  /\ UnsubscribeOk(c)
      /\ clientList' = newList
      /\ subscriberCount' = subscriberCount - 1
      /\ Recalculate(newList)
      /\ UNCHANGED clientCount

(***************************************************************************)
(* SetDesiredReportInterval (ClientManager.cpp:1091-1162), reached from    *)
(* SetDesiredProperty (655-774) for SENSOR_PROPERTY_CURRENT_REPORT_INTERVAL.*)
(***************************************************************************)
SetDesiredReportIntervalOk(c, ri) ==
  /\ ri = 0 \/ ri >= MinSupportedReportInterval
  /\ c \in DOMAIN clientList

SetDesiredReportInterval(c, ri) ==
  LET newList == [clientList EXCEPT ![c].desiredReportInterval = ri]
  IN  /\ SetDesiredReportIntervalOk(c, ri)
      /\ clientList' = newList
      /\ Recalculate(newList)
      /\ UNCHANGED <<clientCount, subscriberCount>>

(***************************************************************************)
(* SetDesiredChangeSensitivity (ClientManager.cpp:905-1074), reached from  *)
(* SetDesiredProperty for SENSOR_PROPERTY_CHANGE_SENSITIVITY.  values maps *)
(* some fields to requested values; each is validated on its own (a       *)
(* negative VT_R8 is refused; a NaN passes the "< 0.0f" test), accepted    *)
(* ones are stored, refused ones only reported, then one recalculation.    *)
(***************************************************************************)
SensitivityAccepted(var) == var \in {NoValue, NaN} \/ var >= 0

SetDesiredChangeSensitivityOk(c) == c \in DOMAIN clientList

SetDesiredChangeSensitivity(c, values) ==
  LET old == clientList[c].desiredSensitivity
      new == [f \in Fields |->
                IF f \in DOMAIN values /\ SensitivityAccepted(values[f])
                THEN values[f] ELSE old[f]]
      newList == [clientList EXCEPT ![c].desiredSensitivity = new]
  IN  /\ SetDesiredChangeSensitivityOk(c)
      /\ clientList' = newList
      /\ Recalculate(newList)
      /\ UNCHANGED <<clientCount, subscriberCount>>

\* the per-field change-sensitivity batches a client may submit
SensitivityBatches ==
  UNION {[F -> SensitivityInputs] : F \in (SUBSET Fields) \ {{}}}

CMNext ==
  \E c \in Clients :
    \/ Connect(c)
    \/ Disconnect(c)
    \/ Subscribe(c)
    \/ Unsubscribe(c)
    \/ \E ri \in IntervalInputs : SetDesiredReportInterval(c, ri)
    \/ \E v \in SensitivityBatches : SetDesiredChangeSensitivity(c, v)

CMSpec == CMInit /\ [][CMNext]_cmVars

-----------------------------------------------------------------------------
(***************************************************************************)
(* Properties.                                                             *)
(***************************************************************************)

(* The counters kept beside the client map agree with it: m_ClientCount is *)
(* the number of entries and m_SubscriberCount the number of entries with  *)
(* fSubscribed, after any sequence of Connect, Disconnect (of subscribed   *)
(* and unsubscribed clients), Subscribe and Unsubscribe.  Connect and      *)
(* Disconnect refuse to run once they disagree.                            *)
CountsConsistent ==
  /\ clientCount = Cardinality(DOMAIN clientList)
  /\ subscriberCount = Cardinality({c \in DOMAIN clientList : clientList[c].fSubscribed})

\* the explicit report intervals clients currently hold
ExplicitIntervals ==
  {clientList[c].desiredReportInterval : c \in DOMAIN clientList} \ {CURRENT_REPORT_INTERVAL_NOT_SET}

\* the overrides clients currently hold for field f
Overrides(f) ==
  {clientList[c].desiredSensitivity[f] : c \in DOMAIN clientList} \ {NoValue}

SetMin(S) == CHOOSE m \in S : \A x \in S : m <= x

(* The arbitrated report interval is the least explicit interval any       *)
(* connected client holds, or the default when none holds one, and the    *)
(* explicit flag says whether one does (RecalculateProperties after every *)
(* mutation, including a Disconnect that removes the least).              *)
ArbitratedReportInterval ==
  /\ minReportInterval = IF ExplicitIntervals = {} THEN DefaultReportInterval
                         ELSE SetMin(ExplicitIntervals)
  /\ minReportIntervalExplicitlySet <=> ExplicitIntervals # {}

(* The arbitrated change sensitivity of each field is the least override  *)
(* any connected client holds for it, or the field's default when none    *)
(* does; a cleared override (VT_NULL) no longer counts.                    *)
ArbitratedSensitivity ==
  \A f \in Fields :
    minSensitivity[f] = IF Overrides(f) = {} THEN DefaultSensitivity[f]
                        ELSE SetMin(Overrides(f))

(* The arbitrated sensitivities do not depend on the order in which       *)
(* RecalculateProperties walks the client map (spec 4.2, "Determinism").  *)
ArbitrationOrderIndependent ==
  \A order \in MapOrders(clientList) :
    RecalculateProperties(clientList, order).minSensitivity = minSensitivity

(* Any client holding a non-zero report interval makes the interval       *)
(* explicit, and so puts the sensor in eventing mode (spec 4.2 step 3).   *)
ExplicitFlagTracksClients ==
  minReportIntervalExplicitlySet <=> ExplicitIntervals # {}
=============================================================================
