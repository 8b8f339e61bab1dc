-------------------------- MODULE MCSensorEventing --------------------------
(***************************************************************************)
(* Model-checking instance of SensorEventing: one client, one queue       *)
(* thread (D0Entry and D0Exit run only when the queue is drained, so a    *)
(* second thread adds nothing to them), one data field.  Report intervals *)
(* are in ticks: the default is 1 and a client may set 1 explicitly,     *)
(* which by itself selects Eventing; ULONG_MAX, the saturation point of  *)
(* the tick count, is 2.  Sensitivities keep their default: the         *)
(* threshold plays no part in the event path.                            *)
(***************************************************************************)
EXTENDS SensorEventing

CONSTANTS c1, fX, t1

MCClients == {c1}
MCFields == {fX}
MCDefaultSensitivity == [f \in MCFields |-> 1]
MCIntervalInputs == {1}
MCSensitivityInputs == {NoValue}
OneThread == {t1}
=============================================================================
