--------------------------- MODULE MCSensorDevice ---------------------------
(***************************************************************************)
(* Model-checking instance of SensorDevice: two client files, one data    *)
(* field, one or two queue threads.  Report intervals 0 (use default), 5  *)
(* (below the minimum supported 10, refused) and 50 (accepted, below the  *)
(* default 100); change sensitivity 2 steps against a default of 1, or    *)
(* cleared, or 256 steps, past the byte range of THRESH_ACT.             *)
(***************************************************************************)
EXTENDS SensorDevice, TLC

CONSTANTS c1, c2, fX, t1, t2

MCClients == {c1, c2}
MCFields == {fX}
MCDefaultSensitivity == [f \in MCFields |-> 1]
MCIntervalInputs == {0, 5, 50}
MCSensitivityInputs == {NoValue, 2}
\* 256 steps (16 g at 62.5 mg per step), one past what THRESH_ACT holds
MCLargeSensitivityInputs == {NoValue, 256}
OneThread == {t1}
TwoThreads == {t1, t2}

MCSymmetry == Permutations(MCClients)
=============================================================================
