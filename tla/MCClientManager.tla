--------------------------- MODULE MCClientManager ---------------------------
(***************************************************************************)
(* Model-checking instance of ClientManager: three client files, one data  *)
(* field.  Intervals keep their order relative to the minimum supported   *)
(* interval (10), the default (100) and ULONG_MAX; sensitivities are in    *)
(* resolution steps around the default of 1.                               *)
(***************************************************************************)
EXTENDS ClientManager, TLC

CONSTANTS c1, c2, c3, fX

MCClients == {c1, c2, c3}
MCFields == {fX}
MCDefaultSensitivity == [f \in MCFields |-> 1]
\* a value below the minimum supported interval is refused
MCIntervalInputs == {0, 5, 10, 50}
\* ULONG_MAX is a legal, accepted report interval
MCIntervalInputsMax == {0, 50, ULONG_MAX}
MCSensitivityInputs == {NoValue, 0, 2, -1}
MCSensitivityInputsNaN == {NoValue, 0, NaN}

MCSymmetry == Permutations(MCClients)

Spec == CMSpec
=============================================================================
