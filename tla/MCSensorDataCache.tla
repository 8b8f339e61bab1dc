------------------------- MODULE MCSensorDataCache -------------------------
(***************************************************************************)
(* Model-checking instance of SensorDataCache: one queue thread and the   *)
(* work item, so that a poll, a data arrival and a report can overlap; a *)
(* short and a long report interval, as for the report manager alone; and *)
(* two reads of the part, enough for both writers to store a read of    *)
(* their own while the cache still holds the other.                       *)
(***************************************************************************)
EXTENDS SensorDataCache

CONSTANTS t1, wi

MCThreads == {t1}
MCIntervals == {1, 3}
MCMaxElapsed == 3
MCMaxSamples == 2
\* a third read, so that a data arrival can bring a report after both
\* writers' SetState
MCMaxSamplesThree == 3

\* The register reads the cache is filled from: RequestData's decoding and
\* range check (SampleConversion), with the +-16 g the part is configured
\* for as ACCELEROMETER_MIN/MAX_ACCELERATION_G, whose header is not in the
\* repository.
SC == INSTANCE SampleConversion WITH MinAccelerationG <- -16,
                                     MaxAccelerationG <- 16

(* Every read of the data registers reaches the cache whole and exact: *)
(* once RequestData has read the part, the (SHORT) decoding gives back  *)
(* any count the configured part can write, and AddDataFieldValue       *)
(* refuses no axis, so no read fails (SampleConversion).                 *)
ReadingsDelivered == hwSample > 0 => SC!ReadingsDelivered
=============================================================================
