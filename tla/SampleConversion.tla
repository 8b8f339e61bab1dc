-------------------------- MODULE SampleConversion --------------------------
(***************************************************************************)
(* The conversion of a reading of the ADXL345's six data registers into  *)
(* the driver's acceleration data fields: CAccelerometerDevice::          *)
(* RequestData's decoding and scaling and AddDataFieldValue's range      *)
(* check.  The part runs in full resolution, right-justified, +-16 g      *)
(* (g_ConfigurationSettings), so a reading is a 13-bit signed count of   *)
(* 1/256 g, sign-extended into DATAx1:DATAx0, low byte first.             *)
(*                                                                         *)
(* The scale factor 1/256.0F is a power of two, so (DOUBLE)raw *           *)
(* scaleFactor is exact for every 16-bit raw; an acceleration is kept as *)
(* its exact value in units of 1/256 g, and the range limits of the      *)
(* header (not in the repository) are compared in the same units.        *)
(***************************************************************************)
EXTENDS Integers, Sequences

CONSTANTS
  MinAccelerationG,  \* ACCELEROMETER_MIN_ACCELERATION_G, in g
  MaxAccelerationG   \* ACCELEROMETER_MAX_ACCELERATION_G, in g

Axes == 1..3     \* X, Y, Z, in the order RequestData adds them

\* the counts the part reports at 13 bits
PartCounts == -4096..4095

\* The registers the part fills for a count: its 16-bit two's complement,
\* DATAx0 (low byte) first.  This is the reference the decoding inverts.
RegisterBytes(count) ==
  LET u == count % 65536 IN <<u % 256, u \div 256>>

\* (USHORT) in place of (SHORT): the raw value taken unsigned.
ToUShort(b) == (b[2] * 256 + b[1]) % 65536

\* xRaw = (SHORT)((m_pDataBuffer[1] << 8) | m_pDataBuffer[0]): the int
\* from the two bytes, truncated to 16 bits and read as two's complement
ToShort(b) ==
  LET u == (b[2] * 256 + b[1]) % 65536
  IN  IF u >= 32768 THEN u - 65536 ELSE u

\* AddDataFieldValue (AccelerometerDevice.cpp:2143-2190): an acceleration
\* below ACCELEROMETER_MIN_ACCELERATION_G or above ..._MAX_... is refused
\* with E_INVALIDARG; v in 1/256 g
AddDataFieldValueOk(v) ==
  MinAccelerationG * 256 <= v /\ v <= MaxAccelerationG * 256

\* RequestData after a successful register read (2440-2500): decode and
\* scale the three axes, then add X, Y and Z in turn, stopping at the first
\* refused value; the call fails and the sample is discarded with it
RECURSIVE AddFrom(_, _)
AddFrom(vals, i) ==
  IF i > Len(vals) THEN [ok |-> TRUE, added |-> <<>>]
  ELSE IF ~AddDataFieldValueOk(vals[i]) THEN [ok |-> FALSE, added |-> <<>>]
  ELSE LET rest == AddFrom(vals, i + 1)
       IN  [rest EXCEPT !.added = <<vals[i]>> \o @]

RequestDataValues(buf) ==
  AddFrom([a \in Axes |-> ToShort(buf[a])], 1)

(* Every reading the part can make in its configured mode is delivered  *)
(* whole and exact: decoding the registers gives back the part's count  *)
(* (negative counts included, through the (SHORT) sign), every axis     *)
(* passes AddDataFieldValue's range check, so RequestData neither fails *)
(* nor drops the other axes of a sample.                                 *)
ReadingsDelivered ==
  /\ \A c \in PartCounts : ToShort(RegisterBytes(c)) = c
  /\ \A c \in {-4096, -1, 0, 4095} :
       RequestDataValues([a \in Axes |-> RegisterBytes(c)])
         = [ok |-> TRUE, added |-> <<c, c, c>>]
=============================================================================
