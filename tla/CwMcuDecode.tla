----------------------------- MODULE CwMcuDecode -----------------------------
(***************************************************************************)
(* The payload side of processEvent(), indexToValue() and                  *)
(* calculate_rv_4th_element() in CwMcuSensor.cpp, with the pending-sample  *)
(* table mPendingEvents they write and readEvents()' copy of a slot into   *)
(* the caller's data[] array.  The enable gate, the count budget and the   *)
(* protocol-internal tags are modelled in CwMcuSensor; here every decoded  *)
(* kind is enabled and one record is handled per step.                     *)
(*                                                                         *)
(* A record carries its 16-bit fields data[0..2] and bias[0..2] as the     *)
(* int16 values memcpy() leaves in them.  A float field is kept exactly as *)
(* a fraction v/per (the int16 and the divisor of its CONVERT_* factor);   *)
(* sqrt() is the integer square root in units of 1e-4, so float rounding   *)
(* is abstracted.  Wide unsigned values are kept as their halves, since    *)
(* TLC's integers are 32-bit.  A member of the table the constructor never *)
(* initialises holds Indeterminate, standing for any value the heap held.  *)
(***************************************************************************)
EXTENDS Integers, CwMcuTables

CONSTANTS
    DecodeKinds,   \* the sensor kinds whose records the firmware sends
    Int16Vals,     \* values a data[] field of a record takes
    BiasVals,      \* values a bias[] field of a record takes
    Indeterminate  \* contents of a member that was never written

ASSUME
    /\ DecodeKinds \subseteq SensorKinds
    /\ Int16Vals \subseteq -32768..32767 /\ BiasVals \subseteq -32768..32767

\* Scale factors CONVERT_10, CONVERT_100 and CONVERT_10000 as divisors.
CONVERT_10 == 10
CONVERT_100 == 100
CONVERT_10000 == 10000

\* The float v / per.
Fixed(v, per) == [v |-> v, per |-> per]

TenthKinds == {"CW_ORIENTATION"}
HundredthKinds == {"CW_ACCELERATION", "CW_MAGNETIC", "CW_GYRO",
                   "CW_LINEARACCELERATION", "CW_GRAVITY"}
RvKinds == {"CW_ROTATIONVECTOR", "CW_GAME_ROTATION_VECTOR",
            "CW_GEOMAGNETIC_ROTATION_VECTOR"}
UncalKinds == {"CW_MAGNETIC_UNCALIBRATED", "CW_GYROSCOPE_UNCALIBRATED"}

Fields == 0..5
Raw == [tag : DecodeKinds, data : [0..2 -> Int16Vals], bias : [0..2 -> BiasVals]]
Uint32 == [hi : 0..65535, lo : 0..65535]
Slot == [data : [Fields -> [v : Int, per : Nat \ {0}] \cup {Indeterminate}],
         u64 : [hi : Int, lo : Int] \cup {Indeterminate}]
NoEvent == [kind |-> "none"]

-----------------------------------------------------------------------------
(* Integer conversions of the target (little-endian, 32-bit int, 64-bit    *)
(* size_t).  A uint32 is [hi, lo]; a size_t made from an int16 is          *)
(* [wrap, v], the number wrap * 2^64 + v.                                  *)

\* The bit pattern of an int16 read as uint16.
U16(v) == v % 65536

\* Mutant: the step count read through an int32_t pointer (the high half
\* keeps its sign).
Uint32At0Signed(d) == [hi |-> d[1], lo |-> U16(d[0])]

\* *(uint32_t *)&data[0]: data[0] is the low half, data[1] the high half.
Uint32At0(d) == [hi |-> U16(d[1]), lo |-> U16(d[0])]

\* Mutant: the halves taken in big-endian order.
Int32At0Swapped(d) ==
    LET hi == U16(d[0])
    IN (IF hi >= 32768 THEN hi - 65536 ELSE hi) * 65536 + U16(d[1])

\* *(int32_t *)&data[0]: the uint32 read with its top bit as the sign.
Int32At0(d) ==
    LET u == Uint32At0(d)
    IN (IF u.hi >= 32768 THEN u.hi - 65536 ELSE u.hi) * 65536 + u.lo

\* An int16 passed as size_t: converted modulo 2^64.
SizeT(v) == IF v < 0 THEN [wrap |-> 1, v |-> v] ELSE [wrap |-> 0, v |-> v]

-----------------------------------------------------------------------------
(* indexToValue() and calculate_rv_4th_element()                           *)

LIGHTSENSOR_LEVEL == 10
luxValues == <<0, 10, 40, 90, 160, 225, 320, 640, 1280, 2600>>

\* indexToValue(index): the lux table, clamped at maxIndex.
IndexToValue(index) ==
    LET maxIndex == LIGHTSENSOR_LEVEL - 1
        over == index.wrap = 1 \/ index.v > maxIndex
    IN Fixed(luxValues[(IF over THEN maxIndex ELSE index.v) + 1], 1)

\* Largest w in lo..hi with w*w <= r (sqrt() rounded down), by bisection.
RECURSIVE SqrtSearch(_, _, _)
SqrtSearch(r, lo, hi) ==
    IF lo >= hi THEN lo
    ELSE LET mid == (lo + hi + 1) \div 2
         IN IF mid * mid <= r THEN SqrtSearch(r, mid, hi)
                              ELSE SqrtSearch(r, lo, mid - 1)

\* sqrt of a radicand below 1 (r < UNIT^2), in units of 1/UNIT.
UNIT == CONVERT_10000
ISqrt(r) == SqrtSearch(r, 0, UNIT)

\* Mutant: q3*q3 left out of the radicand.
CalculateRv4thElementNoQ3(slot, sensorsId) ==
    IF sensorsId \notin RvKinds THEN slot
    ELSE LET q == [i \in 0..2 |-> slot.data[i].v]
             q0 == UNIT * UNIT - q[0] * q[0] - q[1] * q[1]
         IN [slot EXCEPT !.data[3] = Fixed(IF q0 > 0 THEN ISqrt(q0) ELSE 0, UNIT)]

\* q0 = 1 - q1^2 - q2^2 - q3^2 in 1e-8 units; data[3] = sqrt(q0) or 0.
CalculateRv4thElement(slot, sensorsId) ==
    IF sensorsId \notin RvKinds THEN slot
    ELSE LET q == [i \in 0..2 |-> slot.data[i].v]
             q0 == UNIT * UNIT - q[0] * q[0] - q[1] * q[1] - q[2] * q[2]
         IN [slot EXCEPT !.data[3] = Fixed(IF q0 > 0 THEN ISqrt(q0) ELSE 0, UNIT)]

-----------------------------------------------------------------------------
(* processEvent(): the sample cases of the switch                          *)

\* (float)data[i] * CONVERT_x for i = 0..2.
Scaled(d, per) == [i \in 0..2 |-> Fixed(d[i], per)]

\* Overwrite data[i] for i in the domain of f.
SetData(slot, f) == [slot EXCEPT !.data = [i \in Fields |->
                                              IF i \in DOMAIN f THEN f[i] ELSE @[i]]]

\* The light case: indexToValue(data[0]) with the int16 taken as size_t.
LightValue(d0) == IndexToValue(SizeT(d0))

\* The new table after processEvent() of a sample record of kind k.
ProcessEventPayload(tbl, rec) ==
    LET k == rec.tag
        d == rec.data
        b == rec.bias
    IN CASE k \in TenthKinds -> [tbl EXCEPT ![k] = SetData(@, Scaled(d, CONVERT_10))]
         [] k \in HundredthKinds -> [tbl EXCEPT ![k] = SetData(@, Scaled(d, CONVERT_100))]
         [] k = "CW_PRESSURE" ->
              [tbl EXCEPT ![k] = SetData(@, (0 :> Fixed(Int32At0(d), CONVERT_100))
                                             @@ (2 :> Fixed(d[2], CONVERT_100)))]
         [] k \in RvKinds -> [tbl EXCEPT ![k] = SetData(@, Scaled(d, CONVERT_10000))]
         [] k \in UncalKinds ->
              [tbl EXCEPT ![k] = SetData(@, [i \in Fields |->
                                  IF i < 3 THEN Fixed(d[i], CONVERT_100)
                                           ELSE Fixed(b[i - 3], CONVERT_100)])]
         [] k = CW_SIGNIFICANT_MOTION -> [tbl EXCEPT ![k] = SetData(@, Scaled(d, 1))]
         [] k = "CW_LIGHT" -> [tbl EXCEPT ![k] = SetData(@, 0 :> LightValue(d[0]))]
         [] k = "CW_STEP_DETECTOR" ->
              IF "CW_STEP_COUNTER" \in DOMAIN tbl
              THEN [tbl EXCEPT !["CW_STEP_COUNTER"] = SetData(@, 0 :> Fixed(d[0], 1))]
              ELSE tbl
         [] k = "CW_STEP_COUNTER" -> [tbl EXCEPT ![k].u64 = Uint32At0(d)]
         [] k = "HTC_WAKE_UP_GESTURE" -> [tbl EXCEPT ![k] = SetData(@, 0 :> Fixed(1, 1))]

-----------------------------------------------------------------------------

VARIABLES
    pending,   \* mPendingEvents, restricted to DecodeKinds
    mask,      \* mPendingMask
    last,      \* the record decoded last
    ev         \* the event readEvents() copied out for it

vars == <<pending, mask, last, ev>>

\* The constructor: light and pressure data are memset to 0; every other
\* data member is left uninitialised.
InitSlot(k) ==
    [data |-> [i \in Fields |->
                 IF k \in {"CW_LIGHT", "CW_PRESSURE"} THEN Fixed(0, 1)
                                                      ELSE Indeterminate],
     u64 |-> Indeterminate]

Init ==
    /\ pending = [k \in DecodeKinds |-> InitSlot(k)]
    /\ mask = {}
    /\ last = NoEvent
    /\ ev = NoEvent

\* One iteration of readEvents()' loop on a sample record of an enabled
\* kind: processEvent(), calculate_rv_4th_element(), *data++ = slot.
DecodeRecord(rec) ==
    LET k == rec.tag
        tbl == ProcessEventPayload(pending, rec)
        slot == CalculateRv4thElement(tbl[k], k)
    IN /\ pending' = [tbl EXCEPT ![k] = slot]
       /\ mask' = mask \cup {k}
       /\ last' = rec
       /\ ev' = [kind |-> k, data |-> slot.data, u64 |-> slot.u64]

Next == \E rec \in Raw : DecodeRecord(rec)

Spec == Init /\ [][Next]_vars

-----------------------------------------------------------------------------
(* Properties                                                              *)

TypeOK ==
    /\ pending \in [DecodeKinds -> Slot]
    /\ mask \subseteq DecodeKinds
    /\ \A k \in DecodeKinds : pending[k].u64 \in Uint32 \cup {Indeterminate}

\* A pressure event carries data[0..1] read as one little-endian 32-bit
\* signed integer (hi * 65536 + the unsigned low half) times 0.01, the
\* reinterpretation processEvent() does with *(int32_t *)&data[0].
PressureMatchesReference ==
    ev.kind = "CW_PRESSURE" =>
        ev.data[0] = Fixed(last.data[1] * 65536 + (last.data[0] % 65536), CONVERT_100)

\* calculate_rv_4th_element() completes the rotation vector to a unit
\* quaternion: w is the largest value (to 1e-4) with x^2+y^2+z^2+w^2 <= 1,
\* and 0 when the vector part alone reaches or exceeds length 1.
RotationVectorUnitQuaternion ==
    ev.kind \in RvKinds /\ ev.data[3] # Indeterminate =>
        LET s == ev.data[0].v^2 + ev.data[1].v^2 + ev.data[2].v^2
            w == ev.data[3].v
        IN IF s >= UNIT * UNIT THEN w = 0
           ELSE /\ w >= 0 /\ s + w * w <= UNIT * UNIT
                /\ s + (w + 1) * (w + 1) > UNIT * UNIT

=============================================================================
