----------------------------- MODULE CwMcuTables -----------------------------
(***************************************************************************)
(* The sensor-kind and handle tables of CwMcuSensor.cpp.                   *)
(*                                                                         *)
(* A sensor kind (the firmware's CW_* tag, byte 0 of a record) and a       *)
(* handle (the framework's ID_* number) are kept symbolic: the numbers     *)
(* live in CwMcuSensor.h, which is not part of the sources, and no         *)
(* property depends on them, only on which kind maps to which handle.      *)
(* find_handle and find_sensor are two independent switch statements in   *)
(* the code and are translated separately, not one as the inverse of the  *)
(* other.                                                                  *)
(***************************************************************************)
EXTENDS TLC

\* The seventeen physical and virtual sensor kinds the firmware reports.
SensorKinds ==
    { "CW_ACCELERATION", "CW_MAGNETIC", "CW_GYRO", "CW_LIGHT", "CW_PRESSURE",
      "CW_ORIENTATION", "CW_ROTATIONVECTOR", "CW_LINEARACCELERATION",
      "CW_GRAVITY", "CW_MAGNETIC_UNCALIBRATED", "CW_GYROSCOPE_UNCALIBRATED",
      "CW_GAME_ROTATION_VECTOR", "CW_GEOMAGNETIC_ROTATION_VECTOR",
      "CW_SIGNIFICANT_MOTION", "CW_STEP_DETECTOR", "CW_STEP_COUNTER",
      "HTC_WAKE_UP_GESTURE" }

\* Protocol-internal record tags: flush complete, sync ack, clock exhausted.
CW_META_DATA == "CW_META_DATA"
CW_SYNC_ACK == "CW_SYNC_ACK"
TIME_DIFF_EXHAUSTED == "TIME_DIFF_EXHAUSTED"
PseudoKinds == { CW_META_DATA, CW_SYNC_ACK, TIME_DIFF_EXHAUSTED }

CW_SIGNIFICANT_MOTION == "CW_SIGNIFICANT_MOTION"
ID_CW_SIGNIFICANT_MOTION == "ID_CW_SIGNIFICANT_MOTION"

\* find_handle's default result (0xFF) and find_sensor's (-1).
NoHandle == "0xFF"
NoSensor == "-1"

\* The cases of find_handle's switch: kind -> framework handle.
FindHandleCases ==
       ("CW_ACCELERATION" :> "ID_A")
    @@ ("CW_MAGNETIC" :> "ID_M")
    @@ ("CW_GYRO" :> "ID_GY")
    @@ ("CW_PRESSURE" :> "ID_PS")
    @@ ("CW_ORIENTATION" :> "ID_O")
    @@ ("CW_ROTATIONVECTOR" :> "ID_RV")
    @@ ("CW_LINEARACCELERATION" :> "ID_LA")
    @@ ("CW_GRAVITY" :> "ID_G")
    @@ ("CW_MAGNETIC_UNCALIBRATED" :> "ID_CW_MAGNETIC_UNCALIBRATED")
    @@ ("CW_GYROSCOPE_UNCALIBRATED" :> "ID_CW_GYROSCOPE_UNCALIBRATED")
    @@ ("CW_GAME_ROTATION_VECTOR" :> "ID_CW_GAME_ROTATION_VECTOR")
    @@ ("CW_GEOMAGNETIC_ROTATION_VECTOR" :> "ID_CW_GEOMAGNETIC_ROTATION_VECTOR")
    @@ ("CW_LIGHT" :> "ID_L")
    @@ ("CW_STEP_DETECTOR" :> "ID_CW_STEP_DETECTOR")
    @@ ("CW_STEP_COUNTER" :> "ID_CW_STEP_COUNTER")
    @@ ("HTC_WAKE_UP_GESTURE" :> "ID_WAKE_UP_GESTURE")

FindHandle(sensorsId) ==
    IF sensorsId \in DOMAIN FindHandleCases
    THEN FindHandleCases[sensorsId] ELSE NoHandle

\* The cases of find_sensor's switch: framework handle -> kind.
FindSensorCases ==
       ("ID_A" :> "CW_ACCELERATION")
    @@ ("ID_M" :> "CW_MAGNETIC")
    @@ ("ID_GY" :> "CW_GYRO")
    @@ ("ID_PS" :> "CW_PRESSURE")
    @@ ("ID_O" :> "CW_ORIENTATION")
    @@ ("ID_RV" :> "CW_ROTATIONVECTOR")
    @@ ("ID_LA" :> "CW_LINEARACCELERATION")
    @@ ("ID_G" :> "CW_GRAVITY")
    @@ ("ID_CW_MAGNETIC_UNCALIBRATED" :> "CW_MAGNETIC_UNCALIBRATED")
    @@ ("ID_CW_GYROSCOPE_UNCALIBRATED" :> "CW_GYROSCOPE_UNCALIBRATED")
    @@ ("ID_CW_GAME_ROTATION_VECTOR" :> "CW_GAME_ROTATION_VECTOR")
    @@ ("ID_CW_GEOMAGNETIC_ROTATION_VECTOR" :> "CW_GEOMAGNETIC_ROTATION_VECTOR")
    @@ ("ID_CW_SIGNIFICANT_MOTION" :> "CW_SIGNIFICANT_MOTION")
    @@ ("ID_CW_STEP_DETECTOR" :> "CW_STEP_DETECTOR")
    @@ ("ID_CW_STEP_COUNTER" :> "CW_STEP_COUNTER")
    @@ ("ID_L" :> "CW_LIGHT")
    @@ ("ID_WAKE_UP_GESTURE" :> "HTC_WAKE_UP_GESTURE")

FindSensor(handle) ==
    IF handle \in DOMAIN FindSensorCases
    THEN FindSensorCases[handle] ELSE NoSensor

\* The handles the framework can address (the ones find_sensor accepts).
AllHandles == DOMAIN FindSensorCases

=============================================================================
