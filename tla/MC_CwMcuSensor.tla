---------------------------- MODULE MC_CwMcuSensor ----------------------------
(***************************************************************************)
(* Instantiation of CwMcuSensor for TLC.  The cfg files pick one of the    *)
(* handle sets and fault sets below; thread identities are model values.   *)
(***************************************************************************)
EXTENDS CwMcuSensor

\* Two continuous sensors: the startup sensor and one the framework adds.
ContinuousHandles == {"ID_A", "ID_GY"}

\* A continuous sensor and the one-shot significant-motion sensor.
OneShotHandles == {"ID_A", ID_CW_SIGNIFICANT_MOTION}

\* The significant-motion sensor alone.
MotionHandles == {ID_CW_SIGNIFICANT_MOTION}

\* Handle 0, enabled by the constructor, is the accelerometer.
MCStartupHandle == "ID_A"

NoFaults == {}
ControlFaults == {"enable", "flush", "batch_enable"}
EnableFaults == {"enable"}
WriteFaults == {"flush", "batch_enable"}
SetupFaults == {"enable", "batch_enable"}

=============================================================================
