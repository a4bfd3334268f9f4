---------------------------- MODULE MC_CwMcuDecode ----------------------------
(***************************************************************************)
(* Instantiation of CwMcuDecode for TLC: the kind groups and the int16     *)
(* values each run decodes.  The values are the edges of the conversions:  *)
(* the int16 extremes, -1 and 0 around the sign change, and rotation      *)
(* components whose squares sum to just under, exactly and over 1.         *)
(***************************************************************************)
EXTENDS CwMcuDecode

\* Kinds whose payload packs two int16 fields into one 32-bit word.
WordKinds == {"CW_PRESSURE", "CW_STEP_COUNTER"}
WordVals == {-32768, -1, 0, 1, 32767}

\* Two rotation-vector kinds, decoded with CONVERT_10000.
RotationKinds == {"CW_ROTATIONVECTOR", "CW_GAME_ROTATION_VECTOR"}
RotationVals == {-7071, 0, 5000, 10000}

NoBias == {0}

=============================================================================
