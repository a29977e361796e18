------------------------------ MODULE MCHdcEmul ----------------------------
(* The limits of the generated ranges, and settings at, beyond and inside  *)
(* the limits that the sensor and the shell have.                          *)
EXTENDS HdcEmul

MCRaw         == {TEMP_RAW_3C, TEMP_RAW_5C, TEMP_RAW_7C, HUM_RAW_MIN, HUM_RAW_MAX}
MCSetTemp     == {-40, -1, 0, 30, 125, 126, 256}
MCSetHumidity == {-1, 0, 50, 100, 101}
============================================================================
