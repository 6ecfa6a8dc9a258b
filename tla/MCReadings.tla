----------------------------- MODULE MCReadings -----------------------------
(***************************************************************************)
(* An instance of Readings for TLC.  The numbers lie at both sides of the  *)
(* borders of nibbles, bytes and fields.                                   *)
(***************************************************************************)
EXTENDS Readings

Speeds       == {0, 15, 16, 4080}
Temperatures == {-4095, -1, 0, 256}

MCMeasurements ==
    [type : {msgTypeTempHumidity}, channel : {0, 1, 3, 4},
     temperature : Temperatures, dewPoint : {-1, 257}, humidity : {98}]
    \union
    [type : {msgTypeWind}, average : Speeds, gust : Speeds, direction : {0, 13}]
    \union
    [type : {msgTypeAirPressure}, absolute : {1013}, relative : {0, 255, 1013, 4095}]
    \union
    [type : {msgTypeUV}, level : {0, 11}]
    \union
    [type : {msgTypeDateTime}]
=============================================================================
