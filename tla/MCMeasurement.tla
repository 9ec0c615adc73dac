--------------------------- MODULE MCMeasurement ---------------------------
(* Values for TLC: one Sensor Unit with a sensor, and a supply channel.  *)
EXTENDS Measurement

MCChannels == <<<<"plus_5", 1, 0>>>>
============================================================================
