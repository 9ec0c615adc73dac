---------------------------- MODULE MCRegisters -----------------------------
(* Values for TLC: two channels with a level, and one test of each kind of *)
(* channel.                                                                *)
EXTENDS Registers

MCTriggerChannels == <<"PLASMA_1_MINUS", "PZT_1_2">>
MCChannelTests == <<"PLASMA_1_MINUS", "PZT_1">>
============================================================================
