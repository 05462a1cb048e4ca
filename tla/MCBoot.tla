------------------------------- MODULE MCBoot -------------------------------
(* Instances of Boot for TLC.                                              *)
EXTENDS Boot

CONSTANTS c0, c1, kernel_thread, esc, key

MCCore == {c0, c1}
MCTask == {kernel_thread, Console}
MCHandler == (MCCore \cup Task) \X (1..MaxNest)
MCByte == {esc, key}
=============================================================================
