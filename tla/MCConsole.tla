----------------------------- MODULE MCConsole -----------------------------
(* Instances of Console for TLC.                                           *)
EXTENDS Console
CONSTANTS MaxNameLen
MCChar == {"a"}
MCDel  == "del"
MCLine == SeqOf(MCChar \cup {MCDel}, LineMax - 1)
MCName == SeqOf(MCChar, MaxNameLen) \ {<<>>}
=============================================================================
