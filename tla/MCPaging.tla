------------------------------ MODULE MCPaging ------------------------------
(* Instances of Paging for TLC.                                            *)
EXTENDS Paging
CONSTANT rd
MCFlags == {rd}
=============================================================================
