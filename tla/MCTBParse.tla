------------------------------ MODULE MCTBParse ------------------------------
(***************************************************************************)
(* Instances of TBParse for TLC.  Three byte values per parser suffice for *)
(* every branch: the first prefix byte, 1 (second prefix byte, a size, a   *)
(* letter) and the line feed (which is also a size, larger than the        *)
(* buffer).                                                                *)
(***************************************************************************)
EXTENDS TBParse

PeerBytes(k) == IF k = "standart" THEN {0, 1, 10} ELSE {254, 1, 10}
=============================================================================
