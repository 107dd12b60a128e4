----------------------------- MODULE MCSyncher -----------------------------
(* Three interfaces, the first of which is eth0.                            *)
EXTENDS Syncher
CONSTANTS e1
OneEth0 == {e1}
=============================================================================
