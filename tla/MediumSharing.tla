---------------------------- MODULE MediumSharing ----------------------------
(***************************************************************************)
(* What dynamic time multiplexing promises: the medium belongs to Wi-Fi,   *)
(* then to nobody, then to LAA, in turn, and a QoS data exchange of the    *)
(* access point (the PPDU and its answer) takes place within one turn of   *)
(* Wi-Fi.  It starts while the medium belongs to Wi-Fi, and the turn does  *)
(* not end before the exchange does.                                       *)
(***************************************************************************)
VARIABLES owner, exchange

sharingVars == <<owner, exchange>>

Init == owner = "wifi" /\ exchange = FALSE

Start  == owner = "wifi" /\ ~exchange /\ exchange' = TRUE  /\ UNCHANGED owner
Finish == exchange /\ exchange' = FALSE /\ UNCHANGED owner

WifiGivesUp == owner = "wifi" /\ ~exchange /\ owner' = "gap" /\ UNCHANGED exchange
LaaTakes    == owner = "gap" /\ owner' = "laa" /\ UNCHANGED exchange
WifiTakes   == owner = "laa" /\ owner' = "wifi" /\ UNCHANGED exchange

Next == Start \/ Finish \/ WifiGivesUp \/ LaaTakes \/ WifiTakes

Spec == Init /\ [][Next]_sharingVars
==============================================================================
