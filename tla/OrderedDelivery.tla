--------------------------- MODULE OrderedDelivery ---------------------------
(***************************************************************************)
(* What a block ack agreement promises to the layer above the recipient:   *)
(* the MSDUs it gets are among those that were given a sequence number,    *)
(* they come in the order of their numbers, and none comes twice.  Some    *)
(* may be missing, for the originator may give a frame up.                 *)
(***************************************************************************)
EXTENDS Naturals, Sequences

VARIABLES
  numbered,  \* how many MSDUs have been given a number, from 0
  delivered  \* those passed up, the latest of them in their order

Increasing(s) == \A i, j \in DOMAIN s : i < j => s[i] < s[j]

Init == numbered = 0 /\ delivered = <<>>

Number ==
  /\ numbered' \in Nat /\ numbered' > numbered
  /\ UNCHANGED delivered

Latest(s) == s[Len(s)]

(* One or more MSDUs are passed up together, after those before.           *)
Deliver ==
  \E n \in 1 .. Len(delivered') :
    LET before == Len(delivered') - n
    IN  /\ before =< Len(delivered)
        /\ SubSeq(delivered', 1, before)
             = SubSeq(delivered, Len(delivered) - before + 1, Len(delivered))
        /\ delivered # <<>> => Latest(delivered) < delivered'[before + 1]
        /\ Increasing(delivered')
        /\ Latest(delivered') < numbered
        /\ UNCHANGED numbered

Spec == Init /\ [][Number \/ Deliver]_<<numbered, delivered>>
=============================================================================
