------------------------------- MODULE MCTxop -------------------------------
(* Model values and symmetry for the runs of QosTxopAccess.                *)
EXTENDS QosTxopAccess, TLC

CONSTANTS m1, m2, m3, g1

MCMsdus == {m1, m2}
MCThreeMsdus == {m1, m2, m3}
MCGroup == {g1}
MCNoGroup == {}
MCSymmetry == Permutations(Msdus)
=============================================================================
