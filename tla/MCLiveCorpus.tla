---------------------------- MODULE MCLiveCorpus ----------------------------
(***************************************************************************)
(* Small instances of LiveCorpus.                                          *)
(***************************************************************************)
EXTENDS LiveCorpus, TLC

CONSTANTS e1, e2, n1, s1, m1, m2

OneAndTwo == {[d \in Doc |-> d]}
TwoModels == e1 :> m1 @@ e2 :> m2
=============================================================================
