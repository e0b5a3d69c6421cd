---------------------------- MODULE MCScanQueue -----------------------------
(***************************************************************************)
(* Instance of ScanQueue for TLC: two pods of one worker each compete for  *)
(* the job of one image.                                                   *)
(***************************************************************************)
EXTENDS ScanQueue, TLC

CONSTANTS s1, s2, d1, d2, p1, p2, w1, w2

OneImage  == {<<s1, d1>>}
OnePerPod == w1 :> p1 @@ w2 :> p2
=============================================================================
