------------------------- MODULE MCAdaptiveRebuild -------------------------
(* Instances of AdaptiveRebuild for TLC: two widths, one of them below the *)
(* least that is sliced.                                                   *)
EXTENDS AdaptiveRebuild
TwoWidths == {3, 8}
SliceableWidths == {4, 8}
=============================================================================
