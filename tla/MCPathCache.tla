----------------------------- MODULE MCPathCache -----------------------------
(* Instances of PathCache for TLC: a wide grid and a small one. *)
EXTENDS PathCache

(* Three rows of five tiles, of which the first is built on, so that no way *)
(* leads past the end of a row: a block in the middle, and a wall to which  *)
(* it grows, with a gap at the bottom.                                      *)
Inside == {t \in Tiles : Column(t) # 0}
Blocks == {Inside \ {7}, Inside \ {2, 7}}

(* From both sides of the block to what lies behind it, back, and from      *)
(* where a unit is.                                                         *)
AskedAround == [orig : {1, 6, 11}, dest : {8}] \union {[orig |-> 14, dest |-> 6],
                                                    [orig |-> 6, dest |-> 6]}

(* Three rows of three tiles: a wall with a gap at the bottom, and at the   *)
(* top, and ways around it.                                                 *)
Walls == {Tiles \ {1, 4}, Tiles \ {4, 7}}
AskedAcross == [orig : {0, 3, 6}, dest : {2}]
=============================================================================
