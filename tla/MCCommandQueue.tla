--------------------------- MODULE MCCommandQueue ---------------------------
(* Instances of CommandQueue for TLC: two moves and an attack, the attack  *)
(* being what idle units queue by themselves.                              *)
EXTENDS CommandQueue

CONSTANTS move1, move2, attack, moving, attacking

CommandKind == [c \in {move1, move2, attack, NoOp} |->
                  CASE c \in {move1, move2} -> moving
                    [] c = attack           -> attacking
                    [] OTHER                -> NoOp]
Restricted == [c \in Variant |-> CommandKind[c]]
=============================================================================
