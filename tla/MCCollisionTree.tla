-------------------------- MODULE MCCollisionTree --------------------------
(***************************************************************************)
(* Two units that walk over a few spots and two buildings.  The spots are  *)
(* chosen so that a unit stays in its box, leaves it in part, or crosses   *)
(* the field.                                                              *)
(***************************************************************************)
EXTENDS CollisionTree

MCSpotsOf == << {<<0, 0>>, <<1, 1>>, <<6, 2>>},
                {<<2, 0>>, <<5, 0>>},
                {<<8, 0>>},
                {<<7, 6>>} >>
MCRay == <<1, 1, 2, 1>>
=============================================================================
