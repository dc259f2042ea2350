------------------------------ MODULE Timeline ------------------------------
(***************************************************************************)
(* What the step history promises to whoever drives the simulation: the    *)
(* worlds at the boundaries between frames form a line, playing a frame    *)
(* adds one world at its end, rewinding n frames makes the world n places  *)
(* back the current one, and retention may forget the oldest ones.         *)
(***************************************************************************)
EXTENDS Naturals, Sequences

CONSTANTS Worlds,     \* every valuation the world can have
          MaxRevert   \* the largest number of frames rewound at once

VARIABLE past         \* the remembered worlds, oldest first, current one last

Init == \E w \in Worlds : past = <<w, w>>

(* A frame is played and leaves some world behind it. *)
Tick == \E w \in Worlds : past' = Append(past, w)

(* The oldest world falls out of the retention window. *)
Forget == past # << >> /\ past' = Tail(past)

(* The last n frames are undone; at most as many as are remembered. *)
Rewind == \E n \in 1..MaxRevert :
             past' = SubSeq(past, 1, IF Len(past) > n THEN Len(past) - n ELSE 1)

Next == Tick \/ Forget \/ Rewind

Spec == Init /\ [][Next]_past
=============================================================================
