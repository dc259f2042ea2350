---------------------------- MODULE BatchBarrier ----------------------------
(***************************************************************************)
(* What enqueue_and_wait promises to dispatch_apply and dispatch_revert:   *)
(* the containers of a layer are taken one after the other, all the jobs   *)
(* of a container run, each of them once, in any order, and the next       *)
(* container is begun only when they all have run.                         *)
(***************************************************************************)
EXTENDS Naturals

CONSTANTS Jobs,      \* the jobs of a container
          Rounds     \* how many containers there are

VARIABLES round,     \* the container being processed; Rounds + 1 in the end
          ran        \* its jobs that have run

Init == round = 1 /\ ran = {}

Run == \E j \in Jobs \ ran : ran' = ran \union {j} /\ UNCHANGED round

NextRound == ran = Jobs /\ round <= Rounds /\ round' = round + 1 /\ ran' = {}

Next == round <= Rounds /\ (Run \/ NextRound)

Spec == Init /\ [][Next]_<<round, ran>> /\ WF_<<round, ran>>(Next)
=============================================================================
