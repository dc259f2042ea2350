--------------------------- MODULE MCStepHistory ----------------------------
(* Instances of StepHistory for TLC. *)
EXTENDS StepHistory

CONSTANTS windup, hitpoint, command, buff

(* As the engine writes them: the command system resets Attack::windup in  *)
(* presteps and the attack advances it in steps; AttackCommand is set by a *)
(* state prelayer and retargeted in steps.                                 *)
EngineWrittenBy ==
  [s \in Slots |-> CASE s = windup   -> {PreSteps, Steps}
                     [] s = hitpoint -> {Steps}
                     [] s = command  -> {StatePre, Steps}
                     [] OTHER        -> {CompSteps}]

(* The same slots, each written from one list only. *)
SingleWrittenBy ==
  [s \in Slots |-> CASE s = windup   -> {PreSteps}
                     [] s = hitpoint -> {Steps}
                     [] s = command  -> {StatePre}
                     [] OTHER        -> {CompSteps}]
=============================================================================
