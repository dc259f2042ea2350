SPECIFICATION Spec
CONSTANTS
  move1 = move1
  move2 = move2
  attack = attack
  moving = moving
  attacking = attacking
  NoOp = NoOp
  None = None
  Units = {u1}
  Commands = {move1, attack}
  Kinds = {moving, attacking}
  KindOf <- Restricted
  AutoCommands = {attack}
  Kept = 2
  MaxQueue = 2
  MaxFrames = 0
INVARIANTS StateMirrorsQueue CleanedUpBeforeNext OrdersObeyed
PROPERTY RewindRestores
