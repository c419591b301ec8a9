SPECIFICATION Spec
CONSTANTS Player = {a, b} MapSize = 1 InitHP = 1 AttackDmg = 1 HealAmt = 1 MaxPotions = 1 AttackRange = 1 MaxCommands = 2 Early = {} Prompt = FALSE
INVARIANT NoPanic
CHECK_DEADLOCK FALSE
