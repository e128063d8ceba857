--------------------------- MODULE MCQueueSystem ---------------------------
(* Two action intents of different priority in one queue, a standalone      *)
(* ability that waits for its window, and a manual ultimate; an entry of the *)
(* low intent is retargeted to u2 while u2 can be targeted.                  *)
EXTENDS QueueSystem, TLC

CONSTANTS low, high, late, ult, u1, u2

MCIntents == {low, high, late, ult}
MCQueues == {Manual, "turn_insert_action", "turn_insert_ability"}
MCUnits == {u1, u2}
MCWindows == {"turn", "action"}
MCHome == (low :> "turn_insert_action") @@ (high :> "turn_insert_action")
  @@ (late :> "turn_insert_ability") @@ (ult :> Manual)
MCFamily == (low :> "insert_action") @@ (high :> "insert_action")
  @@ (late :> "follow_up") @@ (ult :> "ultimate")
MCPriority == (low :> 5) @@ (high :> 1) @@ (late :> 3) @@ (ult :> 0)
MCKind == (low :> "action_definition") @@ (high :> "action_definition")
  @@ (late :> "standalone_ability_graph")
  @@ (ult :> "action_definition")
MCWaitFor == [i \in MCIntents |-> IF i = late THEN {"action"} ELSE {}]
MCValidIn == [i \in MCIntents |-> IF i = late THEN {"action"} ELSE {}]
MCSourced == {low}
MCRetargetTo == [i \in MCIntents |-> IF i = low THEN {u2} ELSE {}]
MCIntentRank == (high :> 2) @@ (late :> 3) @@ (low :> 4) @@ (ult :> 5)
MCInserts == {<<low, u1>>, <<high, u1>>, <<high, u2>>, <<late, u1>>}
=============================================================================
