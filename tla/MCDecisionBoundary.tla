------------------------ MODULE MCDecisionBoundary ------------------------
(* Every battle over four contents, one of which ends it or stalls it. *)
EXTENDS DecisionBoundary

CONSTANTS blocked

MCContents == 1..4
MCChoices == {"x", "y"}

(* What a content leads to: only the part its mode uses is varied. *)
MCShapes ==
  [mode : {"step"}, choices : {"y"}, next : MCContents \cup {blocked}, executed : {1}, dropped : {1}]
  \cup [mode : {"ready"}, choices : {"x"}, next : {blocked}, executed : {3, 4}, dropped : MCContents]
  \cup [mode : {"stopped"}, choices : {"x"}, next : {blocked}, executed : {1}, dropped : {1}]

MCBattle(shape, progress) ==
  [mode     |-> [c \in MCContents |-> shape[c].mode],
   choices  |-> [c \in MCContents |-> shape[c].choices],
   progress |-> progress,
   next     |-> [c \in MCContents |-> shape[c].next],
   executed |-> [c \in MCContents |-> shape[c].executed],
   dropped  |-> [c \in MCContents |-> shape[c].dropped]]

MCBattles ==
  {b \in {MCBattle(s, p) : s \in [MCContents -> MCShapes],
                           p \in {<<0, 0, 0, 1>>, <<0, 0, 1, 2>>}} :
     IsBattle(b)}
=============================================================================
