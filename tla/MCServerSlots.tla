--------------------------- MODULE MCServerSlots ---------------------------
(* Instances of ServerSlots with two slots: a plain completion t1, one     *)
(* with a child that needs both slots, t2, and a third that asks for a     *)
(* slot, t3.                                                               *)
EXTENDS ServerSlots

CONSTANTS t1, t2, t3, c2, p1, p2

Completions    == [t \in Tasks |-> "completion"]
EraseThird     == [t \in Tasks |-> IF t = t3 THEN "slot_action" ELSE "completion"]
AnySlot        == [t \in Tasks |-> -1]
ThirdWantsZero == [t \in Tasks |-> IF t = t3 THEN 0 ELSE -1]
OneParent      == [t \in Tasks |-> IF t = t2 THEN {c2} ELSE {}]
TwoPrompts     == [t \in Tasks |-> IF t = t1 THEN p1 ELSE p2]
FirstIsEmpty   == [t \in Tasks |-> IF t = t1 THEN NoPrompt ELSE p2]
=============================================================================
