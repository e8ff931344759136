--------------------------- MODULE MC_GroupMalloc ---------------------------
(* GroupMalloc for two tasks and three groups.  g1 is privileged with     *)
(* another flag set, g2 has no flag, g4 has only a neighbouring bit.  Each *)
(* heap holds one block, so full heaps and NULL returns are reached.       *)
EXTENDS GroupMalloc

MCGroupOf == [t \in Tasks |-> IF t = "t1" THEN "g1" ELSE "g4"]

MCTgFlags == [g \in Groups |-> CASE g = "g1" -> 6
                                 [] g = "g2" -> 0
                                 [] OTHER    -> 2]

MCCapacity == [h \in Heaps |-> 1]
=============================================================================
