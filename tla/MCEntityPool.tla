---- MODULE MCEntityPool ----
EXTENDS EntityPool
\* In act 1 slot 0 holds a wide object, slot 1 a manager, the others items
\* the window may hide, slot 3 lies beyond the physical slots.
MCItems == 1 .. 5
MCSpawnX == <<0, 4, 4, 8, 8>>
MCReach  == <<2, 0, 1, 1, 0>>
MCScene  == [a \in Acts |->
                [L \in Slots |-> IF a = 1 THEN L + 1 ELSE <<1, 3, 4, None, 2>>[L + 1]]]
MCManagers == {2}
MCCams == {0, 4, 8}
MCSpawns == {0}
====
