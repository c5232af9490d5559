------------------------- MODULE MCConsole -------------------------
EXTENDS Console, TLC
Key1(c) == [code |-> c, ext |-> FALSE]
KeyE(c) == [code |-> c, ext |-> TRUE]
MCKeys  == {Key1(LSHIFT), FakeShift, Key1(CTRL), KeyE(ALT), KeyE(DEL), Key1(21),
            Key1(3), Key1(131)}
MCSmall == {Key1(21)}
MCTable == <<[c \in 0..127 |-> IF c = 21 THEN 97 ELSE IF c = 3 THEN 130 ELSE 0],
             [c \in 0..127 |-> IF c = 21 THEN 65 ELSE 0]>>
Tables  == [s \in {0, 1} |-> MCTable[s + 1]]
=====================================================================
