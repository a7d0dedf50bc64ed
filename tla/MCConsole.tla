------------------------------ MODULE MCConsole -----------------------------
EXTENDS Console

Down(k) == [key |-> k, up |-> FALSE]
Up(k) == [key |-> k, up |-> TRUE]
SomeScancodes == {Down("a"), Down("enter"), Down("backspace"), Down("f1"), Down("alt"),
                  Up("alt"), Down("shift")}
SomeUsers == {<<"a">>}
SomeCodes == {"a", "A", "enter", "backspace", "f1"}
\* The ring is never read before it is written, so one content stands for all.
Init == ConsoleInit /\ keyboard_buffer = [i \in Positions |-> "a"]
MCFairSpec == Init /\ [][ConsoleNext]_cvars /\ Fairness
=============================================================================
