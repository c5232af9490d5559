------------------------- MODULE MCTerminal -------------------------
EXTENDS Terminal, TLC
MCPeriods == (Tty :> 1) @@ (Mouse :> 1)
=====================================================================
