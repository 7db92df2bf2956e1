--------------------------- MODULE MCLiveConsole ---------------------------
\* LiveConsole on two pods, each with a handler of its own.
EXTENDS LiveConsole, TLC

CONSTANTS p1, p2, h1, h2, c1

Apart == (h1 :> p1) @@ (h2 :> p2)
=============================================================================
