---------------------------- MODULE MCConfiguration ----------------------------
EXTENDS Configuration, TLC

CONSTANTS d1, d2, d3, a1, a2

\* The file the operator writes and one of those sent have the console where it is, or
\* at another address; the other sent one has none.  d2 is the short one: of what it
\* leaves behind itself, d3's end makes a valid document, the operator's does not.
Lengths == [d \in Texts |-> IF d = d2 THEN 1 ELSE 2]
Placed ==
    [c \in {{d1}, {d2}, {d3}, {d2, d3}} |->
        CASE c = {d2} -> a2 [] c = {d3} -> None [] OTHER -> a1]
=============================================================================
