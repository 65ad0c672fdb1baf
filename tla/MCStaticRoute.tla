----------------------------- MODULE MCStaticRoute -----------------------------
(* Small instances of StaticRoute for TLC. *)
EXTENDS StaticRoute

CONSTANTS h1, h2, h3, h4, h5, d1, d2, d3   \* model values

\* Two first hops: the message is delivered at h1; h2 branches to h3, where
\* it is delivered as well, and to h4, from where it goes on to h5.
ForkFirst    == <<h1, h2>>
ForkChildren == [h \in Hop |-> CASE h = h2 -> <<h3, h4>> [] h = h4 -> <<h5>>
                                 [] OTHER -> <<>>]
ForkDest     == [h \in Hop |-> CASE h = h1 -> {d1} [] h = h3 -> {d2} [] h = h5 -> {d3}
                                 [] OTHER -> {}]

\* Two hops one after the other: the shortest route with an inner hop.
ChainFirst    == <<h1>>
ChainChildren == [h \in Hop |-> IF h = h1 THEN <<h2>> ELSE <<>>]
ChainDest     == [h \in Hop |-> IF h = h2 THEN {d1} ELSE {}]

=============================================================================
