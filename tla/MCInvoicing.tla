---------------------------- MODULE MCInvoicing ----------------------------
(* Values of the constants of Invoicing for TLC. *)
EXTENDS Invoicing, TLC

CONSTANTS p1, p2, i1, i2

\* Two lines of 3.5 and 2.5 cents at 20 per cent, in tenths: the lines come to 5 and 4
\* cents when their halves go up, the header to 8, and two payments of 4.
Taxed == <<[net |-> 35, rate |-> 200], [net |-> 25, rate |-> 200]>>

Halves == {<<"tax", Taxed[2]>>, <<"line", Taxed[1]>>, <<"line", Taxed[2]>>}

\* A line without tax that a payment of 4 covers in part, and a second one would exceed.
Plain == <<[net |-> 60, rate |-> 0]>>

SomeLines == {Taxed, Plain}

\* Room for two plain invoices, and not for a plain and a taxed one.
Limits == [a \in {"a1"} |-> 13]

Symmetric == Permutations({p1, p2}) \cup Permutations({i1, i2})
=============================================================================
