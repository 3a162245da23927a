----------------------------- MODULE MCCatalogue -----------------------------
\* Two publishes and a listing over two packages, each in a repository of its own, and a
\* clock that moves once.
EXTENDS Catalogue

CONSTANTS p1, p2, g1, g2

MCHome == [p \in Packages |-> IF p = p1 THEN g1 ELSE g2]
=============================================================================
