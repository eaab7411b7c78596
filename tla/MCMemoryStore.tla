--------------------------- MODULE MCMemoryStore ---------------------------
EXTENDS MemoryStore, TLC

CONSTANTS h1, h2, f1, f2, f3

\* f1 and f2 are the same element imported in two namespace contexts.
MCIdentityOf == [f \in Forms |-> IF f = f3 THEN h2 ELSE h1]
=============================================================================
