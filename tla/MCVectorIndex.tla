--------------------------- MODULE MCVectorIndex ---------------------------
\* Instances of VectorIndex: two processes of two tenants that name their
\* documents alike.
EXTENDS VectorIndex

CONSTANTS one, other, acme, globex, author

Homes == [p \in Process |-> IF p = one THEN acme ELSE globex]
Authors == [p \in Process |-> author]
=============================================================================
