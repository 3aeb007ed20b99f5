---------------------------- MODULE MCKeyCustody ----------------------------
\* Instances of KeyCustody.  A subject and a retention bucket share the identifier
\* x, which only the prefixes of their key names tell apart.
EXTENDS KeyCustody

CONSTANTS x, h1, s1, s2, e1, e2, b1, r1

OnOneHost == [o \in Sealer \cup Destroyer \cup Reader |-> h1]
AllForX == [o \in Sealer |-> x]
Targets == [o \in Destroyer |-> [kind |-> IF o = b1 THEN "bucket" ELSE "subject", of |-> x]]
FirstContent == [o \in Reader |-> s1]

Every == ErasureRequest
=============================================================================
