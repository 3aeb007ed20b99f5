----------------------------- MODULE MCToolbox -----------------------------
\* Instances of Toolbox.
EXTENDS Toolbox, TLC

CONSTANTS c1, c2, docs, mirror, elsewhere

At(host) == [host |-> host, wellFormed |-> TRUE]

Symmetric == Permutations({c1, c2})

MCUrls == {At(docs), At(mirror), At(elsewhere), [host |-> docs, wellFormed |-> FALSE], Nothing}

\* One tenant is allowed two hosts, the other has no entry.
MCPolicies == "acme" :> {docs, mirror}

Of(names) == [i \in DOMAIN names |-> <<names[i]>>]

\* Plain, nested, aliased, climbing out; and one whose only segment decodes to names
\* that lead out of the workspace of one tenant and back into that of the other.
MCPaths == {Nothing, <<>>, Of(<<"notes">>), Of(<<"a", "..", "notes">>), Of(<<"notes", "b">>),
            Of(<<"a", "..", "..", "acme", "notes">>), <<<<"..", "acme", "notes">>>>}
=============================================================================
