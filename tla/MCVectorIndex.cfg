\* Two processes of two tenants, two documents of the same ids each, one author
\* whose key is destroyed and created again, three boots, one search.
CONSTANTS
    one = one  other = other  acme = acme  globex = globex  author = author
    NoRow = NoRow  NoText = NoText
    Process = {one, other}
    Search = {s1}
    Namespace = {acme, globex}
    Documents = 2
    HomeOf <- Homes
    Key = {author}
    KeyOf <- Authors
    TopK = 1
    MaxBoots = 3
    MaxGeneration = 2
SPECIFICATION Spec
INVARIANTS
    ErasedIsNeitherFoundNorKept
    TextIsOwn
PROPERTY AnOutageDropsNothing
CHECK_DEADLOCK FALSE
