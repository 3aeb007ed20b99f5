\* Two calls of two tenants, with every tool, redirects and colliding paths.
CONSTANTS
    c1 = c1  c2 = c2  docs = docs  mirror = mirror  elsewhere = elsewhere
    Nothing = Nothing
    Call = {c1, c2}
    Namespace = {"acme", "globex"}
    Host = {docs, mirror, elsewhere}
    Policies <- MCPolicies
    Paths <- MCPaths
    Urls <- MCUrls
    Contents = {"draft", "final", "tome"}
    Oversized = {"tome"}
    MaxRedirects = 2
SPECIFICATION ToolsSpec
SYMMETRY Symmetric
INVARIANTS
    OnlyAllowedHostsAreAsked
    ReportIsTrue
PROPERTY WorkspacesAreSeparate
CHECK_DEADLOCK FALSE
