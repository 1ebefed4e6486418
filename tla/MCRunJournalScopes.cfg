\* Two projects, so overlapping and disjoint scopes; two callers; two run ids
\* that are collected and handed out again.
SPECIFICATION Spec
CONSTANTS
    t1 = t1  t2 = t2  p = p  q = q  d = d  e = e  c1 = c1  c2 = c2
    None = None
    Token = {t1, t2}
    Project = {p, q}
    Doc = {d}
    Path = {1}
    Hash = {1}
    Rev = {1}
    Config = {c1}
    SettingsOf <- OneSetting
    LocatorOf <- OneLocator
    Manifests <- OneDocManifests
    Payloads <- OneDocPayloads
    MaxRunId = 2
SYMMETRY Symmetry
INVARIANTS
    UnfinishedScopesDisjoint
    GenerationIsNewestCommit
PROPERTIES
    ImplementsAtomicCorpus
