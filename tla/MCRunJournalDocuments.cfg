\* Two documents that swap paths and disappear, two runs, two callers.
SPECIFICATION Spec
CONSTANTS
    t1 = t1  t2 = t2  p = p  q = q  d = d  e = e  c1 = c1  c2 = c2
    None = None
    Token = {t1, t2}
    Project = {p}
    Doc = {d, e}
    Path = {1, 2}
    Hash = {1, 2}
    Rev = {1, 2}
    Config = {c1}
    SettingsOf <- OneSetting
    LocatorOf <- OneLocator
    Manifests <- DocumentManifests
    Payloads <- TwoDocPayloads
    MaxRunId = 2
SYMMETRY Symmetry
INVARIANT RowsSatisfySchema
INVARIANT PreparedDocumentsCurrent
INVARIANT DigestDescribesRows
PROPERTY CorpusChangesByPublication
PROPERTY PayloadsSurvive
