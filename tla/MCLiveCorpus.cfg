\* Two documents, two texts, two more publications; two passes of any kind.
CONSTANTS
    e1 = e1  e2 = e2  n1 = n1  s1 = s1  m1 = m1  m2 = m2
    None = None
    Doc = {1, 2}
    Text = {1, 2}
    Embedder = {e1, e2}
    ModelOf <- TwoModels
    Enricher = {n1}
    Reader = {s1}
    Sources <- OneAndTwo
    Retention = {TRUE, FALSE}
    PageSize = 1
    BatchSize = 1
    MaxPublish = 3
    MaxEdits = 2
    MaxPasses = 2
CHECK_DEADLOCK FALSE
SPECIFICATION Spec
INVARIANTS
    NothingOutlivesItsUnit
    VectorsMeanTheirHash
    FinishedEmbeddingIsComplete
    SnapshotIsOneGeneration
    AnalysisIsOfItsUnits
