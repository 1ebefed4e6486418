\* One search against one writer that publishes and closes.
SPECIFICATION Spec
CONSTANTS
    s1 = s1  s2 = s2  p1 = p1  p2 = p2
    None = None
    Search = {s1}
    Publisher = {p1}
    MaxCommits = 2
INVARIANTS
    SearchesAreFresh
