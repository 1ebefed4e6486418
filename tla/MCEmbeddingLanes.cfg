\* A search, a job, a caller that does either, two accidents.
CONSTANTS
    search = search  either = either  job = job
    None = None
    Caller = {search, either, job}
    Roles <- SearchesAndJobs
    Lane = {1, 2, 3, 4}
    MaxEmbeds = 2
    MaxFaults = 2
CHECK_DEADLOCK FALSE
SPECIFICATION Spec
INVARIANTS
    WaitsAtTheLaneOfItsRole
PROPERTIES
    QueriesReturn
