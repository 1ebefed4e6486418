------------------------------- MODULE Daemon -------------------------------
(***************************************************************************)
(* The daemon's requests and the index jobs they start, over the registry  *)
(* of projects that the daemon shares, as one file, with commands that run *)
(* without it (server.rs, state.rs, config's Registry, cli's add and       *)
(* remove).  A request is served by a thread of its own; the mutexes of    *)
(* DaemonState make one action of each section they guard, and nothing     *)
(* more: between two sections every other request and job may run.  The    *)
(* job a request starts is named after the request.  What a job indexes is *)
(* the subject of IndexRunner; here it is a root and the version of its    *)
(* configuration.                                                          *)
(***************************************************************************)
EXTENDS Naturals, Sequences, FiniteSets

CONSTANTS
    Root,        \* directories a project may be registered for
    Label,       \* labels of projects
    Hints,       \* [Root -> Seq(Label)]: the label hint and the hint with -2, -3, ...
    Above,       \* [Root -> SUBSET Root]: a directory and its ancestors
    Request,     \* requests to the daemon, each served once
    Calls,       \* [Request -> SUBSET Call]: what they may ask for
    Command,     \* processes that edit the registry without the daemon
    Orders,      \* [Command -> SUBSET Call]
    None,
    MaxEdits,    \* [Root -> Nat]: edits of the configuration files
    MaxFaults    \* accidents: saves, loads, spawns and jobs that fail, ends of the daemon

Operation == {"add", "remove", "reindex", "search"}
Call == [op : Operation, needle : Label \cup Root]
Project == [label : Label, root : Root]

ASSUME RootAssumption ==
    /\ Root \cap Label = {} /\ None \notin Root \cup Label
    /\ Above \in [Root -> SUBSET Root]
    /\ \A r \in Root : r \in Above[r]
ASSUME HintsAssumption ==
    /\ Hints \in [Root -> Seq(Label)]
    /\ \A r \in Root : \A i, j \in 1 .. Len(Hints[r]) : Hints[r][i] = Hints[r][j] => i = j
    \* A hint per project that can be registered, so that one is always free.
    /\ \A r \in Root : Len(Hints[r]) >= Cardinality(Root)
ASSUME CallsAssumption ==
    /\ Calls \in [Request -> SUBSET Call]
    /\ Orders \in [Command -> SUBSET Call]
ASSUME BoundsAssumption == MaxEdits \in [Root -> Nat] /\ MaxFaults \in Nat

VARIABLES
    up,        \* the daemon runs
    registry,  \* DaemonState.registry
    handles,   \* DaemonState.projects: what a cached handle was loaded from
    jobs,      \* DaemonState.jobs
    request,   \* the threads that serve requests
    job,       \* the threads that index
    command,   \* the processes without the daemon
    file,      \* registry.json
    temp,      \* registry.json.tmp
    config,    \* [Root -> Nat]: how often .codeindex.toml was edited
    faults,
    acked,     \* history: projects whose add was answered
    dropped,   \* history: projects whose removal was the last thing asked of them
    mixed,     \* history: a command saved beside the daemon, beside another
               \* command, or over a newer file
    freed,     \* history: labels that a removal, or reading the file again, gave
               \* back in this life of the daemon
    stuck,     \* history: labels whose job ended without finish_job
    raced      \* history: labels queued while another request was past its check

daemonVars == <<registry, handles, jobs>>
diskVars == <<file, temp>>
history == <<acked, dropped, mixed, freed, stuck, raced>>
vars == <<up, daemonVars, request, job, command, diskVars, config, faults, history>>

Status == {"running", "done", "failed"}
Handle == [root : Root, config : Nat]

(* Registry ****************************************************************)

\* Registry::find: by label, else the deepest registered root around a path.
ByLabel(reg, n) == {p \in reg : p.label = n}
Around(reg, n) == {p \in reg : n \in Root /\ p.root \in Above[n]}
Find(reg, n) ==
    IF ByLabel(reg, n) # {} THEN ByLabel(reg, n)
    ELSE {p \in Around(reg, n) : \A o \in Around(reg, n) : o.root \in Above[p.root]}

LabelsOf(reg) == {p.label : p \in reg}

\* Faulty: takes the hint as it is.
FreeLabelsHint(reg, r) == {Hints[r][1]}

\* The first hint that no other project has.
FreeLabels(reg, r) ==
    {Hints[r][i] : i \in {k \in 1 .. Len(Hints[r]) :
        /\ Hints[r][k] \notin LabelsOf(reg)
        /\ \A m \in 1 .. (k - 1) : Hints[r][m] \in LabelsOf(reg)}}

\* Registry::register: idempotent by root.
Registrations(reg, r) ==
    IF \E p \in reg : p.root = r THEN {p \in reg : p.root = r}
    ELSE {[label |-> l, root |-> r] : l \in FreeLabels(reg, r)}

\* Registry::remove: by label or by the exact root.
Removals(reg, n) == {p \in reg : p.label = n \/ p.root = n}

(* Threads *****************************************************************)

Place == {"new", "register", "saving", "invalidate", "check", "find", "resolve", "load",
          "queue", "spawn", "remove", "dropping", "forget", "clear", "over"}
Thread ==
    [at : Place, op : Operation, needle : Label \cup Root \cup {None},
     project : Project \cup {None}, target : Root \cup {None}, handle : Handle \cup {None},
     since : [Root -> Nat]]  \* since: the configurations when it asked for a job
\* project is what the request is about; target is what its label names when
\* spawn_index_job looks it up again.
Fresh == [at |-> "new", op |-> "search", needle |-> None, project |-> None,
          target |-> None, handle |-> None, since |-> [r \in Root |-> 0]]
Over == [Fresh EXCEPT !.at = "over"]  \* answered, refused or cut off

\* asked and since: the root and the configuration of the request behind it.
Job == [at : {"started", "working", "closing"}, label : Label, ok : BOOLEAN,
        root : Root, config : Nat, asked : Root, since : [Root -> Nat]]
ASSUME NoneAssumption ==
    /\ None \notin Project
    /\ \A reg \in SUBSET Project : None # reg
    /\ None \notin Handle
    /\ None \notin Status
    /\ None \notin Job

Live(q) == job[q] # None
JobAt(q, place) == Live(q) /\ job[q].at = place

Idle == [at |-> "idle", base |-> {}, op |-> "add", project |-> None]
Exited == [Idle EXCEPT !.at = "over"]
Process == [at : {"idle", "loaded", "saving", "over"}, base : SUBSET Project,
            op : {"add", "remove"}, project : Project \cup {None}]

Init ==
    /\ up = TRUE
    /\ registry = {} /\ file = {} /\ temp = None
    /\ handles = [l \in Label |-> None]
    /\ jobs = [l \in Label |-> None]
    /\ request = [q \in Request |-> Fresh]
    /\ job = [q \in Request |-> None]
    /\ command = [c \in Command |-> Idle]
    /\ config = [r \in Root |-> 0]
    /\ faults = 0
    /\ acked = {} /\ dropped = {} /\ mixed = FALSE /\ freed = {} /\ stuck = {} /\ raced = {}

Ended(q) == request' = [request EXCEPT ![q] = Over]
At(q, place) == up /\ request[q].at = place
Moved(q, place) == request' = [request EXCEPT ![q].at = place]
Became(q, place, p) == request' = [request EXCEPT ![q].at = place, ![q].project = p]
\* The thread that is saving holds the registry's mutex.
Unlocked == \A q \in Request : request[q].at \notin {"saving", "dropping"}
MayFail == faults < MaxFaults
Fault == faults' = faults + 1

(* Requests ****************************************************************)

\* dispatch: the first section of each method.
First(op) ==
    IF op = "add" THEN "register" ELSE IF op = "remove" THEN "remove" ELSE "find"

\* An add has read and validated the configuration before it registers.
Arrives(q) ==
    /\ At(q, "new")
    /\ \E c \in Calls[q] :
         /\ c.op = "add" => c.needle \in Root
         /\ request' = [request EXCEPT ![q] =
                [at |-> First(c.op), op |-> c.op, needle |-> c.needle,
                 project |-> None, target |-> None, handle |-> None,
                 since |-> IF c.op \in {"add", "reindex"} THEN config ELSE @.since]]
    /\ UNCHANGED <<up, daemonVars, job, command, diskVars, config, faults, history>>

\* Faulty: an add goes on although its registration was not saved.
UnsavedAnyway(q, p) == Became(q, "invalidate", p)

\* The error of save_to ends the request; the memory keeps the project.
Unsaved(q, p) == Ended(q)

\* register_project under the lock, up to the written temporary file.
Registers(q) ==
    /\ At(q, "register") /\ Unlocked
    /\ \E p \in Registrations(registry, request[q].needle) :
         /\ registry' = registry \cup {p}
         /\ \/ /\ temp' = registry'
               /\ Became(q, "saving", p)
               /\ UNCHANGED faults
            \/ /\ MayFail /\ Fault
               /\ Unsaved(q, p)
               /\ UNCHANGED temp
    /\ UNCHANGED <<up, handles, jobs, job, command, file, config, history>>

\* save_to's rename; another process may have taken the temporary file away.
Renamed == temp # None /\ file' = temp /\ temp' = None
Gone == temp = None /\ UNCHANGED diskVars

Saves(q) ==
    /\ At(q, "saving")
    /\ \/ /\ Renamed /\ Moved(q, "invalidate")
          /\ dropped' = dropped \ {request[q].project}
       \/ Gone /\ Ended(q) /\ UNCHANGED dropped
    /\ UNCHANGED <<up, daemonVars, job, command, config, faults,
                   acked, mixed, freed, stuck, raced>>

\* resolve_project: a miss reads the file again, and with it forgets a project
\* whose registration was never saved.
Known(n) == IF Find(registry, n) = {} THEN file ELSE registry
Resolves(q, needle) ==
    /\ Unlocked
    /\ registry' = Known(needle)
    /\ freed' = freed \cup (LabelsOf(registry) \ LabelsOf(registry'))
    /\ Find(registry', needle) = {} => Ended(q)
    /\ UNCHANGED <<up, handles, jobs, job, command, diskVars, config, faults,
                   acked, dropped, mixed, stuck, raced>>

Finds(q) ==
    /\ At(q, "find") /\ Resolves(q, request[q].needle)
    /\ \A p \in Find(registry', request[q].needle) :
         request' = [request EXCEPT
             ![q].at = IF request[q].op = "search" THEN "load" ELSE "check",
             ![q].project = p, ![q].target = p.root]

\* Faulty: keeps the handle an earlier request loaded.
KeepsHandle(q) == UNCHANGED handles

\* invalidate_project.
DropsHandle(q) == handles' = [handles EXCEPT ![request[q].project.label] = None]

Invalidates(q) ==
    /\ At(q, "invalidate")
    /\ DropsHandle(q)
    /\ Moved(q, IF request[q].op = "add" THEN "check" ELSE "resolve")
    /\ UNCHANGED <<up, registry, jobs, job, command, diskVars, config, faults, history>>

\* job_running: an add answers "already-indexing", a reindex is refused.
Running(l) == jobs[l] = "running"

\* Faulty: a reindex starts whatever runs.
BusyForAdds(q) == request[q].op = "add" /\ Running(request[q].project.label)

Busy(q) == Running(request[q].project.label)

Acknowledged(q) == IF request[q].op = "add" THEN acked \cup {request[q].project} ELSE acked
Checks(q) ==
    /\ At(q, "check")
    /\ IF Busy(q) THEN Ended(q)
       ELSE Moved(q, IF request[q].op = "add" THEN "resolve" ELSE "invalidate")
    /\ acked' = IF Busy(q) THEN Acknowledged(q) ELSE acked
    /\ UNCHANGED <<up, daemonVars, job, command, diskVars, config, faults,
                   dropped, mixed, freed, stuck, raced>>

\* spawn_index_job looks the label up again.
Reresolves(q) ==
    /\ At(q, "resolve") /\ Resolves(q, request[q].project.label)
    /\ \A p \in Find(registry', request[q].project.label) :
         request' = [request EXCEPT ![q].at = "load", ![q].target = p.root]

\* project_handle: cached by label, else loaded from the root, which may fail.
Cached(q) == handles[request[q].project.label]
Loaded(q) == [root |-> request[q].target, config |-> config[request[q].target]]
Served(q, h) ==
    IF request[q].op = "search" THEN Ended(q)
    ELSE request' = [request EXCEPT ![q].at = "queue", ![q].handle = h]
Loads(q) ==
    /\ At(q, "load")
    /\ \/ Cached(q) # None /\ Served(q, Cached(q)) /\ UNCHANGED <<handles, faults>>
       \/ /\ Cached(q) = None /\ Served(q, Loaded(q))
          /\ handles' = [handles EXCEPT ![request[q].project.label] = Loaded(q)]
          /\ UNCHANGED faults
       \/ Cached(q) = None /\ MayFail /\ Fault /\ Ended(q) /\ UNCHANGED handles
    /\ UNCHANGED <<up, registry, jobs, job, command, diskVars, config, history>>

SetJob(l) == jobs' = [jobs EXCEPT ![l] = "running"]

\* Requests that found no job of the label and have not yet queued theirs.
PastCheck(l) ==
    {q \in Request :
        /\ request[q].project # None /\ request[q].project.label = l
        /\ \/ request[q].op \in {"add", "reindex"} /\ request[q].at \in {"resolve", "load", "queue"}
           \/ request[q].op = "reindex" /\ request[q].at = "invalidate"}

Queues(q) ==
    /\ At(q, "queue")
    /\ SetJob(request[q].project.label)
    /\ Moved(q, "spawn")
    /\ raced' = raced \cup {l \in {request[q].project.label} : PastCheck(l) # {q}}
    /\ UNCHANGED <<up, registry, handles, job, command, diskVars, config, faults,
                   acked, dropped, mixed, freed, stuck>>

\* The thread takes the handle with it; a spawn that fails leaves "queued".
Spawns(q) ==
    /\ At(q, "spawn")
    /\ \/ /\ job' = [job EXCEPT ![q] =
                [at |-> "started", label |-> request[q].project.label, ok |-> TRUE,
                 root |-> request[q].handle.root, config |-> request[q].handle.config,
                 asked |-> request[q].project.root, since |-> request[q].since]]
          /\ Ended(q)
          /\ acked' = Acknowledged(q)
          /\ UNCHANGED <<faults, stuck>>
       \/ /\ MayFail /\ Fault
          /\ stuck' = stuck \cup {request[q].project.label}
          /\ Ended(q)
          /\ UNCHANGED <<job, acked>>
    /\ UNCHANGED <<up, daemonVars, command, diskVars, config,
                   dropped, mixed, freed, raced>>

\* remove_project under the lock; nothing is read again on a miss.
Removes(q) ==
    /\ At(q, "remove") /\ Unlocked
    /\ \/ \E p \in Removals(registry, request[q].needle) :
            /\ registry' = registry \ {p}
            /\ dropped' = dropped \cup {p}
            /\ freed' = freed \cup {p.label}
            /\ \/ /\ temp' = registry'
                  /\ Became(q, "dropping", p)
                  /\ UNCHANGED faults
               \/ /\ MayFail /\ Fault
                  /\ Ended(q)
                  /\ UNCHANGED temp
       \/ /\ Removals(registry, request[q].needle) = {}
          /\ Ended(q)
          /\ UNCHANGED <<registry, temp, faults, dropped, freed>>
    /\ UNCHANGED <<up, handles, jobs, job, command, file, config, acked, mixed, stuck, raced>>

Drops(q) ==
    /\ At(q, "dropping")
    /\ \/ Renamed /\ Moved(q, "forget")
       \/ Gone /\ Ended(q)
    /\ UNCHANGED <<up, daemonVars, job, command, config, faults, history>>

Forgets(q) ==
    /\ At(q, "forget")
    /\ DropsHandle(q)
    /\ Moved(q, "clear")
    /\ UNCHANGED <<up, registry, jobs, job, command, diskVars, config, faults, history>>

Clears(q) ==
    /\ At(q, "clear")
    /\ jobs' = [jobs EXCEPT ![request[q].project.label] = None]
    /\ stuck' = stuck \ {request[q].project.label}
    /\ Ended(q)
    /\ UNCHANGED <<up, registry, handles, job, command, diskVars, config, faults,
                   acked, dropped, mixed, freed, raced>>

Serve(q) ==
    \/ Arrives(q) \/ Registers(q) \/ Saves(q) \/ Finds(q) \/ Invalidates(q) \/ Checks(q)
    \/ Reresolves(q) \/ Loads(q) \/ Queues(q) \/ Spawns(q)
    \/ Removes(q) \/ Drops(q) \/ Forgets(q) \/ Clears(q)

(* Jobs ********************************************************************)

JobMoved(q, place) == job' = [job EXCEPT ![q].at = place]

JobGone(q) == job' = [job EXCEPT ![q] = None]

\* collect_overrides, then the progress that run_index_job reports.
Indexes(q) ==
    /\ JobAt(q, "started") \/ JobAt(q, "working")
    /\ SetJob(job[q].label) /\ JobMoved(q, "working")
    /\ UNCHANGED <<faults, stuck>>

\* run_job's last set_job says "done", and is not finished.
Succeeds(q) ==
    /\ JobAt(q, "working")
    /\ SetJob(job[q].label) /\ JobMoved(q, "closing")
    /\ UNCHANGED <<faults, stuck>>

Errs(q) ==
    /\ JobAt(q, "started") \/ JobAt(q, "working")
    /\ MayFail /\ Fault
    /\ job' = [job EXCEPT ![q].at = "closing", ![q].ok = FALSE]
    /\ UNCHANGED <<jobs, stuck>>

\* Faulty: an error ends the thread with `?`.
FinishedIfDone(q) ==
    IF job[q].ok THEN [jobs EXCEPT ![job[q].label] = "done"] ELSE jobs

\* finish_job, which makes the entry of a label that has none.
FinishedJobs(q) == [jobs EXCEPT ![job[q].label] = IF job[q].ok THEN "done" ELSE "failed"]

Finishes(q) ==
    /\ JobAt(q, "closing")
    /\ jobs' = FinishedJobs(q)
    /\ stuck' = stuck \ {job[q].label}
    /\ JobGone(q)
    /\ UNCHANGED faults

Panics(q) ==
    /\ Live(q)
    /\ MayFail /\ Fault
    /\ JobGone(q)
    /\ stuck' = stuck \cup {job[q].label}
    /\ UNCHANGED jobs

Work(q) ==
    /\ up
    /\ Indexes(q) \/ Succeeds(q) \/ Errs(q) \/ Finishes(q) \/ Panics(q)
    /\ UNCHANGED <<up, registry, handles, request, command, diskVars, config,
                   acked, dropped, mixed, freed, raced>>

(* Without the daemon ******************************************************)

\* add --no-daemon, or a remove that found no daemon, reads the file.
Reads(c) ==
    /\ command[c].at = "idle"
    /\ \E o \in Orders[c] :
         /\ o.op \in {"add", "remove"} /\ (o.op = "remove" => ~up)
         /\ o.op = "add" => o.needle \in Root
         /\ \/ \E p \in (IF o.op = "add" THEN Registrations(file, o.needle)
                         ELSE Removals(file, o.needle)) :
                 command' = [command EXCEPT ![c] =
                     [at |-> "loaded", base |-> file, op |-> o.op, project |-> p]]
            \/ /\ o.op = "remove" /\ Removals(file, o.needle) = {}
               /\ command' = [command EXCEPT ![c] = Exited]
    /\ UNCHANGED <<up, daemonVars, request, job, diskVars, config, faults, history>>

Edited(c) == IF command[c].op = "add" THEN command[c].base \cup {command[c].project}
             ELSE command[c].base \ {command[c].project}
Beside(c) ==
    \/ up
    \/ file # command[c].base
    \/ \E o \in Command \ {c} : command[o].at = "saving"

Writes(c) ==
    /\ command[c].at = "loaded"
    /\ temp' = Edited(c)
    /\ command' = [command EXCEPT ![c].at = "saving"]
    /\ mixed' = (mixed \/ Beside(c))
    /\ dropped' = dropped \cup {p \in {command[c].project} : command[c].op = "remove"}
    /\ UNCHANGED <<up, daemonVars, request, job, file, config, faults, acked, freed, stuck,
                   raced>>

Replaces(c) ==
    /\ command[c].at = "saving"
    /\ \/ /\ Renamed
          /\ command' = [command EXCEPT ![c] = Exited]
          /\ acked' = acked \cup {p \in {command[c].project} : command[c].op = "add"}
          /\ dropped' = dropped \ {p \in {command[c].project} : command[c].op = "add"}
       \/ /\ Gone
          /\ command' = [command EXCEPT ![c] = Exited]
          /\ UNCHANGED <<acked, dropped>>
    /\ mixed' = (mixed \/ Beside(c))
    /\ UNCHANGED <<up, daemonVars, request, job, config, faults, freed, stuck, raced>>

Edits(r) ==
    /\ config[r] < MaxEdits[r]
    /\ config' = [config EXCEPT ![r] = @ + 1]
    /\ UNCHANGED <<up, daemonVars, request, job, command, diskVars, faults, history>>

\* The daemon stops or dies at any moment, and its threads with it.
Stops ==
    /\ up /\ MayFail /\ Fault
    /\ up' = FALSE
    /\ request' = [q \in Request |->
          IF request[q].at = "new" THEN request[q] ELSE Over]
    /\ job' = [q \in Request |-> None]
    /\ UNCHANGED <<daemonVars, command, diskVars, config, history>>

\* DaemonState::new; a command may be about to replace the file it reads.
Starts ==
    /\ ~up /\ up' = TRUE
    /\ registry' = file
    /\ handles' = [l \in Label |-> None]
    /\ jobs' = [l \in Label |-> None]
    /\ freed' = {} /\ stuck' = {} /\ raced' = {}
    /\ mixed' = (mixed \/ \E c \in Command : command[c].at = "saving")
    /\ UNCHANGED <<request, job, command, diskVars, config, faults, acked, dropped>>

Next ==
    \/ \E q \in Request : Serve(q) \/ Work(q)
    \/ \E c \in Command : Reads(c) \/ Writes(c) \/ Replaces(c)
    \/ \E r \in Root : Edits(r)
    \/ Stops \/ Starts

Spec == Init /\ [][Next]_vars

(* Properties **************************************************************)

\* Every variable has its type.
DaemonTypeOK ==
    /\ up \in BOOLEAN /\ mixed \in BOOLEAN
    /\ registry \in SUBSET Project /\ file \in SUBSET Project /\ acked \in SUBSET Project
    /\ dropped \in SUBSET Project
    /\ temp \in (SUBSET Project) \cup {None}
    /\ handles \in [Label -> Handle \cup {None}]
    /\ jobs \in [Label -> Status \cup {None}]
    /\ request \in [Request -> Thread]
    /\ job \in [Request -> Job \cup {None}]
    /\ command \in [Command -> Process]
    /\ config \in [Root -> Nat]
    /\ faults \in 0 .. MaxFaults
    /\ freed \in SUBSET Label /\ stuck \in SUBSET Label /\ raced \in SUBSET Label

Unique(reg) == \A p, o \in reg : p.label = o.label \/ p.root = o.root => p = o

\* However saves, failures, reloads and other processes interleave, no
\* registry ever names two projects alike or one root twice, so that resolve,
\* remove, handles and jobs, which are keyed by label, mean one project.
LabelsAndRootsUnique ==
    /\ Unique(registry)
    /\ Unique(file)
    /\ temp # None => Unique(temp)

\* A job indexes the root its request was answered for, under a configuration
\* no older than the request, whatever handles other requests leave in the
\* cache meanwhile; only a label that was given back, by a removal or with a
\* registration that was never saved, can name another root.
JobIndexesItsRequest ==
    \A q \in Request : Live(q) /\ ~mixed /\ job[q].label \notin freed =>
        /\ job[q].root = job[q].asked
        /\ job[q].config >= job[q].since[job[q].root]

\* A status that still runs, which refuses every reindex, belongs to a job or
\* to one on its way, unless a thread died or could not be started.
StatusHasAJob ==
    up => \A l \in Label : Running(l) =>
        \/ \E q \in Request : Live(q) /\ job[q].label = l
        \/ \E q \in Request : request[q].at = "spawn" /\ request[q].project.label = l
        \/ l \in stuck

\* A project whose add was answered, and that nobody asked to remove, is in the
\* file, through failing saves, reloads, removals of others and restarts, as
\* long as no command saves the file beside the daemon or another command.
AcknowledgedSurvive == ~mixed => acked \subseteq file \cup dropped

\* Two jobs of one project, which would write one database, run together only
\* if the check of one request fell between the check and the set_job of the
\* other, if the label of the first was given back, or if a command saved the
\* registry beside the daemon or another command.
JobsDoubleOnlyIfRaced ==
    \A q, o \in Request :
        Live(q) /\ Live(o) /\ q # o /\ job[q].root = job[o].root =>
            mixed \/ {job[q].label, job[o].label} \cap (raced \cup freed) # {}

=============================================================================
