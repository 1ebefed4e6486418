---------------------------- MODULE DaemonProofs ----------------------------
(***************************************************************************)
(* Theorems about Daemon, for any number of requests, commands, projects,  *)
(* edits and accidents, and about the search that it runs for a request.   *)
(*                                                                         *)
(* A search, for any corpus, relations, scores and filters.  The bounded   *)
(* insertion keeps the k best of what it has seen, and there is one such   *)
(* list (BestUnique), the sort's.  The lists join one by one; SearchInv    *)
(* has the scores that each of them can give: the best dense hit has 10    *)
(* tenths, what no dense list holds gets 4 of an unsure lexical list and 5 *)
(* of the graph.  The graph adds nothing to a seed, so the seeds keep      *)
(* their scores, and with them their order.                                *)
(***************************************************************************)
EXTENDS Daemon, HybridSearch, Induction, FiniteSetTheorems, SequenceTheorems, TLAPS

-----------------------------------------------------------------------------
(* Threads.                                                                *)

\* Sections after the registration was saved, before the answer.
Answering == {"invalidate", "check", "resolve", "load", "queue", "spawn"}
\* Sections under the lock, and those of a removal.
Holding == {"saving", "dropping"}
Leaving == {"dropping", "forget", "clear"}

\* What a thread has found by the time it comes to a section.
Placed(t) ==
    /\ t.at = "register" => t.needle \in Root
    /\ t.at \in {"register", "saving"} => t.op = "add"
    /\ t.at = "find" => t.op \in {"reindex", "search"}
    /\ t.at \in Answering \ {"load"} => t.op \in {"add", "reindex"}
    /\ t.at \in Answering \cup Holding \cup Leaving => t.project # None
    /\ t.at = "load" => t.op # "remove" /\ t.target # None
    /\ t.at \in {"queue", "spawn"} => t.handle # None

RequestsPlaced == \A q \in Request : Placed(request[q])

CommandsPlaced ==
    \A c \in Command : command[c].at \in {"loaded", "saving"} => command[c].project # None

TypeInv == DaemonTypeOK /\ RequestsPlaced /\ CommandsPlaced

Others(q) == \A o \in Request \ {q} : request'[o] = request[o]

Goes(q, place) ==
    /\ request'[q].at = place
    /\ request'[q].op = request[q].op
    /\ request'[q].needle = request[q].needle
    /\ request'[q].project = request[q].project
    /\ request'[q].target = request[q].target
    /\ request'[q].handle = request[q].handle
    /\ request'[q].since = request[q].since

LEMMA MovedThread ==
    ASSUME DaemonTypeOK, NEW q \in Request, NEW place \in Place, Moved(q, place)
    PROVE  /\ request' \in [Request -> Thread]
           /\ Goes(q, place)
           /\ Others(q)
<1>1. request[q] \in Thread
  BY DEF DaemonTypeOK
<1>2. request'[q] = [request[q] EXCEPT !.at = place]
  BY DEF Moved, DaemonTypeOK
<1>3. request'[q] \in Thread /\ Goes(q, place)
  BY <1>1, <1>2 DEF Thread, Goes
<1>4. Others(q)
  BY DEF Others, Moved, DaemonTypeOK
<1>5. request' = [request EXCEPT ![q] = request'[q]]
  BY <1>2 DEF Moved, DaemonTypeOK
<1>6. QED
  BY <1>3, <1>4, <1>5 DEF DaemonTypeOK

LEMMA BecameThread ==
    ASSUME DaemonTypeOK, NEW q \in Request, NEW place \in Place, NEW p \in Project,
           Became(q, place, p)
    PROVE  /\ request' \in [Request -> Thread]
           /\ request'[q].at = place
           /\ request'[q].project = p
           /\ request'[q].op = request[q].op
           /\ request'[q].since = request[q].since
           /\ Others(q)
<1>1. request[q] \in Thread
  BY DEF DaemonTypeOK
<1>2. request'[q] = [[request[q] EXCEPT !.at = place] EXCEPT !.project = p]
  BY DEF Became, DaemonTypeOK
<1>3. /\ request'[q] \in Thread
      /\ request'[q].at = place
      /\ request'[q].project = p
      /\ request'[q].op = request[q].op
      /\ request'[q].since = request[q].since
  BY <1>1, <1>2, Zenon DEF Thread
<1>4. Others(q)
  BY DEF Others, Became, DaemonTypeOK
<1>5. request' = [request EXCEPT ![q] = request'[q]]
  BY <1>2, Zenon DEF Became, DaemonTypeOK
<1>6. QED
  BY <1>3, <1>4, <1>5 DEF DaemonTypeOK

LEMMA OverThread ==
    /\ Over \in Thread
    /\ Over.at = "over"
    /\ Over.op = "search"
    /\ Over.project = None
    /\ Over.since = [r \in Root |-> 0]
    /\ Placed(Over)
BY DEF Over, Fresh, Thread, Place, Operation, Placed, Answering, Holding, Leaving

LEMMA FreshThread == Fresh \in Thread /\ Placed(Fresh)
BY DEF Fresh, Thread, Place, Operation, Placed, Answering, Holding, Leaving

LEMMA EndedThread ==
    ASSUME DaemonTypeOK, NEW q \in Request, Ended(q)
    PROVE  /\ request' \in [Request -> Thread]
           /\ request'[q] = Over
           /\ Others(q)
BY OverThread DEF Ended, DaemonTypeOK, Others

-----------------------------------------------------------------------------
(* Registries.                                                             *)

LEMMA RegistrationsType ==
    ASSUME NEW reg \in SUBSET Project, NEW r \in Root
    PROVE  Registrations(reg, r) \subseteq Project
<1>1. FreeLabels(reg, r) \subseteq Label
  BY HintsAssumption DEF FreeLabels
<1>2. QED
  BY <1>1 DEF Registrations, Project

LEMMA FindType ==
    ASSUME NEW reg \in SUBSET Project, NEW n
    PROVE  /\ Find(reg, n) \subseteq reg
           /\ n \in Label => Find(reg, n) \subseteq ByLabel(reg, n)
BY RootAssumption DEF Find, ByLabel, Around

\* Registering keeps labels and roots apart, for a new root and an old one.
LEMMA RegistrationKeepsUnique ==
    ASSUME NEW reg \in SUBSET Project, Unique(reg), NEW r \in Root,
           NEW p \in Registrations(reg, r)
    PROVE  Unique(reg \cup {p})
<1>1. CASE \E o \in reg : o.root = r
  <2>1. p \in reg
    BY <1>1 DEF Registrations
  <2>2. reg \cup {p} = reg
    BY <2>1
  <2>3. QED
    BY <2>2
<1>2. CASE ~\E o \in reg : o.root = r
  <2>1. /\ p.label \notin LabelsOf(reg)
        /\ p.root = r
    BY <1>2 DEF Registrations, FreeLabels
  <2>2. \A o \in reg : o.label # p.label /\ o.root # p.root
    BY <1>2, <2>1 DEF LabelsOf
  <2>3. QED
    BY <2>2 DEF Unique
<1>3. QED
  BY <1>1, <1>2

LEMMA SubsetUnique ==
    ASSUME NEW reg, Unique(reg), NEW part \in SUBSET reg
    PROVE  Unique(part)
BY DEF Unique

-----------------------------------------------------------------------------
(* Type correctness.                                                       *)

LEMMA PlacedStep ==
    ASSUME RequestsPlaced, NEW q \in Request, Others(q), Placed(request'[q])
    PROVE  RequestsPlaced'
BY DEF RequestsPlaced, Others, Placed

LEMMA HandleType ==
    ASSUME DaemonTypeOK, NEW q \in Request, request[q].target # None
    PROVE  Loaded(q) \in Handle
<1>1. request[q] \in Thread
  BY DEF DaemonTypeOK
<1>2. request[q].target \in Root
  BY <1>1 DEF Thread
<1>3. QED
  BY <1>2 DEF Loaded, Handle, DaemonTypeOK

LEMMA ArrivesTyped ==
    ASSUME TypeInv, NEW q \in Request, Arrives(q)
    PROVE  TypeInv'
<1> USE DEF TypeInv
<1>1. PICK c \in Calls[q] :
          /\ c.op = "add" => c.needle \in Root
          /\ request' = [request EXCEPT ![q] =
                [at |-> First(c.op), op |-> c.op, needle |-> c.needle,
                 project |-> None, target |-> None, handle |-> None,
                 since |-> IF c.op \in {"add", "reindex"} THEN config ELSE request[q].since]]
  BY Zenon DEF Arrives
<1>2. c \in Call /\ request[q] \in Thread
  BY CallsAssumption DEF DaemonTypeOK
<1>3. /\ First(c.op) \in {"register", "remove", "find"}
      /\ First(c.op) = "register" => c.op = "add"
      /\ First(c.op) = "find" => c.op \in {"reindex", "search"}
  BY <1>2 DEF First, Call, Operation
<1>4. DEFINE t == [at |-> First(c.op), op |-> c.op, needle |-> c.needle,
                   project |-> None, target |-> None, handle |-> None,
                   since |-> IF c.op \in {"add", "reindex"} THEN config ELSE request[q].since]
<1>5. t \in Thread
  BY <1>2, <1>3 DEF Thread, Call, Place, DaemonTypeOK
<1>6. Placed(t)
  BY <1>1, <1>3 DEF Placed, Answering, Holding, Leaving
<1>7. request' \in [Request -> Thread] /\ request'[q] = t /\ Others(q)
  BY <1>1, <1>5 DEF DaemonTypeOK, Others
<1>8. RequestsPlaced'
  BY <1>6, <1>7, PlacedStep
<1>9. QED
  BY <1>7, <1>8 DEF Arrives, DaemonTypeOK, CommandsPlaced, daemonVars, diskVars, history

\* A step of one thread that keeps the type of everything else.
LEMMA ThreadTyped ==
    ASSUME TypeInv, NEW q \in Request, request' \in [Request -> Thread], Others(q),
           Placed(request'[q]), UNCHANGED <<command, config>>,
           up' \in BOOLEAN, mixed' \in BOOLEAN,
           registry' \in SUBSET Project, file' \in SUBSET Project,
           temp' \in (SUBSET Project) \cup {None},
           acked' \in SUBSET Project, dropped' \in SUBSET Project,
           handles' \in [Label -> Handle \cup {None}],
           jobs' \in [Label -> Status \cup {None}],
           job' \in [Request -> Job \cup {None}],
           faults' \in 0 .. MaxFaults,
           freed' \in SUBSET Label, stuck' \in SUBSET Label, raced' \in SUBSET Label
    PROVE  TypeInv'
<1>1. RequestsPlaced'
  BY PlacedStep DEF TypeInv
<1>2. QED
  BY <1>1 DEF TypeInv, DaemonTypeOK, CommandsPlaced

LEMMA FaultCounted ==
    ASSUME faults \in 0 .. MaxFaults, MayFail, Fault
    PROVE  faults' \in 0 .. MaxFaults
BY BoundsAssumption DEF MayFail, Fault

LEMMA RegistersTyped ==
    ASSUME TypeInv, NEW q \in Request, Registers(q)
    PROVE  TypeInv'
<1> USE DEF TypeInv
<1>1. request[q].needle \in Root /\ request[q].op = "add" /\ request[q] \in Thread
  BY DEF Registers, At, RequestsPlaced, Placed, DaemonTypeOK
<1>2. PICK p \in Registrations(registry, request[q].needle) :
          /\ registry' = registry \cup {p}
          /\ \/ /\ temp' = registry'
                /\ Became(q, "saving", p)
                /\ UNCHANGED faults
             \/ /\ MayFail /\ Fault
                /\ Unsaved(q, p)
                /\ UNCHANGED temp
  BY DEF Registers
<1>3. p \in Project
  BY <1>1, <1>2, RegistrationsType DEF DaemonTypeOK
<1>4. registry' \in SUBSET Project
  BY <1>2, <1>3 DEF DaemonTypeOK
<1>5. UNCHANGED <<up, handles, jobs, job, command, file, config, history>>
  BY DEF Registers
<1>6. CASE temp' = registry' /\ Became(q, "saving", p) /\ UNCHANGED faults
  <2>1. p # None
    BY <1>3, NoneAssumption
  <2>2. /\ request' \in [Request -> Thread]
        /\ request'[q].at = "saving"
        /\ request'[q].project = p
        /\ request'[q].op = "add"
        /\ Others(q)
    BY <1>1, <1>3, <1>6, BecameThread DEF Place
  <2>3. Placed(request'[q])
    BY <2>1, <2>2 DEF Placed, Answering, Holding, Leaving
  <2>4. QED
    BY <1>4, <1>5, <1>6, <2>2, <2>3, ThreadTyped DEF DaemonTypeOK, history
<1>7. CASE MayFail /\ Fault /\ Unsaved(q, p) /\ UNCHANGED temp
  BY <1>4, <1>5, <1>7, EndedThread, OverThread, ThreadTyped, FaultCounted
     DEF DaemonTypeOK, history, Unsaved
<1>8. QED
  BY <1>2, <1>6, <1>7

\* The two ends of a section that saves.
LEMMA RenameTyped ==
    ASSUME DaemonTypeOK, Renamed \/ Gone
    PROVE  file' \in SUBSET Project /\ temp' \in (SUBSET Project) \cup {None}
BY DEF Renamed, Gone, DaemonTypeOK, diskVars

\* A thread that moves on without finding anything new.
LEMMA MovedTyped ==
    ASSUME TypeInv, NEW q \in Request, NEW place \in Place, Moved(q, place),
           request[q].project # None,
           place \in {"check", "invalidate", "resolve"} => request[q].op \in {"add", "reindex"},
           place \notin {"register", "saving", "find", "load", "queue", "spawn"}
    PROVE  /\ request' \in [Request -> Thread]
           /\ Others(q)
           /\ Placed(request'[q])
BY MovedThread DEF TypeInv, Goes, Placed, Answering, Holding, Leaving

LEMMA SavesTyped ==
    ASSUME TypeInv, NEW q \in Request, Saves(q) \/ Drops(q)
    PROVE  TypeInv'
<1> USE DEF TypeInv
<1>1. /\ request[q].project # None
      /\ request[q].at = "saving" => request[q].op = "add"
  BY DEF Saves, Drops, At, RequestsPlaced, Placed, Holding
<1>2. \/ Moved(q, "invalidate") /\ request[q].op = "add"
      \/ Moved(q, "forget")
      \/ Ended(q)
  BY <1>1 DEF Saves, Drops, At
<1>3. /\ request' \in [Request -> Thread]
      /\ Others(q)
      /\ Placed(request'[q])
  BY <1>1, <1>2, MovedTyped, EndedThread, OverThread DEF Place
<1>4. Renamed \/ Gone
  BY DEF Saves, Drops
<1>5. /\ UNCHANGED <<up, daemonVars, job, command, config, faults,
                     acked, mixed, freed, stuck, raced>>
      /\ dropped' \in SUBSET Project
  BY DEF Saves, Drops, DaemonTypeOK, history
<1>6. QED
  BY <1>3, <1>4, <1>5, RenameTyped, ThreadTyped DEF DaemonTypeOK, daemonVars

LEMMA ResolvesTyped ==
    ASSUME DaemonTypeOK, NEW q \in Request, NEW n, Resolves(q, n)
    PROVE  /\ registry' \in SUBSET Project
           /\ freed' \in SUBSET Label
           /\ Find(registry', n) \subseteq registry'
           /\ n \in Label => Find(registry', n) \subseteq ByLabel(registry', n)
<1>1. registry' \in SUBSET Project
  BY DEF Resolves, Known, DaemonTypeOK
<1>2. freed' \in SUBSET Label
  BY DEF Resolves, LabelsOf, DaemonTypeOK, Project
<1>3. QED
  BY <1>1, <1>2, FindType, Zenon

LEMMA FindsTyped ==
    ASSUME TypeInv, NEW q \in Request, Finds(q)
    PROVE  TypeInv'
<1> USE DEF TypeInv
<1> DEFINE n == request[q].needle
           found == Find(registry', n)
<1>1. /\ Resolves(q, n)
      /\ registry' \in SUBSET Project
      /\ freed' \in SUBSET Label
      /\ found \subseteq registry'
  BY ResolvesTyped, Zenon DEF Finds
<1>2. UNCHANGED <<up, handles, jobs, job, command, diskVars, config, faults,
                  acked, dropped, mixed, stuck, raced>>
  BY <1>1 DEF Resolves
<1>3. CASE found = {}
  BY <1>1, <1>2, <1>3, EndedThread, OverThread, ThreadTyped
     DEF Resolves, DaemonTypeOK, diskVars
<1>4. CASE found # {}
  <2>1. PICK p \in found : TRUE
    BY <1>4
  <2>2. p \in Project /\ p # None /\ p.root \in Root /\ p.root # None
    BY <1>1, <2>1, NoneAssumption, RootAssumption DEF Project
  <2> DEFINE place == IF request[q].op = "search" THEN "load" ELSE "check"
             t == [[[request[q] EXCEPT !.at = place] EXCEPT !.project = p]
                      EXCEPT !.target = p.root]
  <2>3. request' = [request EXCEPT ![q] = t]
    BY <2>1, Zenon DEF Finds, DaemonTypeOK
  <2>4. request[q] \in Thread /\ request[q].op \in Operation
    BY DEF DaemonTypeOK, Thread
  <2>5. t \in Thread /\ t.at = place /\ t.project = p /\ t.target = p.root /\ t.op = request[q].op
    BY <2>2, <2>4, Zenon DEF Thread, Place
  <2>6. request[q].op \in {"search", "reindex"}
    BY Zenon DEF Finds, At, RequestsPlaced, Placed
  <2>7. Placed(t)
    BY <2>2, <2>5, <2>6 DEF Placed, Answering, Holding, Leaving
  <2>8. /\ request' \in [Request -> Thread]
        /\ request'[q] = t
        /\ Others(q)
    BY <2>3, <2>5 DEF DaemonTypeOK, Others
  <2>9. QED
    BY <1>1, <1>2, <2>7, <2>8, ThreadTyped DEF DaemonTypeOK, diskVars
<1>5. QED
  BY <1>3, <1>4

LEMMA ChecksTyped ==
    ASSUME TypeInv, NEW q \in Request, Checks(q) \/ Invalidates(q) \/ Forgets(q)
    PROVE  TypeInv'
<1> USE DEF TypeInv
<1>1. /\ request[q].project # None
      /\ request[q].at \in {"check", "invalidate"} => request[q].op \in {"add", "reindex"}
      /\ request[q] \in Thread
  BY DEF Checks, Invalidates, Forgets, At, RequestsPlaced, Placed, Answering, Leaving,
         DaemonTypeOK
<1>2. request[q].project \in Project
  BY <1>1 DEF Thread
<1>3. /\ request' \in [Request -> Thread]
      /\ Others(q)
      /\ Placed(request'[q])
  <2>1. CASE Checks(q)
    BY <1>1, <2>1, MovedTyped, EndedThread, OverThread DEF Checks, At, Place
  <2>2. CASE Invalidates(q)
    BY <1>1, <2>2, MovedTyped DEF Invalidates, At, Place
  <2>3. CASE Forgets(q)
    BY <1>1, <2>3, MovedTyped DEF Forgets, At, Place
  <2>4. QED
    BY <2>1, <2>2, <2>3
<1>4. /\ acked' \in SUBSET Project
      /\ handles' \in [Label -> Handle \cup {None}]
  BY <1>2 DEF Checks, Invalidates, Forgets, Acknowledged, DropsHandle, DaemonTypeOK,
              daemonVars, history, Project
<1>5. UNCHANGED <<up, registry, jobs, job, command, diskVars, config, faults,
                  dropped, mixed, freed, stuck, raced>>
  BY DEF Checks, Invalidates, Forgets, daemonVars, history
<1>6. QED
  BY <1>3, <1>4, <1>5, ThreadTyped DEF DaemonTypeOK, diskVars

LEMMA ReresolvesTyped ==
    ASSUME TypeInv, NEW q \in Request, Reresolves(q)
    PROVE  TypeInv'
<1> USE DEF TypeInv
<1> DEFINE n == request[q].project.label
           found == Find(registry', n)
<1>1. /\ request[q].project # None
      /\ request[q].op \in {"add", "reindex"}
      /\ request[q] \in Thread
  BY DEF Reresolves, At, RequestsPlaced, Placed, Answering, DaemonTypeOK
<1>2. /\ Resolves(q, n)
      /\ registry' \in SUBSET Project
      /\ freed' \in SUBSET Label
      /\ found \subseteq registry'
  BY ResolvesTyped DEF Reresolves
<1>3. UNCHANGED <<up, handles, jobs, job, command, diskVars, config, faults,
                  acked, dropped, mixed, stuck, raced>>
  BY <1>2 DEF Resolves
<1>4. CASE found = {}
  BY <1>2, <1>3, <1>4, EndedThread, OverThread, ThreadTyped
     DEF Resolves, DaemonTypeOK, diskVars
<1>5. CASE found # {}
  <2>1. PICK p \in found : TRUE
    BY <1>5
  <2>2. p \in Project /\ p.root \in Root /\ p.root # None
    BY <1>2, <2>1, RootAssumption DEF Project
  <2> DEFINE t == [[request[q] EXCEPT !.at = "load"] EXCEPT !.target = p.root]
  <2>3. request' = [request EXCEPT ![q] = t]
    BY <2>1, Zenon DEF Reresolves, DaemonTypeOK
  <2>4. /\ t \in Thread /\ t.at = "load" /\ t.target = p.root
        /\ t.project = request[q].project /\ t.op = request[q].op
    BY <1>1, <2>2, Zenon DEF Thread, Place
  <2>5. Placed(t)
    BY <1>1, <2>2, <2>4 DEF Placed, Answering, Holding, Leaving
  <2>6. /\ request' \in [Request -> Thread]
        /\ request'[q] = t
        /\ Others(q)
    BY <2>3, <2>4 DEF DaemonTypeOK, Others
  <2>7. QED
    BY <1>2, <1>3, <2>5, <2>6, ThreadTyped DEF DaemonTypeOK, diskVars
<1>6. QED
  BY <1>4, <1>5

\* What a thread does with the handle it got.
LEMMA ServedThread ==
    ASSUME TypeInv, NEW q \in Request, At(q, "load"), NEW h \in Handle, Served(q, h)
    PROVE  /\ request' \in [Request -> Thread]
           /\ Others(q)
           /\ Placed(request'[q])
           /\ \/ request[q].op = "search" /\ request'[q] = Over
              \/ /\ request'[q].at = "queue"
                 /\ request'[q].handle = h
                 /\ request'[q].op = request[q].op
                 /\ request'[q].op \in {"add", "reindex"}
                 /\ request'[q].project = request[q].project
                 /\ request'[q].since = request[q].since
<1> USE DEF TypeInv
<1>1. CASE request[q].op = "search"
  BY <1>1, EndedThread, OverThread DEF Served
<1>2. CASE request[q].op # "search"
  <2> DEFINE t == [[request[q] EXCEPT !.at = "queue"] EXCEPT !.handle = h]
  <2>1. /\ request[q] \in Thread
        /\ request[q].op \in {"add", "reindex", "search"}
        /\ request[q].project # None
    BY DEF At, RequestsPlaced, Placed, Answering, DaemonTypeOK, Thread, Operation
  <2>2. request' = [request EXCEPT ![q] = t]
    BY <1>2, Zenon DEF Served, DaemonTypeOK
  <2>3. /\ t \in Thread /\ t.at = "queue" /\ t.handle = h /\ t.op = request[q].op
        /\ t.project = request[q].project /\ t.since = request[q].since
    BY <2>1, Zenon DEF Thread, Place
  <2>4. Placed(t)
    BY <1>2, <2>1, <2>3, NoneAssumption DEF Placed, Answering, Holding, Leaving
  <2>5. QED
    BY <1>2, <2>1, <2>2, <2>3, <2>4 DEF DaemonTypeOK, Others
<1>3. QED
  BY <1>1, <1>2

LEMMA LoadsTyped ==
    ASSUME TypeInv, NEW q \in Request, Loads(q)
    PROVE  TypeInv'
<1> USE DEF TypeInv
<1>1. At(q, "load") /\ request[q] \in Thread /\ request[q].project # None
  BY DEF Loads, At, RequestsPlaced, Placed, Answering, DaemonTypeOK
<1>2. request[q].project \in Project /\ request[q].project.label \in Label
  BY <1>1 DEF Thread, Project
<1>3. Loaded(q) \in Handle
  BY <1>1, HandleType DEF At, RequestsPlaced, Placed
<1>4. Cached(q) \in Handle \cup {None}
  BY <1>2 DEF Cached, DaemonTypeOK
<1>5. /\ request' \in [Request -> Thread]
      /\ Others(q)
      /\ Placed(request'[q])
  BY <1>1, <1>3, <1>4, ServedThread, EndedThread, OverThread DEF Loads
<1>6. /\ handles' \in [Label -> Handle \cup {None}]
      /\ faults' \in 0 .. MaxFaults
  BY <1>2, <1>3, FaultCounted DEF Loads, DaemonTypeOK
<1>7. UNCHANGED <<up, registry, jobs, job, command, diskVars, config, history>>
  BY DEF Loads
<1>8. QED
  BY <1>5, <1>6, <1>7, ThreadTyped DEF DaemonTypeOK, diskVars, history

\* A thread that the process cuts off, or that waits for its request.
LEMMA QueuesTyped ==
    ASSUME TypeInv, NEW q \in Request, Queues(q) \/ Spawns(q) \/ Clears(q)
    PROVE  TypeInv'
<1> USE DEF TypeInv
<1>1. /\ request[q] \in Thread
      /\ request[q].project # None
      /\ request[q].at \in {"queue", "spawn"} =>
             request[q].op \in {"add", "reindex"} /\ request[q].handle # None
  BY DEF Queues, Spawns, Clears, At, RequestsPlaced, Placed, Answering, Leaving, DaemonTypeOK
<1>2. request[q].project \in Project /\ request[q].project.label \in Label
  BY <1>1 DEF Thread, Project
<1>3. CASE Queues(q)
  <2>1. Moved(q, "spawn") /\ request[q].at = "queue"
    BY <1>3 DEF Queues, At
  <2>2. /\ request' \in [Request -> Thread]
        /\ Others(q)
        /\ Goes(q, "spawn")
    BY <2>1, MovedThread DEF Place
  <2>3. Placed(request'[q])
    BY <1>1, <2>1, <2>2 DEF Goes, Placed, Answering, Holding, Leaving
  <2>4. /\ jobs' \in [Label -> Status \cup {None}]
        /\ raced' \in SUBSET Label
    BY <1>2, <1>3 DEF Queues, SetJob, Status, DaemonTypeOK
  <2>5. UNCHANGED <<up, registry, handles, job, command, diskVars, config, faults,
                    acked, dropped, mixed, freed, stuck>>
    BY <1>3 DEF Queues
  <2>6. QED
    BY <2>2, <2>3, <2>4, <2>5, ThreadTyped DEF DaemonTypeOK, diskVars
<1>4. CASE Spawns(q)
  <2>1. Ended(q) /\ request[q].at = "spawn"
    BY <1>4 DEF Spawns, At
  <2>2. request[q].handle \in Handle /\ request[q].since \in [Root -> Nat]
    BY <1>1, <2>1 DEF Thread
  <2> DEFINE j == [at |-> "started", label |-> request[q].project.label, ok |-> TRUE,
                   root |-> request[q].handle.root, config |-> request[q].handle.config,
                   asked |-> request[q].project.root, since |-> request[q].since]
  <2>3. j \in Job
    BY <1>2, <2>2 DEF Job, Handle, Project
  <2>4. /\ job' \in [Request -> Job \cup {None}]
        /\ acked' \in SUBSET Project
        /\ faults' \in 0 .. MaxFaults
        /\ stuck' \in SUBSET Label
    <3>1. CASE job' = [job EXCEPT ![q] = j] /\ acked' = Acknowledged(q)
               /\ UNCHANGED <<faults, stuck>>
      BY <1>2, <2>3, <3>1 DEF Acknowledged, DaemonTypeOK
    <3>2. CASE /\ MayFail /\ Fault /\ UNCHANGED <<job, acked>>
               /\ stuck' = stuck \cup {request[q].project.label}
      BY <1>2, <3>2, FaultCounted DEF DaemonTypeOK
    <3>3. QED
      BY <1>4, <3>1, <3>2 DEF Spawns
  <2>5. UNCHANGED <<up, daemonVars, command, diskVars, config,
                    dropped, mixed, freed, raced>>
    BY <1>4 DEF Spawns
  <2>6. QED
    BY <2>1, <2>4, <2>5, EndedThread, OverThread, ThreadTyped
       DEF DaemonTypeOK, diskVars, daemonVars
<1>5. CASE Clears(q)
  <2>1. /\ jobs' \in [Label -> Status \cup {None}]
        /\ stuck' \in SUBSET Label
        /\ Ended(q)
        /\ UNCHANGED <<up, registry, handles, job, command, diskVars, config, faults,
                       acked, dropped, mixed, freed, raced>>
    BY <1>2, <1>5 DEF Clears, DaemonTypeOK
  <2>2. QED
    BY <2>1, EndedThread, OverThread, ThreadTyped DEF DaemonTypeOK, diskVars
<1>6. QED
  BY <1>3, <1>4, <1>5

LEMMA RemovesTyped ==
    ASSUME TypeInv, NEW q \in Request, Removes(q)
    PROVE  TypeInv'
<1> USE DEF TypeInv
<1>1. request[q] \in Thread
  BY DEF DaemonTypeOK
<1>2. UNCHANGED <<up, handles, jobs, job, command, file, config, acked, mixed, stuck, raced>>
  BY DEF Removes
<1>3. CASE /\ Ended(q)
           /\ UNCHANGED <<registry, temp, faults, dropped, freed>>
  BY <1>2, <1>3, EndedThread, OverThread, ThreadTyped DEF DaemonTypeOK
<1>4. ASSUME NEW p \in Removals(registry, request[q].needle),
             /\ registry' = registry \ {p}
             /\ dropped' = dropped \cup {p}
             /\ freed' = freed \cup {p.label}
             /\ \/ temp' = registry' /\ Became(q, "dropping", p) /\ UNCHANGED faults
                \/ MayFail /\ Fault /\ Ended(q) /\ UNCHANGED temp
      PROVE  TypeInv'
  <2>1. p \in Project /\ p # None /\ p.label \in Label
    BY NoneAssumption DEF Removals, DaemonTypeOK, Project
  <2>2. /\ registry' \in SUBSET Project
        /\ temp' \in (SUBSET Project) \cup {None}
        /\ dropped' \in SUBSET Project
        /\ freed' \in SUBSET Label
        /\ faults' \in 0 .. MaxFaults
    BY <1>4, <2>1, FaultCounted DEF DaemonTypeOK
  <2>3. /\ request' \in [Request -> Thread]
        /\ Others(q)
        /\ Placed(request'[q])
    <3>1. CASE Became(q, "dropping", p)
      <4>1. /\ request' \in [Request -> Thread]
            /\ request'[q].at = "dropping"
            /\ request'[q].project = p
            /\ Others(q)
        BY <2>1, <3>1, BecameThread DEF Place
      <4>2. QED
        BY <2>1, <4>1 DEF Placed, Answering, Holding, Leaving
    <3>2. CASE Ended(q)
      BY <3>2, EndedThread, OverThread
    <3>3. QED
      BY <1>4, <3>1, <3>2
  <2>4. QED
    BY <1>2, <2>2, <2>3, ThreadTyped DEF DaemonTypeOK
<1>5. QED
  BY <1>3, <1>4 DEF Removes

LEMMA ServeTyped ==
    ASSUME TypeInv, NEW q \in Request, Serve(q)
    PROVE  TypeInv'
BY ArrivesTyped, RegistersTyped, SavesTyped, FindsTyped, ChecksTyped, ReresolvesTyped,
   LoadsTyped, QueuesTyped, RemovesTyped DEF Serve

LEMMA WorkTyped ==
    ASSUME TypeInv, NEW q \in Request, Work(q)
    PROVE  TypeInv'
<1> USE DEF TypeInv
<1>1. job[q] \in Job /\ job[q].label \in Label
  BY DEF Work, Indexes, Succeeds, Errs, Finishes, Panics, JobAt, Live, DaemonTypeOK, Job
<1>2. /\ [job[q] EXCEPT !.at = "working"] \in Job
      /\ [job[q] EXCEPT !.at = "closing"] \in Job
      /\ [[job[q] EXCEPT !.at = "closing"] EXCEPT !.ok = FALSE] \in Job
  BY <1>1, Zenon DEF Job
<1>3. /\ jobs' \in [Label -> Status \cup {None}]
      /\ job' \in [Request -> Job \cup {None}]
      /\ stuck' \in SUBSET Label
      /\ faults' \in 0 .. MaxFaults
  <2>1. CASE Indexes(q) \/ Succeeds(q)
    BY <1>1, <1>2, <2>1 DEF Indexes, Succeeds, SetJob, JobMoved, Status, DaemonTypeOK
  <2>2. CASE Errs(q)
    BY <1>1, <1>2, <2>2, FaultCounted DEF Errs, DaemonTypeOK
  <2>3. CASE Finishes(q)
    BY <1>1, <2>3 DEF Finishes, FinishedJobs, JobGone, Status, DaemonTypeOK
  <2>4. CASE Panics(q)
    BY <1>1, <2>4, FaultCounted DEF Panics, JobGone, DaemonTypeOK
  <2>5. QED
    BY <2>1, <2>2, <2>3, <2>4 DEF Work
<1>4. UNCHANGED <<up, registry, handles, request, command, diskVars, config,
                  acked, dropped, mixed, freed, raced>>
  BY DEF Work
<1>5. QED
  BY <1>3, <1>4 DEF DaemonTypeOK, RequestsPlaced, CommandsPlaced, diskVars

LEMMA CommandTyped ==
    ASSUME TypeInv, NEW c \in Command, Reads(c) \/ Writes(c) \/ Replaces(c)
    PROVE  TypeInv'
<1> USE DEF TypeInv
<1>1. /\ command[c] \in Process
      /\ command[c].at \in {"loaded", "saving"} =>
             command[c].project \in Project /\ command[c].project # None
  BY DEF DaemonTypeOK, CommandsPlaced, Process
<1>2. Exited \in Process /\ Exited.at = "over"
  BY DEF Exited, Idle, Process
<1>3. /\ command' \in [Command -> Process]
      /\ CommandsPlaced'
  <2>1. CASE Reads(c)
    <3>1. CASE command' = [command EXCEPT ![c] = Exited]
      BY <1>2, <3>1 DEF DaemonTypeOK, CommandsPlaced
    <3>2. ASSUME NEW o \in Orders[c], o.op \in {"add", "remove"},
                 o.op = "add" => o.needle \in Root,
                 NEW p \in IF o.op = "add" THEN Registrations(file, o.needle)
                            ELSE Removals(file, o.needle),
                 command' = [command EXCEPT ![c] =
                     [at |-> "loaded", base |-> file, op |-> o.op, project |-> p]]
          PROVE  command' \in [Command -> Process] /\ CommandsPlaced'
      <4>1. file \in SUBSET Project
        BY DEF DaemonTypeOK
      <4>2. p \in Project /\ p # None
        BY <3>2, <4>1, RegistrationsType, NoneAssumption DEF Removals
      <4> DEFINE t == [at |-> "loaded", base |-> file, op |-> o.op, project |-> p]
      <4>3. t \in Process /\ t.project # None
        BY <3>2, <4>1, <4>2 DEF Process
      <4>4. QED
        BY <3>2, <4>3 DEF DaemonTypeOK, CommandsPlaced
    <3>3. QED
      BY <2>1, <3>1, <3>2 DEF Reads
  <2>2. CASE Writes(c)
    <3>1. /\ [command[c] EXCEPT !.at = "saving"] \in Process
          /\ [command[c] EXCEPT !.at = "saving"].project # None
      BY <1>1, <2>2 DEF Process, Writes
    <3>2. QED
      BY <2>2, <3>1 DEF Writes, DaemonTypeOK, CommandsPlaced
  <2>3. CASE Replaces(c)
    BY <1>2, <2>3 DEF Replaces, DaemonTypeOK, CommandsPlaced
  <2>4. QED
    BY <2>1, <2>2, <2>3
<1>4. /\ file' \in SUBSET Project
      /\ temp' \in (SUBSET Project) \cup {None}
  <2>1. CASE Reads(c)
    BY <2>1 DEF Reads, diskVars, DaemonTypeOK
  <2>2. CASE Writes(c)
    BY <1>1, <2>2 DEF Writes, Edited, DaemonTypeOK, Process
  <2>3. CASE Replaces(c)
    BY <2>3, RenameTyped DEF Replaces
  <2>4. QED
    BY <2>1, <2>2, <2>3
<1>5. /\ acked' \in SUBSET Project
      /\ dropped' \in SUBSET Project
      /\ mixed' \in BOOLEAN
  BY <1>1, Zenon DEF Reads, Writes, Replaces, history, DaemonTypeOK, Beside
<1>6. UNCHANGED <<up, daemonVars, request, job, config, faults, freed, stuck, raced>>
  BY DEF Reads, Writes, Replaces, history
<1>7. QED
  BY <1>3, <1>4, <1>5, <1>6 DEF DaemonTypeOK, RequestsPlaced, daemonVars

LEMMA EditsTyped ==
    ASSUME TypeInv, NEW r \in Root, Edits(r)
    PROVE  TypeInv'
<1>1. config' \in [Root -> Nat]
  BY DEF TypeInv, Edits, DaemonTypeOK
<1>2. QED
  BY <1>1 DEF TypeInv, Edits, DaemonTypeOK, RequestsPlaced, CommandsPlaced,
              daemonVars, diskVars, history

LEMMA StopsTyped ==
    ASSUME TypeInv, Stops
    PROVE  TypeInv'
<1> USE DEF TypeInv
<1>1. /\ request' \in [Request -> Thread]
      /\ RequestsPlaced'
  BY OverThread DEF Stops, DaemonTypeOK, RequestsPlaced
<1>2. job' \in [Request -> Job \cup {None}]
  BY DEF Stops
<1>3. QED
  BY <1>1, <1>2, FaultCounted, Zenon
     DEF Stops, DaemonTypeOK, CommandsPlaced, daemonVars, diskVars, history

LEMMA StartsTyped ==
    ASSUME TypeInv, Starts
    PROVE  TypeInv'
BY DEF TypeInv, Starts, DaemonTypeOK, RequestsPlaced, CommandsPlaced, diskVars

LEMMA StutterTyped ==
    ASSUME TypeInv, UNCHANGED vars
    PROVE  TypeInv'
BY DEF TypeInv, vars, DaemonTypeOK, RequestsPlaced, CommandsPlaced, daemonVars, diskVars,
       history

LEMMA InitTyped == Init => TypeInv
<1> SUFFICES ASSUME Init
             PROVE  TypeInv
  OBVIOUS
<1>1. Idle \in Process /\ Idle.at = "idle"
  BY DEF Idle, Process
<1>2. /\ request \in [Request -> Thread] /\ RequestsPlaced
      /\ command \in [Command -> Process] /\ CommandsPlaced
  BY <1>1, FreshThread DEF Init, RequestsPlaced, CommandsPlaced
<1>3. faults \in 0 .. MaxFaults
  BY BoundsAssumption DEF Init
<1>4. QED
  BY <1>2, <1>3, Zenon DEF Init, TypeInv, DaemonTypeOK

LEMMA NextTyped == TypeInv /\ [Next]_vars => TypeInv'
BY ServeTyped, WorkTyped, CommandTyped, EditsTyped, StopsTyped, StartsTyped, StutterTyped
   DEF Next

LEMMA SpecTyped == Spec => []TypeInv
BY InitTyped, NextTyped, PTL DEF Spec

\* Every variable keeps its type, and a thread comes to a section only with
\* what the section needs (the project, the root, the handle).
THEOREM DaemonTypeCorrect == Spec => []DaemonTypeOK
<1>1. TypeInv => DaemonTypeOK
  BY DEF TypeInv
<1>2. QED
  BY <1>1, SpecTyped, PTL

-----------------------------------------------------------------------------
(* Registries name every project once.                                     *)

\* A command that has loaded the file writes a registry of the same kind.
EditsUnique == \A c \in Command : command[c].at = "loaded" => Unique(Edited(c))

UniqueInv == TypeInv /\ LabelsAndRootsUnique /\ EditsUnique

LEMMA RenameUnique ==
    ASSUME LabelsAndRootsUnique, Renamed \/ Gone
    PROVE  Unique(file') /\ (temp' # None => Unique(temp'))
BY DEF LabelsAndRootsUnique, Renamed, Gone, diskVars

\* A section of a request that writes nothing but the registry in memory.
LEMMA ServeUnique ==
    ASSUME UniqueInv, NEW q \in Request, Serve(q)
    PROVE  LabelsAndRootsUnique' /\ EditsUnique'
<1> USE DEF UniqueInv
<1>1. UNCHANGED command
  BY Zenon DEF Serve, Arrives, Registers, Saves, Finds, Invalidates, Checks, Reresolves, Resolves,
         Loads, Queues, Spawns, Removes, Drops, Forgets, Clears
<1>2. EditsUnique'
  BY <1>1 DEF EditsUnique, Edited
<1>3. CASE Registers(q)
  <2>1. PICK p \in Registrations(registry, request[q].needle) :
            /\ registry' = registry \cup {p}
            /\ temp' = registry' \/ UNCHANGED temp
    BY <1>3 DEF Registers
  <2>2. registry \in SUBSET Project /\ request[q].needle \in Root
    BY <1>3 DEF Registers, At, TypeInv, DaemonTypeOK, RequestsPlaced, Placed
  <2>3. Unique(registry')
    BY <2>1, <2>2, RegistrationKeepsUnique DEF LabelsAndRootsUnique
  <2>4. QED
    BY <1>2, <1>3, <2>1, <2>3 DEF Registers, LabelsAndRootsUnique
<1>4. CASE Saves(q) \/ Drops(q)
  BY <1>2, <1>4, RenameUnique DEF Saves, Drops, daemonVars, LabelsAndRootsUnique
<1>5. CASE Finds(q) \/ Reresolves(q)
  BY <1>2, <1>5, Zenon DEF Finds, Reresolves, Resolves, Known, diskVars, LabelsAndRootsUnique
<1>6. CASE Removes(q)
  <2>1. /\ registry' \in SUBSET registry
        /\ temp' = registry' \/ UNCHANGED temp
        /\ UNCHANGED file
    BY <1>6 DEF Removes
  <2>2. QED
    BY <1>2, <2>1, SubsetUnique DEF LabelsAndRootsUnique
<1>7. CASE \/ Arrives(q) \/ Invalidates(q) \/ Checks(q) \/ Loads(q) \/ Queues(q)
           \/ Spawns(q) \/ Forgets(q) \/ Clears(q)
  BY <1>2, <1>7 DEF Arrives, Invalidates, Checks, Loads, Queues, Spawns, Forgets, Clears,
                    daemonVars, diskVars, LabelsAndRootsUnique
<1>8. QED
  BY <1>3, <1>4, <1>5, <1>6, <1>7 DEF Serve

LEMMA CommandUnique ==
    ASSUME UniqueInv, NEW c \in Command, Reads(c) \/ Writes(c) \/ Replaces(c)
    PROVE  LabelsAndRootsUnique' /\ EditsUnique'
<1> USE DEF UniqueInv
<1>1. UNCHANGED registry
  BY DEF Reads, Writes, Replaces, daemonVars
<1>2. CASE Reads(c)
  <2>1. LabelsAndRootsUnique'
    BY <1>1, <1>2 DEF Reads, diskVars, LabelsAndRootsUnique
  <2>2. CASE command' = [command EXCEPT ![c] = Exited]
    BY <2>1, <2>2, Zenon DEF Exited, Idle, EditsUnique, Edited, TypeInv, DaemonTypeOK
  <2>3. ASSUME NEW o \in Orders[c],
               o.op \in {"add", "remove"}, o.op = "add" => o.needle \in Root,
               NEW p \in IF o.op = "add" THEN Registrations(file, o.needle)
                         ELSE Removals(file, o.needle),
               command' = [command EXCEPT ![c] =
                   [at |-> "loaded", base |-> file, op |-> o.op, project |-> p]]
        PROVE  EditsUnique'
    <3>1. Unique(file) /\ file \in SUBSET Project
      BY DEF LabelsAndRootsUnique, TypeInv, DaemonTypeOK
    <3>2. Unique(IF o.op = "add" THEN file \cup {p} ELSE file \ {p})
      <4>1. CASE o.op = "add"
        BY <2>3, <3>1, <4>1, RegistrationKeepsUnique
      <4>2. CASE o.op # "add"
        BY <3>1, <4>2, SubsetUnique
      <4>3. QED
        BY <4>1, <4>2
    <3>3. \A b \in Command \ {c} : command'[b] = command[b]
      BY <2>3 DEF TypeInv, DaemonTypeOK
    <3>4. command'[c] = [at |-> "loaded", base |-> file, op |-> o.op, project |-> p]
      BY <2>3 DEF TypeInv, DaemonTypeOK
    <3>5. Edited(c)' = IF o.op = "add" THEN file \cup {p} ELSE file \ {p}
      BY <3>4 DEF Edited
    <3>6. \A b \in Command \ {c} : Edited(b)' = Edited(b)
      BY <3>3 DEF Edited
    <3>7. QED
      BY <3>2, <3>3, <3>5, <3>6, Zenon DEF EditsUnique
  <2>4. QED
    BY <1>2, <2>1, <2>2, <2>3 DEF Reads
<1>3. CASE Writes(c)
  <2>1. Unique(temp') /\ UNCHANGED file
    BY <1>3 DEF Writes, EditsUnique
  <2>2. /\ command'[c].at = "saving"
        /\ \A b \in Command \ {c} : command'[b] = command[b]
    BY <1>3 DEF Writes, TypeInv, DaemonTypeOK, Process
  <2>3. QED
    BY <1>1, <2>1, <2>2 DEF EditsUnique, Edited, LabelsAndRootsUnique
<1>4. CASE Replaces(c)
  <2>1. /\ command'[c].at = "over"
        /\ \A b \in Command \ {c} : command'[b] = command[b]
    BY <1>4 DEF Replaces, TypeInv, DaemonTypeOK, Exited, Idle
  <2>2. QED
    BY <1>1, <1>4, <2>1, RenameUnique DEF Replaces, EditsUnique, Edited, LabelsAndRootsUnique
<1>5. QED
  BY <1>2, <1>3, <1>4

LEMMA NextUnique == UniqueInv /\ [Next]_vars => UniqueInv'
<1> SUFFICES ASSUME UniqueInv, [Next]_vars
             PROVE  UniqueInv'
  OBVIOUS
<1>1. TypeInv'
  BY NextTyped DEF UniqueInv
<1>2. ASSUME UNCHANGED <<registry, diskVars, command>>
      PROVE  LabelsAndRootsUnique' /\ EditsUnique'
  BY <1>2 DEF UniqueInv, LabelsAndRootsUnique, EditsUnique, Edited, diskVars
<1>3. CASE \/ \E q \in Request : Work(q)
           \/ \E r \in Root : Edits(r)
           \/ Stops
           \/ UNCHANGED vars
  BY <1>1, <1>2, <1>3 DEF Work, Edits, Stops, vars, daemonVars, UniqueInv
<1>4. CASE Starts
  BY <1>1, <1>4, Zenon DEF Starts, UniqueInv, LabelsAndRootsUnique, EditsUnique, Edited, diskVars
<1>5. QED
  BY <1>1, <1>3, <1>4, ServeUnique, CommandUnique DEF Next, UniqueInv

LEMMA InitUnique == Init => UniqueInv
BY InitTyped DEF Init, Idle, UniqueInv, LabelsAndRootsUnique, EditsUnique, Unique

LEMMA SpecUnique == Spec => []UniqueInv
BY InitUnique, NextUnique, PTL DEF Spec

\* However saves, failures, reloads and other processes interleave, a registry
\* names every project by one label and every root once.
THEOREM ProjectsAreNamedOnce == Spec => []LabelsAndRootsUnique
<1>1. UniqueInv => LabelsAndRootsUnique
  BY DEF UniqueInv
<1>2. QED
  BY <1>1, SpecUnique, PTL

-----------------------------------------------------------------------------
(* A status that still runs has a job.                                     *)

\* A job outlives the thread of its request, and starts when that ends.
JobsOfOver == \A q \in Request : Live(q) => request[q].at = "over"

\* No thread outlives the daemon.
Confined == ~up => \A q \in Request : request[q].at \in {"new", "over"} /\ ~Live(q)

ThreadInv == TypeInv /\ JobsOfOver /\ Confined

\* One section of a request: it ran while the daemon was up, it touched its own
\* thread, and only its end could make a job.
LEMMA ServeOthers ==
    ASSUME TypeInv, NEW q \in Request, Serve(q)
    PROVE  /\ up /\ up' /\ Others(q)
           /\ request[q].at # "over"
           /\ UNCHANGED <<command, config>>
           /\ Spawns(q) \/ UNCHANGED job
<1> USE DEF TypeInv
<1>1. UNCHANGED up
  BY Zenon DEF Serve, Arrives, Registers, Saves, Finds, Resolves, Invalidates, Checks, Reresolves,
         Loads, Queues, Spawns, Removes, Drops, Forgets, Clears
<1>2. up /\ request[q].at # "over"
  BY Zenon DEF Serve, Arrives, Registers, Saves, Finds, Invalidates, Checks, Reresolves,
         Loads, Queues, Spawns, Removes, Drops, Forgets, Clears, At
<1>3. /\ UNCHANGED <<command, config>>
      /\ Spawns(q) \/ UNCHANGED job
  BY Zenon DEF Serve, Arrives, Registers, Saves, Finds, Resolves, Invalidates, Checks, Reresolves,
         Loads, Queues, Spawns, Removes, Drops, Forgets, Clears
<1>4. ASSUME Ended(q) \/ \E place \in Place : Moved(q, place)
      PROVE  Others(q)
  BY <1>4, EndedThread, MovedThread
<1>5. Others(q)
  <2>1. CASE Arrives(q)
    BY <2>1 DEF Arrives, Others, DaemonTypeOK
  <2>2. CASE Registers(q) \/ Removes(q)
    BY <2>2 DEF Registers, Removes, Unsaved, Ended, Became, Others, DaemonTypeOK
  <2>3. CASE Saves(q) \/ Drops(q) \/ Invalidates(q) \/ Checks(q) \/ Queues(q) \/ Spawns(q)
             \/ Forgets(q) \/ Clears(q)
    BY <1>4, <2>3 DEF Saves, Drops, Invalidates, Checks, Queues, Spawns, Forgets, Clears, Place
  <2>4. CASE Finds(q)
    <3>1. CASE Find(registry', request[q].needle) = {}
      BY <1>4, <2>4, <3>1 DEF Finds, Resolves
    <3>2. CASE Find(registry', request[q].needle) # {}
      BY <2>4, <3>2, Zenon DEF Finds, Others, DaemonTypeOK
    <3>3. QED
      BY <3>1, <3>2
  <2>5. CASE Reresolves(q)
    <3>1. CASE Find(registry', request[q].project.label) = {}
      BY <1>4, <2>5, <3>1 DEF Reresolves, Resolves
    <3>2. CASE Find(registry', request[q].project.label) # {}
      BY <2>5, <3>2 DEF Reresolves, Others, DaemonTypeOK
    <3>3. QED
      BY <3>1, <3>2
  <2>6. CASE Loads(q)
    BY <1>4, <2>6 DEF Loads, Served, Others, DaemonTypeOK
  <2>7. QED
    BY <2>1, <2>2, <2>3, <2>4, <2>5, <2>6 DEF Serve
<1>6. QED
  BY <1>1, <1>2, <1>3, <1>5

LEMMA SpawnedJob ==
    ASSUME TypeInv, NEW q \in Request, Spawns(q)
    PROVE  /\ \A o \in Request \ {q} : job'[o] = job[o]
           /\ request'[q] = Over
           /\ \/ /\ job'[q] # None
                 /\ job'[q].label = request[q].project.label
                 /\ job'[q].root = request[q].handle.root
                 /\ job'[q].config = request[q].handle.config
                 /\ job'[q].asked = request[q].project.root
                 /\ job'[q].since = request[q].since
                 /\ UNCHANGED stuck
              \/ /\ UNCHANGED job
                 /\ stuck' = stuck \cup {request[q].project.label}
<1> USE DEF TypeInv
<1>1. TypeInv' /\ request'[q] = Over
  BY QueuesTyped, EndedThread DEF Spawns
<1> DEFINE j == [at |-> "started", label |-> request[q].project.label, ok |-> TRUE,
                 root |-> request[q].handle.root, config |-> request[q].handle.config,
                 asked |-> request[q].project.root, since |-> request[q].since]
<1>2. CASE job' = [job EXCEPT ![q] = j] /\ UNCHANGED stuck
  <2>1. job'[q] = j /\ \A o \in Request \ {q} : job'[o] = job[o]
    BY <1>2 DEF DaemonTypeOK
  <2>2. j # None
    <3>1. /\ request[q] \in Thread /\ request[q].project # None /\ request[q].handle # None
      BY DEF Spawns, At, RequestsPlaced, Placed, Answering, DaemonTypeOK
    <3>2. j \in Job
      BY <3>1 DEF Thread, Job, Project, Handle
    <3>3. QED
      BY <3>2, NoneAssumption, Zenon
  <2>3. QED
    BY <1>1, <1>2, <2>1, <2>2
<1>3. CASE UNCHANGED job /\ stuck' = stuck \cup {request[q].project.label}
  BY <1>1, <1>3
<1>4. QED
  BY <1>2, <1>3 DEF Spawns

\* A step of a job changes nothing of the others, nor what it indexes.
LEMMA WorkOthers ==
    ASSUME TypeInv, NEW q \in Request, Work(q)
    PROVE  /\ Live(q)
           /\ \A o \in Request \ {q} : job'[o] = job[o]
           /\ \/ job'[q] = None
              \/ /\ job'[q] # None
                 /\ job'[q].label = job[q].label
                 /\ job'[q].root = job[q].root
                 /\ job'[q].config = job[q].config
                 /\ job'[q].asked = job[q].asked
                 /\ job'[q].since = job[q].since
<1> USE DEF TypeInv
<1>1. Live(q) /\ job[q] \in Job
  BY DEF Work, Indexes, Succeeds, Errs, Finishes, Panics, JobAt, Live, DaemonTypeOK
<1>2. \A o \in Request \ {q} : job'[o] = job[o]
  BY DEF Work, Indexes, Succeeds, Errs, Finishes, Panics, JobMoved, JobGone, DaemonTypeOK
<1>3. CASE Finishes(q) \/ Panics(q)
  BY <1>1, <1>2, <1>3 DEF Finishes, Panics, JobGone, DaemonTypeOK
<1>4. CASE Indexes(q) \/ Succeeds(q) \/ Errs(q)
  <2>1. \/ job'[q] = [job[q] EXCEPT !.at = "working"]
        \/ job'[q] = [job[q] EXCEPT !.at = "closing"]
        \/ job'[q] = [[job[q] EXCEPT !.at = "closing"] EXCEPT !.ok = FALSE]
    BY <1>4 DEF Indexes, Succeeds, Errs, JobMoved, DaemonTypeOK
  <2>2. /\ job'[q] \in Job
        /\ job'[q].label = job[q].label
        /\ job'[q].root = job[q].root
        /\ job'[q].config = job[q].config
        /\ job'[q].asked = job[q].asked
        /\ job'[q].since = job[q].since
    BY <1>1, <2>1, Zenon DEF Job
  <2>3. job'[q] # None
    BY <2>2, NoneAssumption
  <2>4. QED
    BY <1>1, <1>2, <2>2, <2>3
<1>5. QED
  BY <1>3, <1>4 DEF Work

LEMMA NextThreads == ThreadInv /\ [Next]_vars => ThreadInv'
<1> SUFFICES ASSUME ThreadInv, [Next]_vars
             PROVE  ThreadInv'
  OBVIOUS
<1> USE DEF ThreadInv
<1>1. TypeInv'
  BY NextTyped
<1>2. ASSUME NEW q \in Request, Serve(q)
      PROVE  JobsOfOver' /\ Confined'
  <2>1. up' /\ Others(q) /\ request[q].at # "over" /\ (Spawns(q) \/ UNCHANGED job)
    BY <1>2, ServeOthers
  <2>2. CASE Spawns(q)
    BY <2>1, <2>2, SpawnedJob, OverThread DEF JobsOfOver, Confined, Live, Others
  <2>3. CASE UNCHANGED job
    BY <2>1, <2>3 DEF JobsOfOver, Confined, Live, Others
  <2>4. QED
    BY <2>1, <2>2, <2>3
<1>3. ASSUME NEW q \in Request, Work(q)
      PROVE  JobsOfOver' /\ Confined'
  <2>1. up' /\ UNCHANGED request
    BY <1>3 DEF Work
  <2>2. QED
    BY <1>3, <2>1, WorkOthers DEF JobsOfOver, Confined, Live
<1>4. CASE \/ \E c \in Command : Reads(c) \/ Writes(c) \/ Replaces(c)
           \/ \E r \in Root : Edits(r)
           \/ UNCHANGED vars
  BY <1>1, <1>4 DEF Reads, Writes, Replaces, Edits, vars, JobsOfOver, Confined, Live
<1>5. CASE Stops
  BY <1>1, <1>5, OverThread DEF Stops, JobsOfOver, Confined, Live
<1>6. CASE Starts
  BY <1>1, <1>6 DEF Starts, JobsOfOver, Confined, Live
<1>7. QED
  BY <1>1, <1>2, <1>3, <1>4, <1>5, <1>6 DEF Next

LEMMA SpecThreads == Spec => []ThreadInv
<1>1. Init => ThreadInv
  BY InitTyped DEF Init, ThreadInv, JobsOfOver, Confined, Live
<1>2. QED
  BY <1>1, NextThreads, PTL DEF Spec

LEMMA ServeStatus ==
    ASSUME ThreadInv, StatusHasAJob, NEW q \in Request, Serve(q)
    PROVE  StatusHasAJob'
<1> USE DEF ThreadInv
<1>1. up /\ up' /\ Others(q) /\ (Spawns(q) \/ UNCHANGED job)
  BY ServeOthers
<1>2. CASE Queues(q)
  <2>1. /\ jobs' = [jobs EXCEPT ![request[q].project.label] = "running"]
        /\ UNCHANGED <<stuck, job>>
        /\ request[q].at = "queue"
    BY <1>2 DEF Queues, SetJob, At
  <2>2. request'[q].at = "spawn" /\ request'[q].project = request[q].project
    BY <1>2, MovedThread DEF Queues, Goes, Place, TypeInv
  <2>3. ASSUME NEW l \in Label, Running(l)', l # request[q].project.label
        PROVE  Running(l)
    BY <2>1, <2>3 DEF Running, TypeInv, DaemonTypeOK
  <2>4. QED
    BY <1>1, <2>1, <2>2, <2>3 DEF StatusHasAJob, Live, Others
<1>3. CASE Spawns(q)
  <2>1. UNCHANGED jobs /\ request[q].at = "spawn"
    BY <1>3 DEF Spawns, daemonVars, At
  <2>2. QED
    BY <1>1, <1>3, <2>1, SpawnedJob DEF StatusHasAJob, Live, Others, Running, JobsOfOver
<1>4. CASE Clears(q)
  <2>1. /\ jobs' = [jobs EXCEPT ![request[q].project.label] = None]
        /\ stuck' = stuck \ {request[q].project.label}
        /\ UNCHANGED job
        /\ request[q].at = "clear"
    BY <1>4 DEF Clears, At
  <2>2. ASSUME NEW l \in Label, Running(l)'
        PROVE  Running(l) /\ l # request[q].project.label
    BY <2>1, <2>2, NoneAssumption DEF Running, Status, TypeInv, DaemonTypeOK
  <2>3. QED
    BY <1>1, <2>1, <2>2 DEF StatusHasAJob, Live, Others
<1>5. CASE ~(Queues(q) \/ Spawns(q) \/ Clears(q))
  <2>1. UNCHANGED <<jobs, stuck, job>> /\ request[q].at # "spawn"
    BY <1>5, Zenon DEF Serve, Arrives, Registers, Saves, Finds, Resolves, Invalidates, Checks,
       Reresolves, Loads, Removes, Drops, Forgets, At, daemonVars, history
  <2>2. QED
    BY <1>1, <2>1 DEF StatusHasAJob, Live, Others, Running
<1>6. QED
  BY <1>2, <1>3, <1>4, <1>5

LEMMA WorkStatus ==
    ASSUME ThreadInv, StatusHasAJob, NEW q \in Request, Work(q)
    PROVE  StatusHasAJob'
<1> USE DEF ThreadInv
<1>1. /\ up /\ up' /\ UNCHANGED request
      /\ \A o \in Request \ {q} : job'[o] = job[o]
      /\ Live(q) /\ job[q].label \in Label
  BY WorkOthers DEF Work, Live, TypeInv, DaemonTypeOK, Job
<1>2. CASE Indexes(q) \/ Succeeds(q) \/ Errs(q)
  <2>1. /\ UNCHANGED stuck
        /\ jobs' = jobs \/ jobs' = [jobs EXCEPT ![job[q].label] = "running"]
    BY <1>2 DEF Indexes, Succeeds, Errs, SetJob
  <2>2. job'[q] # None
    <3>1. job[q] \in Job
      BY <1>1 DEF Live, TypeInv, DaemonTypeOK
    <3>2. job'[q] \in Job
      BY <1>2, <3>1 DEF Indexes, Succeeds, Errs, JobMoved, TypeInv, DaemonTypeOK, Job
    <3>3. QED
      BY <3>2, NoneAssumption
  <2>3. job'[q].label = job[q].label
    BY <2>2, WorkOthers
  <2>4. ASSUME NEW l \in Label, Running(l)', l # job[q].label
        PROVE  Running(l)
    BY <2>1, <2>4 DEF Running, TypeInv, DaemonTypeOK
  <2>5. QED
    BY <1>1, <2>1, <2>2, <2>3, <2>4 DEF StatusHasAJob, Live
<1>3. CASE Finishes(q)
  <2>1. /\ jobs' = [jobs EXCEPT ![job[q].label] = IF job[q].ok THEN "done" ELSE "failed"]
        /\ stuck' = stuck \ {job[q].label}
    BY <1>3 DEF Finishes, FinishedJobs
  <2>2. ASSUME NEW l \in Label, Running(l)'
        PROVE  Running(l) /\ l # job[q].label
    BY <2>1, <2>2 DEF Running, TypeInv, DaemonTypeOK
  <2>3. QED
    BY <1>1, <2>1, <2>2 DEF StatusHasAJob, Live
<1>4. CASE Panics(q)
  BY <1>1, <1>4 DEF Panics, StatusHasAJob, Live, Running
<1>5. QED
  BY <1>2, <1>3, <1>4 DEF Work

\* Unless a thread died or could not be started, a label that is said to be
\* indexed is indexed by a job, or about to be.
THEOREM StatusIsOfAJob == Spec => []StatusHasAJob
<1>1. Init => StatusHasAJob
  BY NoneAssumption DEF Init, StatusHasAJob, Running, Status
<1>2. ThreadInv /\ StatusHasAJob /\ [Next]_vars => StatusHasAJob'
  <2> SUFFICES ASSUME ThreadInv, StatusHasAJob, [Next]_vars
               PROVE  StatusHasAJob'
    OBVIOUS
  <2>1. CASE \/ \E c \in Command : Reads(c) \/ Writes(c) \/ Replaces(c)
             \/ \E r \in Root : Edits(r)
             \/ UNCHANGED vars
    BY <2>1, Zenon DEF Reads, Writes, Replaces, Edits, vars, daemonVars, history, StatusHasAJob,
                Live, Running
  <2>2. CASE Stops
    BY <2>2 DEF Stops, StatusHasAJob
  <2>3. CASE Starts
    BY <2>3, NoneAssumption DEF Starts, StatusHasAJob, Running, Status
  <2>4. QED
    BY <2>1, <2>2, <2>3, ServeStatus, WorkStatus DEF Next
<1>3. QED
  BY <1>1, <1>2, SpecThreads, PTL DEF Spec

-----------------------------------------------------------------------------
(* An acknowledged project stays in the file.                              *)

OneHolder ==
    \A q, o \in Request : request[q].at \in Holding /\ request[o].at \in Holding => q = o

Kept(p) == p \in file \cup dropped

\* The request has registered its project and goes on to answer.
Promised(q) == request[q].op = "add" /\ request[q].at \in Answering

KeptInv ==
    /\ \A p \in acked : Kept(p)
    /\ \A q \in Request : Promised(q) => Kept(request[q].project)

\* The memory is ahead of the file, and the temporary file of the thread that
\* holds the lock is the memory.
FileInv ==
    /\ up => file \subseteq registry \cup dropped
    /\ \A q \in Request : request[q].at \in Holding => temp = registry
    /\ \A q \in Request : request[q].at = "saving" => request[q].project \in registry

\* A command that is about to replace the file is alone with it.
SavingInv ==
    \A c \in Command : command[c].at = "saving" =>
        /\ ~up
        /\ temp = Edited(c)
        /\ file = command[c].base
        /\ \A o \in Command : command[o].at = "saving" => o = c
        /\ command[c].op = "remove" => command[c].project \in dropped

CleanInv == ~mixed => KeptInv /\ FileInv /\ SavingInv

DiskInv == ThreadInv /\ OneHolder /\ CleanInv

\* The sections that leave the disk alone keep the promise of their thread and
\* take no lock.
LEMMA QuietThread ==
    ASSUME TypeInv, NEW q \in Request, Serve(q),
           ~(Registers(q) \/ Saves(q) \/ Removes(q) \/ Drops(q))
    PROVE  /\ UNCHANGED <<file, temp, dropped>>
           /\ registry' = registry \/ (registry' = file /\ Unlocked)
           /\ acked' = acked \/ (acked' = acked \cup {request[q].project} /\ Promised(q))
           /\ request'[q].at \notin Holding
           /\ Promised(q)' => Promised(q) /\ request'[q].project = request[q].project
<1> USE DEF TypeInv
<1>1. /\ UNCHANGED <<file, temp, dropped>>
      /\ registry' = registry \/ (registry' = file /\ Unlocked)
  BY Zenon DEF Serve, Arrives, Finds, Resolves, Known, Invalidates, Checks, Reresolves, Loads,
         Queues, Spawns, Forgets, Clears, diskVars, daemonVars, history
<1>2. acked' = acked \/ (acked' = acked \cup {request[q].project} /\ Promised(q))
  BY Zenon DEF Serve, Arrives, Finds, Resolves, Invalidates, Checks, Reresolves, Loads,
         Queues, Spawns, Forgets, Clears, history, Acknowledged, Promised, Answering, At
<1> DEFINE Goal == /\ request'[q].at \notin Holding
                   /\ Promised(q)' =>
                          Promised(q) /\ request'[q].project = request[q].project
<1> SUFFICES Goal
  BY <1>1, <1>2
<1>3. ASSUME Ended(q)
      PROVE  Goal
  BY <1>3, EndedThread, OverThread DEF Promised, Holding
<1>4. ASSUME NEW place \in Answering \cup {"clear"}, Moved(q, place),
             Promised(q) \/ request[q].op # "add" \/ place = "clear"
      PROVE  Goal
  <2>1. place \in Place
    BY DEF Answering, Place
  <2>2. Goes(q, place)
    BY <1>4, <2>1, MovedThread
  <2>3. QED
    BY <1>4, <2>2 DEF Goes, Promised, Answering, Holding
<1>5. CASE Arrives(q)
  <2>1. PICK c \in Calls[q] : request' = [request EXCEPT ![q] =
              [at |-> First(c.op), op |-> c.op, needle |-> c.needle,
               project |-> None, target |-> None, handle |-> None,
               since |-> IF c.op \in {"add", "reindex"} THEN config ELSE request[q].since]]
    BY <1>5, Zenon DEF Arrives
  <2>2. request'[q].at = First(c.op)
    BY <2>1 DEF DaemonTypeOK
  <2>3. QED
    BY <2>2 DEF First, Promised, Answering, Holding
<1>6. CASE Finds(q)
  <2>1. request[q].op \in {"reindex", "search"} /\ request[q] \in Thread
    BY <1>6, Zenon DEF Finds, At, RequestsPlaced, Placed, DaemonTypeOK
  <2>2. CASE Find(registry', request[q].needle) = {}
    BY <1>3, <1>6, <2>2 DEF Finds, Resolves
  <2>3. CASE Find(registry', request[q].needle) # {}
    <3>1. PICK p \in Find(registry', request[q].needle) :
              request' = [request EXCEPT
                 ![q].at = IF request[q].op = "search" THEN "load" ELSE "check",
                 ![q].project = p, ![q].target = p.root]
      BY <1>6, <2>3, Zenon DEF Finds
    <3>2. /\ request'[q].at \in {"load", "check"}
          /\ request'[q].op = request[q].op
      BY <2>1, <3>1 DEF DaemonTypeOK, Thread
    <3>3. QED
      BY <2>1, <3>2 DEF Promised, Holding
  <2>4. QED
    BY <2>2, <2>3
<1>7. CASE Reresolves(q)
  <2>1. request[q] \in Thread
    BY DEF DaemonTypeOK
  <2>2. CASE Find(registry', request[q].project.label) = {}
    BY <1>3, <1>7, <2>2 DEF Reresolves, Resolves
  <2>3. CASE Find(registry', request[q].project.label) # {}
    <3>1. PICK p \in Find(registry', request[q].project.label) :
              request' = [request EXCEPT ![q].at = "load", ![q].target = p.root]
      BY <1>7, <2>3 DEF Reresolves
    <3>2. /\ request'[q].at = "load"
          /\ request'[q].op = request[q].op
          /\ request'[q].project = request[q].project
      BY <2>1, <3>1 DEF DaemonTypeOK, Thread
    <3>3. request[q].at = "resolve"
      BY <1>7 DEF Reresolves, At
    <3>4. QED
      BY <3>2, <3>3 DEF Promised, Holding, Answering
  <2>4. QED
    BY <2>2, <2>3
<1>8. CASE Loads(q)
  <2>1. request[q] \in Thread /\ request[q].at = "load"
    BY <1>8 DEF DaemonTypeOK, Loads, At
  <2>2. ASSUME NEW h, request' = [request EXCEPT ![q].at = "queue", ![q].handle = h]
        PROVE  Goal
    <3>1. /\ request'[q].at = "queue"
          /\ request'[q].op = request[q].op
          /\ request'[q].project = request[q].project
      BY <2>1, <2>2 DEF DaemonTypeOK, Thread
    <3>2. QED
      BY <2>1, <3>1 DEF Promised, Holding, Answering
  <2>3. QED
    BY <1>3, <1>8, <2>2 DEF Loads, Served
<1>9. CASE Invalidates(q) \/ Checks(q) \/ Queues(q) \/ Forgets(q)
  <2>1. CASE Forgets(q)
    BY <1>4, <2>1 DEF Forgets
  <2>2. CASE Invalidates(q)
    BY <1>4, <2>2 DEF Invalidates, At, Promised, Answering
  <2>3. CASE Checks(q)
    BY <1>3, <1>4, <2>3 DEF Checks, At, Promised, Answering
  <2>4. CASE Queues(q)
    BY <1>4, <2>4 DEF Queues, At, Promised, Answering
  <2>5. QED
    BY <1>9, <2>1, <2>2, <2>3, <2>4
<1>10. CASE Spawns(q) \/ Clears(q)
  BY <1>3, <1>10 DEF Spawns, Clears
<1>11. QED
  BY <1>5, <1>6, <1>7, <1>8, <1>9, <1>10 DEF Serve

LEMMA QuietClean ==
    ASSUME DiskInv, NEW q \in Request, Serve(q), ~mixed,
           ~(Registers(q) \/ Saves(q) \/ Removes(q) \/ Drops(q))
    PROVE  KeptInv' /\ FileInv'
<1> USE DEF DiskInv, ThreadInv
<1>1. /\ up /\ Others(q)
      /\ UNCHANGED <<file, temp, dropped>>
      /\ registry' = registry \/ (registry' = file /\ Unlocked)
      /\ acked' = acked \/ (acked' = acked \cup {request[q].project} /\ Promised(q))
      /\ request'[q].at \notin Holding
      /\ Promised(q)' => Promised(q) /\ request'[q].project = request[q].project
  BY ServeOthers, QuietThread
<1>2. KeptInv /\ FileInv
  BY DEF CleanInv
<1>3. KeptInv'
  BY <1>1, <1>2 DEF KeptInv, Kept, Promised, Others
<1>4. FileInv'
  BY <1>1, <1>2 DEF FileInv, Others, Unlocked, Holding
<1>5. QED
  BY <1>3, <1>4

LEMMA SaveClean ==
    ASSUME DiskInv, NEW q \in Request, ~mixed,
           Registers(q) \/ Saves(q) \/ Removes(q) \/ Drops(q)
    PROVE  KeptInv' /\ FileInv'
<1> USE DEF DiskInv, ThreadInv
<1>1. up /\ Others(q) /\ Serve(q) /\ KeptInv /\ FileInv
  BY ServeOthers DEF CleanInv, Serve
<1>2. request[q] \in Thread /\ Placed(request[q])
  BY DEF TypeInv, DaemonTypeOK, RequestsPlaced
<1>3. CASE Registers(q)
  <2>1. PICK p \in Registrations(registry, request[q].needle) :
            /\ registry' = registry \cup {p}
            /\ \/ temp' = registry' /\ Became(q, "saving", p)
               \/ Ended(q) /\ UNCHANGED temp
    BY <1>3 DEF Registers, Unsaved
  <2>2. p \in Project
    BY <1>2, <1>3, <2>1, RegistrationsType DEF Registers, At, Placed, TypeInv, DaemonTypeOK
  <2>3. \/ temp' = registry' /\ request'[q].at = "saving" /\ request'[q].project = p
        \/ request'[q].at = "over" /\ UNCHANGED temp
    BY <2>1, <2>2, BecameThread, EndedThread, OverThread DEF TypeInv, Place
  <2>4. UNCHANGED <<file, acked, dropped>> /\ Unlocked
    BY <1>3 DEF Registers, history
  <2>5. KeptInv'
    BY <1>1, <2>3, <2>4 DEF KeptInv, Kept, Promised, Others, Answering
  <2>6. FileInv'
    BY <1>1, <2>1, <2>3, <2>4 DEF FileInv, Others, Unlocked, Holding
  <2>7. QED
    BY <2>5, <2>6
<1>4. CASE Removes(q)
  <2>1. CASE Ended(q) /\ UNCHANGED <<registry, temp, dropped>>
    <3>1. request'[q].at = "over" /\ UNCHANGED <<file, acked>>
      BY <1>4, <2>1, EndedThread, OverThread DEF Removes, TypeInv
    <3>2. QED
      BY <1>1, <2>1, <3>1 DEF KeptInv, FileInv, Kept, Promised, Others, Answering, Holding
  <2>2. ASSUME NEW p \in Removals(registry, request[q].needle),
               /\ registry' = registry \ {p}
               /\ dropped' = dropped \cup {p}
               /\ \/ temp' = registry' /\ Became(q, "dropping", p)
                  \/ Ended(q) /\ UNCHANGED temp
        PROVE  KeptInv' /\ FileInv'
    <3>1. p \in Project
      BY DEF Removals, TypeInv, DaemonTypeOK
    <3>2. \/ temp' = registry' /\ request'[q].at = "dropping"
          \/ request'[q].at = "over" /\ UNCHANGED temp
      BY <2>2, <3>1, BecameThread, EndedThread, OverThread DEF TypeInv, Place
    <3>3. UNCHANGED <<up, file, acked>> /\ Unlocked
      BY <1>4 DEF Removes
    <3>4. KeptInv'
      BY <1>1, <2>2, <3>2, <3>3 DEF KeptInv, Kept, Promised, Others, Answering
    <3>5. FileInv'
      BY <1>1, <2>2, <3>2, <3>3 DEF FileInv, Others, Unlocked, Holding
    <3>6. QED
      BY <3>4, <3>5
  <2>3. QED
    BY <1>4, <2>1, <2>2 DEF Removes
<1>5. CASE Saves(q) \/ Drops(q)
  <2>1. request[q].at \in Holding /\ temp = registry /\ registry # None
    BY <1>1, <1>5, NoneAssumption, Zenon
       DEF FileInv, Saves, Drops, At, Holding, TypeInv, DaemonTypeOK
  <2>2. temp' = None /\ file' = registry /\ UNCHANGED <<registry, acked>>
    BY <1>5, <2>1 DEF Saves, Drops, Renamed, Gone, daemonVars, history
  <2>3. \A o \in Request \ {q} : request'[o] = request[o] /\ request[o].at \notin Holding
    BY <1>1, <2>1 DEF OneHolder, Others
  <2>4. CASE Saves(q)
    <3>1. /\ request[q].at = "saving" /\ dropped' = dropped \ {request[q].project}
          /\ Moved(q, "invalidate")
      BY <2>1, <2>4 DEF Saves, At, Renamed, Gone
    <3>2. request'[q].at = "invalidate" /\ request'[q].project = request[q].project
      BY <3>1, MovedThread DEF TypeInv, Goes, Place
    <3>3. request[q].project \in registry
      BY <1>1, <3>1 DEF FileInv
    <3>4. QED
      BY <1>1, <2>2, <2>3, <3>1, <3>2, <3>3
         DEF KeptInv, FileInv, Kept, Promised, Holding
  <2>5. CASE Drops(q)
    <3>1. Moved(q, "forget") /\ UNCHANGED dropped
      BY <2>1, <2>5 DEF Drops, history, Renamed, Gone
    <3>2. request'[q].at = "forget"
      BY <3>1, MovedThread DEF TypeInv, Goes, Place
    <3>3. QED
      BY <1>1, <2>2, <2>3, <3>1, <3>2 DEF KeptInv, FileInv, Kept, Promised, Holding, Answering
  <2>6. QED
    BY <1>5, <2>4, <2>5
<1>6. QED
  BY <1>3, <1>4, <1>5

LEMMA ServeClean ==
    ASSUME DiskInv, NEW q \in Request, Serve(q)
    PROVE  OneHolder' /\ CleanInv'
<1> USE DEF DiskInv, ThreadInv
<1>1. up /\ up' /\ Others(q) /\ UNCHANGED <<command, mixed>>
  <2>1. UNCHANGED mixed
    BY Zenon DEF Serve, Arrives, Registers, Saves, Finds, Resolves, Invalidates, Checks, Reresolves,
           Loads, Queues, Spawns, Removes, Drops, Forgets, Clears, history
  <2>2. QED
    BY <2>1, ServeOthers
<1>2. OneHolder'
  <2>1. CASE Registers(q) \/ Removes(q)
    BY <1>1, <2>1 DEF Registers, Removes, Unlocked, OneHolder, Others, Holding
  <2>2. CASE Saves(q) \/ Drops(q)
    <3>1. request[q].at \in Holding
      BY <2>2 DEF Saves, Drops, At, Holding
    <3>2. QED
      BY <1>1, <3>1 DEF OneHolder, Others
  <2>3. CASE ~(Registers(q) \/ Saves(q) \/ Removes(q) \/ Drops(q))
    BY <1>1, <2>3, QuietThread DEF OneHolder, Others
  <2>4. QED
    BY <2>1, <2>2, <2>3
<1>3. ASSUME ~mixed
      PROVE  SavingInv'
  BY <1>1, <1>3 DEF CleanInv, SavingInv
<1>4. QED
  BY <1>1, <1>2, <1>3, QuietClean, SaveClean DEF CleanInv

LEMMA CommandClean ==
    ASSUME DiskInv, NEW c \in Command, Reads(c) \/ Writes(c) \/ Replaces(c)
    PROVE  OneHolder' /\ CleanInv'
<1> USE DEF DiskInv, ThreadInv
<1>1. OneHolder' /\ UNCHANGED <<up, registry, request>>
  BY DEF Reads, Writes, Replaces, OneHolder, daemonVars
<1>2. /\ command[c] \in Process
      /\ \A o \in Command \ {c} : command'[o] = command[o]
  BY DEF Reads, Writes, Replaces, TypeInv, DaemonTypeOK
<1>3. SUFFICES ASSUME ~mixed'
               PROVE  KeptInv' /\ FileInv' /\ SavingInv'
  BY <1>1 DEF CleanInv
<1>4. ~mixed /\ KeptInv /\ FileInv /\ SavingInv
  <2>1. ~mixed
    <3>1. mixed' = mixed \/ mixed' = (mixed \/ Beside(c))
      BY DEF Reads, Writes, Replaces, history
    <3>2. QED
      BY <1>3, <3>1, Zenon
  <2>2. QED
    BY <2>1 DEF CleanInv
<1>5. CASE Reads(c)
  <2>1. UNCHANGED <<file, temp, acked, dropped>>
    BY <1>5 DEF Reads, diskVars, history
  <2>2. command'[c].at \in {"loaded", "over"}
    BY <1>5 DEF Reads, Exited, Idle, TypeInv, DaemonTypeOK
  <2>3. KeptInv' /\ FileInv'
    BY <1>1, <1>4, <2>1 DEF KeptInv, FileInv, Kept, Promised
  <2>4. SavingInv'
    BY <1>1, <1>2, <1>4, <2>1, <2>2 DEF SavingInv, Edited
  <2>5. QED
    BY <2>3, <2>4
<1>6. CASE Writes(c) \/ Replaces(c)
  <2>1. /\ ~up /\ file = command[c].base
        /\ \A o \in Command \ {c} : command[o].at # "saving"
    BY <1>3, <1>6, Zenon DEF Writes, Replaces, Beside
  <2>2. \A q \in Request : request[q].at \notin Holding \cup Answering
    BY <2>1 DEF Confined, Holding, Answering
  <2>3. FileInv'
    BY <1>1, <2>1, <2>2 DEF FileInv, Holding
  <2>4. CASE Writes(c)
    <3>1. /\ command'[c] = [command[c] EXCEPT !.at = "saving"]
          /\ temp' = Edited(c)
          /\ dropped' = dropped \cup {p \in {command[c].project} : command[c].op = "remove"}
          /\ UNCHANGED <<file, acked>>
      BY <2>4 DEF Writes, TypeInv, DaemonTypeOK
    <3>2. /\ command'[c].base = command[c].base
          /\ command'[c].op = command[c].op
          /\ command'[c].project = command[c].project
      BY <1>2, <3>1 DEF Process
    <3>3. Edited(c)' = Edited(c)
      BY <3>2 DEF Edited
    <3>4. SavingInv'
      BY <1>1, <1>2, <2>1, <3>1, <3>2, <3>3, Zenon DEF SavingInv
    <3>5. KeptInv'
      BY <1>1, <1>4, <2>2, <3>1 DEF KeptInv, Kept, Promised
    <3>6. QED
      BY <2>3, <3>4, <3>5
  <2>5. CASE Replaces(c)
    <3>1. command[c].at = "saving" /\ command'[c].at = "over"
      BY <2>5 DEF Replaces, Exited, Idle, TypeInv, DaemonTypeOK
    <3>2. temp = Edited(c) /\ (command[c].op = "remove" => command[c].project \in dropped)
      BY <1>4, <3>1 DEF SavingInv
    <3>3. temp # None
      <4>1. command[c].project \in Project /\ command[c].base \in SUBSET Project
        BY <1>2, <3>1 DEF TypeInv, CommandsPlaced, Process
      <4>2. QED
        BY <3>2, <4>1, NoneAssumption DEF Edited
    <3>4. /\ file' = Edited(c)
          /\ acked' = acked \cup {p \in {command[c].project} : command[c].op = "add"}
          /\ dropped' = dropped \ {p \in {command[c].project} : command[c].op = "add"}
      BY <2>5, <3>2, <3>3 DEF Replaces, Renamed, Gone
    <3>5. command[c].op \in {"add", "remove"}
      BY <1>2 DEF Process
    <3>6. \A p \in acked' : Kept(p)'
      BY <1>4, <2>1, <3>2, <3>4, <3>5 DEF KeptInv, Kept, Edited
    <3>7. KeptInv'
      BY <1>1, <2>2, <3>6 DEF KeptInv, Promised
    <3>8. SavingInv'
      BY <1>2, <2>1, <3>1 DEF SavingInv
    <3>9. QED
      BY <2>3, <3>7, <3>8
  <2>6. QED
    BY <1>6, <2>4, <2>5
<1>7. QED
  BY <1>5, <1>6

LEMMA NextDisk == DiskInv /\ [Next]_vars => DiskInv'
<1> SUFFICES ASSUME DiskInv, [Next]_vars
             PROVE  DiskInv'
  OBVIOUS
<1>1. ThreadInv'
  BY NextThreads DEF DiskInv
<1>2. CASE \/ \E q \in Request : Work(q)
           \/ \E r \in Root : Edits(r)
           \/ UNCHANGED vars
  <2>1. UNCHANGED <<up, registry, request, command, file, temp, acked, dropped, mixed>>
    BY <1>2 DEF Work, Edits, vars, daemonVars, diskVars, history
  <2>2. QED
    BY <1>1, <2>1 DEF DiskInv, OneHolder, CleanInv, KeptInv, FileInv, SavingInv, Kept, Promised,
                      Edited
<1>3. CASE Stops
  <2>1. /\ up /\ ~up' /\ UNCHANGED <<command, file, temp, acked, dropped, mixed>>
        /\ \A q \in Request : request'[q].at \in {"new", "over"}
    BY <1>3, OverThread DEF Stops, diskVars, history
  <2>2. QED
    BY <1>1, <2>1 DEF DiskInv, OneHolder, CleanInv, KeptInv, FileInv, SavingInv, Kept, Promised,
                      Holding, Answering
<1>4. CASE Starts
  <2>1. /\ ~up /\ registry' = file /\ UNCHANGED <<request, command, file, temp, acked, dropped>>
        /\ ~mixed' => ~mixed /\ \A c \in Command : command[c].at # "saving"
    BY <1>4, Zenon DEF Starts, diskVars
  <2>2. \A q \in Request : request[q].at \in {"new", "over"}
    BY <2>1 DEF DiskInv, ThreadInv, Confined
  <2>3. QED
    BY <1>1, <2>1, <2>2 DEF DiskInv, OneHolder, CleanInv, KeptInv, FileInv, SavingInv, Kept,
                            Promised, Holding, Answering
<1>5. QED
  BY <1>1, <1>2, <1>3, <1>4, ServeClean, CommandClean DEF Next, DiskInv

LEMMA InitDisk == Init => DiskInv
<1> SUFFICES ASSUME Init
             PROVE  DiskInv
  OBVIOUS
<1>1. ThreadInv
  BY InitTyped DEF Init, ThreadInv, JobsOfOver, Confined, Live
<1>2. \A q \in Request : request[q].at = "new"
  BY DEF Init, Fresh
<1>3. \A c \in Command : command[c].at = "idle"
  BY DEF Init, Idle
<1>4. QED
  BY <1>1, <1>2, <1>3 DEF Init, DiskInv, OneHolder, CleanInv, KeptInv, FileInv, SavingInv,
                          Promised, Holding, Answering

LEMMA SpecDisk == Spec => []DiskInv
BY InitDisk, NextDisk, PTL DEF Spec

\* A project whose add was answered, and that nobody asked to remove, is in the
\* file, whatever saves fail and whenever the daemon ends, unless a command
\* saved the file beside the daemon or another command.
THEOREM AcknowledgedProjectsSurvive == Spec => []AcknowledgedSurvive
<1>1. DiskInv => AcknowledgedSurvive
  BY DEF DiskInv, CleanInv, KeptInv, Kept, AcknowledgedSurvive
<1>2. QED
  BY <1>1, SpecDisk, PTL

-----------------------------------------------------------------------------
(* What a section leaves behind.                                           *)

\* The thread goes on with what it had found.
Keeps(q) ==
    /\ request'[q].op = request[q].op
    /\ request'[q].project = request[q].project
    /\ request'[q].since = request[q].since

\* A thread that found its project in the registry, or took it out.
Meets(q) ==
    /\ request'[q].op = request[q].op
    /\ request'[q].since = request[q].since
    /\ request'[q].project \in Project
    /\ request'[q].project \in registry' \/ request'[q].project.label \in freed'
    /\ \/ request[q].at = "register" /\ request'[q].at = "saving"
       \/ request[q].at = "remove" /\ request'[q].at = "dropping"
       \/ /\ request[q].at = "find"
          /\ request'[q].project \in registry'
          /\ request'[q].target = request'[q].project.root
          /\ \/ request[q].op = "search" /\ request'[q].at = "load"
             \/ request[q].op = "reindex" /\ request'[q].at = "check"

\* Sections after which the thread has nothing new.
Turns(q) ==
    /\ Keeps(q)
    /\ request'[q].handle = request[q].handle
    /\ \/ request[q].at = "saving" /\ request'[q].at = "invalidate"
       \/ /\ request[q].op = "add"
          /\ \/ request[q].at = "invalidate" /\ request'[q].at = "check"
             \/ request[q].at = "check" /\ request'[q].at = "resolve"
       \/ /\ request[q].op = "reindex"
          /\ \/ request[q].at = "check" /\ request'[q].at = "invalidate"
             \/ request[q].at = "invalidate" /\ request'[q].at = "resolve"
       \/ request[q].at = "queue" /\ request'[q].at = "spawn"
       \/ request[q].at = "dropping" /\ request'[q].at = "forget"
       \/ request[q].at = "forget" /\ request'[q].at = "clear"

LEMMA SectionEnds ==
    ASSUME TypeInv, NEW q \in Request, Serve(q)
    PROVE  \/ request'[q] = Over
           \/ /\ request'[q].at \in {"register", "remove", "find"}
              /\ request'[q].since \in {config, request[q].since}
           \/ Meets(q)
           \/ Turns(q)
           \/ /\ request[q].at = "resolve" /\ request'[q].at = "load" /\ Keeps(q)
              /\ request'[q].target \in Root
              /\ [label |-> request[q].project.label, root |-> request'[q].target] \in registry'
           \/ /\ request[q].at = "load" /\ request'[q].at = "queue" /\ Keeps(q)
              /\ request[q].op \in {"add", "reindex"}
              /\ \/ request'[q].handle = Cached(q) /\ Cached(q) # None
                 \/ request'[q].handle = Loaded(q) /\ Cached(q) = None
<1> USE DEF TypeInv
<1>1. request[q] \in Thread /\ Placed(request[q])
  BY DEF DaemonTypeOK, RequestsPlaced
<1>2. CASE Ended(q)
  BY <1>2, EndedThread
<1>3. ASSUME NEW place \in Place, Moved(q, place)
      PROVE  Keeps(q) /\ request'[q].at = place /\ request'[q].handle = request[q].handle
  BY <1>3, MovedThread DEF Goes, Keeps
<1>4. CASE Arrives(q)
  <2>1. PICK c \in Calls[q] : request' = [request EXCEPT ![q] =
              [at |-> First(c.op), op |-> c.op, needle |-> c.needle,
               project |-> None, target |-> None, handle |-> None,
               since |-> IF c.op \in {"add", "reindex"} THEN config ELSE request[q].since]]
    BY <1>4, Zenon DEF Arrives
  <2>2. /\ request'[q].at = First(c.op)
        /\ request'[q].since \in {config, request[q].since}
    BY <2>1 DEF DaemonTypeOK
  <2>3. QED
    BY <2>2 DEF First
<1>5. CASE Registers(q) /\ ~Ended(q)
  <2>1. PICK p \in Registrations(registry, request[q].needle) :
            registry' = registry \cup {p} /\ Became(q, "saving", p)
    BY <1>5 DEF Registers, Unsaved
  <2>2. p \in Project
    BY <1>1, <1>5, <2>1, RegistrationsType DEF Registers, At, Placed, DaemonTypeOK
  <2>3. QED
    BY <1>5, <2>1, <2>2, BecameThread DEF Registers, At, Meets, Place
<1>6. CASE Removes(q) /\ ~Ended(q)
  <2>1. PICK p \in Removals(registry, request[q].needle) :
            freed' = freed \cup {p.label} /\ Became(q, "dropping", p)
    BY <1>6 DEF Removes
  <2>2. p \in Project
    BY <2>1 DEF Removals, DaemonTypeOK
  <2>3. QED
    BY <1>6, <2>1, <2>2, BecameThread DEF Removes, At, Meets, Place
<1>7. CASE Finds(q) /\ ~Ended(q)
  <2>1. PICK p \in Find(registry', request[q].needle) :
            request' = [request EXCEPT
               ![q].at = IF request[q].op = "search" THEN "load" ELSE "check",
               ![q].project = p, ![q].target = p.root]
    BY <1>7, Zenon DEF Finds, Resolves
  <2>2. p \in registry' /\ p \in Project
    BY <1>7, <2>1, ResolvesTyped, Zenon DEF Finds
  <2> DEFINE place == IF request[q].op = "search" THEN "load" ELSE "check"
             t == [[[request[q] EXCEPT !.at = place] EXCEPT !.project = p]
                      EXCEPT !.target = p.root]
  <2>3. request'[q] = t
    BY <2>1 DEF DaemonTypeOK
  <2>4. /\ t.at = place /\ t.project = p /\ t.target = p.root /\ t.op = request[q].op
        /\ t.since = request[q].since
    BY <1>1 DEF Thread
  <2>5. request[q].at = "find" /\ request[q].op \in {"reindex", "search"}
    BY <1>1, <1>7, Zenon DEF Finds, At, Placed
  <2>6. QED
    BY <2>2, <2>3, <2>4, <2>5 DEF Meets
<1>8. CASE Reresolves(q) /\ ~Ended(q)
  <2> DEFINE l == request[q].project.label
  <2>1. PICK p \in Find(registry', l) :
            request' = [request EXCEPT ![q].at = "load", ![q].target = p.root]
    BY <1>8 DEF Reresolves, Resolves
  <2>2. request[q].at = "resolve" /\ request[q].project \in Project
    BY <1>1, <1>8 DEF Reresolves, At, Placed, Answering, Thread
  <2>3. p \in Project /\ p \in registry' /\ p.label = l
    BY <1>8, <2>1, <2>2, ResolvesTyped DEF Reresolves, ByLabel, Project
  <2> DEFINE t == [[request[q] EXCEPT !.at = "load"] EXCEPT !.target = p.root]
  <2>4. request'[q] = t
    BY <2>1 DEF DaemonTypeOK
  <2>5. /\ t.at = "load" /\ t.target = p.root /\ t.op = request[q].op
        /\ t.project = request[q].project /\ t.since = request[q].since
    BY <1>1 DEF Thread
  <2>6. p = [label |-> l, root |-> p.root] /\ p.root \in Root
    BY <2>3 DEF Project
  <2>7. QED
    BY <2>2, <2>3, <2>4, <2>5, <2>6 DEF Keeps
<1>9. CASE Loads(q) /\ ~Ended(q)
  <2>1. PICK h \in {Cached(q), Loaded(q)} :
            /\ \/ h = Cached(q) /\ Cached(q) # None
               \/ h = Loaded(q) /\ Cached(q) = None
            /\ request[q].op # "search"
            /\ request' = [request EXCEPT ![q].at = "queue", ![q].handle = h]
    BY <1>9 DEF Loads, Served
  <2>2. request[q].at = "load" /\ request[q].op \in {"add", "reindex"}
    <3>1. request[q].at = "load"
      BY <1>9 DEF Loads, At
    <3>2. request[q].op \in Operation /\ request[q].op \notin {"remove", "search"}
      BY <1>1, <2>1, <3>1 DEF Placed, Thread
    <3>3. QED
      BY <3>1, <3>2 DEF Operation
  <2> DEFINE t == [[request[q] EXCEPT !.at = "queue"] EXCEPT !.handle = h]
  <2>3. request'[q] = t
    BY <2>1 DEF DaemonTypeOK
  <2>4. /\ t.at = "queue" /\ t.handle = h /\ t.op = request[q].op
        /\ t.project = request[q].project /\ t.since = request[q].since
    BY <1>1 DEF Thread
  <2>5. QED
    BY <2>1, <2>2, <2>3, <2>4, Zenon DEF Keeps
<1>10. CASE /\ Saves(q) \/ Drops(q) \/ Invalidates(q) \/ Checks(q) \/ Queues(q) \/ Forgets(q)
            /\ ~Ended(q)
  <2>1. request[q].at \in {"invalidate", "check"} => request[q].op \in {"add", "reindex"}
    BY <1>1 DEF Placed, Answering
  <2>2. CASE Saves(q)
    BY <1>3, <1>10, <2>2 DEF Saves, At, Turns, Place
  <2>3. CASE Drops(q)
    BY <1>3, <1>10, <2>3 DEF Drops, At, Turns, Place
  <2>4. CASE Invalidates(q)
    BY <1>3, <2>1, <2>4 DEF Invalidates, At, Turns, Place
  <2>5. CASE Checks(q)
    BY <1>3, <1>10, <2>1, <2>5 DEF Checks, At, Turns, Place
  <2>6. CASE Queues(q) \/ Forgets(q)
    <3>1. \/ Moved(q, "spawn") /\ request[q].at = "queue"
          \/ Moved(q, "clear") /\ request[q].at = "forget"
      BY <2>6 DEF Queues, Forgets, At
    <3>2. QED
      BY <1>3, <3>1 DEF Turns, Place
  <2>7. QED
    BY <1>10, <2>2, <2>3, <2>4, <2>5, <2>6
<1>11. QED
  BY <1>2, <1>4, <1>5, <1>6, <1>7, <1>8, <1>9, <1>10 DEF Serve, Spawns, Clears

\* A section clears the cached handle of its project, or fills it.
LEMMA SectionHandles ==
    ASSUME TypeInv, NEW q \in Request, Serve(q)
    PROVE  \/ UNCHANGED handles
           \/ /\ request[q].at \in {"invalidate", "forget"}
              /\ handles' = [handles EXCEPT ![request[q].project.label] = None]
           \/ /\ request[q].at = "load"
              /\ handles' = [handles EXCEPT ![request[q].project.label] = Loaded(q)]
BY Zenon DEF Serve, Arrives, Registers, Saves, Finds, Resolves, Invalidates, Checks, Reresolves,
       Loads, Queues, Spawns, Removes, Drops, Forgets, Clears, DropsHandle, At, daemonVars

\* A section extends the registry, takes a project out or reads it again.
LEMMA SectionRegistry ==
    ASSUME TypeInv, NEW q \in Request, Serve(q)
    PROVE  /\ freed \subseteq freed'
           /\ \/ registry \subseteq registry'
              \/ \E p \in registry : registry' = registry \ {p} /\ p.label \in freed'
              \/ registry' = file /\ freed' = freed \cup (LabelsOf(registry) \ LabelsOf(file))
           /\ UNCHANGED file \/ (Renamed /\ request[q].at \in Holding /\ UNCHANGED registry)
<1>1. CASE Registers(q)
  BY <1>1 DEF Registers, history
<1>2. CASE Removes(q)
  BY <1>2 DEF Removes, Removals
<1>3. CASE Finds(q) \/ Reresolves(q)
  BY <1>3, Zenon DEF Finds, Reresolves, Resolves, Known, diskVars
<1>4. CASE Saves(q) \/ Drops(q)
  BY <1>4 DEF Saves, Drops, At, Holding, Gone, diskVars, daemonVars, history
<1>5. CASE \/ Arrives(q) \/ Invalidates(q) \/ Checks(q) \/ Loads(q) \/ Queues(q)
           \/ Spawns(q) \/ Forgets(q) \/ Clears(q)
  BY <1>5 DEF Arrives, Invalidates, Checks, Loads, Queues, Spawns, Forgets, Clears,
              daemonVars, diskVars, history
<1>6. QED
  BY <1>1, <1>2, <1>3, <1>4, <1>5 DEF Serve

-----------------------------------------------------------------------------
(* Labels mean the roots they were looked up for.                          *)

\* The label was given back, or still names the root.
Means(l, r) == l \in freed \/ [label |-> l, root |-> r] \in registry

FileNames == \A p \in file : Means(p.label, p.root)
HandleNames == \A l \in Label : handles[l] # None => Means(l, handles[l].root)
ThreadNames(q) ==
    /\ request[q].at \in Answering \cup Holding \cup Leaving =>
           Means(request[q].project.label, request[q].project.root)
    /\ request[q].at = "load" => Means(request[q].project.label, request[q].target)
    /\ request[q].at \in {"queue", "spawn"} =>
           Means(request[q].project.label, request[q].handle.root)
JobNames(q) ==
    Live(q) => Means(job[q].label, job[q].root) /\ Means(job[q].label, job[q].asked)

NamesInv ==
    up /\ ~mixed =>
        /\ FileNames
        /\ HandleNames
        /\ \A q \in Request : ThreadNames(q) /\ JobNames(q)

\* The configurations of a request are those of its arrival, and a handle that
\* it will use, or that its job uses, was loaded later.
Refreshed(q) ==
    \/ request[q].op = "add" /\ request[q].at = "check"
    \/ request[q].op \in {"add", "reindex"} /\ request[q].at \in {"resolve", "load"}
ThreadFresh(q) ==
    /\ \A r \in Root : request[q].since[r] <= config[r]
    /\ Refreshed(q) /\ handles[request[q].project.label] # None =>
           handles[request[q].project.label].config
               >= request[q].since[handles[request[q].project.label].root]
    /\ request[q].at \in {"queue", "spawn"} =>
           request[q].handle.config >= request[q].since[request[q].handle.root]
JobFresh(q) == Live(q) => job[q].config >= job[q].since[job[q].root]
FreshInv == \A q \in Request : ThreadFresh(q) /\ JobFresh(q)

MeaningInv == DiskInv /\ UniqueInv /\ NamesInv /\ FreshInv

\* The label means the root after the step.
WillMean(l, r) == l \in freed' \/ [label |-> l, root |-> r] \in registry'

\* A label keeps its meaning, or was given back.
LEMMA MeaningKept ==
    ASSUME MeaningInv, up, ~mixed, NEW q \in Request, Serve(q), NEW l, NEW r, Means(l, r)
    PROVE  WillMean(l, r)
<1> USE DEF MeaningInv, DiskInv, ThreadInv
<1>1. freed \subseteq freed'
  BY SectionRegistry
<1>2. CASE registry \subseteq registry'
  BY <1>1, <1>2 DEF Means, WillMean
<1>3. CASE \E p \in registry : registry' = registry \ {p} /\ p.label \in freed'
  <2>1. PICK p \in registry : registry' = registry \ {p} /\ p.label \in freed'
    BY <1>3
  <2>2. [label |-> l, root |-> r] = p => l \in freed'
    BY <2>1
  <2>3. QED
    BY <1>1, <2>1, <2>2 DEF Means, WillMean
<1>4. CASE registry' = file /\ freed' = freed \cup (LabelsOf(registry) \ LabelsOf(file))
  <2>1. CASE l \in freed
    BY <1>1, <2>1 DEF Means, WillMean
  <2>2. CASE l \notin freed /\ [label |-> l, root |-> r] \in registry
    <3> DEFINE o == [label |-> l, root |-> r]
    <3>1. o \in registry /\ l \in LabelsOf(registry)
      BY <2>2 DEF LabelsOf
    <3>2. CASE l \in LabelsOf(file)
      <4>1. PICK p \in file : p.label = l
        BY <3>2 DEF LabelsOf
      <4>2. p = [label |-> l, root |-> p.root]
        BY <4>1 DEF TypeInv, DaemonTypeOK, Project
      <4>3. Means(l, p.root)
        BY <4>1 DEF NamesInv, FileNames
      <4>4. p \in registry
        BY <2>2, <4>2, <4>3 DEF Means, WillMean
      <4>5. o = p
        BY <3>1, <4>1, <4>4 DEF UniqueInv, LabelsAndRootsUnique, Unique
      <4>6. QED
        BY <1>4, <4>1, <4>5 DEF Means, WillMean
    <3>3. CASE l \notin LabelsOf(file)
      BY <1>4, <3>1, <3>3 DEF Means, WillMean
    <3>4. QED
      BY <3>2, <3>3
  <2>3. QED
    BY <2>1, <2>2 DEF Means, WillMean
<1>5. QED
  BY <1>2, <1>3, <1>4, SectionRegistry

\* A project that the step leaves in the registry means itself.
LEMMA ProjectMeans ==
    ASSUME NEW p \in Project, p \in registry' \/ p.label \in freed'
    PROVE  WillMean(p.label, p.root)
<1>1. p = [label |-> p.label, root |-> p.root]
  BY DEF Project
<1>2. QED
  BY <1>1 DEF WillMean

LEMMA ServeFileNames ==
    ASSUME MeaningInv, up, ~mixed, NEW q \in Request, Serve(q)
    PROVE  FileNames'
<1> USE DEF MeaningInv, DiskInv, ThreadInv
<1>1. CASE UNCHANGED file
  <2>1. \A p \in file : WillMean(p.label, p.root)
    BY MeaningKept DEF NamesInv, FileNames
  <2>2. QED
    BY <1>1, <2>1, Zenon DEF FileNames, Means, WillMean
<1>2. CASE Renamed /\ request[q].at \in Holding /\ UNCHANGED registry
  <2>1. file' = registry'
    BY <1>2 DEF CleanInv, FileInv, Renamed
  <2>2. \A p \in file' : p \in Project /\ p \in registry'
    BY <1>2, <2>1 DEF TypeInv, DaemonTypeOK
  <2>3. QED
    BY <2>2, ProjectMeans, Zenon DEF FileNames, Means, WillMean
<1>3. QED
  BY <1>1, <1>2, SectionRegistry

LEMMA ServeHandleNames ==
    ASSUME MeaningInv, up, ~mixed, NEW q \in Request, Serve(q)
    PROVE  HandleNames'
<1> USE DEF MeaningInv, DiskInv, ThreadInv
<1>1. \A l \in Label : handles[l] # None => WillMean(l, handles[l].root)
  BY MeaningKept DEF NamesInv, HandleNames
<1>2. CASE UNCHANGED handles
  BY <1>1, <1>2 DEF HandleNames, Means, WillMean
<1>3. CASE handles' = [handles EXCEPT ![request[q].project.label] = None]
  BY <1>1, <1>3 DEF HandleNames, Means, WillMean, TypeInv, DaemonTypeOK
<1>4. CASE /\ request[q].at = "load"
           /\ handles' = [handles EXCEPT ![request[q].project.label] = Loaded(q)]
  <2>1. Means(request[q].project.label, request[q].target)
    BY <1>4 DEF NamesInv, ThreadNames
  <2>2. WillMean(request[q].project.label, request[q].target)
    BY <2>1, MeaningKept
  <2>3. Loaded(q).root = request[q].target
    BY DEF Loaded
  <2>4. QED
    BY <1>1, <1>4, <2>2, <2>3 DEF HandleNames, Means, WillMean, TypeInv, DaemonTypeOK
<1>5. QED
  BY <1>2, <1>3, <1>4, SectionHandles

\* The thread whose section ran.
LEMMA ServeOwnNames ==
    ASSUME MeaningInv, up, ~mixed, NEW q \in Request, Serve(q)
    PROVE  ThreadNames(q)'
<1> USE DEF MeaningInv, DiskInv, ThreadInv
<1> DEFINE t == request[q]
           u == request'[q]
<1>1. SUFFICES
        /\ u.at \in Answering \cup Holding \cup Leaving =>
               WillMean(u.project.label, u.project.root)
        /\ u.at = "load" => WillMean(u.project.label, u.target)
        /\ u.at \in {"queue", "spawn"} => WillMean(u.project.label, u.handle.root)
  BY DEF ThreadNames, Means, WillMean
<1>2. /\ t.at \in Answering \cup Holding \cup Leaving =>
             WillMean(t.project.label, t.project.root)
      /\ t.at = "load" => WillMean(t.project.label, t.target)
      /\ t.at \in {"queue", "spawn"} => WillMean(t.project.label, t.handle.root)
  BY MeaningKept DEF NamesInv, ThreadNames
<1>3. CASE u = Over
  BY <1>3, OverThread DEF Answering, Holding, Leaving
<1>4. CASE u.at \in {"register", "remove", "find"}
  BY <1>4 DEF Answering, Holding, Leaving
<1>5. CASE Meets(q)
  <2>1. WillMean(u.project.label, u.project.root)
    BY <1>5, ProjectMeans DEF Meets
  <2>2. QED
    BY <1>5, <2>1 DEF Meets
<1>6. CASE Turns(q)
  BY <1>2, <1>6 DEF Turns, Keeps, Answering, Holding, Leaving
<1>7. CASE /\ t.at = "resolve" /\ u.at = "load" /\ Keeps(q)
           /\ [label |-> t.project.label, root |-> u.target] \in registry'
  BY <1>2, <1>7 DEF WillMean, Keeps, Answering, Holding, Leaving
<1>8. CASE /\ t.at = "load" /\ u.at = "queue" /\ Keeps(q)
           /\ \/ u.handle = Cached(q) /\ Cached(q) # None
              \/ u.handle = Loaded(q) /\ Cached(q) = None
  <2>1. WillMean(t.project.label, t.project.root)
    BY <1>2, <1>8 DEF Answering
  <2>2. WillMean(t.project.label, u.handle.root)
    <3>1. CASE u.handle = Loaded(q)
      BY <1>2, <1>8, <3>1 DEF Loaded
    <3>2. CASE u.handle = Cached(q) /\ Cached(q) # None
      <4>1. t.project.label \in Label
        BY <1>8 DEF TypeInv, DaemonTypeOK, RequestsPlaced, Placed, Answering, Thread, Project
      <4>2. Means(t.project.label, Cached(q).root)
        BY <3>2, <4>1 DEF NamesInv, HandleNames, Cached
      <4>3. QED
        BY <3>2, <4>2, MeaningKept
    <3>3. QED
      BY <1>8, <3>1, <3>2
  <2>3. QED
    BY <1>8, <2>1, <2>2 DEF Keeps
<1>9. QED
  BY <1>3, <1>4, <1>5, <1>6, <1>7, <1>8, SectionEnds

LEMMA ServeJobNames ==
    ASSUME MeaningInv, up, ~mixed, NEW q \in Request, Serve(q)
    PROVE  \A o \in Request : JobNames(o)'
<1> USE DEF MeaningInv, DiskInv, ThreadInv
<1>1. ASSUME NEW o \in Request, Live(o), job'[o] = job[o]
      PROVE  JobNames(o)'
  <2>1. Means(job[o].label, job[o].root) /\ Means(job[o].label, job[o].asked)
    BY <1>1 DEF NamesInv, JobNames
  <2>2. WillMean(job[o].label, job[o].root) /\ WillMean(job[o].label, job[o].asked)
    BY <2>1, MeaningKept
  <2>3. QED
    BY <1>1, <2>2 DEF JobNames, Means, WillMean
<1>2. CASE UNCHANGED job
  BY <1>1, <1>2 DEF JobNames, Live
<1>3. CASE Spawns(q)
  <2>1. ASSUME NEW o \in Request \ {q}
        PROVE  JobNames(o)'
    BY <1>1, <1>3, SpawnedJob DEF JobNames, Live
  <2>2. JobNames(q)'
    <3>1. CASE UNCHANGED job
      BY <1>2, <3>1
    <3>2. CASE /\ job'[q].label = request[q].project.label
               /\ job'[q].root = request[q].handle.root
               /\ job'[q].asked = request[q].project.root
      <4>1. request[q].at = "spawn"
        BY <1>3 DEF Spawns, At
      <4>2. /\ Means(request[q].project.label, request[q].handle.root)
            /\ Means(request[q].project.label, request[q].project.root)
        BY <4>1 DEF NamesInv, ThreadNames, Answering
      <4>3. /\ WillMean(request[q].project.label, request[q].handle.root)
            /\ WillMean(request[q].project.label, request[q].project.root)
        BY <4>2, MeaningKept
      <4>4. QED
        BY <3>2, <4>3 DEF JobNames, Means, WillMean
    <3>3. QED
      BY <1>3, <3>1, <3>2, SpawnedJob
  <2>3. QED
    BY <2>1, <2>2
<1>4. QED
  BY <1>2, <1>3, ServeOthers

LEMMA ServeNames ==
    ASSUME MeaningInv, NEW q \in Request, Serve(q)
    PROVE  NamesInv'
<1> USE DEF MeaningInv, DiskInv, ThreadInv
<1>1. up /\ Others(q) /\ UNCHANGED mixed
  <2>1. UNCHANGED mixed
    BY Zenon DEF Serve, Arrives, Registers, Saves, Finds, Resolves, Invalidates, Checks, Reresolves,
           Loads, Queues, Spawns, Removes, Drops, Forgets, Clears, history
  <2>2. QED
    BY <2>1, ServeOthers
<1>2. SUFFICES ASSUME ~mixed
               PROVE  FileNames' /\ HandleNames' /\
                      \A o \in Request : ThreadNames(o)' /\ JobNames(o)'
  BY <1>1 DEF NamesInv
<1>3. ASSUME NEW o \in Request \ {q}
      PROVE  ThreadNames(o)'
  <2>1. /\ request[o].at \in Answering \cup Holding \cup Leaving =>
               WillMean(request[o].project.label, request[o].project.root)
        /\ request[o].at = "load" => WillMean(request[o].project.label, request[o].target)
        /\ request[o].at \in {"queue", "spawn"} =>
               WillMean(request[o].project.label, request[o].handle.root)
    BY <1>1, <1>2, MeaningKept DEF NamesInv, ThreadNames
  <2>2. QED
    BY <1>1, <2>1 DEF Others, ThreadNames, Means, WillMean
<1>4. QED
  BY <1>1, <1>2, <1>3, ServeFileNames, ServeHandleNames, ServeOwnNames, ServeJobNames

LEMMA ServeOwnFresh ==
    ASSUME MeaningInv, NEW q \in Request, Serve(q)
    PROVE  ThreadFresh(q)'
<1> USE DEF MeaningInv, DiskInv, ThreadInv
<1> DEFINE t == request[q]
           u == request'[q]
           l == t.project.label
<1>1. /\ TypeInv' /\ UNCHANGED config
      /\ t \in Thread /\ u \in Thread
  BY NextTyped, ServeOthers DEF TypeInv, DaemonTypeOK, Next
<1>2. /\ ThreadFresh(q)
      /\ config \in [Root -> Nat]
      /\ t.since \in [Root -> Nat]
  BY <1>1 DEF FreshInv, Thread, TypeInv, DaemonTypeOK
<1>3. CASE u = Over
  <2>1. u.at = "over" /\ u.since = [r \in Root |-> 0]
    BY <1>3, OverThread
  <2>2. QED
    BY <1>1, <1>2, <2>1 DEF ThreadFresh, Refreshed
<1>4. CASE /\ u.at \in {"register", "remove", "find"}
           /\ u.since \in {config, t.since}
  BY <1>1, <1>2, <1>4 DEF ThreadFresh, Refreshed
<1>5. CASE Meets(q)
  <2>1. ~Refreshed(q)' /\ u.since = t.since /\ u.at \notin {"queue", "spawn"}
    BY <1>5 DEF Meets, Refreshed
  <2>2. QED
    BY <1>1, <1>2, <2>1 DEF ThreadFresh
<1>6. CASE Turns(q)
  <2>1. u.since = t.since /\ u.project = t.project /\ u.op = t.op /\ u.handle = t.handle
    BY <1>6 DEF Turns, Keeps
  <2>2. CASE u.at = "spawn"
    <3>1. t.at = "queue"
      BY <1>6, <2>2 DEF Turns
    <3>2. QED
      BY <1>1, <1>2, <2>1, <2>2, <3>1 DEF ThreadFresh, Refreshed
  <2>3. CASE t.at = "invalidate"
    <3>1. handles'[l] = None
      <4>1. Invalidates(q)
        BY <2>3 DEF Serve, Arrives, Registers, Saves, Finds, Checks, Reresolves, Loads,
                    Queues, Spawns, Removes, Drops, Forgets, Clears, At
      <4>2. l \in Label
        BY <1>1, <2>3 DEF TypeInv, RequestsPlaced, Placed, Answering, Thread, Project
      <4>3. QED
        BY <4>1, <4>2 DEF Invalidates, DropsHandle, TypeInv, DaemonTypeOK
    <3>2. u.at \notin {"queue", "spawn"}
      BY <1>6, <2>3 DEF Turns
    <3>3. QED
      BY <1>1, <1>2, <2>1, <3>1, <3>2 DEF ThreadFresh
  <2>4. CASE t.at = "check" /\ u.at = "resolve" /\ t.op = "add"
    <3>1. UNCHANGED handles
      BY <2>4, SectionHandles
    <3>2. QED
      BY <1>1, <1>2, <2>1, <2>4, <3>1 DEF ThreadFresh, Refreshed
  <2>5. CASE ~Refreshed(q)' /\ u.at # "spawn"
    BY <1>1, <1>2, <1>6, <2>1, <2>5 DEF ThreadFresh, Turns
  <2>6. QED
    BY <1>6, <2>2, <2>3, <2>4, <2>5 DEF Turns, Refreshed
<1>7. CASE t.at = "resolve" /\ u.at = "load" /\ Keeps(q)
  <2>1. t.op \in {"add", "reindex"}
    BY <1>7 DEF TypeInv, RequestsPlaced, Placed, Answering
  <2>2. UNCHANGED handles
    BY <1>7, SectionHandles
  <2>3. QED
    BY <1>1, <1>2, <1>7, <2>1, <2>2 DEF ThreadFresh, Refreshed, Keeps
<1>8. CASE /\ t.at = "load" /\ u.at = "queue" /\ Keeps(q)
           /\ t.op \in {"add", "reindex"}
           /\ \/ u.handle = Cached(q) /\ Cached(q) # None
              \/ u.handle = Loaded(q) /\ Cached(q) = None
  <2>1. u.handle.config >= t.since[u.handle.root]
    <3>1. CASE u.handle = Cached(q) /\ Cached(q) # None
      BY <1>2, <1>8, <3>1 DEF ThreadFresh, Refreshed, Cached
    <3>2. CASE u.handle = Loaded(q)
      <4>1. t.target \in Root
        BY <1>1, <1>8 DEF TypeInv, RequestsPlaced, Placed, Thread
      <4>2. u.handle.config = config[t.target] /\ u.handle.root = t.target
        BY <3>2 DEF Loaded
      <4>3. t.since[t.target] <= config[t.target]
        BY <1>2, <4>1 DEF ThreadFresh
      <4>4. QED
        BY <1>2, <4>1, <4>2, <4>3
    <3>3. QED
      BY <1>8, <3>1, <3>2
  <2>2. QED
    BY <1>1, <1>2, <1>8, <2>1 DEF ThreadFresh, Refreshed, Keeps
<1>9. QED
  BY <1>3, <1>4, <1>5, <1>6, <1>7, <1>8, SectionEnds, Zenon

LEMMA ServeFresh ==
    ASSUME MeaningInv, NEW q \in Request, Serve(q)
    PROVE  FreshInv'
<1> USE DEF MeaningInv, DiskInv, ThreadInv
<1>1. /\ UNCHANGED config /\ Others(q)
      /\ Spawns(q) \/ UNCHANGED job
  BY ServeOthers
<1>2. ASSUME NEW o \in Request \ {q}
      PROVE  ThreadFresh(o)'
  <2> DEFINE l == request[o].project.label
  <2>1. ThreadFresh(o) /\ request'[o] = request[o] /\ request[o] \in Thread
    BY <1>1 DEF FreshInv, Others, TypeInv, DaemonTypeOK
  <2>2. CASE ~Refreshed(o)
    BY <1>1, <2>1, <2>2 DEF ThreadFresh, Refreshed
  <2>3. CASE Refreshed(o)
    <3>1. l \in Label
      BY <2>1, <2>3
         DEF Refreshed, TypeInv, RequestsPlaced, Placed, Answering, Thread, Project
    <3>2. CASE handles'[l] = handles[l] \/ handles'[l] = None
      BY <1>1, <2>1, <2>3, <3>2 DEF ThreadFresh, Refreshed
    <3>3. CASE handles'[l] = Loaded(q) /\ request[q].at = "load"
      <4>1. request[q].target \in Root
        BY <3>3 DEF TypeInv, DaemonTypeOK, RequestsPlaced, Placed, Thread
      <4>2. handles'[l].config = config[request[q].target] /\ handles'[l].root = request[q].target
        BY <3>3 DEF Loaded
      <4>3. /\ request[o].since[request[q].target] <= config[request[q].target]
            /\ request[o].since \in [Root -> Nat]
            /\ config \in [Root -> Nat]
        BY <2>1, <4>1 DEF ThreadFresh, Thread, TypeInv, DaemonTypeOK
      <4>4. handles'[l].config >= request[o].since[handles'[l].root]
        BY <4>1, <4>2, <4>3
      <4>5. QED
        BY <1>1, <2>1, <4>4 DEF ThreadFresh, Refreshed
    <3>4. QED
      BY <3>1, <3>2, <3>3, SectionHandles DEF TypeInv, DaemonTypeOK
  <2>4. QED
    BY <2>2, <2>3
<1>3. ASSUME NEW o \in Request
      PROVE  JobFresh(o)'
  <2>1. CASE job'[o] = job[o]
    BY <2>1 DEF FreshInv, JobFresh, Live
  <2>2. CASE o = q /\ Spawns(q) /\ job'[q] # job[q]
    <3>1. /\ job'[q].root = request[q].handle.root
          /\ job'[q].config = request[q].handle.config
          /\ job'[q].since = request[q].since
      BY <2>2, SpawnedJob
    <3>2. ThreadFresh(q) /\ request[q].at = "spawn"
      BY <2>2 DEF FreshInv, Spawns, At
    <3>3. QED
      BY <2>2, <3>1, <3>2 DEF JobFresh, ThreadFresh
  <2>3. QED
    BY <1>1, <2>1, <2>2, SpawnedJob
<1>4. QED
  BY <1>2, <1>3, ServeOwnFresh DEF FreshInv

LEMMA WorkMeaning ==
    ASSUME MeaningInv, NEW q \in Request, Work(q)
    PROVE  NamesInv' /\ FreshInv'
<1> USE DEF MeaningInv, DiskInv, ThreadInv
<1>1. UNCHANGED <<up, mixed, registry, freed, file, handles, request, config>>
  BY DEF Work, diskVars
<1>2. ASSUME NEW o \in Request
      PROVE  /\ up /\ ~mixed => JobNames(o)'
             /\ JobFresh(o)'
  <2>1. \/ job'[o] = job[o]
        \/ job'[o] = None
        \/ /\ Live(o)
           /\ job'[o].label = job[o].label
           /\ job'[o].root = job[o].root
           /\ job'[o].config = job[o].config
           /\ job'[o].asked = job[o].asked
           /\ job'[o].since = job[o].since
    BY WorkOthers
  <2>2. JobFresh(o)
    BY DEF FreshInv
  <2>3. up /\ ~mixed => JobNames(o)
    BY DEF NamesInv
  <2>4. JobFresh(o)'
    BY <2>1, <2>2 DEF JobFresh, Live
  <2>5. up /\ ~mixed => JobNames(o)'
    BY <1>1, <2>1, <2>3 DEF JobNames, Live, Means
  <2>6. QED
    BY <2>4, <2>5
<1>3. up /\ ~mixed => FileNames' /\ HandleNames' /\ \A o \in Request : ThreadNames(o)'
  BY <1>1 DEF NamesInv, FileNames, HandleNames, ThreadNames, Means
<1>4. \A o \in Request : ThreadFresh(o)'
  BY <1>1 DEF FreshInv, ThreadFresh, Refreshed
<1>5. QED
  BY <1>1, <1>2, <1>3, <1>4 DEF NamesInv, FreshInv

LEMMA CommandMeaning ==
    ASSUME MeaningInv, NEW c \in Command, Reads(c) \/ Writes(c) \/ Replaces(c)
    PROVE  NamesInv' /\ FreshInv'
<1> USE DEF MeaningInv, DiskInv, ThreadInv
<1>1. UNCHANGED <<up, registry, freed, handles, request, job, config>>
  BY DEF Reads, Writes, Replaces, daemonVars, history
<1>2. FreshInv'
  BY <1>1 DEF FreshInv, ThreadFresh, JobFresh, Live, Refreshed
<1>3. CASE Reads(c)
  <2>1. UNCHANGED <<file, mixed>>
    BY <1>3 DEF Reads, diskVars, history
  <2>2. QED
    BY <1>1, <1>2, <2>1 DEF NamesInv, FileNames, HandleNames, ThreadNames, JobNames, Live, Means
<1>4. CASE Writes(c) \/ Replaces(c)
  <2>1. up => mixed'
    BY <1>4, Zenon DEF Writes, Replaces, Beside
  <2>2. QED
    BY <1>1, <1>2, <2>1 DEF NamesInv
<1>5. QED
  BY <1>3, <1>4

LEMMA EditsMeaning ==
    ASSUME MeaningInv, NEW r \in Root, Edits(r)
    PROVE  NamesInv' /\ FreshInv'
<1> USE DEF MeaningInv, DiskInv, ThreadInv
<1>1. UNCHANGED <<up, mixed, file, registry, freed, handles, request, job>>
  BY DEF Edits, daemonVars, diskVars, history
<1>2. NamesInv'
  BY <1>1 DEF NamesInv, FileNames, HandleNames, ThreadNames, JobNames, Live, Means
<1>3. \A s \in Root : config[s] \in Nat /\ config'[s] \in {config[s], config[s] + 1}
  BY DEF Edits, TypeInv, DaemonTypeOK
<1>4. \A q \in Request : request[q].since \in [Root -> Nat]
  BY DEF TypeInv, DaemonTypeOK, Thread
<1>5. ASSUME NEW q \in Request, NEW s \in Root
      PROVE  request[q].since[s] <= config'[s]
  <2>1. request[q].since[s] <= config[s]
    BY DEF FreshInv, ThreadFresh
  <2>2. QED
    BY <1>3, <1>4, <2>1
<1>6. FreshInv'
  BY <1>1, <1>5 DEF FreshInv, ThreadFresh, JobFresh, Live, Refreshed
<1>7. QED
  BY <1>2, <1>6

LEMMA StopsMeaning ==
    ASSUME MeaningInv, Stops \/ Starts
    PROVE  NamesInv' /\ FreshInv'
<1> USE DEF MeaningInv, DiskInv, ThreadInv
<1>1. \A q \in Request : request'[q].at \in {"new", "over"} /\ ~Live(q)'
  BY OverThread DEF Stops, Starts, Confined, Live
<1>2. \A q \in Request :
          /\ \A r \in Root : request[q].since[r] <= config[r]
          /\ request'[q] = request[q] \/ request'[q] = Over
  BY DEF Stops, Starts, FreshInv, ThreadFresh
<1>3. UNCHANGED config
  BY DEF Stops, Starts
<1>4. \A q \in Request, r \in Root : request'[q].since[r] <= config'[r]
  BY <1>2, <1>3, OverThread DEF TypeInv, DaemonTypeOK
<1>5. FreshInv'
  BY <1>1, <1>4 DEF FreshInv, ThreadFresh, JobFresh, Refreshed
<1>6. NamesInv'
  <2>1. CASE Stops
    BY <2>1 DEF Stops, NamesInv
  <2>2. CASE Starts
    <3>1. /\ registry' = file /\ UNCHANGED file
          /\ \A l \in Label : handles'[l] = None
      BY <2>2 DEF Starts, diskVars
    <3>2. \A p \in file' : p \in Project /\ p \in registry'
      BY <3>1 DEF TypeInv, DaemonTypeOK
    <3>3. FileNames' /\ HandleNames'
      BY <3>1, <3>2, ProjectMeans DEF FileNames, HandleNames, Means, WillMean
    <3>4. \A q \in Request : ThreadNames(q)' /\ JobNames(q)'
      BY <1>1 DEF ThreadNames, JobNames, Answering, Holding, Leaving
    <3>5. QED
      BY <3>3, <3>4 DEF NamesInv
  <2>3. QED
    BY <2>1, <2>2
<1>7. QED
  BY <1>5, <1>6

LEMMA NextMeaning == MeaningInv /\ [Next]_vars => MeaningInv'
<1> SUFFICES ASSUME MeaningInv, [Next]_vars
             PROVE  MeaningInv'
  OBVIOUS
<1>1. DiskInv' /\ UniqueInv'
  BY NextDisk, NextUnique DEF MeaningInv
<1>2. CASE UNCHANGED vars
  <2>1. NamesInv' /\ FreshInv'
    BY <1>2 DEF MeaningInv, vars, daemonVars, diskVars, history, NamesInv, FreshInv, FileNames,
                HandleNames, ThreadNames, JobNames, ThreadFresh, JobFresh, Refreshed, Live, Means
  <2>2. QED
    BY <1>1, <2>1 DEF MeaningInv
<1>3. CASE Next
  BY <1>1, <1>3, ServeNames, ServeFresh, WorkMeaning, CommandMeaning, EditsMeaning,
     StopsMeaning DEF Next, MeaningInv
<1>4. QED
  BY <1>2, <1>3

LEMMA InitMeaning == Init => NamesInv /\ FreshInv
<1> SUFFICES ASSUME Init
             PROVE  NamesInv /\ FreshInv
  OBVIOUS
<1>1. \A q \in Request : /\ request[q].at = "new" /\ ~Live(q)
                         /\ request[q].since = [r \in Root |-> 0]
  BY DEF Init, Fresh, Live
<1>2. QED
  BY <1>1 DEF Init, NamesInv, FreshInv, FileNames, HandleNames, ThreadNames, JobNames,
              ThreadFresh, JobFresh, Refreshed, Answering, Holding, Leaving

LEMMA SpecMeaning == Spec => []MeaningInv
<1>1. Init => MeaningInv
  BY InitMeaning, InitDisk, InitUnique DEF MeaningInv
<1>2. QED
  BY <1>1, NextMeaning, PTL DEF Spec

\* A job indexes the root its request was answered for, under a configuration
\* no older than the request, unless its label was given back or a command
\* saved the registry beside the daemon or another command.
THEOREM JobsIndexTheirRequests == Spec => []JobIndexesItsRequest
<1>1. MeaningInv => JobIndexesItsRequest
  <2> SUFFICES ASSUME MeaningInv,
                      NEW q \in Request, Live(q), ~mixed, job[q].label \notin freed
               PROVE  job[q].root = job[q].asked /\ job[q].config >= job[q].since[job[q].root]
    BY DEF JobIndexesItsRequest
  <2>1. up
    BY DEF MeaningInv, DiskInv, ThreadInv, Confined
  <2> DEFINE p == [label |-> job[q].label, root |-> job[q].root]
             o == [label |-> job[q].label, root |-> job[q].asked]
  <2>2. p \in registry /\ o \in registry
    BY <2>1 DEF MeaningInv, NamesInv, JobNames, Means
  <2>3. p = o
    BY <2>2 DEF MeaningInv, UniqueInv, LabelsAndRootsUnique, Unique
  <2>4. job[q].config >= job[q].since[job[q].root]
    BY DEF MeaningInv, FreshInv, JobFresh
  <2>5. QED
    BY <2>3, <2>4
<1>2. QED
  BY <1>1, SpecMeaning, PTL

-----------------------------------------------------------------------------
(* Two jobs of one project.                                                *)

\* Requests that index the label, or are about to.
Working(l) ==
    {q \in Request :
        \/ Live(q) /\ job[q].label = l
        \/ request[q].at = "spawn" /\ request[q].project.label = l}

\* While no check was passed twice, one request works on a label, and nobody
\* is past a check that the working one would have failed.
WorksAlone(l) ==
    /\ Working(l) # {} => Running(l)
    /\ \A q \in Working(l), o \in Working(l) \cup PastCheck(l) : q = o
OneWorks == \A l \in Label \ (raced \cup freed) : WorksAlone(l)

\* A removal gave the label back before it clears the job of it.
LeavingFreed == \A q \in Request : request[q].at \in Leaving => request[q].project.label \in freed

AloneInv == ThreadInv /\ LeavingFreed /\ OneWorks

LEMMA ServeLeaving ==
    ASSUME AloneInv, NEW q \in Request, Serve(q)
    PROVE  /\ LeavingFreed'
           /\ freed \subseteq freed' /\ raced \subseteq raced'
<1> USE DEF AloneInv, ThreadInv
<1>1. freed \subseteq freed' /\ Others(q)
  BY SectionRegistry, ServeOthers
<1>2. raced \subseteq raced'
  BY Zenon DEF Serve, Arrives, Registers, Saves, Finds, Resolves, Invalidates, Checks, Reresolves,
         Loads, Queues, Spawns, Removes, Drops, Forgets, Clears, history
<1>3. ASSUME request'[q].at \in Leaving
      PROVE  request'[q].project.label \in freed'
  <2>1. CASE request[q].at = "remove"
    <3>1. Removes(q)
      BY <2>1 DEF Serve, Arrives, Registers, Saves, Finds, Invalidates, Checks, Reresolves,
                  Loads, Queues, Spawns, Drops, Forgets, Clears, At
    <3>2. PICK p \in Removals(registry, request[q].needle) :
              freed' = freed \cup {p.label} /\ Became(q, "dropping", p)
      BY <1>3, <3>1, EndedThread, OverThread DEF Removes, Leaving, TypeInv
    <3>3. p \in Project
      BY DEF Removals, TypeInv, DaemonTypeOK
    <3>4. QED
      BY <3>2, <3>3, BecameThread DEF Place, TypeInv
  <2>2. CASE request[q].at \in Leaving /\ Turns(q)
    BY <1>1, <2>2 DEF Turns, Keeps, LeavingFreed
  <2>3. QED
    BY <1>3, <2>1, <2>2, SectionEnds, OverThread, Zenon DEF Meets, Turns, Leaving
<1>4. QED
  BY <1>1, <1>2, <1>3 DEF LeavingFreed, Others

\* Who may come past the check, and who may start to work.
LEMMA ServeComes ==
    ASSUME AloneInv, NEW q \in Request, Serve(q), NEW l
    PROVE  /\ \A o \in Request \ {q} : /\ o \in PastCheck(l)' => o \in PastCheck(l)
                                       /\ o \in Working(l)' => o \in Working(l)
           /\ q \in PastCheck(l)' =>
                  q \in PastCheck(l) \/ (~Running(l) /\ UNCHANGED jobs /\ q \notin Working(l)')
           /\ q \in Working(l)' => q \in Working(l) \/ (Queues(q) /\ q \in PastCheck(l))
<1> USE DEF AloneInv, ThreadInv
<1>1. /\ Others(q) /\ request[q].at # "over"
      /\ Spawns(q) \/ UNCHANGED job
  BY ServeOthers
<1>2. \A o \in Request \ {q} : request'[o] = request[o] /\ job'[o] = job[o]
  BY <1>1, SpawnedJob DEF Others
<1>3. \A o \in Request \ {q} : /\ o \in PastCheck(l)' => o \in PastCheck(l)
                               /\ o \in Working(l)' => o \in Working(l)
  BY <1>2 DEF PastCheck, Working, Live
<1>4. ~Live(q)
  BY <1>1 DEF JobsOfOver
<1>5. Placed(request[q])
  BY DEF TypeInv, RequestsPlaced
<1>6. q \in PastCheck(l)' =>
          q \in PastCheck(l) \/ (~Running(l) /\ UNCHANGED jobs /\ q \notin Working(l)')
  <2>1. CASE Checks(q)
    <3>1. CASE Busy(q)
      BY <2>1, <3>1, EndedThread, OverThread DEF Checks, PastCheck, TypeInv
    <3>2. CASE ~Busy(q)
      <4>1. /\ Moved(q, IF request[q].op = "add" THEN "resolve" ELSE "invalidate")
            /\ UNCHANGED <<jobs, job>>
        BY <2>1, <3>2 DEF Checks, daemonVars
      <4>2. /\ request'[q].at \in {"resolve", "invalidate"}
            /\ request'[q].project = request[q].project
        BY <4>1, MovedThread DEF Goes, Place, TypeInv
      <4>3. QED
        BY <1>4, <3>2, <4>1, <4>2 DEF Busy, Running, PastCheck, Working, Live
    <3>3. QED
      BY <3>1, <3>2
  <2>2. CASE request'[q] = Over \/ request'[q].at \in {"register", "remove", "find"} \/ Meets(q)
    BY <2>2, OverThread DEF PastCheck, Meets
  <2>3. CASE Turns(q) /\ ~Checks(q)
    <3>1. request[q].at # "check"
      BY <2>3, Zenon DEF Serve, Arrives, Registers, Saves, Finds, Invalidates, Reresolves,
                  Loads, Queues, Spawns, Removes, Drops, Forgets, Clears, At
    <3>2. request[q].at = "saving" => request[q].op = "add"
      BY <1>5 DEF Placed
    <3>3. QED
      BY <2>3, <3>1, <3>2 DEF Turns, Keeps, PastCheck
  <2>4. CASE request[q].at = "resolve" /\ request'[q].at = "load" /\ Keeps(q)
    BY <2>4 DEF Keeps, PastCheck
  <2>5. CASE request[q].at = "load" /\ request'[q].at = "queue" /\ Keeps(q)
    BY <2>5 DEF Keeps, PastCheck
  <2>6. QED
    BY <2>1, <2>2, <2>3, <2>4, <2>5, SectionEnds, Zenon
<1>7. q \in Working(l)' => q \in Working(l) \/ (Queues(q) /\ q \in PastCheck(l))
  <2>1. CASE Spawns(q)
    <3>1. request[q].at = "spawn" /\ request'[q].at = "over"
      BY <2>1, SpawnedJob, OverThread DEF Spawns, At
    <3>2. QED
      BY <1>4, <2>1, <3>1, SpawnedJob DEF Working, Live
  <2>2. CASE ~Spawns(q)
    <3>1. SUFFICES ASSUME request'[q].at = "spawn", request'[q].project.label = l
                   PROVE  Queues(q) /\ q \in PastCheck(l)
      BY <1>1, <1>4, <2>2 DEF Working, Live
    <3>2. Turns(q) /\ request[q].at = "queue"
      BY <3>1, SectionEnds, OverThread, Zenon DEF Meets, Turns
    <3>3. Queues(q)
      BY <3>2 DEF Serve, Arrives, Registers, Saves, Finds, Invalidates, Checks, Reresolves,
                  Loads, Spawns, Removes, Drops, Forgets, Clears, At
    <3>4. q \in PastCheck(l)
      BY <1>5, <3>1, <3>2 DEF Turns, Keeps, PastCheck, Placed, Answering
    <3>5. QED
      BY <3>3, <3>4
  <2>3. QED
    BY <2>1, <2>2
<1>8. QED
  BY <1>3, <1>6, <1>7

LEMMA ServeAlone ==
    ASSUME AloneInv, NEW q \in Request, Serve(q), NEW l \in Label, l \notin raced' \cup freed'
    PROVE  WorksAlone(l)'
<1> USE DEF AloneInv, ThreadInv
<1>1. WorksAlone(l) /\ l \notin freed
  BY ServeLeaving DEF OneWorks
<1>2. request[q] \in Thread /\ Placed(request[q]) /\ request[q].at # "over"
  BY ServeOthers DEF TypeInv, RequestsPlaced, DaemonTypeOK
<1>3. CASE Queues(q) /\ q \in PastCheck(l)
  <2>1. request[q].project.label = l /\ request[q].at = "queue"
    BY <1>3 DEF Queues, At, PastCheck
  <2>2. PastCheck(l) = {q}
    BY <1>3, <2>1 DEF Queues
  <2>3. q \notin Working(l)
    BY <1>2, <2>1 DEF Working, JobsOfOver
  <2>4. Working(l) = {}
    BY <1>1, <2>2, <2>3 DEF WorksAlone
  <2>5. Working(l)' \subseteq {q}
    BY <2>4, ServeComes, Zenon DEF Working
  <2>6. PastCheck(l)' \subseteq {q}
    BY <1>3, <2>2, ServeComes DEF PastCheck
  <2>7. Running(l)'
    BY <1>3, <2>1 DEF Queues, SetJob, Running, TypeInv, DaemonTypeOK
  <2>8. QED
    BY <2>5, <2>6, <2>7 DEF WorksAlone
<1>4. CASE ~(Queues(q) /\ q \in PastCheck(l))
  <2>1. Working(l)' \subseteq Working(l)
    BY <1>4, ServeComes DEF Working
  <2>2. \A o \in PastCheck(l)' : o \in PastCheck(l) \/ ~Running(l)
    BY ServeComes DEF PastCheck
  <2>3. Running(l) => Running(l)'
    <3>1. CASE Clears(q)
      <4>1. request[q].project.label # l
        BY <1>1, <3>1 DEF Clears, At, LeavingFreed, Leaving
      <4>2. QED
        BY <3>1, <4>1 DEF Clears, Running, TypeInv, DaemonTypeOK
    <3>2. CASE Queues(q)
      BY <3>2 DEF Queues, SetJob, Running, TypeInv, DaemonTypeOK
    <3>3. CASE ~(Clears(q) \/ Queues(q))
      BY <3>3, Zenon DEF Serve, Arrives, Registers, Saves, Finds, Resolves, Invalidates, Checks,
         Reresolves, Loads, Spawns, Removes, Drops, Forgets, Running, daemonVars
    <3>4. QED
      BY <3>1, <3>2, <3>3
  <2>4. QED
    BY <1>1, <2>1, <2>2, <2>3 DEF WorksAlone
<1>5. QED
  BY <1>3, <1>4

LEMMA WorkAlone ==
    ASSUME AloneInv, NEW q \in Request, Work(q), NEW l \in Label, l \notin raced \cup freed
    PROVE  WorksAlone(l)'
<1> USE DEF AloneInv, ThreadInv
<1>1. /\ WorksAlone(l) /\ Live(q) /\ UNCHANGED request
      /\ \A o \in Request \ {q} : job'[o] = job[o]
      /\ job'[q] = None \/ job'[q].label = job[q].label
      /\ job[q].label \in Label
  BY WorkOthers DEF OneWorks, Work, Live, TypeInv, DaemonTypeOK, Job
<1>2. Working(l)' \subseteq Working(l) /\ PastCheck(l)' = PastCheck(l)
  BY <1>1 DEF Working, PastCheck, Live
<1>3. CASE job[q].label # l
  <2>1. Running(l)' = Running(l)
    BY <1>1, <1>3 DEF Work, Indexes, Succeeds, Errs, Finishes, Panics, SetJob, FinishedJobs,
                      Running, TypeInv, DaemonTypeOK
  <2>2. QED
    BY <1>1, <1>2, <2>1 DEF WorksAlone
<1>4. CASE job[q].label = l
  <2>1. q \in Working(l) /\ Running(l)
    BY <1>1, <1>4 DEF Working, WorksAlone
  <2>2. CASE Finishes(q) \/ Panics(q)
    <3>1. job'[q] = None
      BY <2>2 DEF Finishes, Panics, JobGone, TypeInv, DaemonTypeOK
    <3>2. q \notin Working(l)'
      <4>1. request[q].at = "over"
        BY <1>1 DEF JobsOfOver
      <4>2. QED
        BY <1>1, <3>1, <4>1 DEF Working, Live
    <3>3. Working(l)' = {}
      BY <1>1, <1>2, <2>1, <3>2 DEF WorksAlone
    <3>4. QED
      BY <3>3 DEF WorksAlone
  <2>3. CASE Indexes(q) \/ Succeeds(q) \/ Errs(q)
    <3>1. Running(l)'
      BY <1>4, <2>1, <2>3 DEF Indexes, Succeeds, Errs, SetJob, Running, TypeInv, DaemonTypeOK
    <3>2. QED
      BY <1>1, <1>2, <3>1 DEF WorksAlone
  <2>4. QED
    BY <2>2, <2>3 DEF Work
<1>5. QED
  BY <1>3, <1>4

LEMMA NextAlone == AloneInv /\ [Next]_vars => AloneInv'
<1> SUFFICES ASSUME AloneInv, [Next]_vars
             PROVE  AloneInv'
  OBVIOUS
<1>1. ThreadInv'
  BY NextThreads DEF AloneInv
<1>2. ASSUME NEW q \in Request, Serve(q)
      PROVE  AloneInv'
  BY <1>1, <1>2, ServeLeaving, ServeAlone DEF AloneInv, OneWorks
<1>3. ASSUME NEW q \in Request, Work(q)
      PROVE  AloneInv'
  <2>1. UNCHANGED <<request, raced, freed>>
    BY <1>3 DEF Work
  <2>2. LeavingFreed'
    BY <2>1 DEF AloneInv, LeavingFreed
  <2>3. OneWorks'
    BY <1>3, <2>1, WorkAlone DEF OneWorks
  <2>4. QED
    BY <1>1, <2>2, <2>3 DEF AloneInv
<1>4. CASE \/ \E c \in Command : Reads(c) \/ Writes(c) \/ Replaces(c)
           \/ \E r \in Root : Edits(r)
           \/ UNCHANGED vars
  <2>1. UNCHANGED <<request, job, jobs, raced, freed>>
    BY <1>4 DEF Reads, Writes, Replaces, Edits, vars, daemonVars, history
  <2>2. QED
    BY <1>1, <2>1 DEF AloneInv, LeavingFreed, OneWorks, WorksAlone, Working, PastCheck,
                      Running, Live
<1>5. CASE Stops \/ Starts
  <2>1. \A q \in Request : request'[q].at \in {"new", "over"} /\ ~Live(q)'
    BY <1>5, OverThread DEF Stops, Starts, AloneInv, ThreadInv, Confined, Live
  <2>2. \A l \in Label : Working(l)' = {}
    BY <2>1 DEF Working
  <2>3. LeavingFreed' /\ OneWorks'
    BY <2>1, <2>2 DEF LeavingFreed, Leaving, OneWorks, WorksAlone
  <2>4. QED
    BY <1>1, <2>3 DEF AloneInv
<1>6. QED
  BY <1>2, <1>3, <1>4, <1>5 DEF Next

LEMMA InitAlone == Init => AloneInv
<1> SUFFICES ASSUME Init
             PROVE  AloneInv
  OBVIOUS
<1>1. ThreadInv
  BY InitTyped DEF Init, ThreadInv, JobsOfOver, Confined, Live
<1>2. \A q \in Request : request[q].at = "new" /\ ~Live(q)
  BY DEF Init, Fresh, Live
<1>3. \A l \in Label : Working(l) = {}
  BY <1>2 DEF Working
<1>4. QED
  BY <1>1, <1>2, <1>3 DEF AloneInv, LeavingFreed, Leaving, OneWorks, WorksAlone

LEMMA SpecAlone == Spec => []AloneInv
BY InitAlone, NextAlone, PTL DEF Spec

\* Two jobs of one project run together only if two requests passed the check
\* of its status before either queued a job, if its label was given back, or
\* if a command saved the registry beside the daemon or another command.
THEOREM JobsDoubleOnlyAfterARace == Spec => []JobsDoubleOnlyIfRaced
<1>1. MeaningInv /\ AloneInv => JobsDoubleOnlyIfRaced
  <2> SUFFICES ASSUME MeaningInv, AloneInv,
                      NEW q \in Request, NEW o \in Request,
                      Live(q), Live(o), q # o, job[q].root = job[o].root, ~mixed,
                      {job[q].label, job[o].label} \cap (raced \cup freed) = {}
               PROVE  FALSE
    BY DEF JobsDoubleOnlyIfRaced
  <2>1. up /\ job[q].label \in Label
    BY DEF MeaningInv, DiskInv, ThreadInv, Confined, TypeInv, DaemonTypeOK, Live, Job
  <2> DEFINE p == [label |-> job[q].label, root |-> job[q].root]
             r == [label |-> job[o].label, root |-> job[o].root]
  <2>2. p \in registry /\ r \in registry
    BY <2>1, Zenon DEF MeaningInv, NamesInv, JobNames, Means
  <2>3. p = r
    BY <2>2 DEF MeaningInv, UniqueInv, LabelsAndRootsUnique, Unique
  <2>4. job[q].label = job[o].label
    BY <2>3
  <2>5. WorksAlone(job[q].label)
    BY <2>1 DEF AloneInv, OneWorks
  <2>6. q \in Working(job[q].label) /\ o \in Working(job[q].label)
    BY <2>4 DEF Working
  <2>7. QED
    BY <2>5, <2>6 DEF WorksAlone
<1>2. QED
  BY <1>1, SpecMeaning, SpecAlone, PTL

-----------------------------------------------------------------------------
(* Sequences of a search.                                                  *)

\* The first n elements.
LEMMA TakeIs ==
    ASSUME NEW X, NEW s \in Seq(X), NEW n \in Nat
    PROVE  /\ Take(s, n) \in Seq(X)
           /\ Len(Take(s, n)) <= n /\ Len(Take(s, n)) <= Len(s)
           /\ Len(s) <= n => Len(Take(s, n)) = Len(s)
           /\ n <= Len(s) => Len(Take(s, n)) = n
           /\ \A i \in 1 .. Len(Take(s, n)) : Take(s, n)[i] = s[i]
<1> DEFINE m == IF n < Len(s) THEN n ELSE Len(s)
<1>1. /\ m \in Nat /\ m <= n /\ m <= Len(s)
      /\ Len(s) <= n => m = Len(s)
      /\ n <= Len(s) => m = n
  OBVIOUS
<1>2. Take(s, n) = SubSeq(s, 1, m)
  BY DEF Take
<1> HIDE DEF m
<1>3. SubSeq(s, 1, m) \in Seq(X) /\ Len(SubSeq(s, 1, m)) = m
  BY <1>1, SubSeqProperties
<1>4. \A i \in 1 .. m : SubSeq(s, 1, m)[i] = s[i]
  BY <1>1, <1>3
<1>5. QED
  BY <1>1, <1>2, <1>3, <1>4

LEMMA TakeKeeps ==
    ASSUME NEW X, NEW s \in Seq(X), NEW n \in Nat
    PROVE  /\ IsInjective(s) => IsInjective(Take(s, n))
           /\ ToSet(Take(s, n)) \subseteq ToSet(s)
           /\ Len(s) <= n => Take(s, n) = s
<1> DEFINE t == Take(s, n)
<1>1. /\ t \in Seq(X) /\ Len(t) <= Len(s)
      /\ Len(s) <= n => Len(t) = Len(s)
      /\ \A i \in 1 .. Len(t) : t[i] = s[i]
  BY TakeIs
<1> HIDE DEF t
<1>2. \A i \in 1 .. Len(t) : i \in 1 .. Len(s)
  <2>1. Len(t) \in Nat /\ Len(s) \in Nat /\ Len(t) <= Len(s)
    BY <1>1
  <2>2. QED
    BY <2>1
<1>3. DOMAIN t = 1 .. Len(t) /\ DOMAIN s = 1 .. Len(s)
  BY <1>1
<1>4. IsInjective(s) => IsInjective(t)
  BY <1>1, <1>2, <1>3, Zenon DEF IsInjective
<1>5. ToSet(t) \subseteq ToSet(s)
  BY <1>1, <1>2, <1>3, Zenon DEF ToSet
<1>6. ASSUME Len(s) <= n PROVE t = s
  <2>1. Len(t) = Len(s)
    BY <1>1, <1>6
  <2>2. \A i \in 1 .. Len(t) : t[i] = s[i]
    BY <1>1
  <2>3. QED
    BY <1>1, <2>1, <2>2, SeqEqual
<1>7. QED
  BY <1>4, <1>5, <1>6 DEF t

\* One more element.
LEMMA AppendKeeps ==
    ASSUME NEW X, NEW s \in Seq(X), NEW x \in X
    PROVE  /\ Append(s, x) \in Seq(X)
           /\ ToSet(Append(s, x)) = ToSet(s) \cup {x}
           /\ IsInjective(s) /\ x \notin ToSet(s) => IsInjective(Append(s, x))
<1> DEFINE t == Append(s, x)
<1>1. t \in Seq(X) /\ Len(t) = Len(s) + 1 /\ Len(s) \in Nat
  BY AppendProperties
<1>2. t[Len(s) + 1] = x /\ \A i \in 1 .. Len(s) : t[i] = s[i]
  BY AppendProperties
<1> HIDE DEF t
<1>3. DOMAIN t = 1 .. Len(s) + 1 /\ DOMAIN s = 1 .. Len(s)
  BY <1>1
<1>4. \A i \in 1 .. Len(s) + 1 : i \in 1 .. Len(s) \/ i = Len(s) + 1
  BY <1>1
<1>5. \A i \in 1 .. Len(s) : i \in 1 .. Len(s) + 1
  BY <1>1
<1>6. Len(s) + 1 \in 1 .. Len(s) + 1
  BY <1>1
<1>7. ToSet(t) = ToSet(s) \cup {x}
  BY <1>2, <1>3, <1>4, <1>5, <1>6 DEF ToSet
<1>8. ASSUME IsInjective(s), x \notin ToSet(s) PROVE IsInjective(t)
  <2>1. \A i \in 1 .. Len(s) : t[i] # x
    BY <1>2, <1>3, <1>8 DEF ToSet
  <2>2. QED
    BY <1>2, <1>3, <1>4, <1>8, <2>1 DEF IsInjective
<1>9. QED
  BY <1>1, <1>7, <1>8 DEF t
\* No element of S occurs twice.
OnceIn(s, S) == \A i, j \in DOMAIN s : s[i] = s[j] /\ s[i] \in S => i = j

\* What a loop over s keeps of it.
LEMMA FilteredIs ==
    ASSUME NEW X, NEW s \in Seq(X), NEW S
    PROVE  /\ Filtered(s, S) \in Seq(X)
           /\ ToSet(Filtered(s, S)) = ToSet(s) \cap S
           /\ OnceIn(s, S) => IsInjective(Filtered(s, S))
<1> DEFINE N == Len(s)
           T == Seq(X)
           c == <<>>
           F == [p \in (1 .. N) \X T |-> IF s[p[1]] \in S THEN Append(p[2], s[p[1]]) ELSE p[2]]
           P == CHOOSE f : f = [n \in 0 .. N |->
                   IF n = 0 THEN c ELSE IF s[n] \in S THEN Append(f[n - 1], s[n]) ELSE f[n - 1]]
<1>1. N \in Nat /\ \A i \in 1 .. N : s[i] \in X
  OBVIOUS
<1>2. F \in [(1 .. N) \X T -> T]
  <2>1. ASSUME NEW n \in 1 .. N, NEW t \in T
        PROVE  (IF s[n] \in S THEN Append(t, s[n]) ELSE t) \in T
    BY <1>1
  <2>2. QED
    BY <2>1
<1>3. c \in T
  OBVIOUS
<1>4. PICK g \in [0 .. N -> T] : RecursiveUpTo(g, N, c, F)
  <2> HIDE DEF F, N, c, T
  <2>1. QED
    BY <1>1, <1>2, <1>3, RecursionUpTo, Zenon
<1>5. g[0] = c
  BY <1>4 DEF RecursiveUpTo
<1>6. ASSUME NEW k \in 1 .. N
      PROVE  g[k] = IF s[k] \in S THEN Append(g[k - 1], s[k]) ELSE g[k - 1]
  <2>1. g[k] = F[<<k, g[k - 1]>>]
    BY <1>4, Zenon DEF RecursiveUpTo
  <2>2. g[k - 1] \in T
    BY <1>1
  <2>3. <<k, g[k - 1]>> \in (1 .. N) \X T
    BY <2>2
  <2>4. QED
    BY <2>1, <2>3
<1>7. g = [n \in 0 .. N |->
              IF n = 0 THEN c ELSE IF s[n] \in S THEN Append(g[n - 1], s[n]) ELSE g[n - 1]]
  <2>1. ASSUME NEW n \in 0 .. N
        PROVE  g[n] = IF n = 0 THEN c
                      ELSE IF s[n] \in S THEN Append(g[n - 1], s[n]) ELSE g[n - 1]
    <3>1. CASE n = 0
      BY <1>5, <3>1
    <3>2. CASE n # 0
      <4>1. n \in 1 .. N
        BY <1>1, <3>2
      <4>2. QED
        BY <1>6, <3>2, <4>1, Zenon
    <3>3. QED
      BY <3>1, <3>2
  <2> HIDE DEF c
  <2>2. QED
    BY <2>1
<1>8. P = [n \in 0 .. N |->
              IF n = 0 THEN c ELSE IF s[n] \in S THEN Append(P[n - 1], s[n]) ELSE P[n - 1]]
  BY <1>7, Zenon
<1>9. Filtered(s, S) = P[N]
  BY DEF Filtered
<1> HIDE DEF P
<1>10. P[0] = c /\ \A n \in 1 .. N : P[n] = IF s[n] \in S THEN Append(P[n - 1], s[n]) ELSE P[n - 1]
  <2> DEFINE D == [n \in 0 .. N |->
                      IF n = 0 THEN c
                      ELSE IF s[n] \in S THEN Append(P[n - 1], s[n]) ELSE P[n - 1]]
  <2>1. D[0] = c
    BY <1>1
  <2>2. ASSUME NEW n \in 1 .. N
        PROVE  D[n] = IF s[n] \in S THEN Append(P[n - 1], s[n]) ELSE P[n - 1]
    BY <1>1
  <2>3. P = D
    BY <1>8, Zenon
  <2> HIDE DEF D
  <2>4. QED
    BY <2>1, <2>2, <2>3
<1> DEFINE Q(n) == /\ P[n] \in Seq(X)
                   /\ ToSet(P[n]) = {s[i] : i \in 1 .. n} \cap S
                   /\ OnceIn(s, S) => IsInjective(P[n])
           A == {n \in 0 .. N : Q(n)}
<1>11. 0 \in A
  <2>1. DOMAIN c = {}
    OBVIOUS
  <2>2. ToSet(c) = {} /\ IsInjective(c) /\ c \in Seq(X)
    BY <2>1 DEF ToSet, IsInjective
  <2>3. {s[i] : i \in 1 .. 0} = {}
    OBVIOUS
  <2>4. P[0] = c
    BY <1>10
  <2> HIDE DEF c
  <2>5. P[0] \in Seq(X) /\ (OnceIn(s, S) => IsInjective(P[0]))
    BY <2>2, <2>4
  <2>6. ToSet(P[0]) = {s[i] : i \in 1 .. 0} \cap S
    BY <2>2, <2>3, <2>4
  <2>7. QED
    BY <1>1, <2>5, <2>6
<1>12. ASSUME NEW n \in 1 .. N, n - 1 \in A PROVE n \in A
  <2>1. PICK p : p = P[n - 1]
    OBVIOUS
  <2>2. /\ p \in Seq(X) /\ ToSet(p) = {s[i] : i \in 1 .. n - 1} \cap S
        /\ OnceIn(s, S) => IsInjective(p)
    BY <1>12, <2>1
  <2>3. {s[i] : i \in 1 .. n} = {s[i] : i \in 1 .. n - 1} \cup {s[n]}
    <3>1. \A i : i \in 1 .. n <=> i \in 1 .. n - 1 \/ i = n
      BY <1>1
    <3>2. QED
      BY <3>1
  <2>4. CASE s[n] \notin S
    <3>1. P[n] = p
      BY <1>10, <2>1, <2>4
    <3>2. Q(n)
      BY <2>2, <2>3, <2>4, <3>1
    <3>3. QED
      BY <1>1, <3>2
  <2>5. CASE s[n] \in S
    <3>1. P[n] = Append(p, s[n])
      BY <1>10, <2>1, <2>5, Zenon
    <3>2. s[n] \in X
      BY <1>1
    <3>3. ASSUME OnceIn(s, S) PROVE s[n] \notin ToSet(p)
      <4>1. \A i \in 1 .. n - 1 : i \in DOMAIN s /\ n \in DOMAIN s /\ i # n
        BY <1>1
      <4>2. \A i \in 1 .. n - 1 : s[i] # s[n]
        BY <2>5, <3>3, <4>1 DEF OnceIn
      <4>3. QED
        BY <2>2, <4>2
    <3>4. /\ Append(p, s[n]) \in Seq(X)
          /\ ToSet(Append(p, s[n])) = ToSet(p) \cup {s[n]}
          /\ IsInjective(p) /\ s[n] \notin ToSet(p) => IsInjective(Append(p, s[n]))
      BY <2>2, <3>2, AppendKeeps, Zenon
    <3>5. ToSet(P[n]) = {s[i] : i \in 1 .. n} \cap S
      BY <2>2, <2>3, <2>5, <3>1, <3>4
    <3>6. Q(n)
      BY <2>2, <3>1, <3>3, <3>4, <3>5, Zenon
    <3>7. QED
      BY <1>1, <3>6
  <2>6. QED
    BY <2>4, <2>5
<1>13. 0 .. N \subseteq A
  <2> HIDE DEF A, N
  <2>1. QED
    BY <1>1, <1>11, <1>12, NatUpTo, Zenon
<1>14. Q(N)
  <2>1. N \in A
    <3> HIDE DEF A, N
    <3>1. QED
      BY <1>1, <1>13
  <2>2. QED
    BY <2>1
<1>15. ToSet(s) = {s[i] : i \in 1 .. N}
  BY DEF ToSet
<1>16. QED
  BY <1>9, <1>14, <1>15

-----------------------------------------------------------------------------
(* The k best of a set, under insertion.                                   *)

\* A set of numbers that begins at one and has no gap.
LEMMA PrefixIs ==
    ASSUME NEW m \in Nat, NEW D \in SUBSET (1 .. m),
           \A i \in D, j \in 1 .. m : j < i => j \in D
    PROVE  D = 1 .. Cardinality(D) /\ Cardinality(D) \in 0 .. m
<1> DEFINE B == {n \in Nat : n + 1 \notin D}
<1>1. m \in B
  <2>1. m + 1 \notin 1 .. m
    OBVIOUS
  <2>2. QED
    BY <2>1
<1>2. PICK c \in B : \A n \in B : c <= n
  <2>1. B \in SUBSET Nat /\ B # {}
    BY <1>1
  <2> HIDE DEF B
  <2>2. QED
    BY <2>1, LeastOf
<1>3. c \in Nat /\ c <= m /\ c + 1 \notin D
  BY <1>1, <1>2
<1>4. ASSUME NEW i \in 1 .. c PROVE i \in D
  <2>1. i - 1 \in Nat /\ ~(c <= i - 1) /\ i - 1 + 1 = i
    BY <1>3
  <2>2. i - 1 \notin B
    BY <1>2, <2>1
  <2>3. QED
    BY <2>1, <2>2
<1>5. ASSUME NEW i \in D PROVE i \in 1 .. c
  <2>1. SUFFICES ASSUME ~(i <= c) PROVE FALSE
    BY <1>3
  <2>2. c + 1 <= i /\ c + 1 \in 1 .. m
    BY <1>3, <2>1
  <2>3. c + 1 = i \/ c + 1 < i
    BY <1>3, <2>2
  <2>4. QED
    BY <1>3, <2>2, <2>3
<1>6. D = 1 .. c
  BY <1>4, <1>5, Zenon
<1>7. Cardinality(1 .. c) = c
  BY <1>3, FS_Interval
<1>8. QED
  BY <1>3, <1>6, <1>7

\* t is s with u after the first c elements.
Inserted(t, s, c, u) ==
    /\ Len(t) = Len(s) + 1
    /\ \A i \in 1 .. c : t[i] = s[i]
    /\ t[c + 1] = u
    /\ \A i \in c + 1 .. Len(s) : t[i + 1] = s[i]

LEMMA InsertedIs ==
    ASSUME NEW X, NEW s \in Seq(X), NEW u \in X, NEW c \in 0 .. Len(s)
    PROVE  InsertAt(s, c + 1, u) \in Seq(X) /\ Inserted(InsertAt(s, c + 1, u), s, c, u)
<1> DEFINE a == SubSeq(s, 1, c)
           b == SubSeq(s, c + 1, Len(s))
           d == a \o <<u>>
           t == d \o b
           n == Len(s)
<1>1. n \in Nat /\ c \in Nat /\ c <= n
  OBVIOUS
<1>2. a \in Seq(X) /\ Len(a) = c /\ \A i \in 1 .. c : a[i] = s[i]
  BY <1>1
<1>3. b \in Seq(X) /\ Len(b) = n - c /\ \A i \in 1 .. n - c : b[i] = s[c + i]
  BY <1>1
<1>4. InsertAt(s, c + 1, u) = t
  <2>1. (c + 1) - 1 = c
    BY <1>1
  <2>2. InsertAt(s, c + 1, u) = SubSeq(s, 1, (c + 1) - 1) \o <<u>> \o SubSeq(s, c + 1, Len(s))
    BY DEF InsertAt
  <2>3. InsertAt(s, c + 1, u) = SubSeq(s, 1, c) \o <<u>> \o SubSeq(s, c + 1, Len(s))
    BY <2>1, <2>2, Zenon
  <2>4. QED
    BY <2>3, Zenon
<1> HIDE DEF a, b, n
<1>5. d \in Seq(X) /\ Len(d) = c + 1 /\ d[c + 1] = u /\ \A i \in 1 .. c : d[i] = a[i]
  BY <1>1, <1>2
<1> HIDE DEF d
<1>6. t \in Seq(X) /\ Len(t) = n + 1
  <2>1. t \in Seq(X) /\ Len(t) = Len(d) + Len(b)
    BY <1>3, <1>5, ConcatProperties, Zenon
  <2>2. c + 1 + (n - c) = n + 1
    BY <1>1
  <2>3. QED
    BY <1>3, <1>5, <2>1, <2>2
<1>7. \A i \in 1 .. c + 1 : t[i] = d[i]
  BY <1>1, <1>3, <1>5
<1>8. \A i \in 1 .. n - c : t[c + 1 + i] = b[i]
  BY <1>1, <1>3, <1>5
<1> HIDE DEF t
<1>9. \A i \in 1 .. c : t[i] = s[i]
  BY <1>1, <1>2, <1>5, <1>7
<1>10. t[c + 1] = u
  BY <1>1, <1>5, <1>7
<1>11. ASSUME NEW i \in c + 1 .. n PROVE t[i + 1] = s[i]
  <2>1. i - c \in 1 .. n - c /\ c + 1 + (i - c) = i + 1 /\ c + (i - c) = i
    BY <1>1
  <2>2. t[c + 1 + (i - c)] = b[i - c] /\ b[i - c] = s[c + (i - c)]
    BY <1>3, <1>8, <2>1
  <2>3. QED
    BY <2>1, <2>2
<1>12. Inserted(t, s, c, u)
  BY <1>6, <1>9, <1>10, <1>11, Zenon DEF Inserted, n
<1>13. QED
  BY <1>4, <1>6, <1>12

\* s names the k first elements of P by R.
IsBest(s, P, k, R) ==
    /\ s \in Seq(P) /\ Len(s) <= k
    /\ Ascends(s, R)
    /\ \A v \in P \ ToSet(s) : Len(s) = k /\ \A i \in 1 .. Len(s) : <<s[i], v>> \in R

LEMMA AscendsInjective ==
    ASSUME NEW P, NEW R, StrictOn(R, P), NEW s \in Seq(P), Ascends(s, R)
    PROVE  IsInjective(s)
<1>1. DOMAIN s = 1 .. Len(s) /\ Len(s) \in Nat /\ \A i \in 1 .. Len(s) : s[i] \in P
  OBVIOUS
<1>2. \A i, j \in 1 .. Len(s) : i < j => s[i] # s[j]
  BY <1>1, Zenon DEF Ascends, StrictOn
<1>3. \A i, j \in 1 .. Len(s) : i < j \/ j < i \/ i = j
  BY <1>1
<1>4. QED
  BY <1>1, <1>2, <1>3 DEF IsInjective

\* Two such lists agree as far as both go.
LEMMA BestAgree ==
    ASSUME NEW P, NEW R, StrictOn(R, P), NEW k \in Nat,
           NEW s, IsBest(s, P, k, R), NEW t, IsBest(t, P, k, R)
    PROVE  \A i \in 1 .. Len(s) : i <= Len(t) => s[i] = t[i]
<1>1. /\ DOMAIN s = 1 .. Len(s) /\ Len(s) \in Nat /\ \A i \in 1 .. Len(s) : s[i] \in P
      /\ DOMAIN t = 1 .. Len(t) /\ Len(t) \in Nat /\ \A i \in 1 .. Len(t) : t[i] \in P
  BY DEF IsBest
<1>2. \A x, y \in P : <<x, y>> \in R => <<y, x>> \notin R
  BY Zenon DEF StrictOn
<1> DEFINE D == {n \in Nat : n \in 1 .. Len(s) /\ n <= Len(t) /\ s[n] # t[n]}
<1>3. SUFFICES ASSUME D # {} PROVE FALSE
  <2>1. \A i \in 1 .. Len(s) : i \in Nat
    BY <1>1
  <2>2. QED
    BY <2>1
<1>4. PICK n \in D : \A m \in D : n <= m
  <2>1. D \in SUBSET Nat
    OBVIOUS
  <2> HIDE DEF D
  <2>2. QED
    BY <1>3, <2>1, LeastOf
<1>5. n \in 1 .. Len(s) /\ n \in 1 .. Len(t) /\ s[n] # t[n]
  BY <1>1, <1>4
<1>6. ASSUME NEW i \in 1 .. Len(s), i < n PROVE s[i] = t[i]
  <2>1. i \in Nat /\ i <= Len(t) /\ ~(n <= i)
    BY <1>1, <1>5, <1>6
  <2>2. i \notin D
    BY <1>4, <2>1
  <2>3. QED
    BY <2>1, <2>2
<1>7. CASE <<s[n], t[n]>> \in R
  <2>1. ASSUME NEW j \in 1 .. Len(t), t[j] = s[n] PROVE FALSE
    <3>1. n < j => <<t[n], s[n]>> \in R
      BY <1>1, <1>5, <2>1, Zenon DEF IsBest, Ascends
    <3>2. j < n => s[j] = s[n] /\ j \in 1 .. Len(s)
      BY <1>1, <1>5, <1>6, <2>1
    <3>3. j < n => <<s[j], s[n]>> \in R
      BY <1>1, <1>5, <3>2, Zenon DEF IsBest, Ascends
    <3>4. \A x \in P : <<x, x>> \notin R
      BY Zenon DEF StrictOn
    <3>5. j = n => FALSE
      BY <1>5, <2>1
    <3>6. j < n \/ n < j \/ j = n
      BY <1>1, <1>5
    <3>7. s[n] \in P /\ t[n] \in P
      BY <1>1, <1>5
    <3>8. QED
      BY <1>2, <1>7, <3>1, <3>2, <3>3, <3>4, <3>5, <3>6, <3>7
  <2>2. s[n] \in P \ ToSet(t)
    BY <1>1, <1>5, <2>1 DEF ToSet
  <2>3. <<t[n], s[n]>> \in R
    BY <1>5, <2>2 DEF IsBest
  <2>4. QED
    BY <1>1, <1>2, <1>5, <1>7, <2>3
<1>8. CASE <<t[n], s[n]>> \in R
  <2>1. ASSUME NEW j \in 1 .. Len(s), s[j] = t[n] PROVE FALSE
    <3>1. n < j => <<s[n], t[n]>> \in R
      BY <1>1, <1>5, <2>1, Zenon DEF IsBest, Ascends
    <3>2. j < n => t[j] = t[n] /\ j \in 1 .. Len(t)
      BY <1>1, <1>5, <1>6, <2>1
    <3>3. j < n => <<t[j], t[n]>> \in R
      BY <1>1, <1>5, <3>2, Zenon DEF IsBest, Ascends
    <3>4. \A x \in P : <<x, x>> \notin R
      BY Zenon DEF StrictOn
    <3>5. j = n => FALSE
      BY <1>5, <2>1
    <3>6. j < n \/ n < j \/ j = n
      BY <1>1, <1>5
    <3>7. s[n] \in P /\ t[n] \in P
      BY <1>1, <1>5
    <3>8. QED
      BY <1>2, <1>8, <3>1, <3>2, <3>3, <3>4, <3>5, <3>6, <3>7
  <2>2. t[n] \in P \ ToSet(s)
    BY <1>1, <1>5, <2>1 DEF ToSet
  <2>3. <<s[n], t[n]>> \in R
    BY <1>5, <2>2 DEF IsBest
  <2>4. QED
    BY <1>1, <1>2, <1>5, <1>8, <2>3
<1>9. <<s[n], t[n]>> \in R \/ <<t[n], s[n]>> \in R
  BY <1>1, <1>5 DEF StrictOn
<1>10. QED
  BY <1>7, <1>8, <1>9

LEMMA BestNoShorter ==
    ASSUME NEW P, NEW R, StrictOn(R, P), NEW k \in Nat,
           NEW s, IsBest(s, P, k, R), NEW t, IsBest(t, P, k, R)
    PROVE  Len(t) <= Len(s)
<1>1. /\ DOMAIN s = 1 .. Len(s) /\ Len(s) \in Nat
      /\ DOMAIN t = 1 .. Len(t) /\ Len(t) \in Nat /\ \A i \in 1 .. Len(t) : t[i] \in P
      /\ Len(t) <= k
  BY DEF IsBest
<1>2. SUFFICES ASSUME Len(s) < Len(t) PROVE FALSE
  BY <1>1
<1> DEFINE m == Len(s) + 1
<1>3. m \in 1 .. Len(t) /\ Len(s) < m
  BY <1>1, <1>2
<1>4. \A i \in 1 .. Len(s) : s[i] = t[i]
  <2>1. \A i \in 1 .. Len(s) : i <= Len(t) => s[i] = t[i]
    BY BestAgree
  <2>2. QED
    BY <1>1, <1>2, <2>1
<1> HIDE DEF m
<1>5. t[m] \notin ToSet(s)
  <2>1. ASSUME NEW i \in 1 .. Len(s) PROVE s[i] # t[m]
    <3>1. i \in 1 .. Len(t) /\ i < m
      BY <1>1, <1>2, <1>3
    <3>2. <<t[i], t[m]>> \in R
      BY <1>1, <1>3, <3>1, Zenon DEF IsBest, Ascends
    <3>3. t[i] \in P
      BY <1>1, <3>1
    <3>4. QED
      BY <1>4, <3>2, <3>3 DEF StrictOn
  <2>2. QED
    BY <1>1, <2>1 DEF ToSet
<1>6. Len(s) = k
  BY <1>1, <1>3, <1>5, Zenon DEF IsBest
<1>7. QED
  BY <1>1, <1>2, <1>6

\* There is one such list.
LEMMA BestUnique ==
    ASSUME NEW P, NEW R, StrictOn(R, P), NEW k \in Nat,
           NEW s, IsBest(s, P, k, R), NEW t, IsBest(t, P, k, R)
    PROVE  s = t
<1>1. s \in Seq(P) /\ t \in Seq(P) /\ Len(s) \in Nat /\ Len(t) \in Nat
  BY DEF IsBest
<1>2. Len(s) <= Len(t) /\ Len(t) <= Len(s)
  BY BestNoShorter
<1>3. Len(s) = Len(t)
  BY <1>1, <1>2
<1>4. \A i \in 1 .. Len(s) : i <= Len(t) => s[i] = t[i]
  BY BestAgree
<1>5. \A i \in 1 .. Len(s) : s[i] = t[i]
  BY <1>1, <1>3, <1>4
<1>6. QED
  BY <1>1, <1>3, <1>5, SeqEqual
\* Sort and truncate.
LEMMA TakeIsBest ==
    ASSUME NEW P, IsFiniteSet(P), NEW R, NEW s \in SetToSeqs(P), Ascends(s, R), NEW k \in Nat
    PROVE  IsBest(Take(s, k), P, k, R)
<1>1. s \in Seq(P) /\ ToSet(s) = P /\ DOMAIN s = 1 .. Len(s) /\ Len(s) \in Nat
  BY SeqsAre
<1> DEFINE t == Take(s, k)
<1>2. /\ t \in Seq(P) /\ Len(t) <= k /\ Len(t) <= Len(s)
      /\ k <= Len(s) => Len(t) = k
      /\ Len(s) <= k => Len(t) = Len(s)
      /\ \A i \in 1 .. Len(t) : t[i] = s[i]
  BY <1>1, TakeIs
<1> HIDE DEF t
<1>3. DOMAIN t = 1 .. Len(t) /\ Len(t) \in Nat
  BY <1>2
<1>4. \A i \in 1 .. Len(t) : i \in 1 .. Len(s)
  <2>1. Len(t) \in Nat /\ Len(s) \in Nat /\ Len(t) <= Len(s)
    BY <1>1, <1>2, <1>3, Zenon
  <2>2. QED
    BY <2>1
<1>5. Ascends(t, R)
  <2>1. ASSUME NEW i \in 1 .. Len(t), NEW j \in 1 .. Len(t), i < j PROVE <<t[i], t[j]>> \in R
    <3>1. i \in 1 .. Len(s) /\ j \in 1 .. Len(s)
      BY <1>4
    <3>2. <<s[i], s[j]>> \in R
      BY <1>1, <2>1, <3>1 DEF Ascends
    <3>3. QED
      BY <1>2, <3>2, Zenon
  <2>2. QED
    BY <1>3, <2>1 DEF Ascends
<1>6. ASSUME NEW v \in P \ ToSet(t)
      PROVE  Len(t) = k /\ \A i \in 1 .. Len(t) : <<t[i], v>> \in R
  <2>1. PICK j \in 1 .. Len(s) : s[j] = v
    BY <1>1 DEF ToSet
  <2>2. ~(j <= Len(t))
    <3>1. SUFFICES ASSUME j <= Len(t) PROVE FALSE
      OBVIOUS
    <3>2. j \in 1 .. Len(t)
      BY <1>1, <1>3, <3>1
    <3>3. QED
      BY <1>2, <1>3, <2>1, <3>2, Zenon DEF ToSet
  <2>3. Len(t) = k
    <3>1. Len(t) \in Nat /\ Len(s) \in Nat /\ j \in Nat /\ j <= Len(s)
      BY <1>1, <1>3, <2>1
    <3>2. (Len(s) <= k => Len(t) = Len(s)) /\ (k <= Len(s) => Len(t) = k)
      BY <1>2
    <3>3. QED
      BY <2>2, <3>1, <3>2
  <2>4. \A i \in 1 .. Len(t) : i < j /\ i \in 1 .. Len(s)
    BY <1>1, <1>3, <1>4, <2>1, <2>2
  <2>5. QED
    BY <1>1, <1>2, <2>1, <2>3, <2>4, Zenon DEF Ascends
<1>7. IsBest(t, P, k, R)
  BY <1>2, <1>5, <1>6 DEF IsBest
<1>8. QED
  BY <1>7 DEF t

\* An element behind a full list changes nothing.
LEMMA BestUnmoved ==
    ASSUME NEW P, NEW u, u \notin P, NEW R, StrictOn(R, P \cup {u}), NEW k \in Nat \ {0},
           NEW s, IsBest(s, P, k, R), Len(s) = k, <<u, s[k]>> \notin R
    PROVE  IsBest(s, P \cup {u}, k, R)
<1>1. s \in Seq(P) /\ Len(s) \in Nat /\ DOMAIN s = 1 .. Len(s) /\ \A i \in 1 .. Len(s) : s[i] \in P
  BY DEF IsBest
<1>2. s \in Seq(P \cup {u})
  BY <1>1, SeqMonotonic
<1>3. \A i \in 1 .. Len(s) : <<s[i], u>> \in R
  <2>1. k \in 1 .. Len(s) /\ s[k] \in P /\ s[k] # u
    BY <1>1
  <2>2. <<s[k], u>> \in R
    BY <2>1 DEF StrictOn
  <2>3. ASSUME NEW i \in 1 .. Len(s), i # k PROVE <<s[i], u>> \in R
    <3>1. i < k
      BY <1>1, <2>3
    <3>2. <<s[i], s[k]>> \in R
      BY <1>1, <2>1, <3>1, Zenon DEF IsBest, Ascends
    <3>3. s[i] \in P
      BY <1>1
    <3>4. QED
      BY <2>1, <2>2, <3>2, <3>3 DEF StrictOn
  <2>4. QED
    BY <2>2, <2>3, Zenon
<1>4. QED
  BY <1>2, <1>3 DEF IsBest

\* An element goes behind those that are before it, and the list is cut.
LEMMA BestInserted ==
    ASSUME NEW P, NEW u, u \notin P, NEW R, StrictOn(R, P \cup {u}), NEW k \in Nat \ {0},
           NEW s, IsBest(s, P, k, R), Len(s) = k => <<u, s[k]>> \in R,
           NEW c, c = Cardinality({i \in DOMAIN s : <<s[i], u>> \in R})
    PROVE  IsBest(Take(InsertAt(s, c + 1, u), k), P \cup {u}, k, R)
<1> DEFINE m == Len(s)
           U == P \cup {u}
<1>1. s \in Seq(P) /\ m \in Nat /\ m <= k /\ DOMAIN s = 1 .. m /\ \A i \in 1 .. m : s[i] \in P
  BY DEF IsBest
<1>2. s \in Seq(U)
  BY <1>1, SeqMonotonic
<1>3. /\ \A x, y, z \in U : <<x, y>> \in R /\ <<y, z>> \in R => <<x, z>> \in R
      /\ \A x \in P : <<x, u>> \in R \/ <<u, x>> \in R
      /\ \A x, y \in U : <<x, y>> \in R => <<y, x>> \notin R
  BY Zenon DEF StrictOn
<1>4. \A i, j \in 1 .. m : i < j => <<s[i], s[j]>> \in R
  BY <1>1, Zenon DEF IsBest, Ascends
<1> HIDE DEF m
<1>5. c \in 0 .. m /\ \A i \in 1 .. m : i <= c <=> <<s[i], u>> \in R
  <2> DEFINE D == {i \in 1 .. m : <<s[i], u>> \in R}
  <2>1. \A i \in D, j \in 1 .. m : j < i => j \in D
    BY <1>1, <1>3, <1>4, Zenon
  <2>2. c = Cardinality(D) /\ D \in SUBSET (1 .. m)
    BY <1>1
  <2>3. \A i \in 1 .. m : i \in D <=> <<s[i], u>> \in R
    OBVIOUS
  <2> HIDE DEF D
  <2>4. D = 1 .. c /\ c \in 0 .. m
    BY <1>1, <2>1, <2>2, PrefixIs
  <2>5. QED
    BY <1>1, <2>3, <2>4
<1>6. c \in Nat /\ c <= m
  BY <1>1, <1>5
<1>7. c + 1 <= k
  <2>1. SUFFICES ASSUME m = k, c = k PROVE FALSE
    BY <1>1, <1>6
  <2>2. k \in 1 .. m /\ k <= c
    BY <2>1
  <2>3. <<s[k], u>> \in R
    BY <1>5, <2>2
  <2>4. <<u, s[k]>> \in R
    BY <2>1 DEF m
  <2>5. s[k] \in U /\ u \in U
    BY <1>1, <2>2
  <2> HIDE DEF U
  <2>6. QED
    BY <1>3, <2>3, <2>4, <2>5
<1>8. PICK e : e = InsertAt(s, c + 1, u)
  BY Zenon
<1>9. /\ e \in Seq(U) /\ Len(e) = m + 1
      /\ \A i \in 1 .. c : e[i] = s[i]
      /\ e[c + 1] = u
      /\ \A i \in c + 1 .. m : e[i + 1] = s[i]
  <2>1. u \in U /\ c \in 0 .. Len(s) /\ s \in Seq(U)
    BY <1>2, <1>5 DEF m
  <2> HIDE DEF U
  <2>2. e \in Seq(U) /\ Inserted(e, s, c, u)
    BY <1>8, <2>1, InsertedIs
  <2>3. QED
    BY <2>2, Zenon DEF m, Inserted
<1> HIDE DEF U
<1>10. PICK t : t = Take(e, k)
  OBVIOUS
<1>11. /\ t \in Seq(U) /\ Len(t) <= k /\ Len(t) <= Len(e)
       /\ k <= Len(e) => Len(t) = k
       /\ Len(e) <= k => Len(t) = Len(e)
       /\ \A i \in 1 .. Len(t) : t[i] = e[i]
  BY <1>9, <1>10, TakeIs
<1>12. PICK n \in Nat : n = Len(t)
  BY <1>11
<1>13. /\ DOMAIN t = 1 .. n
       /\ n <= k /\ n <= m + 1
       /\ m < k => n = m + 1
       /\ m = k => n = k
       /\ c + 1 <= n
  BY <1>1, <1>6, <1>7, <1>9, <1>11, <1>12
\* Every place is before, at, or behind that of u.
<1>14. /\ \A i \in 1 .. n : i <= c => t[i] = s[i] /\ i \in 1 .. m
       /\ t[c + 1] = u
       /\ \A i \in 1 .. n : i > c + 1 => t[i] = s[i - 1] /\ i - 1 \in 1 .. m /\ ~(i - 1 <= c)
  <2>1. ASSUME NEW i \in 1 .. n, i <= c PROVE t[i] = s[i] /\ i \in 1 .. m
    <3>1. i \in 1 .. c /\ i \in 1 .. m
      BY <1>1, <1>6, <2>1
    <3>2. t[i] = e[i] /\ e[i] = s[i]
      BY <1>9, <1>11, <1>12, <3>1, Zenon
    <3>3. QED
      BY <3>1, <3>2
  <2>2. t[c + 1] = u
    BY <1>6, <1>9, <1>11, <1>12, <1>13
  <2>3. ASSUME NEW i \in 1 .. n, i > c + 1
        PROVE  t[i] = s[i - 1] /\ i - 1 \in 1 .. m /\ ~(i - 1 <= c)
    <3>1. i - 1 \in c + 1 .. m /\ i - 1 + 1 = i
      BY <1>1, <1>6, <1>13, <2>3
    <3>2. e[i - 1 + 1] = s[i - 1]
      BY <1>9, <3>1
    <3>3. t[i] = e[i]
      BY <1>11, <1>12
    <3>4. QED
      BY <1>1, <1>6, <3>1, <3>2, <3>3
  <2>4. QED
    BY <2>1, <2>2, <2>3, Zenon
<1>15. ASSUME NEW i \in 1 .. n, NEW j \in 1 .. n, i < j PROVE <<t[i], t[j]>> \in R
  <2>1. i \in Nat /\ j \in Nat /\ c \in Nat
    BY <1>6
  <2>2. CASE j <= c
    <3>1. i <= c
      BY <1>15, <2>1, <2>2
    <3>2. t[i] = s[i] /\ i \in 1 .. m /\ t[j] = s[j] /\ j \in 1 .. m
      BY <1>14, <2>2, <3>1
    <3>3. QED
      BY <1>4, <1>15, <3>2, Zenon
  <2>3. CASE j = c + 1
    <3>1. i <= c
      BY <1>15, <2>1, <2>3
    <3>2. t[i] = s[i] /\ i \in 1 .. m /\ t[j] = u
      BY <1>14, <2>3, <3>1
    <3>3. QED
      BY <1>5, <3>1, <3>2
  <2>4. CASE j > c + 1
    <3>1. t[j] = s[j - 1] /\ j - 1 \in 1 .. m /\ ~(j - 1 <= c)
      BY <1>14, <2>4, Zenon
    <3>2. CASE i <= c
      <4>1. i < j - 1
        BY <2>1, <2>4, <3>2
      <4>2. QED
        BY <1>4, <1>14, <3>1, <3>2, <4>1
    <3>3. CASE i = c + 1
      <4>1. <<s[j - 1], u>> \notin R
        BY <1>5, <3>1, Zenon
      <4>2. QED
        BY <1>1, <1>3, <1>14, <3>1, <3>3, <4>1
    <3>4. CASE i > c + 1
      <4>1. i - 1 < j - 1 /\ t[i] = s[i - 1] /\ i - 1 \in 1 .. m
        BY <1>14, <1>15, <2>1, <3>4
      <4>2. QED
        BY <1>4, <3>1, <4>1
    <3>5. QED
      BY <2>1, <3>2, <3>3, <3>4
  <2>5. QED
    BY <2>1, <2>2, <2>3, <2>4
<1>16. Ascends(t, R)
  BY <1>13, <1>15 DEF Ascends
\* What the list leaves out.
<1>17. ASSUME NEW v \in U \ ToSet(t) PROVE n = k /\ \A i \in 1 .. n : <<t[i], v>> \in R
  <2>1. v # u /\ v \in P
    <3>1. c + 1 \in 1 .. n
      BY <1>6, <1>13
    <3>2. u \in ToSet(t)
      BY <1>13, <1>14, <3>1 DEF ToSet
    <3>3. QED
      BY <3>2 DEF U
  <2>2. CASE v \in ToSet(s)
    <3>1. PICK j \in 1 .. m : s[j] = v
      BY <1>1, <2>2 DEF ToSet
    <3>2. ~(j <= c)
      <4>1. SUFFICES ASSUME j <= c PROVE FALSE
        OBVIOUS
      <4>2. j \in 1 .. n
        BY <1>6, <1>13, <4>1
      <4>3. t[j] = v
        BY <1>14, <3>1, <4>1, <4>2
      <4>4. QED
        BY <1>13, <4>2, <4>3 DEF ToSet
    <3>3. ~(j + 1 <= n)
      <4>1. SUFFICES ASSUME j + 1 <= n PROVE FALSE
        OBVIOUS
      <4>2. j + 1 \in 1 .. n /\ j + 1 > c + 1 /\ j + 1 - 1 = j
        BY <1>1, <1>6, <3>2, <4>1
      <4>3. t[j + 1] = v
        BY <1>14, <3>1, <4>2
      <4>4. QED
        BY <1>13, <4>2, <4>3 DEF ToSet
    <3>4. n = k /\ m = k /\ j = k
      BY <1>1, <1>13, <3>3
    <3>5. k \in 1 .. n /\ t[k] \in U /\ <<t[k], v>> \in R
      <4>1. CASE k = c + 1
        <5>1. <<s[j], u>> \notin R
          BY <1>5, <3>2
        <5>2. QED
          BY <1>1, <1>3, <1>14, <3>1, <3>4, <4>1, <5>1, Zenon DEF U
      <4>2. CASE k > c + 1
        <5>1. k \in 1 .. n /\ t[k] = s[k - 1] /\ k - 1 \in 1 .. m /\ k - 1 < j
          BY <1>14, <3>4, <4>2
        <5>2. QED
          BY <1>1, <1>4, <3>1, <5>1 DEF U
      <4>3. QED
        BY <1>6, <1>7, <4>1, <4>2
    <3>6. ASSUME NEW i \in 1 .. n, i # k PROVE <<t[i], v>> \in R
      <4>1. i < k /\ <<t[i], t[k]>> \in R
        BY <1>15, <3>4, <3>5, <3>6
      <4>2. t[i] \in U /\ v \in U
        BY <1>11, <1>12
      <4>3. QED
        BY <1>3, <3>5, <4>1, <4>2 DEF U
    <3>7. QED
      BY <3>4, <3>5, <3>6
  <2>3. CASE v \notin ToSet(s)
    <3>1. m = k /\ \A i \in 1 .. m : <<s[i], v>> \in R
      BY <2>1, <2>3 DEF IsBest, m
    <3>2. k \in 1 .. m /\ <<u, s[k]>> \in R /\ s[k] \in P
      BY <1>1, <3>1 DEF m
    <3>3. <<u, v>> \in R
      <4>1. <<s[k], v>> \in R /\ s[k] \in U /\ u \in U /\ v \in U
        BY <2>1, <3>1, <3>2 DEF U
      <4>2. QED
        BY <1>3, <3>2, <4>1
    <3>4. ASSUME NEW i \in 1 .. n PROVE <<t[i], v>> \in R
      <4>1. CASE i <= c
        BY <1>14, <3>1, <4>1
      <4>2. CASE i = c + 1
        BY <1>14, <3>3, <4>2
      <4>3. CASE i > c + 1
        BY <1>14, <3>1, <4>3
      <4>4. QED
        BY <1>6, <4>1, <4>2, <4>3
    <3>5. QED
      BY <1>13, <3>1, <3>4
  <2>4. QED
    BY <2>2, <2>3
<1>18. IsBest(t, U, k, R)
  BY <1>11, <1>12, <1>16, <1>17 DEF IsBest
<1>19. QED
  BY <1>8, <1>10, <1>18 DEF U

-----------------------------------------------------------------------------
(* The dense lists.                                                        *)

LEMMA UnitsAre ==
    /\ Unit = 1 .. Len(Corpus) /\ Len(Corpus) \in Nat /\ IsFiniteSet(Unit) /\ Unit \subseteq Nat
    /\ Missing \notin Unit
<1>1. Unit = 1 .. Len(Corpus) /\ Len(Corpus) \in Nat
  BY SearchAssumption DEF Unit
<1>2. Missing \notin Nat
  BY SearchAssumption
<1>3. IsFiniteSet(Unit)
  BY <1>1, FS_Interval
<1>4. QED
  BY <1>1, <1>2, <1>3

VectorsKnown == \A u \in Unit : Embedded(u) => VectorOf(u) = Corpus[u].hash

\* The units among the first n that a search ranks.
Wanted(a, n) == {u \in 1 .. n : Matches(a, u) /\ Embedded(u)}

ByNearness(near) == {p \in Unit \X Unit : RanksBefore(near, p[1], p[2])}

LEMMA NearnessStrict ==
    ASSUME VectorsKnown, NEW near \in [Hash -> Nat], NEW a
    PROVE  StrictOn(ByNearness(near), Wanted(a, Len(Corpus)))
<1> DEFINE W == Wanted(a, Len(Corpus))
           R == ByNearness(near)
           V(u) == near[VectorOf(u)]
<1>1. \A u \in W : u \in Unit /\ u \in Nat /\ V(u) \in Nat
  <2>1. ASSUME NEW u \in W PROVE u \in Unit /\ u \in Nat /\ V(u) \in Nat
    <3>1. u \in Unit /\ u \in Nat /\ Embedded(u)
      BY UnitsAre DEF Wanted
    <3>2. VectorOf(u) \in Hash
      BY <3>1 DEF VectorsKnown, Hash
    <3>3. QED
      BY <3>1, <3>2
  <2>2. QED
    BY <2>1
<1>2. \A u, v \in W : <<u, v>> \in R <=> V(u) > V(v) \/ (V(u) = V(v) /\ u < v)
  BY <1>1 DEF ByNearness, RanksBefore
<1> HIDE DEF W, R, V
<1>3. \A u \in W : <<u, u>> \notin R
  BY <1>1, <1>2
<1>4. \A u, v, w \in W : <<u, v>> \in R /\ <<v, w>> \in R => <<u, w>> \in R
  BY <1>1, <1>2
<1>5. \A u, v \in W : u # v => <<u, v>> \in R \/ <<v, u>> \in R
  BY <1>1, <1>2
<1>6. QED
  BY <1>3, <1>4, <1>5 DEF StrictOn, W, R

LEMMA WantedFinite ==
    ASSUME NEW a
    PROVE  IsFiniteSet(Wanted(a, Len(Corpus))) /\ Wanted(a, Len(Corpus)) \subseteq Unit
<1>1. Wanted(a, Len(Corpus)) \subseteq Unit
  BY UnitsAre DEF Wanted
<1>2. QED
  BY <1>1, UnitsAre, FS_Subset

\* The candidates in order, each once.
LEMMA CandidatesAre ==
    ASSUME VectorsKnown, NEW near \in [Hash -> Nat], NEW a
    PROVE  /\ RankCandidates(near, a) \in SetToSeqs(Wanted(a, Len(Corpus)))
           /\ Ascends(RankCandidates(near, a), ByNearness(near))
<1> DEFINE W == Wanted(a, Len(Corpus))
           R == ByNearness(near)
           Sorted(s) == \A i, j \in DOMAIN s : i < j =>
                            \/ near[VectorOf(s[i])] > near[VectorOf(s[j])]
                            \/ near[VectorOf(s[i])] = near[VectorOf(s[j])] /\ s[i] < s[j]
<1>1. {u \in Unit : Matches(a, u) /\ Embedded(u)} = W
  BY UnitsAre DEF Wanted
<1>2. RankCandidates(near, a) = CHOOSE s \in SetToSeqs(W) : Sorted(s)
  BY <1>1, Zenon DEF RankCandidates, InOrder
<1>3. ASSUME NEW s \in SetToSeqs(W) PROVE Ascends(s, R) <=> Sorted(s)
  <2>1. \A i \in DOMAIN s : s[i] \in Unit
    BY WantedFinite, SeqsAre
  <2>2. \A i, j \in DOMAIN s : <<s[i], s[j]>> \in R <=>
            \/ near[VectorOf(s[i])] > near[VectorOf(s[j])]
            \/ near[VectorOf(s[i])] = near[VectorOf(s[j])] /\ s[i] < s[j]
    BY <2>1 DEF ByNearness, RanksBefore
  <2>3. QED
    BY <2>2, Zenon DEF Ascends
<1>4. \E s \in SetToSeqs(W) : Ascends(s, R)
  BY WantedFinite, NearnessStrict, OrderExists
<1> HIDE DEF W, R, Sorted
<1>5. \E s \in SetToSeqs(W) : Sorted(s)
  BY <1>3, <1>4
<1>6. RankCandidates(near, a) \in SetToSeqs(W) /\ Sorted(RankCandidates(near, a))
  BY <1>2, <1>5
<1>7. QED
  BY <1>3, <1>6 DEF W, R

\* One turn keeps the best of one more unit.
LEMMA KeepsBestIs ==
    ASSUME VectorsKnown, NEW near \in [Hash -> Nat], NEW a, NEW k \in Nat \ {0},
           NEW n \in 1 .. Len(Corpus), NEW s, IsBest(s, Wanted(a, n - 1), k, ByNearness(near))
    PROVE  IsBest(KeepsBest(near, a, k, s, n), Wanted(a, n), k, ByNearness(near))
<1> DEFINE P == Wanted(a, n - 1)
           R == ByNearness(near)
           o == KeepsBest(near, a, k, s, n)
<1>1. n \in Unit /\ n \in Nat /\ \A i : i \in 1 .. n <=> i \in 1 .. n - 1 \/ i = n
  BY UnitsAre
<1>2. n \notin P /\ P \subseteq Unit
  BY UnitsAre DEF Wanted
<1>3. CASE ~Matches(a, n) \/ ~Embedded(n)
  <2>1. Wanted(a, n) = P
    BY <1>1, <1>3 DEF Wanted
  <2>2. o = s
    BY <1>3 DEF KeepsBest
  <2>3. QED
    BY <2>1, <2>2
<1>4. CASE Matches(a, n) /\ Embedded(n)
  <2>1. Wanted(a, n) = P \cup {n}
    BY <1>1, <1>4 DEF Wanted
  <2>2. P \cup {n} \subseteq Wanted(a, Len(Corpus))
    BY <1>1, <1>4, UnitsAre DEF Wanted
  <2>3. StrictOn(R, P \cup {n})
    BY <2>2, NearnessStrict, StrictBelow
  <2>4. s \in Seq(P) /\ DOMAIN s = 1 .. Len(s) /\ Len(s) \in Nat
    BY DEF IsBest
  <2>5. \A i \in DOMAIN s : s[i] \in Unit
    BY <1>2, <2>4
  <2>6. Len(s) = k => (<<n, s[k]>> \in R <=> RanksBefore(near, n, s[k]))
    <3>1. SUFFICES ASSUME Len(s) = k PROVE <<n, s[k]>> \in R <=> RanksBefore(near, n, s[k])
      OBVIOUS
    <3>2. k \in DOMAIN s
      BY <2>4, <3>1
    <3>3. QED
      BY <1>1, <2>5, <3>2 DEF ByNearness
  <2>7. {i \in DOMAIN s : <<s[i], n>> \in R} = {i \in DOMAIN s : RanksBefore(near, s[i], n)}
    BY <1>1, <2>5 DEF ByNearness
  <2> DEFINE c == Cardinality({i \in DOMAIN s : RanksBefore(near, s[i], n)})
  <2>8. CASE Len(s) = k /\ ~RanksBefore(near, n, s[k])
    <3>1. o = s
      BY <1>4, <2>8 DEF KeepsBest
    <3>2. IsBest(s, P \cup {n}, k, R)
      <4> HIDE DEF P, R, o
      <4>1. IsBest(s, P, k, R)
        BY DEF P, R
      <4>2. QED
        BY <1>2, <2>3, <2>6, <2>8, <4>1, BestUnmoved
    <3>3. QED
      BY <2>1, <3>1, <3>2
  <2>9. CASE ~(Len(s) = k /\ ~RanksBefore(near, n, s[k]))
    <3>1. o = Take(InsertAt(s, c + 1, n), k)
      BY <1>4, <2>9 DEF KeepsBest
    <3>2. c = Cardinality({i \in DOMAIN s : <<s[i], n>> \in R})
      BY <2>7, Zenon
    <3>3. IsBest(Take(InsertAt(s, c + 1, n), k), P \cup {n}, k, R)
      <4>1. IsBest(s, P, k, R)
        OBVIOUS
      <4> HIDE DEF P, R, o, c
      <4>2. QED
        BY <1>2, <2>3, <2>6, <2>9, <3>2, <4>1, BestInserted, Zenon
    <3>4. QED
      BY <2>1, <3>1, <3>3
  <2>10. QED
    BY <2>8, <2>9
<1>5. QED
  BY <1>3, <1>4

LEMMA KeepsBestType ==
    ASSUME NEW near, NEW a, NEW k \in Nat, NEW s \in Seq(Unit), NEW u \in Unit
    PROVE  KeepsBest(near, a, k, s, u) \in Seq(Unit)
<1> DEFINE D == {i \in DOMAIN s : RanksBefore(near, s[i], u)}
           c == Cardinality(D)
<1>1. c \in 0 .. Len(s)
  <2>1. PICK m \in Nat : m = Len(s) /\ D \subseteq 1 .. m
    OBVIOUS
  <2> HIDE DEF D
  <2>2. IsFiniteSet(1 .. m) /\ Cardinality(1 .. m) = m
    BY FS_Interval
  <2>3. IsFiniteSet(D) /\ Cardinality(D) <= m
    BY <2>1, <2>2, FS_Subset, Zenon
  <2>4. Cardinality(D) \in Nat
    BY <2>3, FS_CardinalityType
  <2>5. QED
    BY <2>1, <2>3, <2>4
<1>2. PICK e : e = InsertAt(s, c + 1, u)
  BY Zenon
<1>3. e \in Seq(Unit)
  <2> HIDE DEF c
  <2>1. QED
    BY <1>1, <1>2, InsertedIs
<1>4. Take(e, k) \in Seq(Unit)
  BY <1>3, TakeIs
<1>5. KeepsBest(near, a, k, s, u) \in {s, Take(e, k)}
  BY <1>2 DEF KeepsBest
<1>6. QED
  BY <1>4, <1>5
\* The bounded list is what a sort leaves of all candidates.
LEMMA TopKIs ==
    ASSUME VectorsKnown, NEW near \in [Hash -> Nat], NEW a, NEW k \in Nat \ {0}
    PROVE  TopK(near, a, k) = Take(RankCandidates(near, a), k)
<1> DEFINE N == Len(Corpus)
           T == Seq(Unit)
           c == <<>>
           F == [p \in (1 .. N) \X T |-> KeepsBest(near, a, k, p[2], p[1])]
           P == CHOOSE f : f = [n \in 0 .. N |->
                   IF n = 0 THEN c ELSE KeepsBest(near, a, k, f[n - 1], n)]
           R == ByNearness(near)
<1>1. N \in Nat /\ Unit = 1 .. N
  BY UnitsAre
<1>2. F \in [(1 .. N) \X T -> T]
  <2>1. ASSUME NEW n \in 1 .. N, NEW s \in T PROVE KeepsBest(near, a, k, s, n) \in T
    BY <1>1, KeepsBestType
  <2>2. QED
    BY <2>1
<1>3. c \in T
  OBVIOUS
<1>4. PICK g \in [0 .. N -> T] : RecursiveUpTo(g, N, c, F)
  <2> HIDE DEF F, N, c, T
  <2>1. QED
    BY <1>1, <1>2, <1>3, RecursionUpTo, Zenon
<1>5. g[0] = c
  BY <1>4 DEF RecursiveUpTo
<1>6. ASSUME NEW n \in 1 .. N PROVE g[n] = KeepsBest(near, a, k, g[n - 1], n)
  <2>1. g[n] = F[<<n, g[n - 1]>>]
    BY <1>4, Zenon DEF RecursiveUpTo
  <2>2. g[n - 1] \in T
    <3> HIDE DEF N, T, F, c
    <3>1. n - 1 \in 0 .. N
      BY <1>1
    <3>2. QED
      BY <1>4, <3>1
  <2>3. <<n, g[n - 1]>> \in (1 .. N) \X T
    BY <2>2
  <2>4. QED
    BY <2>1, <2>3
<1>7. g = [n \in 0 .. N |-> IF n = 0 THEN c ELSE KeepsBest(near, a, k, g[n - 1], n)]
  <2>1. ASSUME NEW n \in 0 .. N
        PROVE  g[n] = IF n = 0 THEN c ELSE KeepsBest(near, a, k, g[n - 1], n)
    <3>1. CASE n = 0
      BY <1>5, <3>1
    <3>2. CASE n # 0
      <4>1. n \in 1 .. N
        BY <1>1, <3>2
      <4>2. QED
        BY <1>6, <3>2, <4>1
    <3>3. QED
      BY <3>1, <3>2
  <2> HIDE DEF c
  <2>2. QED
    BY <2>1
<1>8. P = [n \in 0 .. N |-> IF n = 0 THEN c ELSE KeepsBest(near, a, k, P[n - 1], n)]
  BY <1>7, Zenon
<1>9. TopK(near, a, k) = P[N]
  BY DEF TopK
<1> HIDE DEF P
<1>10. P[0] = c /\ \A n \in 1 .. N : P[n] = KeepsBest(near, a, k, P[n - 1], n)
  <2> DEFINE D == [n \in 0 .. N |-> IF n = 0 THEN c ELSE KeepsBest(near, a, k, P[n - 1], n)]
  <2>1. D[0] = c
    BY <1>1
  <2>2. ASSUME NEW n \in 1 .. N PROVE D[n] = KeepsBest(near, a, k, P[n - 1], n)
    BY <1>1
  <2>3. P = D
    BY <1>8, Zenon
  <2> HIDE DEF D
  <2>4. QED
    BY <2>1, <2>2, <2>3
<1> DEFINE A == {n \in 0 .. N : IsBest(P[n], Wanted(a, n), k, R)}
<1>11. 0 \in A
  <2>1. Wanted(a, 0) = {}
    BY DEF Wanted
  <2>2. DOMAIN c = {} /\ c \in Seq(Wanted(a, 0)) /\ Len(c) = 0
    OBVIOUS
  <2>3. IsBest(c, Wanted(a, 0), k, R)
    BY <2>1, <2>2 DEF IsBest, Ascends
  <2>4. QED
    BY <1>1, <1>10, <2>3
<1>12. ASSUME NEW n \in 1 .. N, n - 1 \in A PROVE n \in A
  <2>1. IsBest(P[n - 1], Wanted(a, n - 1), k, R)
    BY <1>12
  <2>2. IsBest(KeepsBest(near, a, k, P[n - 1], n), Wanted(a, n), k, R)
    BY <2>1, KeepsBestIs
  <2>3. P[n] = KeepsBest(near, a, k, P[n - 1], n)
    BY <1>10
  <2>4. IsBest(P[n], Wanted(a, n), k, R)
    BY <2>2, <2>3
  <2>5. QED
    BY <1>1, <2>4
<1>13. IsBest(P[N], Wanted(a, N), k, R)
  <2>1. N \in A
    <3> HIDE DEF A, N
    <3>1. 0 .. N \subseteq A
      BY <1>1, <1>11, <1>12, NatUpTo, Zenon
    <3>2. QED
      BY <1>1, <3>1
  <2>2. QED
    BY <2>1
<1>14. IsBest(Take(RankCandidates(near, a), k), Wanted(a, N), k, R)
  BY CandidatesAre, WantedFinite, TakeIsBest
<1>15. StrictOn(R, Wanted(a, N))
  BY NearnessStrict
<1>16. P[N] = Take(RankCandidates(near, a), k)
  <2> HIDE DEF N, R
  <2>1. QED
    BY <1>13, <1>14, <1>15, BestUnique
<1>17. QED
  BY <1>9, <1>16

\* The rows of the store.
StoreUpTo(s, n) ==
    /\ s \in [rows : Seq(Hash), unitRow : Seq(Nat \cup {Missing})]
    /\ Len(s.unitRow) = n
    /\ \A u \in 1 .. n : s.unitRow[u] # Missing =>
          s.unitRow[u] \in 1 .. Len(s.rows) /\ s.rows[s.unitRow[u]] = Corpus[u].hash

LEMMA StoresUnitIs ==
    ASSUME NEW vectors, NEW n \in 1 .. Len(Corpus), NEW s, StoreUpTo(s, n - 1)
    PROVE  StoreUpTo(StoresUnit(vectors, s, n), n)
<1> DEFINE h == Corpus[n].hash
           o == StoresUnit(vectors, s, n)
<1>1. n \in Unit /\ n \in Nat /\ h \in Hash
  BY UnitsAre DEF Hash
<1>2. s.rows \in Seq(Hash) /\ s.unitRow \in Seq(Nat \cup {Missing}) /\ Len(s.unitRow) = n - 1
  BY DEF StoreUpTo
<1>3. PICK m \in Nat : m = Len(s.rows)
  BY <1>2
<1>4. \A u \in 1 .. n : u \in 1 .. n - 1 \/ u = n
  BY <1>1
<1>5. (n - 1) + 1 = n
  BY <1>1
<1>6. ASSUME NEW x \in Nat \cup {Missing}
      PROVE  /\ Append(s.unitRow, x) \in Seq(Nat \cup {Missing})
             /\ Len(Append(s.unitRow, x)) = n /\ Append(s.unitRow, x)[n] = x
             /\ \A u \in 1 .. n - 1 : Append(s.unitRow, x)[u] = s.unitRow[u]
  BY <1>2, <1>5, AppendProperties
<1>7. CASE vectors[h] = "none"
  <2>1. o = [rows |-> s.rows, unitRow |-> Append(s.unitRow, Missing)]
    BY <1>7 DEF StoresUnit
  <2>2. o.rows = s.rows /\ o.unitRow = Append(s.unitRow, Missing)
    BY <2>1
  <2>3. o \in [rows : Seq(Hash), unitRow : Seq(Nat \cup {Missing})]
    BY <1>2, <1>6, <2>1
  <2> HIDE DEF o
  <2>4. ASSUME NEW u \in 1 .. n, o.unitRow[u] # Missing
        PROVE  o.unitRow[u] \in 1 .. Len(o.rows) /\ o.rows[o.unitRow[u]] = Corpus[u].hash
    <3>1. u \in 1 .. n - 1
      BY <1>4, <1>6, <2>2, <2>4
    <3>2. o.unitRow[u] = s.unitRow[u]
      BY <1>6, <2>2, <3>1
    <3>3. QED
      BY <2>2, <2>4, <3>1, <3>2, Zenon DEF StoreUpTo
  <2>5. Len(o.unitRow) = n
    BY <1>6, <2>2
  <2>6. QED
    BY <2>3, <2>4, <2>5 DEF StoreUpTo, o
<1>8. CASE vectors[h] # "none"
  <2>1. o = [rows |-> Append(s.rows, h), unitRow |-> Append(s.unitRow, m + 1)]
    BY <1>3, <1>8 DEF StoresUnit
  <2>2. o.rows = Append(s.rows, h) /\ o.unitRow = Append(s.unitRow, m + 1)
    BY <2>1
  <2>3. /\ Append(s.rows, h) \in Seq(Hash)
        /\ Len(Append(s.rows, h)) = m + 1 /\ Append(s.rows, h)[m + 1] = h
        /\ \A i \in 1 .. m : Append(s.rows, h)[i] = s.rows[i]
    BY <1>1, <1>2, <1>3, AppendProperties
  <2>4. m + 1 \in Nat \cup {Missing}
    OBVIOUS
  <2>5. o \in [rows : Seq(Hash), unitRow : Seq(Nat \cup {Missing})]
    BY <1>6, <2>1, <2>3, <2>4
  <2> HIDE DEF o
  <2>6. ASSUME NEW u \in 1 .. n, o.unitRow[u] # Missing
        PROVE  o.unitRow[u] \in 1 .. Len(o.rows) /\ o.rows[o.unitRow[u]] = Corpus[u].hash
    <3>1. CASE u = n
      <4>1. o.unitRow[u] = m + 1
        BY <1>6, <2>2, <2>4, <3>1
      <4>2. m + 1 \in 1 .. m + 1
        OBVIOUS
      <4>3. QED
        BY <2>2, <2>3, <3>1, <4>1, <4>2, Zenon
    <3>2. CASE u \in 1 .. n - 1
      <4>1. o.unitRow[u] = s.unitRow[u]
        BY <1>6, <2>2, <2>4, <3>2
      <4>2. s.unitRow[u] \in 1 .. m /\ s.rows[s.unitRow[u]] = Corpus[u].hash
        BY <1>3, <2>6, <3>2, <4>1 DEF StoreUpTo
      <4>3. s.unitRow[u] \in 1 .. m + 1
        BY <4>2
      <4>4. QED
        BY <2>2, <2>3, <4>1, <4>2, <4>3, Zenon
    <3>3. QED
      BY <1>4, <3>1, <3>2
  <2>7. Len(o.unitRow) = n
    BY <1>6, <2>2, <2>4
  <2>8. QED
    BY <2>5, <2>6, <2>7 DEF StoreUpTo, o
<1>9. QED
  BY <1>7, <1>8
\* Every unit with a row finds its own vector there.
LEMMA StoreOfIs ==
    ASSUME NEW vectors
    PROVE  StoreUpTo(StoreOf(vectors), Len(Corpus))
<1> DEFINE N == Len(Corpus)
           T == [rows : Seq(Hash), unitRow : Seq(Nat \cup {Missing})]
           F == [p \in (1 .. N) \X T |-> StoresUnit(vectors, p[2], p[1])]
           P == CHOOSE f : f = [n \in 0 .. N |->
                   IF n = 0 THEN EmptyStore ELSE StoresUnit(vectors, f[n - 1], n)]
<1>1. N \in Nat /\ Unit = 1 .. N
  BY UnitsAre
<1>2. F \in [(1 .. N) \X T -> T]
  <2>1. ASSUME NEW n \in 1 .. N, NEW s \in T PROVE StoresUnit(vectors, s, n) \in T
    <3>1. Corpus[n].hash \in Hash
      BY <1>1 DEF Hash
    <3>2. Append(s.rows, Corpus[n].hash) \in Seq(Hash) /\ Len(s.rows) + 1 \in Nat
      BY <3>1
    <3>3. \A x \in Nat \cup {Missing} : Append(s.unitRow, x) \in Seq(Nat \cup {Missing})
      OBVIOUS
    <3>4. QED
      BY <3>2, <3>3 DEF StoresUnit
  <2> HIDE DEF T
  <2>2. QED
    BY <2>1
<1>3. EmptyStore \in T
  BY DEF EmptyStore
<1>4. PICK g \in [0 .. N -> T] : RecursiveUpTo(g, N, EmptyStore, F)
  <2> HIDE DEF F, N, T
  <2>1. QED
    BY <1>1, <1>2, <1>3, RecursionUpTo, Zenon
<1> HIDE DEF T
<1>5. g[0] = EmptyStore
  BY <1>4 DEF RecursiveUpTo
<1>6. ASSUME NEW n \in 1 .. N PROVE g[n] = StoresUnit(vectors, g[n - 1], n)
  <2>1. g[n] = F[<<n, g[n - 1]>>]
    BY <1>4, Zenon DEF RecursiveUpTo
  <2>2. g[n - 1] \in T
    <3> HIDE DEF N, F
    <3>1. n - 1 \in 0 .. N
      BY <1>1
    <3>2. QED
      BY <1>4, <3>1
  <2>3. <<n, g[n - 1]>> \in (1 .. N) \X T
    BY <2>2
  <2>4. QED
    BY <2>1, <2>3
<1>7. g = [n \in 0 .. N |-> IF n = 0 THEN EmptyStore ELSE StoresUnit(vectors, g[n - 1], n)]
  <2>1. ASSUME NEW n \in 0 .. N
        PROVE  g[n] = IF n = 0 THEN EmptyStore ELSE StoresUnit(vectors, g[n - 1], n)
    <3>1. CASE n = 0
      BY <1>5, <3>1
    <3>2. CASE n # 0
      <4>1. n \in 1 .. N
        BY <1>1, <3>2
      <4>2. QED
        BY <1>6, <3>2, <4>1
    <3>3. QED
      BY <3>1, <3>2
  <2>2. QED
    BY <2>1
<1>8. P = [n \in 0 .. N |-> IF n = 0 THEN EmptyStore ELSE StoresUnit(vectors, P[n - 1], n)]
  BY <1>7
<1>9. StoreOf(vectors) = P[N]
  BY DEF StoreOf
<1> HIDE DEF P
<1>10. P[0] = EmptyStore /\ \A n \in 1 .. N : P[n] = StoresUnit(vectors, P[n - 1], n)
  <2> DEFINE D == [n \in 0 .. N |-> IF n = 0 THEN EmptyStore ELSE StoresUnit(vectors, P[n - 1], n)]
  <2>1. D[0] = EmptyStore
    BY <1>1
  <2>2. ASSUME NEW n \in 1 .. N PROVE D[n] = StoresUnit(vectors, P[n - 1], n)
    BY <1>1
  <2>3. P = D
    BY <1>8, Zenon
  <2> HIDE DEF D
  <2>4. QED
    BY <2>1, <2>2, <2>3
<1> DEFINE A == {n \in 0 .. N : StoreUpTo(P[n], n)}
<1>11. 0 \in A
  <2>1. StoreUpTo(EmptyStore, 0)
    BY DEF EmptyStore, StoreUpTo
  <2>2. QED
    BY <1>1, <1>10, <2>1
<1>12. ASSUME NEW n \in 1 .. N, n - 1 \in A PROVE n \in A
  <2>1. StoreUpTo(P[n - 1], n - 1)
    BY <1>12
  <2>2. StoreUpTo(StoresUnit(vectors, P[n - 1], n), n)
    BY <2>1, StoresUnitIs
  <2>3. P[n] = StoresUnit(vectors, P[n - 1], n)
    BY <1>10
  <2>4. QED
    BY <1>1, <2>2, <2>3
<1>13. StoreUpTo(P[N], N)
  <2>1. N \in A
    <3> HIDE DEF A, N
    <3>1. 0 .. N \subseteq A
      BY <1>1, <1>11, <1>12, NatUpTo, Zenon
    <3>2. QED
      BY <1>1, <3>1
  <2>2. QED
    BY <2>1
<1>14. QED
  BY <1>9, <1>13

LEMMA StoreKnowsVectors ==
    ASSUME StoreUpTo(store, Len(Corpus))
    PROVE  VectorsKnown
  BY UnitsAre DEF StoreUpTo, VectorsKnown, Embedded, VectorOf

LEMMA TopKHolds ==
    ASSUME VectorsKnown, nearness \in [Hash -> Nat]
    PROVE  TopKIsSortAndTruncate
<1>1. \A k \in 1 .. 3 : k \in Nat \ {0}
  OBVIOUS
<1>2. \A k \in 1 .. 3 : TopK(nearness, ask, k) = Take(RankCandidates(nearness, ask), k)
  BY <1>1, TopKIs
<1>3. QED
  BY <1>2 DEF VectorsKnown, TopKIsSortAndTruncate

-----------------------------------------------------------------------------
(* Fusion.                                                                 *)

\* A full tenth: Tenths(1, 1).
Unity == 249984

LEMMA UnityIs == Scale \div (K + 1) = Unity
  BY DEF Scale, K, Unity

LEMMA ReciprocalIs ==
    ASSUME NEW r \in Nat \ {0}
    PROVE  Scale \div (K + r) \in Nat /\ Scale \div (K + r) <= Unity
<1> DEFINE d == K + r
           q == Scale \div d
<1>1. Scale \in Nat /\ Scale = 61 * Unity
  BY DEF Scale, Unity
<1>2. d \in Nat /\ d >= 61
  BY DEF K
<1> HIDE DEF d
<1>3. q \in Nat /\ q * d <= Scale
  <2> HIDE DEF Scale
  <2>1. q \in Int /\ d * q <= Scale /\ Scale < d * (q + 1)
    BY <1>1, <1>2
  <2>2. QED
    BY <1>1, <1>2, <2>1
<1>4. q * 61 <= q * d
  <2> HIDE DEF q
  <2>1. QED
    BY <1>2, <1>3
<1>5. q <= Unity
  <2> HIDE DEF q
  <2>1. q * d \in Nat
    BY <1>2, <1>3
  <2>2. q * 61 <= 61 * Unity
    BY <1>1, <1>3, <1>4, <2>1
  <2>3. QED
    BY <1>3, <2>2 DEF Unity
<1>6. QED
  BY <1>3, <1>5 DEF d

Source == {"dense", "dense-compressed", "lexical", "graph"}
ListT == [source : Source, weight : Nat, units : Seq(Unit)]

\* What one list gives a unit.
LEMMA ContributionIs ==
    ASSUME NEW l \in ListT, NEW u \in Unit
    PROVE  /\ Contribution(l, u) \in Nat
           /\ Contribution(l, u) <= l.weight * Unity
           /\ u \notin ToSet(l.units) => Contribution(l, u) = 0
           /\ IsInjective(l.units) /\ l.units # <<>> /\ u = l.units[1] =>
                  Contribution(l, u) = l.weight * Unity
<1>1. l.weight \in Nat /\ l.units \in Seq(Unit)
  BY DEF ListT
<1>2. Unity \in Nat
  BY DEF Unity
<1>3. CASE u \notin ToSet(l.units)
  <2>1. Contribution(l, u) = 0
    BY <1>3 DEF Contribution
  <2>2. 0 <= l.weight * Unity
    BY <1>1 DEF Unity
  <2>3. ASSUME l.units # <<>>, u = l.units[1] PROVE FALSE
    <3>1. 1 \in DOMAIN l.units
      BY <1>1, <2>3
    <3>2. QED
      BY <1>3, <2>3, <3>1 DEF ToSet
  <2>4. QED
    BY <2>1, <2>2, <2>3
<1>4. CASE u \in ToSet(l.units)
  <2> DEFINE r == Rank(l, u)
             q == Scale \div (K + r)
  <2>1. r \in DOMAIN l.units /\ l.units[r] = u
    BY <1>4 DEF Rank, ToSet
  <2>2. r \in Nat \ {0}
    BY <1>1, <2>1
  <2>3. q \in Nat /\ q <= Unity
    BY <2>2, ReciprocalIs
  <2>4. Contribution(l, u) = l.weight * q
    BY <1>4 DEF Contribution, Tenths
  <2>5. ASSUME IsInjective(l.units), l.units # <<>>, u = l.units[1]
        PROVE  Contribution(l, u) = l.weight * Unity
    <3>1. 1 \in DOMAIN l.units
      BY <1>1, <2>5
    <3>2. r = 1
      BY <2>1, <2>5, <3>1 DEF IsInjective
    <3>3. q = Unity
      BY <3>2, UnityIs
    <3>4. QED
      BY <2>4, <3>3
  <2> HIDE DEF q
  <2>6. l.weight * q \in Nat /\ l.weight * q <= l.weight * Unity
    BY <1>1, <1>2, <2>3
  <2>7. QED
    BY <1>4, <2>4, <2>5, <2>6
<1>5. QED
  BY <1>3, <1>4

\* P adds up what the lists give to u.
Sums(P, ls, u) ==
    /\ P \in [0 .. Len(ls) -> Nat] /\ P[0] = 0
    /\ \A n \in 1 .. Len(ls) : P[n] = P[n - 1] + Contribution(ls[n], u)

LEMMA ScoreSums ==
    ASSUME NEW ls \in Seq(ListT), NEW u \in Unit
    PROVE  \E P : Sums(P, ls, u) /\ Score(ls, u) = P[Len(ls)]
<1> DEFINE N == Len(ls)
           G(n) == Contribution(ls[n], u)
           F == [p \in (1 .. N) \X Nat |-> p[2] + G(p[1])]
           P == CHOOSE f : f = [n \in 0 .. N |->
                   IF n = 0 THEN 0 ELSE f[n - 1] + Contribution(ls[n], u)]
<1>1. N \in Nat /\ \A n \in 1 .. N : G(n) \in Nat
  BY ContributionIs
<1>2. F \in [(1 .. N) \X Nat -> Nat]
  <2> HIDE DEF G, N
  <2>1. QED
    BY <1>1
<1>3. PICK g \in [0 .. N -> Nat] : RecursiveUpTo(g, N, 0, F)
  <2> HIDE DEF F, N
  <2>1. QED
    BY <1>1, <1>2, RecursionUpTo, Zenon
<1>4. g[0] = 0
  BY <1>3 DEF RecursiveUpTo
<1>5. ASSUME NEW n \in 1 .. N PROVE g[n] = g[n - 1] + G(n)
  <2>1. g[n] = F[<<n, g[n - 1]>>]
    BY <1>3, Zenon DEF RecursiveUpTo
  <2>2. g[n - 1] \in Nat
    <3> HIDE DEF N, F
    <3>1. n - 1 \in 0 .. N
      BY <1>1
    <3>2. QED
      BY <1>3, <3>1
  <2>3. <<n, g[n - 1]>> \in (1 .. N) \X Nat
    BY <2>2
  <2> HIDE DEF G
  <2>4. QED
    BY <2>1, <2>3
<1>6. g = [n \in 0 .. N |-> IF n = 0 THEN 0 ELSE g[n - 1] + Contribution(ls[n], u)]
  <2>1. ASSUME NEW n \in 0 .. N
        PROVE  g[n] = IF n = 0 THEN 0 ELSE g[n - 1] + Contribution(ls[n], u)
    <3>1. CASE n = 0
      BY <1>4, <3>1
    <3>2. CASE n # 0
      <4>1. n \in 1 .. N
        BY <1>1, <3>2
      <4>2. QED
        BY <1>5, <3>2, <4>1
    <3>3. QED
      BY <3>1, <3>2
  <2>2. QED
    BY <2>1
<1>7. P = [n \in 0 .. N |-> IF n = 0 THEN 0 ELSE P[n - 1] + Contribution(ls[n], u)]
  BY <1>6, Zenon
<1>8. Score(ls, u) = P[N]
  BY DEF Score
<1> HIDE DEF P
<1>9. /\ P[0] = 0 /\ DOMAIN P = 0 .. N
      /\ \A n \in 1 .. N : P[n] = P[n - 1] + G(n)
  <2> DEFINE D == [n \in 0 .. N |-> IF n = 0 THEN 0 ELSE P[n - 1] + Contribution(ls[n], u)]
  <2>1. D[0] = 0 /\ DOMAIN D = 0 .. N
    BY <1>1
  <2>2. ASSUME NEW n \in 1 .. N PROVE D[n] = P[n - 1] + G(n)
    BY <1>1
  <2>3. P = D
    BY <1>7, Zenon
  <2> HIDE DEF D
  <2>4. QED
    BY <2>1, <2>2, <2>3
<1> HIDE DEF G
<1>10. ASSUME NEW n \in 0 .. N PROVE P[n] \in Nat
  <2> DEFINE A == {m \in 0 .. N : P[m] \in Nat}
  <2>1. 0 \in A
    BY <1>1, <1>9
  <2>2. ASSUME NEW m \in 1 .. N, m - 1 \in A PROVE m \in A
    BY <1>1, <1>9, <2>2
  <2>3. 0 .. N \subseteq A
    <3> HIDE DEF A, N
    <3>1. QED
      BY <1>1, <2>1, <2>2, NatUpTo, Zenon
  <2>4. QED
    BY <2>3
<1>11. P \in [0 .. N -> Nat]
  <2>1. P = [n \in 0 .. N |-> P[n]]
    BY <1>7
  <2> HIDE DEF N
  <2>2. QED
    BY <1>10, <2>1
<1>12. Sums(P, ls, u)
  BY <1>9, <1>11 DEF Sums, G
<1>13. QED
  BY <1>8, <1>12

LEMMA ScoreEmpty ==
    ASSUME NEW u \in Unit
    PROVE  Score(<<>>, u) = 0
<1>1. <<>> \in Seq(ListT) /\ Len(<<>>) = 0
  OBVIOUS
<1>2. PICK P : Sums(P, <<>>, u) /\ Score(<<>>, u) = P[Len(<<>>)]
  BY <1>1, ScoreSums, Zenon
<1>3. QED
  BY <1>1, <1>2 DEF Sums

\* One more list adds what it gives.
LEMMA ScoreAppend ==
    ASSUME NEW ls \in Seq(ListT), NEW l \in ListT, NEW u \in Unit
    PROVE  /\ Score(ls, u) \in Nat
           /\ Score(Append(ls, l), u) = Score(ls, u) + Contribution(l, u)
<1> DEFINE ms == Append(ls, l)
<1>1. PICK P : Sums(P, ls, u) /\ Score(ls, u) = P[Len(ls)]
  BY ScoreSums
<1>2. ms \in Seq(ListT) /\ Len(ms) = Len(ls) + 1
  BY AppendProperties
<1>3. ms[Len(ls) + 1] = l /\ \A n \in 1 .. Len(ls) : ms[n] = ls[n]
  BY AppendProperties
<1> HIDE DEF ms
<1>4. PICK Q : Sums(Q, ms, u) /\ Score(ms, u) = Q[Len(ms)]
  BY <1>2, ScoreSums
<1>5. PICK N \in Nat : N = Len(ls)
  OBVIOUS
<1>6. /\ P \in [0 .. N -> Nat] /\ P[0] = 0
      /\ \A n \in 1 .. N : P[n] = P[n - 1] + Contribution(ls[n], u)
  BY <1>1, <1>5 DEF Sums
<1>7. /\ Q \in [0 .. N + 1 -> Nat] /\ Q[0] = 0
      /\ \A n \in 1 .. N + 1 : Q[n] = Q[n - 1] + Contribution(ms[n], u)
  BY <1>2, <1>4, <1>5 DEF Sums
<1> DEFINE A == {n \in 0 .. N : P[n] = Q[n]}
<1>8. 0 \in A
  BY <1>6, <1>7
<1>9. ASSUME NEW n \in 1 .. N, n - 1 \in A PROVE n \in A
  <2>1. n \in 1 .. N + 1 /\ n \in 0 .. N /\ ms[n] = ls[n] /\ P[n - 1] = Q[n - 1]
    BY <1>3, <1>5, <1>9
  <2>2. P[n] = P[n - 1] + Contribution(ls[n], u)
    BY <1>6
  <2>3. Q[n] = Q[n - 1] + Contribution(ms[n], u)
    BY <1>7, <2>1
  <2>4. QED
    BY <2>1, <2>2, <2>3
<1>10. N \in A
  <2> HIDE DEF A
  <2>1. 0 .. N \subseteq A
    BY <1>8, <1>9, NatUpTo, Zenon
  <2>2. QED
    BY <2>1
<1>11. Q[N + 1] = Q[N] + Contribution(l, u)
  <2>1. N + 1 \in 1 .. N + 1 /\ (N + 1) - 1 = N
    OBVIOUS
  <2>2. Q[N + 1] = Q[(N + 1) - 1] + Contribution(ms[N + 1], u)
    BY <1>7, <2>1
  <2>3. QED
    BY <1>3, <1>5, <2>1, <2>2
<1>12. P[N] \in Nat
  BY <1>6
<1>13. QED
  BY <1>1, <1>2, <1>4, <1>5, <1>10, <1>11, <1>12 DEF ms

LEMMA ScoreType ==
    ASSUME NEW ls \in Seq(ListT), NEW u \in Unit
    PROVE  Score(ls, u) \in Nat
<1>1. PICK P : Sums(P, ls, u) /\ Score(ls, u) = P[Len(ls)]
  BY ScoreSums
<1>2. PICK N \in Nat : N = Len(ls)
  OBVIOUS
<1>3. QED
  BY <1>1, <1>2 DEF Sums
Ranked(ls) == UNION {ToSet(ls[i].units) : i \in DOMAIN ls}

\* One unit is before another by the scores of ls.
Outranks(ls, u, v) == Score(ls, u) > Score(ls, v) \/ (Score(ls, u) = Score(ls, v) /\ u < v)

ByScore(ls) == {p \in Unit \X Unit : Outranks(ls, p[1], p[2])}

\* r is the ranking that ls fuse into.
Fused(r, ls) ==
    /\ r \in Seq(Unit) /\ IsInjective(r) /\ ToSet(r) = Ranked(ls)
    /\ \A i, j \in 1 .. Len(r) : i < j => Outranks(ls, r[i], r[j])

LEMMA RankedUnits ==
    ASSUME NEW ls \in Seq(ListT)
    PROVE  Ranked(ls) \subseteq Unit /\ IsFiniteSet(Ranked(ls))
<1>1. \A i \in DOMAIN ls : ls[i].units \in Seq(Unit)
  <2>1. \A i \in DOMAIN ls : ls[i] \in ListT
    OBVIOUS
  <2>2. \A l \in ListT : l.units \in Seq(Unit)
    BY DEF ListT
  <2>3. QED
    BY <2>1, <2>2
<1>2. \A i \in DOMAIN ls : ToSet(ls[i].units) \subseteq Unit
  <2>1. ASSUME NEW i \in DOMAIN ls PROVE ToSet(ls[i].units) \subseteq Unit
    <3>1. PICK s \in Seq(Unit) : s = ls[i].units
      BY <1>1
    <3>2. \A j \in DOMAIN s : s[j] \in Unit
      OBVIOUS
    <3>3. QED
      BY <3>1, <3>2 DEF ToSet
  <2>2. QED
    BY <2>1
<1>3. Ranked(ls) \subseteq Unit
  BY <1>2 DEF Ranked
<1>4. QED
  BY <1>3, UnitsAre, FS_Subset

LEMMA ScoresStrict ==
    ASSUME NEW ls \in Seq(ListT)
    PROVE  StrictOn(ByScore(ls), Unit)
<1> DEFINE R == ByScore(ls)
           V(u) == Score(ls, u)
<1>1. \A u \in Unit : u \in Nat /\ V(u) \in Nat
  BY UnitsAre, ScoreType
<1>2. \A u, v \in Unit : <<u, v>> \in R <=> V(u) > V(v) \/ (V(u) = V(v) /\ u < v)
  BY DEF ByScore, Outranks
<1> HIDE DEF R, V
<1>3. \A u \in Unit : <<u, u>> \notin R
  BY <1>1, <1>2
<1>4. \A u, v, w \in Unit : <<u, v>> \in R /\ <<v, w>> \in R => <<u, w>> \in R
  BY <1>1, <1>2
<1>5. \A u, v \in Unit : u # v => <<u, v>> \in R \/ <<v, u>> \in R
  BY <1>1, <1>2
<1>6. QED
  BY <1>3, <1>4, <1>5 DEF StrictOn, R

\* Fusion ranks every unit of a list once, by its score.
LEMMA FusionIs ==
    ASSUME NEW ls \in Seq(ListT)
    PROVE  Fused(ReciprocalRankFusion(ls), ls)
<1> DEFINE D == Ranked(ls)
           score == [u \in D |-> Score(ls, u)]
           R == ByScore(ls)
           r == ReciprocalRankFusion(ls)
           Sorted(s) == \A i, j \in DOMAIN s : i < j =>
                            \/ score[s[i]] > score[s[j]]
                            \/ score[s[i]] = score[s[j]] /\ s[i] < s[j]
<1>1. DOMAIN score = D
  OBVIOUS
<1>2. r = CHOOSE s \in SetToSeqs(D) : Sorted(s)
  BY <1>1, Zenon DEF ReciprocalRankFusion, InOrder, Ranked
<1>3. D \subseteq Unit /\ IsFiniteSet(D)
  BY RankedUnits
<1>4. ASSUME NEW s \in SetToSeqs(D) PROVE Ascends(s, R) <=> Sorted(s)
  <2>1. \A i \in DOMAIN s : s[i] \in D
    <3> HIDE DEF D
    <3>1. QED
      BY <1>3, SeqsAre
  <2>2. \A i \in DOMAIN s : s[i] \in Unit /\ score[s[i]] = Score(ls, s[i])
    BY <1>3, <2>1
  <2>3. \A i, j \in DOMAIN s : <<s[i], s[j]>> \in R <=> Outranks(ls, s[i], s[j])
    BY <2>2, Zenon DEF ByScore
  <2> HIDE DEF score, R
  <2>4. \A i, j \in DOMAIN s : <<s[i], s[j]>> \in R <=>
            \/ score[s[i]] > score[s[j]]
            \/ score[s[i]] = score[s[j]] /\ s[i] < s[j]
    BY <2>2, <2>3 DEF Outranks
  <2>5. QED
    BY <2>4, Zenon DEF Ascends
<1>5. StrictOn(R, D)
  BY <1>3, ScoresStrict, StrictBelow
<1> HIDE DEF D, R, Sorted
<1>6. \E s \in SetToSeqs(D) : Sorted(s)
  BY <1>3, <1>4, <1>5, OrderExists
<1>7. r \in SetToSeqs(D) /\ Sorted(r)
  BY <1>2, <1>6
<1>8. Ascends(r, R)
  BY <1>4, <1>7
<1> HIDE DEF r
<1>9. r \in Seq(D) /\ IsInjective(r) /\ ToSet(r) = D /\ DOMAIN r = 1 .. Len(r)
  BY <1>3, <1>7, SeqsAre
<1>10. r \in Seq(Unit)
  BY <1>3, <1>9, SeqMonotonic
<1>11. \A i, j \in 1 .. Len(r) : i < j => Outranks(ls, r[i], r[j])
  BY <1>8, <1>9, Zenon DEF Ascends, R, ByScore
<1>12. Fused(r, ls)
  BY <1>9, <1>10, <1>11 DEF Fused, D
<1>13. QED
  BY <1>12 DEF r

\* The ranked list of a source, and the lists with one more.
UnitsIn(ls, source) ==
    LET of == {i \in DOMAIN ls : ls[i].source = source} IN
    IF of = {} THEN <<>> ELSE ls[Min(of)].units
Joins(ls, source, weight, us) ==
    IF us = <<>> THEN ls ELSE Append(ls, [source |-> source, weight |-> weight, units |-> us])

\* A list of units that the filter admits, each once.
Admitted(us, a) == us \in Seq(Unit) /\ IsInjective(us) /\ \A u \in ToSet(us) : Matches(a, u)

\* Lists of some of the sources, one of each.
ListsOK(ls, a, sources) ==
    /\ ls \in Seq(ListT)
    /\ \A i \in DOMAIN ls :
          Admitted(ls[i].units, a) /\ ls[i].units # <<>> /\ ls[i].source \in sources
    /\ \A i, j \in DOMAIN ls : ls[i].source = ls[j].source => i = j

LEMMA UnitsInIs ==
    ASSUME NEW ls, NEW a, NEW S, ListsOK(ls, a, S), NEW source
    PROVE  /\ \A i \in DOMAIN ls : ls[i].source = source => UnitsIn(ls, source) = ls[i].units
           /\ (\A i \in DOMAIN ls : ls[i].source # source) => UnitsIn(ls, source) = <<>>
<1> DEFINE of == {i \in DOMAIN ls : ls[i].source = source}
<1>1. ASSUME NEW i \in DOMAIN ls, ls[i].source = source
      PROVE  UnitsIn(ls, source) = ls[i].units
  <2>1. of = {i}
    BY <1>1 DEF ListsOK
  <2>2. i \in Nat
    BY DEF ListsOK
  <2>3. Min({i}) = i
    BY <2>2 DEF Min
  <2>4. of # {}
    BY <2>1
  <2> HIDE DEF of
  <2>5. UnitsIn(ls, source) = ls[Min(of)].units
    BY <2>4 DEF UnitsIn, of
  <2>6. QED
    BY <2>1, <2>3, <2>5
<1>2. ASSUME \A i \in DOMAIN ls : ls[i].source # source PROVE UnitsIn(ls, source) = <<>>
  <2>1. of = {}
    BY <1>2
  <2>2. QED
    BY <2>1 DEF UnitsIn
<1>3. QED
  BY <1>1, <1>2

\* The list of a source holds units of it, the empty one included.
LEMMA UnitsInType ==
    ASSUME NEW ls, NEW a, NEW S, ListsOK(ls, a, S), NEW source
    PROVE  /\ UnitsIn(ls, source) \in Seq(Unit) /\ ToSet(UnitsIn(ls, source)) \subseteq Ranked(ls)
           /\ source \notin S => UnitsIn(ls, source) = <<>>
<1>1. CASE \E i \in DOMAIN ls : ls[i].source = source
  <2>1. PICK i \in DOMAIN ls : ls[i].source = source
    BY <1>1
  <2>2. UnitsIn(ls, source) = ls[i].units
    BY <2>1, UnitsInIs
  <2>3. ls[i].units \in Seq(Unit) /\ ls[i].source \in S
    BY DEF ListsOK, Admitted
  <2>4. ToSet(ls[i].units) \subseteq Ranked(ls)
    BY DEF Ranked
  <2>5. QED
    BY <2>1, <2>2, <2>3, <2>4
<1>2. CASE ~\E i \in DOMAIN ls : ls[i].source = source
  <2>1. UnitsIn(ls, source) = <<>>
    BY <1>2, UnitsInIs
  <2>2. <<>> \in Seq(Unit) /\ ToSet(<<>>) = {}
    BY DEF ToSet
  <2>3. QED
    BY <2>1, <2>2
<1>3. QED
  BY <1>1, <1>2

\* What one more element leaves as it was.
LEMMA AppendedIs ==
    ASSUME NEW T, NEW s \in Seq(T), NEW e \in T, NEW t, t = Append(s, e)
    PROVE  /\ t \in Seq(T) /\ Len(s) + 1 \in DOMAIN t /\ t[Len(s) + 1] = e
           /\ \A i \in DOMAIN s : i \in DOMAIN t /\ t[i] = s[i]
           /\ \A i \in DOMAIN t : (i \in DOMAIN s /\ t[i] = s[i]) \/ (i = Len(s) + 1 /\ t[i] = e)
<1>1. t \in Seq(T) /\ Len(t) = Len(s) + 1
  BY AppendProperties
<1>2. t[Len(s) + 1] = e /\ \A i \in 1 .. Len(s) : t[i] = s[i]
  BY AppendProperties
<1>3. PICK N \in Nat : N = Len(s)
  OBVIOUS
<1>4. DOMAIN s = 1 .. N /\ DOMAIN t = 1 .. N + 1
  BY <1>1, <1>3
<1>5. QED
  BY <1>1, <1>2, <1>3, <1>4

\* One more list: the sources, the lists of each source, the scores.
LEMMA JoinOK ==
    ASSUME NEW ls, NEW a, NEW S, ListsOK(ls, a, S),
           NEW source \in Source, source \notin S, NEW w \in Nat, NEW us, Admitted(us, a)
    PROVE  ListsOK(Joins(ls, source, w, us), a, S \cup {source})
<1> DEFINE l == [source |-> source, weight |-> w, units |-> us]
           ms == Joins(ls, source, w, us)
<1>1. ls \in Seq(ListT)
  BY DEF ListsOK
<1>2. CASE us = <<>>
  <2>1. ms = ls
    BY <1>2 DEF Joins
  <2>2. QED
    BY <2>1 DEF ListsOK
<1>3. CASE us # <<>>
  <2>1. l \in ListT /\ l.source = source /\ l.units = us
    BY DEF ListT, Admitted
  <2> HIDE DEF l
  <2>2. ms = Append(ls, l)
    BY <1>3 DEF Joins, l
  <2>3. ms \in Seq(ListT) /\ Len(ms) = Len(ls) + 1
    BY <1>1, <2>1, <2>2, AppendProperties
  <2>4. ms[Len(ls) + 1] = l /\ \A i \in 1 .. Len(ls) : ms[i] = ls[i]
    BY <1>1, <2>1, <2>2, AppendProperties
  <2> HIDE DEF ms
  <2>5. DOMAIN ms = 1 .. Len(ls) + 1 /\ DOMAIN ls = 1 .. Len(ls) /\ Len(ls) \in Nat
    BY <1>1, <2>3
  <2>6. \A i \in DOMAIN ms : (i \in DOMAIN ls /\ ms[i] = ls[i]) \/ (i = Len(ls) + 1 /\ ms[i] = l)
    BY <2>4, <2>5
  <2>7. \A i \in DOMAIN ms :
           Admitted(ms[i].units, a) /\ ms[i].units # <<>> /\ ms[i].source \in S \cup {source}
    BY <1>3, <2>1, <2>6 DEF ListsOK
  <2>8. ASSUME NEW i \in DOMAIN ms, NEW j \in DOMAIN ms, ms[i].source = ms[j].source PROVE i = j
    BY <2>1, <2>6, <2>8 DEF ListsOK
  <2>9. QED
    BY <2>3, <2>7, <2>8 DEF ListsOK, ms
<1>4. QED
  BY <1>2, <1>3

LEMMA JoinUnits ==
    ASSUME NEW ls, NEW a, NEW S, ListsOK(ls, a, S),
           NEW source \in Source, source \notin S, NEW w \in Nat, NEW us, Admitted(us, a),
           NEW ms, ms = Joins(ls, source, w, us)
    PROVE  /\ UnitsIn(ms, source) = us
           /\ \A s : s # source => UnitsIn(ms, s) = UnitsIn(ls, s)
<1> DEFINE l == [source |-> source, weight |-> w, units |-> us]
<1>1. ls \in Seq(ListT)
  BY DEF ListsOK
<1>2. CASE us = <<>>
  <2>1. ms = ls
    BY <1>2 DEF Joins
  <2>2. UnitsIn(ls, source) = <<>>
    BY UnitsInType
  <2>3. QED
    BY <1>2, <2>1, <2>2
<1>3. CASE us # <<>>
  <2>1. l \in ListT /\ l.source = source /\ l.units = us
    BY DEF ListT, Admitted
  <2> HIDE DEF l
  <2>2. ms = Append(ls, l)
    BY <1>3 DEF Joins, l
  <2>3. ls \in Seq(ListT)
    BY <1>1
  <2>4. ms \in Seq(ListT)
    BY <2>1, <2>2, <2>3, AppendedIs
  <2>5. Len(ls) + 1 \in DOMAIN ms /\ ms[Len(ls) + 1] = l
    BY <2>1, <2>2, <2>3, AppendedIs
  <2>6. /\ \A i \in DOMAIN ms : (i \in DOMAIN ls /\ ms[i] = ls[i]) \/ (i = Len(ls) + 1 /\ ms[i] = l)
        /\ \A i \in DOMAIN ls : i \in DOMAIN ms /\ ms[i] = ls[i]
    BY <2>1, <2>2, <2>3, AppendedIs
  <2>7. ListsOK(ms, a, S \cup {source})
    BY JoinOK
  <2>8. UnitsIn(ms, source) = us
    BY <2>1, <2>5, <2>7, UnitsInIs
  <2>9. ASSUME NEW s, s # source PROVE UnitsIn(ms, s) = UnitsIn(ls, s)
    <3>1. CASE \E i \in DOMAIN ls : ls[i].source = s
      <4>1. PICK i \in DOMAIN ls : ls[i].source = s
        BY <3>1
      <4>2. UnitsIn(ls, s) = ls[i].units
        BY <4>1, UnitsInIs
      <4>3. UnitsIn(ms, s) = ms[i].units
        BY <2>6, <2>7, <4>1, UnitsInIs
      <4>4. QED
        BY <2>6, <4>1, <4>2, <4>3
    <3>2. CASE ~\E i \in DOMAIN ls : ls[i].source = s
      <4>1. UnitsIn(ls, s) = <<>>
        BY <3>2, UnitsInIs
      <4>2. \A i \in DOMAIN ms : ms[i].source # s
        BY <2>1, <2>6, <2>9, <3>2
      <4>3. UnitsIn(ms, s) = <<>>
        BY <2>7, <4>2, UnitsInIs
      <4>4. QED
        BY <4>1, <4>3
    <3>3. QED
      BY <3>1, <3>2
  <2>10. QED
    BY <2>8, <2>9
<1>4. QED
  BY <1>2, <1>3

LEMMA JoinScore ==
    ASSUME NEW ls \in Seq(ListT), NEW a, NEW source \in Source, NEW w \in Nat,
           NEW us, Admitted(us, a), NEW u \in Unit, NEW ms, ms = Joins(ls, source, w, us)
    PROVE  /\ Score(ls, u) \in Nat /\ Score(ms, u) \in Nat
           /\ Score(ls, u) <= Score(ms, u) /\ Score(ms, u) <= Score(ls, u) + w * Unity
           /\ u \notin ToSet(us) => Score(ms, u) = Score(ls, u)
           /\ us # <<>> /\ u = us[1] => Score(ms, u) >= w * Unity
<1> DEFINE l == [source |-> source, weight |-> w, units |-> us]
           b == w * Unity
<1>1. Score(ls, u) \in Nat
  BY ScoreType
<1>2. b \in Nat
  BY DEF Unity
<1>3. CASE us = <<>>
  <2>1. ms = ls
    BY <1>3 DEF Joins
  <2> HIDE DEF b
  <2>2. Score(ms, u) <= Score(ls, u) + b
    BY <1>1, <1>2, <2>1
  <2>3. Score(ms, u) <= Score(ls, u) + w * Unity
    BY <2>2 DEF b
  <2>4. Score(ms, u) = Score(ls, u) /\ Score(ls, u) <= Score(ms, u)
    BY <1>1, <2>1
  <2>5. QED
    BY <1>1, <1>3, <2>3, <2>4
<1>4. CASE us # <<>>
  <2>1. l \in ListT /\ l.weight = w /\ l.units = us
    BY DEF ListT, Admitted
  <2> HIDE DEF l
  <2>2. ms = Append(ls, l)
    BY <1>4 DEF Joins, l
  <2>3. Score(ms, u) = Score(ls, u) + Contribution(l, u)
    BY <2>1, <2>2, ScoreAppend
  <2>4. /\ Contribution(l, u) \in Nat
        /\ Contribution(l, u) <= b
        /\ u \notin ToSet(us) => Contribution(l, u) = 0
        /\ us # <<>> /\ u = us[1] => Contribution(l, u) = b
    BY <2>1, ContributionIs DEF Admitted
  <2> HIDE DEF b
  <2>5. /\ Score(ms, u) \in Nat
        /\ Score(ls, u) <= Score(ms, u) /\ Score(ms, u) <= Score(ls, u) + b
        /\ u \notin ToSet(us) => Score(ms, u) = Score(ls, u)
        /\ us # <<>> /\ u = us[1] => Score(ms, u) >= b
    BY <1>1, <1>2, <2>3, <2>4
  <2>6. QED
    BY <1>1, <2>5 DEF b
<1>5. QED
  BY <1>3, <1>4

LEMMA JoinRanked ==
    ASSUME NEW ls \in Seq(ListT), NEW a, NEW source \in Source, NEW w \in Nat,
           NEW us, Admitted(us, a), NEW ms, ms = Joins(ls, source, w, us)
    PROVE  Ranked(ms) = Ranked(ls) \cup ToSet(us)
<1> DEFINE l == [source |-> source, weight |-> w, units |-> us]
<1>1. CASE us = <<>>
  <2>1. ms = ls /\ ToSet(us) = {}
    BY <1>1 DEF Joins, ToSet
  <2>2. QED
    BY <2>1
<1>2. CASE us # <<>>
  <2>1. l \in ListT /\ l.units = us
    BY DEF ListT, Admitted
  <2> HIDE DEF l
  <2>2. ms = Append(ls, l)
    BY <1>2 DEF Joins, l
  <2>3. ls \in Seq(ListT)
    OBVIOUS
  <2>4. ms \in Seq(ListT)
    BY <2>1, <2>2, <2>3, AppendedIs
  <2>5. Len(ls) + 1 \in DOMAIN ms /\ ms[Len(ls) + 1] = l
    BY <2>1, <2>2, <2>3, AppendedIs
  <2>6. /\ \A i \in DOMAIN ms : (i \in DOMAIN ls /\ ms[i] = ls[i]) \/ (i = Len(ls) + 1 /\ ms[i] = l)
        /\ \A i \in DOMAIN ls : i \in DOMAIN ms /\ ms[i] = ls[i]
    BY <2>1, <2>2, <2>3, AppendedIs
  <2>7. ASSUME NEW u PROVE u \in Ranked(ms) <=> u \in Ranked(ls) \cup ToSet(us)
    BY <2>1, <2>5, <2>6 DEF Ranked
  <2>8. QED
    BY <2>7
<1>3. QED
  BY <1>1, <1>2

-----------------------------------------------------------------------------
(* What each list adds to the scores.                                      *)

\* The units that no dense list holds.
Rest(ls) == Unit \ (ToSet(UnitsIn(ls, "dense")) \cup ToSet(UnitsIn(ls, "dense-compressed")))

\* The best dense hit has the full weight of its list; the rest have none yet,
\* or at most some tenths.
TopScored(ls) == UnitsIn(ls, "dense") # <<>> => Score(ls, UnitsIn(ls, "dense")[1]) >= 10 * Unity
RestUnscored(ls) == \A u \in Rest(ls) : Score(ls, u) = 0
RestBelow(ls, tenths) == \A u \in Rest(ls) : Score(ls, u) <= tenths * Unity

\* The lexical list does not confirm the best dense hit of a long question.
Unconfirmed(ls, a) ==
    /\ UnitsIn(ls, "dense") # <<>> /\ a.words >= 6
    /\ UnitsIn(ls, "dense")[1] \notin ToSet(Take(UnitsIn(ls, "lexical"), AgreementDepth))

LEMMA JoinDense ==
    ASSUME NEW ls, NEW a, NEW S, ListsOK(ls, a, S), "dense" \notin S, RestUnscored(ls),
           NEW us, Admitted(us, a), NEW ms, ms = Joins(ls, "dense", 10, us)
    PROVE  TopScored(ms) /\ RestUnscored(ms)
<1>1. ls \in Seq(ListT) /\ {"dense", "dense-compressed"} \subseteq Source
  BY DEF ListsOK, Source
<1>2. /\ UnitsIn(ms, "dense") = us /\ UnitsIn(ls, "dense") = <<>>
      /\ UnitsIn(ms, "dense-compressed") = UnitsIn(ls, "dense-compressed")
  BY <1>1, JoinUnits, UnitsInType
<1>3. TopScored(ms)
  <2>1. ASSUME us # <<>> PROVE Score(ms, us[1]) >= 10 * Unity
    <3>1. us[1] \in Unit
      BY <2>1 DEF Admitted
    <3>2. QED
      BY <1>1, <2>1, <3>1, JoinScore
  <2>2. QED
    BY <1>2, <2>1 DEF TopScored
<1>4. ASSUME NEW u \in Rest(ms) PROVE Score(ms, u) = 0
  <2>1. u \in Unit /\ u \notin ToSet(us)
    BY <1>2 DEF Rest
  <2>2. u \in Rest(ls)
    BY <1>2, <2>1 DEF Rest, ToSet
  <2>3. QED
    BY <1>1, <2>1, <2>2, JoinScore DEF RestUnscored
<1>5. QED
  BY <1>3, <1>4 DEF RestUnscored

LEMMA TopKept ==
    ASSUME NEW ls, NEW a, NEW S, ListsOK(ls, a, S), TopScored(ls),
           NEW source \in Source, source # "dense", source \notin S, NEW w \in Nat,
           NEW us, Admitted(us, a), NEW ms, ms = Joins(ls, source, w, us)
    PROVE  TopScored(ms)
<1> DEFINE d == UnitsIn(ls, "dense")
<1>1. ls \in Seq(ListT) /\ UnitsIn(ms, "dense") = d /\ d \in Seq(Unit)
  <2>1. UnitsIn(ms, "dense") = d
    BY JoinUnits
  <2>2. d \in Seq(Unit)
    BY UnitsInType
  <2>3. QED
    BY <2>1, <2>2 DEF ListsOK
<1>2. ASSUME d # <<>> PROVE Score(ms, d[1]) >= 10 * Unity
  <2>1. d[1] \in Unit
    BY <1>1, <1>2
  <2>2. /\ Score(ls, d[1]) >= 10 * Unity
        /\ Score(ls, d[1]) <= Score(ms, d[1])
        /\ Score(ls, d[1]) \in Nat /\ Score(ms, d[1]) \in Nat
    BY <1>1, <1>2, <2>1, JoinScore DEF TopScored
  <2> HIDE DEF d
  <2>3. QED
    BY <2>2 DEF Unity
<1>3. QED
  BY <1>1, <1>2 DEF TopScored

LEMMA JoinCompressed ==
    ASSUME NEW ls, NEW a, NEW S, ListsOK(ls, a, S), "dense-compressed" \notin S,
           RestUnscored(ls), NEW us, Admitted(us, a),
           NEW ms, ms = Joins(ls, "dense-compressed", 7, us)
    PROVE  RestUnscored(ms)
<1>1. ls \in Seq(ListT) /\ {"dense", "dense-compressed"} \subseteq Source
  BY DEF ListsOK, Source
<1>2. /\ UnitsIn(ms, "dense-compressed") = us /\ UnitsIn(ls, "dense-compressed") = <<>>
      /\ UnitsIn(ms, "dense") = UnitsIn(ls, "dense")
  BY <1>1, JoinUnits, UnitsInType
<1>3. ASSUME NEW u \in Rest(ms) PROVE Score(ms, u) = 0
  <2>1. u \in Unit /\ u \notin ToSet(us)
    BY <1>2 DEF Rest
  <2>2. u \in Rest(ls)
    BY <1>2, <2>1 DEF Rest, ToSet
  <2>3. QED
    BY <1>1, <2>1, <2>2, JoinScore DEF RestUnscored
<1>4. QED
  BY <1>3 DEF RestUnscored

\* A list that is not dense gives the rest at most its weight.
LEMMA JoinBelow ==
    ASSUME NEW ls, NEW a, NEW S, ListsOK(ls, a, S), NEW n \in Nat, RestBelow(ls, n),
           NEW source \in Source, source \notin {"dense", "dense-compressed"}, source \notin S,
           NEW w \in Nat, NEW us, Admitted(us, a), NEW ms, ms = Joins(ls, source, w, us)
    PROVE  RestBelow(ms, n + w)
<1>1. ls \in Seq(ListT) /\ {"dense", "dense-compressed"} \subseteq Source
  BY DEF ListsOK, Source
<1>2. Rest(ms) = Rest(ls)
  BY JoinUnits DEF Rest
<1>3. ASSUME NEW u \in Rest(ms) PROVE Score(ms, u) <= (n + w) * Unity
  <2>1. u \in Unit
    BY DEF Rest
  <2>2. /\ Score(ls, u) \in Nat /\ Score(ms, u) \in Nat
        /\ Score(ms, u) <= Score(ls, u) + w * Unity
    BY <1>1, <2>1, JoinScore
  <2>3. Score(ls, u) <= n * Unity
    BY <1>2, <1>3 DEF RestBelow
  <2>4. QED
    BY <2>2, <2>3 DEF Unity
<1>4. QED
  BY <1>3 DEF RestBelow

-----------------------------------------------------------------------------
(* The lists that searches join.                                           *)

LEMMA InSeq ==
    ASSUME NEW X, NEW s \in Seq(X), NEW Y, ToSet(s) \subseteq Y
    PROVE  s \in Seq(Y)
<1>1. \A i \in 1 .. Len(s) : s[i] \in Y
  BY DEF ToSet
<1>2. PICK N \in Nat : N = Len(s)
  OBVIOUS
<1>3. s \in [1 .. N -> Y]
  BY <1>1, <1>2
<1>4. QED
  BY <1>3

LEMMA DenseAdmitted ==
    ASSUME VectorsKnown, NEW near \in [Hash -> Nat], NEW a
    PROVE  Admitted(Take(RankCandidates(near, a), Candidates), a)
<1> DEFINE W == Wanted(a, Len(Corpus))
           s == RankCandidates(near, a)
<1>1. s \in SetToSeqs(W)
  BY CandidatesAre
<1>2. W \subseteq Unit /\ \A u \in W : Matches(a, u)
  BY UnitsAre DEF Wanted
<1>3. IsFiniteSet(W)
  BY <1>2, UnitsAre, FS_Subset
<1> HIDE DEF W, s
<1>4. s \in Seq(W) /\ IsInjective(s) /\ ToSet(s) = W
  BY <1>1, <1>3, SeqsAre
<1>5. Candidates \in Nat
  BY SearchAssumption
<1> DEFINE t == Take(s, Candidates)
<1>6. t \in Seq(W) /\ IsInjective(t) /\ ToSet(t) \subseteq W
  BY <1>4, <1>5, TakeIs, TakeKeeps, Zenon
<1> HIDE DEF t
<1>7. t \in Seq(Unit)
  BY <1>2, <1>6, InSeq
<1>8. Admitted(t, a)
  BY <1>2, <1>6, <1>7 DEF Admitted
<1>9. QED
  BY <1>8 DEF t, s

LEMMA LexicalAdmitted ==
    ASSUME NEW n \in Nat, NEW hits \in [1 .. n -> Unit \cup {Missing}], NEW a,
           \A i, j \in 1 .. n : hits[i] = hits[j] => i = j \/ hits[i] = Missing
    PROVE  Admitted(LexicalList(hits, a), a)
<1> DEFINE X == Unit \cup {Missing}
           M == {u \in Unit : Matches(a, u)}
           t == Take(hits, 2 * Candidates)
           f == Filtered(t, M)
<1>1. hits \in Seq(X) /\ Len(hits) = n /\ DOMAIN hits = 1 .. n
  OBVIOUS
<1>2. Candidates \in Nat /\ 2 * Candidates \in Nat
  BY SearchAssumption
<1>3. M \subseteq Unit /\ Missing \notin M /\ \A u \in M : Matches(a, u)
  BY UnitsAre
<1> HIDE DEF X, M
<1>4. /\ t \in Seq(X) /\ Len(t) <= Len(hits)
      /\ \A i \in 1 .. Len(t) : t[i] = hits[i]
  BY <1>1, <1>2, TakeIs
<1> HIDE DEF t
<1>5. DOMAIN t \subseteq 1 .. n /\ DOMAIN t = 1 .. Len(t)
  BY <1>1, <1>4
<1>6. OnceIn(t, M)
  BY <1>3, <1>4, <1>5 DEF OnceIn
<1>7. f \in Seq(X) /\ ToSet(f) \subseteq M /\ IsInjective(f)
  BY <1>4, <1>6, FilteredIs
<1> HIDE DEF f
<1>8. f \in Seq(Unit)
  BY <1>3, <1>7, InSeq
<1> DEFINE g == Take(f, Candidates)
<1>9. g \in Seq(Unit) /\ IsInjective(g) /\ ToSet(g) \subseteq ToSet(f)
  BY <1>2, <1>7, <1>8, TakeIs, TakeKeeps, Zenon
<1> HIDE DEF g
<1>10. Admitted(g, a)
  BY <1>3, <1>7, <1>9 DEF Admitted
<1>11. LexicalList(hits, a) = g
  BY DEF LexicalList, g, f, t, M
<1>12. QED
  BY <1>10, <1>11

LEMMA LexicalWeight ==
    ASSUME NEW d, NEW found, NEW words
    PROVE  /\ AdaptiveLexicalWeight(d, found, words) \in {10, 4}
           /\ /\ ~(words < 6) /\ d # <<>> /\ found # <<>>
              /\ d[1] \notin ToSet(Take(found, AgreementDepth))
              => AdaptiveLexicalWeight(d, found, words) = 4
  BY DEF AdaptiveLexicalWeight

\* The lexical list leaves an unconfirmed top hit its lead.
LEMMA JoinLexical ==
    ASSUME NEW ls, NEW a, a.words \in Nat, NEW S, ListsOK(ls, a, S), "lexical" \notin S,
           RestUnscored(ls), NEW us, Admitted(us, a),
           NEW ms,
           ms = Joins(ls, "lexical",
                      AdaptiveLexicalWeight(UnitsIn(ls, "dense"), us, a.words), us)
    PROVE  Unconfirmed(ms, a) => RestBelow(ms, 4)
<1> DEFINE d == UnitsIn(ls, "dense")
           w == AdaptiveLexicalWeight(d, us, a.words)
<1>1. w \in Nat /\ "lexical" \in Source
  BY LexicalWeight DEF Source
<1>2. ms = Joins(ls, "lexical", w, us)
  OBVIOUS
<1> HIDE DEF w
<1>3. UnitsIn(ms, "dense") = d /\ UnitsIn(ms, "lexical") = us
  BY <1>1, <1>2, JoinUnits
<1>4. RestBelow(ls, 0)
  <2>1. \A u \in Rest(ls) : Score(ls, u) <= 0 * Unity
    BY DEF RestUnscored, Unity
  <2>2. QED
    BY <2>1 DEF RestBelow
<1>5. RestBelow(ms, 0 + w)
  BY <1>1, <1>2, <1>4, JoinBelow
<1>6. CASE us = <<>>
  <2>1. ms = ls
    BY <1>2, <1>6 DEF Joins
  <2>2. \A u \in Rest(ms) : Score(ms, u) <= 4 * Unity
    BY <2>1 DEF RestUnscored, Unity
  <2>3. QED
    BY <2>2 DEF RestBelow
<1>7. CASE us # <<>>
  <2>1. ASSUME Unconfirmed(ms, a) PROVE w = 4
    <3>1. /\ ~(a.words < 6) /\ d # <<>>
          /\ d[1] \notin ToSet(Take(us, AgreementDepth))
      BY <1>3, <2>1 DEF Unconfirmed
    <3>2. QED
      BY <1>7, <3>1, LexicalWeight DEF w
  <2>2. QED
    BY <1>5, <2>1
<1>8. QED
  BY <1>6, <1>7

-----------------------------------------------------------------------------
(* What the ranking keeps.                                                 *)

LEMMA PositionIs ==
    ASSUME NEW s, NEW u, \E i \in DOMAIN s : s[i] = u
    PROVE  Position(s, u) \in DOMAIN s /\ s[Position(s, u)] = u
  BY DEF Position

LEMMA RankedIsShown ==
    ASSUME NEW r, NEW ls, Fused(r, ls), NEW u \in Ranked(ls)
    PROVE  Position(r, u) \in 1 .. Len(r) /\ r[Position(r, u)] = u
<1>1. DOMAIN r = 1 .. Len(r) /\ \E i \in DOMAIN r : r[i] = u
  BY DEF Fused, ToSet
<1>2. QED
  BY <1>1, PositionIs

\* s is a part of r, in its order.
KeepsOrder(s, r) ==
    /\ ToSet(s) \subseteq ToSet(r)
    /\ \A i, j \in DOMAIN s : i < j => Position(r, s[i]) < Position(r, s[j])

\* The first of a ranking stay in their order when their scores do not change.
LEMMA SeedsHold ==
    ASSUME NEW ls \in Seq(ListT), NEW ms \in Seq(ListT), Ranked(ls) \subseteq Ranked(ms),
           NEW r, Fused(r, ls), NEW q, Fused(q, ms), NEW n \in Nat, NEW s, s = Take(r, n),
           \A u \in ToSet(s) : Score(ms, u) = Score(ls, u)
    PROVE  KeepsOrder(s, q)
<1>1. r \in Seq(Unit) /\ ToSet(r) = Ranked(ls) /\ ToSet(q) = Ranked(ms)
  BY DEF Fused
<1>2. /\ s \in Seq(Unit) /\ Len(s) <= Len(r) /\ Len(s) \in Nat
      /\ \A i \in 1 .. Len(s) : s[i] = r[i]
      /\ ToSet(s) \subseteq ToSet(r)
  <2>1. s \in Seq(Unit) /\ Len(s) <= Len(r) /\ \A i \in 1 .. Len(s) : s[i] = r[i]
    BY <1>1, TakeIs
  <2>2. ToSet(s) \subseteq ToSet(r)
    BY <1>1, TakeKeeps
  <2>3. QED
    BY <2>1, <2>2
<1>3. ASSUME NEW i \in DOMAIN s, NEW j \in DOMAIN s, i < j
      PROVE  Position(q, s[i]) < Position(q, s[j])
  <2>1. /\ i \in 1 .. Len(r) /\ j \in 1 .. Len(r) /\ s[i] = r[i] /\ s[j] = r[j]
        /\ i \in Nat /\ j \in Nat
    BY <1>1, <1>2
  <2>2. s[i] \in ToSet(s) /\ s[j] \in ToSet(s) /\ s[i] \in Unit /\ s[j] \in Unit
    BY <1>2 DEF ToSet
  <2>3. Outranks(ls, s[i], s[j])
    BY <1>3, <2>1 DEF Fused
  <2>4. PICK x \in Unit, y \in Unit : x = s[i] /\ y = s[j]
    BY <2>2
  <2>5. /\ Score(ms, x) \in Nat /\ Score(ms, y) \in Nat /\ x \in Nat /\ y \in Nat
        /\ Score(ls, x) = Score(ms, x) /\ Score(ls, y) = Score(ms, y)
    BY <2>2, <2>4, ScoreType, UnitsAre
  <2>6. Outranks(ms, x, y) /\ ~Outranks(ms, y, x) /\ x # y
    BY <2>3, <2>4, <2>5 DEF Outranks
  <2>7. x \in Ranked(ms) /\ y \in Ranked(ms)
    BY <1>1, <1>2, <2>2, <2>4
  <2>8. PICK k \in 1 .. Len(q) : k = Position(q, x) /\ q[k] = x
    BY <2>7, RankedIsShown
  <2>9. PICK m \in 1 .. Len(q) : m = Position(q, y) /\ q[m] = y
    BY <2>7, RankedIsShown
  <2>10. m < k => Outranks(ms, y, x)
    BY <2>8, <2>9 DEF Fused
  <2>11. k \in Nat /\ m \in Nat /\ k # m /\ ~(m < k)
    BY <2>6, <2>8, <2>9, <2>10 DEF Fused
  <2>12. k < m
    BY <2>11
  <2>13. QED
    BY <2>4, <2>8, <2>9, <2>12
<1>4. QED
  BY <1>1, <1>2, <1>3 DEF KeepsOrder

\* What is before the best dense hit in r is in some dense list.
LeadKept(r, ls) ==
    \A i \in 1 .. (Position(r, UnitsIn(ls, "dense")[1]) - 1) :
        r[i] \in ToSet(UnitsIn(ls, "dense")) \cup ToSet(UnitsIn(ls, "dense-compressed"))

LEMMA LeadHolds ==
    ASSUME NEW ls, NEW a, NEW S, ListsOK(ls, a, S), NEW r, Fused(r, ls), TopScored(ls),
           UnitsIn(ls, "dense") # <<>>, RestBelow(ls, 9)
    PROVE  LeadKept(r, ls)
<1> DEFINE d == UnitsIn(ls, "dense")
<1>1. ls \in Seq(ListT) /\ r \in Seq(Unit)
  BY DEF ListsOK, Fused
<1>2. d \in Seq(Unit) /\ ToSet(d) \subseteq Ranked(ls)
  BY UnitsInType
<1>3. PICK t \in Unit : t = d[1] /\ t \in Ranked(ls)
  BY <1>2 DEF ToSet
<1>4. PICK p \in 1 .. Len(r) : p = Position(r, t) /\ r[p] = t
  BY <1>3, RankedIsShown
<1>5. Score(ls, t) \in Nat /\ Score(ls, t) >= 10 * Unity
  BY <1>1, <1>3, ScoreType DEF TopScored
<1>6. ASSUME NEW i \in 1 .. (p - 1)
      PROVE  r[i] \in ToSet(UnitsIn(ls, "dense")) \cup ToSet(UnitsIn(ls, "dense-compressed"))
  <2>1. i \in 1 .. Len(r) /\ i < p
    BY <1>1, <1>4
  <2>2. Outranks(ls, r[i], r[p])
    BY <1>4, <2>1 DEF Fused
  <2>3. PICK u \in Unit : u = r[i]
    BY <1>1, <2>1
  <2>4. Score(ls, u) \in Nat /\ Score(ls, u) >= Score(ls, t)
    BY <1>1, <1>4, <1>5, <2>2, <2>3, ScoreType DEF Outranks
  <2>5. u \notin Rest(ls)
    <3>1. ASSUME u \in Rest(ls) PROVE FALSE
      <4>1. Score(ls, u) <= 9 * Unity
        BY <3>1 DEF RestBelow
      <4>2. QED
        BY <1>5, <2>4, <4>1 DEF Unity
    <3>2. QED
      BY <3>1
  <2>6. QED
    BY <2>3, <2>5 DEF Rest
<1>7. QED
  BY <1>3, <1>4, <1>6 DEF LeadKept

\* The filter admits what the lists hold.
LEMMA ShownAdmitted ==
    ASSUME NEW ls, NEW a, NEW S, ListsOK(ls, a, S), NEW r, Fused(r, ls)
    PROVE  IsInjective(r) /\ \A i \in DOMAIN r : Matches(a, r[i])
<1>1. \A u \in Ranked(ls) : Matches(a, u)
  BY DEF Ranked, ListsOK, Admitted
<1>2. \A i \in DOMAIN r : r[i] \in Ranked(ls)
  BY DEF Fused, ToSet
<1>3. QED
  BY <1>1, <1>2 DEF Fused

-----------------------------------------------------------------------------
(* The graph.                                                              *)

\* The earliest place of a set of them.
LEMMA EarliestOf ==
    ASSUME NEW E \in SUBSET (Nat \X Nat), E # {}
    PROVE  \E e \in E : \A f \in E : e = f \/ Earlier(e, f)
<1> DEFINE A == {e[1] : e \in E}
<1>1. A \in SUBSET Nat /\ A # {}
  OBVIOUS
<1>2. PICK a \in A : \A n \in A : a <= n
  <2> HIDE DEF A
  <2>1. QED
    BY <1>1, LeastOf
<1> DEFINE B == {e[2] : e \in {f \in E : f[1] = a}}
<1>3. B \in SUBSET Nat /\ B # {}
  BY <1>2
<1>4. PICK b \in B : \A n \in B : b <= n
  <2> HIDE DEF B
  <2>1. QED
    BY <1>3, LeastOf
<1>5. PICK e \in E : e[1] = a /\ e[2] = b
  BY <1>4
<1>6. ASSUME NEW f \in E PROVE e = f \/ Earlier(e, f)
  <2>1. /\ f = <<f[1], f[2]>> /\ e = <<e[1], e[2]>>
        /\ f[1] \in Nat /\ f[2] \in Nat /\ a \in Nat /\ b \in Nat
    BY <1>1, <1>2, <1>3, <1>4
  <2>2. f[1] \in A /\ (f[1] = a => f[2] \in B)
    OBVIOUS
  <2>3. a <= f[1] /\ (f[1] = a => b <= f[2])
    BY <1>2, <1>4, <2>2
  <2>4. a < f[1] \/ (f[1] = a /\ b < f[2]) \/ (f[1] = a /\ f[2] = b)
    BY <2>1, <2>3
  <2>5. QED
    BY <1>5, <2>1, <2>4 DEF Earlier
<1>7. QED
  BY <1>6

\* There are as many links as the type says.
LinksAre == links \in Seq(ToSet(links))

LEMMA EdgesAre ==
    ASSUME LinksAre, NEW from \in Seq(Unit)
    PROVE  /\ \A u : Edges(from, u) \in SUBSET (Nat \X Nat) /\ IsFiniteSet(Edges(from, u))
           /\ \A u \in Reachable(from) : Edges(from, u) # {}
           /\ \A u, v : \A e \in Edges(from, u) : e \in Edges(from, v) => u = v
<1> DEFINE D == DOMAIN from
           L == DOMAIN links
<1>1. /\ D = 1 .. Len(from) /\ Len(from) \in Nat
      /\ L = 1 .. Len(links) /\ Len(links) \in Nat
  BY DEF LinksAre
<1>2. D \subseteq Nat /\ L \subseteq Nat /\ IsFiniteSet(D) /\ IsFiniteSet(L)
  <2>1. 0 \in Int /\ 1 \in Int /\ Len(from) \in Int /\ Len(links) \in Int
    BY <1>1
  <2>2. IsFiniteSet(1 .. Len(from)) /\ IsFiniteSet(1 .. Len(links))
    BY <2>1, FS_Interval
  <2>3. QED
    BY <1>1, <2>2
<1>3. \A u : Edges(from, u) \subseteq D \X L
  BY DEF Edges
<1>4. IsFiniteSet(D \X L) /\ D \X L \subseteq Nat \X Nat
  <2> HIDE DEF D, L
  <2>1. QED
    BY <1>2, FS_Product
<1>5. ASSUME NEW u PROVE Edges(from, u) \in SUBSET (Nat \X Nat) /\ IsFiniteSet(Edges(from, u))
  <2> HIDE DEF D, L
  <2>1. QED
    BY <1>3, <1>4, FS_Subset
<1>6. ASSUME NEW u \in Reachable(from) PROVE Edges(from, u) # {}
  <2>1. PICK i \in D, j \in L : Neighbor(from[i], links[j]) = u
    BY DEF Reachable
  <2>2. <<i, j>> \in Edges(from, u)
    BY <2>1 DEF Edges
  <2>3. QED
    BY <2>2
<1>7. \A u, v : \A e \in Edges(from, u) : e \in Edges(from, v) => u = v
  BY DEF Edges
<1>8. QED
  BY <1>5, <1>6, <1>7

\* u comes before v, by edges and then by the earliest of them.
Sooner(from, u, v) ==
    \/ Cardinality(Edges(from, u)) > Cardinality(Edges(from, v))
    \/ /\ Cardinality(Edges(from, u)) = Cardinality(Edges(from, v))
       /\ \E e \in Edges(from, u) : \A f \in Edges(from, v) : Earlier(e, f)

ByEdges(from) == {p \in Unit \X Unit : Sooner(from, p[1], p[2])}

\* R orders S by three numbers, the first downwards, that tell its members apart.
Threefold(R, S, c, a, b) ==
    /\ c \in [S -> Nat] /\ a \in [S -> Nat] /\ b \in [S -> Nat]
    /\ \A u, v \in S : a[u] = a[v] /\ b[u] = b[v] => u = v
    /\ \A u, v \in S : <<u, v>> \in R <=>
           \/ c[u] > c[v]
           \/ c[u] = c[v] /\ (a[u] < a[v] \/ (a[u] = a[v] /\ b[u] < b[v]))

LEMMA ThreefoldStrict ==
    ASSUME NEW R, NEW S, NEW c, NEW a, NEW b, Threefold(R, S, c, a, b)
    PROVE  StrictOn(R, S)
<1>1. \A u \in S : c[u] \in Nat /\ a[u] \in Nat /\ b[u] \in Nat
  BY DEF Threefold
<1>2. \A u \in S : <<u, u>> \notin R
  BY <1>1 DEF Threefold
<1>3. \A u, v, w \in S : <<u, v>> \in R /\ <<v, w>> \in R => <<u, w>> \in R
  BY <1>1 DEF Threefold
<1>4. \A u, v \in S : u # v => <<u, v>> \in R \/ <<v, u>> \in R
  BY <1>1 DEF Threefold
<1>5. QED
  BY <1>2, <1>3, <1>4 DEF StrictOn

LEMMA EarlierTrans ==
    ASSUME NEW e \in Nat \X Nat, NEW f \in Nat \X Nat, NEW g \in Nat \X Nat,
           Earlier(e, f), Earlier(f, g)
    PROVE  Earlier(e, g)
<1>1. /\ e[1] \in Nat /\ e[2] \in Nat /\ f[1] \in Nat /\ f[2] \in Nat
      /\ g[1] \in Nat /\ g[2] \in Nat
  OBVIOUS
<1>2. QED
  BY <1>1 DEF Earlier

LEMMA EdgesStrict ==
    ASSUME LinksAre, NEW from \in Seq(Unit)
    PROVE  StrictOn(ByEdges(from), Reachable(from))
<1> DEFINE S == Reachable(from)
           E(u) == Edges(from, u)
           Soonest(u) == CHOOSE e \in E(u) : \A f \in E(u) : e = f \/ Earlier(e, f)
           c == [u \in S |-> Cardinality(E(u))]
           a == [u \in S |-> Soonest(u)[1]]
           b == [u \in S |-> Soonest(u)[2]]
           R == ByEdges(from)
<1>1. \A u \in S : E(u) \in SUBSET (Nat \X Nat) /\ E(u) # {} /\ Cardinality(E(u)) \in Nat
  <2>1. \A u \in S : E(u) \in SUBSET (Nat \X Nat) /\ E(u) # {} /\ IsFiniteSet(E(u))
    BY EdgesAre
  <2>2. QED
    BY <2>1, FS_CardinalityType
<1>2. S \subseteq Unit
  BY DEF Reachable
<1>3. \A u \in S : Soonest(u) \in E(u) /\ \A f \in E(u) : Soonest(u) = f \/ Earlier(Soonest(u), f)
  <2> HIDE DEF E, S
  <2>1. \A u \in S : \E e \in E(u) : \A f \in E(u) : e = f \/ Earlier(e, f)
    BY <1>1, EarliestOf, Zenon
  <2>2. QED
    BY <2>1
<1>4. \A u, v \in S : \A e \in E(u) : e \in E(v) => u = v
  BY EdgesAre
<1> HIDE DEF E, Soonest, S
<1>5. \A u \in S : Soonest(u) \in Nat \X Nat
  BY <1>1, <1>3
<1>6. c \in [S -> Nat] /\ a \in [S -> Nat] /\ b \in [S -> Nat]
  BY <1>1, <1>5
<1>7. ASSUME NEW u \in S, NEW v \in S, a[u] = a[v], b[u] = b[v] PROVE u = v
  <2>1. Soonest(u) = Soonest(v)
    BY <1>5, <1>7
  <2>2. QED
    BY <1>3, <1>4, <2>1
<1>8. ASSUME NEW u \in S, NEW v \in S
      PROVE  Earlier(Soonest(u), Soonest(v)) <=> \E e \in E(u) : \A f \in E(v) : Earlier(e, f)
  <2>1. ASSUME Earlier(Soonest(u), Soonest(v)), NEW f \in E(v) PROVE Earlier(Soonest(u), f)
    <3>1. Soonest(u) \in Nat \X Nat /\ Soonest(v) \in Nat \X Nat /\ f \in Nat \X Nat
      BY <1>1, <1>5
    <3>2. Soonest(v) = f \/ Earlier(Soonest(v), f)
      BY <1>3
    <3>3. QED
      BY <2>1, <3>1, <3>2, EarlierTrans
  <2>2. ASSUME NEW e \in E(u), \A f \in E(v) : Earlier(e, f) PROVE Earlier(Soonest(u), Soonest(v))
    <3>1. Soonest(u) \in Nat \X Nat /\ Soonest(v) \in Nat \X Nat /\ e \in Nat \X Nat
      BY <1>1, <1>5
    <3>2. Soonest(u) = e \/ Earlier(Soonest(u), e)
      BY <1>3
    <3>3. Earlier(e, Soonest(v))
      BY <1>3, <2>2
    <3>4. QED
      BY <3>1, <3>2, <3>3, EarlierTrans
  <2>3. QED
    BY <1>3, <2>1, <2>2
<1>9. ASSUME NEW u \in S, NEW v \in S
      PROVE  <<u, v>> \in R <=>
                 \/ c[u] > c[v]
                 \/ c[u] = c[v] /\ (a[u] < a[v] \/ (a[u] = a[v] /\ b[u] < b[v]))
  <2>1. <<u, v>> \in R <=> Sooner(from, u, v)
    BY <1>2 DEF ByEdges
  <2>2. Sooner(from, u, v) <=>
            \/ c[u] > c[v]
            \/ c[u] = c[v] /\ \E e \in E(u) : \A f \in E(v) : Earlier(e, f)
    BY DEF Sooner, E
  <2>3. Earlier(Soonest(u), Soonest(v)) <=> (a[u] < a[v] \/ (a[u] = a[v] /\ b[u] < b[v]))
    BY DEF Earlier
  <2> HIDE DEF a, b, c, R
  <2>4. QED
    BY <1>8, <2>1, <2>2, <2>3
<1> HIDE DEF a, b, c, R
<1>10. StrictOn(R, S)
  <2>1. \A u, v \in S : a[u] = a[v] /\ b[u] = b[v] => u = v
    BY <1>7
  <2>2. \A u, v \in S : <<u, v>> \in R <=>
            \/ c[u] > c[v]
            \/ c[u] = c[v] /\ (a[u] < a[v] \/ (a[u] = a[v] /\ b[u] < b[v]))
    BY <1>9, Zenon
  <2>3. Threefold(R, S, c, a, b)
    BY <1>6, <2>1, <2>2 DEF Threefold
  <2>4. QED
    BY <2>3, ThreefoldStrict
<1>11. QED
  BY <1>10 DEF R, S

\* The relations lead from the seeds to other units, and to all of them if
\* they are no more than a list holds.
LEMMA ExpandIs ==
    ASSUME LinksAre, NEW from \in Seq(Unit)
    PROVE  /\ ExpandByRelations(from) \in Seq(Unit) /\ IsInjective(ExpandByRelations(from))
           /\ ToSet(ExpandByRelations(from)) \subseteq Reachable(from)
           /\ Cardinality(Reachable(from)) <= Candidates =>
                  ToSet(ExpandByRelations(from)) = Reachable(from)
<1> DEFINE S == Reachable(from)
           R == ByEdges(from)
           Sorted(s) == \A i, j \in DOMAIN s : i < j =>
               \/ Cardinality(Edges(from, s[i])) > Cardinality(Edges(from, s[j]))
               \/ /\ Cardinality(Edges(from, s[i])) = Cardinality(Edges(from, s[j]))
                  /\ \E e \in Edges(from, s[i]) : \A f \in Edges(from, s[j]) : Earlier(e, f)
           o == CHOOSE s \in SetToSeqs(S) : Sorted(s)
<1>1. ExpandByRelations(from) = Take(o, Candidates)
  BY DEF ExpandByRelations, InOrder
<1>2. S \subseteq Unit
  BY DEF Reachable
<1>3. IsFiniteSet(S)
  BY <1>2, UnitsAre, FS_Subset
<1>4. StrictOn(R, S)
  BY EdgesStrict
<1> HIDE DEF S
<1>5. ASSUME NEW s \in SetToSeqs(S) PROVE Ascends(s, R) <=> Sorted(s)
  <2>1. \A i \in DOMAIN s : s[i] \in S
    BY <1>3, SeqsAre
  <2>2. \A i, j \in DOMAIN s : <<s[i], s[j]>> \in R <=> Sooner(from, s[i], s[j])
    BY <1>2, <2>1 DEF ByEdges
  <2> HIDE DEF R
  <2>3. Ascends(s, R) <=> \A i, j \in DOMAIN s : i < j => Sooner(from, s[i], s[j])
    BY <2>2, Zenon DEF Ascends
  <2>4. QED
    BY <2>3 DEF Sooner
<1> HIDE DEF R, Sorted
<1>6. \E s \in SetToSeqs(S) : Sorted(s)
  BY <1>3, <1>4, <1>5, OrderExists
<1>7. o \in SetToSeqs(S)
  BY <1>6
<1> HIDE DEF o
<1>8. /\ o \in Seq(S) /\ IsInjective(o) /\ ToSet(o) = S
      /\ Cardinality(S) \in Nat /\ Len(o) = Cardinality(S)
  BY <1>3, <1>7, SeqsAre
<1>9. Candidates \in Nat
  BY SearchAssumption
<1> DEFINE t == Take(o, Candidates)
<1>10. /\ t \in Seq(S) /\ IsInjective(t) /\ ToSet(t) \subseteq S
       /\ Len(o) <= Candidates => t = o
  BY <1>8, <1>9, TakeIs, TakeKeeps, Zenon
<1> HIDE DEF t
<1>11. t \in Seq(Unit)
  BY <1>2, <1>10, InSeq
<1>12. Cardinality(S) <= Candidates => ToSet(t) = S
  BY <1>8, <1>10
<1>13. QED
  BY <1>1, <1>10, <1>11, <1>12 DEF t, S

LEMMA GraphIs ==
    ASSUME LinksAre, NEW from \in Seq(Unit), NEW a
    PROVE  /\ Admitted(GraphList(from, a), a)
           /\ ToSet(GraphList(from, a)) \cap ToSet(from) = {}
           /\ \A p \in Reachable(from) :
                  Matches(a, p) /\ Cardinality(Reachable(from)) <= Candidates =>
                      p \in ToSet(GraphList(from, a))
<1> DEFINE x == ExpandByRelations(from)
           M == {u \in Unit : Matches(a, u)}
           g == Filtered(x, M)
<1>1. GraphList(from, a) = g
  BY DEF GraphList
<1>2. /\ x \in Seq(Unit) /\ IsInjective(x) /\ ToSet(x) \subseteq Reachable(from)
      /\ Cardinality(Reachable(from)) <= Candidates => ToSet(x) = Reachable(from)
  BY ExpandIs
<1>3. M \subseteq Unit /\ (\A u \in M : Matches(a, u)) /\ \A u \in Unit : Matches(a, u) => u \in M
  OBVIOUS
<1>4. Reachable(from) \subseteq Unit \ ToSet(from)
  BY DEF Reachable
<1> HIDE DEF x, M
<1>5. OnceIn(x, M)
  BY <1>2 DEF OnceIn, IsInjective
<1>6. g \in Seq(Unit) /\ ToSet(g) = ToSet(x) \cap M /\ IsInjective(g)
  BY <1>2, <1>5, FilteredIs
<1> HIDE DEF g
<1>7. Admitted(g, a)
  BY <1>3, <1>6 DEF Admitted
<1>8. ToSet(g) \cap ToSet(from) = {}
  BY <1>2, <1>4, <1>6
<1>9. QED
  BY <1>1, <1>2, <1>3, <1>4, <1>6, <1>7, <1>8

-----------------------------------------------------------------------------
(* A fragment and its parent.                                              *)

LEMMA ParentIs ==
    ASSUME NEW f, FragmentParent(f) # Missing
    PROVE  FragmentParent(f) \in FragmentParents(f) /\ FragmentParent(f) \in Unit
<1> DEFINE P == FragmentParents(f)
<1>1. P # {} /\ FragmentParent(f) = Min(P)
  BY DEF FragmentParent
<1>2. P \subseteq Unit
  BY DEF FragmentParents
<1>3. P \in SUBSET Nat
  BY <1>2, UnitsAre
<1> HIDE DEF P
<1>4. PICK m \in P : \A n \in P : m <= n
  BY <1>1, <1>3, LeastOf
<1>5. \E x \in P : \A y \in P : x <= y
  BY <1>4
<1>6. Min(P) \in P
  BY <1>5 DEF Min
<1>7. QED
  BY <1>1, <1>2, <1>6 DEF P

\* The relations end with the part-of relation of each fragment.
LinksWithParts == \E stored \in StoredLinks : links = stored \o PartOf

LEMMA FragmentsAre ==
    /\ Fragments \in Seq(Unit)
    /\ \A f \in Unit : FragmentParent(f) # Missing => \E k \in DOMAIN Fragments : Fragments[k] = f
<1> DEFINE s == [u \in Unit |-> u]
           M == {u \in Unit : FragmentParent(u) # Missing}
<1>1. Unit = 1 .. Len(Corpus) /\ Len(Corpus) \in Nat
  BY UnitsAre
<1>2. s \in Seq(Unit) /\ ToSet(s) = Unit
  <2>1. PICK N \in Nat : N = Len(Corpus)
    BY <1>1
  <2>2. s \in [1 .. N -> Unit]
    BY <1>1, <2>1
  <2>3. QED
    BY <2>2 DEF ToSet
<1>3. Fragments = Filtered(s, M)
  BY DEF Fragments
<1>4. M \subseteq Unit /\ \A f \in Unit : FragmentParent(f) # Missing => f \in M
  OBVIOUS
<1> HIDE DEF s, M
<1>5. Fragments \in Seq(Unit) /\ ToSet(Fragments) = M
  BY <1>2, <1>3, <1>4, FilteredIs
<1>6. QED
  BY <1>4, <1>5 DEF ToSet

LEMMA LinksType ==
    ASSUME LinksWithParts
    PROVE  /\ LinksAre
           /\ \A f \in Unit : FragmentParent(f) # Missing =>
                  \E j \in DOMAIN links :
                      links[j] = [from |-> Corpus[f].entity,
                                  to |-> Corpus[FragmentParent(f)].entity]
<1>1. PICK stored \in StoredLinks : links = stored \o PartOf
  BY Zenon DEF LinksWithParts
<1>2. stored \in Seq(ToSet(stored))
  BY SearchAssumption
<1> DEFINE X == ToSet(stored) \cup ToSet(PartOf)
<1>3. PICK N \in Nat : N = Len(Fragments) /\ DOMAIN Fragments = 1 .. N
  BY FragmentsAre
<1>4. DOMAIN PartOf = 1 .. N
  BY <1>3 DEF PartOf
<1>5. PartOf \in Seq(ToSet(PartOf))
  <2>1. PartOf \in [1 .. N -> ToSet(PartOf)]
    <3>1. PartOf = [i \in 1 .. N |-> PartOf[i]]
      BY <1>3 DEF PartOf
    <3>2. \A i \in 1 .. N : PartOf[i] \in ToSet(PartOf)
      BY <1>4 DEF ToSet
    <3>3. QED
      BY <3>1, <3>2
  <2>2. QED
    BY <2>1
<1>6. stored \in Seq(X) /\ PartOf \in Seq(X)
  BY <1>2, <1>5, InSeq
<1>7. PICK M \in Nat : M = Len(stored)
  BY <1>2
<1>8. Len(PartOf) = N
  BY <1>4, <1>5
<1>9. /\ links \in Seq(X) /\ Len(links) = M + N
      /\ \A k \in 1 .. N : links[M + k] = PartOf[k]
  <2> HIDE DEF X
  <2>1. links \in Seq(X) /\ Len(links) = M + N
    BY <1>1, <1>6, <1>7, <1>8, ConcatProperties, Zenon
  <2>2. ASSUME NEW k \in 1 .. N PROVE links[M + k] = PartOf[k]
    <3>1. /\ M + k \in 1 .. Len(stored) + Len(PartOf)
          /\ ~(M + k <= Len(stored)) /\ (M + k) - Len(stored) = k
      BY <1>7, <1>8
    <3>2. QED
      BY <1>1, <1>6, <3>1, ConcatProperties
  <2>3. QED
    BY <2>1, <2>2
<1>10. LinksAre
  <2>1. ToSet(links) \subseteq ToSet(links)
    OBVIOUS
  <2> HIDE DEF X
  <2>2. QED
    BY <1>9, <2>1, InSeq DEF LinksAre
<1>11. ASSUME NEW f \in Unit, FragmentParent(f) # Missing
       PROVE  \E j \in DOMAIN links :
                  links[j] = [from |-> Corpus[f].entity,
                              to |-> Corpus[FragmentParent(f)].entity]
  <2>1. PICK k \in 1 .. N : Fragments[k] = f
    BY <1>3, <1>11, FragmentsAre
  <2>2. PartOf[k] = [from |-> Corpus[f].entity, to |-> Corpus[FragmentParent(f)].entity]
    BY <1>3, <2>1 DEF PartOf
  <2>3. M + k \in DOMAIN links /\ links[M + k] = PartOf[k]
    <3> HIDE DEF X
    <3>1. DOMAIN links = 1 .. M + N
      BY <1>9
    <3>2. QED
      BY <1>9, <3>1
  <2>4. QED
    BY <2>2, <2>3
<1>12. QED
  BY <1>10, <1>11

\* A seed's parent is a seed, or the seeds lead to it.
LEMMA ParentsReached ==
    ASSUME LinksWithParts, NEW from \in Seq(Unit), NEW i \in DOMAIN from,
           NEW p, p = FragmentParent(from[i]), p # Missing, UnitOf(Corpus[p].entity) = p,
           p \notin ToSet(from)
    PROVE  p \in Reachable(from)
<1>1. from[i] \in Unit
  OBVIOUS
<1>2. p \in Unit
  BY ParentIs
<1>3. PICK j \in DOMAIN links :
          links[j] = [from |-> Corpus[from[i]].entity, to |-> Corpus[p].entity]
  BY <1>1, LinksType
<1>4. Neighbor(from[i], links[j]) = p
  BY <1>3 DEF Neighbor
<1>5. QED
  BY <1>2, <1>4 DEF Reachable

-----------------------------------------------------------------------------
(* The steps of a search.                                                  *)

SourcesBy(s) ==
    CASE s \in {"load", "resolve", "dense"} -> {}
      [] s = "compressed" -> {"dense"}
      [] s = "lexical" -> {"dense", "dense-compressed"}
      [] s \in {"fuse", "expand"} -> {"dense", "dense-compressed", "lexical"}
      [] OTHER -> Source

SearchType ==
    /\ stage \in {"load", "resolve", "dense", "compressed", "lexical",
                  "fuse", "expand", "shaped", "failed"}
    /\ ask \in Asks /\ nearness \in [Hash -> Nat]

\* The snapshot is as it was stored.
LoadedRight == stage \notin {"load", "failed"} => VectorsKnown /\ LinksWithParts

\* The lists are those of the sources so far, and what they score is known.
ListsRight ==
    stage # "failed" =>
        /\ ListsOK(lists, ask, SourcesBy(stage)) /\ TopScored(lists)
        /\ stage \in {"load", "resolve", "dense", "compressed", "lexical"} => RestUnscored(lists)
        /\ stage \in {"fuse", "expand"} => (Unconfirmed(lists, ask) => RestBelow(lists, 4))
        /\ stage = "shaped" => (Unconfirmed(lists, ask) => RestBelow(lists, 9))

\* The ranking is what the lists fuse into; the seeds are its first.
RankedRight ==
    /\ stage \in {"expand", "shaped"} => Fused(fused, lists)
    /\ stage = "expand" => seeds = Take(fused, SeedCount)
    /\ stage = "shaped" => SeedsKeepOrder /\ FragmentsBringParents

SearchInv == SearchType /\ LoadedRight /\ ListsRight /\ RankedRight

LEMMA SearchStarts == SearchInit => SearchInv
<1> SUFFICES ASSUME SearchInit PROVE SearchInv
  OBVIOUS
<1>1. stage = "load" /\ lists = <<>> /\ ask \in Asks /\ nearness = [h \in Hash |-> 0]
  BY DEF SearchInit
<1>2. SearchType
  BY <1>1 DEF SearchType
<1>3. ListsOK(<<>>, ask, SourcesBy("load"))
  <2>1. <<>> \in Seq(ListT) /\ DOMAIN <<>> = {}
    OBVIOUS
  <2>2. QED
    BY <2>1 DEF ListsOK
<1>4. UnitsIn(<<>>, "dense") = <<>>
  BY DEF UnitsIn
<1>5. \A u \in Rest(<<>>) : Score(<<>>, u) = 0
  BY ScoreEmpty DEF Rest
<1>6. ListsRight
  BY <1>1, <1>3, <1>4, <1>5 DEF ListsRight, TopScored, RestUnscored
<1>7. LoadedRight /\ RankedRight
  BY <1>1 DEF LoadedRight, RankedRight
<1>8. QED
  BY <1>2, <1>6, <1>7 DEF SearchInv

LEMMA SearchLoads == SearchInv /\ LoadsSnapshot => SearchInv'
<1> SUFFICES ASSUME SearchInv, LoadsSnapshot PROVE SearchInv'
  OBVIOUS
<1>1. /\ stage = "load" /\ UNCHANGED <<ask, nearness, lists, fused, seeds>>
      /\ \/ stage' = "failed"
         \/ /\ stage' = "resolve"
            /\ \E vectors \in StoredVectors : store' = StoreOf(vectors)
            /\ \E stored \in StoredLinks : links' = stored \o PartOf
  BY DEF LoadsSnapshot
<1>2. SearchType'
  BY <1>1 DEF SearchInv, SearchType
<1>3. CASE stage' = "failed"
  BY <1>2, <1>3 DEF SearchInv, LoadedRight, ListsRight, RankedRight
<1>4. CASE stage' = "resolve"
  <2>1. /\ \E vectors \in StoredVectors : store' = StoreOf(vectors)
        /\ \E stored \in StoredLinks : links' = stored \o PartOf
    BY <1>1, <1>4
  <2>2. VectorsKnown'
    <3>1. StoreUpTo(store, Len(Corpus))'
      BY <2>1, StoreOfIs
    <3>2. QED
      BY <3>1, StoreKnowsVectors, PTL
  <2>3. LinksWithParts'
    BY <2>1, Zenon DEF LinksWithParts
  <2>4. ListsRight'
    BY <1>1, <1>4 DEF SearchInv, ListsRight, SourcesBy
  <2>5. RankedRight'
    BY <1>4 DEF RankedRight
  <2>6. QED
    BY <1>2, <2>2, <2>3, <2>4, <2>5 DEF SearchInv, LoadedRight
<1>5. QED
  BY <1>1, <1>3, <1>4

LEMMA ListsGrow ==
    ASSUME NEW ls, NEW a, NEW S, NEW T, S \subseteq T, ListsOK(ls, a, S)
    PROVE  ListsOK(ls, a, T)
  BY DEF ListsOK

\* Where each source's list comes in.
LEMMA SourcesAre ==
    /\ SourcesBy("load") = {} /\ SourcesBy("resolve") = {} /\ SourcesBy("dense") = {}
    /\ SourcesBy("compressed") = {"dense"}
    /\ SourcesBy("lexical") = {"dense", "dense-compressed"}
    /\ SourcesBy("fuse") = {"dense", "dense-compressed", "lexical"}
    /\ SourcesBy("expand") = SourcesBy("fuse")
    /\ SourcesBy("shaped") = {"dense", "dense-compressed", "lexical", "graph"}
  BY DEF SourcesBy, Source

LEMMA UnitsAreIn ==
    /\ \A s : Units(s) = UnitsIn(lists, s)
    /\ \A s, w, us : Joined(s, w, us) = Joins(lists, s, w, us)
  BY DEF Units, ListsOf, UnitsIn, Joined, Joins

LEMMA SearchResolves == SearchInv /\ ResolvesTask => SearchInv'
<1> SUFFICES ASSUME SearchInv, ResolvesTask PROVE SearchInv'
  OBVIOUS
<1>1. /\ stage = "resolve" /\ stage' \in {"dense", "failed"}
      /\ UNCHANGED <<ask, store, links, nearness, lists, fused, seeds>>
  BY DEF ResolvesTask
<1>2. SearchType'
  BY <1>1 DEF SearchInv, SearchType
<1>3. LoadedRight'
  <2>1. VectorsKnown /\ LinksWithParts
    BY <1>1 DEF SearchInv, LoadedRight
  <2>2. VectorsKnown' /\ LinksWithParts'
    BY <1>1, <2>1, Zenon DEF VectorsKnown, LinksWithParts, Embedded, VectorOf
  <2>3. QED
    BY <2>2 DEF LoadedRight
<1>4. ListsRight'
  BY <1>1 DEF SearchInv, ListsRight, SourcesBy
<1>5. RankedRight'
  BY <1>1 DEF RankedRight
<1>6. QED
  BY <1>2, <1>3, <1>4, <1>5 DEF SearchInv

\* A loaded snapshot stays.
LEMMA LoadedKept ==
    ASSUME LoadedRight, stage \notin {"load", "failed"}, UNCHANGED <<store, links>>
    PROVE  LoadedRight'
<1>1. VectorsKnown /\ LinksWithParts
  BY DEF LoadedRight
<1>2. VectorsKnown' /\ LinksWithParts'
  BY <1>1, Zenon DEF VectorsKnown, LinksWithParts, Embedded, VectorOf
<1>3. QED
  BY <1>2 DEF LoadedRight

LEMMA SearchRanksDense == SearchInv /\ RanksDense => SearchInv'
<1> SUFFICES ASSUME SearchInv, RanksDense PROVE SearchInv'
  OBVIOUS
<1>1. /\ stage = "dense" /\ stage' \in {"compressed", "failed"}
      /\ UNCHANGED <<ask, store, links, fused, seeds>>
  BY DEF RanksDense
<1>2. LoadedRight'
  BY <1>1, LoadedKept DEF SearchInv
<1>3. RankedRight'
  BY <1>1 DEF RankedRight
<1>4. ListsOK(lists, ask, {}) /\ RestUnscored(lists)
  BY <1>1, SourcesAre DEF SearchInv, ListsRight
<1>5. \E us : /\ Admitted(us, ask) /\ nearness' \in [Hash -> Nat]
              /\ lists' = Joins(lists, "dense", 10, us)
  <2>1. CASE DenseWanted /\ QueryRenders(ask)
    <3>1. PICK near \in Scores :
              /\ nearness' = near
              /\ lists' = Joined("dense", 10, Take(RankCandidates(near, ask), Candidates))
      BY <2>1 DEF RanksDense
    <3>2. near \in [Hash -> Nat]
      BY SearchAssumption
    <3>3. VectorsKnown
      BY <1>1 DEF SearchInv, LoadedRight
    <3>4. Admitted(Take(RankCandidates(near, ask), Candidates), ask)
      BY <3>2, <3>3, DenseAdmitted
    <3>5. QED
      BY <3>1, <3>2, <3>4, UnitsAreIn
  <2>2. CASE ~(DenseWanted /\ QueryRenders(ask))
    <3>1. lists' = lists /\ nearness' = nearness
      BY <2>2 DEF RanksDense
    <3>2. Admitted(<<>>, ask) /\ lists' = Joins(lists, "dense", 10, <<>>)
      BY <3>1 DEF Admitted, Joins, IsInjective, ToSet
    <3>3. QED
      BY <3>1, <3>2 DEF SearchInv, SearchType
  <2>3. QED
    BY <2>1, <2>2
<1>6. PICK us : /\ Admitted(us, ask) /\ nearness' \in [Hash -> Nat]
                /\ lists' = Joins(lists, "dense", 10, us)
  BY <1>5
<1>7. SearchType'
  BY <1>1, <1>6 DEF SearchInv, SearchType
<1>8. "dense" \in Source /\ {} \cup {"dense"} = {"dense"}
  BY DEF Source
<1>9. ListsOK(lists', ask, {"dense"})
  BY <1>4, <1>6, <1>8, JoinOK
<1>10. TopScored(lists') /\ RestUnscored(lists')
  BY <1>4, <1>6, JoinDense
<1>11. ListsRight'
  BY <1>1, <1>9, <1>10, SourcesAre DEF ListsRight
<1>12. QED
  BY <1>2, <1>3, <1>7, <1>11 DEF SearchInv

LEMMA SearchRanksCompressed == SearchInv /\ RanksCompressed => SearchInv'
<1> SUFFICES ASSUME SearchInv, RanksCompressed PROVE SearchInv'
  OBVIOUS
<1>1. /\ stage = "compressed" /\ stage' = "lexical"
      /\ UNCHANGED <<ask, store, links, fused, seeds>>
  BY DEF RanksCompressed
<1>2. LoadedRight'
  BY <1>1, LoadedKept DEF SearchInv
<1>3. RankedRight'
  BY <1>1 DEF RankedRight
<1>4. ListsOK(lists, ask, {"dense"}) /\ RestUnscored(lists) /\ TopScored(lists)
  BY <1>1, SourcesAre DEF SearchInv, ListsRight
<1>5. \E us : /\ Admitted(us, ask) /\ nearness' \in [Hash -> Nat]
              /\ lists' = Joins(lists, "dense-compressed", 7, us)
  <2>1. CASE DenseWanted /\ Compressible(ask)
    <3>1. PICK near \in Scores :
              /\ nearness' = near
              /\ lists' = Joined("dense-compressed", 7,
                                 Take(RankCandidates(near, ask), Candidates))
      BY <2>1 DEF RanksCompressed
    <3>2. near \in [Hash -> Nat]
      BY SearchAssumption
    <3>3. VectorsKnown
      BY <1>1 DEF SearchInv, LoadedRight
    <3>4. Admitted(Take(RankCandidates(near, ask), Candidates), ask)
      BY <3>2, <3>3, DenseAdmitted
    <3>5. QED
      BY <3>1, <3>2, <3>4, UnitsAreIn
  <2>2. CASE ~(DenseWanted /\ Compressible(ask))
    <3>1. lists' = lists /\ nearness' = nearness
      BY <2>2 DEF RanksCompressed
    <3>2. Admitted(<<>>, ask) /\ lists' = Joins(lists, "dense-compressed", 7, <<>>)
      BY <3>1 DEF Admitted, Joins, IsInjective, ToSet
    <3>3. QED
      BY <3>1, <3>2 DEF SearchInv, SearchType
  <2>3. QED
    BY <2>1, <2>2
<1>6. PICK us : /\ Admitted(us, ask) /\ nearness' \in [Hash -> Nat]
                /\ lists' = Joins(lists, "dense-compressed", 7, us)
  BY <1>5
<1>7. SearchType'
  BY <1>1, <1>6 DEF SearchInv, SearchType
<1>8. /\ "dense-compressed" \in Source /\ "dense-compressed" \notin {"dense"}
      /\ {"dense"} \cup {"dense-compressed"} = {"dense", "dense-compressed"}
  BY DEF Source
<1>9. ListsOK(lists', ask, {"dense", "dense-compressed"})
  BY <1>4, <1>6, <1>8, JoinOK
<1>10. TopScored(lists')
  BY <1>4, <1>6, <1>8, TopKept
<1>11. RestUnscored(lists')
  BY <1>4, <1>6, <1>8, JoinCompressed
<1>12. ListsRight'
  BY <1>1, <1>9, <1>10, <1>11, SourcesAre DEF ListsRight
<1>13. QED
  BY <1>2, <1>3, <1>7, <1>12 DEF SearchInv

LEMMA SearchRanksLexical == SearchInv /\ RanksLexical => SearchInv'
<1> SUFFICES ASSUME SearchInv, RanksLexical PROVE SearchInv'
  OBVIOUS
<1> DEFINE w(us) == AdaptiveLexicalWeight(UnitsIn(lists, "dense"), us, ask.words)
<1>1. /\ stage = "lexical" /\ stage' = "fuse"
      /\ UNCHANGED <<ask, store, links, nearness, fused, seeds>>
  BY DEF RanksLexical
<1>2. LoadedRight'
  BY <1>1, LoadedKept DEF SearchInv
<1>3. RankedRight'
  BY <1>1 DEF RankedRight
<1>4. /\ ListsOK(lists, ask, {"dense", "dense-compressed"})
      /\ RestUnscored(lists) /\ TopScored(lists)
  BY <1>1, SourcesAre DEF SearchInv, ListsRight
<1>5. \E us : Admitted(us, ask) /\ lists' = Joins(lists, "lexical", w(us), us)
  <2>1. CASE ask.retrieval = "dense"
    <3>1. lists' = lists
      BY <2>1 DEF RanksLexical
    <3>2. Admitted(<<>>, ask) /\ lists' = Joins(lists, "lexical", w(<<>>), <<>>)
      BY <3>1 DEF Admitted, Joins, IsInjective, ToSet
    <3>3. QED
      BY <3>2
  <2>2. CASE ask.retrieval # "dense"
    <3>1. PICK n \in 0 .. MaxHits : \E hits \in [1 .. n -> Unit \cup {Missing}] :
              /\ \A i, j \in 1 .. n : hits[i] = hits[j] => i = j \/ hits[i] = Missing
              /\ lists' = Joined("lexical",
                                 AdaptiveLexicalWeight(Units("dense"), LexicalList(hits, ask),
                                                       ask.words),
                                 LexicalList(hits, ask))
      BY <2>2 DEF RanksLexical
    <3>2. PICK hits \in [1 .. n -> Unit \cup {Missing}] :
              /\ \A i, j \in 1 .. n : hits[i] = hits[j] => i = j \/ hits[i] = Missing
              /\ lists' = Joined("lexical",
                                 AdaptiveLexicalWeight(Units("dense"), LexicalList(hits, ask),
                                                       ask.words),
                                 LexicalList(hits, ask))
      BY <3>1
    <3>3. n \in Nat
      BY SearchAssumption
    <3>4. Admitted(LexicalList(hits, ask), ask)
      BY <3>2, <3>3, LexicalAdmitted
    <3>5. lists' = Joins(lists, "lexical", w(LexicalList(hits, ask)), LexicalList(hits, ask))
      BY <3>2, UnitsAreIn
    <3> HIDE DEF w
    <3>6. QED
      BY <3>4, <3>5
  <2>3. QED
    BY <2>1, <2>2
<1>6. PICK us : Admitted(us, ask) /\ lists' = Joins(lists, "lexical", w(us), us)
  BY <1>5
<1>7. SearchType'
  BY <1>1 DEF SearchInv, SearchType
<1>8. /\ "lexical" \in Source /\ "lexical" \notin {"dense", "dense-compressed"}
      /\ {"dense", "dense-compressed"} \cup {"lexical"} = {"dense", "dense-compressed", "lexical"}
      /\ w(us) \in Nat
  BY LexicalWeight DEF Source
<1>9. ask.words \in Nat
  BY SearchAssumption DEF SearchInv, SearchType
<1>10. Unconfirmed(lists', ask) => RestBelow(lists', 4)
  BY <1>4, <1>6, <1>8, <1>9, JoinLexical
<1> HIDE DEF w
<1>11. ListsOK(lists', ask, {"dense", "dense-compressed", "lexical"})
  <2>1. ListsOK(lists', ask, {"dense", "dense-compressed"} \cup {"lexical"})
    BY <1>4, <1>6, <1>8, JoinOK
  <2>2. QED
    BY <1>8, <2>1
<1>12. TopScored(lists')
  BY <1>4, <1>6, <1>8, TopKept
<1>13. ListsRight'
  BY <1>1, <1>10, <1>11, <1>12, SourcesAre DEF ListsRight
<1>14. QED
  BY <1>2, <1>3, <1>7, <1>13 DEF SearchInv

LEMMA SearchFuses == SearchInv /\ Fuses => SearchInv'
<1> SUFFICES ASSUME SearchInv, Fuses PROVE SearchInv'
  OBVIOUS
<1>1. /\ stage = "fuse" /\ stage' = "expand"
      /\ UNCHANGED <<ask, store, links, nearness, lists>>
      /\ fused' = ReciprocalRankFusion(lists) /\ seeds' = Take(fused', SeedCount)
  BY DEF Fuses
<1>2. SearchType'
  BY <1>1 DEF SearchInv, SearchType
<1>3. LoadedRight'
  BY <1>1, LoadedKept DEF SearchInv
<1>4. lists \in Seq(ListT)
  BY <1>1 DEF SearchInv, ListsRight, ListsOK
<1>5. Fused(fused', lists)
  BY <1>1, <1>4, FusionIs
<1>6. RankedRight'
  BY <1>1, <1>5 DEF RankedRight
<1>7. ListsRight'
  BY <1>1, SourcesAre DEF SearchInv, ListsRight
<1>8. QED
  BY <1>2, <1>3, <1>6, <1>7 DEF SearchInv

\* FragmentsBringParents of the ranking r: each fragment shown has a unit that
\* contains it, and the parents that the seeds lead to come in.
BringsParents(r) ==
    /\ \A i \in DOMAIN Take(r, ask.limit) :
         LET p == FragmentParent(r[i]) IN
         p # Missing => /\ Corpus[p].file = Corpus[r[i]].file
                        /\ Corpus[p].start <= Corpus[r[i]].start
                        /\ Corpus[r[i]].end <= Corpus[p].end
    /\ ask.graph => \A i \in DOMAIN seeds :
         LET p == FragmentParent(seeds[i]) IN
         /\ p # Missing /\ Matches(ask, p)
         /\ UnitOf(Corpus[p].entity) = p /\ Cardinality(Reachable(seeds)) <= Candidates
         => p \in ToSet(r)

LEMMA ParentsHold ==
    ASSUME LinksWithParts, seeds \in Seq(Unit), NEW r, ToSet(seeds) \subseteq ToSet(r),
           ask.graph => ToSet(GraphList(seeds, ask)) \subseteq ToSet(r)
    PROVE  BringsParents(r)
<1>1. ASSUME NEW i, FragmentParent(r[i]) # Missing
      PROVE  LET p == FragmentParent(r[i]) IN
             /\ Corpus[p].file = Corpus[r[i]].file
             /\ Corpus[p].start <= Corpus[r[i]].start
             /\ Corpus[r[i]].end <= Corpus[p].end
  <2>1. PICK p \in FragmentParents(r[i]) : p = FragmentParent(r[i])
    BY <1>1, ParentIs
  <2>2. /\ Corpus[p].file = Corpus[r[i]].file
        /\ Corpus[p].start <= Corpus[r[i]].start
        /\ Corpus[p].end >= Corpus[r[i]].end
    BY DEF FragmentParents
  <2>3. Corpus[r[i]].end <= Corpus[p].end
    BY <2>2
  <2>4. QED
    BY <2>1, <2>2, <2>3
<1>2. ASSUME ask.graph, NEW i \in DOMAIN seeds,
             NEW p, p = FragmentParent(seeds[i]), p # Missing, Matches(ask, p),
             UnitOf(Corpus[p].entity) = p, Cardinality(Reachable(seeds)) <= Candidates
      PROVE  p \in ToSet(r)
  <2>1. CASE p \in ToSet(seeds)
    BY <2>1
  <2>2. CASE p \notin ToSet(seeds)
    <3>1. p \in Reachable(seeds)
      BY <1>2, <2>2, ParentsReached
    <3>2. LinksAre
      BY LinksType
    <3>3. p \in ToSet(GraphList(seeds, ask))
      BY <1>2, <3>1, <3>2, GraphIs
    <3>4. QED
      BY <1>2, <3>3
  <2>3. QED
    BY <2>1, <2>2
<1>3. QED
  BY <1>1, <1>2 DEF BringsParents

LEMMA SearchExpands == SearchInv /\ Expands => SearchInv'
<1> SUFFICES ASSUME SearchInv, Expands PROVE SearchInv'
  OBVIOUS
<1> DEFINE g == GraphList(seeds, ask)
<1>1. /\ stage = "expand" /\ stage' = "shaped"
      /\ UNCHANGED <<ask, store, links, nearness, seeds>>
  BY DEF Expands
<1>2. SearchType'
  BY <1>1 DEF SearchInv, SearchType
<1>3. LoadedRight'
  BY <1>1, LoadedKept DEF SearchInv
<1>4. /\ ListsOK(lists, ask, {"dense", "dense-compressed", "lexical"}) /\ TopScored(lists)
      /\ Unconfirmed(lists, ask) => RestBelow(lists, 4)
  BY <1>1, SourcesAre DEF SearchInv, ListsRight
<1>5. Fused(fused, lists) /\ seeds = Take(fused, SeedCount) /\ SeedCount \in Nat
  BY <1>1, SearchAssumption DEF SearchInv, RankedRight
<1>6. fused \in Seq(Unit) /\ lists \in Seq(ListT)
  BY <1>4, <1>5 DEF Fused, ListsOK
<1>7. seeds \in Seq(Unit)
  BY <1>5, <1>6, TakeIs
<1>8. LinksWithParts /\ LinksAre
  BY <1>1, LinksType DEF SearchInv, LoadedRight
<1>9. Admitted(g, ask) /\ ToSet(g) \cap ToSet(seeds) = {}
  BY <1>7, <1>8, GraphIs
<1>10. \E us : /\ Admitted(us, ask) /\ ToSet(us) \cap ToSet(seeds) = {}
               /\ lists' = Joins(lists, "graph", 5, us) /\ Fused(fused', lists')
               /\ ask.graph => ToSet(g) \subseteq ToSet(us)
  <2>1. CASE ask.graph /\ g # <<>>
    <3>1. lists' = Joins(lists, "graph", 5, g) /\ fused' = ReciprocalRankFusion(lists')
      BY <2>1, UnitsAreIn DEF Expands
    <3>2. "graph" \in Source /\ "graph" \notin {"dense", "dense-compressed", "lexical"}
      BY DEF Source
    <3> HIDE DEF g
    <3>3. lists' \in Seq(ListT)
      <4>1. ListsOK(Joins(lists, "graph", 5, g), ask,
                    {"dense", "dense-compressed", "lexical"} \cup {"graph"})
        BY <1>4, <1>9, <3>2, JoinOK
      <4>2. QED
        BY <3>1, <4>1 DEF ListsOK
    <3>4. Fused(fused', lists')
      BY <3>1, <3>3, FusionIs
    <3>5. QED
      BY <1>9, <3>1, <3>4
  <2>2. CASE ~(ask.graph /\ g # <<>>)
    <3>1. lists' = lists /\ fused' = fused
      BY <2>2 DEF Expands
    <3>2. Admitted(<<>>, ask) /\ ToSet(<<>>) = {} /\ lists' = Joins(lists, "graph", 5, <<>>)
      BY <3>1 DEF Admitted, Joins, IsInjective, ToSet
    <3>3. ask.graph => ToSet(g) \subseteq ToSet(<<>>)
      BY <2>2
    <3>4. QED
      BY <1>5, <3>1, <3>2, <3>3
  <2>3. QED
    BY <2>1, <2>2
<1> HIDE DEF g
<1>11. PICK us : /\ Admitted(us, ask) /\ ToSet(us) \cap ToSet(seeds) = {}
                 /\ lists' = Joins(lists, "graph", 5, us) /\ Fused(fused', lists')
                 /\ ask.graph => ToSet(g) \subseteq ToSet(us)
  BY <1>10
<1>12. /\ "graph" \in Source /\ "graph" \notin {"dense", "dense-compressed", "lexical"}
       /\ "graph" \notin {"dense", "dense-compressed"} /\ "graph" # "dense" /\ "graph" # "lexical"
       /\ {"dense", "dense-compressed", "lexical"} \cup {"graph"} =
              {"dense", "dense-compressed", "lexical", "graph"}
  BY DEF Source
<1>13. ListsOK(lists', ask, {"dense", "dense-compressed", "lexical", "graph"})
  <2>1. ListsOK(lists', ask, {"dense", "dense-compressed", "lexical"} \cup {"graph"})
    BY <1>4, <1>11, <1>12, JoinOK
  <2>2. QED
    BY <1>12, <2>1
<1>14. lists' \in Seq(ListT)
  BY <1>13 DEF ListsOK
<1>15. TopScored(lists')
  BY <1>4, <1>11, <1>12, TopKept
<1>16. Unconfirmed(lists', ask) => RestBelow(lists', 9)
  <2>1. Unconfirmed(lists', ask) => Unconfirmed(lists, ask)
    <3>1. \A s : s # "graph" => UnitsIn(lists', s) = UnitsIn(lists, s)
      BY <1>4, <1>11, <1>12, JoinUnits
    <3>2. /\ UnitsIn(lists', "dense") = UnitsIn(lists, "dense")
          /\ UnitsIn(lists', "lexical") = UnitsIn(lists, "lexical")
      BY <1>12, <3>1
    <3>3. QED
      BY <3>2 DEF Unconfirmed
  <2>2. ASSUME RestBelow(lists, 4) PROVE RestBelow(lists', 9)
    <3>1. RestBelow(lists', 4 + 5)
      BY <1>4, <1>11, <1>12, <2>2, JoinBelow
    <3>2. QED
      BY <3>1
  <2>3. QED
    BY <1>4, <2>1, <2>2
<1>17. ListsRight'
  BY <1>1, <1>13, <1>15, <1>16, SourcesAre DEF ListsRight
<1>18. Ranked(lists') = Ranked(lists) \cup ToSet(us)
  BY <1>6, <1>11, <1>12, JoinRanked
<1>19. KeepsOrder(seeds, fused')
  <2>1. \A u \in ToSet(seeds) : u \in Unit /\ u \notin ToSet(us)
    BY <1>7, <1>11 DEF ToSet
  <2>2. \A u \in ToSet(seeds) : Score(lists', u) = Score(lists, u)
    BY <1>6, <1>11, <1>12, <2>1, JoinScore
  <2>3. Ranked(lists) \subseteq Ranked(lists')
    BY <1>18
  <2>4. QED
    BY <1>5, <1>6, <1>11, <1>14, <2>2, <2>3, SeedsHold
<1>20. SeedsKeepOrder'
  BY <1>1, <1>19 DEF KeepsOrder, SeedsKeepOrder
<1>21. FragmentsBringParents'
  <2>1. ToSet(us) \subseteq ToSet(fused')
    BY <1>11, <1>18 DEF Fused
  <2>2. ask.graph => ToSet(GraphList(seeds, ask)) \subseteq ToSet(fused')
    BY <1>11, <2>1 DEF g
  <2>3. BringsParents(fused')
    BY <1>7, <1>8, <1>19, <2>2, ParentsHold DEF KeepsOrder
  <2>4. QED
    BY <1>1, <2>3 DEF BringsParents, FragmentsBringParents, Shown, Reachable
<1>22. RankedRight'
  BY <1>1, <1>11, <1>20, <1>21 DEF RankedRight
<1>23. QED
  BY <1>2, <1>3, <1>17, <1>22 DEF SearchInv

LEMMA SearchSteps == SearchInv /\ [SearchNext]_searchVars => SearchInv'
<1> SUFFICES ASSUME SearchInv, [SearchNext]_searchVars PROVE SearchInv'
  OBVIOUS
<1>1. CASE UNCHANGED searchVars
  <2>1. UNCHANGED <<stage, ask, store, links, nearness, lists, fused, seeds>>
    BY <1>1 DEF searchVars
  <2>2. SearchType'
    BY <2>1 DEF SearchInv, SearchType
  <2>3. LoadedRight'
    BY <2>1 DEF SearchInv, LoadedRight, VectorsKnown, Embedded, VectorOf, LinksWithParts
  <2>4. ListsRight'
    BY <2>1 DEF SearchInv, ListsRight
  <2>5. SeedsKeepOrder' = SeedsKeepOrder
    BY <2>1 DEF SeedsKeepOrder
  <2>6. FragmentsBringParents' = FragmentsBringParents
    BY <2>1 DEF FragmentsBringParents, Shown, Reachable
  <2>7. RankedRight'
    BY <2>1, <2>5, <2>6 DEF SearchInv, RankedRight
  <2>8. QED
    BY <2>2, <2>3, <2>4, <2>7 DEF SearchInv
<1>2. CASE SearchNext
  BY <1>2, SearchLoads, SearchResolves, SearchRanksDense, SearchRanksCompressed,
     SearchRanksLexical, SearchFuses, SearchExpands DEF SearchNext
<1>3. QED
  BY <1>1, <1>2

LEMMA SearchImplies == SearchInv => RankingIsSound
<1> SUFFICES ASSUME SearchInv PROVE RankingIsSound
  OBVIOUS
<1>1. ASSUME stage = "lexical" PROVE TopKIsSortAndTruncate
  <2>1. VectorsKnown /\ nearness \in [Hash -> Nat]
    BY <1>1 DEF SearchInv, SearchType, LoadedRight
  <2>2. QED
    BY <2>1, TopKHolds
<1>2. ASSUME stage = "shaped"
      PROVE  DenseTopHolds /\ SeedsKeepOrder /\ HitsAdmitted /\ FragmentsBringParents
  <2>1. /\ ListsOK(lists, ask, SourcesBy("shaped")) /\ TopScored(lists)
        /\ Unconfirmed(lists, ask) => RestBelow(lists, 9)
        /\ Fused(fused, lists) /\ SeedsKeepOrder /\ FragmentsBringParents
    BY <1>2 DEF SearchInv, ListsRight, RankedRight
  <2>2. HitsAdmitted
    BY <2>1, ShownAdmitted DEF HitsAdmitted
  <2>3. Unconfirmed(lists, ask) => LeadKept(fused, lists)
    BY <2>1, LeadHolds DEF Unconfirmed
  <2>4. DenseTopHolds
    BY <2>3, UnitsAreIn DEF DenseTopHolds, Unconfirmed, LeadKept
  <2>5. QED
    BY <2>1, <2>2, <2>4
<1>3. QED
  BY <1>1, <1>2 DEF RankingIsSound

\* Searching ranks soundly, for any corpus, relations, scores and filters: the
\* bounded insertion keeps what sorting would, the fusion of the lists keeps
\* the lead of an unconfirmed dense top hit and the order of the seeds, shows
\* each admitted unit once, and brings in the parents of the seeds' fragments
\* (search/src/lib.rs, query/src/lib.rs, semantic/src/lib.rs).
THEOREM RankingHolds == SearchSpec => []RankingIsSound
<1>1. SearchInit => SearchInv
  BY SearchStarts
<1>2. SearchInv /\ [SearchNext]_searchVars => SearchInv'
  BY SearchSteps
<1>3. SearchInv => RankingIsSound
  BY SearchImplies
<1>4. QED
  BY <1>1, <1>2, <1>3, PTL DEF SearchSpec

=============================================================================
