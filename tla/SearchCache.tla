---------------------------- MODULE SearchCache ----------------------------
(***************************************************************************)
(* The warm search index of a project, ProjectHandle::search_index of      *)
(* codeindex-daemon (state.rs), among the searches that share it, the      *)
(* processes that publish to the database, and the files of the database.  *)
(*                                                                         *)
(* A cached index is kept under a stamp: mtime and size of the database    *)
(* file and of its "-wal" file, looked up one after the other.  The files  *)
(* are SQLite's, in WAL mode: a commit goes to the WAL, a checkpoint       *)
(* copies commits into the database file, and the connection that closes   *)
(* last checkpoints and then deletes the WAL.  Commits are numbered, and a *)
(* number stands for the mtime and size that its writing gives a file.     *)
(***************************************************************************)
EXTENDS Naturals

CONSTANTS
    Search,      \* threads that serve a search on the project
    Publisher,   \* connections that write: jobs, and commands run beside them
    MaxCommits,  \* bound on the number of commits
    None         \* no such file; no cached index

ASSUME CacheAssumption ==
    /\ MaxCommits \in Nat
    /\ None \notin Nat
    /\ Search \cap Publisher = {}

VARIABLES
    commits,  \* the commits so far; 0 before the database exists
    main,     \* the last commit written to the database file
    wal,      \* the last commit in the WAL, Empty, or None
    open,     \* SUBSET (Search \cup Publisher): open connections
    cache,    \* None, or the index that is kept with its stamp
    search    \* [Search -> record]: where each search is and what it holds

vars == <<commits, main, wal, open, cache, search>>

files == <<commits, main, wal, open>>

Empty == 0

\* A search that has no index yet: what it has seen of the files, the commits
\* when it began, and whether the database file changed as it looked.
Without(at, m, w, since, torn) ==
    [at |-> at, main |-> m, wal |-> w, index |-> 0, since |-> since, torn |-> torn]

Idle == Without("idle", None, None, 0, FALSE)

Init ==
    /\ commits = 0
    /\ main = None
    /\ wal = None
    /\ open = {}
    /\ cache = None
    /\ search = [s \in Search |-> Idle]

-----------------------------------------------------------------------------
(* The files of the database.                                              *)

\* Opening makes a WAL when there is none, and otherwise leaves it.
WalOpened == IF wal = None THEN Empty ELSE wal

\* A writer opens the database, or makes it: its schema is the first commit.
Open(p) ==
    /\ p \notin open
    /\ open' = open \cup {p}
    /\ \/ /\ commits = 0
          /\ commits' = 1
          /\ main' = 1
          /\ wal' = 1
       \/ /\ commits > 0
          /\ wal' = WalOpened
          /\ UNCHANGED <<commits, main>>
    /\ UNCHANGED <<cache, search>>

Publish(p) ==
    /\ p \in open
    /\ commits < MaxCommits
    /\ commits' = commits + 1
    /\ wal' = commits + 1
    /\ UNCHANGED <<main, open, cache, search>>

\* SQLite checkpoints when the WAL is long and when the last connection
\* closes; readers may hold it back at an earlier commit.
Checkpoint ==
    /\ open # {}
    /\ \E c \in 1 .. commits : main < c /\ main' = c
    /\ UNCHANGED <<commits, wal, open, cache, search>>

\* The last connection deletes the WAL, once all of it is checkpointed.
Disconnect(c) ==
    /\ c \in open
    /\ open' = open \ {c}
    /\ \/ /\ open # {c}
          /\ UNCHANGED wal
       \/ /\ open = {c}
          /\ main = commits
          /\ wal' = None
    /\ UNCHANGED <<commits, main>>

Close(p) == Disconnect(p) /\ UNCHANGED <<cache, search>>

\* The process of a writer is killed, which leaves the files as they are.
Crash(p) ==
    /\ p \in open
    /\ open' = open \ {p}
    /\ UNCHANGED <<commits, main, wal, cache, search>>

-----------------------------------------------------------------------------
(* search_index.                                                           *)

\* The first half of db_stamp, of a database that exists.
StatMain(s) ==
    /\ search[s].at = "idle"
    /\ commits > 0
    /\ search' = [search EXCEPT ![s] = Without("half", main, None, commits, FALSE)]
    /\ UNCHANGED <<files, cache>>

\* Faulty: the stamp is of the database file alone.
WalIgnored == None

WalSeen == wal

\* The second half; `torn` records that the database file changed in between.
StatWal(s) ==
    /\ search[s].at = "half"
    /\ search' = [search EXCEPT ![s] =
                    Without("stamped", search[s].main, WalSeen, search[s].since,
                            main # search[s].main)]
    /\ UNCHANGED <<files, cache>>

\* The cache is locked from the comparison of the stamps to the return.
Unlocked == \A s \in Search : search[s].at \notin {"built", "closing"}

Stamp(s) == <<search[s].main, search[s].wal>>

Hit(s) == cache # None /\ cache.stamp = Stamp(s)

Reuse(s) ==
    /\ search[s].at = "stamped"
    /\ Unlocked
    /\ Hit(s)
    /\ search' = [search EXCEPT ![s] = [@ EXCEPT !.at = "found", !.index = cache.index]]
    /\ UNCHANGED <<files, cache>>

\* Opens a connection and reads a snapshot.
Build(s) ==
    /\ search[s].at = "stamped"
    /\ Unlocked
    /\ ~Hit(s)
    /\ open' = open \cup {s}
    /\ wal' = WalOpened
    /\ search' = [search EXCEPT ![s] = [@ EXCEPT !.at = "built", !.index = commits]]
    /\ UNCHANGED <<commits, main, cache>>

\* Faulty: the stamp is read again once the index is built.
StampNow(s) == <<main, wal>>

\* The index is kept under the stamp that was read before it.
StampKept(s) == Stamp(s)

Keep(s) ==
    /\ search[s].at = "built"
    /\ cache' = [stamp |-> StampKept(s), index |-> search[s].index]
    /\ search' = [search EXCEPT ![s].at = "closing"]
    /\ UNCHANGED files

Built(s) ==
    /\ search[s].at = "closing"
    /\ Disconnect(s)
    /\ search' = [search EXCEPT ![s].at = "found"]
    /\ UNCHANGED cache

\* The database cannot be opened or read, for the index or for the query.
Fail(s) ==
    /\ \/ search[s].at = "stamped" /\ Unlocked /\ ~Hit(s)
       \/ search[s].at = "found"
    /\ search' = [search EXCEPT ![s] = Idle]
    /\ UNCHANGED <<files, cache>>

-----------------------------------------------------------------------------
(* The rest of a search, which holds a connection of its own.              *)

Query(s) ==
    /\ search[s].at = "found"
    /\ open' = open \cup {s}
    /\ wal' = WalOpened
    /\ search' = [search EXCEPT ![s].at = "querying"]
    /\ UNCHANGED <<commits, main, cache>>

\* The results are shaped from the index, or the search fails.
Answer(s) ==
    /\ search[s].at = "querying"
    /\ Disconnect(s)
    /\ search' = [search EXCEPT ![s] = Idle]
    /\ UNCHANGED cache

-----------------------------------------------------------------------------

Next ==
    \/ \E p \in Publisher : Open(p) \/ Publish(p) \/ Close(p) \/ Crash(p)
    \/ Checkpoint
    \/ \E s \in Search :
          \/ StatMain(s) \/ StatWal(s) \/ Reuse(s)
          \/ Build(s) \/ Keep(s) \/ Built(s) \/ Fail(s)
          \/ Query(s) \/ Answer(s)

Spec == Init /\ [][Next]_vars
-----------------------------------------------------------------------------
(* Properties.                                                             *)

SearchPlace == {"idle", "half", "stamped", "built", "closing", "found", "querying"}
Optional == Nat \cup {None}

\* Every variable has its type, and the two files hold every commit.
SearchTypeOK ==
    /\ commits \in Nat
    /\ main \in Optional
    /\ wal \in Optional
    /\ open \subseteq Search \cup Publisher
    /\ cache = None \/ cache \in [stamp : Optional \X Optional, index : Nat]
    /\ search \in [Search -> [at : SearchPlace, main : Optional, wal : Optional,
                              index : Nat, since : Nat, torn : BOOLEAN]]
    /\ main = None <=> commits = 0
    /\ commits = 0 => wal = None /\ open = {}
    /\ commits > 0 => main <= commits
    /\ commits > 0 /\ wal \in {None, Empty} => main = commits
    /\ wal \notin {None, Empty} => wal = commits

\* An index that is kept under the stamp the files have now is the index of
\* what they hold now: whoever compares stamps after this gets it only while
\* nothing has been published since.
HitIsCurrent ==
    cache # None /\ cache.stamp = <<main, wal>> => cache.index = commits

\* A search returns an index at least as new as every publication that ended
\* before it began, if the database file did not change between the two halves
\* of its stamp - however the searches, publications and closes interleave.
FreshUnlessTorn ==
    \A s \in Search : search[s].at \in {"found", "querying"} /\ ~search[s].torn
        => search[s].index >= search[s].since

\* What the comment of DbStamp promises: no search misses a change.
SearchesAreFresh ==
    \A s \in Search : search[s].at \in {"found", "querying"}
        => search[s].index >= search[s].since
=============================================================================
