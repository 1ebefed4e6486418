--------------------------- MODULE EmbeddingLanes ---------------------------
(***************************************************************************)
(* The warm embedding workers of one model in the daemon (state.rs): a     *)
(* lane is a thread that owns a backend and serves its queue.  Queries     *)
(* have a lane, spawned by whoever first asks for the model, documents     *)
(* another, spawned by the first document.  The sender of a lane is kept   *)
(* in a cell under a mutex that is held until the backend has loaded.      *)
(* Models share nothing but the map that is locked to find their cell, so  *)
(* one model is enough.                                                    *)
(***************************************************************************)
EXTENDS Naturals, Sequences, FiniteSets

CONSTANTS
    Caller,     \* searches and index jobs that embed
    Roles,      \* [Caller -> SUBSET Role]: what they embed
    Lane,       \* threads that can be spawned
    None,
    MaxEmbeds,  \* calls of embed by one caller
    MaxFaults   \* accidents: spawns and loads that fail or last too long, panics

Role == {"query", "document"}

ASSUME LanesAssumption ==
    /\ Roles \in [Caller -> SUBSET Role]
    /\ None \notin Lane
    /\ MaxEmbeds \in Nat /\ MaxFaults \in Nat
    \* A thread for each cell and for each accident, so that one can be spawned.
    /\ IsFiniteSet(Lane) /\ Cardinality(Lane) >= 2 + MaxFaults

VARIABLES
    cell,    \* [Role -> Lane or None]: the slot of the model, and its bulk
    lane,    \* the threads
    caller,  \* where each caller stands
    faults

vars == <<cell, lane, caller, faults>>

(* A caller locks the cell of its role, waits for a lane it has spawned to *)
(* be ready, sends to the lane and waits for the reply.                    *)
Place == {"idle", "lock", "ready", "handle", "send", "waiting"}
CallerState ==
    [at : Place, role : Role, cell : Role, lane : Lane \cup {None}, embeds : 0 .. MaxEmbeds]
LaneState ==
    [state : {"absent", "loading", "orphan", "failed", "serving", "dead"},
     role : Role, queue : Seq(Caller)]  \* the head of the queue is being served

Idle == [at |-> "idle", role |-> "query", cell |-> "query", lane |-> None, embeds |-> 0]

Init ==
    /\ cell = [r \in Role |-> None]
    /\ lane = [l \in Lane |-> [state |-> "absent", role |-> "query", queue |-> <<>>]]
    /\ caller = [c \in Caller |-> Idle]
    /\ faults = 0

At(c, place) == caller[c].at = place
Moved(c, place) == caller' = [caller EXCEPT ![c].at = place]
Errs(c) == [Idle EXCEPT !.embeds = caller[c].embeds]
Fault == faults < MaxFaults /\ faults' = faults + 1
LaneIs(l, state) == lane' = [lane EXCEPT ![l].state = state]

(* Callers *****************************************************************)

\* DaemonState::embedder.
Asks(c) ==
    /\ At(c, "idle") /\ caller[c].embeds < MaxEmbeds
    /\ \E r \in Roles[c] :
         caller' = [caller EXCEPT ![c].at = "lock", ![c].role = r, ![c].cell = "query"]
    /\ UNCHANGED <<cell, lane, faults>>

\* Faulty: the cell is looked at before it is locked.
UnlockedForAll(r) == TRUE

\* Who waits for the readiness of a lane holds the lock of its cell.
Unlocked(r) == \A c \in Caller : ~(At(c, "ready") /\ caller[c].cell = r)

\* The slot of the model yields a handle, its bulk the sender to use.
AfterLock(r) == IF r = "query" THEN "handle" ELSE "send"

Finds(c) ==
    LET r == caller[c].cell IN
    /\ At(c, "lock") /\ Unlocked(r) /\ cell[r] # None
    /\ caller' = [caller EXCEPT ![c].at = AfterLock(r), ![c].lane = cell[r]]
    /\ UNCHANGED <<cell, lane, faults>>

\* spawn_lane_with_identity, up to the wait for readiness.
Spawns(c) ==
    LET r == caller[c].cell IN
    /\ At(c, "lock") /\ Unlocked(r) /\ cell[r] = None
    /\ \/ LET l == CHOOSE l \in Lane : lane[l].state = "absent" IN
            /\ lane' = [lane EXCEPT ![l] = [state |-> "loading", role |-> r, queue |-> <<>>]]
            /\ caller' = [caller EXCEPT ![c].at = "ready", ![c].lane = l]
            /\ UNCHANGED faults
       \/ /\ Fault
          /\ caller' = [caller EXCEPT ![c] = Errs(c)]
          /\ UNCHANGED lane
    /\ UNCHANGED cell

\* recv_timeout: ready, failed, or not yet after half an hour, which leaves
\* the thread to load for nobody.
BecomesReady(c) ==
    LET r == caller[c].cell
        l == caller[c].lane IN
    /\ At(c, "ready")
    /\ \/ /\ lane[l].state \in {"serving", "dead"}
          /\ cell' = [cell EXCEPT ![r] = l]
          /\ Moved(c, AfterLock(r))
          /\ UNCHANGED <<lane, faults>>
       \/ /\ lane[l].state = "failed"
          /\ caller' = [caller EXCEPT ![c] = Errs(c)]
          /\ LaneIs(l, "dead")
          /\ UNCHANGED <<cell, faults>>
       \/ /\ lane[l].state = "loading" /\ Fault
          /\ caller' = [caller EXCEPT ![c] = Errs(c)]
          /\ LaneIs(l, "orphan")
          /\ UNCHANGED cell

\* Faulty: documents use the query lane until theirs is there.
ChoosesWarm(c) ==
    caller' = [caller EXCEPT
        ![c].embeds = @ + 1,
        ![c].at = IF caller[c].role = "query" \/ cell["document"] = None
                  THEN "send" ELSE "lock",
        ![c].cell = caller[c].role, ![c].lane = cell["query"]]

\* RemoteEmbedder::embed picks the lane of its role.
Chooses(c) ==
    caller' = [caller EXCEPT
        ![c].embeds = @ + 1,
        ![c].at = IF caller[c].role = "query" THEN "send" ELSE "lock",
        ![c].cell = caller[c].role, ![c].lane = cell["query"]]

Embeds(c) ==
    /\ At(c, "handle") /\ caller[c].embeds < MaxEmbeds
    /\ Chooses(c)
    /\ UNCHANGED <<cell, lane, faults>>

Leaves(c) ==
    /\ At(c, "handle")
    /\ caller' = [caller EXCEPT ![c] = Errs(c)]
    /\ UNCHANGED <<cell, lane, faults>>

\* A lane that is gone refuses the job; its sender stays in the cell.
Sends(c) ==
    LET l == caller[c].lane IN
    /\ At(c, "send")
    /\ \/ /\ lane[l].state = "serving"
          /\ lane' = [lane EXCEPT ![l].queue = Append(@, c)]
          /\ Moved(c, "waiting")
       \/ /\ lane[l].state = "dead"
          /\ caller' = [caller EXCEPT ![c] = Errs(c)]
          /\ UNCHANGED lane
    /\ UNCHANGED <<cell, faults>>

Proceed(c) ==
    \/ Asks(c) \/ Finds(c) \/ Spawns(c) \/ BecomesReady(c)
    \/ Embeds(c) \/ Leaves(c) \/ Sends(c)

(* Lanes *******************************************************************)

\* embedder_from_config succeeds or fails; then the jobs, if anyone can send.
Loads(l) ==
    /\ \/ lane[l].state = "loading" /\ LaneIs(l, "serving") /\ UNCHANGED faults
       \/ lane[l].state = "loading" /\ Fault /\ LaneIs(l, "failed")
       \/ lane[l].state = "orphan" /\ LaneIs(l, "dead") /\ UNCHANGED faults
    /\ UNCHANGED <<cell, caller>>

Queued(l) == {lane[l].queue[i] : i \in DOMAIN lane[l].queue}

\* The reply, vectors or an error, goes to the channel the job carries.
Serves(l) ==
    /\ lane[l].state = "serving" /\ lane[l].queue # <<>>
    /\ Moved(Head(lane[l].queue), "handle")
    /\ lane' = [lane EXCEPT ![l].queue = Tail(@)]
    /\ UNCHANGED <<cell, faults>>

\* Faulty: only the job that was being served learns of the panic.
OrphanedHead(l) == {Head(lane[l].queue)}

\* A panic drops the job, the queue and with them every reply channel.
Orphaned(l) == Queued(l)

Panics(l) ==
    /\ lane[l].state = "serving" /\ lane[l].queue # <<>> /\ Fault
    /\ caller' = [c \in Caller |-> IF c \in Orphaned(l) THEN Errs(c) ELSE caller[c]]
    /\ lane' = [lane EXCEPT ![l].state = "dead", ![l].queue = <<>>]
    /\ UNCHANGED cell

Works(l) == Loads(l) \/ Serves(l) \/ Panics(l)
Answers(l) == lane[l].role = "query" /\ (Loads(l) \/ Serves(l))

Next == (\E c \in Caller : Proceed(c)) \/ (\E l \in Lane : Works(l))

(* Threads run, and a backend that loads or embeds queries comes to an end. *)
(* Nothing is assumed of the lane that embeds documents: one of its forward *)
(* passes may last for ever.                                                *)
Spec ==
    /\ Init /\ [][Next]_vars
    /\ \A c \in Caller :
         WF_vars(Finds(c) \/ Spawns(c) \/ BecomesReady(c) \/ Sends(c))
    /\ \A l \in Lane : WF_vars(Answers(l))

(* Properties **************************************************************)

\* Every variable has its type.
LanesTypeOK ==
    /\ cell \in [Role -> Lane \cup {None}]
    /\ lane \in [Lane -> LaneState]
    /\ caller \in [Caller -> CallerState]
    /\ faults \in 0 .. MaxFaults

\* A caller that waits for a reply is queued at the one lane of its role, and
\* that lane lives: however many ask for the model at once, no role loads it
\* twice unless a loading was given up, no query waits behind a document, and a
\* lane that dies, or whose sender is still cached, strands nobody.
WaitsAtTheLaneOfItsRole ==
    /\ \A c \in Caller : At(c, "waiting") =>
         \E l \in Lane : /\ lane[l].state = "serving" /\ lane[l].role = caller[c].role
                        /\ c \in Queued(l)
    /\ \A l, m \in Lane :
         /\ lane[l].state \in {"loading", "serving"} /\ lane[m].state \in {"loading", "serving"}
         /\ lane[l].role = lane[m].role
         => l = m

\* A query that asked for the model or was sent comes back, with vectors or an
\* error, even while a document's forward pass, or its lane's loading, never ends.
QueriesReturn ==
    \A c \in Caller :
        caller[c].role = "query" /\ caller[c].at \in {"lock", "ready", "send", "waiting"}
            ~> caller[c].at \in {"idle", "handle"}

=============================================================================
