------------------------ MODULE EmbeddingLanesProofs ------------------------
(***************************************************************************)
(* Theorems about EmbeddingLanes, for any number of callers, lanes, calls  *)
(* and accidents.                                                          *)
(***************************************************************************)
EXTENDS EmbeddingLanes, FiniteSetTheorems, SequenceTheorems, TLAPS

\* A cell holds a lane of its role that has been ready.
CellsOK ==
    \A r \in Role : cell[r] # None =>
        lane[cell[r]].state \in {"serving", "dead"} /\ lane[cell[r]].role = r

\* Who waits for readiness waits for a lane of the cell it has locked, which
\* is empty; who has a handle found the slot of the model full; a sender is
\* that of the cell of the role.
CallerOK(c) ==
    LET s == caller[c] IN
    /\ s.at \in {"lock", "ready"} => s.cell = "query" \/ s.role = "document"
    /\ s.at = "ready" => /\ s.lane # None /\ lane[s.lane].state # "absent"
                         /\ lane[s.lane].role = s.cell /\ cell[s.cell] = None
    /\ s.at \in {"handle", "send", "waiting"} => cell["query"] # None
    /\ s.at \in {"lock", "ready"} /\ s.cell = "document" => cell["query"] # None
    /\ s.at = "send" => s.lane # None /\ s.lane = cell[s.role]
    /\ s.at = "waiting" => /\ s.lane # None /\ lane[s.lane].state = "serving"
                           /\ lane[s.lane].role = s.role /\ c \in Queued(s.lane)

\* The mutex of a cell.
OneReady ==
    \A c, d \in Caller :
        At(c, "ready") /\ At(d, "ready") /\ caller[c].cell = caller[d].cell => c = d

\* Somebody has the sender of a lane that loads or serves.
Kept(l) ==
    \/ cell[lane[l].role] = l
    \/ \E c \in Caller : At(c, "ready") /\ caller[c].lane = l /\ caller[c].cell = lane[l].role

\* Who is in a queue is there once, and waits for this lane.
LaneOK(l) ==
    LET q == lane[l].queue IN
    /\ lane[l].state # "serving" => q = <<>>
    /\ \A i \in DOMAIN q : At(q[i], "waiting") /\ caller[q[i]].lane = l
    /\ \A i, j \in DOMAIN q : q[i] = q[j] => i = j
    /\ lane[l].state \in {"loading", "serving"} => Kept(l)

\* Each lane that came to nothing took an accident.
Spent == {l \in Lane : lane[l].state \in {"orphan", "failed", "dead"}}
FewSpent == Cardinality(Spent) <= faults

LanesInv ==
    /\ LanesTypeOK /\ CellsOK /\ OneReady /\ FewSpent
    /\ \A c \in Caller : CallerOK(c)
    /\ \A l \in Lane : LaneOK(l)

-----------------------------------------------------------------------------
(* What steps leave alone.                                                 *)

LEMMA CallerIs ==
    ASSUME LanesTypeOK, NEW c \in Caller, NEW t \in CallerState,
           caller' = [caller EXCEPT ![c] = t]
    PROVE  /\ caller' \in [Caller -> CallerState] /\ caller'[c] = t
           /\ \A o \in Caller \ {c} : caller'[o] = caller[o]
BY DEF LanesTypeOK

LEMMA LaneIsOf ==
    ASSUME LanesTypeOK, NEW l \in Lane, NEW t \in LaneState,
           lane' = [lane EXCEPT ![l] = t]
    PROVE  /\ lane' \in [Lane -> LaneState] /\ lane'[l] = t
           /\ \A m \in Lane \ {l} : lane'[m] = lane[m]
BY DEF LanesTypeOK

LEMMA ErrsIs ==
    ASSUME LanesTypeOK, NEW c \in Caller
    PROVE  Errs(c) \in CallerState /\ Errs(c).at = "idle"
BY DEF LanesTypeOK, Errs, Idle, CallerState, Place, Role

\* Cells are filled once, and lanes that exist keep their role.
GoesOn ==
    /\ \A r \in Role : cell[r] # None => cell'[r] = cell[r]
    /\ \A l \in Lane : lane[l].state # "absent" =>
         lane'[l].state # "absent" /\ lane'[l].role = lane[l].role

LEMMA OtherCaller ==
    ASSUME LanesInv, GoesOn, NEW o \in Caller, caller'[o] = caller[o],
           At(o, "waiting") => /\ lane'[caller[o].lane].state = "serving"
                               /\ o \in Queued(caller[o].lane)',
           At(o, "ready") => cell'[caller[o].cell] = None
    PROVE  CallerOK(o)'
<1>1. caller[o] \in CallerState /\ CallerOK(o)
  BY DEF LanesInv, LanesTypeOK
<1>2. caller[o].lane \in Lane \cup {None} /\ caller[o].role \in Role /\ caller[o].cell \in Role
      /\ "query" \in Role
  BY <1>1 DEF CallerState, Role
<1>3. QED
  BY <1>1, <1>2 DEF CallerOK, GoesOn, At

LEMMA OtherLane ==
    ASSUME LanesInv, GoesOn, NEW c \in Caller, ~At(c, "waiting"),
           \A o \in Caller \ {c} : caller'[o] = caller[o],
           NEW m \in Lane, lane'[m] = lane[m],
           At(c, "ready") /\ caller[c].lane = m => lane[m].state \notin {"loading", "serving"}
                                                   \/ Kept(m)'
    PROVE  LaneOK(m)'
<1>1. LaneOK(m) /\ lane[m] \in LaneState
  BY DEF LanesInv, LanesTypeOK
<1>2. lane[m].role \in Role /\ lane[m].queue \in Seq(Caller)
  BY <1>1 DEF LaneState
<1>3. \A i \in DOMAIN lane[m].queue : lane[m].queue[i] \in Caller
  BY <1>2, ElementOfSeq, LenProperties
<1>4. \A i \in DOMAIN lane[m].queue : caller'[lane[m].queue[i]] = caller[lane[m].queue[i]]
  BY <1>1, <1>3 DEF LaneOK
<1>5. lane[m].state \in {"loading", "serving"} => Kept(m)'
  <2>1. SUFFICES ASSUME lane[m].state \in {"loading", "serving"},
                        ~(At(c, "ready") /\ caller[c].lane = m)
                 PROVE  Kept(m)'
    OBVIOUS
  <2>2. m # None
    BY LanesAssumption
  <2>3. Kept(m)
    BY <1>1, <2>1 DEF LaneOK
  <2>4. CASE cell[lane[m].role] = m
    BY <1>2, <2>2, <2>4 DEF GoesOn, Kept
  <2>5. ASSUME NEW o \in Caller, At(o, "ready"), caller[o].lane = m,
               caller[o].cell = lane[m].role
        PROVE  Kept(m)'
    BY <2>1, <2>5 DEF Kept, At
  <2>6. QED
    BY <2>3, <2>4, <2>5 DEF Kept
<1>6. QED
  BY <1>1, <1>4, <1>5 DEF LaneOK, At

LEMMA SpentIs ==
    ASSUME LanesTypeOK
    PROVE  /\ IsFiniteSet(Spent) /\ Cardinality(Spent) \in Nat
           /\ \A l \in Lane \ Spent : Cardinality(Spent \cup {l}) = Cardinality(Spent) + 1
<1>1. IsFiniteSet(Spent)
  BY LanesAssumption, FS_Subset DEF Spent
<1>2. QED
  BY <1>1, FS_CardinalityType, FS_AddElement

LEMMA SpentMore ==
    ASSUME LanesTypeOK, FewSpent, faults' \in Nat,
           \/ Spent' \subseteq Spent /\ faults' >= faults
           \/ \E l \in Lane : Spent' \subseteq Spent \cup {l} /\ faults' = faults + 1
    PROVE  FewSpent'
<1>1. faults \in Nat /\ IsFiniteSet(Spent) /\ Cardinality(Spent) \in Nat
  BY SpentIs, LanesAssumption DEF LanesTypeOK
<1>2. CASE Spent' \subseteq Spent /\ faults' >= faults
  <2>1. Cardinality(Spent') <= Cardinality(Spent) /\ Cardinality(Spent') \in Nat
    BY <1>1, <1>2, FS_Subset, FS_CardinalityType
  <2>2. QED
    BY <1>1, <1>2, <2>1 DEF FewSpent
<1>3. ASSUME NEW l \in Lane, Spent' \subseteq Spent \cup {l}, faults' = faults + 1
      PROVE  FewSpent'
  <2>1. IsFiniteSet(Spent \cup {l}) /\ Cardinality(Spent \cup {l}) <= Cardinality(Spent) + 1
    <3>1. CASE l \in Spent
      <4>1. Spent \cup {l} = Spent
        BY <3>1
      <4>2. QED
        BY <1>1, <4>1
    <3>2. CASE l \notin Spent
      BY <1>1, <3>2, SpentIs, FS_AddElement
    <3>3. QED
      BY <3>1, <3>2
  <2>2. /\ Cardinality(Spent \cup {l}) \in Nat
        /\ Cardinality(Spent') <= Cardinality(Spent \cup {l}) /\ Cardinality(Spent') \in Nat
    <3>1. Spent' \in SUBSET (Spent \cup {l})
      BY <1>3
    <3>2. QED
      BY <2>1, <3>1, FS_Subset, FS_CardinalityType
  <2>3. QED
    BY <1>1, <1>3, <2>1, <2>2 DEF FewSpent
<1>4. QED
  BY <1>2, <1>3

\* A caller that takes or leaves no lane: asks, finds, chooses, errs.
LEMMA QuietCaller ==
    ASSUME LanesInv, NEW c \in Caller, NEW t \in CallerState,
           caller' = [caller EXCEPT ![c] = t],
           ~At(c, "ready"), ~At(c, "waiting"), t.at \notin {"ready", "waiting"},
           CallerOK(c)', UNCHANGED <<cell, lane>>, faults' \in faults .. MaxFaults
    PROVE  LanesInv'
<1>1. LanesTypeOK
  BY DEF LanesInv
<1>2. /\ caller' \in [Caller -> CallerState] /\ caller'[c] = t
      /\ \A o \in Caller \ {c} : caller'[o] = caller[o]
  BY <1>1, CallerIs
<1>3. GoesOn
  BY DEF GoesOn
<1>4. faults \in Nat /\ faults' \in 0 .. MaxFaults /\ faults' \in Nat /\ faults' >= faults
  BY <1>1, LanesAssumption DEF LanesTypeOK
<1>5. LanesTypeOK'
  BY <1>1, <1>2, <1>4 DEF LanesTypeOK
<1>6. CellsOK'
  BY DEF LanesInv, CellsOK
<1>7. OneReady'
  BY <1>2 DEF LanesInv, OneReady, At
<1>8. FewSpent'
  <2>1. Spent' = Spent
    BY DEF Spent
  <2>2. QED
    BY <1>1, <1>4, <2>1, SpentMore DEF LanesInv
<1>9. ASSUME NEW o \in Caller
      PROVE  CallerOK(o)'
  <2>1. CASE o # c
    <3>1. CallerOK(o) /\ caller'[o] = caller[o]
      BY <1>2, <2>1 DEF LanesInv
    <3>2. QED
      BY <3>1 DEF CallerOK, Queued
  <2>2. QED
    BY <2>1
<1>10. ASSUME NEW m \in Lane
       PROVE  LaneOK(m)'
  BY <1>2, <1>3, OtherLane
<1>11. QED
  BY <1>5, <1>6, <1>7, <1>8, <1>9, <1>10 DEF LanesInv

LEMMA StepAsks ==
    ASSUME LanesInv, NEW c \in Caller, Asks(c)
    PROVE  LanesInv'
<1>1. LanesTypeOK /\ caller[c] \in CallerState /\ At(c, "idle") /\ UNCHANGED <<cell, lane, faults>>
  BY DEF LanesInv, LanesTypeOK, Asks
<1>2. PICK r \in Roles[c] : caller' = [caller EXCEPT ![c].at = "lock", ![c].role = r,
                                                     ![c].cell = "query"]
  BY DEF Asks
<1> DEFINE t == [caller[c] EXCEPT !.at = "lock", !.role = r, !.cell = "query"]
<1>3. caller' = [caller EXCEPT ![c] = t]
  BY <1>1, <1>2 DEF LanesTypeOK
<1>4. /\ t \in CallerState /\ t.at = "lock" /\ t.cell = "query"
  <2>1. r \in Role /\ "query" \in Role
    BY LanesAssumption DEF Role
  <2>2. QED
    BY <1>1, <2>1 DEF CallerState, Place
<1> HIDE DEF t
<1>5. CallerOK(c)'
  BY <1>1, <1>3, <1>4, CallerIs DEF CallerOK
<1>6. faults' \in faults .. MaxFaults
  BY <1>1, LanesAssumption DEF LanesTypeOK
<1>7. QED
  BY <1>1, <1>3, <1>4, <1>5, <1>6, QuietCaller DEF At

LEMMA StepFinds ==
    ASSUME LanesInv, NEW c \in Caller, Finds(c)
    PROVE  LanesInv'
<1> DEFINE r == caller[c].cell
           t == [caller[c] EXCEPT !.at = AfterLock(r), !.lane = cell[r]]
<1>1. /\ LanesTypeOK /\ caller[c] \in CallerState /\ At(c, "lock") /\ CallerOK(c)
      /\ UNCHANGED <<cell, lane, faults>> /\ cell[r] # None
      /\ caller' = [caller EXCEPT ![c].at = AfterLock(r), ![c].lane = cell[r]]
  BY DEF LanesInv, LanesTypeOK, Finds
<1>2. caller' = [caller EXCEPT ![c] = t]
  BY <1>1 DEF LanesTypeOK
<1>3. r \in Role /\ cell[r] \in Lane \cup {None}
  BY <1>1 DEF CallerState, LanesTypeOK
<1>4. /\ t \in CallerState /\ t.at = AfterLock(r) /\ t.lane = cell[r]
      /\ t.role = caller[c].role
  BY <1>1, <1>3 DEF CallerState, Place, AfterLock
<1> HIDE DEF t
<1>5. CallerOK(c)'
  <2>1. caller'[c] = t
    BY <1>1, <1>2, <1>4, CallerIs
  <2>2. r = "query" \/ (r = "document" /\ t.role = "document")
    BY <1>1, <1>3, <1>4 DEF CallerOK, Role, At
  <2>3. cell["query"] # None
    BY <1>1, <2>2 DEF CallerOK, At
  <2>4. QED
    BY <1>1, <1>4, <2>1, <2>2, <2>3 DEF CallerOK, AfterLock
<1>6. faults' \in faults .. MaxFaults
  BY <1>1, LanesAssumption DEF LanesTypeOK
<1>7. t.at \notin {"ready", "waiting"}
  BY <1>4 DEF AfterLock
<1>8. QED
  BY <1>1, <1>2, <1>4, <1>5, <1>6, <1>7, QuietCaller DEF At

LEMMA StepErrs ==
    ASSUME LanesInv, NEW c \in Caller, ~At(c, "ready"), ~At(c, "waiting"),
           caller' = [caller EXCEPT ![c] = Errs(c)], UNCHANGED <<cell, lane>>,
           faults' \in faults .. MaxFaults
    PROVE  LanesInv'
<1>1. LanesTypeOK
  BY DEF LanesInv
<1>2. Errs(c) \in CallerState /\ Errs(c).at = "idle"
  BY <1>1, ErrsIs
<1>3. CallerOK(c)'
  BY <1>1, <1>2, CallerIs DEF CallerOK
<1>4. QED
  BY <1>2, <1>3, QuietCaller

LEMMA StepEmbeds ==
    ASSUME LanesInv, NEW c \in Caller, Embeds(c)
    PROVE  LanesInv'
<1> DEFINE place == IF caller[c].role = "query" THEN "send" ELSE "lock"
           t == [caller[c] EXCEPT !.embeds = @ + 1, !.at = place,
                                  !.cell = caller[c].role, !.lane = cell["query"]]
<1>1. /\ LanesTypeOK /\ caller[c] \in CallerState /\ At(c, "handle") /\ CallerOK(c)
      /\ UNCHANGED <<cell, lane, faults>> /\ caller[c].embeds < MaxEmbeds
      /\ Chooses(c)
  BY DEF LanesInv, LanesTypeOK, Embeds
<1>2. caller' = [caller EXCEPT ![c] = t]
  BY <1>1 DEF LanesTypeOK, Chooses
<1>3. /\ caller[c].role \in Role /\ cell["query"] \in Lane \cup {None}
      /\ caller[c].embeds + 1 \in 0 .. MaxEmbeds
  BY <1>1, LanesAssumption DEF CallerState, LanesTypeOK, Role
<1>4. place \in Place
  BY DEF Place
<1>5. /\ t.at = place /\ t.lane = cell["query"]
      /\ t.role = caller[c].role /\ t.cell = caller[c].role
  BY <1>1 DEF CallerState
<1>6. t \in CallerState
  <2> HIDE DEF place
  <2>1. QED
    BY <1>1, <1>3, <1>4 DEF CallerState
<1> HIDE DEF t
<1>7. CallerOK(c)'
  <2>1. caller'[c] = t
    BY <1>1, <1>2, <1>6, CallerIs
  <2>2. caller[c].role = "query" \/ caller[c].role = "document"
    BY <1>3 DEF Role
  <2>3. cell["query"] # None
    BY <1>1 DEF CallerOK, At
  <2>4. QED
    BY <1>1, <1>5, <2>1, <2>2, <2>3 DEF CallerOK
<1>8. faults' \in faults .. MaxFaults
  BY <1>1, LanesAssumption DEF LanesTypeOK
<1>9. t.at \notin {"ready", "waiting"}
  BY <1>5
<1>10. QED
  BY <1>1, <1>2, <1>6, <1>7, <1>8, <1>9, QuietCaller DEF At

-----------------------------------------------------------------------------
(* Spawning.                                                               *)

LaneType == lane \in [Lane -> LaneState]

\* Nobody has a lane of a role whose cell is empty and unlocked.
LEMMA NoneActive ==
    ASSUME LanesInv, NEW r \in Role, Unlocked(r), cell[r] = None, NEW l \in Lane,
           lane[l].state \in {"loading", "serving"}
    PROVE  lane[l].role # r
BY LanesAssumption DEF LanesInv, LaneOK, Kept, Unlocked

\* Each role has one lane that loads or serves at most.
LEMMA OneActive ==
    ASSUME LanesInv, NEW l \in Lane, NEW m \in Lane,
           lane[l].state \in {"loading", "serving"}, lane[m].state \in {"loading", "serving"},
           lane[l].role = lane[m].role
    PROVE  l = m
<1>1. Kept(l) /\ Kept(m) /\ l # None /\ m # None
  BY LanesAssumption DEF LanesInv, LaneOK
<1>2. \A c \in Caller : At(c, "ready") => cell[caller[c].cell] = None
  BY DEF LanesInv, CallerOK, At
<1>3. QED
  BY <1>1, <1>2 DEF Kept, LanesInv, OneReady

\* So a thread is left for whoever spawns one.
LEMMA SomeAbsent ==
    ASSUME LanesInv, NEW r \in Role, Unlocked(r), cell[r] = None
    PROVE  \E l \in Lane : lane[l].state = "absent"
<1> DEFINE active == {l \in Lane : lane[l].state \in {"loading", "serving"}}
<1>1. LanesTypeOK /\ faults \in Nat /\ faults <= MaxFaults /\ MaxFaults \in Nat
  BY LanesAssumption DEF LanesInv, LanesTypeOK
<1>2. SUFFICES ASSUME \A l \in Lane : lane[l].state # "absent"
               PROVE  FALSE
  OBVIOUS
<1>3. \A l \in Lane : lane[l] \in LaneState
  BY <1>1 DEF LanesTypeOK
<1>4. Lane = Spent \cup active
  BY <1>2, <1>3 DEF Spent, LaneState
<1>5. \A l, m \in active : l = m
  <2>1. \A l \in active : lane[l].role \in Role /\ lane[l].role # r
    BY <1>3, NoneActive DEF LaneState
  <2>2. \A l, m \in active : lane[l].role = lane[m].role
    BY <2>1 DEF Role
  <2>3. QED
    BY <2>2, OneActive
<1>6. IsFiniteSet(Spent) /\ Cardinality(Spent) \in Nat /\ Cardinality(Spent) <= faults
  BY <1>1, SpentIs DEF LanesInv, FewSpent
<1>7. Cardinality(Lane) <= Cardinality(Spent) + 1
  <2>1. CASE active = {}
    <3>1. Lane = Spent
      BY <1>4, <2>1
    <3>2. QED
      BY <1>6, <3>1
  <2>2. CASE active # {}
    <3>1. PICK l \in active : Lane = Spent \cup {l}
      BY <1>4, <1>5, <2>2
    <3>2. l \in Lane \ Spent
      BY DEF Spent
    <3>3. QED
      BY <1>1, <1>6, <3>1, <3>2, SpentIs
  <2>3. QED
    BY <2>1, <2>2
<1>8. QED
  BY <1>1, <1>6, <1>7, LanesAssumption, FS_CardinalityType

LEMMA StepSpawns ==
    ASSUME LanesInv, NEW c \in Caller, Spawns(c)
    PROVE  LanesInv'
<1> DEFINE first == CHOOSE x \in Lane : lane[x].state = "absent"
<1>0. PICK r \in Role : r = caller[c].cell
  BY DEF LanesInv, LanesTypeOK, CallerState
<1> DEFINE new == [state |-> "loading", role |-> r, queue |-> <<>>]
           t(l) == [caller[c] EXCEPT !.at = "ready", !.lane = l]
<1>1. /\ LanesTypeOK /\ caller[c] \in CallerState /\ At(c, "lock") /\ CallerOK(c)
      /\ UNCHANGED cell /\ Unlocked(r) /\ cell[r] = None
  BY <1>0 DEF LanesInv, LanesTypeOK, Spawns
<1>2. CASE Fault /\ caller' = [caller EXCEPT ![c] = Errs(c)] /\ UNCHANGED lane
  <2>1. faults' \in faults .. MaxFaults
    BY <1>1, <1>2, LanesAssumption DEF LanesTypeOK, Fault
  <2>2. QED
    BY <1>1, <1>2, <2>1, StepErrs DEF At
<1>3. ASSUME NEW l \in Lane, lane[l].state = "absent",
             lane' = [lane EXCEPT ![l] = new],
             caller' = [caller EXCEPT ![c].at = "ready", ![c].lane = l],
             UNCHANGED faults
      PROVE  LanesInv'
  <2>2. l \in Lane /\ lane[l].state = "absent"
    BY <1>3
  <2>3. caller' = [caller EXCEPT ![c] = t(l)]
    BY <1>1, <1>3 DEF LanesTypeOK
  <2>4. /\ t(l) \in CallerState /\ t(l).at = "ready" /\ t(l).lane = l
        /\ t(l).role = caller[c].role /\ t(l).cell = r
    BY <1>0, <1>1, <2>2 DEF CallerState, Place
  <2>5. new \in LaneState /\ new.state = "loading" /\ new.role = r /\ new.queue = <<>>
    BY <1>0 DEF LaneState
  <2> HIDE DEF t, new
  <2>6. /\ caller' \in [Caller -> CallerState] /\ caller'[c] = t(l)
        /\ \A o \in Caller \ {c} : caller'[o] = caller[o]
    BY <1>1, <2>3, <2>4, CallerIs
  <2>7. /\ lane' \in [Lane -> LaneState] /\ lane'[l] = new
        /\ \A m \in Lane \ {l} : lane'[m] = lane[m]
    BY <1>1, <1>3, <2>2, <2>5, LaneIsOf
  <2>8. GoesOn
    BY <1>1, <2>2, <2>7 DEF GoesOn
  <2>9. LanesTypeOK'
    BY <1>1, <1>3, <2>6, <2>7 DEF LanesTypeOK
  <2>10. \A x \in Role : cell[x] # None => cell[x] \in Lane \ {l}
    BY <1>1, <2>2 DEF LanesInv, CellsOK, LanesTypeOK
  <2>11. CellsOK'
    BY <1>1, <2>7, <2>10 DEF LanesInv, CellsOK
  <2>12. OneReady'
    <3>1. \A o \in Caller \ {c} : At(o, "ready") => caller[o].cell # r
      BY <1>1 DEF Unlocked
    <3>2. QED
      BY <2>4, <2>6, <3>1 DEF LanesInv, OneReady, At
  <2>13. FewSpent'
    <3>1. Spent' \subseteq Spent
      BY <2>5, <2>7 DEF Spent
    <3>2. faults' \in Nat /\ faults' >= faults
      BY <1>1, <1>3, LanesAssumption DEF LanesTypeOK
    <3>3. QED
      BY <1>1, <3>1, <3>2, SpentMore DEF LanesInv
  <2>14. CallerOK(c)'
    <3>1. l # None /\ (r = "query" \/ caller[c].role = "document")
      BY <1>0, <1>1, <2>2, LanesAssumption DEF CallerOK, At
    <3>2. r = "document" => cell["query"] # None
      BY <1>0, <1>1 DEF CallerOK, At
    <3>3. QED
      BY <1>1, <2>4, <2>5, <2>6, <2>7, <3>1, <3>2 DEF CallerOK
  <2>15. ASSUME NEW o \in Caller \ {c}
         PROVE  CallerOK(o)'
    <3>1. CallerOK(o) /\ caller[o] \in CallerState /\ caller'[o] = caller[o]
      BY <1>1, <2>6 DEF LanesInv, LanesTypeOK
    <3>2. At(o, "waiting") => lane'[caller[o].lane] = lane[caller[o].lane]
      BY <2>2, <2>7, <3>1 DEF CallerOK, At, CallerState
    <3>3. At(o, "waiting") => /\ lane'[caller[o].lane].state = "serving"
                              /\ o \in Queued(caller[o].lane)'
      BY <3>1, <3>2 DEF CallerOK, At, Queued
    <3>4. At(o, "ready") => cell'[caller[o].cell] = None
      BY <1>1, <3>1 DEF CallerOK, At
    <3>5. QED
      BY <2>8, <3>1, <3>3, <3>4, OtherCaller
  <2>16. ASSUME NEW m \in Lane \ {l}
         PROVE  LaneOK(m)'
    BY <1>1, <2>6, <2>7, <2>8, OtherLane DEF At
  <2>17. LaneOK(l)'
    <3>1. At(c, "ready")' /\ caller'[c].lane = l /\ caller'[c].cell = lane'[l].role
      BY <2>4, <2>5, <2>6, <2>7 DEF At
    <3>2. Kept(l)'
      BY <3>1 DEF Kept
    <3>3. lane'[l].queue = <<>> /\ DOMAIN <<>> = {}
      BY <2>5, <2>7
    <3>4. QED
      BY <3>2, <3>3 DEF LaneOK
  <2>18. QED
    BY <2>9, <2>11, <2>12, <2>13, <2>14, <2>15, <2>16, <2>17 DEF LanesInv
<1>4. first \in Lane /\ lane[first].state = "absent"
  <2>1. \E x \in Lane : lane[x].state = "absent"
    BY <1>1, SomeAbsent
  <2>2. QED
    BY <2>1
<1>5. \/ /\ lane' = [lane EXCEPT ![first] = new]
         /\ caller' = [caller EXCEPT ![c].at = "ready", ![c].lane = first]
         /\ UNCHANGED faults
      \/ Fault /\ caller' = [caller EXCEPT ![c] = Errs(c)] /\ UNCHANGED lane
  BY <1>0 DEF Spawns
<1> HIDE DEF first, new
<1>6. QED
  BY <1>2, <1>3, <1>4, <1>5

LEMMA StepBecomesReady ==
    ASSUME LanesInv, NEW c \in Caller, BecomesReady(c)
    PROVE  LanesInv'
<1>1. /\ LanesTypeOK /\ caller[c] \in CallerState /\ At(c, "ready") /\ CallerOK(c)
  BY DEF LanesInv, LanesTypeOK, BecomesReady
<1>0. PICK r \in Role, l \in Lane : r = caller[c].cell /\ l = caller[c].lane
  BY <1>1 DEF CallerOK, CallerState, At
<1>2. /\ r \in Role /\ l \in Lane /\ lane[l] \in LaneState /\ lane[l].role = r
      /\ cell[r] = None /\ (r = "query" \/ caller[c].role = "document")
      /\ lane[l].state # "absent"
  BY <1>0, <1>1 DEF CallerOK, At, LanesTypeOK
<1>3. \A o \in Caller \ {c} : At(o, "ready") => caller[o].cell # r /\ caller[o].lane # l
  BY <1>0, <1>1, <1>2 DEF LanesInv, OneReady, CallerOK, At
<1>4. CASE /\ lane[l].state \in {"serving", "dead"} /\ cell' = [cell EXCEPT ![r] = l]
           /\ Moved(c, AfterLock(r)) /\ UNCHANGED <<lane, faults>>
  <2> DEFINE t == [caller[c] EXCEPT !.at = AfterLock(r)]
  <2>1. caller' = [caller EXCEPT ![c] = t]
    BY <1>1, <1>4 DEF LanesTypeOK, Moved
  <2>2. /\ t \in CallerState /\ t.at = AfterLock(r) /\ t.lane = l
        /\ t.role = caller[c].role /\ t.cell = r
    BY <1>0, <1>1 DEF CallerState, Place, AfterLock
  <2> HIDE DEF t
  <2>3. /\ caller' \in [Caller -> CallerState] /\ caller'[c] = t
        /\ \A o \in Caller \ {c} : caller'[o] = caller[o]
    BY <1>1, <2>1, <2>2, CallerIs
  <2>4. /\ cell' \in [Role -> Lane \cup {None}] /\ cell'[r] = l
        /\ \A x \in Role \ {r} : cell'[x] = cell[x]
    BY <1>1, <1>2, <1>4 DEF LanesTypeOK
  <2>5. GoesOn
    BY <1>2, <1>4, <2>4 DEF GoesOn
  <2>6. LanesTypeOK'
    BY <1>1, <1>4, <2>3, <2>4 DEF LanesTypeOK
  <2>7. CellsOK'
    BY <1>2, <1>4, <2>4 DEF LanesInv, CellsOK
  <2>8. t.at \notin {"ready", "waiting", "lock"}
    BY <2>2 DEF AfterLock
  <2>9. OneReady'
    BY <2>3, <2>8 DEF LanesInv, OneReady, At
  <2>10. FewSpent'
    BY <1>4 DEF LanesInv, FewSpent, Spent
  <2>11. CallerOK(c)'
    <3>1. l # None
      BY <1>2, LanesAssumption
    <3>2. CASE r = "query"
      BY <2>2, <2>3, <2>4, <3>1, <3>2 DEF CallerOK, AfterLock
    <3>3. CASE r = "document" /\ caller[c].role = "document"
      <4>1. cell["query"] # None
        BY <1>0, <1>1, <3>3 DEF CallerOK, At
      <4>2. "query" \in Role /\ cell'["query"] # None
        BY <1>2, <2>4, <3>3, <4>1 DEF Role
      <4>3. QED
        BY <2>2, <2>3, <2>4, <3>1, <3>3, <4>2 DEF CallerOK, AfterLock
    <3>4. QED
      BY <1>2, <3>2, <3>3 DEF Role
  <2>12. ASSUME NEW o \in Caller \ {c}
         PROVE  CallerOK(o)'
    <3>1. CallerOK(o) /\ caller[o] \in CallerState /\ caller'[o] = caller[o]
      BY <1>1, <2>3 DEF LanesInv, LanesTypeOK
    <3>2. At(o, "waiting") => /\ lane'[caller[o].lane].state = "serving"
                              /\ o \in Queued(caller[o].lane)'
      BY <1>4, <3>1 DEF CallerOK, At, Queued
    <3>3. At(o, "ready") => cell'[caller[o].cell] = None
      BY <1>3, <2>4, <3>1 DEF CallerOK, At, CallerState
    <3>4. QED
      BY <2>5, <3>1, <3>2, <3>3, OtherCaller
  <2>13. ASSUME NEW m \in Lane
         PROVE  LaneOK(m)'
    <3>1. caller[c].lane = m => Kept(m)'
      BY <1>0, <1>2, <1>4, <2>4 DEF Kept
    <3>2. QED
      BY <1>1, <1>4, <2>3, <2>5, <3>1, OtherLane DEF At
  <2>14. QED
    BY <2>6, <2>7, <2>9, <2>10, <2>11, <2>12, <2>13 DEF LanesInv
<1>5. ASSUME NEW state \in {"dead", "orphan"},
             caller' = [caller EXCEPT ![c] = Errs(c)], LaneIs(l, state), UNCHANGED cell,
             \/ lane[l].state = "failed" /\ UNCHANGED faults
             \/ lane[l].state = "loading" /\ Fault
      PROVE  LanesInv'
  <2> DEFINE t == [lane[l] EXCEPT !.state = state]
  <2>1. lane' = [lane EXCEPT ![l] = t]
    BY <1>1, <1>5 DEF LanesTypeOK, LaneIs
  <2>2. /\ t \in LaneState /\ t.state = state /\ t.role = r /\ t.queue = lane[l].queue
    BY <1>2 DEF LaneState
  <2> HIDE DEF t
  <2>3. /\ lane' \in [Lane -> LaneState] /\ lane'[l] = t
        /\ \A m \in Lane \ {l} : lane'[m] = lane[m]
    BY <1>1, <1>2, <2>1, <2>2, LaneIsOf
  <2>4. Errs(c) \in CallerState /\ Errs(c).at = "idle"
    BY <1>1, ErrsIs
  <2>5. /\ caller' \in [Caller -> CallerState] /\ caller'[c].at = "idle"
        /\ \A o \in Caller \ {c} : caller'[o] = caller[o]
    BY <1>1, <1>5, <2>4, CallerIs
  <2>6. faults \in Nat /\ faults' \in 0 .. MaxFaults /\ faults' \in Nat /\ faults' >= faults
    BY <1>1, <1>5, LanesAssumption DEF LanesTypeOK, Fault
  <2>7. LanesTypeOK'
    BY <1>1, <1>5, <2>3, <2>5, <2>6 DEF LanesTypeOK
  <2>8. GoesOn
    BY <1>2, <1>5, <2>2, <2>3 DEF GoesOn
  <2>9. lane[l].state \notin {"serving", "dead", "orphan", "absent"}
    BY <1>5
  <2>10. \A x \in Role : cell[x] # None => cell[x] \in Lane \ {l}
    BY <1>1, <2>9 DEF LanesInv, CellsOK, LanesTypeOK
  <2>11. CellsOK'
    BY <1>5, <2>3, <2>10 DEF LanesInv, CellsOK
  <2>12. OneReady'
    BY <2>5 DEF LanesInv, OneReady, At
  <2>13. FewSpent'
    <3>1. Spent' \subseteq Spent \cup {l}
      BY <2>3 DEF Spent
    <3>2. lane[l].state = "failed" => l \in Spent
      BY <1>2 DEF Spent
    <3>3. \/ Spent' \subseteq Spent
          \/ Spent' \subseteq Spent \cup {l} /\ faults' = faults + 1
      BY <1>5, <3>1, <3>2 DEF Fault
    <3>4. QED
      BY <1>1, <1>2, <2>6, <3>3, SpentMore DEF LanesInv
  <2>14. CallerOK(c)'
    BY <2>5 DEF CallerOK
  <2>15. ASSUME NEW o \in Caller \ {c}
         PROVE  CallerOK(o)'
    <3>1. CallerOK(o) /\ caller[o] \in CallerState /\ caller'[o] = caller[o]
      BY <1>1, <2>5 DEF LanesInv, LanesTypeOK
    <3>2. At(o, "waiting") => caller[o].lane \in Lane \ {l}
      BY <2>9, <3>1 DEF CallerOK, At, CallerState
    <3>3. At(o, "waiting") => /\ lane'[caller[o].lane].state = "serving"
                              /\ o \in Queued(caller[o].lane)'
      BY <2>3, <3>1, <3>2 DEF CallerOK, At, Queued
    <3>4. At(o, "ready") => cell'[caller[o].cell] = None
      BY <1>5, <3>1 DEF CallerOK, At
    <3>5. QED
      BY <2>8, <3>1, <3>3, <3>4, OtherCaller
  <2>16. ASSUME NEW m \in Lane \ {l}
         PROVE  LaneOK(m)'
    BY <1>0, <1>1, <2>3, <2>5, <2>8, OtherLane DEF At
  <2>17. LaneOK(l)'
    <3>1. lane[l].queue = <<>> /\ DOMAIN <<>> = {}
      BY <1>2, <2>9 DEF LanesInv, LaneOK
    <3>2. QED
      BY <1>5, <2>2, <2>3, <3>1 DEF LaneOK
  <2>18. QED
    BY <2>7, <2>11, <2>12, <2>13, <2>14, <2>15, <2>16, <2>17 DEF LanesInv
<1>6. QED
  BY <1>0, <1>4, <1>5 DEF BecomesReady

-----------------------------------------------------------------------------
(* Queues.                                                                 *)

LEMMA QueueAppended ==
    ASSUME NEW q \in Seq(Caller), NEW c \in Caller
    PROVE  LET p == Append(q, c) IN
           /\ p \in Seq(Caller) /\ DOMAIN q = 1 .. Len(q) /\ DOMAIN p = 1 .. Len(q) + 1
           /\ Len(q) \in Nat /\ \A i \in DOMAIN q : p[i] = q[i] /\ q[i] \in Caller
           /\ p[Len(q) + 1] = c
<1>1. /\ Append(q, c) \in Seq(Caller) /\ Len(Append(q, c)) = Len(q) + 1
      /\ \A i \in 1 .. Len(q) : Append(q, c)[i] = q[i]
      /\ Append(q, c)[Len(q) + 1] = c
  BY AppendProperties
<1>2. /\ DOMAIN q = 1 .. Len(q) /\ DOMAIN Append(q, c) = 1 .. Len(Append(q, c))
      /\ Len(q) \in Nat /\ \A i \in 1 .. Len(q) : q[i] \in Caller
  BY <1>1, LenProperties, ElementOfSeq
<1>3. QED
  BY <1>1, <1>2

LEMMA QueueServed ==
    ASSUME NEW q \in Seq(Caller), q # <<>>
    PROVE  /\ Tail(q) \in Seq(Caller) /\ Head(q) \in Caller /\ Head(q) = q[1]
           /\ Len(q) \in Nat /\ 1 \in 1 .. Len(q)
           /\ DOMAIN q = 1 .. Len(q) /\ DOMAIN Tail(q) = 1 .. Len(q) - 1
           /\ \A i \in DOMAIN Tail(q) : Tail(q)[i] = q[i + 1] /\ i + 1 \in DOMAIN q /\ i \in Nat
           /\ \A i \in DOMAIN q : q[i] \in Caller
<1>1. /\ Tail(q) \in Seq(Caller) /\ Head(q) \in Caller /\ Len(Tail(q)) = Len(q) - 1
      /\ \A i \in 1 .. Len(Tail(q)) : Tail(q)[i] = q[i + 1]
  BY HeadTailProperties
<1>2. /\ DOMAIN q = 1 .. Len(q) /\ DOMAIN Tail(q) = 1 .. Len(Tail(q))
      /\ Len(q) \in Nat /\ \A i \in 1 .. Len(q) : q[i] \in Caller
  BY <1>1, LenProperties, ElementOfSeq
<1>3. Len(q) # 0
  BY EmptySeq
<1>4. Head(q) = q[1]
  OBVIOUS
<1>5. QED
  BY <1>1, <1>2, <1>3, <1>4

LEMMA StepSends ==
    ASSUME LanesInv, NEW c \in Caller, Sends(c)
    PROVE  LanesInv'
<1>1. /\ LanesTypeOK /\ caller[c] \in CallerState /\ At(c, "send") /\ CallerOK(c)
      /\ UNCHANGED <<cell, faults>>
  BY DEF LanesInv, LanesTypeOK, Sends
<1>2. PICK l \in Lane : l = caller[c].lane
  BY <1>1 DEF CallerOK, CallerState, At
<1>3. /\ lane[l] \in LaneState /\ l = cell[caller[c].role] /\ l # None
      /\ caller[c].role \in Role /\ lane[l].role = caller[c].role
      /\ lane[l].queue \in Seq(Caller)
  <2>1. lane[l] \in LaneState /\ l # None /\ caller[c].role \in Role
    BY <1>1, LanesAssumption DEF LanesTypeOK, CallerState
  <2>2. l = cell[caller[c].role]
    BY <1>1, <1>2 DEF CallerOK, At
  <2>3. QED
    BY <2>1, <2>2 DEF LanesInv, CellsOK, LaneState
<1>4. CASE caller' = [caller EXCEPT ![c] = Errs(c)] /\ UNCHANGED lane
  <2>1. faults' \in faults .. MaxFaults
    BY <1>1, LanesAssumption DEF LanesTypeOK
  <2>2. QED
    BY <1>1, <1>4, <2>1, StepErrs DEF At
<1>5. CASE /\ lane[l].state = "serving" /\ Moved(c, "waiting")
           /\ lane' = [lane EXCEPT ![l].queue = Append(@, c)]
  <2> DEFINE q == lane[l].queue
             p == Append(q, c)
             t == [caller[c] EXCEPT !.at = "waiting"]
             x == [lane[l] EXCEPT !.queue = p]
  <2>1. caller' = [caller EXCEPT ![c] = t] /\ lane' = [lane EXCEPT ![l] = x]
    BY <1>1, <1>5 DEF LanesTypeOK, Moved
  <2>2. /\ p \in Seq(Caller) /\ DOMAIN q = 1 .. Len(q) /\ DOMAIN p = 1 .. Len(q) + 1
        /\ Len(q) \in Nat /\ \A i \in DOMAIN q : p[i] = q[i] /\ q[i] \in Caller
        /\ p[Len(q) + 1] = c
    BY <1>3, QueueAppended
  <2> HIDE DEF p
  <2>3. /\ t \in CallerState /\ t.at = "waiting" /\ t.lane = l /\ t.role = caller[c].role
    BY <1>1, <1>2 DEF CallerState, Place
  <2>4. x \in LaneState /\ x.state = "serving" /\ x.role = lane[l].role /\ x.queue = p
    BY <1>3, <1>5, <2>2 DEF LaneState
  <2> HIDE DEF t, x
  <2>5. /\ caller' \in [Caller -> CallerState] /\ caller'[c] = t
        /\ \A o \in Caller \ {c} : caller'[o] = caller[o]
    BY <1>1, <2>1, <2>3, CallerIs
  <2>6. /\ lane' \in [Lane -> LaneState] /\ lane'[l] = x
        /\ \A m \in Lane \ {l} : lane'[m] = lane[m]
    BY <1>1, <2>1, <2>4, LaneIsOf
  <2>7. LanesTypeOK'
    BY <1>1, <2>5, <2>6 DEF LanesTypeOK
  <2>8. \A m \in Lane : lane'[m].state = lane[m].state /\ lane'[m].role = lane[m].role
    BY <1>5, <2>4, <2>6
  <2>9. GoesOn
    BY <1>1, <2>8 DEF GoesOn
  <2>10. CellsOK'
    BY <1>1, <2>8 DEF LanesInv, CellsOK, LanesTypeOK
  <2>11. OneReady'
    BY <2>3, <2>5 DEF LanesInv, OneReady, At
  <2>12. FewSpent'
    <3>1. Spent' = Spent
      BY <2>8 DEF Spent
    <3>2. QED
      BY <1>1, <3>1 DEF LanesInv, FewSpent
  <2>13. \A i \in DOMAIN q : q[i] # c /\ At(q[i], "waiting") /\ caller[q[i]].lane = l
    BY <1>1 DEF LanesInv, LaneOK, At
  <2>14. Queued(l) \subseteq Queued(l)' /\ c \in Queued(l)'
    <3>1. Queued(l)' = {p[i] : i \in DOMAIN p} /\ Queued(l) = {q[i] : i \in DOMAIN q}
      BY <2>4, <2>6 DEF Queued
    <3>2. Len(q) + 1 \in DOMAIN p /\ DOMAIN q \subseteq DOMAIN p
      BY <2>2
    <3> HIDE DEF q
    <3>3. QED
      BY <2>2, <3>1, <3>2
  <2>15. CallerOK(c)'
    <3>1. cell' = cell /\ cell["query"] # None
      BY <1>1 DEF CallerOK, At
    <3>2. QED
      BY <1>3, <2>3, <2>4, <2>5, <2>6, <2>14, <3>1 DEF CallerOK
  <2>16. ASSUME NEW o \in Caller \ {c}
         PROVE  CallerOK(o)'
    <3>1. CallerOK(o) /\ caller[o] \in CallerState /\ caller'[o] = caller[o]
      BY <1>1, <2>5 DEF LanesInv, LanesTypeOK
    <3>2. \A m \in Lane : Queued(m) \subseteq Queued(m)'
      BY <2>6, <2>14 DEF Queued
    <3>3. At(o, "waiting") => caller[o].lane \in Lane
      BY <3>1 DEF CallerOK, At, CallerState
    <3>4. At(o, "waiting") => /\ lane'[caller[o].lane].state = "serving"
                              /\ o \in Queued(caller[o].lane)'
      <4>1. SUFFICES ASSUME At(o, "waiting"), NEW m \in Lane, m = caller[o].lane
                     PROVE  lane'[m].state = "serving" /\ o \in Queued(m)'
        BY <3>1, <3>3 DEF Queued
      <4>2. lane[m].state = "serving" /\ o \in Queued(m)
        BY <3>1, <4>1 DEF CallerOK, At
      <4>3. QED
        BY <2>8, <3>2, <4>2
    <3>5. At(o, "ready") => cell'[caller[o].cell] = None
      BY <1>1, <3>1 DEF CallerOK, At
    <3>6. QED
      BY <2>9, <3>1, <3>4, <3>5, OtherCaller
  <2>17. ASSUME NEW m \in Lane \ {l}
         PROVE  LaneOK(m)'
    BY <1>1, <2>5, <2>6, <2>9, OtherLane DEF At
  <2>18. LaneOK(l)'
    <3>1. \A i \in DOMAIN p : i \in DOMAIN q \/ i = Len(q) + 1
      BY <2>2
    <3>2. Len(q) + 1 \notin DOMAIN q
      BY <2>2
    <3>3. \A i \in DOMAIN p : caller'[p[i]].at = "waiting" /\ caller'[p[i]].lane = l
      <4> HIDE DEF q
      <4>1. QED
        BY <2>2, <2>3, <2>5, <2>13, <3>1 DEF At
    <3>4. \A i, j \in DOMAIN p : p[i] = p[j] => i = j
      <4>1. \A i, j \in DOMAIN q : q[i] = q[j] => i = j
        BY DEF LanesInv, LaneOK
      <4> HIDE DEF q
      <4>2. QED
        BY <2>2, <2>13, <3>1, <4>1
    <3>5. Kept(l)'
      <4>1. cell[lane[l].role] = l
        BY <1>3
      <4>2. cell' = cell /\ lane'[l].role = lane[l].role
        BY <1>1, <2>8
      <4>3. QED
        BY <4>1, <4>2 DEF Kept
    <3>6. QED
      BY <2>4, <2>6, <3>3, <3>4, <3>5 DEF LaneOK, At
  <2>19. QED
    BY <2>7, <2>10, <2>11, <2>12, <2>15, <2>16, <2>17, <2>18 DEF LanesInv
<1>6. QED
  BY <1>2, <1>4, <1>5 DEF Sends

LEMMA StepLoads ==
    ASSUME LanesInv, NEW l \in Lane, Loads(l)
    PROVE  LanesInv'
<1>1. LanesTypeOK /\ UNCHANGED <<cell, caller>> /\ lane[l] \in LaneState
  BY DEF LanesInv, LanesTypeOK, Loads
<1>2. PICK state \in {"serving", "failed", "dead"} :
        /\ LaneIs(l, state)
        /\ \/ lane[l].state = "loading" /\ state = "serving" /\ UNCHANGED faults
           \/ lane[l].state = "loading" /\ state = "failed" /\ Fault
           \/ lane[l].state = "orphan" /\ state = "dead" /\ UNCHANGED faults
  BY DEF Loads
<1> DEFINE t == [lane[l] EXCEPT !.state = state]
<1>3. lane' = [lane EXCEPT ![l] = t]
  BY <1>1, <1>2 DEF LanesTypeOK, LaneIs
<1>4. t \in LaneState /\ t.state = state /\ t.role = lane[l].role /\ t.queue = lane[l].queue
  BY <1>1 DEF LaneState
<1> HIDE DEF t
<1>5. /\ lane' \in [Lane -> LaneState] /\ lane'[l] = t
      /\ \A m \in Lane \ {l} : lane'[m] = lane[m]
  BY <1>1, <1>3, <1>4, LaneIsOf
<1>6. faults \in Nat /\ faults' \in 0 .. MaxFaults /\ faults' \in Nat /\ faults' >= faults
  BY <1>1, <1>2, LanesAssumption DEF LanesTypeOK, Fault
<1>7. LanesTypeOK'
  BY <1>1, <1>5, <1>6 DEF LanesTypeOK
<1>8. \A m \in Lane : lane'[m].role = lane[m].role /\ lane'[m].queue = lane[m].queue
  BY <1>4, <1>5
<1>9. GoesOn
  BY <1>1, <1>2, <1>4, <1>5 DEF GoesOn
<1>10. \A r \in Role : cell[r] # None => cell[r] \in Lane \ {l}
  BY <1>1, <1>2 DEF LanesInv, CellsOK, LanesTypeOK
<1>11. CellsOK'
  BY <1>1, <1>5, <1>10 DEF LanesInv, CellsOK
<1>12. OneReady'
  BY <1>1 DEF LanesInv, OneReady, At
<1>13. FewSpent'
  <2>1. Spent' \subseteq Spent \cup {l}
    BY <1>5 DEF Spent
  <2>2. \/ Spent' \subseteq Spent
        \/ Spent' \subseteq Spent \cup {l} /\ faults' = faults + 1
    <3>1. CASE state = "serving"
      BY <1>4, <1>5, <3>1 DEF Spent
    <3>2. CASE lane[l].state = "orphan"
      BY <2>1, <3>2 DEF Spent
    <3>3. QED
      BY <1>2, <2>1, <3>1, <3>2 DEF Fault
  <2>3. QED
    BY <1>1, <1>6, <2>2, SpentMore DEF LanesInv
<1>14. ASSUME NEW o \in Caller
       PROVE  CallerOK(o)'
  <2>1. CallerOK(o) /\ caller[o] \in CallerState /\ caller'[o] = caller[o]
    BY <1>1 DEF LanesInv, LanesTypeOK
  <2>2. At(o, "waiting") => caller[o].lane \in Lane \ {l}
    BY <1>2, <2>1 DEF CallerOK, At, CallerState
  <2>3. At(o, "waiting") => /\ lane'[caller[o].lane].state = "serving"
                            /\ o \in Queued(caller[o].lane)'
    BY <1>5, <2>1, <2>2 DEF CallerOK, At, Queued
  <2>4. At(o, "ready") => cell'[caller[o].cell] = None
    BY <1>1, <2>1 DEF CallerOK, At
  <2>5. QED
    BY <1>9, <2>1, <2>3, <2>4, OtherCaller
<1>15. ASSUME NEW m \in Lane
       PROVE  LaneOK(m)'
  <2>1. LaneOK(m) /\ (m # l => lane'[m] = lane[m])
    BY <1>5 DEF LanesInv
  <2>2. Kept(m) => Kept(m)'
    BY <1>1, <1>8 DEF Kept, At
  <2>3. m = l => lane[l].queue = <<>>
    BY <1>2, <2>1 DEF LaneOK
  <2>4. lane'[m].state \in {"loading", "serving"} => lane[m].state \in {"loading", "serving"}
    BY <1>2, <1>4, <1>5
  <2>5. lane'[m].state # "serving" => lane'[m].queue = <<>>
    BY <1>8, <2>1, <2>3 DEF LaneOK
  <2>6. QED
    BY <1>1, <1>8, <2>1, <2>2, <2>4, <2>5 DEF LaneOK, At
<1>16. QED
  BY <1>7, <1>11, <1>12, <1>13, <1>14, <1>15 DEF LanesInv

\* The reply goes to the caller at the head; the others wait on.
LEMMA StepServes ==
    ASSUME LanesInv, NEW l \in Lane, Serves(l)
    PROVE  LanesInv'
<1> DEFINE q == lane[l].queue
           p == Tail(q)
           x == [lane[l] EXCEPT !.queue = p]
<1>1. /\ LanesTypeOK /\ UNCHANGED <<cell, faults>> /\ lane[l] \in LaneState
      /\ lane[l].state = "serving" /\ q # <<>> /\ LaneOK(l)
  BY DEF LanesInv, LanesTypeOK, Serves
<1>2. q \in Seq(Caller)
  BY <1>1 DEF LaneState
<1>3. /\ p \in Seq(Caller) /\ Head(q) \in Caller /\ Head(q) = q[1]
      /\ Len(q) \in Nat /\ 1 \in 1 .. Len(q)
      /\ DOMAIN q = 1 .. Len(q) /\ DOMAIN p = 1 .. Len(q) - 1
      /\ \A i \in DOMAIN p : p[i] = q[i + 1] /\ i + 1 \in DOMAIN q /\ i \in Nat
      /\ \A i \in DOMAIN q : q[i] \in Caller
  BY <1>1, <1>2, QueueServed
<1>4. PICK c \in Caller : c = Head(q)
  BY <1>3
<1> DEFINE t == [caller[c] EXCEPT !.at = "handle"]
<1> HIDE DEF p
<1>5. caller' = [caller EXCEPT ![c] = t] /\ lane' = [lane EXCEPT ![l] = x]
  BY <1>1, <1>4 DEF LanesTypeOK, Moved, Serves, p
<1>6. /\ caller[c] \in CallerState /\ At(c, "waiting") /\ caller[c].lane = l /\ CallerOK(c)
  BY <1>1, <1>3, <1>4 DEF LaneOK, LanesInv, LanesTypeOK
<1>7. t \in CallerState /\ t.at = "handle"
  BY <1>6 DEF CallerState, Place
<1>8. x \in LaneState /\ x.state = "serving" /\ x.role = lane[l].role /\ x.queue = p
  BY <1>1, <1>3 DEF LaneState
<1> HIDE DEF t, x
<1>9. /\ caller' \in [Caller -> CallerState] /\ caller'[c] = t
      /\ \A o \in Caller \ {c} : caller'[o] = caller[o]
  BY <1>1, <1>5, <1>7, CallerIs
<1>10. /\ lane' \in [Lane -> LaneState] /\ lane'[l] = x
       /\ \A m \in Lane \ {l} : lane'[m] = lane[m]
  BY <1>1, <1>5, <1>8, LaneIsOf
<1>11. LanesTypeOK'
  BY <1>1, <1>9, <1>10 DEF LanesTypeOK
<1>12. \A m \in Lane : lane'[m].state = lane[m].state /\ lane'[m].role = lane[m].role
  BY <1>1, <1>8, <1>10
<1>13. GoesOn
  BY <1>1, <1>12 DEF GoesOn
<1>14. CellsOK'
  BY <1>1, <1>12 DEF LanesInv, CellsOK, LanesTypeOK
<1>15. OneReady'
  BY <1>7, <1>9 DEF LanesInv, OneReady, At
<1>16. FewSpent'
  <2>1. Spent' = Spent
    BY <1>12 DEF Spent
  <2>2. QED
    BY <1>1, <2>1 DEF LanesInv, FewSpent
<1>17. \A i \in DOMAIN q : i = 1 \/ q[i] # c
  BY <1>1, <1>3, <1>4 DEF LaneOK
<1>18. \A o \in Queued(l) \ {c} : o \in Queued(l)'
  <2>1. Queued(l)' = {p[i] : i \in DOMAIN p} /\ Queued(l) = {q[i] : i \in DOMAIN q}
    BY <1>8, <1>10 DEF Queued
  <2> SUFFICES ASSUME NEW o \in Queued(l) \ {c}
               PROVE  o \in Queued(l)'
    OBVIOUS
  <2>2. PICK i \in DOMAIN q : q[i] = o
    BY <2>1
  <2>3. i # 1 /\ i \in 1 .. Len(q)
    BY <1>3, <1>4, <2>2
  <2> HIDE DEF q
  <2>4. i - 1 \in DOMAIN p /\ (i - 1) + 1 = i
    BY <1>3, <2>3
  <2>5. p[i - 1] = o
    BY <1>3, <2>2, <2>4
  <2>6. QED
    BY <2>1, <2>4, <2>5
<1>19. CallerOK(c)'
  BY <1>1, <1>6, <1>7, <1>9 DEF CallerOK, At
<1>20. ASSUME NEW o \in Caller \ {c}
       PROVE  CallerOK(o)'
  <2>1. CallerOK(o) /\ caller[o] \in CallerState /\ caller'[o] = caller[o]
    BY <1>1, <1>9 DEF LanesInv, LanesTypeOK
  <2>2. At(o, "waiting") => caller[o].lane \in Lane
    BY <2>1 DEF CallerOK, At, CallerState
  <2>3. At(o, "waiting") => /\ lane'[caller[o].lane].state = "serving"
                            /\ o \in Queued(caller[o].lane)'
    <3>1. SUFFICES ASSUME At(o, "waiting"), NEW m \in Lane, m = caller[o].lane
                   PROVE  lane'[m].state = "serving" /\ o \in Queued(m)'
      BY <2>1, <2>2 DEF Queued
    <3>2. lane[m].state = "serving" /\ o \in Queued(m)
      BY <2>1, <3>1 DEF CallerOK, At
    <3>3. CASE m = l
      BY <1>12, <1>18, <3>2, <3>3
    <3>4. CASE m # l
      BY <1>10, <1>12, <3>2, <3>4 DEF Queued
    <3>5. QED
      BY <3>3, <3>4
  <2>4. At(o, "ready") => cell'[caller[o].cell] = None
    BY <1>1, <2>1 DEF CallerOK, At
  <2>5. QED
    BY <1>13, <2>1, <2>3, <2>4, OtherCaller
<1>21. ASSUME NEW m \in Lane \ {l}
       PROVE  LaneOK(m)'
  <2>1. LaneOK(m) /\ lane'[m] = lane[m] /\ lane[m] \in LaneState
    BY <1>1, <1>10 DEF LanesInv, LanesTypeOK
  <2>2. lane[m].queue \in Seq(Caller)
    BY <2>1 DEF LaneState
  <2>3. \A i \in DOMAIN lane[m].queue : lane[m].queue[i] \in Caller \ {c}
    <3>1. \A i \in DOMAIN lane[m].queue : lane[m].queue[i] \in Caller
      BY <2>2, ElementOfSeq, LenProperties
    <3>2. QED
      BY <1>6, <2>1, <3>1 DEF LaneOK
  <2>4. \A i \in DOMAIN lane[m].queue : caller'[lane[m].queue[i]] = caller[lane[m].queue[i]]
    BY <1>9, <2>3
  <2>5. Kept(m) => Kept(m)'
    BY <1>1, <1>6, <1>9, <2>1 DEF Kept, At
  <2>6. QED
    BY <2>1, <2>4, <2>5 DEF LaneOK, At
<1>22. LaneOK(l)'
  <2>1. \A i \in DOMAIN q : At(q[i], "waiting") /\ caller[q[i]].lane = l
    BY <1>1 DEF LaneOK
  <2>2. \A i \in DOMAIN p : p[i] \in Caller /\ p[i] # c
    <3>1. \A i \in DOMAIN p : i + 1 # 1 /\ i + 1 \in DOMAIN q
      BY <1>3
    <3> HIDE DEF q
    <3>2. QED
      BY <1>1, <1>3, <1>17, <3>1
  <2>3. \A i \in DOMAIN p : caller'[p[i]].at = "waiting" /\ caller'[p[i]].lane = l
    <3> HIDE DEF q
    <3>1. QED
      BY <1>3, <1>9, <2>1, <2>2 DEF At
  <2>4. \A i, j \in DOMAIN p : p[i] = p[j] => i = j
    <3>1. \A i, j \in DOMAIN q : q[i] = q[j] => i = j
      BY <1>1 DEF LaneOK
    <3> HIDE DEF q
    <3>2. \A i, j \in DOMAIN p : p[i] = p[j] => i + 1 = j + 1
      BY <1>3, <3>1
    <3>3. QED
      BY <1>3, <3>2
  <2>5. Kept(l)'
    <3>1. Kept(l)
      BY <1>1 DEF LaneOK
    <3>2. cell' = cell /\ lane'[l].role = lane[l].role
      BY <1>1, <1>12
    <3>3. QED
      BY <1>6, <1>9, <3>1, <3>2 DEF Kept, At
  <2>6. QED
    BY <1>8, <1>10, <2>3, <2>4, <2>5 DEF LaneOK, At
<1>23. QED
  BY <1>11, <1>14, <1>15, <1>16, <1>19, <1>20, <1>21, <1>22 DEF LanesInv

\* A panic sends back everyone who was queued, and nobody else.
LEMMA StepPanics ==
    ASSUME LanesInv, NEW l \in Lane, Panics(l)
    PROVE  LanesInv'
<1> DEFINE x == [lane[l] EXCEPT !.state = "dead", !.queue = <<>>]
<1>1. /\ LanesTypeOK /\ UNCHANGED cell /\ lane[l] \in LaneState
      /\ lane[l].state = "serving" /\ LaneOK(l) /\ Fault
      /\ caller' = [c \in Caller |-> IF c \in Queued(l) THEN Errs(c) ELSE caller[c]]
  BY DEF LanesInv, LanesTypeOK, Panics, Orphaned
<1>2. lane' = [lane EXCEPT ![l] = x]
  BY <1>1 DEF LanesTypeOK, Panics
<1>3. x \in LaneState /\ x.state = "dead" /\ x.role = lane[l].role /\ x.queue = <<>>
  <2>1. <<>> \in Seq(Caller)
    BY EmptySeq
  <2>2. QED
    BY <1>1, <2>1 DEF LaneState
<1> HIDE DEF x
<1>4. /\ lane' \in [Lane -> LaneState] /\ lane'[l] = x
      /\ \A m \in Lane \ {l} : lane'[m] = lane[m]
  BY <1>1, <1>2, <1>3, LaneIsOf
<1>5. \A c \in Caller : Errs(c) \in CallerState /\ Errs(c).at = "idle" /\ caller[c] \in CallerState
  BY <1>1, ErrsIs DEF LanesTypeOK
<1>6. /\ caller' \in [Caller -> CallerState]
      /\ \A c \in Caller : \/ caller'[c] = caller[c]
                           \/ c \in Queued(l) /\ caller'[c].at = "idle"
      /\ \A c \in Caller \ Queued(l) : caller'[c] = caller[c]
  BY <1>1, <1>5
<1>7. faults \in Nat /\ faults' \in 0 .. MaxFaults /\ faults' \in Nat /\ faults' = faults + 1
  BY <1>1, LanesAssumption DEF LanesTypeOK, Fault
<1>8. LanesTypeOK'
  BY <1>1, <1>4, <1>6, <1>7 DEF LanesTypeOK
<1>9. \A m \in Lane : lane'[m].role = lane[m].role
  BY <1>3, <1>4
<1>10. GoesOn
  BY <1>1, <1>3, <1>4 DEF GoesOn
<1>11. CellsOK'
  <2>1. \A r \in Role : cell[r] # None =>
          lane'[cell[r]].state \in {"serving", "dead"} /\ lane'[cell[r]].role = r
    BY <1>1, <1>3, <1>4 DEF LanesInv, CellsOK, LanesTypeOK
  <2>2. QED
    BY <1>1, <2>1 DEF CellsOK
<1>12. \A c \in Queued(l) : At(c, "waiting") /\ caller[c].lane = l
  BY <1>1 DEF LaneOK, Queued
<1>13. OneReady'
  BY <1>6 DEF LanesInv, OneReady, At
<1>14. FewSpent'
  <2>1. Spent' \subseteq Spent \cup {l}
    BY <1>4 DEF Spent
  <2>2. QED
    BY <1>1, <1>7, <2>1, SpentMore DEF LanesInv
<1>15. ASSUME NEW o \in Caller
       PROVE  CallerOK(o)'
  <2>1. CallerOK(o) /\ caller[o] \in CallerState
    BY <1>5 DEF LanesInv
  <2>2. CASE caller'[o].at = "idle"
    BY <2>2 DEF CallerOK
  <2>3. CASE o \notin Queued(l)
    <3>1. caller'[o] = caller[o]
      BY <1>6, <2>3
    <3>2. At(o, "waiting") => caller[o].lane \in Lane \ {l}
      BY <2>1, <2>3 DEF CallerOK, At, CallerState
    <3>3. At(o, "waiting") => /\ lane'[caller[o].lane].state = "serving"
                              /\ o \in Queued(caller[o].lane)'
      BY <1>4, <2>1, <3>1, <3>2 DEF CallerOK, At, Queued
    <3>4. At(o, "ready") => cell'[caller[o].cell] = None
      BY <1>1, <2>1 DEF CallerOK, At
    <3>5. QED
      BY <1>10, <3>1, <3>3, <3>4, OtherCaller
  <2>4. QED
    BY <1>1, <1>5, <2>2, <2>3
<1>16. ASSUME NEW m \in Lane \ {l}
       PROVE  LaneOK(m)'
  <2>1. LaneOK(m) /\ lane'[m] = lane[m] /\ lane[m] \in LaneState
    BY <1>1, <1>4 DEF LanesInv, LanesTypeOK
  <2>2. lane[m].queue \in Seq(Caller)
    BY <2>1 DEF LaneState
  <2>3. \A i \in DOMAIN lane[m].queue : lane[m].queue[i] \in Caller \ Queued(l)
    <3>1. \A i \in DOMAIN lane[m].queue : lane[m].queue[i] \in Caller
      BY <2>2, ElementOfSeq, LenProperties
    <3>2. QED
      BY <1>12, <2>1, <3>1 DEF LaneOK
  <2>4. \A i \in DOMAIN lane[m].queue : caller'[lane[m].queue[i]] = caller[lane[m].queue[i]]
    BY <1>6, <2>3
  <2>5. Kept(m) => Kept(m)'
    <3>1. \A o \in Caller : At(o, "ready") => caller'[o] = caller[o]
      BY <1>6, <1>12 DEF At
    <3>2. QED
      BY <1>1, <2>1, <3>1 DEF Kept, At
  <2>6. QED
    BY <2>1, <2>4, <2>5 DEF LaneOK, At
<1>17. LaneOK(l)'
  <2>1. DOMAIN <<>> = {}
    OBVIOUS
  <2>2. QED
    BY <1>3, <1>4, <2>1 DEF LaneOK
<1>18. QED
  BY <1>8, <1>11, <1>13, <1>14, <1>15, <1>16, <1>17 DEF LanesInv

-----------------------------------------------------------------------------
(* The theorems.                                                           *)

LEMMA InitLanes == Init => LanesInv
<1> SUFFICES ASSUME Init
             PROVE  LanesInv
  OBVIOUS
<1>1. <<>> \in Seq(Caller) /\ DOMAIN <<>> = {}
  BY EmptySeq
<1>2. [state |-> "absent", role |-> "query", queue |-> <<>>] \in LaneState
  BY <1>1 DEF LaneState, Role
<1>3. Idle \in CallerState /\ Idle.at = "idle"
  BY LanesAssumption DEF Idle, CallerState, Place, Role
<1>4. LanesTypeOK
  BY <1>2, <1>3, LanesAssumption DEF Init, LanesTypeOK
<1>5. CellsOK
  BY DEF Init, CellsOK
<1>6. \A c \in Caller : caller[c].at = "idle"
  BY <1>3 DEF Init
<1>7. OneReady /\ \A c \in Caller : CallerOK(c)
  BY <1>6 DEF OneReady, CallerOK, At
<1>8. \A l \in Lane : LaneOK(l)
  BY <1>1 DEF Init, LaneOK
<1>9. FewSpent
  <2>1. Spent = {}
    BY DEF Init, Spent
  <2>2. Cardinality({}) = 0
    BY FS_EmptySet
  <2>3. QED
    BY <2>1, <2>2 DEF FewSpent, Init
<1>10. QED
  BY <1>4, <1>5, <1>7, <1>8, <1>9 DEF LanesInv

LEMMA NextLanes == LanesInv /\ [Next]_vars => LanesInv'
<1> SUFFICES ASSUME LanesInv, [Next]_vars
             PROVE  LanesInv'
  OBVIOUS
<1>1. ASSUME NEW c \in Caller, Proceed(c)
      PROVE  LanesInv'
  <2>1. CASE Leaves(c)
    <3>1. faults' \in faults .. MaxFaults
      BY <2>1, LanesAssumption DEF LanesInv, LanesTypeOK, Leaves
    <3>2. QED
      BY <2>1, <3>1, StepErrs DEF Leaves, At
  <2>2. QED
    BY <1>1, <2>1, StepAsks, StepFinds, StepSpawns, StepBecomesReady, StepEmbeds, StepSends
       DEF Proceed
<1>2. ASSUME NEW l \in Lane, Works(l)
      PROVE  LanesInv'
  BY <1>2, StepLoads, StepServes, StepPanics DEF Works
<1>3. CASE UNCHANGED vars
  BY <1>3 DEF vars, LanesInv, LanesTypeOK, CellsOK, OneReady, FewSpent, Spent, CallerOK, LaneOK,
              Kept, Queued, At
<1>4. QED
  BY <1>1, <1>2, <1>3 DEF Next

\* Every variable has its type; in particular a thread is left to be spawned.
THEOREM LanesTypeCorrect == Spec => []LanesTypeOK
<1>1. LanesInv => LanesTypeOK
  BY DEF LanesInv
<1>2. QED
  BY InitLanes, NextLanes, <1>1, PTL DEF Spec

\* Whoever waits for a reply is queued at the living lane of its role, the only
\* one that loads or serves: a cell is filled under its lock, by a lane of its
\* role, and never again, and a panic sends everyone in the queue back.
THEOREM CallersWaitAtTheirLane == Spec => []WaitsAtTheLaneOfItsRole
<1>1. LanesInv => WaitsAtTheLaneOfItsRole
  <2> SUFFICES ASSUME LanesInv
               PROVE  WaitsAtTheLaneOfItsRole
    OBVIOUS
  <2>1. ASSUME NEW c \in Caller, At(c, "waiting")
        PROVE  \E l \in Lane : /\ lane[l].state = "serving" /\ lane[l].role = caller[c].role
                               /\ c \in Queued(l)
    BY <2>1 DEF LanesInv, CallerOK, At, LanesTypeOK, CallerState
  <2>2. QED
    BY <2>1, OneActive DEF WaitsAtTheLaneOfItsRole
<1>2. QED
  BY InitLanes, NextLanes, <1>1, PTL DEF Spec

=============================================================================
