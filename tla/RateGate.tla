------------------------------ MODULE RateGate ------------------------------
(***************************************************************************)
(* RateGate of codeindex-embedding (embed/remote/throttle.rs): admission   *)
(* control that the request workers of a remote backend share.  A mutex    *)
(* guards the state, so every critical section is one action; a condition  *)
(* variable parks workers, and may wake them for no reason.                *)
(*                                                                         *)
(* Time is counted in ticks and `pause` is what is left of it.  The length *)
(* of a pause is the server's Retry-After or a jittered exponential delay: *)
(* here any member of Delays.  Left out are rate_limit_streak, which only  *)
(* scales that delay, and the two counters of the usage summary.           *)
(***************************************************************************)
EXTENDS Naturals, FiniteSets

CONSTANTS
    Worker,    \* the threads that share the gate
    Ceiling,   \* the configured concurrency
    Adaptive,  \* whether a 429 cuts the limit
    Delays,    \* lengths of a pause, in ticks
    None       \* no pause

ASSUME GateAssumption ==
    /\ IsFiniteSet(Worker)
    /\ Ceiling \in Nat \ {0}
    /\ Adaptive \in BOOLEAN
    /\ Delays \subseteq Nat
    /\ None \notin Nat

VARIABLES
    limit,      \* requests allowed in flight
    inFlight,   \* requests in flight
    successes,  \* since the last 429 or rise; Ceiling stands for any more
    pause,      \* ticks until the global pause ends, or None
    place,      \* [Worker -> Place]: where each thread is
    owed        \* history: ticks until every pause asked for so far has passed

gateVars == <<limit, inFlight, successes, pause, place, owed>>

\* A thread waits in acquire with a timeout ("pausing") or without ("parked"),
\* and notifies after it has released both its permit and the mutex.
Place == {"outside", "asking", "pausing", "parked", "sending", "notifying"}
Waiting == {"pausing", "parked"}

GateInit ==
    /\ limit = Ceiling
    /\ inFlight = 0
    /\ successes = 0
    /\ pause = None
    /\ place = [w \in Worker |-> "outside"]
    /\ owed = 0

Sending == {w \in Worker : place[w] = "sending"}

Larger(m, n) == IF m > n THEN m ELSE n

\* An active pause: its deadline has not passed.
Pausing == pause # None /\ pause > 0

-----------------------------------------------------------------------------
(* acquire.                                                                *)

Ask(w) ==
    /\ place[w] = "outside"
    /\ place' = [place EXCEPT ![w] = "asking"]
    /\ UNCHANGED <<limit, inFlight, successes, pause, owed>>

\* One turn of the loop: wait out the pause, take a permit, or park.
TryAcquire(w) ==
    /\ place[w] = "asking"
    /\ \/ /\ Pausing
          /\ place' = [place EXCEPT ![w] = "pausing"]
          /\ UNCHANGED <<inFlight, pause>>
       \/ /\ ~Pausing
          /\ inFlight < limit
          /\ pause' = None
          /\ inFlight' = inFlight + 1
          /\ place' = [place EXCEPT ![w] = "sending"]
       \/ /\ ~Pausing
          /\ inFlight >= limit
          /\ pause' = None
          /\ place' = [place EXCEPT ![w] = "parked"]
          /\ UNCHANGED inFlight
    /\ UNCHANGED <<limit, successes, owed>>

\* The timeout of a pausing thread, or a spurious wakeup.
WakeUp(w) ==
    /\ place[w] \in Waiting
    /\ place' = [place EXCEPT ![w] = "asking"]
    /\ UNCHANGED <<limit, inFlight, successes, pause, owed>>

-----------------------------------------------------------------------------
(* release, with its three outcomes, and the notification after it.        *)

\* saturating_sub
Released(w) ==
    /\ place' = [place EXCEPT ![w] = "notifying"]
    /\ inFlight' = IF inFlight = 0 THEN 0 ELSE inFlight - 1

Succeed(w) ==
    LET rises == Adaptive /\ limit < Ceiling /\ successes + 1 >= limit
    IN /\ place[w] = "sending"
       /\ Released(w)
       /\ limit' = IF rises THEN limit + 1 ELSE limit
       /\ successes' = IF rises THEN 0
                       ELSE IF successes < Ceiling THEN successes + 1 ELSE Ceiling
       /\ UNCHANGED <<pause, owed>>

Halved == Larger(limit \div 2, 1)

\* Faulty: the newest pause replaces a longer one.
Newest(delay) == delay

\* The later of the two deadlines.
Extended(delay) == IF pause = None THEN delay ELSE Larger(pause, delay)

\* A 429 that comes while a pause is active does not cut the limit again.
RateLimited(w, delay) ==
    /\ place[w] = "sending"
    /\ Released(w)
    /\ limit' = IF Adaptive /\ ~Pausing THEN Halved ELSE limit
    /\ successes' = 0
    /\ pause' = Extended(delay)
    /\ owed' = Larger(owed, delay)

\* Faulty: a permit that is not reported is not returned.
DropLosingPermit(w) ==
    /\ place[w] = "sending"
    /\ place' = [place EXCEPT ![w] = "notifying"]
    /\ UNCHANGED <<limit, inFlight, successes, pause, owed>>

\* A permit that is dropped without a report.
Drop(w) ==
    /\ place[w] = "sending"
    /\ Released(w)
    /\ UNCHANGED <<limit, successes, pause, owed>>

\* Faulty: only the threads that wait out a pause are notified.
NotifiedPausing(w) ==
    [v \in Worker |-> IF v = w THEN "outside"
                      ELSE IF place[v] = "pausing" THEN "asking" ELSE place[v]]

\* notify_all
Notified(w) ==
    [v \in Worker |-> IF v = w THEN "outside"
                      ELSE IF place[v] \in Waiting THEN "asking" ELSE place[v]]

Notify(w) ==
    /\ place[w] = "notifying"
    /\ place' = Notified(w)
    /\ UNCHANGED <<limit, inFlight, successes, pause, owed>>

Elapsed(left) == IF left = 0 THEN 0 ELSE left - 1

Tick ==
    /\ pause' = IF pause = None THEN None ELSE Elapsed(pause)
    /\ owed' = Elapsed(owed)
    /\ UNCHANGED <<limit, inFlight, successes, place>>

-----------------------------------------------------------------------------

GateNext ==
    \/ \E w \in Worker :
          \/ Ask(w) \/ TryAcquire(w) \/ WakeUp(w) \/ Succeed(w) \/ Drop(w)
          \/ \E delay \in Delays : RateLimited(w, delay)
          \/ Notify(w)
    \/ Tick

GateSpec == GateInit /\ [][GateNext]_gateVars
-----------------------------------------------------------------------------
(* Properties.                                                             *)

\* Every variable has its type; the limit stays between one and the ceiling.
GateTypeOK ==
    /\ limit \in 1 .. Ceiling
    /\ inFlight \in 0 .. Ceiling
    /\ successes \in 0 .. Ceiling
    /\ pause \in Nat \cup {None}
    /\ place \in [Worker -> Place]
    /\ owed \in Nat

\* No permit is lost or returned twice: the count of requests in flight is the
\* number of threads that hold one, whatever the outcome of their requests.
PermitsBalance == inFlight = Cardinality(Sending)

\* No lost wakeup: a thread parked without a timeout waits for a permit that
\* another thread holds and will return, or for a notification on its way.
ParkedForAReason ==
    \A w \in Worker : place[w] = "parked" =>
        inFlight >= limit \/ \E v \in Worker : place[v] = "notifying"

\* A pause is global and never cut short: once a server has asked to wait, no
\* thread begins a request before that time has passed, whatever other answers
\* come in meanwhile.
PausesAreKept ==
    [][\A w \in Worker : place[w] # "sending" /\ place'[w] = "sending"
          => owed = 0]_gateVars
=============================================================================
