--------------------------- MODULE RemoteBackend ---------------------------
(***************************************************************************)
(* One batch of RemoteBackend of codeindex-embedding (embed/remote/mod.rs):*)
(* embed splits the inputs into requests, and worker threads that share a  *)
(* RateGate take them from a counter, send them, retry, halve the ones the *)
(* server finds too large, and store their vectors in order.               *)
(*                                                                         *)
(* An input is its index, and so is the vector the model gives it; the     *)
(* server may answer anything the code can tell apart.  A delay before a   *)
(* retry is the time a worker takes to ask for its next permit.  Meters    *)
(* and messages are left out.                                              *)
(***************************************************************************)
EXTENDS RateGate, Sequences, SequencesExt

CONSTANTS
    Length,     \* [1 .. InputCount -> Nat]: the characters of each input
    MaxItems,   \* max_inputs_per_request
    MaxChars,   \* max_request_chars
    MaxRetries, \* max_retries
    MaxWait,    \* rate_limit_max_wait, in ticks
    Error       \* the result of a request that failed

Inputs == DOMAIN Length

ASSUME RemoteAssumption ==
    /\ Length \in Seq(Nat)
    /\ {MaxItems, MaxChars} \subseteq Nat \ {0}
    /\ {MaxRetries, MaxWait} \subseteq Nat
    /\ {Error, None} \cap Seq(Inputs) = {}
    /\ Error # None

VARIABLES
    next,     \* the next request to take; more than there are after a failure
    results,  \* [requests -> vectors, Error or None]
    job,      \* [Worker -> Job]: the local variables of each worker
    outcome   \* what embed returned, or None

remoteVars == <<next, results, job, outcome>>
batchVars == <<gateVars, remoteVars>>

-----------------------------------------------------------------------------
(* split_requests.                                                         *)

\* A request is a pair: its first and its last input.
First(call) == call[1]
Size(call) == call[2] - call[1] + 1

Chars(first, last) == FoldLeft(LAMBDA n, m : n + m, 0, SubSeq(Length, first, last))

\* Input n does not fit into the request that begins with `first`.
Full(first, n) == n - first >= MaxItems \/ Chars(first, n) > MaxChars

\* The requests of the first n inputs.
Split[n \in 0 .. Len(Length)] ==
    IF n = 0 THEN <<>>
    ELSE LET split == Split[n - 1]
         IN IF split = <<>> \/ Full(First(Last(split)), n) THEN Append(split, <<n, n>>)
            ELSE Append(Front(split), <<First(Last(split)), n>>)

Requests == Split[Len(Length)]

Threads == IF Ceiling < Len(Requests) THEN Ceiling ELSE Len(Requests)

-----------------------------------------------------------------------------
(* embed_chunk: `calls` are the requests that remain of the recursion, the *)
(* one that is being sent first; `retries` and `limited`, the ticks since  *)
(* its first 429, belong to that one.                                      *)

Job == [pc : {"taking", "calling", "storing", "stopping", "ended"},
        index : Nat, calls : Seq(Inputs \X Inputs), out : Seq(Inputs),
        failed : BOOLEAN, retries : 0 .. MaxRetries,
        limited : 0 .. MaxWait \cup {None}]

NewJob == [pc |-> "taking", index |-> 0, calls |-> <<>>, out |-> <<>>,
           failed |-> FALSE, retries |-> 0, limited |-> None]

\* embed starts as many threads as it may use.  The one thread of a batch that
\* needs no more is the caller itself; it goes through the same steps.
RemoteInit ==
    /\ GateInit
    /\ Cardinality(Worker) = Threads
    /\ next = 1
    /\ results = [k \in DOMAIN Requests |-> None]
    /\ job = [w \in Worker |-> NewJob]
    /\ outcome = None

Becomes(w, j) == job' = [job EXCEPT ![w] = j]

\* The call that is being sent has been answered for good.
Calls(j, calls, out) ==
    [j EXCEPT !.pc = IF calls = <<>> THEN "storing" ELSE "calling",
              !.calls = calls, !.out = out, !.retries = 0, !.limited = None]

Fails(j) == [j EXCEPT !.pc = "storing", !.calls = <<>>, !.out = <<>>,
                      !.failed = TRUE, !.retries = 0, !.limited = None]

\* Faulty: vectors are taken in the order they come in.
CollectedAsSent(call, data) ==
    IF Len(data) # Size(call) \/ \E i \in DOMAIN data : data[i] > Size(call)
    THEN Error
    ELSE [i \in 1 .. Size(call) |-> First(call) + data[i] - 1]

\* collect: `data` gives the index of each vector of the answer.
Collected(call, data) ==
    IF Len(data) = Size(call) /\ ToSet(data) = 1 .. Size(call)
    THEN [i \in 1 .. Size(call) |-> First(call) + i - 1]
    ELSE Error

\* What a server may answer: too few, too many, twice the same, out of range.
Answers(call) ==
    UNION {[1 .. n -> 1 .. Size(call) + 1] : n \in 0 .. Size(call) + 1}

Vectors(w) ==
    LET j == job[w]
        call == Head(j.calls)
    IN \E data \in Answers(call) :
          LET vectors == Collected(call, data)
          IN IF vectors = Error
             THEN Drop(w) /\ Becomes(w, Fails(j))
             ELSE Succeed(w) /\ Becomes(w, Calls(j, Tail(j.calls), j.out \o vectors))

\* Faulty: every 429 starts the wait over.
SinceLast(j) == 0

\* limited_since.elapsed()
Since(j) == IF j.limited = None THEN 0 ELSE j.limited

TooManyRequests(w) ==
    LET j == job[w]
    IN /\ \E delay \in Delays : RateLimited(w, delay)
       /\ Becomes(w, IF Since(j) >= MaxWait THEN Fails(j)
                     ELSE [j EXCEPT !.limited = Since(j)])

Splittable(call) == Size(call) > 1

TooLarge(w) ==
    LET j == job[w]
        call == Head(j.calls)
        middle == First(call) + Size(call) \div 2
    IN /\ Drop(w)
       /\ Becomes(w, IF ~Splittable(call) THEN Fails(j)
                     ELSE Calls(j, <<<<First(call), middle - 1>>, <<middle, call[2]>>>>
                                      \o Tail(j.calls), j.out))

\* A connection that breaks, a timeout, an overloaded server.
Retry(w) ==
    LET j == job[w]
    IN /\ Drop(w)
       /\ Becomes(w, IF j.retries >= MaxRetries THEN Fails(j)
                     ELSE [j EXCEPT !.retries = @ + 1])

Fatal(w) == Drop(w) /\ Becomes(w, Fails(job[w]))

Answered(w) ==
    /\ place[w] = "sending"
    /\ Vectors(w) \/ TooManyRequests(w) \/ TooLarge(w) \/ Retry(w) \/ Fatal(w)
    /\ UNCHANGED <<next, results, outcome>>

\* A permit is waited for, or the others are told of one that was returned.
Passes(w) ==
    /\ \/ job[w].pc = "calling" /\ (Ask(w) \/ TryAcquire(w) \/ WakeUp(w))
       \/ Notify(w)
    /\ UNCHANGED remoteVars

-----------------------------------------------------------------------------
(* embed: the loop of a worker thread, and the result of the batch.        *)

\* next.fetch_add
Take(w) ==
    /\ job[w].pc = "taking"
    /\ next' = next + 1
    /\ Becomes(w, IF next \in DOMAIN Requests
                  THEN [NewJob EXCEPT !.pc = "calling", !.index = next,
                                      !.calls = <<Requests[next]>>]
                  ELSE [NewJob EXCEPT !.pc = "ended"])
    /\ UNCHANGED <<gateVars, results, outcome>>

\* Faulty: a failure only stops the other workers.
StoredUnlessFailed(j) == IF j.failed THEN None ELSE j.out

Stored(j) == IF j.failed THEN Error ELSE j.out

Store(w) ==
    LET j == job[w]
    IN /\ j.pc = "storing"
       /\ place[w] = "outside"
       /\ results' = [results EXCEPT ![j.index] = Stored(j)]
       /\ Becomes(w, [NewJob EXCEPT !.pc = IF j.failed THEN "stopping" ELSE "taking"])
       /\ UNCHANGED <<gateVars, next, outcome>>

\* next.store: no more work is handed out.
Stop(w) ==
    /\ job[w].pc = "stopping"
    /\ next' = Len(Requests) + 1
    /\ Becomes(w, [NewJob EXCEPT !.pc = "ended"])
    /\ UNCHANGED <<gateVars, results, outcome>>

\* The scope joins its threads; an incomplete batch is an error of its own.
Incomplete == <<"incomplete">>

Return ==
    LET out == FlattenSeq([k \in DOMAIN results |->
                              IF results[k] = None THEN <<>> ELSE results[k]])
    IN /\ outcome = None
       /\ \A w \in Worker : job[w].pc = "ended"
       /\ outcome' = IF \E k \in DOMAIN results : results[k] = Error THEN Error
                     ELSE IF Len(out) = Len(Length) THEN out ELSE Incomplete
       /\ UNCHANGED <<gateVars, next, results, job>>

\* Time passes for the pause and for every request that is being limited.
TimePasses ==
    /\ Tick
    /\ job' = [w \in Worker |->
                  IF job[w].limited \in 0 .. MaxWait - 1
                  THEN [job[w] EXCEPT !.limited = @ + 1] ELSE job[w]]
    /\ UNCHANGED <<next, results, outcome>>

Step(w) == Take(w) \/ Passes(w) \/ Answered(w) \/ Store(w) \/ Stop(w)

RemoteNext == (\E w \in Worker : Step(w)) \/ Return \/ TimePasses

RemoteSafety == RemoteInit /\ [][RemoteNext]_batchVars

\* What a thread does by itself: a parked one waits until it is notified, and may
\* but need not wake up without; one that waits out a pause has a timeout.
Runs(w) == place[w] # "parked" /\ Step(w)

\* Threads run, every request is answered or times out, and time passes.
RemoteSpec ==
    /\ RemoteSafety
    /\ WF_batchVars(Return)
    /\ WF_batchVars(TimePasses)
    /\ \A w \in Worker : WF_batchVars(Runs(w))
-----------------------------------------------------------------------------
(* Properties.                                                             *)

RemoteTypeOK ==
    /\ next \in 1 .. Len(Requests) + 1 + Cardinality(Worker)
    /\ results \in [DOMAIN Requests -> Seq(Inputs) \cup {Error, None}]
    /\ job \in [Worker -> Job]
    /\ \A w \in Worker : place[w] \notin {"outside", "notifying"} => job[w].pc = "calling"

\* A batch is complete and in order, or an error: whatever is answered, halved,
\* retried and stored by whichever thread, no vector is missing, doubled or
\* given to another input, and the code's own check for an incomplete batch
\* never fires.
CompleteOrError == outcome \in {None, Error, [i \in Inputs |-> i]}

\* Every batch ends, however long the server keeps answering 429, asks to wait,
\* drops connections or halves requests: a thread parked without a timeout, which
\* nothing but a notification is sure to wake, is notified.
BatchEnds == <>(outcome # None)
=============================================================================
