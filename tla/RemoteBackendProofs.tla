------------------------ MODULE RemoteBackendProofs ------------------------
(***************************************************************************)
(* The gate and the batch of a remote backend, for any number of threads,  *)
(* inputs and retries, any ceiling and any delays.  The gate: types, the   *)
(* balance of permits, no lost wakeup, and pauses that are kept.  The      *)
(* batch: it uses the gate as the gate expects, and returns all vectors in *)
(* the order of the inputs, or an error.                                   *)
(***************************************************************************)
EXTENDS RemoteBackend, Induction, FiniteSetTheorems, SequenceTheorems, TLAPS

-----------------------------------------------------------------------------
(* Types.                                                                  *)

LEMMA HalvedInRange ==
    ASSUME NEW n \in Nat, NEW m \in 1 .. n
    PROVE  Larger(m \div 2, 1) \in 1 .. m
BY DEF Larger

LEMMA TypeInit == GateInit => GateTypeOK
BY GateAssumption DEF GateInit, GateTypeOK, Place

LEMMA TypeStep == GateTypeOK /\ [GateNext]_gateVars => GateTypeOK'
<1> SUFFICES ASSUME GateTypeOK, [GateNext]_gateVars PROVE GateTypeOK'
  OBVIOUS
<1> USE GateAssumption DEF GateTypeOK, Place
<1>1. ASSUME NEW w \in Worker, Ask(w) PROVE GateTypeOK'
  BY <1>1 DEF Ask
<1>2. ASSUME NEW w \in Worker, TryAcquire(w) PROVE GateTypeOK'
  BY <1>2 DEF TryAcquire
<1>3. ASSUME NEW w \in Worker, WakeUp(w) PROVE GateTypeOK'
  BY <1>3 DEF WakeUp
<1>4. ASSUME NEW w \in Worker, Succeed(w) PROVE GateTypeOK'
  BY <1>4 DEF Succeed, Released
<1>5. ASSUME NEW w \in Worker, Drop(w) PROVE GateTypeOK'
  BY <1>5 DEF Drop, Released
<1>6. ASSUME NEW w \in Worker, NEW delay \in Delays, RateLimited(w, delay)
      PROVE  GateTypeOK'
  <2>1. Halved \in 1 .. limit
    BY HalvedInRange DEF Halved
  <2>2. pause' \in Nat /\ owed' \in Nat
    BY <1>6 DEF RateLimited, Extended, Larger
  <2>3. limit' \in 1 .. Ceiling
    BY <1>6, <2>1 DEF RateLimited
  <2>4. QED
    BY <1>6, <2>2, <2>3 DEF RateLimited, Released
<1>7. ASSUME NEW w \in Worker, Notify(w) PROVE GateTypeOK'
  BY <1>7 DEF Notify, Notified
<1>8. CASE Tick
  BY <1>8 DEF Tick, Elapsed
<1>9. CASE UNCHANGED gateVars
  BY <1>9 DEF gateVars
<1>10. QED
  BY <1>1, <1>2, <1>3, <1>4, <1>5, <1>6, <1>7, <1>8, <1>9 DEF GateNext

\* Every variable of the gate has its type in every reachable state; the limit
\* stays between one and the configured concurrency.
THEOREM GateTypeCorrect == GateSpec => []GateTypeOK
BY TypeInit, TypeStep, PTL DEF GateSpec

-----------------------------------------------------------------------------
(* Permits.                                                                *)

LEMMA SendingFinite == IsFiniteSet(Sending)
<1>1. Sending \in SUBSET Worker
  BY DEF Sending
<1>2. QED
  BY <1>1, GateAssumption, FS_Subset

\* A thread that leaves the set of the sending ones returns one permit.
LEMMA PermitReturned ==
    ASSUME GateTypeOK, PermitsBalance, NEW w \in Worker, place[w] = "sending",
           Released(w)
    PROVE  PermitsBalance'
<1>1. Sending' = Sending \ {w}
  BY DEF Released, Sending, GateTypeOK
<1>2. w \in Sending
  BY DEF Sending
<1>3. Cardinality(Sending') = Cardinality(Sending) - 1
  BY <1>1, <1>2, SendingFinite, FS_RemoveElement
<1>4. Cardinality(Sending) # 0
  BY <1>2, SendingFinite, FS_EmptySet
<1>5. QED
  BY <1>3, <1>4 DEF PermitsBalance, Released

LEMMA PermitsStep ==
    GateTypeOK /\ PermitsBalance /\ [GateNext]_gateVars => PermitsBalance'
<1> SUFFICES ASSUME GateTypeOK, PermitsBalance, [GateNext]_gateVars
             PROVE  PermitsBalance'
  OBVIOUS
<1>0. ASSUME Sending' = Sending, inFlight' = inFlight PROVE PermitsBalance'
  BY <1>0 DEF PermitsBalance
<1>1. ASSUME NEW w \in Worker, Ask(w) PROVE PermitsBalance'
  BY <1>0, <1>1 DEF Ask, Sending, GateTypeOK
<1>2. ASSUME NEW w \in Worker, TryAcquire(w) PROVE PermitsBalance'
  <2>1. CASE place'[w] = "sending"
    <3>1. Sending' = Sending \cup {w} /\ w \notin Sending /\ inFlight' = inFlight + 1
      BY <1>2, <2>1 DEF TryAcquire, Sending, GateTypeOK
    <3>2. QED
      BY <3>1, SendingFinite, FS_AddElement DEF PermitsBalance
  <2>2. CASE place'[w] # "sending"
    BY <1>0, <1>2, <2>2 DEF TryAcquire, Sending, GateTypeOK
  <2>3. QED
    BY <2>1, <2>2
<1>3. ASSUME NEW w \in Worker, WakeUp(w) PROVE PermitsBalance'
  BY <1>0, <1>3 DEF WakeUp, Waiting, Sending, GateTypeOK
<1>4. ASSUME NEW w \in Worker, Succeed(w) PROVE PermitsBalance'
  BY <1>4, PermitReturned DEF Succeed
<1>5. ASSUME NEW w \in Worker, Drop(w) PROVE PermitsBalance'
  BY <1>5, PermitReturned DEF Drop
<1>6. ASSUME NEW w \in Worker, NEW delay \in Delays, RateLimited(w, delay)
      PROVE  PermitsBalance'
  BY <1>6, PermitReturned DEF RateLimited
<1>7. ASSUME NEW w \in Worker, Notify(w) PROVE PermitsBalance'
  BY <1>0, <1>7 DEF Notify, Notified, Waiting, Sending, GateTypeOK
<1>8. CASE Tick
  BY <1>0, <1>8 DEF Tick, Sending
<1>9. CASE UNCHANGED gateVars
  BY <1>0, <1>9 DEF gateVars, Sending
<1>10. QED
  BY <1>1, <1>2, <1>3, <1>4, <1>5, <1>6, <1>7, <1>8, <1>9 DEF GateNext

\* The gate counts exactly the requests that are in flight, whatever the order
\* in which threads take permits, report and drop them.
THEOREM PermitsAlwaysBalance == GateSpec => []PermitsBalance
<1>1. GateInit => PermitsBalance
  <2>1. GateInit => Sending = {}
    BY DEF GateInit, Sending
  <2>2. QED
    BY <2>1, FS_EmptySet DEF GateInit, PermitsBalance
<1>2. QED
  BY <1>1, PermitsStep, GateTypeCorrect, PTL DEF GateSpec

-----------------------------------------------------------------------------
(* Wakeups.                                                                *)

\* A thread that releases its permit is about to notify.
LEMMA ReleasedWillNotify ==
    ASSUME GateTypeOK, NEW w \in Worker, Released(w)
    PROVE  ParkedForAReason'
<1>1. place'[w] = "notifying"
  BY DEF Released, GateTypeOK
<1>2. QED
  BY <1>1 DEF ParkedForAReason

LEMMA ParkedStep ==
    GateTypeOK /\ ParkedForAReason /\ [GateNext]_gateVars => ParkedForAReason'
<1> SUFFICES ASSUME GateTypeOK, ParkedForAReason, [GateNext]_gateVars
             PROVE  ParkedForAReason'
  OBVIOUS
<1> USE DEF GateTypeOK, ParkedForAReason
<1>1. ASSUME NEW w \in Worker, Ask(w) PROVE ParkedForAReason'
  BY <1>1 DEF Ask
<1>2. ASSUME NEW w \in Worker, TryAcquire(w) PROVE ParkedForAReason'
  BY <1>2 DEF TryAcquire
<1>3. ASSUME NEW w \in Worker, WakeUp(w) PROVE ParkedForAReason'
  BY <1>3 DEF WakeUp, Waiting
<1>4. ASSUME NEW w \in Worker, Succeed(w) PROVE ParkedForAReason'
  BY <1>4, ReleasedWillNotify DEF Succeed
<1>5. ASSUME NEW w \in Worker, Drop(w) PROVE ParkedForAReason'
  BY <1>5, ReleasedWillNotify DEF Drop
<1>6. ASSUME NEW w \in Worker, NEW delay \in Delays, RateLimited(w, delay)
      PROVE  ParkedForAReason'
  BY <1>6, ReleasedWillNotify DEF RateLimited
<1>7. ASSUME NEW w \in Worker, Notify(w) PROVE ParkedForAReason'
  BY <1>7 DEF Notify, Notified, Waiting
<1>8. CASE Tick
  BY <1>8 DEF Tick
<1>9. CASE UNCHANGED gateVars
  BY <1>9 DEF gateVars
<1>10. QED
  BY <1>1, <1>2, <1>3, <1>4, <1>5, <1>6, <1>7, <1>8, <1>9 DEF GateNext

\* No wakeup is lost: a thread that waits without a timeout waits for a permit
\* that is held or for a notification that is about to be sent.
THEOREM NoLostWakeup == GateSpec => []ParkedForAReason
<1>1. GateInit => ParkedForAReason
  BY DEF GateInit, ParkedForAReason
<1>2. QED
  BY <1>1, ParkedStep, GateTypeCorrect, PTL DEF GateSpec

-----------------------------------------------------------------------------
(* Pauses.                                                                 *)

\* What is owed to the server is never more than the pause the gate keeps.
Remembered == owed <= (IF pause = None THEN 0 ELSE pause)

LEMMA RememberedStep ==
    GateTypeOK /\ Remembered /\ [GateNext]_gateVars => Remembered'
<1> SUFFICES ASSUME GateTypeOK, Remembered, [GateNext]_gateVars
             PROVE  Remembered'
  OBVIOUS
<1> USE GateAssumption DEF GateTypeOK, Remembered
<1>1. ASSUME NEW w \in Worker, TryAcquire(w) PROVE Remembered'
  BY <1>1 DEF TryAcquire, Pausing
<1>2. ASSUME NEW w \in Worker, NEW delay \in Delays, RateLimited(w, delay)
      PROVE  Remembered'
  BY <1>2 DEF RateLimited, Extended, Larger
<1>3. CASE Tick
  <2>1. CASE pause = None
    BY <1>3, <2>1 DEF Tick, Elapsed
  <2>2. CASE pause \in Nat
    <3>1. pause # None /\ pause' = Elapsed(pause) /\ pause' \in Nat
      BY <1>3, <2>2 DEF Tick, Elapsed
    <3>2. owed' <= pause' /\ pause' # None
      BY <1>3, <2>2, <3>1 DEF Tick, Elapsed
    <3>3. QED
      BY <3>2
  <2>3. QED
    BY <2>1, <2>2
<1>4. CASE UNCHANGED <<pause, owed>>
  BY <1>4
<1>5. ASSUME NEW w \in Worker,
             Ask(w) \/ WakeUp(w) \/ Succeed(w) \/ Drop(w) \/ Notify(w)
      PROVE  Remembered'
  BY <1>4, <1>5 DEF Ask, WakeUp, Succeed, Drop, Notify
<1>6. QED
  BY <1>1, <1>2, <1>3, <1>4, <1>5 DEF GateNext, gateVars

LEMMA TakenAfterPauses ==
    GateTypeOK /\ Remembered /\ [GateNext]_gateVars =>
        [\A w \in Worker : place[w] # "sending" /\ place'[w] = "sending"
            => owed = 0]_gateVars
<1> SUFFICES ASSUME GateTypeOK, Remembered, GateNext, NEW v \in Worker,
                    place[v] # "sending", place'[v] = "sending"
             PROVE  owed = 0
  OBVIOUS
<1> USE DEF GateTypeOK
<1>1. ASSUME NEW w \in Worker, TryAcquire(w) PROVE owed = 0
  BY <1>1, GateAssumption DEF TryAcquire, Pausing, Remembered
<1>2. ASSUME NEW w \in Worker, NEW delay \in Delays, RateLimited(w, delay)
      PROVE  FALSE
  BY <1>2 DEF RateLimited, Released
<1>3. CASE Tick
  BY <1>3 DEF Tick
<1>4. ASSUME NEW w \in Worker,
             Ask(w) \/ WakeUp(w) \/ Succeed(w) \/ Drop(w) \/ Notify(w)
      PROVE  FALSE
  BY <1>4 DEF Ask, WakeUp, Succeed, Drop, Notify, Notified, Waiting, Released
<1>5. QED
  BY <1>1, <1>2, <1>3, <1>4 DEF GateNext

\* No thread begins a request before every pause that was asked for is over.
THEOREM PausesKept == GateSpec => PausesAreKept
<1>1. GateInit => Remembered
  BY DEF GateInit, Remembered
<1>2. GateSpec => []Remembered
  BY <1>1, RememberedStep, GateTypeCorrect, PTL DEF GateSpec
<1>3. QED
  BY <1>2, TakenAfterPauses, GateTypeCorrect, PTL DEF GateSpec, PausesAreKept

-----------------------------------------------------------------------------
(* The slices of a batch.                                                  *)

\* A pair of numbers.
Interval == Nat \X Nat

\* A sequence and one more element.
LEMMA Appended ==
    ASSUME NEW T, NEW s \in Seq(T), NEW x \in T
    PROVE  /\ Append(s, x) \in Seq(T)
           /\ Append(s, x) # <<>>
           /\ Len(Append(s, x)) = Len(s) + 1
           /\ Append(s, x)[Len(s) + 1] = x
           /\ \A k \in 1 .. Len(s) : Append(s, x)[k] = s[k]
OBVIOUS

\* What Split makes of the requests before.
Cut(split, n) ==
    IF split = <<>> \/ Full(First(Last(split)), n) THEN Append(split, <<n, n>>)
    ELSE Append(Front(split), <<First(Last(split)), n>>)

LEMMA CutType ==
    ASSUME NEW split \in Seq(Interval), NEW n \in Nat
    PROVE  Cut(split, n) \in Seq(Interval)
<1>1. CASE split = <<>> \/ Full(First(Last(split)), n)
  <2>1. <<n, n>> \in Interval
    BY DEF Interval
  <2>2. QED
    BY <1>1, <2>1, Appended DEF Cut
<1>2. CASE ~(split = <<>> \/ Full(First(Last(split)), n))
  <2>1. Last(split) \in Interval
    BY <1>2 DEF Last
  <2>2. <<First(Last(split)), n>> \in Interval
    BY <2>1 DEF First, Interval
  <2>3. Front(split) \in Seq(Interval)
    BY DEF Front
  <2>4. QED
    BY <1>2, <2>2, <2>3 DEF Cut
<1>3. QED
  BY <1>1, <1>2

LEMMA SplitIs ==
    /\ Split[0] = <<>>
    /\ \A n \in 1 .. Len(Length) : Split[n] = Cut(Split[n - 1], n)
    /\ \A n \in 0 .. Len(Length) : Split[n] \in Seq(Interval)
<1> DEFINE N == Len(Length)
           T == Seq(Interval)
           F == [p \in (1 .. N) \X T |-> Cut(p[2], p[1])]
<1>1. N \in Nat
  BY RemoteAssumption
<1>2. F \in [(1 .. N) \X T -> T]
  BY CutType
<1>3. <<>> \in T
  OBVIOUS
<1>4. PICK g \in [0 .. N -> T] : RecursiveUpTo(g, N, <<>>, F)
  <2> HIDE DEF T, F, N
  <2>1. QED
    BY <1>1, <1>2, <1>3, RecursionUpTo
<1>5. g[0] = <<>>
  BY <1>4 DEF RecursiveUpTo
<1>6. ASSUME NEW k \in 1 .. N PROVE g[k] = Cut(g[k - 1], k)
  <2>1. g[k] = F[<<k, g[k - 1]>>]
    BY <1>4 DEF RecursiveUpTo
  <2>2. g[k - 1] \in T
    BY <1>1
  <2>3. <<k, g[k - 1]>> \in (1 .. N) \X T
    BY <2>2
  <2>4. QED
    BY <2>1, <2>3
<1>7. g = [n \in 0 .. Len(Length) |-> IF n = 0 THEN <<>> ELSE Cut(g[n - 1], n)]
  BY <1>1, <1>5, <1>6
<1>8. Split = [n \in 0 .. Len(Length) |-> IF n = 0 THEN <<>> ELSE Cut(Split[n - 1], n)]
  BY <1>7 DEF Split, Cut
<1>9. Split[0] = <<>> /\ \A n \in 1 .. N : Split[n] = Cut(Split[n - 1], n)
  BY <1>1, <1>8
<1>10. \A n \in 0 .. N : Split[n] \in T
  <2> DEFINE S == {n \in 0 .. N : Split[n] \in T}
  <2>1. 0 \in S
    <3>1. Split[0] \in T
      BY <1>3, <1>9
    <3>2. QED
      BY <1>1, <3>1
  <2>2. ASSUME NEW k \in 1 .. N, k - 1 \in S PROVE k \in S
    <3>1. Cut(Split[k - 1], k) \in T
      BY <2>2, CutType
    <3>2. k \in 0 .. N
      BY <1>1
    <3>3. QED
      BY <1>9, <3>1, <3>2
  <2>3. 0 .. N \subseteq S
    <3> HIDE DEF S, N
    <3>1. QED
      BY <1>1, <2>1, <2>2, NatUpTo
  <2>4. QED
    BY <2>3
<1>11. QED
  BY <1>9, <1>10

\* The intervals of s follow each other from a to b.
Covers(s, a, b) ==
    /\ s \in Seq(Interval)
    /\ s = <<>> <=> b + 1 = a
    /\ s # <<>> => First(s[1]) = a /\ s[Len(s)][2] = b
    /\ \A k \in 1 .. Len(s) : 1 <= First(s[k]) /\ First(s[k]) <= s[k][2] /\ s[k][2] <= b
    /\ \A k \in 1 .. Len(s) - 1 : First(s[k + 1]) = s[k][2] + 1

LEMMA CoversOneMore ==
    ASSUME NEW n \in Nat \ {0}, NEW s, Covers(s, 1, n - 1),
           NEW x \in Interval, First(x) = n, x[2] = n
    PROVE  Covers(Append(s, x), 1, n)
<1> DEFINE L == Len(s)
           t == Append(s, x)
<1>1. s \in Seq(Interval) /\ L \in Nat
  BY DEF Covers
<1>2. /\ t \in Seq(Interval) /\ t # <<>>
      /\ Len(t) = L + 1 /\ t[L + 1] = x
      /\ \A k \in 1 .. L : t[k] = s[k]
  BY <1>1, Appended
<1>3. \A k \in 1 .. L : s[k] \in Interval /\ First(s[k]) \in Nat /\ s[k][2] \in Nat
  BY <1>1 DEF First, Interval
<1> HIDE DEF t
<1>4. CASE L = 0
  <2>1. n = 1
    BY <1>1, <1>4 DEF Covers
  <2>2. Len(t) = 1 /\ t[1] = x
    BY <1>2, <1>4
  <2>3. \A k \in 1 .. Len(t) : 1 <= First(t[k]) /\ First(t[k]) <= t[k][2] /\ t[k][2] <= n
    BY <2>1, <2>2
  <2>4. QED
    BY <1>2, <2>1, <2>2, <2>3 DEF Covers
<1>5. CASE L # 0
  <2>1. s # <<>> /\ First(s[1]) = 1 /\ s[L][2] = n - 1 /\ 1 \in 1 .. L
    BY <1>1, <1>5 DEF Covers
  <2>2. First(t[1]) = 1 /\ t[Len(t)][2] = n
    BY <1>2, <2>1
  <2>3. ASSUME NEW k \in 1 .. L + 1
        PROVE  1 <= First(t[k]) /\ First(t[k]) <= t[k][2] /\ t[k][2] <= n
    <3>1. CASE k = L + 1
      BY <1>2, <3>1
    <3>2. CASE k # L + 1
      <4>1. k \in 1 .. L
        BY <1>1, <3>2
      <4>0. t[k] = s[k]
        BY <1>2, <4>1
      <4>2. 1 <= First(s[k]) /\ First(s[k]) <= s[k][2] /\ s[k][2] <= n - 1
        BY <4>1 DEF Covers
      <4>3. QED
        BY <1>3, <4>0, <4>1, <4>2
    <3>3. QED
      BY <3>1, <3>2
  <2>4. ASSUME NEW k \in 1 .. L
        PROVE  First(t[k + 1]) = t[k][2] + 1
    <3>1. CASE k = L
      <4>1. t[k + 1] = x /\ t[k] = s[L]
        BY <1>2, <3>1
      <4>2. QED
        BY <2>1, <4>1
    <3>2. CASE k # L
      <4>1. k + 1 \in 1 .. L /\ k \in 1 .. L - 1
        BY <1>1, <3>2
      <4>2. First(s[k + 1]) = s[k][2] + 1
        BY <4>1 DEF Covers
      <4>3. t[k + 1] = s[k + 1] /\ t[k] = s[k]
        BY <1>2, <4>1
      <4>4. QED
        BY <4>2, <4>3
    <3>3. QED
      BY <3>1, <3>2
  <2>5. Len(t) - 1 = L
    BY <1>1, <1>2
  <2>6. QED
    BY <1>2, <2>2, <2>3, <2>4, <2>5 DEF Covers
<1>6. QED
  BY <1>4, <1>5

LEMMA FrontIs ==
    ASSUME NEW T, NEW s \in Seq(T), s # <<>>
    PROVE  /\ Front(s) \in Seq(T)
           /\ Len(Front(s)) = Len(s) - 1
           /\ \A k \in 1 .. Len(s) - 1 : Front(s)[k] = s[k]
<1> DEFINE n == Len(s) - 1
<1>1. n \in Nat /\ 1 \in Int /\ n \in Int
  OBVIOUS
<1>2. \A i \in 1 .. n : s[i] \in T
  OBVIOUS
<1>3. Front(s) = SubSeq(s, 1, n)
  BY DEF Front
<1> HIDE DEF n
<1>4. SubSeq(s, 1, n) \in Seq(T)
  BY <1>1, <1>2, SubSeqProperties
<1>5. Len(SubSeq(s, 1, n)) = n
  BY <1>1, <1>2, SubSeqProperties
<1>6. \A k \in 1 .. n : SubSeq(s, 1, n)[k] = s[k]
  BY <1>1, <1>2, SubSeqProperties
<1>7. QED
  BY <1>3, <1>4, <1>5, <1>6 DEF n

LEMMA CoversLonger ==
    ASSUME NEW n \in Nat \ {0}, NEW s, Covers(s, 1, n - 1), s # <<>>,
           NEW x \in Interval, First(x) = First(Last(s)), x[2] = n
    PROVE  Covers(Append(Front(s), x), 1, n)
<1> DEFINE L == Len(s)
           f == Front(s)
           t == Append(f, x)
<1>1. s \in Seq(Interval) /\ L \in Nat /\ L # 0
  BY DEF Covers
<1>2. /\ f \in Seq(Interval)
      /\ Len(f) = L - 1
      /\ \A k \in 1 .. L - 1 : f[k] = s[k]
  BY <1>1, FrontIs
<1>3. /\ t \in Seq(Interval) /\ t # <<>>
      /\ Len(t) = Len(f) + 1 /\ t[Len(f) + 1] = x
      /\ \A k \in 1 .. Len(f) : t[k] = f[k]
  BY <1>2, Appended
<1> HIDE DEF f, t
<1>4. Len(t) = L /\ t[L] = x /\ \A k \in 1 .. L - 1 : t[k] = s[k]
  BY <1>1, <1>2, <1>3
<1>5. \A k \in 1 .. L : s[k] \in Interval /\ First(s[k]) \in Nat /\ s[k][2] \in Nat
  BY <1>1 DEF First, Interval
<1>6. First(x) = First(s[L])
  BY DEF Last
<1>7. First(t[1]) = 1
  <2>1. First(s[1]) = 1
    BY DEF Covers
  <2>2. CASE L = 1
    BY <1>4, <1>6, <2>1, <2>2
  <2>3. CASE L # 1
    <3>0. L \in Nat
      BY <1>1
    <3>1. 1 \in 1 .. L - 1
      <4> HIDE DEF L
      <4>1. QED
        BY <1>1, <2>3, <3>0
    <3>2. QED
      BY <1>4, <2>1, <3>1
  <2>4. QED
    BY <2>2, <2>3
<1>8. ASSUME NEW k \in 1 .. L
      PROVE  1 <= First(t[k]) /\ First(t[k]) <= t[k][2] /\ t[k][2] <= n
  <2>1. 1 <= First(s[k]) /\ First(s[k]) <= s[k][2] /\ s[k][2] <= n - 1
    BY DEF Covers
  <2>2. CASE k = L
    <3>1. t[k] = x /\ First(x) = First(s[k])
      BY <1>4, <1>6, <2>2
    <3>2. QED
      BY <1>5, <2>1, <3>1
  <2>3. CASE k # L
    <3>1. t[k] = s[k]
      BY <1>1, <1>4, <2>3
    <3>2. QED
      BY <1>5, <2>1, <3>1
  <2>4. QED
    BY <2>2, <2>3
<1>9. ASSUME NEW k \in 1 .. L - 1
      PROVE  First(t[k + 1]) = t[k][2] + 1
  <2>1. First(s[k + 1]) = s[k][2] + 1
    BY DEF Covers
  <2>2. t[k] = s[k]
    BY <1>4
  <2>3. First(t[k + 1]) = First(s[k + 1])
    <3>1. CASE k + 1 = L
      <4>1. t[k + 1] = x /\ First(x) = First(s[k + 1])
        BY <1>4, <1>6, <3>1
      <4>2. QED
        BY <4>1
    <3>2. CASE k + 1 # L
      <4>1. k + 1 \in 1 .. L - 1
        BY <1>1, <3>2
      <4>2. QED
        BY <1>4, <4>1
    <3>3. QED
      BY <3>1, <3>2
  <2>4. QED
    BY <2>1, <2>2, <2>3
<1>10. t[Len(t)][2] = n
  BY <1>4
<1>11. Covers(t, 1, n)
  <2>1. Len(t) - 1 = L - 1
    BY <1>4
  <2>2. /\ \A k \in 1 .. Len(t) :
             1 <= First(t[k]) /\ First(t[k]) <= t[k][2] /\ t[k][2] <= n
        /\ \A k \in 1 .. Len(t) - 1 : First(t[k + 1]) = t[k][2] + 1
    BY <1>4, <1>8, <1>9, <2>1
  <2>3. QED
    BY <1>3, <1>7, <1>10, <2>2 DEF Covers
<1>12. QED
  BY <1>11 DEF t, f

LEMMA CutCovers ==
    ASSUME NEW split, NEW n \in Nat \ {0}, Covers(split, 1, n - 1)
    PROVE  Covers(Cut(split, n), 1, n)
<1>1. CASE split = <<>> \/ Full(First(Last(split)), n)
  <2>1. PICK x \in Interval : x = <<n, n>>
    BY DEF Interval
  <2>2. First(x) = n /\ x[2] = n
    BY <2>1 DEF First
  <2>3. Covers(Append(split, x), 1, n)
    BY <2>2, CoversOneMore
  <2>4. QED
    BY <1>1, <2>1, <2>3 DEF Cut
<1>2. CASE ~(split = <<>> \/ Full(First(Last(split)), n))
  <2>1. First(Last(split)) \in Nat
    <3>1. split \in Seq(Interval) /\ split # <<>>
      BY <1>2 DEF Covers
    <3>2. Last(split) \in Interval
      BY <3>1 DEF Last
    <3>3. QED
      BY <3>2 DEF Interval, First
  <2>2. PICK x \in Interval : x = <<First(Last(split)), n>>
    BY <2>1 DEF Interval
  <2>3. First(x) = First(Last(split)) /\ x[2] = n
    BY <2>2 DEF First
  <2>4. Covers(Append(Front(split), x), 1, n)
    BY <1>2, <2>3, CoversLonger
  <2>5. QED
    BY <1>2, <2>2, <2>4 DEF Cut
<1>3. QED
  BY <1>1, <1>2

\* The requests of a batch cover it.
LEMMA RequestsCover == Covers(Requests, 1, Len(Length))
<1> DEFINE N == Len(Length)
           S == {n \in 0 .. N : Covers(Split[n], 1, n)}
<1>1. N \in Nat
  BY RemoteAssumption
<1>2. 0 \in S
  BY <1>1, SplitIs DEF Covers
<1>3. ASSUME NEW k \in 1 .. N, k - 1 \in S PROVE k \in S
  <2>1. Covers(Split[k - 1], 1, k - 1)
    BY <1>3
  <2>2. Covers(Cut(Split[k - 1], k), 1, k)
    BY <2>1, CutCovers
  <2>3. QED
    BY <1>1, <2>2, SplitIs
<1>4. 0 .. N \subseteq S
  <2> HIDE DEF S, N
  <2>1. QED
    BY <1>1, <1>2, <1>3, NatUpTo
<1>5. QED
  BY <1>1, <1>4 DEF Requests

\* The numbers from a to b.
Numbers(a, b) == [i \in 1 .. b - a + 1 |-> a + i - 1]

\* The vectors of a request.
VectorsOf(call) == Numbers(First(call), call[2])

\* Adjacent intervals make one.
LEMMA NumbersJoin ==
    ASSUME NEW a \in Nat, NEW m \in Nat, NEW b \in Nat, a <= m, m <= b + 1
    PROVE  Numbers(a, m - 1) \o Numbers(m, b) = Numbers(a, b)
<1> DEFINE s == Numbers(a, m - 1)
           t == Numbers(m, b)
<1>1. s \in Seq(Nat) /\ Len(s) = m - a /\ \A i \in 1 .. m - a : s[i] = a + i - 1
  <2>1. s = [i \in 1 .. m - a |-> a + i - 1]
    BY DEF Numbers
  <2>2. m - a \in Nat /\ \A i \in 1 .. m - a : a + i - 1 \in Nat
    OBVIOUS
  <2> HIDE DEF s
  <2>3. QED
    BY <2>1, <2>2
<1>2. t \in Seq(Nat) /\ Len(t) = b - m + 1 /\ \A i \in 1 .. b - m + 1 : t[i] = m + i - 1
  <2>1. t = [i \in 1 .. b - m + 1 |-> m + i - 1]
    BY DEF Numbers
  <2>2. b - m + 1 \in Nat /\ \A i \in 1 .. b - m + 1 : m + i - 1 \in Nat
    OBVIOUS
  <2> HIDE DEF t
  <2>3. QED
    BY <2>1, <2>2
<1>3. /\ Numbers(a, b) \in Seq(Nat) /\ Len(Numbers(a, b)) = b - a + 1
      /\ \A i \in 1 .. b - a + 1 : Numbers(a, b)[i] = a + i - 1
  <2>1. b - a + 1 \in Nat /\ \A i \in 1 .. b - a + 1 : a + i - 1 \in Nat
    OBVIOUS
  <2>2. QED
    BY <2>1 DEF Numbers
<1> HIDE DEF s, t
<1>4. /\ s \o t \in Seq(Nat)
      /\ Len(s \o t) = Len(s) + Len(t)
      /\ \A i \in 1 .. Len(s) + Len(t) :
            (s \o t)[i] = IF i <= Len(s) THEN s[i] ELSE t[i - Len(s)]
  BY <1>1, <1>2, ConcatProperties
<1>5. Len(s) + Len(t) = b - a + 1
  BY <1>1, <1>2
<1>6. ASSUME NEW i \in 1 .. b - a + 1 PROVE (s \o t)[i] = a + i - 1
  <2>1. (s \o t)[i] = IF i <= m - a THEN s[i] ELSE t[i - (m - a)]
    BY <1>1, <1>4, <1>5
  <2>2. CASE i <= m - a
    BY <1>1, <2>1, <2>2
  <2>3. CASE ~(i <= m - a)
    <3>1. i - (m - a) \in 1 .. b - m + 1
      BY <2>3
    <3>2. QED
      BY <1>2, <2>1, <2>3, <3>1
  <2>4. QED
    BY <2>2, <2>3
<1>7. Len(s \o t) = Len(Numbers(a, b)) /\ Len(s \o t) = b - a + 1
  BY <1>3, <1>4, <1>5
<1>8. \A i \in 1 .. Len(s \o t) : (s \o t)[i] = Numbers(a, b)[i]
  BY <1>3, <1>6, <1>7
<1>9. s \o t = Numbers(a, b)
  BY <1>3, <1>4, <1>7, <1>8, SeqEqual
<1>10. QED
  BY <1>9 DEF s, t

\* The vectors of the requests of a batch, flattened, are those of its inputs.
LEMMA FlattenCovers ==
    ASSUME NEW n \in Nat, NEW r, Covers(r, 1, n),
           NEW s, s = [k \in 1 .. Len(r) |-> VectorsOf(r[k])]
    PROVE  FlattenSeq(s) = Numbers(1, n)
<1> DEFINE L == Len(r)
<1>1. r \in Seq(Interval) /\ L \in Nat
  BY DEF Covers
<1>2. Len(s) = L /\ \A k \in 1 .. L : s[k] = VectorsOf(r[k])
  BY <1>1
<1>3. CASE L = 0
  <2>1. n = 0
    BY <1>1, <1>3 DEF Covers
  <2>2. s = <<>> /\ Numbers(1, 0) = <<>>
    BY <1>2, <1>3 DEF Numbers
  <2>3. QED
    BY <1>2, <1>3, <2>1, <2>2 DEF FlattenSeq
<1>4. CASE L # 0
  <2> DEFINE f == CHOOSE g : g = [i \in 1 .. Len(s) |->
                                     IF i = 1 THEN s[i] ELSE g[i - 1] \o s[i]]
             h == [i \in 1 .. L |-> Numbers(1, r[i][2])]
  <2>1. FlattenSeq(s) = f[L]
    BY <1>1, <1>2, <1>4 DEF FlattenSeq
  <2>2. \A k \in 1 .. L : /\ r[k] \in Interval
                          /\ First(r[k]) \in Nat
                          /\ r[k][2] \in Nat
                          /\ First(r[k]) <= r[k][2]
    BY <1>1 DEF Covers, Interval, First
  <2>3. h[1] = s[1]
    <3>1. 1 \in 1 .. L /\ First(r[1]) = 1
      BY <1>1, <1>4 DEF Covers
    <3>2. QED
      BY <1>2, <3>1 DEF VectorsOf
  <2>4. ASSUME NEW k \in 2 .. L PROVE h[k] = h[k - 1] \o s[k]
    <3>1. k \in 1 .. L /\ k - 1 \in 1 .. L /\ k - 1 \in 1 .. L - 1 /\ k = (k - 1) + 1
      BY <1>1
    <3>2. First(r[k]) = r[k - 1][2] + 1
      BY <3>1 DEF Covers
    <3>3. Numbers(1, First(r[k]) - 1) \o VectorsOf(r[k]) = Numbers(1, r[k][2])
      <4>1. /\ 1 \in Nat /\ First(r[k]) \in Nat /\ r[k][2] \in Nat
            /\ 1 <= First(r[k]) /\ First(r[k]) <= r[k][2] + 1
        BY <2>2, <3>1 DEF Covers
      <4>2. QED
        BY <4>1, NumbersJoin DEF VectorsOf
    <3>4. First(r[k]) - 1 = r[k - 1][2]
      BY <2>2, <3>1, <3>2
    <3>5. QED
      BY <1>2, <3>1, <3>3, <3>4
  <2>5. h = [i \in 1 .. Len(s) |-> IF i = 1 THEN s[i] ELSE h[i - 1] \o s[i]]
    <3>1. ASSUME NEW i \in 1 .. L
          PROVE  h[i] = IF i = 1 THEN s[i] ELSE h[i - 1] \o s[i]
      <4>1. CASE i = 1
        BY <2>3, <4>1
      <4>2. CASE i # 1
        <5>1. i \in 2 .. L
          BY <4>2
        <5>2. QED
          BY <2>4, <4>2, <5>1
      <4>3. QED
        BY <4>1, <4>2
    <3>2. h = [i \in 1 .. L |-> h[i]]
      OBVIOUS
    <3> HIDE DEF h, L
    <3>3. h = [i \in 1 .. L |-> IF i = 1 THEN s[i] ELSE h[i - 1] \o s[i]]
      BY <3>1, <3>2
    <3>4. QED
      BY <1>2, <3>3
  <2> HIDE DEF h
  <2>6. f = [i \in 1 .. Len(s) |-> IF i = 1 THEN s[i] ELSE f[i - 1] \o s[i]]
    BY <2>5
  <2> HIDE DEF f
  <2>7. f[1] = s[1] /\ \A k \in 2 .. L : f[k] = f[k - 1] \o s[k]
    <3> HIDE DEF L
    <3>1. ASSUME NEW i \in 1 .. L
          PROVE  f[i] = IF i = 1 THEN s[i] ELSE f[i - 1] \o s[i]
      BY <1>2, <2>6
    <3>2. 1 \in 1 .. L /\ \A k \in 2 .. L : k \in 1 .. L /\ k # 1
      BY <1>1, <1>4
    <3>3. QED
      BY <3>1, <3>2
  <2> DEFINE S == {k \in 0 .. L : k = 0 \/ f[k] = h[k]}
  <2>8. 0 \in S
    BY <1>1
  <2>9. ASSUME NEW k \in 1 .. L, k - 1 \in S PROVE k \in S
    <3>1. CASE k = 1
      BY <2>3, <2>7, <3>1
    <3>2. CASE k # 1
      <4>1. k \in 2 .. L /\ f[k - 1] = h[k - 1]
        BY <2>9, <3>2
      <4>2. f[k] = h[k]
        BY <2>4, <2>7, <4>1
      <4>3. QED
        BY <4>2
    <3>3. QED
      BY <3>1, <3>2
  <2>10. 0 .. L \subseteq S
    <3> HIDE DEF S
    <3>1. QED
      BY <1>1, <2>8, <2>9, NatUpTo
  <2>11. f[L] = h[L]
    BY <1>1, <1>4, <2>10
  <2>12. h[L] = Numbers(1, n)
    BY <1>1, <1>4 DEF h, Covers
  <2>13. QED
    BY <2>1, <2>11, <2>12
<1>5. QED
  BY <1>3, <1>4

-----------------------------------------------------------------------------
(* The batch: the gate it uses, and the types of its variables.            *)

\* The workers of a batch use the gate as it expects to be used: one permit for
\* every request that is sent, reported or dropped once, and time passes for
\* both.  So the batch has every safety property of the gate.
THEOREM BatchImplementsGate == RemoteSafety => GateSpec
<1>1. RemoteInit => GateInit
  BY DEF RemoteInit
<1>2. ASSUME [RemoteNext]_batchVars PROVE [GateNext]_gateVars
  <2>1. ASSUME NEW w \in Worker, Answered(w) PROVE GateNext
    <3>1. Drop(w) \/ Succeed(w) \/ \E delay \in Delays : RateLimited(w, delay)
      BY <2>1 DEF Answered, Vectors, TooManyRequests, TooLarge, Retry, Fatal
    <3>2. QED
      BY <3>1 DEF GateNext
  <2>2. ASSUME NEW w \in Worker, Passes(w) PROVE GateNext
    BY <2>2 DEF Passes, GateNext
  <2>3. ASSUME NEW w \in Worker, Take(w) \/ Store(w) \/ Stop(w)
        PROVE  UNCHANGED gateVars
    BY <2>3 DEF Take, Store, Stop
  <2>4. CASE Return
    BY <2>4 DEF Return
  <2>5. CASE TimePasses
    BY <2>5 DEF TimePasses, GateNext
  <2>6. CASE UNCHANGED batchVars
    BY <2>6 DEF batchVars
  <2>7. QED
    BY <1>2, <2>1, <2>2, <2>3, <2>4, <2>5, <2>6 DEF RemoteNext, Step
<1>3. QED
  BY <1>1, <1>2, PTL DEF RemoteSafety, GateSpec

\* The inputs are numbered, and a request is an interval of them.
LEMMA InputsAre == Len(Length) \in Nat /\ Inputs = 1 .. Len(Length)
BY RemoteAssumption DEF Inputs

LEMMA RequestsAre ==
    /\ Requests \in Seq(Interval)
    /\ Len(Requests) \in Nat
    /\ DOMAIN Requests = 1 .. Len(Requests)
    /\ \A k \in 1 .. Len(Requests) :
          /\ Requests[k] \in Inputs \X Inputs
          /\ Requests[k] \in Interval
          /\ First(Requests[k]) \in Nat /\ Requests[k][2] \in Nat
          /\ 1 <= First(Requests[k])
          /\ First(Requests[k]) <= Requests[k][2]
          /\ Requests[k][2] <= Len(Length)
<1> DEFINE R == Requests
<1>1. Covers(R, 1, Len(Length))
  BY RequestsCover
<1>2. R \in Seq(Interval)
  BY <1>1 DEF Covers
<1> HIDE DEF R
<1>3. Len(R) \in Nat /\ DOMAIN R = 1 .. Len(R)
  BY <1>2
<1>4. ASSUME NEW k \in 1 .. Len(R)
      PROVE  /\ R[k] \in Inputs \X Inputs
             /\ R[k] \in Interval
             /\ First(R[k]) \in Nat /\ R[k][2] \in Nat
             /\ 1 <= First(R[k])
             /\ First(R[k]) <= R[k][2]
             /\ R[k][2] <= Len(Length)
  <2>1. 1 <= First(R[k]) /\ First(R[k]) <= R[k][2] /\ R[k][2] <= Len(Length)
    BY <1>1 DEF Covers
  <2>2. R[k] \in Interval
    BY <1>2
  <2>3. R[k] = <<First(R[k]), R[k][2]>> /\ First(R[k]) \in Nat /\ R[k][2] \in Nat
    BY <2>2 DEF Interval, First
  <2>4. First(R[k]) \in Inputs /\ R[k][2] \in Inputs
    BY <2>1, <2>3, InputsAre
  <2>5. <<First(R[k]), R[k][2]>> \in Inputs \X Inputs
    BY <2>4
  <2>6. R[k] \in Inputs \X Inputs
    BY <2>3, <2>5, Zenon
  <2>7. QED
    BY <2>1, <2>2, <2>3, <2>6
<1>5. QED
  BY <1>2, <1>3, <1>4 DEF R

LEMMA VectorsType ==
    ASSUME NEW a \in Inputs, NEW b \in Inputs
    PROVE  Numbers(a, b) \in Seq(Inputs)
<1>1. a \in Nat /\ b \in Nat /\ \A i \in 1 .. b - a + 1 : a + i - 1 \in Inputs
  BY InputsAre
<1>2. CASE b - a + 1 >= 0
  <2>1. b - a + 1 \in Nat
    BY <1>1, <1>2
  <2> DEFINE n == b - a + 1
  <2>2. n \in Nat /\ \A i \in 1 .. n : a + i - 1 \in Inputs
    BY <1>1, <2>1
  <2>3. Numbers(a, b) = [i \in 1 .. n |-> a + i - 1]
    BY DEF Numbers
  <2> HIDE DEF n
  <2>4. QED
    BY <2>2, <2>3
<1>3. CASE ~(b - a + 1 >= 0)
  <2>1. 1 .. b - a + 1 = {}
    BY <1>1, <1>3
  <2>2. Numbers(a, b) = <<>>
    BY <2>1 DEF Numbers
  <2>3. QED
    BY <2>2
<1>4. QED
  BY <1>2, <1>3

LEMMA NoVectorsFail ==
    /\ Error \notin Seq(Inputs) /\ None \notin Seq(Inputs) /\ Error # None
BY RemoteAssumption

-----------------------------------------------------------------------------
(* What is left of a request.                                              *)

LEMMA TailIs ==
    ASSUME NEW T, NEW s \in Seq(T), s # <<>>
    PROVE  /\ Tail(s) \in Seq(T)
           /\ Len(Tail(s)) = Len(s) - 1
           /\ \A k \in 1 .. Len(s) - 1 : Tail(s)[k] = s[k + 1]
           /\ Head(s) = s[1] /\ s[1] \in T
           /\ Len(s) >= 1
OBVIOUS

\* The first of several calls has been answered.
LEMMA CoversTail ==
    ASSUME NEW a \in Nat, NEW b \in Nat, NEW s, Covers(s, a, b), s # <<>>
    PROVE  /\ Head(s) \in Interval
           /\ First(Head(s)) = a
           /\ Head(s)[2] \in Nat
           /\ 1 <= a /\ a <= Head(s)[2] /\ Head(s)[2] <= b
           /\ Covers(Tail(s), Head(s)[2] + 1, b)
<1> DEFINE L == Len(s)
           t == Tail(s)
<1>1. s \in Seq(Interval) /\ L \in Nat
  BY DEF Covers
<1>2. /\ t \in Seq(Interval) /\ Len(t) = L - 1
      /\ \A k \in 1 .. L - 1 : t[k] = s[k + 1]
      /\ Head(s) = s[1] /\ s[1] \in Interval /\ L >= 1
  BY <1>1, TailIs
<1>3. \A k \in 1 .. L : First(s[k]) \in Nat /\ s[k][2] \in Nat
  BY <1>1 DEF First, Interval
<1>4. First(s[1]) = a /\ s[L][2] = b
  BY DEF Covers
<1>5. \A k \in 1 .. L : 1 <= First(s[k]) /\ First(s[k]) <= s[k][2] /\ s[k][2] <= b
  BY DEF Covers
<1>6. \A k \in 1 .. L - 1 : First(s[k + 1]) = s[k][2] + 1
  BY DEF Covers
<1> HIDE DEF t, L
<1>7. 1 <= a /\ a <= s[1][2] /\ s[1][2] <= b /\ s[1][2] \in Nat
  BY <1>2, <1>3, <1>4, <1>5, <1>1
<1>8. t = <<>> <=> b + 1 = s[1][2] + 1
  <2>1. CASE L = 1
    BY <1>2, <1>4, <2>1
  <2>2. CASE L # 1
    <3>1. t # <<>> /\ 1 \in 1 .. L - 1 /\ 2 \in 1 .. L
      BY <1>1, <1>2, <2>2
    <3>2. First(s[1 + 1]) = s[1][2] + 1
      BY <1>6, <3>1
    <3>3. First(s[2]) = s[1][2] + 1 /\ First(s[2]) <= s[2][2] /\ s[2][2] <= b
      BY <1>5, <3>1, <3>2
    <3>4. First(s[2]) \in Nat /\ s[2][2] \in Nat
      BY <1>3, <3>1
    <3>5. QED
      BY <1>7, <3>1, <3>3, <3>4
  <2>3. QED
    BY <2>1, <2>2
<1>9. t # <<>> => First(t[1]) = s[1][2] + 1 /\ t[Len(t)][2] = b
  <2>1. SUFFICES ASSUME t # <<>> PROVE First(t[1]) = s[1][2] + 1 /\ t[Len(t)][2] = b
    OBVIOUS
  <2>2. L - 1 >= 1
    BY <1>1, <1>2, <2>1
  <2>3. 1 \in 1 .. L - 1 /\ L - 1 \in 1 .. L - 1 /\ (L - 1) + 1 = L
    BY <1>1, <2>2
  <2>4. First(t[1]) = s[1][2] + 1
    BY <1>2, <1>6, <2>3
  <2>5. t[L - 1] = s[L]
    BY <1>2, <2>3
  <2>6. QED
    BY <1>2, <1>4, <2>4, <2>5
<1>10. \A k \in 1 .. L - 1 : 1 <= First(t[k]) /\ First(t[k]) <= t[k][2] /\ t[k][2] <= b
  <2>1. TAKE k \in 1 .. L - 1
  <2>2. k + 1 \in 1 .. L /\ t[k] = s[k + 1]
    BY <1>1, <1>2
  <2>3. QED
    BY <1>5, <2>2
<1>11. \A k \in 1 .. (L - 1) - 1 : First(t[k + 1]) = t[k][2] + 1
  <2>1. TAKE k \in 1 .. (L - 1) - 1
  <2>2. k \in 1 .. L - 1 /\ k + 1 \in 1 .. L - 1
    BY <1>1
  <2>3. t[k] = s[k + 1] /\ t[k + 1] = s[(k + 1) + 1]
    BY <1>2, <2>2
  <2>4. First(s[(k + 1) + 1]) = s[k + 1][2] + 1
    BY <1>6, <2>2
  <2>5. QED
    BY <2>3, <2>4
<1>12. Covers(t, s[1][2] + 1, b)
  BY <1>2, <1>8, <1>9, <1>10, <1>11 DEF Covers
<1>13. QED
  BY <1>2, <1>4, <1>7, <1>12 DEF t

\* A call is halved: c and d take its place before t.
LEMMA CoversHalves ==
    ASSUME NEW a \in Nat, NEW m \in Nat, NEW e \in Nat, NEW b \in Nat,
           1 <= a, a < m, m <= e, e <= b,
           NEW t, Covers(t, e + 1, b)
    PROVE  Covers(<<<<a, m - 1>>, <<m, e>>>> \o t, a, b)
<1>1. PICK c : c = <<a, m - 1>>
  OBVIOUS
<1>2. PICK d : d = <<m, e>>
  OBVIOUS
<1>3. /\ c \in Interval /\ First(c) = a /\ c[2] = m - 1
      /\ d \in Interval /\ First(d) = m /\ d[2] = e
  BY <1>1, <1>2 DEF First, Interval
<1> DEFINE s == <<c, d>> \o t
           L == Len(t)
<1>4. t \in Seq(Interval) /\ L \in Nat
  BY DEF Covers
<1>5. /\ <<c, d>> \in Seq(Interval) /\ Len(<<c, d>>) = 2
      /\ <<c, d>>[1] = c /\ <<c, d>>[2] = d
  BY <1>3
<1>6. /\ s \in Seq(Interval)
      /\ Len(s) = 2 + L
      /\ \A i \in 1 .. 2 + L : s[i] = IF i <= 2 THEN <<c, d>>[i] ELSE t[i - 2]
  BY <1>4, <1>5, ConcatProperties
<1>7. s # <<>>
  BY <1>4, <1>6
<1> HIDE DEF s, L
<1>8. s[1] = c /\ s[2] = d /\ \A k \in 1 .. L : s[k + 2] = t[k]
  <2>1. 1 \in 1 .. 2 + L /\ 2 \in 1 .. 2 + L
    BY <1>4
  <2>2. s[1] = c /\ s[2] = d
    BY <1>5, <1>6, <2>1
  <2>3. ASSUME NEW k \in 1 .. L PROVE s[k + 2] = t[k]
    <3>1. k + 2 \in 1 .. 2 + L /\ ~(k + 2 <= 2) /\ (k + 2) - 2 = k
      BY <1>4
    <3>2. QED
      BY <1>6, <3>1
  <2>4. QED
    BY <2>2, <2>3
<1>9. \A k \in 1 .. L : /\ t[k] \in Interval /\ First(t[k]) \in Nat /\ t[k][2] \in Nat
                        /\ 1 <= First(t[k]) /\ First(t[k]) <= t[k][2] /\ t[k][2] <= b
  BY <1>4 DEF Covers, First, Interval, L
<1>10. s[2 + L][2] = b
  <2>1. CASE L = 0
    <3>1. b + 1 = e + 1
      BY <1>4, <2>1 DEF Covers, L
    <3>2. QED
      BY <1>3, <1>8, <2>1, <3>1
  <2>2. CASE L # 0
    <3>1. L \in 1 .. L /\ t # <<>> /\ L + 2 = 2 + L
      BY <1>4, <2>2 DEF L
    <3>2. t[L][2] = b
      BY <3>1 DEF Covers, L
    <3>3. QED
      BY <1>8, <3>1, <3>2
  <2>3. QED
    BY <2>1, <2>2
<1>11. ASSUME NEW k \in 1 .. 2 + L
       PROVE  1 <= First(s[k]) /\ First(s[k]) <= s[k][2] /\ s[k][2] <= b
  <2>1. CASE k = 1
    BY <1>3, <1>8, <2>1
  <2>2. CASE k = 2
    BY <1>3, <1>8, <2>2
  <2>3. CASE k # 1 /\ k # 2
    <3>1. k - 2 \in 1 .. L /\ (k - 2) + 2 = k
      BY <1>4, <2>3
    <3>2. QED
      BY <1>8, <1>9, <3>1
  <2>4. QED
    BY <2>1, <2>2, <2>3
<1>12. ASSUME NEW k \in 1 .. (2 + L) - 1
       PROVE  First(s[k + 1]) = s[k][2] + 1
  <2>1. CASE k = 1
    BY <1>3, <1>8, <2>1
  <2>2. CASE k = 2
    <3>1. L # 0 /\ 1 \in 1 .. L /\ t # <<>>
      BY <1>4, <2>2 DEF L
    <3>2. s[3] = t[1]
      <4>1. s[1 + 2] = t[1]
        BY <1>8, <3>1
      <4>2. QED
        BY <4>1
    <3>3. First(t[1]) = e + 1
      BY <3>1 DEF Covers
    <3>4. QED
      BY <1>3, <1>8, <2>2, <3>2, <3>3
  <2>3. CASE k # 1 /\ k # 2
    <3>1. PICK i \in 1 .. L - 1 : i = k - 2
      BY <1>4, <2>3
    <3>2. i \in 1 .. L /\ i + 1 \in 1 .. L
      BY <1>4, <3>1
    <3>3. s[i + 2] = t[i] /\ s[(i + 1) + 2] = t[i + 1]
      BY <1>8, <3>2
    <3>4. First(t[i + 1]) = t[i][2] + 1
      BY <3>1 DEF Covers, L
    <3>5. k = i + 2 /\ k + 1 = (i + 1) + 2
      BY <3>1
    <3>6. QED
      BY <3>3, <3>4, <3>5
  <2>4. QED
    BY <2>1, <2>2, <2>3
<1>13. First(s[1]) = a /\ b + 1 # a
  BY <1>3, <1>8
<1>14. Covers(s, a, b)
  BY <1>6, <1>7, <1>10, <1>11, <1>12, <1>13 DEF Covers
<1>15. QED
  BY <1>1, <1>2, <1>14 DEF s

-----------------------------------------------------------------------------
(* The steps of a job.                                                     *)

Working(j) == j.pc \in {"calling", "storing"}

\* The calls that remain follow the vectors that have been received.
Sends(j) ==
    \E a \in Nat : /\ j.calls # <<>>
                   /\ Covers(j.calls, a, Requests[j.index][2])
                   /\ First(Requests[j.index]) <= a
                   /\ j.out = Numbers(First(Requests[j.index]), a - 1)

\* A job has what it needs to answer its request, or it has failed.
WorkIsSound(j) ==
    /\ j.pc = "calling" => Sends(j)
    /\ j.pc = "storing" => j.failed \/ j.out = VectorsOf(Requests[j.index])

\* A job goes on with its request.
Continues(j, n) == n \in Job /\ Working(n) /\ n.index = j.index /\ WorkIsSound(n)

\* A call, as a pair of inputs.
Part == Inputs \X Inputs

LEMMA JobFields ==
    ASSUME NEW j \in Job
    PROVE  /\ j.index \in Nat /\ j.calls \in Seq(Part)
           /\ j.out \in Seq(Inputs) /\ j.failed \in BOOLEAN
           /\ j.retries \in 0 .. MaxRetries
           /\ j.limited \in 0 .. MaxWait \cup {None}
BY DEF Job, Part

LEMMA NewJobType ==
    ASSUME NEW pc \in {"taking", "calling", "storing", "stopping", "ended"}
    PROVE  /\ NewJob \in Job
           /\ [NewJob EXCEPT !.pc = pc] \in Job
           /\ [NewJob EXCEPT !.pc = pc].pc = pc
<1>1. <<>> \in Seq(Part) /\ <<>> \in Seq(Inputs)
  OBVIOUS
<1>2. 0 \in 0 .. MaxRetries
  BY RemoteAssumption
<1>3. QED
  BY <1>1, <1>2 DEF NewJob, Job, Part

LEMMA FailsContinues ==
    ASSUME NEW j \in Job
    PROVE  Continues(j, Fails(j))
<1>1. Fails(j) \in Job
  <2>1. <<>> \in Seq(Part) /\ <<>> \in Seq(Inputs)
    OBVIOUS
  <2>2. 0 \in 0 .. MaxRetries
    BY RemoteAssumption
  <2>3. QED
    BY <2>1, <2>2 DEF Fails, Job, Part
<1>2. Fails(j).pc = "storing" /\ Fails(j).failed /\ Fails(j).index = j.index
  BY DEF Fails, Job
<1>3. QED
  BY <1>1, <1>2 DEF Continues, Working, WorkIsSound

LEMMA CallsAre ==
    ASSUME NEW j \in Job, NEW calls \in Seq(Part), NEW out \in Seq(Inputs),
           NEW n, n = Calls(j, calls, out)
    PROVE  /\ n \in Job /\ n.index = j.index
           /\ n.calls = calls /\ n.out = out
           /\ calls = <<>> => n.pc = "storing"
           /\ calls # <<>> => n.pc = "calling"
<1>1. 0 \in 0 .. MaxRetries
  BY RemoteAssumption
<1>2. PICK pc \in {"storing", "calling"} :
         pc = IF calls = <<>> THEN "storing" ELSE "calling"
  BY Zenon
<1>3. n = [j EXCEPT !.pc = pc, !.calls = calls, !.out = out,
                    !.retries = 0, !.limited = None]
  BY <1>2, Zenon DEF Calls
<1>4. n \in Job
  BY <1>1, <1>3 DEF Job, Part
<1>5. n.pc = pc /\ n.index = j.index /\ n.calls = calls /\ n.out = out
  BY <1>3 DEF Job
<1>6. QED
  BY <1>2, <1>4, <1>5

LEMMA CallsContinue ==
    ASSUME NEW j \in Job, j.index \in 1 .. Len(Requests),
           NEW calls \in Seq(Part), NEW out \in Seq(Inputs),
           NEW a \in Nat,
           First(Requests[j.index]) <= a,
           Covers(calls, a, Requests[j.index][2]),
           out = Numbers(First(Requests[j.index]), a - 1)
    PROVE  Continues(j, Calls(j, calls, out))
<1>1. PICK n : n = Calls(j, calls, out)
  OBVIOUS
<1>2. /\ n \in Job /\ n.index = j.index
      /\ n.calls = calls /\ n.out = out
      /\ calls = <<>> => n.pc = "storing"
      /\ calls # <<>> => n.pc = "calling"
  BY <1>1, CallsAre
<1>3. CASE calls = <<>>
  <2>1. Requests[j.index][2] + 1 = a
    BY <1>3 DEF Covers
  <2>2. Requests[j.index][2] \in Nat
    BY RequestsAre
  <2>3. a - 1 = Requests[j.index][2]
    BY <2>1, <2>2
  <2>4. out = VectorsOf(Requests[j.index])
    BY <2>3 DEF VectorsOf
  <2>5. QED
    BY <1>1, <1>2, <1>3, <2>4 DEF Continues, Working, WorkIsSound
<1>4. CASE calls # <<>>
  <2>1. Sends(n)
    BY <1>2, <1>4 DEF Sends
  <2>2. n.pc = "calling"
    BY <1>2, <1>4
  <2>3. QED
    BY <1>1, <1>2, <2>1, <2>2 DEF Continues, Working, WorkIsSound
<1>5. QED
  BY <1>3, <1>4

\* The vectors of the first call are added to those before.
LEMMA VectorsContinue ==
    ASSUME NEW j \in Job, j.index \in 1 .. Len(Requests), j.pc = "calling",
           WorkIsSound(j), NEW data,
           NEW vectors, vectors = Collected(Head(j.calls), data), vectors # Error
    PROVE  Continues(j, Calls(j, Tail(j.calls), j.out \o vectors))
<1>1. PICK r : r = Requests[j.index]
  OBVIOUS
<1>2. /\ r \in Inputs \X Inputs /\ First(r) \in Nat /\ r[2] \in Nat
      /\ 1 <= First(r) /\ First(r) <= r[2] /\ r[2] <= Len(Length)
  BY <1>1, RequestsAre
<1>3. PICK a \in Nat : /\ j.calls # <<>>
                       /\ Covers(j.calls, a, r[2])
                       /\ First(r) <= a
                       /\ j.out = Numbers(First(r), a - 1)
  BY <1>1 DEF WorkIsSound, Sends
<1>4. PICK call : call = Head(j.calls)
  OBVIOUS
<1>5. /\ call \in Interval /\ First(call) = a /\ call[2] \in Nat
      /\ 1 <= a /\ a <= call[2] /\ call[2] <= r[2]
      /\ Covers(Tail(j.calls), call[2] + 1, r[2])
  BY <1>2, <1>3, <1>4, CoversTail
<1>6. vectors = Numbers(a, call[2])
  <2>1. vectors = [i \in 1 .. Size(call) |-> First(call) + i - 1]
    BY <1>4 DEF Collected
  <2>2. Size(call) = call[2] - a + 1
    BY <1>5 DEF Size, First
  <2>3. QED
    BY <1>5, <2>1, <2>2 DEF Numbers
<1>7. j.out \o vectors = Numbers(First(r), call[2])
  <2>1. First(r) <= a /\ a <= call[2] + 1
    BY <1>3, <1>5
  <2>2. Numbers(First(r), a - 1) \o Numbers(a, call[2]) = Numbers(First(r), call[2])
    BY <1>2, <1>5, <2>1, NumbersJoin
  <2>3. QED
    BY <1>3, <1>6, <2>2
<1>8. Tail(j.calls) \in Seq(Part)
  <2>1. j.calls \in Seq(Part)
    BY JobFields
  <2>2. QED
    BY <1>3, <2>1, TailIs
<1>9. j.out \o vectors \in Seq(Inputs)
  <2>1. First(r) \in Inputs /\ call[2] \in Inputs
    BY <1>2, <1>3, <1>5, InputsAre
  <2>2. QED
    BY <1>7, <2>1, VectorsType
<1>10. /\ call[2] + 1 \in Nat /\ First(r) <= call[2] + 1
       /\ (call[2] + 1) - 1 = call[2]
  BY <1>2, <1>3, <1>5
<1>11. QED
  BY <1>1, <1>5, <1>7, <1>8, <1>9, <1>10, CallsContinue

LEMMA MiddleOf ==
    ASSUME NEW a \in Nat, NEW b \in Nat, b - a + 1 > 1
    PROVE  LET m == a + ((b - a + 1) \div 2) IN m \in Nat /\ a < m /\ m <= b
<1>1. PICK n \in Nat : n = b - a + 1
  OBVIOUS
<1>2. n \div 2 \in 1 .. n - 1
  BY <1>1
<1>3. QED
  BY <1>1, <1>2

\* A call that is halved still covers what it did.
LEMMA HalvesContinue ==
    ASSUME NEW j \in Job, j.index \in 1 .. Len(Requests), j.pc = "calling",
           WorkIsSound(j), NEW call, call = Head(j.calls), Splittable(call),
           NEW m, m = First(call) + Size(call) \div 2
    PROVE  Continues(j, Calls(j, <<<<First(call), m - 1>>, <<m, call[2]>>>>
                                    \o Tail(j.calls), j.out))
<1>1. PICK r : r = Requests[j.index]
  OBVIOUS
<1>2. /\ r \in Inputs \X Inputs /\ First(r) \in Nat /\ r[2] \in Nat
      /\ 1 <= First(r) /\ First(r) <= r[2] /\ r[2] <= Len(Length)
  BY <1>1, RequestsAre
<1>3. PICK a \in Nat : /\ j.calls # <<>>
                       /\ Covers(j.calls, a, r[2])
                       /\ First(r) <= a
                       /\ j.out = Numbers(First(r), a - 1)
  BY <1>1 DEF WorkIsSound, Sends
<1>4. /\ call \in Interval /\ First(call) = a /\ call[2] \in Nat
      /\ 1 <= a /\ a <= call[2] /\ call[2] <= r[2]
      /\ Covers(Tail(j.calls), call[2] + 1, r[2])
  BY <1>2, <1>3, CoversTail
<1>5. m \in Nat /\ a < m /\ m <= call[2]
  <2>1. Size(call) = call[2] - a + 1
    BY <1>4 DEF Size, First
  <2>2. call[2] - a + 1 > 1
    BY <2>1 DEF Splittable
  <2>3. QED
    BY <1>4, <2>1, <2>2, MiddleOf
<1>6. Covers(<<<<a, m - 1>>, <<m, call[2]>>>> \o Tail(j.calls), a, r[2])
  BY <1>2, <1>4, <1>5, CoversHalves
<1>7. <<<<a, m - 1>>, <<m, call[2]>>>> \o Tail(j.calls) \in Seq(Part)
  <2>1. a \in Inputs /\ m - 1 \in Inputs /\ m \in Inputs /\ call[2] \in Inputs
    <3>1. call[2] <= Len(Length)
      BY <1>2, <1>4, InputsAre
    <3>2. 1 <= a /\ a < m /\ m <= call[2] /\ m \in Nat /\ call[2] \in Nat
      BY <1>4, <1>5
    <3>3. QED
      BY <3>1, <3>2, InputsAre
  <2>2. <<a, m - 1>> \in Part /\ <<m, call[2]>> \in Part
    BY <2>1 DEF Part
  <2>3. Tail(j.calls) \in Seq(Part)
    <3>1. j.calls \in Seq(Part)
      BY JobFields
    <3>2. QED
      BY <1>3, <3>1, TailIs
  <2>4. <<<<a, m - 1>>, <<m, call[2]>>>> \in Seq(Part)
    BY <2>2
  <2>5. QED
    BY <2>3, <2>4, ConcatProperties
<1>8. j.out \in Seq(Inputs)
  BY JobFields
<1>9. QED
  BY <1>1, <1>3, <1>4, <1>6, <1>7, <1>8, CallsContinue

\* A call that is sent again.
LEMMA AgainContinues ==
    ASSUME NEW j \in Job, j.pc = "calling", WorkIsSound(j),
           NEW n \in Job, n.pc = j.pc, n.index = j.index,
           n.calls = j.calls, n.out = j.out
    PROVE  Continues(j, n)
BY DEF Continues, Working, WorkIsSound, Sends

\* Whatever is answered, the worker goes on with its request.
LEMMA AnsweredContinues ==
    ASSUME NEW w \in Worker, Answered(w), job[w] \in Job, job[w].pc = "calling",
           job[w].index \in 1 .. Len(Requests), WorkIsSound(job[w])
    PROVE  \E n : Becomes(w, n) /\ Continues(job[w], n)
<1>1. PICK j : j = job[w]
  OBVIOUS
<1>2. j \in Job /\ j.pc = "calling" /\ j.index \in 1 .. Len(Requests) /\ WorkIsSound(j)
  BY <1>1
<1>3. CASE Vectors(w)
  <2>1. PICK data : LET vectors == Collected(Head(j.calls), data)
                    IN IF vectors = Error
                       THEN Drop(w) /\ Becomes(w, Fails(j))
                       ELSE Succeed(w)
                            /\ Becomes(w, Calls(j, Tail(j.calls), j.out \o vectors))
    BY <1>1, <1>3 DEF Vectors
  <2>2. PICK vectors : vectors = Collected(Head(j.calls), data)
    OBVIOUS
  <2>3. CASE vectors = Error
    BY <1>1, <1>2, <2>1, <2>2, <2>3, FailsContinues
  <2>4. CASE vectors # Error
    <3>1. Becomes(w, Calls(j, Tail(j.calls), j.out \o vectors))
      BY <2>1, <2>2, <2>4
    <3>2. Continues(j, Calls(j, Tail(j.calls), j.out \o vectors))
      BY <1>2, <2>2, <2>4, VectorsContinue
    <3>3. QED
      BY <1>1, <3>1, <3>2
  <2>5. QED
    BY <2>3, <2>4
<1>4. CASE TooManyRequests(w)
  <2>1. Becomes(w, IF Since(j) >= MaxWait THEN Fails(j)
                   ELSE [j EXCEPT !.limited = Since(j)])
    BY <1>1, <1>4 DEF TooManyRequests
  <2>2. CASE Since(j) >= MaxWait
    BY <1>1, <1>2, <2>1, <2>2, FailsContinues
  <2>3. CASE ~(Since(j) >= MaxWait)
    <3>1. PICK n : n = [j EXCEPT !.limited = Since(j)]
      OBVIOUS
    <3>2. Since(j) \in 0 .. MaxWait
      BY <1>2, <2>3, JobFields, RemoteAssumption, GateAssumption DEF Since
    <3>3. n \in Job /\ n.pc = j.pc /\ n.index = j.index /\ n.calls = j.calls /\ n.out = j.out
      BY <1>2, <3>1, <3>2 DEF Job
    <3>4. Continues(j, n)
      BY <1>2, <3>3, AgainContinues
    <3>5. QED
      BY <1>1, <2>1, <2>3, <3>1, <3>4
  <2>4. QED
    BY <2>2, <2>3
<1>5. CASE TooLarge(w)
  <2>1. PICK call : call = Head(j.calls)
    OBVIOUS
  <2>2. PICK m : m = First(call) + Size(call) \div 2
    OBVIOUS
  <2>3. Becomes(w, IF ~Splittable(call) THEN Fails(j)
                   ELSE Calls(j, <<<<First(call), m - 1>>, <<m, call[2]>>>>
                                    \o Tail(j.calls), j.out))
    BY <1>1, <1>5, <2>1, <2>2 DEF TooLarge
  <2>4. CASE ~Splittable(call)
    BY <1>1, <1>2, <2>3, <2>4, FailsContinues
  <2>5. CASE Splittable(call)
    BY <1>1, <1>2, <2>1, <2>2, <2>3, <2>5, HalvesContinue
  <2>6. QED
    BY <2>4, <2>5
<1>6. CASE Retry(w)
  <2>1. Becomes(w, IF j.retries >= MaxRetries THEN Fails(j)
                   ELSE [j EXCEPT !.retries = @ + 1])
    BY <1>1, <1>6 DEF Retry
  <2>2. CASE j.retries >= MaxRetries
    BY <1>1, <1>2, <2>1, <2>2, FailsContinues
  <2>3. CASE ~(j.retries >= MaxRetries)
    <3>1. PICK n : n = [j EXCEPT !.retries = @ + 1]
      OBVIOUS
    <3>2. j.retries + 1 \in 0 .. MaxRetries
      BY <1>2, <2>3, JobFields, RemoteAssumption
    <3>3. n \in Job /\ n.pc = j.pc /\ n.index = j.index /\ n.calls = j.calls /\ n.out = j.out
      BY <1>2, <3>1, <3>2 DEF Job
    <3>4. Continues(j, n)
      BY <1>2, <3>3, AgainContinues
    <3>5. QED
      BY <1>1, <2>1, <2>3, <3>1, <3>4
  <2>4. QED
    BY <2>2, <2>3
<1>7. CASE Fatal(w)
  BY <1>1, <1>2, <1>7, FailsContinues DEF Fatal
<1>8. QED
  BY <1>3, <1>4, <1>5, <1>6, <1>7 DEF Answered

-----------------------------------------------------------------------------
(* The invariant of a batch.                                               *)

EnoughWorkers == Cardinality(Worker) = Threads

BatchTypes ==
    /\ next \in Nat \ {0}
    /\ results \in [1 .. Len(Requests) -> Seq(Inputs) \cup {Error, None}]
    /\ job \in [Worker -> Job]

\* After the requests are taken every worker counts on at most once.
Ended == {w \in Worker : job[w].pc = "ended"}
NextIsBounded == next <= Len(Requests) + 1 + Cardinality(Ended)

\* A request that is worked on is worked on by one worker, and has no result.
TakenOnce ==
    \A w \in Worker : Working(job[w]) =>
        /\ job[w].index \in 1 .. Len(Requests)
        /\ job[w].index < next
        /\ results[job[w].index] = None
        /\ \A v \in Worker : Working(job[v]) /\ job[v].index = job[w].index => v = w

AllWorkIsSound == \A w \in Worker : WorkIsSound(job[w])

ResultsAreSound ==
    \A k \in 1 .. Len(Requests) :
        /\ results[k] \in {None, Error, VectorsOf(Requests[k])}
        /\ next <= k => results[k] = None

Failed == \E k \in 1 .. Len(Requests) : results[k] = Error

\* A request that was taken has a result, or a worker, unless one has failed.
NothingIsForgotten ==
    \A k \in 1 .. Len(Requests) :
        \/ next <= k
        \/ results[k] # None
        \/ \E w \in Worker : Working(job[w]) /\ job[w].index = k
        \/ Failed

\* A worker ends when it finds no request, or after a failure.
EndsAreJustified ==
    \A w \in Worker : /\ job[w].pc = "stopping" => Failed
                      /\ job[w].pc = "ended" => next > Len(Requests)

OutcomeIsSound ==
    /\ outcome \in {None, Error, Numbers(1, Len(Length))}
    /\ outcome # None => \A w \in Worker : job[w].pc = "ended"

BatchInv ==
    /\ EnoughWorkers
    /\ BatchTypes
    /\ NextIsBounded
    /\ TakenOnce
    /\ AllWorkIsSound
    /\ ResultsAreSound
    /\ NothingIsForgotten
    /\ EndsAreJustified
    /\ OutcomeIsSound

LEMMA BatchInitial == RemoteInit => BatchInv
<1> SUFFICES ASSUME RemoteInit PROVE BatchInv
  OBVIOUS
<1>1. NewJob \in Job /\ NewJob.pc = "taking"
  BY NewJobType DEF NewJob
<1>2. /\ next = 1 /\ outcome = None
      /\ results = [k \in 1 .. Len(Requests) |-> None]
      /\ job = [w \in Worker |-> NewJob]
  BY RequestsAre DEF RemoteInit
<1>3. EnoughWorkers
  BY DEF RemoteInit, EnoughWorkers
<1>4. BatchTypes
  BY <1>1, <1>2 DEF BatchTypes
<1>5. \A w \in Worker : job[w].pc = "taking"
  BY <1>1, <1>2
<1>6. NextIsBounded
  <2>1. Ended = {}
    BY <1>5 DEF Ended
  <2>2. Cardinality(Ended) = 0
    BY <2>1, FS_EmptySet
  <2>3. QED
    BY <1>2, <2>2, RequestsAre DEF NextIsBounded
<1>7. TakenOnce /\ AllWorkIsSound
  BY <1>5 DEF TakenOnce, AllWorkIsSound, Working, WorkIsSound
<1>8. ResultsAreSound
  BY <1>2 DEF ResultsAreSound
<1>9. NothingIsForgotten
  BY <1>2 DEF NothingIsForgotten
<1>10. EndsAreJustified /\ OutcomeIsSound
  BY <1>2, <1>5 DEF EndsAreJustified, OutcomeIsSound
<1>11. QED
  BY <1>3, <1>4, <1>6, <1>7, <1>8, <1>9, <1>10 DEF BatchInv

\* A step that leaves what the invariant looks at.
LEMMA SameWork ==
    ASSUME BatchInv, UNCHANGED <<next, results, outcome>>,
           job' \in [Worker -> Job],
           \A w \in Worker : /\ job'[w].pc = job[w].pc
                             /\ job'[w].index = job[w].index
                             /\ job'[w].calls = job[w].calls
                             /\ job'[w].out = job[w].out
                             /\ job'[w].failed = job[w].failed
    PROVE  BatchInv'
<1>1. \A w \in Worker : Working(job'[w]) <=> Working(job[w])
  BY DEF Working
<1>2. EnoughWorkers'
  BY DEF BatchInv, EnoughWorkers
<1>3. BatchTypes'
  BY DEF BatchInv, BatchTypes
<1>4. NextIsBounded'
  <2>1. Ended' = Ended
    BY DEF Ended
  <2>2. QED
    BY <2>1 DEF BatchInv, NextIsBounded
<1>5. TakenOnce'
  BY <1>1 DEF BatchInv, TakenOnce
<1>6. AllWorkIsSound'
  BY DEF BatchInv, AllWorkIsSound, WorkIsSound, Sends
<1>7. Failed' <=> Failed
  BY DEF Failed
<1>8. ResultsAreSound' /\ NothingIsForgotten' /\ EndsAreJustified'
  BY <1>1, <1>7 DEF BatchInv, ResultsAreSound, NothingIsForgotten, EndsAreJustified
<1>9. OutcomeIsSound'
  BY DEF BatchInv, OutcomeIsSound
<1>10. QED
  BY <1>2, <1>3, <1>4, <1>5, <1>6, <1>8, <1>9 DEF BatchInv

\* The clock of a request that is being limited is all that time changes.
LEMMA TimeOfJob ==
    ASSUME job \in [Worker -> Job], TimePasses, NEW w \in Worker
    PROVE  /\ job'[w] \in Job
           /\ job'[w].pc = job[w].pc
           /\ job'[w].index = job[w].index
           /\ job'[w].calls = job[w].calls
           /\ job'[w].out = job[w].out
           /\ job'[w].failed = job[w].failed
<1>1. PICK j \in Job : j = job[w]
  OBVIOUS
<1>2. job'[w] = IF j.limited \in 0 .. MaxWait - 1
                THEN [j EXCEPT !.limited = @ + 1] ELSE j
  BY <1>1 DEF TimePasses
<1>3. CASE j.limited \in 0 .. MaxWait - 1
  <2>1. job'[w] = [j EXCEPT !.limited = j.limited + 1]
    BY <1>2, <1>3
  <2>2. j.limited + 1 \in 0 .. MaxWait
    BY <1>3, RemoteAssumption
  <2>3. QED
    BY <1>1, <2>1, <2>2 DEF Job
<1>4. CASE j.limited \notin 0 .. MaxWait - 1
  BY <1>1, <1>2, <1>4
<1>5. QED
  BY <1>3, <1>4

LEMMA StepTime ==
    ASSUME BatchInv, TimePasses
    PROVE  BatchInv'
<1>1. job \in [Worker -> Job]
  BY DEF BatchInv, BatchTypes
<1>2. UNCHANGED <<next, results, outcome>>
  BY DEF TimePasses
<1>3. job' \in [Worker -> Job]
  <2>1. job' = [w \in Worker |-> job'[w]]
    BY DEF TimePasses
  <2>2. QED
    BY <1>1, <2>1, TimeOfJob
<1>4. QED
  BY <1>1, <1>2, <1>3, TimeOfJob, SameWork

\* The job of one worker changes.
LEMMA OneJob ==
    ASSUME job \in [Worker -> Job], NEW w \in Worker, NEW n \in Job, Becomes(w, n)
    PROVE  /\ job' \in [Worker -> Job]
           /\ job'[w] = n
           /\ \A v \in Worker : v # w => job'[v] = job[v]
BY DEF Becomes

LEMMA StepAnswered ==
    ASSUME BatchInv, NEW w \in Worker, job[w].pc = "calling", Answered(w)
    PROVE  BatchInv'
<1>1. job \in [Worker -> Job]
  BY DEF BatchInv, BatchTypes
<1>2. Working(job[w])
  BY DEF Working
<1>3. job[w] \in Job /\ job[w].index \in 1 .. Len(Requests) /\ WorkIsSound(job[w])
  BY <1>1, <1>2 DEF BatchInv, TakenOnce, AllWorkIsSound
<1>4. PICK n : Becomes(w, n) /\ Continues(job[w], n)
  BY <1>3, AnsweredContinues
<1>5. n \in Job /\ Working(n) /\ n.index = job[w].index /\ WorkIsSound(n)
  BY <1>4 DEF Continues
<1>6. /\ job' \in [Worker -> Job]
      /\ job'[w] = n
      /\ \A v \in Worker : v # w => job'[v] = job[v]
  BY <1>1, <1>4, <1>5, OneJob
<1>7. UNCHANGED <<next, results, outcome>>
  BY DEF Answered
<1>8. \A v \in Worker : /\ Working(job'[v]) <=> Working(job[v])
                        /\ job'[v].index = job[v].index
  BY <1>2, <1>5, <1>6
<1>9. EnoughWorkers' /\ BatchTypes'
  BY <1>6, <1>7 DEF BatchInv, EnoughWorkers, BatchTypes
<1>10. \A v \in Worker : /\ job'[v].pc = "ended" <=> job[v].pc = "ended"
                         /\ job'[v].pc = "stopping" <=> job[v].pc = "stopping"
  BY <1>2, <1>5, <1>6 DEF Working
<1>11. NextIsBounded'
  <2>1. Ended' = Ended
    BY <1>10 DEF Ended
  <2>2. QED
    BY <1>7, <2>1 DEF BatchInv, NextIsBounded
<1>12. TakenOnce'
  BY <1>7, <1>8 DEF BatchInv, TakenOnce
<1>13. AllWorkIsSound'
  BY <1>5, <1>6 DEF BatchInv, AllWorkIsSound
<1>14. Failed' <=> Failed
  BY <1>7 DEF Failed
<1>15. ResultsAreSound' /\ NothingIsForgotten' /\ EndsAreJustified'
  BY <1>7, <1>8, <1>10, <1>14
     DEF BatchInv, ResultsAreSound, NothingIsForgotten, EndsAreJustified
<1>16. OutcomeIsSound'
  BY <1>7, <1>10 DEF BatchInv, OutcomeIsSound
<1>17. QED
  BY <1>9, <1>11, <1>12, <1>13, <1>15, <1>16 DEF BatchInv

LEMMA EndedFinite == IsFiniteSet(Ended)
<1>1. Ended \in SUBSET Worker
  BY DEF Ended
<1>2. QED
  BY <1>1, GateAssumption, FS_Subset

LEMMA StepTake ==
    ASSUME BatchInv, NEW w \in Worker, Take(w)
    PROVE  BatchInv'
<1> DEFINE K == Len(Requests)
<1>1. /\ job \in [Worker -> Job] /\ next \in Nat \ {0} /\ K \in Nat
      /\ results \in [1 .. K -> Seq(Inputs) \cup {Error, None}]
  BY RequestsAre DEF BatchInv, BatchTypes
<1>2. job[w].pc = "taking" /\ next' = next + 1 /\ UNCHANGED <<results, outcome>>
  BY DEF Take
<1>3. outcome = None
  BY <1>2 DEF BatchInv, OutcomeIsSound
<1>4. Failed' <=> Failed
  BY <1>2 DEF Failed
<1>5. EnoughWorkers'
  BY DEF BatchInv, EnoughWorkers
<1>6. ResultsAreSound'
  <2>1. \A k \in 1 .. K : next' <= k => next <= k
    BY <1>1, <1>2
  <2>2. QED
    BY <1>2, <2>1 DEF BatchInv, ResultsAreSound
<1>7. OutcomeIsSound'
  BY <1>2, <1>3 DEF OutcomeIsSound
<1>8. CASE next \in 1 .. K
  <2>1. next \in DOMAIN Requests
    BY <1>8, RequestsAre
  <2>2. PICK r : r = Requests[next]
    OBVIOUS
  <2>3. /\ r \in Interval /\ r \in Part /\ First(r) \in Nat /\ r[2] \in Nat
        /\ 1 <= First(r) /\ First(r) <= r[2]
    BY <1>8, <2>2, RequestsAre DEF Part
  <2>4. PICK n : n = [NewJob EXCEPT !.pc = "calling", !.index = next, !.calls = <<r>>]
    OBVIOUS
  <2>5. Becomes(w, n)
    BY <2>1, <2>2, <2>4 DEF Take
  <2>6. /\ n \in Job /\ n.pc = "calling" /\ n.index = next
        /\ n.calls = <<r>> /\ n.out = <<>>
    <3>1. NewJob \in Job
      BY NewJobType
    <3>2. <<r>> \in Seq(Part) /\ next \in Nat
      BY <1>1, <2>3
    <3>3. n \in Job /\ n.pc = "calling" /\ n.index = next /\ n.calls = <<r>>
      BY <2>4, <3>1, <3>2 DEF Job, Part
    <3>4. n.out = <<>>
      BY <2>4 DEF NewJob
    <3>5. QED
      BY <3>3, <3>4
  <2>7. WorkIsSound(n)
    <3>1. Covers(<<r>>, First(r), r[2])
      <4>1. <<r>> \in Seq(Interval) /\ Len(<<r>>) = 1 /\ <<r>>[1] = r /\ <<r>> # <<>>
        BY <2>3
      <4>2. PICK s : s = <<r>>
        OBVIOUS
      <4>3. s \in Seq(Interval) /\ Len(s) = 1 /\ s[1] = r /\ s # <<>>
        BY <4>1, <4>2
      <4>4. Covers(s, First(r), r[2])
        BY <2>3, <4>3 DEF Covers
      <4>5. QED
        BY <4>2, <4>4
    <3>2. Numbers(First(r), First(r) - 1) = <<>>
      <4>1. 1 .. (First(r) - 1) - First(r) + 1 = {}
        BY <2>3
      <4>2. QED
        BY <4>1 DEF Numbers
    <3>3. Sends(n)
      <4>1. n.calls # <<>>
        BY <2>6
      <4>2. Covers(n.calls, First(r), Requests[n.index][2])
        BY <2>2, <2>6, <3>1
      <4>3. First(Requests[n.index]) <= First(r)
        BY <2>2, <2>3, <2>6
      <4>4. n.out = Numbers(First(Requests[n.index]), First(r) - 1)
        BY <2>2, <2>6, <3>2
      <4>5. QED
        BY <2>3, <4>1, <4>2, <4>3, <4>4 DEF Sends
    <3>4. QED
      BY <2>6, <3>3 DEF WorkIsSound
  <2>8. /\ job' \in [Worker -> Job]
        /\ job'[w] = n
        /\ \A v \in Worker : v # w => job'[v] = job[v]
    BY <1>1, <2>5, <2>6, OneJob
  <2>9. /\ Working(job'[w]) /\ job'[w].index = next
        /\ \A v \in Worker : v # w => job'[v] = job[v]
        /\ ~Working(job[w])
    BY <1>2, <2>6, <2>8 DEF Working
  <2>10. results[next] = None /\ next < next'
    BY <1>1, <1>2, <1>8 DEF BatchInv, ResultsAreSound
  <2>11. BatchTypes'
    BY <1>1, <1>2, <2>8 DEF BatchTypes
  <2>12. NextIsBounded'
    <3>1. Ended' = Ended
      BY <1>2, <2>6, <2>8 DEF Ended
    <3>2. Cardinality(Ended) \in Nat
      BY EndedFinite, FS_CardinalityType
    <3>3. next' <= K + 1
      BY <1>1, <1>2, <1>8
    <3>4. next' <= K + 1 + Cardinality(Ended)
      <4> HIDE DEF K
      <4>1. QED
        BY <1>1, <1>2, <3>2, <3>3
    <3>5. QED
      BY <3>1, <3>4 DEF NextIsBounded
  <2>13. TakenOnce'
    <3>1. SUFFICES ASSUME NEW v \in Worker, Working(job'[v])
                   PROVE  /\ job'[v].index \in 1 .. K
                          /\ job'[v].index < next'
                          /\ results'[job'[v].index] = None
                          /\ \A u \in Worker : Working(job'[u]) /\ job'[u].index = job'[v].index
                                => u = v
      BY DEF TakenOnce
    <3>2. \A u \in Worker : u # w /\ Working(job'[u]) =>
             /\ job'[u].index \in 1 .. K
             /\ job'[u].index < next
             /\ results[job'[u].index] = None
      BY <2>9 DEF BatchInv, TakenOnce
    <3>3. CASE v = w
      BY <1>2, <1>8, <2>9, <2>10, <3>2, <3>3
    <3>4. CASE v # w
      <4>1. /\ job'[v].index \in 1 .. K
            /\ job'[v].index < next
            /\ results[job'[v].index] = None
        BY <3>1, <3>2, <3>4
      <4>2. \A u \in Worker : u # w /\ Working(job'[u]) /\ job'[u].index = job'[v].index
               => u = v
        BY <2>9, <3>1, <3>4 DEF BatchInv, TakenOnce
      <4>3. job'[w].index # job'[v].index
        BY <1>1, <2>9, <4>1
      <4>4. QED
        BY <1>1, <1>2, <4>1, <4>2, <4>3
    <3>5. QED
      BY <3>3, <3>4
  <2>14. AllWorkIsSound'
    BY <2>7, <2>8 DEF BatchInv, AllWorkIsSound
  <2>15. NothingIsForgotten'
    <3>1. SUFFICES ASSUME NEW k \in 1 .. K
                   PROVE  \/ next' <= k
                          \/ results'[k] # None
                          \/ \E v \in Worker : Working(job'[v]) /\ job'[v].index = k
                          \/ Failed'
      BY DEF NothingIsForgotten
    <3>2. CASE k = next
      BY <2>9, <3>2
    <3>3. CASE k # next
      <4>1. \/ next <= k
            \/ results[k] # None
            \/ \E v \in Worker : Working(job[v]) /\ job[v].index = k
            \/ Failed
        BY DEF BatchInv, NothingIsForgotten
      <4>2. next <= k => next' <= k
        BY <1>1, <1>2, <3>3
      <4>3. \A v \in Worker : Working(job[v]) => job'[v] = job[v]
        BY <2>9
      <4>4. QED
        BY <1>2, <1>4, <4>1, <4>2, <4>3
    <3>4. QED
      BY <3>2, <3>3
  <2>16. EndsAreJustified'
    <3>1. \A v \in Worker : /\ job'[v].pc = "stopping" => job[v].pc = "stopping"
                            /\ job'[v].pc = "ended" => job[v].pc = "ended"
      BY <2>6, <2>8
    <3>2. next > K => next' > K
      BY <1>1, <1>2
    <3>3. QED
      BY <1>4, <3>1, <3>2 DEF BatchInv, EndsAreJustified
  <2>17. QED
    BY <1>5, <1>6, <1>7, <2>11, <2>12, <2>13, <2>14, <2>15, <2>16 DEF BatchInv
<1>9. CASE next \notin 1 .. K
  <2>1. next \notin DOMAIN Requests
    BY <1>9, RequestsAre
  <2>2. PICK n : n = [NewJob EXCEPT !.pc = "ended"]
    OBVIOUS
  <2>3. n \in Job /\ n.pc = "ended" /\ Becomes(w, n)
    BY <2>1, <2>2, NewJobType DEF Take
  <2>4. /\ job' \in [Worker -> Job]
        /\ job'[w] = n
        /\ \A v \in Worker : v # w => job'[v] = job[v]
    BY <1>1, <2>3, OneJob
  <2>5. next > K /\ next' > K
    BY <1>1, <1>2, <1>9
  <2>6. BatchTypes'
    BY <1>1, <1>2, <2>4 DEF BatchTypes
  <2>7. NextIsBounded'
    <3>1. Ended' = Ended \cup {w} /\ w \notin Ended
      BY <1>2, <2>3, <2>4 DEF Ended
    <3>2. Cardinality(Ended') = Cardinality(Ended) + 1
      BY <3>1, EndedFinite, FS_AddElement
    <3>3. Cardinality(Ended) \in Nat
      BY EndedFinite, FS_CardinalityType
    <3>4. next <= K + 1 + Cardinality(Ended)
      BY DEF BatchInv, NextIsBounded
    <3>5. QED
      BY <1>1, <1>2, <3>2, <3>3, <3>4 DEF NextIsBounded
  <2>8. \A v \in Worker : /\ Working(job'[v]) <=> Working(job[v])
                          /\ Working(job[v]) => job'[v] = job[v]
                          /\ job'[v].pc = "stopping" => job[v].pc = "stopping"
    BY <1>2, <2>3, <2>4 DEF Working
  <2>9. TakenOnce'
    <3>1. SUFFICES ASSUME NEW v \in Worker, Working(job'[v])
                   PROVE  /\ job'[v].index \in 1 .. K
                          /\ job'[v].index < next'
                          /\ results'[job'[v].index] = None
                          /\ \A u \in Worker : Working(job'[u]) /\ job'[u].index = job'[v].index
                                => u = v
      BY DEF TakenOnce
    <3>2. \A u \in Worker : Working(job'[u]) => job'[u] = job[u] /\ Working(job[u])
      BY <2>8
    <3>3. /\ job[v].index \in 1 .. K
          /\ job[v].index < next
          /\ results[job[v].index] = None
          /\ \A u \in Worker : Working(job[u]) /\ job[u].index = job[v].index => u = v
      BY <3>1, <3>2 DEF BatchInv, TakenOnce
    <3>4. job[v].index < next'
      BY <1>1, <1>2, <3>3
    <3>5. QED
      BY <1>2, <3>1, <3>2, <3>3, <3>4
  <2>10. AllWorkIsSound'
    <3>1. WorkIsSound(n)
      BY <2>3 DEF WorkIsSound
    <3>2. QED
      BY <2>4, <3>1 DEF BatchInv, AllWorkIsSound
  <2>11. NothingIsForgotten'
    <3>1. \A k \in 1 .. K : ~(next <= k)
      BY <1>1, <2>5
    <3>2. QED
      BY <1>2, <1>4, <2>8, <3>1 DEF BatchInv, NothingIsForgotten
  <2>12. EndsAreJustified'
    BY <1>4, <2>5, <2>8 DEF BatchInv, EndsAreJustified
  <2>13. QED
    BY <1>5, <1>6, <1>7, <2>6, <2>7, <2>9, <2>10, <2>11, <2>12 DEF BatchInv
<1>10. QED
  BY <1>8, <1>9

\* A worker leaves its request with a result: the vectors or an error.
LEMMA StepStore ==
    ASSUME BatchInv, NEW w \in Worker, Store(w)
    PROVE  BatchInv'
<1> DEFINE K == Len(Requests)
<1>1. /\ job \in [Worker -> Job] /\ next \in Nat \ {0} /\ K \in Nat
      /\ results \in [1 .. K -> Seq(Inputs) \cup {Error, None}]
  BY RequestsAre DEF BatchInv, BatchTypes
<1>2. PICK j \in Job : j = job[w]
  BY <1>1
<1>3. job[w].pc = "storing" /\ Working(job[w]) /\ UNCHANGED <<next, outcome>>
  BY DEF Store, Working
<1>4. PICK i : i = j.index
  OBVIOUS
<1>5. i \in 1 .. K /\ i < next /\ results[i] = None
  BY <1>2, <1>3, <1>4 DEF BatchInv, TakenOnce
<1>6. PICK x : x = Stored(j)
  OBVIOUS
<1>7. results' = [results EXCEPT ![i] = x]
  BY <1>2, <1>4, <1>6 DEF Store
<1>8. /\ x \in Seq(Inputs) \cup {Error}
      /\ x \in {Error, VectorsOf(Requests[i])}
      /\ j.failed => x = Error
  <2>1. j.failed \/ j.out = VectorsOf(Requests[i])
    BY <1>2, <1>3, <1>4 DEF BatchInv, AllWorkIsSound, WorkIsSound
  <2>2. j.out \in Seq(Inputs) /\ j.failed \in BOOLEAN
    BY JobFields
  <2>3. QED
    BY <1>6, <2>1, <2>2 DEF Stored
<1>9. x # None
  BY <1>8, NoVectorsFail
<1>10. /\ results' \in [1 .. K -> Seq(Inputs) \cup {Error, None}]
       /\ results'[i] = x
       /\ \A k \in 1 .. K : k # i => results'[k] = results[k]
  <2>1. x \in Seq(Inputs) \cup {Error, None}
    BY <1>8
  <2> DEFINE T == Seq(Inputs) \cup {Error, None}
  <2> HIDE DEF T, K
  <2>2. QED
    BY <1>1, <1>5, <1>7, <2>1 DEF T
<1>11. PICK pc : pc = IF j.failed THEN "stopping" ELSE "taking"
  OBVIOUS
<1>12. PICK n : n = [NewJob EXCEPT !.pc = pc]
  OBVIOUS
<1>13. pc \in {"stopping", "taking"} /\ (pc = "stopping" => j.failed)
  BY <1>11
<1>14. n \in Job /\ n.pc = pc
  BY <1>12, <1>13, NewJobType
<1>15. Becomes(w, n)
  BY <1>2, <1>11, <1>12 DEF Store
<1>16. /\ job' \in [Worker -> Job]
       /\ job'[w] = n
       /\ \A v \in Worker : v # w => job'[v] = job[v]
  BY <1>1, <1>14, <1>15, OneJob
<1>17. ~Working(job'[w]) /\ job'[w].pc # "ended"
  BY <1>13, <1>14, <1>16 DEF Working
<1>18. outcome = None
  BY <1>3 DEF BatchInv, OutcomeIsSound
<1>19. Failed => Failed'
  <2>1. ASSUME NEW k \in 1 .. K, results[k] = Error PROVE results'[k] = Error
    <3>1. k # i
      BY <1>5, <2>1, NoVectorsFail
    <3>2. QED
      BY <1>10, <2>1, <3>1
  <2>2. QED
    BY <2>1 DEF Failed
<1>20. j.failed => Failed'
  BY <1>5, <1>8, <1>10 DEF Failed
<1>21. EnoughWorkers' /\ OutcomeIsSound'
  BY <1>3, <1>18 DEF BatchInv, EnoughWorkers, OutcomeIsSound
<1>22. BatchTypes'
  BY <1>1, <1>3, <1>10, <1>16 DEF BatchTypes
<1>23. NextIsBounded'
  <2>1. Ended' = Ended
    BY <1>3, <1>16, <1>17 DEF Ended
  <2>2. QED
    BY <1>3, <2>1 DEF BatchInv, NextIsBounded
<1>24. TakenOnce'
  <2>1. SUFFICES ASSUME NEW v \in Worker, Working(job'[v])
                 PROVE  /\ job'[v].index \in 1 .. K
                        /\ job'[v].index < next'
                        /\ results'[job'[v].index] = None
                        /\ \A u \in Worker : Working(job'[u]) /\ job'[u].index = job'[v].index
                              => u = v
    BY DEF TakenOnce
  <2>2. \A u \in Worker : Working(job'[u]) => u # w /\ job'[u] = job[u] /\ Working(job[u])
    BY <1>16, <1>17
  <2>3. /\ job[v].index \in 1 .. K
        /\ job[v].index < next
        /\ results[job[v].index] = None
        /\ \A u \in Worker : Working(job[u]) /\ job[u].index = job[v].index => u = v
    BY <2>1, <2>2 DEF BatchInv, TakenOnce
  <2>4. job[v].index # i
    BY <1>2, <1>3, <1>4, <2>1, <2>2, <2>3
  <2>5. results'[job[v].index] = None
    BY <1>10, <2>3, <2>4
  <2>6. QED
    BY <1>3, <2>1, <2>2, <2>3, <2>5
<1>25. AllWorkIsSound'
  <2>1. WorkIsSound(n)
    BY <1>13, <1>14 DEF WorkIsSound
  <2>2. QED
    BY <1>16, <2>1 DEF BatchInv, AllWorkIsSound
<1>26. ResultsAreSound'
  <2>1. SUFFICES ASSUME NEW k \in 1 .. K
                 PROVE  /\ results'[k] \in {None, Error, VectorsOf(Requests[k])}
                        /\ next <= k => results'[k] = None
    BY <1>3 DEF ResultsAreSound
  <2>2. CASE k = i
    BY <1>1, <1>5, <1>8, <1>10, <2>2
  <2>3. CASE k # i
    BY <1>10, <2>3 DEF BatchInv, ResultsAreSound
  <2>4. QED
    BY <2>2, <2>3
<1>27. NothingIsForgotten'
  <2>1. SUFFICES ASSUME NEW k \in 1 .. K
                 PROVE  \/ next <= k
                        \/ results'[k] # None
                        \/ \E v \in Worker : Working(job'[v]) /\ job'[v].index = k
                        \/ Failed'
    BY <1>3 DEF NothingIsForgotten
  <2>2. CASE k = i
    BY <1>9, <1>10, <2>2
  <2>3. CASE k # i
    <3>1. \/ next <= k
          \/ results[k] # None
          \/ \E v \in Worker : Working(job[v]) /\ job[v].index = k
          \/ Failed
      BY DEF BatchInv, NothingIsForgotten
    <3>2. \A v \in Worker : job[v].index = k => v # w
      BY <1>2, <1>4, <2>3
    <3>3. QED
      BY <1>10, <1>16, <1>19, <2>3, <3>1, <3>2
  <2>4. QED
    BY <2>2, <2>3
<1>28. EndsAreJustified'
  <2>1. \A v \in Worker : job'[v].pc = "ended" => job[v].pc = "ended"
    BY <1>16, <1>17
  <2>2. \A v \in Worker : job'[v].pc = "stopping" => job[v].pc = "stopping" \/ j.failed
    BY <1>13, <1>14, <1>16
  <2>3. QED
    BY <1>3, <1>19, <1>20, <2>1, <2>2 DEF BatchInv, EndsAreJustified
<1>29. QED
  BY <1>21, <1>22, <1>23, <1>24, <1>25, <1>26, <1>27, <1>28 DEF BatchInv

\* After a failure no more requests are handed out.
LEMMA StepStop ==
    ASSUME BatchInv, NEW w \in Worker, Stop(w)
    PROVE  BatchInv'
<1> DEFINE K == Len(Requests)
<1>1. job \in [Worker -> Job] /\ next \in Nat \ {0} /\ K \in Nat
  BY RequestsAre DEF BatchInv, BatchTypes
<1>2. job[w].pc = "stopping" /\ next' = K + 1 /\ UNCHANGED <<results, outcome>>
  BY DEF Stop
<1>3. PICK n : n = [NewJob EXCEPT !.pc = "ended"]
  OBVIOUS
<1>4. n \in Job /\ n.pc = "ended" /\ Becomes(w, n)
  BY <1>3, NewJobType DEF Stop
<1>5. /\ job' \in [Worker -> Job]
      /\ job'[w] = n
      /\ \A v \in Worker : v # w => job'[v] = job[v]
  BY <1>1, <1>4, OneJob
<1>6. \A v \in Worker : /\ Working(job'[v]) <=> Working(job[v])
                        /\ Working(job[v]) => job'[v] = job[v]
                        /\ job'[v].pc = "stopping" => job[v].pc = "stopping"
  BY <1>2, <1>4, <1>5 DEF Working
<1>7. outcome = None
  BY <1>2 DEF BatchInv, OutcomeIsSound
<1>8. Failed /\ Failed'
  BY <1>2 DEF BatchInv, EndsAreJustified, Failed
<1>9. EnoughWorkers' /\ OutcomeIsSound'
  BY <1>2, <1>7 DEF BatchInv, EnoughWorkers, OutcomeIsSound
<1>10. BatchTypes'
  BY <1>1, <1>2, <1>5 DEF BatchInv, BatchTypes
<1>11. NextIsBounded'
  <2>1. IsFiniteSet(Ended')
    <3>1. Ended' \in SUBSET Worker
      BY DEF Ended
    <3>2. QED
      BY <3>1, GateAssumption, FS_Subset
  <2>2. Cardinality(Ended') \in Nat
    BY <2>1, FS_CardinalityType
  <2>3. QED
    BY <1>1, <1>2, <2>2 DEF NextIsBounded
<1>12. TakenOnce'
  <2>1. ASSUME NEW v \in Worker, Working(job'[v])
        PROVE  /\ job'[v].index \in 1 .. K
               /\ job'[v].index < next'
               /\ results'[job'[v].index] = None
               /\ \A u \in Worker : Working(job'[u]) /\ job'[u].index = job'[v].index
                     => u = v
    <3>1. \A u \in Worker : Working(job'[u]) => job'[u] = job[u] /\ Working(job[u])
      BY <1>6
    <3>2. /\ job[v].index \in 1 .. K
          /\ results[job[v].index] = None
          /\ \A u \in Worker : Working(job[u]) /\ job[u].index = job[v].index => u = v
      BY <2>1, <3>1 DEF BatchInv, TakenOnce
    <3>3. job[v].index < next'
      BY <1>1, <1>2, <3>2
    <3>4. QED
      BY <1>2, <2>1, <3>1, <3>2, <3>3
  <2>2. QED
    BY <2>1 DEF TakenOnce
<1>13. AllWorkIsSound'
  <2>1. WorkIsSound(n)
    BY <1>4 DEF WorkIsSound
  <2>2. QED
    BY <1>5, <2>1 DEF BatchInv, AllWorkIsSound
<1>14. ResultsAreSound'
  <2>1. \A k \in 1 .. K : ~(next' <= k)
    BY <1>1, <1>2
  <2>2. QED
    BY <1>2, <2>1 DEF BatchInv, ResultsAreSound
<1>15. NothingIsForgotten'
  BY <1>8 DEF NothingIsForgotten
<1>16. EndsAreJustified'
  <2>1. next' > K
    BY <1>1, <1>2
  <2>2. QED
    BY <1>8, <2>1 DEF EndsAreJustified
<1>17. QED
  BY <1>9, <1>10, <1>11, <1>12, <1>13, <1>14, <1>15, <1>16 DEF BatchInv

\* When every worker has ended, every request has its vectors or one failed.
LEMMA StepReturn ==
    ASSUME BatchInv, Return
    PROVE  BatchInv'
<1> DEFINE K == Len(Requests)
           N == Len(Length)
           parts == [k \in DOMAIN results |-> IF results[k] = None THEN <<>> ELSE results[k]]
           out == FlattenSeq(parts)
<1>1. /\ job \in [Worker -> Job] /\ next \in Nat \ {0} /\ K \in Nat /\ N \in Nat
      /\ results \in [1 .. K -> Seq(Inputs) \cup {Error, None}]
  BY RequestsAre, InputsAre DEF BatchInv, BatchTypes
<1>2. DOMAIN results = 1 .. K
  BY <1>1
<1>3. /\ \A w \in Worker : job[w].pc = "ended"
      /\ UNCHANGED <<next, results, job>>
  BY DEF Return
<1>4. outcome' = IF \E k \in DOMAIN results : results[k] = Error THEN Error
                 ELSE IF Len(out) = N THEN out ELSE Incomplete
  BY DEF Return
<1>5. Failed => outcome' = Error
  BY <1>2, <1>4 DEF Failed
<1>6. ASSUME ~Failed PROVE outcome' = Numbers(1, N)
  <2>1. ASSUME NEW k \in 1 .. K PROVE results[k] = VectorsOf(Requests[k])
    <3>1. Worker # {}
      <4>1. Threads # 0
        BY <1>1, <2>1, GateAssumption DEF Threads
      <4>2. QED
        BY <4>1, FS_EmptySet DEF BatchInv, EnoughWorkers
    <3>2. next > K
      BY <1>3, <3>1 DEF BatchInv, EndsAreJustified
    <3>3. \A w \in Worker : ~Working(job[w])
      BY <1>3 DEF Working
    <3>4. ~(next <= k)
      BY <1>1, <3>2
    <3>5. results[k] # None
      BY <1>6, <3>3, <3>4 DEF BatchInv, NothingIsForgotten
    <3>6. results[k] # Error
      BY <1>6 DEF Failed
    <3>7. QED
      BY <3>5, <3>6 DEF BatchInv, ResultsAreSound
  <2>2. ASSUME NEW k \in 1 .. K PROVE results[k] # None
    <3>1. VectorsOf(Requests[k]) \in Seq(Inputs)
      <4>1. First(Requests[k]) \in Inputs /\ Requests[k][2] \in Inputs
        BY RequestsAre, InputsAre
      <4>2. QED
        BY <4>1, VectorsType DEF VectorsOf
    <3>2. QED
      BY <2>1, <3>1, NoVectorsFail
  <2>3. parts = [k \in 1 .. K |-> VectorsOf(Requests[k])]
    BY <1>2, <2>1, <2>2
  <2>4. out = Numbers(1, N)
    <3> HIDE DEF parts, K
    <3>1. parts = [k \in 1 .. Len(Requests) |-> VectorsOf(Requests[k])]
      BY <2>3 DEF K
    <3>2. QED
      BY <1>1, <3>1, RequestsCover, FlattenCovers
  <2>5. Len(Numbers(1, N)) = N
    <3>1. N - 1 + 1 = N
      BY <1>1
    <3>2. Numbers(1, N) = [k \in 1 .. N |-> 1 + k - 1]
      BY <3>1 DEF Numbers
    <3> HIDE DEF N
    <3>3. QED
      BY <1>1, <3>2
  <2>6. ~\E k \in DOMAIN results : results[k] = Error
    BY <1>2, <1>6 DEF Failed
  <2>7. QED
    BY <1>4, <2>4, <2>5, <2>6
<1>7. outcome' \in {None, Error, Numbers(1, N)}
  <2>1. CASE Failed
    BY <1>5, <2>1
  <2>2. CASE ~Failed
    <3>1. outcome' = Numbers(1, N)
      BY <1>6, <2>2
    <3>2. QED
      BY <3>1
  <2>3. QED
    BY <2>1, <2>2
<1>8. OutcomeIsSound'
  BY <1>3, <1>7 DEF OutcomeIsSound
<1>9. EnoughWorkers' /\ BatchTypes' /\ TakenOnce' /\ AllWorkIsSound'
  BY <1>3 DEF BatchInv, EnoughWorkers, BatchTypes, TakenOnce, AllWorkIsSound
<1>10. NextIsBounded'
  BY <1>3 DEF BatchInv, NextIsBounded, Ended
<1>11. Failed' <=> Failed
  BY <1>3 DEF Failed
<1>12. ResultsAreSound' /\ NothingIsForgotten' /\ EndsAreJustified'
  BY <1>3, <1>11 DEF BatchInv, ResultsAreSound, NothingIsForgotten, EndsAreJustified
<1>13. QED
  BY <1>8, <1>9, <1>10, <1>12 DEF BatchInv

-----------------------------------------------------------------------------
(* What every batch does.                                                  *)

\* A worker asks for a permit, waits for it and holds it only while it calls.
PlaceFitsJob ==
    \A w \in Worker : place[w] \notin {"outside", "notifying"} => job[w].pc = "calling"

LEMMA PlaceStep ==
    ASSUME GateTypeOK, PlaceFitsJob, BatchInv, BatchInv', [RemoteNext]_batchVars
    PROVE  PlaceFitsJob'
<1>1. place \in [Worker -> Place] /\ job \in [Worker -> Job]
  BY DEF GateTypeOK, BatchInv, BatchTypes
<1>2. ASSUME NEW w \in Worker, Take(w) \/ Store(w) \/ Stop(w)
      PROVE  PlaceFitsJob'
  <2>1. place' = place
    BY <1>2 DEF Take, Store, Stop, gateVars
  <2>2. job[w].pc # "calling"
    BY <1>2 DEF Take, Store, Stop
  <2>3. \A v \in Worker : v # w => job'[v] = job[v]
    BY <1>1, <1>2 DEF Take, Store, Stop, Becomes
  <2>4. place[w] \in {"outside", "notifying"}
    BY <2>2 DEF PlaceFitsJob
  <2>5. QED
    BY <2>1, <2>3, <2>4 DEF PlaceFitsJob
<1>3. ASSUME NEW w \in Worker, Answered(w)
      PROVE  PlaceFitsJob'
  <2>1. Released(w)
    BY <1>3 DEF Answered, Vectors, TooManyRequests, TooLarge, Retry, Fatal,
                Drop, Succeed, RateLimited
  <2>2. place'[w] = "notifying" /\ \A v \in Worker : v # w => place'[v] = place[v]
    BY <1>1, <2>1 DEF Released
  <2>3. \E n : Becomes(w, n)
    BY <1>3 DEF Answered, Vectors, TooManyRequests, TooLarge, Retry, Fatal
  <2>4. \A v \in Worker : v # w => job'[v] = job[v]
    BY <1>1, <2>3 DEF Becomes
  <2>5. QED
    BY <2>2, <2>4 DEF PlaceFitsJob
<1>4. ASSUME NEW w \in Worker, Passes(w)
      PROVE  PlaceFitsJob'
  <2>1. job' = job
    BY <1>4 DEF Passes, remoteVars
  <2>2. CASE Notify(w)
    <3>1. \A v \in Worker : \/ place'[v] = "outside"
                            \/ place'[v] = place[v]
                            \/ place[v] \in Waiting
      BY <1>1, <2>2 DEF Notify, Notified
    <3>2. QED
      BY <2>1, <3>1 DEF PlaceFitsJob, Waiting
  <2>3. CASE job[w].pc = "calling" /\ (Ask(w) \/ TryAcquire(w) \/ WakeUp(w))
    <3>1. \A v \in Worker : v # w => place'[v] = place[v]
      BY <1>1, <2>3 DEF Ask, TryAcquire, WakeUp
    <3>2. QED
      BY <2>1, <2>3, <3>1 DEF PlaceFitsJob
  <2>4. QED
    BY <1>4, <2>2, <2>3 DEF Passes
<1>5. CASE Return
  BY <1>5 DEF Return, gateVars, PlaceFitsJob
<1>6. CASE TimePasses
  <2>1. place' = place
    BY <1>6 DEF TimePasses, Tick
  <2>2. \A w \in Worker : job'[w].pc = job[w].pc
    BY <1>1, <1>6, TimeOfJob
  <2>3. QED
    BY <2>1, <2>2 DEF PlaceFitsJob
<1>7. CASE UNCHANGED batchVars
  BY <1>7 DEF batchVars, gateVars, remoteVars, PlaceFitsJob
<1>8. QED
  BY <1>2, <1>3, <1>4, <1>5, <1>6, <1>7 DEF RemoteNext, Step

LEMMA BatchStep ==
    ASSUME GateTypeOK, PlaceFitsJob, BatchInv, [RemoteNext]_batchVars
    PROVE  BatchInv'
<1>1. job \in [Worker -> Job]
  BY DEF BatchInv, BatchTypes
<1>2. ASSUME NEW w \in Worker, Answered(w) PROVE BatchInv'
  <2>1. place[w] = "sending"
    BY <1>2 DEF Answered
  <2>2. job[w].pc = "calling"
    BY <2>1 DEF PlaceFitsJob
  <2>3. QED
    BY <1>2, <2>2, StepAnswered
<1>3. ASSUME UNCHANGED remoteVars PROVE BatchInv'
  <2>1. UNCHANGED <<next, results, outcome>> /\ job' = job
    BY <1>3 DEF remoteVars
  <2>2. QED
    BY <1>1, <2>1, SameWork
<1>4. ASSUME NEW w \in Worker, Passes(w) PROVE BatchInv'
  BY <1>3, <1>4 DEF Passes
<1>5. CASE UNCHANGED batchVars
  BY <1>3, <1>5 DEF batchVars
<1>6. QED
  BY <1>2, <1>4, <1>5, StepTake, StepStore, StepStop, StepReturn, StepTime
     DEF RemoteNext, Step

LEMMA BatchInvariant == RemoteSafety => [](BatchInv /\ PlaceFitsJob /\ GateTypeOK)
<1>1. RemoteInit => PlaceFitsJob
  BY DEF RemoteInit, GateInit, PlaceFitsJob
<1>2. BatchInv /\ PlaceFitsJob /\ GateTypeOK /\ [RemoteNext]_batchVars
        => BatchInv' /\ PlaceFitsJob'
  BY BatchStep, PlaceStep
<1>3. RemoteSafety => []GateTypeOK
  BY BatchImplementsGate, GateTypeCorrect, PTL
<1>4. QED
  BY <1>1, <1>2, <1>3, BatchInitial, PTL DEF RemoteSafety

\* Every variable of a batch has its type in every reachable state; in
\* particular the shared counter, which goes on counting after the last request
\* and after a failure, is never further than the number of threads beyond it.
THEOREM RemoteTypeCorrect == RemoteSafety => []RemoteTypeOK
<1>1. BatchInv /\ PlaceFitsJob => RemoteTypeOK
  <2>1. SUFFICES ASSUME BatchInv, PlaceFitsJob PROVE RemoteTypeOK
    OBVIOUS
  <2>2. Len(Requests) \in Nat /\ DOMAIN Requests = 1 .. Len(Requests)
    BY RequestsAre
  <2>3. Cardinality(Ended) <= Cardinality(Worker)
    <3>1. Ended \subseteq Worker
      BY DEF Ended
    <3>2. QED
      BY <3>1, GateAssumption, FS_Subset
  <2>4. Cardinality(Ended) \in Nat /\ Cardinality(Worker) \in Nat
    BY EndedFinite, GateAssumption, FS_CardinalityType
  <2>5. next \in 1 .. Len(Requests) + 1 + Cardinality(Worker)
    BY <2>1, <2>2, <2>3, <2>4 DEF BatchInv, BatchTypes, NextIsBounded
  <2>6. results \in [DOMAIN Requests -> Seq(Inputs) \cup {Error, None}]
    BY <2>1, <2>2 DEF BatchInv, BatchTypes
  <2>7. job \in [Worker -> Job]
    BY <2>1 DEF BatchInv, BatchTypes
  <2>8. QED
    BY <2>1, <2>5, <2>6, <2>7 DEF RemoteTypeOK, PlaceFitsJob
<1>2. QED
  BY <1>1, BatchInvariant, PTL

\* A batch is complete and in order, or an error: no vector is missing, doubled
\* or given to another input, whatever the server answers and whichever thread
\* takes, halves, retries and stores a request, and the code's own check for an
\* incomplete batch never fires.
THEOREM BatchCompleteOrError == RemoteSafety => []CompleteOrError
<1>1. BatchInv => CompleteOrError
  <2>1. Numbers(1, Len(Length)) = [i \in Inputs |-> i]
    <3>1. /\ Inputs = 1 .. Len(Length) - 1 + 1
          /\ \A i \in Inputs : 1 + i - 1 = i
      BY InputsAre
    <3>2. QED
      BY <3>1 DEF Numbers
  <2>2. QED
    BY <2>1 DEF BatchInv, OutcomeIsSound, CompleteOrError
<1>2. QED
  BY <1>1, BatchInvariant, PTL

\* When a batch returns no thread holds a permit, so none is kept from the
\* batches that share the gate after it.
THEOREM PermitsReturned == RemoteSafety => [](outcome # None => inFlight = 0)
<1>1. BatchInv /\ PlaceFitsJob /\ PermitsBalance => (outcome # None => inFlight = 0)
  <2>1. SUFFICES ASSUME BatchInv, PlaceFitsJob, PermitsBalance, outcome # None
                 PROVE  inFlight = 0
    OBVIOUS
  <2>2. \A w \in Worker : job[w].pc = "ended"
    BY <2>1 DEF BatchInv, OutcomeIsSound
  <2>3. Sending = {}
    BY <2>1, <2>2 DEF Sending, PlaceFitsJob
  <2>4. QED
    BY <2>1, <2>3, FS_EmptySet DEF PermitsBalance
<1>2. RemoteSafety => []PermitsBalance
  BY BatchImplementsGate, PermitsAlwaysBalance, PTL
<1>3. QED
  BY <1>1, <1>2, BatchInvariant, PTL
=============================================================================
