---------------------------- MODULE LimitProofs ----------------------------
(***************************************************************************)
(* Proofs about the limiter of RateLimit in front of the handlers of       *)
(* Accounts, for every limit, window and cap, any number of client keys,   *)
(* and hits that are counted in another order than they were read.         *)
(***************************************************************************)
EXTENDS PlatformProofs

(* The admitted hits of a key that its current window did not admit. *)
Counts(k) == IF bucket[k].count <= MaxHits THEN bucket[k].count ELSE MaxHits
Closed(k) == Len(admitted[k]) - Counts(k)

(* What makes the bound inductive.  The hits before the current window were *)
(* counted no later than its opener, and so within the lag of its start;    *)
(* those before the window before that are a whole window old, up to the    *)
(* lag; and a key without a bucket has only closed windows.                 *)
KeyInv(k) ==
  /\ Closed(k) \in Nat
  /\ \A i \in 1..Len(admitted[k]) : admitted[k][i] <= now
  /\ bucket[k].count > 0 =>
       \A i \in 1..Closed(k) : admitted[k][i] <= bucket[k].start + lag
  /\ \A i \in 1..(Closed(k) - MaxHits) : admitted[k][i] + Window < now + lag
  /\ \A i \in 1..(Len(admitted[k]) - 2 * MaxHits) :
       admitted[k][i + 2 * MaxHits] - admitted[k][i] > Window - lag

LimitInv == \A k \in Keys : KeyInv(k)

(* The constants are naturals and the history of a key is a sequence. *)
LEMMA LimitTypes ==
  ASSUME ClockType, NEW k \in Keys
  PROVE  /\ MaxHits \in Nat /\ Window \in Nat /\ Cap \in Nat
         /\ now \in Nat /\ lag \in Nat
         /\ bucket[k] \in [start : Nat, count : Nat]
         /\ bucket[k].start \in Nat /\ bucket[k].count \in Nat
         /\ admitted[k] \in Seq(Nat) /\ Len(admitted[k]) \in Nat
         /\ \A i \in 1..Len(admitted[k]) : admitted[k][i] \in Nat
BY LimitAssumption DEF ClockType

(* No hit was counted to begin with. *)
LEMMA LimitStart == PlatformInit => LimitInv
<1> SUFFICES ASSUME PlatformInit, NEW k \in Keys PROVE KeyInv(k)
  BY DEF LimitInv
<1>1. bucket[k].count = 0 /\ Len(admitted[k]) = 0 /\ MaxHits \in Nat
  BY LimitAssumption DEF PlatformInit, AccountsInit, LimitInit, NoBucket
<1> QED
  BY <1>1 DEF KeyInv, Closed, Counts

(* A bucket that a reading finds expired started more than a window before. *)
LEMMA ExpiredMeans ==
  ASSUME NEW b \in [start : Nat, count : Nat], NEW t \in Nat, Window \in Nat
  PROVE  Expired(t, b) <=> t > b.start + Window
BY DEF Expired, duration_since

(* Time passes: what was a window old stays it. *)
LEMMA LimitTick ==
  ASSUME ClockType, LimitInv, now' \in Nat, now' >= now, UNCHANGED limitVars
  PROVE  LimitInv'
<1> SUFFICES ASSUME NEW k \in Keys PROVE KeyInv(k)'
  BY DEF LimitInv
<1>1. KeyInv(k)
  BY DEF LimitInv
<1>2. Len(admitted[k]) \in Nat /\ \A i \in 1..Len(admitted[k]) : admitted[k][i] \in Nat
  BY LimitTypes
<1>3. Closed(k)' = Closed(k) /\ Closed(k) \in Nat /\ Closed(k) <= Len(admitted[k])
  BY <1>1, LimitTypes DEF KeyInv, Closed, Counts, limitVars
<1>4. \A i \in 1..Len(admitted[k]) : admitted[k][i] <= now'
  BY <1>1, <1>2, LimitTypes, SMTT(30) DEF KeyInv
<1>5. \A i \in 1..(Closed(k) - MaxHits) : admitted[k][i] + Window < now' + lag
  <2> SUFFICES ASSUME NEW i \in 1..(Closed(k) - MaxHits)
               PROVE  admitted[k][i] + Window < now' + lag
    OBVIOUS
  <2>1. admitted[k][i] + Window < now + lag
    BY <1>1 DEF KeyInv
  <2>2. i \in 1..Len(admitted[k])
    BY <1>2, <1>3, LimitTypes
  <2>3. admitted[k][i] \in Nat /\ Window \in Nat /\ now \in Nat /\ lag \in Nat
    BY <1>2, <2>2, LimitTypes
  <2> QED
    BY <2>1, <2>3
<1> QED
  BY <1>1, <1>3, <1>4, <1>5 DEF KeyInv, limitVars

(* What the sweep and the hit leave in the bucket of each key. *)
LEMMA BucketAfter ==
  ASSUME ClockType, NEW k \in Keys, NEW t \in Nat, allow(k, t), NEW x \in Keys
  PROVE  \/ x # k /\ bucket'[x] = bucket[x]
         \/ x # k /\ bucket'[x].count = 0 /\ t > bucket[x].start + Window
         \/ x = k /\ bucket'[x] = [start |-> t, count |-> 1]
              /\ (bucket[x].count = 0 \/ t > bucket[x].start + Window)
         \/ x = k /\ bucket[x].count > 0
              /\ bucket'[x] = [start |-> bucket[x].start, count |-> bucket[x].count + 1]
<1>1. bucket[x] \in [start : Nat, count : Nat] /\ Window \in Nat
  BY LimitTypes
<1>2. Swept(t)[x] = bucket[x] \/ (Swept(t)[x] = NoBucket /\ t > bucket[x].start + Window)
  BY <1>1, ExpiredMeans DEF Swept
<1>3. bucket' = [Swept(t) EXCEPT ![k] = Counted(k, t)]
  BY DEF allow
<1>4. DOMAIN Swept(t) = Keys
  BY DEF Swept
<1>5. CASE x # k
  <2>1. bucket'[x] = Swept(t)[x]
    BY <1>3, <1>4, <1>5
  <2> QED
    BY <1>2, <1>5, <2>1 DEF NoBucket
<1>6. CASE x = k
  <2>1. bucket'[x] = Counted(x, t)
    BY <1>3, <1>4, <1>6
  <2>2. CASE Swept(t)[x] = NoBucket /\ t > bucket[x].start + Window
    BY <1>6, <2>1, <2>2 DEF Counted, NoBucket
  <2>3. CASE Swept(t)[x] = bucket[x]
    <3>1. CASE bucket[x].count = 0 \/ Expired(t, bucket[x])
      BY <1>1, <1>6, <2>1, <2>3, <3>1, ExpiredMeans DEF Counted
    <3>2. CASE ~(bucket[x].count = 0 \/ Expired(t, bucket[x]))
      <4>1. bucket'[x] = [bucket[x] EXCEPT !.count = @ + 1]
        BY <2>1, <2>3, <3>2 DEF Counted
      <4> QED
        BY <1>1, <1>6, <3>2, <4>1
    <3> QED
      BY <3>1, <3>2
  <2> QED
    BY <1>2, <2>2, <2>3
<1> QED
  BY <1>5, <1>6

(* The bookkeeping of the history: one more hit, now, or none. *)
LEMMA AdmittedAfter ==
  ASSUME ClockType, NEW k \in Keys, NEW t \in Nat, allow(k, t), NEW x \in Keys
  PROVE  LET n == Len(admitted[x]) IN
         IF x = k /\ bucket'[x].count <= MaxHits
         THEN /\ Len(admitted'[x]) = n + 1 /\ admitted'[x][n + 1] = now
              /\ \A i \in 1..n : admitted'[x][i] = admitted[x][i]
         ELSE admitted'[x] = admitted[x]
<1>1. admitted[x] \in Seq(Nat) /\ now \in Nat
  BY LimitTypes
<1>2. Admits(k, t) <=> bucket'[k].count <= MaxHits
  <2>1. bucket'[k] = Counted(k, t)
    BY DEF allow, Swept
  <2> QED
    BY <2>1 DEF Admits
<1>3. admitted'[x] = IF x = k /\ Admits(k, t) THEN Append(admitted[x], now) ELSE admitted[x]
  BY DEF allow, ClockType
<1> QED
  BY <1>1, <1>2, <1>3

(* The lag covers this hit and the earlier ones. *)
LEMMA LagAfter ==
  ASSUME ClockType, NEW k \in Keys, NEW t \in Nat, t <= now, allow(k, t)
  PROVE  lag' \in Nat /\ lag' >= lag /\ now <= t + lag'
BY DEF allow, ClockType

(* What was counted by now was counted within the lag of the reading. *)
LEMMA WithinLag ==
  ASSUME NEW a \in Nat, NEW n \in Nat, NEW t \in Nat, NEW l \in Nat, a <= n, n <= t + l
  PROVE  a <= t + l
OBVIOUS

(* A hit keeps the invariant of every key. *)
LEMMA LimitAllow ==
  ASSUME ClockType, LimitInv, NEW k \in Keys, NEW t \in Nat, t <= now, allow(k, t), now' = now
  PROVE  LimitInv'
<1> SUFFICES ASSUME NEW x \in Keys PROVE KeyInv(x)'
  BY DEF LimitInv
<1> DEFINE n == Len(admitted[x])
           A == admitted[x]
           c == bucket[x].count
           st == bucket[x].start
           M == MaxHits
           lo == Closed(x)
<1>1. /\ M \in Nat /\ Window \in Nat /\ now \in Nat /\ lag \in Nat
      /\ c \in Nat /\ st \in Nat /\ n \in Nat /\ \A i \in 1..n : A[i] \in Nat
  BY LimitTypes
<1>2. lag' \in Nat /\ lag' >= lag /\ now <= t + lag'
  BY LagAfter
<1>3. /\ lo \in Nat /\ lo = n - (IF c <= M THEN c ELSE M)
      /\ \A i \in 1..n : A[i] <= now
      /\ c > 0 => \A i \in 1..lo : A[i] <= st + lag
      /\ \A i \in 1..(lo - M) : A[i] + Window < now + lag
      /\ \A i \in 1..(n - 2 * M) : A[i + 2 * M] - A[i] > Window - lag
  BY DEF LimitInv, KeyInv, Closed, Counts
<1>4. \/ x # k /\ bucket'[x] = bucket[x]
      \/ x # k /\ bucket'[x].count = 0 /\ t > st + Window
      \/ x = k /\ bucket'[x] = [start |-> t, count |-> 1] /\ (c = 0 \/ t > st + Window)
      \/ x = k /\ c > 0 /\ bucket'[x] = [start |-> st, count |-> c + 1]
  BY BucketAfter
<1>5. IF x = k /\ bucket'[x].count <= M
      THEN /\ Len(admitted'[x]) = n + 1 /\ admitted'[x][n + 1] = now
           /\ \A i \in 1..n : admitted'[x][i] = A[i]
      ELSE admitted'[x] = A
  BY AdmittedAfter
<1>6. Closed(x)' = Len(admitted'[x]) - (IF bucket'[x].count <= M THEN bucket'[x].count ELSE M)
  BY DEF Closed, Counts
<1> DEFINE B == admitted'[x]
<1>7. SUFFICES
        /\ Closed(x)' \in Nat
        /\ \A i \in 1..Len(B) : B[i] <= now
        /\ bucket'[x].count > 0 => \A i \in 1..Closed(x)' : B[i] <= bucket'[x].start + lag'
        /\ \A i \in 1..(Closed(x)' - M) : B[i] + Window < now + lag'
        /\ \A i \in 1..(Len(B) - 2 * M) : B[i + 2 * M] - B[i] > Window - lag'
  BY DEF KeyInv
<1>8. n >= lo /\ n - lo <= M
  BY <1>1, <1>3
<1> HIDE DEF n, A, c, st, M, lo, B
(* A closed window is more than a window old, up to the lag. *)
<1>9. ASSUME c > 0, t > st + Window, NEW i \in 1..(n - M) PROVE A[i] + Window < now + lag
  <2>1. i \in 1..lo /\ i \in 1..n
    BY <1>1, <1>3, <1>8
  <2>2. A[i] <= st + lag /\ A[i] \in Nat
    BY <1>1, <1>3, <1>9, <2>1
  <2> QED
    BY <1>1, <1>9, <2>2
(* The bound on what the history held already only gets weaker. *)
<1>10. ASSUME NEW i \in 1..(n - 2 * M) PROVE A[i + 2 * M] - A[i] > Window - lag'
  <2>1. i \in 1..n /\ i + 2 * M \in 1..n
    BY <1>1
  <2>2. A[i + 2 * M] \in Nat /\ A[i] \in Nat /\ A[i + 2 * M] - A[i] > Window - lag
    BY <1>1, <1>3, <2>1
  <2> QED
    BY <1>1, <1>2, <2>2
<1>11. CASE x # k /\ bucket'[x] = bucket[x]
  <2>1. B = A /\ Len(B) = n /\ Closed(x)' = lo /\ bucket'[x].count = c /\ bucket'[x].start = st
    BY <1>3, <1>5, <1>6, <1>11 DEF B, A, c, st, n
  <2>2. \A i \in 1..(lo - M) : A[i] + Window < now + lag'
    <3> SUFFICES ASSUME NEW i \in 1..(lo - M) PROVE A[i] + Window < now + lag'
      OBVIOUS
    <3>1. A[i] \in Nat /\ A[i] + Window < now + lag
      BY <1>1, <1>3, <1>8
    <3> QED
      BY <1>1, <1>2, <3>1
  <2>3. c > 0 => \A i \in 1..lo : A[i] <= st + lag'
    <3> SUFFICES ASSUME c > 0, NEW i \in 1..lo PROVE A[i] <= st + lag'
      OBVIOUS
    <3>1. A[i] \in Nat /\ A[i] <= st + lag
      BY <1>1, <1>3, <1>8
    <3> QED
      BY <1>1, <1>2, <3>1
  <2> QED
    BY <1>3, <1>10, <2>1, <2>2, <2>3
<1>12. CASE x # k /\ bucket'[x].count = 0 /\ t > st + Window
  <2>1. B = A /\ Len(B) = n /\ Closed(x)' = n /\ bucket'[x].count = 0
    BY <1>1, <1>5, <1>6, <1>12 DEF B, A, n
  <2>2. \A i \in 1..(n - M) : A[i] + Window < now + lag'
    <3> SUFFICES ASSUME NEW i \in 1..(n - M) PROVE A[i] + Window < now + lag'
      OBVIOUS
    <3>1. A[i] \in Nat /\ A[i] + Window < now + lag
      <4>1. CASE c > 0
        BY <1>1, <1>9, <1>12, <4>1
      <4>2. CASE c = 0
        BY <1>1, <1>3, <4>2
      <4> QED
        BY <1>1, <4>1, <4>2
    <3> QED
      BY <1>1, <1>2, <3>1
  <2> QED
    BY <1>1, <1>3, <1>10, <2>1, <2>2
(* A window opens: every earlier hit was counted by now. *)
<1>13. CASE x = k /\ bucket'[x] = [start |-> t, count |-> 1] /\ (c = 0 \/ t > st + Window)
  <2>1. /\ bucket'[x].count = 1 /\ bucket'[x].start = t
        /\ Closed(x)' = n
        /\ \A i \in 1..n : B[i] = A[i]
        /\ Len(B) = n \/ (Len(B) = n + 1 /\ B[n + 1] = now)
        /\ Len(B) = n + 1 => M >= 1
    <3>1. bucket'[x].count = 1 /\ bucket'[x].start = t
      BY <1>13
    <3>2. CASE M >= 1
      BY <1>1, <1>5, <1>6, <1>13, <3>1, <3>2 DEF B, n, A
    <3>3. CASE M = 0
      BY <1>1, <1>5, <1>6, <1>13, <3>1, <3>3 DEF B, n, A
    <3> QED
      BY <1>1, <3>1, <3>2, <3>3
  <2>2. ASSUME NEW i \in 1..(n - M) PROVE A[i] \in Nat /\ A[i] + Window < now + lag'
    <3>1. A[i] \in Nat /\ A[i] + Window < now + lag
      <4>1. CASE c > 0
        BY <1>1, <1>9, <1>13, <4>1
      <4>2. CASE c = 0
        BY <1>1, <1>3, <4>2
      <4> QED
        BY <1>1, <4>1, <4>2
    <3> QED
      BY <1>1, <1>2, <3>1
  <2>3. ASSUME NEW i \in 1..n PROVE A[i] \in Nat /\ A[i] <= now /\ A[i] <= t + lag'
    <3>1. A[i] \in Nat /\ A[i] <= now
      BY <1>1, <1>3
    <3> QED
      BY <1>1, <1>2, <3>1, WithinLag
  <2>4. ASSUME NEW i \in 1..(Len(B) - 2 * M) PROVE B[i + 2 * M] - B[i] > Window - lag'
    <3>1. CASE i + 2 * M <= n
      <4>1. i \in 1..(n - 2 * M) /\ i \in 1..n /\ i + 2 * M \in 1..n
        BY <1>1, <3>1
      <4>2. B[i] = A[i] /\ B[i + 2 * M] = A[i + 2 * M]
        BY <2>1, <4>1
      <4> QED
        BY <1>10, <4>1, <4>2
    <3>2. CASE i + 2 * M = n + 1
      <4>1. Len(B) = n + 1 /\ M >= 1 /\ B[i + 2 * M] = now
        BY <1>1, <2>1, <3>2
      <4>2. i \in 1..(n - M) /\ i \in 1..n
        BY <1>1, <3>2, <4>1
      <4>3. B[i] = A[i] /\ A[i] \in Nat /\ A[i] + Window < now + lag'
        BY <2>1, <2>2, <4>2
      <4> QED
        BY <1>1, <1>2, <4>1, <4>3
    <3> QED
      BY <1>1, <2>1, <3>1, <3>2
  <2>5. \A i \in 1..Len(B) : B[i] <= now
    BY <1>1, <2>1, <2>3
  <2>6. \A i \in 1..(n - M) : B[i] + Window < now + lag'
    BY <1>1, <2>1, <2>2
  <2> QED
    BY <1>1, <2>1, <2>3, <2>4, <2>5, <2>6
(* The window goes on: of its own hits it admits no more than the limit. *)
<1>14. CASE x = k /\ c > 0 /\ bucket'[x] = [start |-> st, count |-> c + 1]
  <2>1. /\ bucket'[x].count = c + 1 /\ bucket'[x].start = st
        /\ Closed(x)' = lo
        /\ \A i \in 1..n : B[i] = A[i]
        /\ Len(B) = n \/ (Len(B) = n + 1 /\ B[n + 1] = now)
        /\ Len(B) = n + 1 => n + 1 - lo <= M
    <3>1. bucket'[x].count = c + 1 /\ bucket'[x].start = st
      BY <1>14
    <3>2. CASE c + 1 <= M
      <4>1. Len(B) = n + 1 /\ B[n + 1] = now /\ \A i \in 1..n : B[i] = A[i]
        BY <1>5, <1>14, <3>1, <3>2 DEF B
      <4>2. Closed(x)' = Len(B) - (c + 1)
        BY <1>6, <3>1, <3>2 DEF B
      <4>3. lo = n - c
        BY <1>1, <1>3, <3>2
      <4> QED
        BY <1>1, <3>1, <3>2, <4>1, <4>2, <4>3
    <3>3. CASE ~(c + 1 <= M)
      <4>1. B = A /\ Len(B) = n
        BY <1>5, <1>14, <3>1, <3>3 DEF B, A, n
      <4>2. Closed(x)' = n - M
        BY <1>6, <3>1, <3>3, <4>1 DEF B
      <4>3. lo = n - M
        BY <1>1, <1>3, <3>3
      <4> QED
        BY <1>1, <3>1, <4>1, <4>2, <4>3
    <3> QED
      BY <3>1, <3>2, <3>3
  <2>2. ASSUME NEW i \in 1..(lo - M) PROVE A[i] \in Nat /\ A[i] + Window < now + lag'
    <3>1. A[i] \in Nat /\ A[i] + Window < now + lag
      BY <1>1, <1>3, <1>8
    <3> QED
      BY <1>1, <1>2, <3>1
  <2>3. ASSUME NEW i \in 1..lo PROVE A[i] <= st + lag'
    <3>1. A[i] \in Nat /\ A[i] <= st + lag
      BY <1>1, <1>3, <1>8, <1>14
    <3> QED
      BY <1>1, <1>2, <3>1
  <2>4. ASSUME NEW i \in 1..(Len(B) - 2 * M) PROVE B[i + 2 * M] - B[i] > Window - lag'
    <3>1. CASE i + 2 * M <= n
      <4>1. i \in 1..(n - 2 * M) /\ i \in 1..n /\ i + 2 * M \in 1..n
        BY <1>1, <3>1
      <4>2. B[i] = A[i] /\ B[i + 2 * M] = A[i + 2 * M]
        BY <2>1, <4>1
      <4> QED
        BY <1>10, <4>1, <4>2
    <3>2. CASE i + 2 * M = n + 1
      <4>1. Len(B) = n + 1 /\ B[i + 2 * M] = now
        BY <1>1, <2>1, <3>2
      <4>2. i \in 1..(lo - M) /\ i \in 1..n
        BY <1>1, <1>3, <1>8, <2>1, <3>2, <4>1
      <4>3. B[i] = A[i] /\ A[i] \in Nat /\ A[i] + Window < now + lag'
        BY <2>1, <2>2, <4>2
      <4> QED
        BY <1>1, <1>2, <4>1, <4>3
    <3> QED
      BY <1>1, <2>1, <3>1, <3>2
  <2>5. \A i \in 1..Len(B) : B[i] <= now
    BY <1>1, <1>3, <2>1
  <2>6. \A i \in 1..(Closed(x)' - M) : B[i] + Window < now + lag'
    <3> SUFFICES ASSUME NEW i \in 1..(lo - M) PROVE B[i] + Window < now + lag'
      BY <2>1
    <3>1. i \in 1..n
      BY <1>1, <1>3, <1>8
    <3> QED
      BY <2>1, <2>2, <3>1
  <2>7. \A i \in 1..Closed(x)' : B[i] <= bucket'[x].start + lag'
    <3> SUFFICES ASSUME NEW i \in 1..lo PROVE B[i] <= st + lag'
      BY <2>1
    <3>1. i \in 1..n
      BY <1>1, <1>3, <1>8
    <3> QED
      BY <2>1, <2>3, <3>1
  <2>8. Closed(x)' \in Nat
    BY <1>3, <2>1
  <2> QED
    BY <2>4, <2>5, <2>6, <2>7, <2>8
<1> QED
  BY <1>4, <1>11, <1>12, <1>13, <1>14

(* Only the clock and the limiter itself touch the limiter's state. *)
LEMMA LimitSteps ==
  ASSUME TypeInv, [PlatformNext]_platformVars
  PROVE  \/ now' \in Nat /\ now' >= now /\ UNCHANGED limitVars
         \/ now' = now /\ \E k \in Keys, t \in Nat : t <= now /\ allow(k, t)
<1>1. now \in Nat
  BY DEF TypeInv, ClockType
<1>2. CASE UNCHANGED platformVars
  BY <1>1, <1>2 DEF platformVars, vars, limitVars
<1>3. CASE Tick
  BY <1>1, <1>3 DEF Tick
<1>4. ASSUME NEW s \in Slots, Enforce(s)
      PROVE  now' = now /\ \E k \in Keys, t \in Nat : t <= now /\ allow(k, t)
  <2>1. req[s].t \in Nat /\ req[s].t <= now /\ req[s].browser \in Keys
    BY <1>4, AccountsAssumption DEF TypeInv, RequestType, Enforce, Request, Local
  <2> QED
    BY <1>4, <2>1 DEF Enforce
<1>5. CASE now' = now /\ UNCHANGED limitVars
  BY <1>1, <1>5
<1>6. CASE AccountsNext
  <2>1. ASSUME NEW b \in Browsers, Start(b) PROVE now' = now /\ UNCHANGED limitVars
    BY <2>1 DEF Start
  <2>2. ASSUME NEW s \in Slots, NEW b \in Browsers, Arrive(s, b) \/ \E n \in Nonces : Callback(s, b, n)
        PROVE  now' = now /\ UNCHANGED limitVars
    BY <2>2 DEF Arrive, Callback
  <2>3. ASSUME NEW s \in Slots, NEW a \in Actors, DevLogin(s, a) \/ InsertIdentity(s, a)
        PROVE  now' = now /\ UNCHANGED limitVars
    BY <2>3 DEF DevLogin, InsertIdentity, Inserted
  <2>4. ASSUME NEW s \in Slots,
               \/ \E op \in {"claim", "logout"} : Route(s, op)
               \/ QueryAdmins(s) \/ Promote(s) \/ Logout(s)
        PROVE  now' = now /\ UNCHANGED limitVars
    BY <2>4 DEF Route, QueryAdmins, Promote, Logout
  <2>5. ASSUME NEW s \in Slots, (\E i \in Idents : LookUp(s, i)) \/ MintSession(s) \/ Abort(s)
        PROVE  now' = now /\ UNCHANGED limitVars
    BY <2>5 DEF LookUp, MintSession, Abort
  <2> QED
    BY <1>3, <1>4, <1>5, <1>6, <2>1, <2>2, <2>3, <2>4, <2>5 DEF AccountsNext
<1>7. CASE WriteNext \/ \E s \in Slots, e \in Actors \cup Connectors : Get(s, e)
  <2>1. ASSUME NEW s \in Slots, NEW b, NEW op, Authenticate(s, b, op)
        PROVE  now' = now /\ UNCHANGED limitVars
    BY <2>1 DEF Authenticate
  <2>2. ASSUME NEW s \in Slots, NEW how, NEW e, NEW p, NEW expected,
               ReadRow(s, how, e, p, expected) \/ DeleteItem(s, e, expected)
        PROVE  now' = now /\ UNCHANGED limitVars
    BY <2>2 DEF ReadRow, DeleteItem
  <2>3. ASSUME NEW s \in Slots, NEW e, NEW status,
               UpdateRow(s) \/ ReadConnector(s, e) \/ StampRun(s, status) \/ Get(s, e)
        PROVE  now' = now /\ UNCHANGED limitVars
    BY <2>3 DEF UpdateRow, ReadConnector, StampRun, Get
  <2> QED
    BY <1>5, <1>7, <2>1, <2>2, <2>3 DEF WriteNext
<1> QED
  BY <1>2, <1>6, <1>7 DEF PlatformNext

(* The invariant of the limiter holds in every reachable state. *)
LEMMA LimitInvariant == Spec => []LimitInv
<1>1. TypeInv /\ LimitInv /\ [PlatformNext]_platformVars => LimitInv'
  <2> SUFFICES ASSUME TypeInv, LimitInv, [PlatformNext]_platformVars PROVE LimitInv'
    OBVIOUS
  <2>1. ClockType
    BY DEF TypeInv
  <2> QED
    BY <2>1, LimitSteps, LimitTick, LimitAllow
<1> QED
  BY <1>1, LimitStart, TypeInvariant, PTL DEF Spec

(* The fixed window lets a client through at most twice as often as the     *)
(* limit says, whatever hits of other keys sweep the map and however long   *)
(* requests wait for the mutex between reading the clock and being counted. *)
THEOREM TwiceTheLimitHolds == Spec => []TwiceTheLimit
<1>1. LimitInv => TwiceTheLimit
  BY DEF LimitInv, KeyInv, TwiceTheLimit
<1> QED
  BY <1>1, LimitInvariant, PTL

----------------------------------------------------------------------------
(* The hits keep the map within the cap, the entry of the latest one and    *)
(* what was not expired at it.                                              *)
LEMMA FreshAllow ==
  ASSUME ClockType, NEW k \in Keys, NEW t \in Nat, allow(k, t)
  PROVE  OnlyFreshBeyondCap'
<1> DEFINE H == {x \in Keys : bucket'[x].count > 0}
<1>1. Window \in Nat /\ Cap \in Nat /\ IsFiniteSet(Keys)
  BY LimitAssumption
<1>2. bucket' = [Swept(t) EXCEPT ![k] = Counted(k, t)] /\ lastHit' = t
  BY DEF allow
<1>3. Swept(t) \in [Keys -> [start : Nat, count : Nat]]
  BY SweptType
<1>4. CASE Cardinality(Held) <= Cap
  <2>1. Swept(t) = bucket
    <3>1. ~(Cardinality(Held) > Cap)
      <4>1. IsFiniteSet(Held)
        BY <1>1, FS_Subset DEF Held
      <4>2. Cardinality(Held) \in Nat
        BY <4>1, FS_CardinalityType
      <4> QED
        BY <1>1, <1>4, <4>2
    <3> QED
      BY <3>1 DEF Swept, ClockType
  <2>2. H \subseteq Held \cup {k}
    BY <1>2, <2>1 DEF Held, ClockType
  <2>3. IsFiniteSet(Held) /\ Cardinality(Held) \in Nat
    BY <1>1, FS_Subset, FS_CardinalityType DEF Held
  <2>4. IsFiniteSet(Held \cup {k}) /\ Cardinality(Held \cup {k}) <= Cardinality(Held) + 1
        /\ Cardinality(Held \cup {k}) \in Nat
    <3>1. IsFiniteSet(Held \cup {k}) /\ Cardinality(Held \cup {k}) =
            IF k \in Held THEN Cardinality(Held) ELSE Cardinality(Held) + 1
      BY <2>3, FS_AddElement
    <3> QED
      BY <2>3, <3>1
  <2>5. Cardinality(H) <= Cardinality(Held \cup {k}) /\ Cardinality(H) \in Nat
    BY <2>2, <2>4, FS_Subset, FS_CardinalityType
  <2>6. ~(Cardinality(H) > Cap + 1)
    BY <1>1, <1>4, <2>3, <2>4, <2>5
  <2> QED
    BY <2>6 DEF OnlyFreshBeyondCap, Held
<1>5. CASE Cardinality(Held) > Cap
  <2> SUFFICES ASSUME NEW x \in H PROVE ~Expired(t, bucket'[x])
    BY <1>2 DEF OnlyFreshBeyondCap, Held, Expired, duration_since
  <2>1. CASE x # k
    <3>1. bucket'[x] = Swept(t)[x] /\ bucket'[x].count > 0
      BY <1>2, <1>3, <2>1
    <3> QED
      BY <1>5, <3>1 DEF Swept, NoBucket
  <2>2. CASE x = k
    <3>1. bucket'[x] = Counted(k, t)
      BY <1>2, <1>3, <2>2
    <3>2. CASE Counted(k, t) = [start |-> t, count |-> 1]
      BY <1>1, <3>1, <3>2 DEF Expired, duration_since
    <3>3. CASE ~Expired(t, Swept(t)[k]) /\ Counted(k, t) = [Swept(t)[k] EXCEPT !.count = @ + 1]
      <4>1. bucket'[x].start = Swept(t)[k].start
        BY <1>3, <3>1, <3>3
      <4> QED
        BY <3>3, <4>1 DEF Expired
    <3> QED
      BY <3>2, <3>3 DEF Counted
  <2> QED
    BY <2>1, <2>2
<1>6. Cardinality(Held) \in Nat
  BY <1>1, FS_Subset, FS_CardinalityType DEF Held
<1> QED
  BY <1>1, <1>4, <1>5, <1>6

(* The size cap is effective: beyond it, and beyond the entry of the latest *)
(* hit, the limiter holds no bucket that was expired at that hit.           *)
THEOREM OnlyFreshBeyondCapHolds == Spec => []OnlyFreshBeyondCap
<1>1. PlatformInit => OnlyFreshBeyondCap
  BY DEF PlatformInit, AccountsInit, LimitInit, OnlyFreshBeyondCap, Held, NoBucket
<1>2. TypeInv /\ OnlyFreshBeyondCap /\ [PlatformNext]_platformVars => OnlyFreshBeyondCap'
  <2> SUFFICES ASSUME TypeInv, OnlyFreshBeyondCap, [PlatformNext]_platformVars
               PROVE  OnlyFreshBeyondCap'
    OBVIOUS
  <2>1. CASE UNCHANGED limitVars
    BY <2>1 DEF OnlyFreshBeyondCap, Held, limitVars, Expired
  <2>2. ASSUME NEW k \in Keys, NEW t \in Nat, allow(k, t) PROVE OnlyFreshBeyondCap'
    BY <2>2, FreshAllow DEF TypeInv
  <2> QED
    BY <2>1, <2>2, LimitSteps
<1> QED
  BY <1>1, <1>2, TypeInvariant, PTL DEF Spec
=============================================================================
