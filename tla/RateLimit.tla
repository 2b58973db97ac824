----------------------------- MODULE RateLimit -----------------------------
(***************************************************************************)
(* The fixed-window limiter of crates/api/src/ratelimit.rs: one bucket per *)
(* client key, behind a mutex.  A request reads the clock before it takes  *)
(* the mutex, so hits may be counted in another order than they were read. *)
(* The modules that extend this one say which requests pass through it.    *)
(***************************************************************************)
EXTENDS Integers, Sequences, FiniteSets

CONSTANTS
  Keys,         \* the client keys: peer addresses, or forwarded ones
  MaxHits,      \* hits admitted per window
  Window,       \* the length of a window
  Cap           \* above this many buckets a hit first sweeps: 100_000 in the code

ASSUME LimitAssumption == IsFiniteSet(Keys) /\ {MaxHits, Window, Cap} \subseteq Nat

VARIABLES
  now,          \* the clock
  bucket,       \* per key, its window's start and count; a count of 0 is no entry
  admitted,     \* history: per key, when its admitted hits were counted
  lag,          \* history: the longest wait between a reading and its count
  lastHit       \* history: the reading of the latest hit

limitVars == <<bucket, admitted, lag, lastHit>>

NoBucket == [start |-> 0, count |-> 0]

Held == {k \in Keys : bucket[k].count > 0}

(* Instant::duration_since saturates: it is zero for a start that is ahead. *)
duration_since(t, start) == IF t < start THEN 0 ELSE t - start

Expired(t, b) == duration_since(t, b.start) > Window

LimitInit ==
  /\ now = 0
  /\ bucket = [k \in Keys |-> NoBucket]
  /\ admitted = [k \in Keys |-> <<>>]
  /\ lag = 0
  /\ lastHit = 0

(* Mutant: the map is never swept. *)
Swept_Never(t) == bucket

(* Above the cap, the expired buckets go. *)
Swept(t) ==
  [k \in Keys |-> IF Cardinality(Held) > Cap /\ Expired(t, bucket[k]) THEN NoBucket ELSE bucket[k]]

(* Mutant: the entry is inserted anew instead of looked up. *)
Counted_Insert(k, t) == [start |-> t, count |-> 1]

(* The bucket of a key after its hit: a new one, the old one started over,  *)
(* or the old one with one more.                                            *)
Counted(k, t) ==
  LET b == Swept(t)[k] IN
  IF b.count = 0 \/ Expired(t, b) THEN [start |-> t, count |-> 1]
  ELSE [b EXCEPT !.count = @ + 1]

(* allow, under the mutex, for a hit whose clock reading was t. *)
Admits(k, t) == Counted(k, t).count <= MaxHits

allow(k, t) ==
  /\ bucket' = [Swept(t) EXCEPT ![k] = Counted(k, t)]
  /\ admitted' = IF Admits(k, t) THEN [admitted EXCEPT ![k] = Append(@, now)] ELSE admitted
  /\ lag' = IF now - t > lag THEN now - t ELSE lag
  /\ lastHit' = t

----------------------------------------------------------------------------
(* The window's boundary lets a client through twice as often as the limit, *)
(* and never more: 2 * MaxHits + 1 admitted hits of a key span more than a  *)
(* window, however hits of other keys sweep the map in between; less only   *)
(* by as long as a request may wait for the mutex after it read the clock.  *)
TwiceTheLimit ==
  \A k \in Keys : \A i \in 1..(Len(admitted[k]) - 2 * MaxHits) :
    admitted[k][i + 2 * MaxHits] - admitted[k][i] > Window - lag

(* "A size cap that evicts expired buckets": beyond the cap and the entry   *)
(* of the latest hit, nothing is held that was expired at that hit.         *)
OnlyFreshBeyondCap ==
  Cardinality(Held) > Cap + 1 => \A k \in Held : ~Expired(lastHit, bucket[k])
=============================================================================
