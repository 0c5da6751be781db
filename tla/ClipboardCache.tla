--------------------------- MODULE ClipboardCache ---------------------------
(***************************************************************************)
(* The byte-bounded caches that hold the body of what this machine has     *)
(* offered to its peers until they fetch it over HTTP/3: ClipboardCache    *)
(* (text and images) and FileCache, which share one algorithm.  A cache is *)
(* a value: the set of hashes it holds, the subset of those past their     *)
(* time to live, the insertion order, and the running byte count.  The     *)
(* insertion order is a queue that only insert and its eviction loop       *)
(* touch: a removed or expired hash stays in it.                           *)
(***************************************************************************)
EXTENDS Naturals, Sequences, FiniteSetsExt

CONSTANTS
  Sha,         \* content hashes
  Size,        \* [Sha -> Nat]: the length of the body with that hash
  ByteBudget   \* CLIPBOARD_CACHE_BYTE_BUDGET / FILE_CACHE_BYTE_BUDGET

ASSUME CacheAssumption ==
  /\ Size \in [Sha -> Nat]
  /\ ByteBudget \in Nat

BytesOf(S) == MapThenSumSet(LAMBDA s : Size[s], S)

Cached(entries, expired, lru, bytes_used) ==
  [entries |-> entries, expired |-> expired, lru |-> lru,
   bytes_used |-> bytes_used]

CacheNew == Cached({}, {}, <<>>, 0)

\* What is left of a cache after popping the n oldest queue members.
Popped(c, n) ==
  LET gone == {c.lru[i] : i \in 1..n} \cap c.entries
  IN  Cached(c.entries \ gone, c.expired \ gone,
             SubSeq(c.lru, n + 1, Len(c.lru)), c.bytes_used - BytesOf(gone))

\* The eviction loop: pop until the budget holds or the queue is empty.
Evict(c) ==
  LET fits(n) == Popped(c, n).bytes_used <= ByteBudget \/ n = Len(c.lru)
      stop == CHOOSE n \in 0..Len(c.lru) :
                fits(n) /\ \A m \in 0..(n - 1) : ~fits(m)
  IN  Popped(c, stop)

\* insert: a body above the budget is refused; a hash that is present keeps
\* its place in the queue and gets a new time stamp.
CacheInsert(c, s) ==
  IF Size[s] > ByteBudget THEN c
  ELSE Evict(IF s \in c.entries
             THEN Cached(c.entries, c.expired \ {s}, c.lru, c.bytes_used)
             ELSE Cached(c.entries \cup {s}, c.expired, Append(c.lru, s),
                         c.bytes_used + Size[s]))

\* remove: the entry goes, its place in the queue stays.
CacheRemove(c, s) ==
  IF s \in c.entries
  THEN Cached(c.entries \ {s}, c.expired \ {s}, c.lru, c.bytes_used - Size[s])
  ELSE c

\* lookup: a hit is a present, unexpired entry; an expired one is dropped.
CacheHit(c, s) == s \in c.entries \ c.expired

CacheLookup(c, s) == IF s \in c.expired THEN CacheRemove(c, s) ELSE c

\* Time passes: every entry present now outlives its time to live.
CacheAge(c) == Cached(c.entries, c.entries, c.lru, c.bytes_used)

\* What the accounting of a cache must satisfy: the running byte count is
\* the size of what is held, the budget holds, and whatever is held can be
\* found by the eviction loop.
CacheConsistent(c) ==
  /\ c.bytes_used = BytesOf(c.entries)
  /\ c.bytes_used <= ByteBudget
  /\ c.expired \subseteq c.entries
  /\ c.entries \subseteq {c.lru[i] : i \in DOMAIN c.lru}
=============================================================================
