----------------------------- MODULE Idempotency -----------------------------
(* IdempotencyHandler: the bounded memory of handled messages in one process,  *)
(* a JavaScript Map in insertion order. A message is remembered under two      *)
(* keys, its offset and its event id, of which only the offset is ever asked   *)
(* for. The Map is cut down when it outgrows its size, and on a timer. The      *)
(* names that every module has are prefixed: Standalone_proofs extends this one *)
(* together with RetryHandler and Dashboard.                                   *)
EXTENDS Integers, Sequences, FiniteSets, FiniteSetsExt

CONSTANTS
    Messages,       \* the <<partition, offset>> pairs of the messages handled
    EventAt,        \* the id of the event in each message
    MaxSize,        \* maxSize: the size above which markProcessed cleans up
    MaxTime         \* bound: how often the clock advances

ASSUME IdempotencyAssumption ==
    /\ DOMAIN EventAt = Messages
    /\ MaxSize \in Nat \ {0}
    /\ MaxTime \in Nat

VARIABLES
    processedEvents,    \* the Map's entries, in insertion order
    now,                \* Date.now(), which several messages may share
    marked              \* history: the messages marked since the last clear

cacheVars == <<processedEvents, now, marked>>

Keys == ({"offset"} \X Messages) \cup ({"event"} \X {EventAt[m] : m \in Messages})

CacheInit ==
    /\ processedEvents = <<>>
    /\ now = 0
    /\ marked = {}

Has(entries, key) == \E n \in DOMAIN entries : entries[n].key = key

(* A variant with a bug: the partition is left out of the key.                 *)
OffsetOnlyKey(m) == <<"offset", <<0, m[2]>>>>

generateKey(m) == <<"offset", m>>

generateEventKey(m) == <<"event", EventAt[m]>>

IsDuplicate(m) == Has(processedEvents, generateKey(m))

(* Map.set: a key that is there keeps its place *)
Set(entries, key) ==
    IF Has(entries, key)
    THEN [n \in DOMAIN entries |->
            IF entries[n].key = key THEN [entries[n] EXCEPT !.processedAt = now]
                                    ELSE entries[n]]
    ELSE Append(entries, [key |-> key, processedAt |-> now])

(* Variants with a bug each: the entries are not sorted, but taken in the      *)
(* order of the Map; the newest entries sort first.                            *)
PlaceInMap(entries, n) == n - 1

RankNewestFirst(entries, n) ==
    Cardinality({k \in DOMAIN entries :
        \/ entries[k].processedAt > entries[n].processedAt
        \/ entries[k].processedAt = entries[n].processedAt /\ k < n})

(* the place of an entry in the stable sort by processedAt, from 0 *)
Rank(entries, n) ==
    Cardinality({k \in DOMAIN entries :
        \/ entries[k].processedAt < entries[n].processedAt
        \/ entries[k].processedAt = entries[n].processedAt /\ k < n})

targetSize == (MaxSize * 8) \div 10

(* the length of slice(0, length - targetSize): a negative end counts back     *)
(* from the end of the array                                                   *)
Removed(length) ==
    IF length >= targetSize THEN length - targetSize
                            ELSE Max({2 * length - targetSize, 0})

(* cleanup: the Map without its oldest entries *)
CleanedUp(entries) ==
    LET kept == {n \in DOMAIN entries : Rank(entries, n) >= Removed(Len(entries))}
        Nth(k) == CHOOSE n \in kept : Cardinality({j \in kept : j < n}) = k - 1
    IN  [k \in 1..Cardinality(kept) |-> entries[Nth(k)]]

Trimmed(entries) == IF Len(entries) > MaxSize THEN CleanedUp(entries) ELSE entries

(* markProcessed, called after isDuplicate found nothing *)
MarkProcessed(m) ==
    /\ ~IsDuplicate(m)
    /\ processedEvents' = Trimmed(Set(Set(processedEvents, generateKey(m)), generateEventKey(m)))
    /\ marked' = marked \cup {m}
    /\ UNCHANGED now

(* startCleanup: the interval timer fires *)
TimedCleanup ==
    /\ processedEvents' = CleanedUp(processedEvents)
    /\ UNCHANGED <<now, marked>>

(* clear, which no service calls *)
Clear ==
    /\ processedEvents' = <<>>
    /\ marked' = {}
    /\ UNCHANGED now

ClockAdvances ==
    /\ now < MaxTime
    /\ now' = now + 1
    /\ UNCHANGED <<processedEvents, marked>>

CacheNext ==
    \/ \E m \in Messages : MarkProcessed(m)
    \/ TimedCleanup
    \/ Clear
    \/ ClockAdvances

CacheSpec == CacheInit /\ [][CacheNext]_cacheVars

-----------------------------------------------------------------------------
(* Properties *)

(* The Map holds a key once and never outgrows its size, although every        *)
(* message adds two keys (markProcessed).                                      *)
CacheTypeOK ==
    /\ processedEvents \in Seq([key : Keys, processedAt : 0..now])
    /\ now \in 0..MaxTime
    /\ marked \subseteq Messages
    /\ Len(processedEvents) <= MaxSize
    /\ \A m, n \in DOMAIN processedEvents :
          processedEvents[m].key = processedEvents[n].key => m = n

(* A message is only taken for a duplicate if it was handled, so the handler   *)
(* may forget but never loses an order (isDuplicate against the two key        *)
(* families and the cleanup).                                                  *)
NoFalseDuplicate == \A m \in Messages : IsDuplicate(m) => m \in marked

(* With the size of the Map, which holds a key once (markProcessed, cleanup).  *)
CacheInvariant == CacheTypeOK /\ NoFalseDuplicate

(* A cleanup forgets older entries before newer ones, whatever their places in *)
(* the Map (cleanup's sort).                                                   *)
OldestForgottenFirst ==
    [][\A m \in DOMAIN processedEvents', n \in DOMAIN processedEvents :
          ~Has(processedEvents', processedEvents[n].key)
          => processedEvents[n].processedAt <= processedEvents'[m].processedAt]_cacheVars

(* The message marked last is remembered even when marking it made the Map     *)
(* overflow, provided the target leaves room for the two keys of a message.    *)
JustMarkedIsRemembered ==
    [][\A m \in Messages : MarkProcessed(m) /\ targetSize >= 2 => IsDuplicate(m)']_cacheVars

(* idempotency.ts "Remove oldest entries to get back to 80% of max size": a    *)
(* cleanup never takes the Map below that. On a Map below 80% the slice's end  *)
(* is negative, and entries are removed all the same.                          *)
CleanupStopsAtTarget ==
    [][TimedCleanup => Len(processedEvents') >= Min({Len(processedEvents), targetSize})]_cacheVars
=============================================================================
