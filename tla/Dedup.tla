------------------------------- MODULE Dedup -------------------------------
(***************************************************************************)
(* A ChannelGroup: redundant channels that deliver the same messages, and  *)
(* the dedupTopic and TTLCache they share.  Each channel's goroutine runs  *)
(* the message handler; the cleanup goroutine removes expired entries.     *)
(* A lock of mutex.Map is held for one step, never across two.             *)
(* The names of the specification say whose it is: the proofs extend this  *)
(* module together with Channel and Agent.                                 *)
(* Definitions whose name starts with Bad are faulty variants.             *)
(***************************************************************************)
EXTENDS Naturals, FiniteSets

CONSTANTS
    Channels,   \* the channels of the group
    Published,  \* the messages of each exchange, of all topics: topic, symbol, timestamp
    TTL,        \* dedupTTL, in ticks
    Spread,     \* bound: ticks from the first copy of a message to the last look-up of a copy
    Threshold,  \* cleanupThreshold
    MaxTime     \* bound: ticks in a behaviour

Gateways == {"coinex", "bybit"}

ASSUME DedupAssumption == DOMAIN Published = Gateways /\ {TTL, Spread, Threshold, MaxTime} \subseteq Nat

VARIABLES
    gateway,    \* whose channels they are
    now,        \* the clock
    first,      \* when the first copy of a message arrived
    got,        \* messages a channel has read
    work,       \* what the goroutine of a channel is doing; Idle between messages
    entries,    \* TTLCache.entries
    cleaner,    \* the cleanup goroutine: its clock, keys to look at, keys to delete
    late,       \* history: messages of which a copy was looked up after the TTL of the first
    processed,  \* history: when the message was processed, and by which channel
    dropped     \* history: messages of which a copy was discarded

dedupVars == <<gateway, now, first, got, work, entries, cleaner, late, processed, dropped>>

Msgs == Published[gateway]

(* Topic.MessageID.  CoinEx: the kind of topic and the time in the message *)
(* (or, for trades, a number); Bybit: the topic's full name and the time.  *)
(* Without the field there is no ID, and no deduplication.                 *)
NoID == <<>>
CoinExID(m) == IF m.stamp = 0 THEN NoID ELSE <<m.topic, m.stamp>>
BybitID(m) == IF m.stamp = 0 THEN NoID ELSE <<m.topic, m.symbol, m.stamp>>
MessageID(m) == IF gateway = "coinex" THEN CoinExID(m) ELSE BybitID(m)

IDs == {MessageID(m) : m \in Msgs} \ {NoID}

Times == 0 .. MaxTime
Idle == [at |-> "idle"]
Working == [m : Msgs, t : Times, at : {"look", "renew", "handle"}]
Asleep == [at |-> "asleep"]
Cleaning == [now : Times, keys : SUBSET IDs, expired : SUBSET IDs]

DedupInit ==
    /\ gateway \in Gateways
    /\ now = 0
    /\ first = <<>>
    /\ got = [c \in Channels |-> {}]
    /\ work = [c \in Channels |-> Idle]
    /\ entries = <<>>
    /\ cleaner = Asleep
    /\ late = {}
    /\ processed = [m \in Msgs |-> {}]
    /\ dropped = {}

Put(f, k, v) == [x \in DOMAIN f \union {k} |-> IF x = k THEN v ELSE f[x]]

at(c, s) == work[c].at = s
key(c) == MessageID(work[c].m)
-----------------------------------------------------------------------------
(* dedupTopic.MsgHandler on channel c: TTLCache.AddIfAbsent reads the      *)
(* clock, then SetIfAbsent looks the key up.                               *)
Receive(c, m) ==
    /\ work[c] = Idle
    /\ m \notin got[c]
    /\ m \in DOMAIN first => now - first[m] <= Spread
    /\ got' = [got EXCEPT ![c] = @ \union {m}]
    /\ first' = IF m \in DOMAIN first THEN first ELSE Put(first, m, now)
    /\ work' = [work EXCEPT ![c] = [m |-> m, t |-> now,
                                    at |-> IF MessageID(m) = NoID THEN "handle" ELSE "look"]]
    /\ UNCHANGED <<gateway, now, entries, cleaner, late, processed, dropped>>

Later(c) == IF now - first[work[c].m] > TTL THEN late \union {work[c].m} ELSE late

(* SetIfAbsent has found the key: expired, or a duplicate. *)
Occupied(c) ==
    /\ key(c) \in DOMAIN entries
    /\ IF work[c].t > entries[key(c)] + TTL
       THEN work' = [work EXCEPT ![c].at = "renew"] /\ UNCHANGED dropped
       ELSE work' = [work EXCEPT ![c] = Idle] /\ dropped' = dropped \union {work[c].m}
    /\ UNCHANGED entries

BadSetIfAbsent(c) ==   \* the key is remembered, the message is not handled
    /\ at(c, "look")
    /\ \/ /\ key(c) \notin DOMAIN entries
          /\ entries' = Put(entries, key(c), work[c].t)
          /\ work' = [work EXCEPT ![c] = Idle]
          /\ dropped' = dropped \union {work[c].m}
       \/ Occupied(c)
    /\ late' = Later(c)
    /\ UNCHANGED <<gateway, now, first, got, cleaner, processed>>

BadGetThenSet(c) ==   \* Get, and Set in a step of its own
    /\ at(c, "look")
    /\ \/ /\ key(c) \notin DOMAIN entries
          /\ work' = [work EXCEPT ![c].at = "renew"]
          /\ UNCHANGED <<entries, dropped>>
       \/ Occupied(c)
    /\ late' = Later(c)
    /\ UNCHANGED <<gateway, now, first, got, cleaner, processed>>

SetIfAbsent(c) ==
    /\ at(c, "look")
    /\ \/ /\ key(c) \notin DOMAIN entries
          /\ entries' = Put(entries, key(c), work[c].t)
          /\ work' = [work EXCEPT ![c].at = "handle"]
          /\ UNCHANGED dropped
       \/ Occupied(c)
    /\ late' = Later(c)
    /\ UNCHANGED <<gateway, now, first, got, cleaner, processed>>

(* The entry had expired: overwrite it. *)
Renew(c) ==
    /\ at(c, "renew")
    /\ entries' = Put(entries, key(c), work[c].t)
    /\ work' = [work EXCEPT ![c].at = "handle"]
    /\ UNCHANGED <<gateway, now, first, got, cleaner, late, processed, dropped>>

(* The handler of the inner topic. *)
Handle(c) ==
    /\ at(c, "handle")
    /\ processed' = [processed EXCEPT ![work[c].m] = @ \union {[c |-> c, t |-> work[c].t]}]
    /\ work' = [work EXCEPT ![c] = Idle]
    /\ UNCHANGED <<gateway, now, first, got, entries, cleaner, late, dropped>>
-----------------------------------------------------------------------------
(* TTLCache.StartCleanup: above the threshold take the keys, look at each  *)
(* of them on its own, delete the expired ones together.                   *)
Snapshot ==
    /\ cleaner = Asleep
    /\ Cardinality(DOMAIN entries) > Threshold
    /\ cleaner' = [now |-> now, keys |-> DOMAIN entries, expired |-> {}]
    /\ UNCHANGED <<gateway, now, first, got, work, entries, late, processed, dropped>>

Examine(id) ==
    /\ cleaner # Asleep /\ id \in cleaner.keys
    /\ cleaner' = [cleaner EXCEPT !.keys = @ \ {id},
           !.expired = IF id \in DOMAIN entries /\ cleaner.now > entries[id] + TTL
                       THEN @ \union {id} ELSE @]
    /\ UNCHANGED <<gateway, now, first, got, work, entries, late, processed, dropped>>

BulkDelete ==
    /\ cleaner # Asleep /\ cleaner.keys = {}
    /\ entries' = [id \in DOMAIN entries \ cleaner.expired |-> entries[id]]
    /\ cleaner' = Asleep
    /\ UNCHANGED <<gateway, now, first, got, work, late, processed, dropped>>

(* Time passes; a copy that has arrived is looked up within the spread. *)
Tick ==
    /\ now < MaxTime
    /\ \A c \in Channels : at(c, "look") => now - first[work[c].m] < Spread
    /\ now' = now + 1
    /\ UNCHANGED <<gateway, first, got, work, entries, cleaner, late, processed, dropped>>
-----------------------------------------------------------------------------
DedupNext ==
    \/ \E c \in Channels :
          \/ \E m \in Msgs : Receive(c, m)
          \/ SetIfAbsent(c) \/ Renew(c) \/ Handle(c)
    \/ Snapshot \/ BulkDelete \/ \E id \in IDs : Examine(id)
    \/ Tick

DedupSpec == DedupInit /\ [][DedupNext]_dedupVars
-----------------------------------------------------------------------------
(* Type invariant of the channels, the cache and the cleanup goroutine. *)
DedupTypeOK ==
    /\ gateway \in Gateways /\ late \subseteq Msgs
    /\ now \in Times
    /\ DOMAIN first \subseteq Msgs /\ \A m \in DOMAIN first : first[m] \in Times
    /\ got \in [Channels -> SUBSET Msgs]
    /\ work \in [Channels -> Working \union {Idle}]
    /\ DOMAIN entries \subseteq IDs /\ \A id \in DOMAIN entries : entries[id] \in Times
    /\ cleaner = Asleep \/ cleaner \in Cleaning
    /\ processed \in [Msgs -> SUBSET [c : Channels, t : Times]]
    /\ dropped \subseteq Msgs

(* The ID of m is the ID of no other message.  CoinEx messages of one kind *)
(* and one millisecond share theirs, whatever their symbols.               *)
OwnID(m) == MessageID(m) # NoID /\ \A n \in Msgs : MessageID(n) = MessageID(m) => n = m

(* README: "processing only the first data to arrive".  When the copies of *)
(* a message are looked up within the time to live, one is processed and   *)
(* no other, whatever the cleanup goroutine and other messages do          *)
(* meanwhile.  This is more than ttl_cache_test.go:85-87 asks, which       *)
(* allows "a few duplicates" of copies that meet: SetIfAbsent checks and   *)
(* inserts under one lock, so none occur.  The exception the code has is a *)
(* copy later than the time to live: two channels that meet at its expired *)
(* entry both process it (AddIfAbsent renews without looking again).       *)
ProcessedOnce ==
    \A m \in Msgs \ late : OwnID(m) =>
        Cardinality(processed[m])
            + Cardinality({c \in Channels : at(c, "handle") /\ work[c].m = m}) <= 1

(* Redundant channels leave no gap: a message of which a copy is discarded *)
(* has been processed, or a channel is about to, however late the copies   *)
(* and whatever is renewed or cleaned up.  The exception the code has is a *)
(* message that shares its ID: another one stands for it.                  *)
DroppedIsProcessed ==
    \A m \in dropped : \E n \in Msgs :
        /\ MessageID(n) = MessageID(m)
        /\ processed[n] # {} \/ \E c \in Channels : at(c, "handle") /\ work[c].m = n
=============================================================================
