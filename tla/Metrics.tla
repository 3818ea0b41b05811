------------------------------ MODULE Metrics -------------------------------
(***************************************************************************)
(* Latencies and custom metrics on their way to InfluxDB: the measurers    *)
(* that aggregate (internal/gateways/latency_measurer.go), the translation *)
(* to points (metrics/translators/latency.go) and the Exporter             *)
(* (metrics/exporter.go), which starts two goroutines at every tick.  An   *)
(* aggregate carries the samples it stands for, which the code forgets, so *)
(* that properties can compare the two; a sample is a latency with a       *)
(* number of its own.  Latencies may be negative: they are the difference  *)
(* of two clocks.                                                          *)
(* Definitions whose name starts with Bad are faulty variants.             *)
(***************************************************************************)
EXTENDS Integers, Sequences, FiniteSets

CONSTANTS
    N,            \* measurers, one for each exchange
    Topics,
    Latencies,    \* durations that are recorded
    MilliSecond,  \* a millisecond, in the unit of durations
    Exports,      \* goroutines that can be exporting at once (bound)
    MaxRecords,   \* bound: latencies recorded
    MaxMetrics,   \* bound: custom metrics written
    MaxHistory    \* bound: aggregated maps that wait in a measurer

ASSUME MetricsAssumption ==
    /\ N \in Nat \ {0} /\ MilliSecond \in Nat \ {0}
    /\ Latencies \subseteq Int

VARIABLES
    current,      \* LatencyMeasurer.currentMeasurementsByTopic
    history,      \* LatencyMeasurer.history
    queue,        \* Exporter.customMetricQueue
    noopMode,     \* Exporter.noopMode
    latencies,    \* the goroutines of collectAndExportLatencies
    customs,      \* the goroutines of collectAndExportCustomMetrics
    running,      \* the loops: the measurers', and 0 for the Exporter's
    cancelled,    \* ctx
    recorded,     \* latencies recorded so far
    points,       \* latency points in the bucket
    lost,         \* samples discarded, or of points that could not be written
    metrics,      \* custom metrics written so far
    stored,       \* custom metrics in the bucket
    dropped       \* custom metrics discarded, invalid or not written

measurerVars == <<current, history, recorded>>
exportVars == <<latencies, points, lost>>
customVars == <<queue, customs, metrics, stored, dropped>>
loopVars == <<noopMode, running, cancelled>>
vars == <<measurerVars, exportVars, customVars, loopVars>>

Measurers == 1 .. N
Idle == [at |-> "idle"]
NewAggLatency == [counter |-> 0, sumVal |-> 0, maxVal |-> 0, minVal |-> 0, samples |-> <<>>]
NewMap == [t \in Topics |-> NewAggLatency]     \* counter 0: the topic is not in the map

Init ==
    /\ current = [i \in Measurers |-> NewMap]
    /\ history = [i \in Measurers |-> <<>>]
    /\ queue = <<>>
    /\ noopMode \in BOOLEAN
    /\ latencies = [e \in Exports |-> Idle]
    /\ customs = [e \in Exports |-> Idle]
    /\ running = Measurers \union {0}
    /\ cancelled = FALSE
    /\ recorded = 0 /\ points = {} /\ lost = {}
    /\ metrics = 0 /\ stored = {} /\ dropped = {}
-----------------------------------------------------------------------------
BadAdd(l, s) ==   \* the first sample is not told apart
    [counter |-> l.counter + 1,
     sumVal  |-> l.sumVal + s.latency,
     maxVal  |-> IF l.maxVal < s.latency THEN s.latency ELSE l.maxVal,
     minVal  |-> IF l.minVal > s.latency \/ l.counter = 0 THEN s.latency ELSE l.minVal,
     samples |-> Append(l.samples, s)]

Add(l, s) ==
    [counter |-> l.counter + 1,
     sumVal  |-> l.sumVal + s.latency,
     maxVal  |-> IF l.maxVal < s.latency \/ l.counter = 0 THEN s.latency ELSE l.maxVal,
     minVal  |-> IF l.minVal > s.latency \/ l.counter = 0 THEN s.latency ELSE l.minVal,
     samples |-> Append(l.samples, s)]

RecordLatency(i, t, latency) ==
    /\ recorded < MaxRecords
    /\ current' = [current EXCEPT ![i][t] = Add(@, [id |-> recorded + 1, latency |-> latency])]
    /\ recorded' = recorded + 1
    /\ UNCHANGED <<history, exportVars, customVars, loopVars>>

BadAggregate(i) ==   \* the map is not replaced
    /\ i \in running /\ Len(history[i]) < MaxHistory
    /\ history' = [history EXCEPT ![i] = Append(@, current[i])]
    /\ UNCHANGED <<current, recorded, exportVars, customVars, loopVars>>

BadAggregateFew(i) ==   \* a map with a single sample is left where it is
    /\ i \in running /\ Len(history[i]) < MaxHistory
    /\ \A t \in Topics : current[i][t].counter # 1
    /\ history' = [history EXCEPT ![i] = Append(@, current[i])]
    /\ current' = [current EXCEPT ![i] = NewMap]
    /\ UNCHANGED <<recorded, exportVars, customVars, loopVars>>

(* The tick of a measurer. *)
aggregate(i) ==
    /\ i \in running /\ Len(history[i]) < MaxHistory
    /\ history' = [history EXCEPT ![i] = Append(@, current[i])]
    /\ current' = [current EXCEPT ![i] = NewMap]
    /\ UNCHANGED <<recorded, exportVars, customVars, loopVars>>
-----------------------------------------------------------------------------
(* Go divides integers towards zero. *)
Quo(a, b) == IF a >= 0 THEN a \div b ELSE -((-a) \div b)

Avg(l) == Quo(l.sumVal, l.counter)

translateToLatency(i, t, l) ==
    [measurer |-> i, topic |-> t,
     avg |-> Quo(Avg(l), MilliSecond),
     max |-> Quo(l.maxVal, MilliSecond),
     min |-> Quo(l.minVal, MilliSecond),
     samples |-> l.samples]

(* The points of the maps; their order, that of a Go map, does not matter. *)
TranslateToLatencies(i, withTimes) ==
    {translateToLatency(i, x[2], withTimes[x[1]][x[2]]) :
        x \in {y \in (DOMAIN withTimes) \X Topics : withTimes[y[1]][y[2]].counter > 0}}

(* The samples that points stand for, by their numbers. *)
IDs(samples) == {samples[k].id : k \in DOMAIN samples}
SamplesOf(ps) == UNION {IDs(p.samples) : p \in ps}
-----------------------------------------------------------------------------
(* The tick of the Exporter: discard everything in noop mode (the locks    *)
(* are taken one by one, for parts that do not depend on each other), ...  *)
Discard ==
    /\ 0 \in running /\ noopMode
    /\ lost' = lost \union SamplesOf(UNION {TranslateToLatencies(i, history[i]) : i \in Measurers})
    /\ history' = [i \in Measurers |-> <<>>]
    /\ dropped' = dropped \union {queue[k].id : k \in DOMAIN queue}
    /\ queue' = <<>>
    /\ UNCHANGED <<current, recorded, latencies, points, customs, metrics, stored, loopVars>>

(* ... or start the goroutines. *)
Tick(e, f) ==
    /\ 0 \in running /\ ~noopMode
    /\ latencies[e] = Idle /\ customs[f] = Idle
    /\ latencies' = [latencies EXCEPT ![e] = [at |-> "collect", next |-> 1, points |-> {}]]
    /\ customs' = [customs EXCEPT ![f] = [at |-> "take"]]
    /\ UNCHANGED <<measurerVars, points, lost, queue, metrics, stored, dropped, loopVars>>

(* collectLatencies: the history of one measurer after the other.          *)
(* exportLatencies writes nothing if there is no latency.                  *)
collectLatencies(e) ==
    /\ latencies[e].at = "collect"
    /\ LET i  == latencies[e].next
           ps == latencies[e].points \union TranslateToLatencies(i, history[i])
       IN  /\ history' = [history EXCEPT ![i] = <<>>]
           /\ latencies' = [latencies EXCEPT ![e] =
                 CASE i < N                -> [at |-> "collect", next |-> i + 1, points |-> ps]
                   [] i = N /\ ps # {}   -> [at |-> "write", points |-> ps]
                   [] i = N /\ ps = {}   -> Idle]
    /\ UNCHANGED <<current, recorded, points, lost, customVars, loopVars>>

(* exportLatencies: an error is logged, and the points are gone. *)
exportLatencies(e, ok) ==
    /\ latencies[e].at = "write"
    /\ \/ /\ ok
          /\ points' = points \union latencies[e].points
          /\ UNCHANGED lost
       \/ /\ ~ok
          /\ lost' = lost \union SamplesOf(latencies[e].points)
          /\ UNCHANGED points
    /\ latencies' = [latencies EXCEPT ![e] = Idle]
    /\ UNCHANGED <<measurerVars, customVars, loopVars>>
-----------------------------------------------------------------------------
(* WriteCustomMetrics: a metric without fields is not valid. *)
WriteCustomMetrics(valid) ==
    /\ metrics < MaxMetrics
    /\ metrics' = metrics + 1
    /\ queue' = Append(queue, [id |-> metrics + 1, valid |-> valid])
    /\ UNCHANGED <<measurerVars, exportVars, customs, stored, dropped, loopVars>>

BadTakeQueue(f) ==   \* the queue is not replaced
    /\ customs[f].at = "take"
    /\ customs' = [customs EXCEPT ![f] =
                      IF queue = <<>> THEN Idle ELSE [at |-> "write", metrics |-> queue]]
    /\ UNCHANGED <<queue, measurerVars, exportVars, metrics, stored, dropped, loopVars>>

(* collectAndExportCustomMetrics takes the whole queue under mu, ... *)
TakeQueue(f) ==
    /\ customs[f].at = "take"
    /\ customs' = [customs EXCEPT ![f] =
                      IF queue = <<>> THEN Idle ELSE [at |-> "write", metrics |-> queue]]
    /\ queue' = <<>>
    /\ UNCHANGED <<measurerVars, exportVars, metrics, stored, dropped, loopVars>>

(* ... and exportCustomMetrics writes what is valid. *)
exportCustomMetrics(f, ok) ==
    /\ customs[f].at = "write"
    /\ LET ms   == {customs[f].metrics[k] : k \in DOMAIN customs[f].metrics}
           good == {x \in ms : ok /\ x.valid}
       IN  /\ stored' = stored \union {x.id : x \in good}
           /\ dropped' = dropped \union {x.id : x \in ms \ good}
    /\ customs' = [customs EXCEPT ![f] = Idle]
    /\ UNCHANGED <<queue, measurerVars, exportVars, metrics, loopVars>>
-----------------------------------------------------------------------------
Cancel ==
    /\ ~cancelled /\ cancelled' = TRUE
    /\ UNCHANGED <<measurerVars, exportVars, customVars, noopMode, running>>

(* A loop whose ctx is done may handle ticks before it sees it. *)
Stop(x) ==
    /\ cancelled /\ x \in running
    /\ running' = running \ {x}
    /\ UNCHANGED <<measurerVars, exportVars, customVars, noopMode, cancelled>>

Next ==
    \/ \E i \in Measurers :
          \/ \E t \in Topics, l \in Latencies : RecordLatency(i, t, l)
          \/ aggregate(i)
    \/ Discard
    \/ \E e, f \in Exports : Tick(e, f)
    \/ \E e \in Exports :
          \/ collectLatencies(e) \/ TakeQueue(e)
          \/ \E ok \in BOOLEAN : exportLatencies(e, ok) \/ exportCustomMetrics(e, ok)
    \/ \E valid \in BOOLEAN : WriteCustomMetrics(valid)
    \/ Cancel
    \/ \E x \in running : Stop(x)

Spec == Init /\ [][Next]_vars

(* Tickers tick and the goroutines they start run.  Nothing is assumed of  *)
(* a write: the client has no timeout, and one may never return.           *)
FairSpec ==
    /\ Spec
    /\ \A i \in Measurers : WF_vars(aggregate(i))
    /\ WF_vars(Discard)
    /\ WF_vars(\E e, f \in Exports : Tick(e, f))
    /\ \A e \in Exports : WF_vars(collectLatencies(e)) /\ WF_vars(TakeQueue(e))
-----------------------------------------------------------------------------
Sample == [id : 1 .. recorded, latency : Latencies]
Agg == [counter : Nat, sumVal : Int, maxVal : Int, minVal : Int, samples : Seq(Sample)]
Point == [measurer : Measurers, topic : Topics, avg : Int, max : Int, min : Int, samples : Seq(Sample)]
Metric == [id : 1 .. metrics, valid : BOOLEAN]

(* Type invariant. *)
TypeOK ==
    /\ current \in [Measurers -> [Topics -> Agg]]
    /\ history \in [Measurers -> Seq([Topics -> Agg])]
    /\ queue \in Seq(Metric)
    /\ latencies \in [Exports -> {Idle} \union
          [at : {"collect"}, next : Measurers, points : SUBSET Point] \union
          [at : {"write"}, points : SUBSET Point]]
    /\ customs \in [Exports -> {Idle} \union [at : {"take"}] \union
                               [at : {"write"}, metrics : Seq(Metric)]]
    /\ running \subseteq Measurers \union {0}
    /\ noopMode \in BOOLEAN /\ cancelled \in BOOLEAN
    /\ points \subseteq Point
    /\ recorded \in Nat /\ metrics \in Nat
    /\ lost \subseteq 1 .. recorded
    /\ stored \subseteq 1 .. metrics /\ dropped \subseteq 1 .. metrics

(* Where a sample is: in the maps of the measurers, in their histories, in *)
(* the exports under way, in the bucket.                                   *)
InMaps(n) == {x \in Measurers \X Topics : n \in IDs(current[x[1]][x[2]].samples)}
InHistory(n) ==
    UNION {{i} \X {x \in (DOMAIN history[i]) \X Topics : n \in IDs(history[i][x[1]][x[2]].samples)} :
              i \in Measurers}
InExports(n) ==
    UNION {{e} \X {p \in latencies[e].points : n \in IDs(p.samples)} :
              e \in {x \in Exports : latencies[x] # Idle}}
InBucket(n) == {p \in points : n \in IDs(p.samples)}

(* Every latency recorded is in exactly one place: the map of a measurer,  *)
(* its history, an export under way, the bucket, or lost with a write that *)
(* failed.  None is counted twice when exports overlap with each other and *)
(* with the ticks of the measurers.                                        *)
SamplesConserved ==
    \A n \in 1 .. recorded :
        Cardinality(InMaps(n)) + Cardinality(InHistory(n)) + Cardinality(InExports(n))
          + Cardinality(InBucket(n)) + Cardinality({n} \intersect lost) = 1

(* The same for custom metrics: at any time each is in the queue, in one   *)
(* export, stored or dropped.                                              *)
MetricsOnce ==
    \A n \in 1 .. metrics :
        Cardinality({k \in DOMAIN queue : queue[k].id = n})
          + Cardinality({e \in Exports : customs[e].at = "write" /\ n \in IDs(customs[e].metrics)})
          + Cardinality({n} \intersect stored) + Cardinality({n} \intersect dropped) = 1

(* The sums of the first latencies, and of all. *)
Sums(samples) ==
    LET sum[k \in 0 .. Len(samples)] == IF k = 0 THEN 0 ELSE sum[k - 1] + samples[k].latency
    IN  sum
Total(samples) == Sums(samples)[Len(samples)]

Greatest(x, samples) == /\ \E k \in DOMAIN samples : samples[k].latency = x
                        /\ \A k \in DOMAIN samples : samples[k].latency <= x
Least(x, samples) == /\ \E k \in DOMAIN samples : samples[k].latency = x
                     /\ \A k \in DOMAIN samples : samples[k].latency >= x

(* A point tells the truth about its samples: greatest, least, and an      *)
(* average less than a millisecond and a unit off, between the two.        *)
IsRight(p) ==
    LET n == Len(p.samples)
        off == Total(p.samples) - p.avg * n * MilliSecond
    IN  /\ \E x \in Latencies : Greatest(x, p.samples) /\ p.max = Quo(x, MilliSecond)
        /\ \E x \in Latencies : Least(x, p.samples) /\ p.min = Quo(x, MilliSecond)
        /\ p.min <= p.avg /\ p.avg <= p.max
        /\ off < n * (MilliSecond + 1) /\ -off < n * (MilliSecond + 1)

(* The latencies in the bucket are right: aggregated, divided and rounded. *)
PointsAreRight == \A p \in points : IsRight(p)

(* Unless the application is stopped, what is recorded does not stay: it   *)
(* is handed to a write, also when earlier writes hang, and then is with   *)
(* that write, in the bucket or lost.  (The InfluxDB client is made        *)
(* without a timeout: a write may keep what it has.)  The last disjunct is *)
(* the bound Exports: the code always has one more goroutine to start.     *)
SamplesLeave ==
    \A n \in 1 .. MaxRecords :
        recorded >= n ~>
            \/ cancelled \/ InBucket(n) # {} \/ n \in lost
            \/ \E e \in Exports : latencies[e].at = "write" /\ n \in SamplesOf(latencies[e].points)
            \/ \A f \in Exports : customs[f].at = "write"
=============================================================================
