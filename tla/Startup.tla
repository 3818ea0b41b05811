------------------------------ MODULE Startup -------------------------------
(***************************************************************************)
(* A strategy process from its start to its end: initializers/lapua, the   *)
(* context of initializers/context.go, and the gateways and insights of    *)
(* initializers/exchanges, called in the order of examples/book-monitor:   *)
(*   InitAndStart; for each exchange InitGatewayManager, InitInsights and  *)
(*   StartGateway; WaitForInsightsToBeReady; the strategy, which sets its  *)
(*   callbacks; WaitForCtxDone.                                            *)
(* An insight is a trade list, an order book or a quote of a symbol.  The  *)
(* public channels of an exchange are one feed with one topic manager      *)
(* (Channel and Dedup model the connections and what redundant channels do *)
(* with a frame).  The private channel and the dealers play no part in     *)
(* readiness.                                                              *)
(* The names of the specification say whose it is: the proofs extend this  *)
(* module together with Config.                                            *)
(* Definitions whose name starts with Bad are faulty variants.             *)
(***************************************************************************)
EXTENDS Naturals, FiniteSets

CONSTANTS
    Modes,        \* subset of {"strategy", "curator", "noop"}
    Insights      \* records [ex, kind, symbol, depth]

ASSUME StartupAssumption ==
    /\ Modes \subseteq {"strategy", "curator", "noop"}
    /\ \A i \in Insights : i.ex \in {"coinex", "bybit"} /\ i.kind \in {"trade", "book", "quote"}

Exchanges == {i.ex : i \in Insights}
Of(e) == {i \in Insights : i.ex = e}

VARIABLES
    main,         \* where the main goroutine is
    mode,         \* the InitAndStart function that was called
    ctx,          \* Ctx: "none", "live" or "done"
    armed,        \* where main was when a signal armed the 10 s timer
    exit,         \* how the process ended: "no", "clean", "forced", "panic"
    gateway,      \* gatewayManager of each exchange: "none", "new", "set", "started"
    topicMap,     \* Manager.topicMap of each exchange: insights by topic name
    feed,         \* the channel group: "off", "on", "closed"
    requests,     \* subscribe requests sent and not answered, sets of names
    subscribed,   \* topics the exchange sends
    refused,      \* topics it has refused
    received,     \* messages an insight was updated with, up to 2
    readyStates,  \* insReadyStates
    sweep         \* exchanges left in this round of the wait

startupVars == <<main, mode, ctx, armed, exit, gateway, topicMap, feed, requests, subscribed, refused,
          received, readyStates, sweep>>
waitVars == <<readyStates, sweep>>
topicVars == <<requests, subscribed, refused>>
feedVars == <<feed, topicVars, received>>

StartupInit ==
    /\ main = "start" /\ mode = "none" /\ ctx = "none" /\ armed = "no" /\ exit = "no"
    /\ gateway = [e \in Exchanges |-> "none"]
    /\ topicMap = [e \in Exchanges |-> <<>>]
    /\ feed = [e \in Exchanges |-> "off"]
    /\ requests = [e \in Exchanges |-> {}]
    /\ subscribed = [e \in Exchanges |-> {}]
    /\ refused = [e \in Exchanges |-> {}]
    /\ received = [i \in Insights |-> 0]
    /\ readyStates = [e \in Exchanges |-> FALSE]
    /\ sweep = {}

Running == exit = "no"
-----------------------------------------------------------------------------
(* InitAndStart, InitAndStartDCMode and InitAndStartNoopMode: the context, *)
(* and without the noop mode a configuration that is read and watched.     *)
InitAndStart(m) ==
    /\ Running /\ main = "start"
    /\ main' = "setup" /\ mode' = m /\ ctx' = "live"
    /\ UNCHANGED <<armed, exit, gateway, topicMap, feedVars, waitVars>>

(* ... which panic on a path, a file or a parameter they do not find. *)
InitPanics(m) ==
    /\ Running /\ main = "start" /\ m # "noop"
    /\ exit' = "panic" /\ mode' = m
    /\ UNCHANGED <<main, ctx, armed, gateway, topicMap, feedVars, waitVars>>

InitGatewayManager(e) ==
    /\ Running /\ main = "setup" /\ gateway[e] = "none"
    /\ gateway' = [gateway EXCEPT ![e] = "new"]
    /\ UNCHANGED <<main, mode, ctx, armed, exit, topicMap, feedVars, waitVars>>

(* TopicName of the topics of CoinEx: the kind and the symbol. *)
CoinExTopic(i) == <<i.kind, i.symbol>>

(* TopicName of the topics of Bybit: order books have their depth in it,   *)
(* and a quote comes from the order book topic of depth 1.                 *)
BybitTopic(i) ==
    CASE i.kind = "trade" -> <<"trade", i.symbol>>
      [] i.kind = "book"  -> <<"book", i.symbol, i.depth>>
      [] i.kind = "quote" -> <<"book", i.symbol, 1>>

TopicName(i) == IF i.ex = "coinex" THEN CoinExTopic(i) ELSE BybitTopic(i)

Names(S) == {TopicName(i) : i \in S}

BadSetTopics(m, S) ==   \* the topics of each call replace those before
    [n \in Names(S) |-> CHOOSE i \in S : TopicName(i) = n]

(* SetTopics of a manager: a topic replaces one of the same name. *)
SetTopics(m, S) ==
    [n \in DOMAIN m \union Names(S) |->
        IF n \in Names(S) THEN CHOOSE i \in S : TopicName(i) = n ELSE m[n]]

Kind(e, k) == {i \in Of(e) : i.kind = k}

(* InitInsights of CoinEx sets the topics of trades, books and quotes. *)
CoinExInsights(m) ==
    SetTopics(SetTopics(SetTopics(m, Kind("coinex", "trade")), Kind("coinex", "book")), Kind("coinex", "quote"))

(* InitInsights of Bybit those of trades, then books, in one list with the *)
(* topics it makes for the quotes.                                         *)
BybitInsights(m) ==
    SetTopics(SetTopics(SetTopics(m, Kind("bybit", "trade")), Kind("bybit", "book")), Kind("bybit", "quote"))

(* The insights of an exchange are created, their topics set, and the      *)
(* exchange registered with AppendInsight.                                 *)
InitInsights(e) ==
    /\ Running /\ main = "setup" /\ gateway[e] = "new"
    /\ gateway' = [gateway EXCEPT ![e] = "set"]
    /\ topicMap' = [topicMap EXCEPT ![e] = IF e = "coinex" THEN CoinExInsights(@) ELSE BybitInsights(@)]
    /\ UNCHANGED <<main, mode, ctx, armed, exit, feedVars, waitVars>>

StartGateway(e) ==
    /\ Running /\ main = "setup" /\ gateway[e] = "set"
    /\ gateway' = [gateway EXCEPT ![e] = "started"]
    /\ UNCHANGED <<main, mode, ctx, armed, exit, topicMap, feedVars, waitVars>>
-----------------------------------------------------------------------------
(* SubscribeRequests of CoinEx: a request for every topic. *)
CoinExRequests(m) == {{n} : n \in DOMAIN m}

(* SubscribeRequests of Bybit: one request for all of them, if there are any. *)
BybitRequests(m) == {DOMAIN m} \ {{}}

SubscribeRequests(e) ==
    IF e = "coinex" THEN CoinExRequests(topicMap[e]) ELSE BybitRequests(topicMap[e])

(* The feed connects and sends the subscribe requests of its manager. *)
FeedStarts(e) ==
    /\ Running /\ gateway[e] = "started" /\ feed[e] = "off"
    /\ feed' = [feed EXCEPT ![e] = "on"]
    /\ requests' = [requests EXCEPT ![e] = SubscribeRequests(e)]
    /\ UNCHANGED <<main, mode, ctx, armed, exit, gateway, topicMap, subscribed, refused, received, waitVars>>

(* A channel's first connection, or a request on it, fails: the gateway's  *)
(* goroutine panics.                                                       *)
FeedFails(e) ==
    /\ Running /\ gateway[e] = "started" /\ feed[e] = "off"
    /\ exit' = "panic"
    /\ UNCHANGED <<main, mode, ctx, armed, gateway, topicMap, feedVars, waitVars>>

(* The exchange answers a request, and sends the topics or does not:       *)
(* HandleSubscribeResp logs which.                                         *)
HandleSubscribeResp(e, r, ok) ==
    /\ Running /\ feed[e] = "on" /\ r \in requests[e]
    /\ requests' = [requests EXCEPT ![e] = @ \ {r}]
    /\ subscribed' = [subscribed EXCEPT ![e] = IF ok THEN @ \union r ELSE @]
    /\ refused' = [refused EXCEPT ![e] = IF ok THEN @ ELSE @ \union r]
    /\ UNCHANGED <<main, mode, ctx, armed, exit, gateway, topicMap, feed, received, waitVars>>

(* getTopicName of CoinEx: the frame's method gives the kind, its data the *)
(* symbol.                                                                 *)
CoinExFrameTopic(f) == <<f.topic[1], f.topic[2]>>

(* getTopicName of Bybit: the frame has it. *)
BybitFrameTopic(f) == f.topic

FrameTopic(e, f) == IF e = "coinex" THEN CoinExFrameTopic(f) ELSE BybitFrameTopic(f)

(* The frames of an exchange: of topics it was asked for, with both sides  *)
(* of the book or one.                                                     *)
Frames(e) == [topic : subscribed[e], whole : BOOLEAN]

(* Convert of the book ticker adapter refuses a depth of one side, so a    *)
(* quote of Bybit is not updated by it.                                    *)
Convert(i, f) == i.ex = "bybit" /\ i.kind = "quote" => f.whole

(* Update of the insight. *)
Update(i, f) ==
    received' = [received EXCEPT ![i] = IF Convert(i, f) /\ @ < 2 THEN @ + 1 ELSE @]

(* HandleTopicMessage: the topic of that name, if there is one, passes the *)
(* frame to the insight that set its handler.                              *)
HandleTopicMessage(e, f) ==
    /\ Running /\ feed[e] = "on"
    /\ LET n == FrameTopic(e, f) IN
       IF n \in DOMAIN topicMap[e] THEN Update(topicMap[e][n], f) ELSE UNCHANGED received
    /\ UNCHANGED <<main, mode, ctx, armed, exit, gateway, topicMap, feed, topicVars, waitVars>>

(* The channels close when the context is done. *)
FeedCloses(e) ==
    /\ Running /\ feed[e] = "on" /\ ctx = "done"
    /\ feed' = [feed EXCEPT ![e] = "closed"]
    /\ UNCHANGED <<main, mode, ctx, armed, exit, gateway, topicMap, topicVars, received, waitVars>>
-----------------------------------------------------------------------------
(* IsReady of a trade list: it has a time of its last message. *)
TradeIsReady(i) == received[i] >= 1

(* IsReady of an order book: it has best levels, and those before, which   *)
(* the second message sets.                                                *)
BookIsReady(i) == received[i] >= 2

(* IsReady of a quote: the same. *)
QuoteIsReady(i) == received[i] >= 2

IsReady(i) ==
    CASE i.kind = "trade" -> TradeIsReady(i)
      [] i.kind = "book"  -> BookIsReady(i)
      [] i.kind = "quote" -> QuoteIsReady(i)

(* IsEverythingReady of CoinEx asks all insights, ... *)
CoinExIsReady ==
    /\ \A i \in Kind("coinex", "trade") : TradeIsReady(i)
    /\ \A i \in Kind("coinex", "book") : BookIsReady(i)
    /\ \A i \in Kind("coinex", "quote") : QuoteIsReady(i)

(* ... that of Bybit not the trades. *)
BybitIsReady ==
    /\ \A i \in Kind("bybit", "book") : BookIsReady(i)
    /\ \A i \in Kind("bybit", "quote") : QuoteIsReady(i)

IsEverythingReady(e) == IF e = "coinex" THEN CoinExIsReady ELSE BybitIsReady

(* The main goroutine has set up every exchange and waits. *)
WaitForInsights ==
    /\ Running /\ main = "setup" /\ \A e \in Exchanges : gateway[e] = "started"
    /\ main' = "wait"
    /\ UNCHANGED <<mode, ctx, armed, exit, gateway, topicMap, feedVars, waitVars>>

(* A round: after the pause it asks each exchange, in any order, ... *)
WaitRound ==
    /\ Running /\ main = "wait"
    /\ main' = "sweep" /\ sweep' = Exchanges
    /\ UNCHANGED <<mode, ctx, armed, exit, gateway, topicMap, feedVars, readyStates>>

BadUpdateInsReadyStates(e) ==   \* what was not ready before stays so
    /\ Running /\ main = "sweep" /\ e \in sweep
    /\ readyStates' = [readyStates EXCEPT ![e] = @ /\ IsEverythingReady(e)]
    /\ sweep' = sweep \ {e}
    /\ UNCHANGED <<main, mode, ctx, armed, exit, gateway, topicMap, feedVars>>

updateInsReadyStates(e) ==
    /\ Running /\ main = "sweep" /\ e \in sweep
    /\ readyStates' = [readyStates EXCEPT ![e] = IsEverythingReady(e)]
    /\ sweep' = sweep \ {e}
    /\ UNCHANGED <<main, mode, ctx, armed, exit, gateway, topicMap, feedVars>>

BadEndRound ==   \* the wait ends with the first exchange
    /\ Running /\ main = "sweep" /\ sweep = {}
    /\ main' = IF \E e \in Exchanges : readyStates[e] THEN "running" ELSE "wait"
    /\ UNCHANGED <<mode, ctx, armed, exit, gateway, topicMap, feedVars, waitVars>>

(* ... and ends the wait if all were ready.  It does not look at Ctx.      *)
EndRound ==
    /\ Running /\ main = "sweep" /\ sweep = {}
    /\ main' = IF \A e \in Exchanges : readyStates[e] THEN "running" ELSE "wait"
    /\ UNCHANGED <<mode, ctx, armed, exit, gateway, topicMap, feedVars, waitVars>>
-----------------------------------------------------------------------------
(* SIGINT or SIGTERM: the context is cancelled and a timer of 10 s is set. *)
Signal ==
    /\ Running /\ ctx # "none" /\ armed = "no"
    /\ ctx' = "done" /\ armed' = main
    /\ UNCHANGED <<main, mode, exit, gateway, topicMap, feedVars, waitVars>>

BadForceShutdown == FALSE /\ UNCHANGED startupVars   \* there is no timer

(* The timer runs out.  A main goroutine that was in WaitForCtxDone has    *)
(* returned by then: its grace period is 3 s.                              *)
ForceShutdown ==
    /\ Running /\ armed \notin {"no", "running", "grace"}
    /\ exit' = "forced"
    /\ UNCHANGED <<main, mode, ctx, armed, gateway, topicMap, feedVars, waitVars>>

(* The configuration's watcher loses its file and cancels the context.     *)
WatcherFails ==
    /\ Running /\ mode \in {"strategy", "curator"} /\ ctx = "live"
    /\ ctx' = "done"
    /\ UNCHANGED <<main, mode, armed, exit, gateway, topicMap, feedVars, waitVars>>

(* WaitForCtxDone: the context is done, then the grace period, then main   *)
(* returns.                                                                *)
WaitForCtxDone ==
    /\ Running /\ main = "running" /\ ctx = "done"
    /\ main' = "grace"
    /\ UNCHANGED <<mode, ctx, armed, exit, gateway, topicMap, feedVars, waitVars>>

MainReturns ==
    /\ Running /\ main = "grace"
    /\ exit' = "clean"
    /\ UNCHANGED <<main, mode, ctx, armed, gateway, topicMap, feedVars, waitVars>>
-----------------------------------------------------------------------------
MainStep ==
    \/ \E m \in Modes : InitAndStart(m) \/ InitPanics(m)
    \/ \E e \in Exchanges : InitGatewayManager(e) \/ InitInsights(e) \/ StartGateway(e)
    \/ WaitForInsights \/ WaitRound
    \/ \E e \in Exchanges : updateInsReadyStates(e)
    \/ EndRound \/ WaitForCtxDone \/ MainReturns

FeedStep(e) == FeedStarts(e) \/ FeedFails(e) \/ FeedCloses(e)

StartupNext ==
    \/ MainStep
    \/ \E e \in Exchanges : FeedStep(e)
    \/ \E e \in Exchanges : \E r \in requests[e], ok \in BOOLEAN : HandleSubscribeResp(e, r, ok)
    \/ \E e \in Exchanges : \E f \in Frames(e) : HandleTopicMessage(e, f)
    \/ Signal \/ ForceShutdown \/ WatcherFails

StartupSpec == StartupInit /\ [][StartupNext]_startupVars

(* The main goroutine, the feeds and the timer go on; an exchange answers  *)
(* requests and sends whole frames of the topics it has accepted.  Nothing *)
(* is assumed of signals and the watcher.                                  *)
FairSpec ==
    /\ StartupSpec
    /\ WF_startupVars(MainStep)
    /\ \A e \in Exchanges : WF_startupVars(FeedStep(e))
    /\ \A e \in Exchanges : WF_startupVars(\E r \in requests[e], ok \in BOOLEAN : HandleSubscribeResp(e, r, ok))
    /\ \A i \in Insights :
          WF_startupVars(/\ TopicName(i) \in subscribed[i.ex]
                  /\ HandleTopicMessage(i.ex, [topic |-> TopicName(i), whole |-> TRUE]))
    /\ WF_startupVars(ForceShutdown)
-----------------------------------------------------------------------------
(* Type invariant. *)
StartupTypeOK ==
    /\ main \in {"start", "setup", "wait", "sweep", "running", "grace"}
    /\ mode \in Modes \union {"none"} /\ ctx \in {"none", "live", "done"}
    /\ armed \in {"no", "setup", "wait", "sweep", "running", "grace"}
    /\ exit \in {"no", "clean", "forced", "panic"}
    /\ gateway \in [Exchanges -> {"none", "new", "set", "started"}]
    /\ \A e \in Exchanges :
          /\ DOMAIN topicMap[e] \subseteq Names(Of(e)) /\ \A n \in DOMAIN topicMap[e] : topicMap[e][n] \in Of(e)
          /\ requests[e] \subseteq SUBSET Names(Of(e))
          /\ subscribed[e] \union refused[e] \subseteq Names(Of(e))
    /\ feed \in [Exchanges -> {"off", "on", "closed"}]
    /\ received \in [Insights -> 0 .. 2]
    /\ readyStates \in [Exchanges -> BOOLEAN] /\ sweep \subseteq Exchanges

(* WaitForInsightsToBeReady "blocks until all registered Insights report   *)
(* ready": a strategy that runs never meets an insight without its data,   *)
(* of any exchange.  The exception is the code's: nobody asks the trades   *)
(* of Bybit.                                                               *)
ReadyWhenRunning ==
    main \in {"running", "grace"} =>
        \A i \in Insights : (i.ex = "bybit" /\ i.kind = "trade") \/ IsReady(i)

(* Two insights of an exchange may have one topic, as a book of depth 1    *)
(* and a quote of a symbol have on Bybit: one of them takes it.            *)
Shared(i) == \E j \in Of(i.ex) : j # i /\ TopicName(j) = TopicName(i)

(* The feed has asked for the topic of an insight once, and a frame of it  *)
(* is handed to that insight, unless another one has its name.             *)
TopicIsSet(e, i) ==
    LET n == TopicName(i)
        t == FrameTopic(e, [topic |-> n, whole |-> TRUE])
    IN
    /\ Cardinality({r \in requests[e] : n \in r})
         + Cardinality({n} \intersect subscribed[e]) + Cardinality({n} \intersect refused[e]) = 1
    /\ t \in DOMAIN topicMap[e] /\ (topicMap[e][t] = i \/ Shared(i))

(* SetTopics sets "each topic" on the managers: a feed that is connected   *)
(* has asked for the topic of every insight, once, and hands on its frames.*)
AllTopicsSet == \A e \in Exchanges : feed[e] # "off" => \A i \in Of(e) : TopicIsSet(e, i)

(* The wait ends: with the strategy running, unless the process is told to *)
(* stop or dies first, or an exchange has refused a topic (which is logged *)
(* and not tried again).  It need not end when two insights share a topic: *)
(* the data of both go to one, and a book or quote that readiness asks for *)
(* never gets any.                                                         *)
WaitEnds ==
    (main = "wait") ~> \/ main = "running" \/ ctx = "done" \/ ~Running
                       \/ \E e \in Exchanges : refused[e] # {}
                       \/ \E i \in Insights : i.kind # "trade" /\ Shared(i)

(* The process ends once a signal has cancelled the context, whatever main *)
(* is doing, and once the watcher has, if main has come to WaitForCtxDone. *)
(* (A main goroutine that still waits for the insights when the watcher    *)
(* fails does not notice: see the divergences in the README.)              *)
Stops ==
    (ctx = "done" /\ (armed # "no" \/ main \in {"running", "grace"})) ~> ~Running
=============================================================================
