--------------------------- MODULE GatewayProofs ----------------------------
(***************************************************************************)
(* Proofs about the parts of a gateway.                                    *)
(*                                                                         *)
(* Channel, for any number of faults, pings and retries, and so for any    *)
(* number of connections.  Two facts carry the proof.  From the dial to    *)
(* the subscription reconnectSigChan is empty (Emptied): Reconnect drops   *)
(* the signals, and nothing but the select loop sends one.  And a          *)
(* goroutine that hands a message to the health checker or the author of a *)
(* connection finds it ended only when that connection was given up        *)
(* (Orderly): the author answers one request at a time.                    *)
(*                                                                         *)
(* Dedup, for any channels, messages and times to live: redundant channels *)
(* process no message in time twice, and discard none that nobody          *)
(* processes.                                                              *)
(*                                                                         *)
(* Agent, for any capacities, orders and calls: no window of a second has  *)
(* more units than the capacity, because what it let through still sleeps. *)
(***************************************************************************)
EXTENDS Channel, Dedup, Agent, FiniteSetTheorems, TLAPS

HasAnswer(l) == l.recv \in {"authOK", "authBad"}

(* Of one connection.  The checker ends only when it is cancelled; the     *)
(* author has no request outstanding unless it waits for the answer, and   *)
(* then one at most; it tries again less than NumOfRetry times.            *)
Orderly(l) ==
    /\ l.chk = "done" => ~l.live
    /\ l.auth \in {"none", "retry", "err"} => l.asks = 0 /\ ~HasAnswer(l)
    /\ l.auth = "done" => ~l.live \/ (l.asks = 0 /\ ~HasAnswer(l))
    /\ l.auth = "wait" /\ HasAnswer(l) => l.asks = 0
    /\ l.auth = "retry" => l.retries < NumOfRetry

(* There is a connection wherever Start uses c.conn. *)
Dialed ==
    pc \in {"listen", "subscribe", "select", "sleep", "stopped"} \/ status # "Unknown"
        => links # <<>>

Emptied == pc \in {"idle", "dial", "listen", "subscribe"} => sigs = 0

(* The goroutines of a connection just dialed are not started yet. *)
NotStarted(l) == l.chk = "none" /\ l.auth = "none"

Inv ==
    /\ TypeOK
    /\ Dialed /\ Emptied
    /\ pc = "listen" => NotStarted(conn)
    /\ \A g \in DOMAIN links : Orderly(links[g])
    /\ ConnectedIsSettled /\ PanicsOnOldOnly
-----------------------------------------------------------------------------
(* The channel before Start. *)
LEMMA InitInv == Init => Inv
<1> SUFFICES ASSUME Init PROVE Inv
    BY Zenon
<1>1. scope \in Scopes /\ MaxFaults[scope] \in Nat
    BY ChannelAssumption, Zenon DEF Init
<1>2. sigs \in 0 .. SigCap /\ faults \in 0 .. MaxFaults[scope]
    BY <1>1, ChannelAssumption DEF Init
<1>3. isRunning = FALSE /\ ctxDone = FALSE /\ crashed = FALSE /\ links = <<>>
    BY Zenon DEF Init
<1>4. <<>> \in Seq(Link)
    OBVIOUS
<1>5. {isRunning, ctxDone, crashed} \subseteq BOOLEAN
    BY <1>3, Zenon
<1>6. TypeOK
    BY <1>1, <1>2, <1>3, <1>4, <1>5, Zenon DEF Init, TypeOK
<1> QED
    BY <1>6 DEF Init, Inv, Dialed, Emptied, ConnectedIsSettled, PanicsOnOldOnly

(* The types of the connections depend on the scope, which is fixed. *)
LEMMA SameLinks == scope' = scope => Link' = Link
BY Zenon DEF Link

(* The connections as a sequence, and the current one. *)
LEMMA LinksTyped ==
    ASSUME TypeOK
    PROVE /\ cur \in Nat /\ DOMAIN links = 1 .. cur
          /\ \A g \in DOMAIN links : links[g] \in Link
          /\ links # <<>> => cur \in DOMAIN links
BY DEF TypeOK, cur

(* One connection changes in an orderly way. *)
LEMMA LinkChanged ==
    ASSUME TypeOK, \A g \in DOMAIN links : Orderly(links[g]),
           NEW g \in DOMAIN links, NEW l \in Link, Orderly(l),
           links' = [links EXCEPT ![g] = l], scope' = scope
    PROVE /\ links' \in Seq(Link') /\ DOMAIN links' = DOMAIN links /\ links' # <<>>
          /\ cur' = cur /\ conn' = (IF g = cur THEN l ELSE conn)
          /\ \A k \in DOMAIN links' : Orderly(links'[k])
<1>1. links \in Seq(Link) /\ DOMAIN links = 1 .. Len(links) /\ Len(links) \in Nat
    BY DEF TypeOK
<1>2. links' \in Seq(Link) /\ Len(links') = Len(links) /\ DOMAIN links' = DOMAIN links
    BY <1>1
<1>3. \A k \in DOMAIN links : links'[k] = IF k = g THEN l ELSE links[k]
    BY <1>1, Zenon
<1>4. Len(links) \in DOMAIN links
    BY <1>1
<1> QED
    BY <1>1, <1>2, <1>3, <1>4, SameLinks DEF cur, conn

(* A goroutine of connection g leaves Start's variables alone. *)
LEMMA GoroutineKeeps ==
    ASSUME Inv, ~crashed, NEW g \in DOMAIN links, NEW l \in Link, Orderly(l), Becomes(g, l),
           NotStarted(links[g]) => NotStarted(l),
           UNCHANGED <<scope, mainVars, crashed>>, faults' \in 0 .. MaxFaults[scope]
    PROVE Inv'
<1>1. /\ links' \in Seq(Link') /\ DOMAIN links' = DOMAIN links /\ links' # <<>>
      /\ cur' = cur /\ conn' = (IF g = cur THEN l ELSE conn)
      /\ \A k \in DOMAIN links' : Orderly(links'[k])
    BY LinkChanged, Zenon DEF Inv, Becomes
<1>2. TypeOK'
    BY <1>1, Zenon DEF Inv, TypeOK, mainVars
<1>3. Dialed' /\ Emptied' /\ ConnectedIsSettled'
    BY <1>1, Zenon DEF Inv, Dialed, Emptied, ConnectedIsSettled, mainVars
<1>4. pc' = "listen" => NotStarted(conn')
    BY <1>1, Zenon DEF Inv, mainVars, conn
<1>5. PanicsOnOldOnly'
    BY Zenon DEF PanicsOnOldOnly
<1> QED
    BY <1>1, <1>2, <1>3, <1>4, <1>5, Zenon DEF Inv

(* A fault is counted within its bound. *)
LEMMA FaultCounted == TypeOK /\ (Fault \/ UNCHANGED faults) => faults' \in 0 .. MaxFaults[scope]
<1>1. TypeOK => faults \in 0 .. MaxFaults[scope] /\ MaxFaults[scope] \in Nat
    BY ChannelAssumption, Zenon DEF TypeOK
<1> QED
    BY <1>1 DEF Fault

(* What is known of connection g when one of its goroutines runs. *)
LEMMA LinkKnown ==
    ASSUME Inv, NEW g \in DOMAIN links
    PROVE  /\ links[g] \in Link /\ Orderly(links[g])
           /\ links[g].pings \in Nat /\ links[g].pings <= MaxPings[scope]
           /\ links[g].retries \in Nat /\ links[g].retries <= NumOfRetry
           /\ MaxPings[scope] \in Nat /\ NumOfRetry \in Nat
<1>1. links[g] \in Link /\ Orderly(links[g])
    BY LinksTyped, Zenon DEF Inv
<1>2. MaxPings[scope] \in Nat /\ NumOfRetry \in Nat
    BY ChannelAssumption, Zenon DEF Inv, TypeOK
<1>3. links[g].pings \in 0 .. MaxPings[scope] /\ links[g].retries \in 0 .. NumOfRetry
    BY <1>1, Zenon DEF Link
<1> QED
    BY <1>1, <1>2, <1>3

(* The receiver: it reads what the peer sent and hands it over.  A panic    *)
(* is a pong for a checker, or an answer for an author, that has ended.     *)
LEMMA ReceiverKeeps ==
    ASSUME Inv, ~crashed, NEW g \in DOMAIN links, Receiver(g), scope' = scope
    PROVE  Inv'
<1>0. /\ links[g] \in Link /\ Orderly(links[g])
      /\ links[g].pings \in Nat /\ links[g].pings <= MaxPings[scope]
      /\ links[g].retries \in Nat /\ links[g].retries <= NumOfRetry
      /\ MaxPings[scope] \in Nat /\ NumOfRetry \in Nat
    BY LinkKnown, Zenon
<1>1. CASE ReadPong(g)
  <2> DEFINE l == [links[g] EXCEPT !.recv = "pong", !.pings = @ - 1]
  <2>1. Orderly(l) /\ (NotStarted(links[g]) => NotStarted(l))
      BY <1>0, Zenon DEF Link, Orderly, HasAnswer, NotStarted
  <2>2. links[g].pings > 0 /\ Becomes(g, l) /\ UNCHANGED <<mainVars, crashed, faults>>
      BY <1>1, Zenon DEF ReadPong
  <2>3. links[g].pings - 1 \in 0 .. MaxPings[scope]
      BY <1>0, <2>2
  <2>4. l \in Link
      BY <1>0, <2>3, Zenon DEF Link
  <2> QED
      BY <2>1, <2>2, <2>4, GoroutineKeeps, FaultCounted, Zenon DEF Inv
<1>2. CASE ReadAuth(g)
  <2>1. PICK a \in {"authOK", "authBad"} : Becomes(g, [links[g] EXCEPT !.recv = a, !.asks = 0])
      BY <1>2, Zenon DEF ReadAuth
  <2> DEFINE l == [links[g] EXCEPT !.recv = a, !.asks = 0]
  <2>2. l \in Link
    <3>1. 0 \in 0 .. 1
        OBVIOUS
    <3> QED
        BY <1>0, <2>1, <3>1, Zenon DEF Link
  <2>3. Orderly(l) /\ (NotStarted(links[g]) => NotStarted(l))
      BY <1>0, <1>2 DEF ReadAuth, Link, Orderly, HasAnswer, NotStarted
  <2>4. UNCHANGED <<mainVars, crashed>> /\ (Fault \/ UNCHANGED faults)
      BY <1>2, Zenon DEF ReadAuth
  <2> QED
      BY <2>1, <2>2, <2>3, <2>4, GoroutineKeeps, FaultCounted, Zenon DEF Inv
<1>3. CASE ReadError(g)
  <2> DEFINE l == [links[g] EXCEPT !.recv = "err"]
  <2>1. l \in Link /\ Orderly(l) /\ (NotStarted(links[g]) => NotStarted(l))
      BY <1>0, Zenon DEF Link, Orderly, HasAnswer, NotStarted
  <2>2. Becomes(g, l) /\ UNCHANGED <<mainVars, crashed>> /\ (Fault \/ UNCHANGED faults)
      BY <1>3, Zenon DEF ReadError
  <2> QED
      BY <2>1, <2>2, GoroutineKeeps, FaultCounted, Zenon DEF Inv
<1>4. ASSUME Panic, links[g].recv \in {"pong", "authOK", "authBad"}, ~links[g].live PROVE Inv'
  <2>1. UNCHANGED <<scope, pc, isRunning, status, sigs, ctxDone, links, faults>> /\ crashed' = TRUE
      BY <1>4, Zenon DEF Panic, mainVars
  <2>2. Link' = Link
      BY SameLinks, Zenon
  <2>3. TypeOK'
      BY <2>1, <2>2, Zenon DEF Inv, TypeOK
  <2>4. PanicsOnOldOnly'
      BY <1>4, <2>1, Zenon DEF PanicsOnOldOnly
  <2> QED
      BY <2>1, <2>3, <2>4, Zenon DEF Inv, Dialed, Emptied, ConnectedIsSettled, conn, cur
<1>5. CASE HandPong(g)
  <2>1. CASE links[g].chk = "done" /\ Panic
      BY <1>0, <1>4, <1>5, <2>1, Zenon DEF HandPong, Orderly
  <2>2. CASE links[g].chk = "run"
    <3> DEFINE l == [links[g] EXCEPT !.recv = "read", !.ponged = TRUE, !.fresh = TRUE]
    <3>1. l \in Link /\ Orderly(l) /\ (NotStarted(links[g]) => NotStarted(l))
        BY <1>0 DEF Link, Orderly, HasAnswer, NotStarted
    <3>2. Becomes(g, l) /\ UNCHANGED <<mainVars, crashed, faults>>
        BY <1>5, <2>2, Zenon DEF HandPong
    <3> QED
        BY <3>1, <3>2, GoroutineKeeps, FaultCounted, Zenon DEF Inv
  <2> QED
      BY <1>5, <2>1, <2>2, Zenon DEF HandPong
<1>6. CASE HandAuth(g)
  <2>1. CASE links[g].auth = "done" /\ Panic
      BY <1>0, <1>4, <1>6, <2>1, Zenon DEF HandAuth, Orderly, HasAnswer
  <2>2. CASE links[g].auth = "wait"
    <3> DEFINE a == CASE links[g].recv = "authOK" -> "wait"
                      [] links[g].recv = "authBad" /\ links[g].retries >= NumOfRetry -> "err"
                      [] OTHER -> "retry"
               l == [links[g] EXCEPT !.recv = "read", !.auth = a]
    <3>1. /\ links[g].recv = "authOK" \/ links[g].recv = "authBad"
          /\ links[g].asks = 0
        BY <1>0, <1>6, <2>2, Zenon DEF HandAuth, Orderly, HasAnswer
    <3>2. /\ a \in {"wait", "err", "retry"}
          /\ a = "retry" => ~(links[g].retries >= NumOfRetry)
        BY <3>1, Zenon
    <3>3. links[g].retries \in Nat /\ NumOfRetry \in Nat
        BY <1>0, ChannelAssumption, Zenon DEF Link
    <3>4. Becomes(g, l) /\ UNCHANGED <<mainVars, crashed, faults>>
        BY <1>6, <2>2, Zenon DEF HandAuth
    <3> HIDE DEF a
    <3>5. l \in Link
        BY <1>0, <3>2, Zenon DEF Link
    <3>6. Orderly(l) /\ (NotStarted(links[g]) => NotStarted(l))
        BY <1>0, <2>2, <3>1, <3>2, <3>3 DEF Link, Orderly, HasAnswer, NotStarted
    <3> QED
        BY <3>4, <3>5, <3>6, GoroutineKeeps, FaultCounted, Zenon DEF Inv
  <2> QED
      BY <1>6, <2>1, <2>2, Zenon DEF HandAuth
<1> QED
    BY <1>1, <1>2, <1>3, <1>5, <1>6, Zenon DEF Receiver

(* The health checker, the author and the network. *)
LEMMA OthersKeep ==
    ASSUME Inv, ~crashed, NEW g \in DOMAIN links, scope' = scope,
           Ping(g) \/ CheckerEnds(g) \/ AuthRetry(g) \/ AuthorEnds(g) \/ Breaks(g)
    PROVE  Inv'
<1>0. /\ links[g] \in Link /\ Orderly(links[g])
      /\ links[g].pings \in Nat /\ links[g].pings <= MaxPings[scope]
      /\ links[g].retries \in Nat /\ links[g].retries <= NumOfRetry
      /\ MaxPings[scope] \in Nat /\ NumOfRetry \in Nat
    BY LinkKnown, Zenon
<1>1. CASE Ping(g)
  <2>1. MaxPings[scope] \in Nat
      BY ChannelAssumption, Zenon DEF Inv, TypeOK
  <2>2. links[g].chk = "run" /\ UNCHANGED <<mainVars, crashed>> /\ (Fault \/ UNCHANGED faults)
      BY <1>1, Zenon DEF Ping
  <2>3. PICK c \in {"run", "alertPing", "alert"}, f \in BOOLEAN, n \in 0 .. MaxPings[scope] :
            Becomes(g, [links[g] EXCEPT !.chk = c, !.fresh = f, !.pings = n])
    <3>1. CASE Becomes(g, [links[g] EXCEPT !.chk = "alertPing"])
      <4>1. [links[g] EXCEPT !.chk = "alertPing"]
              = [links[g] EXCEPT !.chk = "alertPing", !.fresh = links[g].fresh,
                                 !.pings = links[g].pings]
          BY <1>0, Zenon DEF Link
      <4> QED
          BY <1>0, <3>1, <4>1, Zenon DEF Link
    <3>2. CASE ~Becomes(g, [links[g] EXCEPT !.chk = "alertPing"])
      <4> DEFINE c == IF links[g].ponged /\ ~links[g].fresh THEN "alert" ELSE "run"
                 n == IF links[g].conn = "open" /\ links[g].pings < MaxPings[scope]
                      THEN links[g].pings + 1 ELSE links[g].pings
      <4>1. Becomes(g, [links[g] EXCEPT !.chk = c, !.fresh = FALSE, !.pings = n])
          BY <1>1, <3>2, Zenon DEF Ping
      <4>2. c \in {"run", "alertPing", "alert"} /\ n \in 0 .. MaxPings[scope]
          BY <1>0, <2>1 DEF Link
      <4> HIDE DEF c, n
      <4> QED
          BY <4>1, <4>2, Zenon
    <3> QED
        BY <3>1, <3>2, Zenon
  <2> DEFINE l == [links[g] EXCEPT !.chk = c, !.fresh = f, !.pings = n]
  <2>4. l \in Link /\ Orderly(l) /\ (NotStarted(links[g]) => NotStarted(l))
      BY <1>0, <2>2, ZenonT(60) DEF Link, Orderly, HasAnswer, NotStarted
  <2> QED
      BY <2>2, <2>3, <2>4, GoroutineKeeps, FaultCounted, Zenon DEF Inv
<1>2. CASE CheckerEnds(g)
  <2> DEFINE l == [links[g] EXCEPT !.chk = "done"]
  <2>1. l \in Link /\ Orderly(l) /\ (NotStarted(links[g]) => NotStarted(l))
      BY <1>0, <1>2, Zenon DEF CheckerEnds, Link, Orderly, HasAnswer, NotStarted
  <2>2. Becomes(g, l) /\ UNCHANGED <<mainVars, crashed, faults>>
      BY <1>2, Zenon DEF CheckerEnds
  <2> QED
      BY <2>1, <2>2, GoroutineKeeps, FaultCounted, Zenon DEF Inv
<1>3. CASE AuthRetry(g)
  <2>1. PICK a \in {"wait", "err"} :
           Becomes(g, [links[g] EXCEPT !.auth = a, !.retries = @ + 1,
                                       !.asks = IF a = "wait" THEN 1 ELSE 0])
      BY <1>3, Zenon DEF AuthRetry
  <2> DEFINE l == [links[g] EXCEPT !.auth = a, !.retries = @ + 1,
                                   !.asks = IF a = "wait" THEN 1 ELSE 0]
  <2>2. links[g].auth = "retry" /\ UNCHANGED <<mainVars, crashed, faults>>
      BY <1>3, Zenon DEF AuthRetry
  <2>3. links[g].retries + 1 \in 0 .. NumOfRetry /\ ~HasAnswer(links[g])
      BY <1>0, <2>2, ChannelAssumption DEF Orderly, Link
  <2>4. l \in Link
    <3>1. (IF a = "wait" THEN 1 ELSE 0) \in 0 .. 1
        OBVIOUS
    <3> QED
        BY <1>0, <2>1, <2>3, <3>1, Zenon DEF Link
  <2>5. Orderly(l) /\ (NotStarted(links[g]) => NotStarted(l))
      BY <1>0, <2>2, <2>3, Zenon DEF Link, Orderly, HasAnswer, NotStarted
  <2> QED
      BY <2>1, <2>2, <2>4, <2>5, GoroutineKeeps, FaultCounted, Zenon DEF Inv
<1>4. CASE AuthorEnds(g)
  <2> DEFINE l == [links[g] EXCEPT !.auth = "done"]
  <2>1. l \in Link /\ Orderly(l) /\ (NotStarted(links[g]) => NotStarted(l))
      BY <1>0, <1>4, Zenon DEF AuthorEnds, Link, Orderly, HasAnswer, NotStarted
  <2>2. Becomes(g, l) /\ UNCHANGED <<mainVars, crashed, faults>>
      BY <1>4, Zenon DEF AuthorEnds
  <2> QED
      BY <2>1, <2>2, GoroutineKeeps, FaultCounted, Zenon DEF Inv
<1>5. CASE Breaks(g)
  <2>1. PICK c \in {"silent", "dead"} : Becomes(g, [links[g] EXCEPT !.conn = c])
      BY <1>5, Zenon DEF Breaks
  <2> DEFINE l == [links[g] EXCEPT !.conn = c]
  <2>2. l \in Link /\ Orderly(l) /\ (NotStarted(links[g]) => NotStarted(l))
      BY <1>0 DEF Link, Orderly, HasAnswer, NotStarted
  <2>3. UNCHANGED <<mainVars, crashed>> /\ Fault
      BY <1>5, Zenon DEF Breaks
  <2> QED
      BY <2>1, <2>2, <2>3, GoroutineKeeps, FaultCounted, Zenon DEF Inv
<1> QED
    BY <1>1, <1>2, <1>3, <1>4, <1>5, Zenon

(* Start's own steps on the current connection l: they leave the other      *)
(* connections alone.                                                       *)
LEMMA MainKeeps ==
    ASSUME Inv, ~crashed, links # <<>>, NEW l \in Link, Orderly(l),
           links' = [links EXCEPT ![cur] = l], UNCHANGED <<scope, ctxDone, crashed, faults>>,
           pc' \in {"subscribe", "select", "sleep", "stopped", "dial", "failed"},
           status' \in {"Unknown", "Connected", "Disconnected", "Reconnecting"},
           isRunning' \in BOOLEAN, sigs' \in 0 .. SigCap,
           Emptied', ConnectedIsSettled'
    PROVE Inv'
<1>1. cur \in DOMAIN links
    BY LinksTyped, Zenon DEF Inv
<1>2. /\ links' \in Seq(Link') /\ links' # <<>>
      /\ \A k \in DOMAIN links' : Orderly(links'[k])
    BY <1>1, LinkChanged, Zenon DEF Inv
<1>3. TypeOK'
    BY <1>2, Zenon DEF Inv, TypeOK
<1> QED
    BY <1>2, <1>3, Zenon DEF Inv, Dialed, PanicsOnOldOnly

(* An initAndListen that fails, at the dial or at the subscription: the     *)
(* first signal after the channel was emptied fits into it.                 *)
LEMMA FailedKeeps ==
    ASSUME Inv, ~crashed, pc \in {"dial", "subscribe"}, ReconnectFailed,
           UNCHANGED <<scope, isRunning, ctxDone, crashed>>, Fault \/ UNCHANGED faults
    PROVE Inv'
<1>0. sigs = 0 /\ faults' \in 0 .. MaxFaults[scope] /\ 1 \in 0 .. SigCap
    BY FaultCounted, ChannelAssumption DEF Inv, Emptied
<1>1. CASE status = "Unknown"
  <2>1. /\ pc' = "failed" /\ UNCHANGED <<status, sigs>>
        /\ links' = [g \in DOMAIN links |-> [links[g] EXCEPT !.live = FALSE]]
      BY <1>1, Zenon DEF ReconnectFailed
  <2>2. cur \in Nat /\ DOMAIN links = 1 .. cur /\ \A g \in DOMAIN links : links[g] \in Link
      BY LinksTyped, Zenon DEF Inv
  <2>3. ASSUME NEW g \in DOMAIN links
        PROVE [links[g] EXCEPT !.live = FALSE] \in Link /\ Orderly([links[g] EXCEPT !.live = FALSE])
    <3>1. links[g] \in Link /\ Orderly(links[g])
        BY <2>2, Zenon DEF Inv
    <3> QED
        BY <3>1 DEF Link, Orderly, HasAnswer
  <2>4. links' \in [1 .. cur -> Link]
      BY <2>1, <2>2, <2>3, Zenon
  <2>5. links' \in Seq(Link)
      BY <2>2, <2>4
  <2>6. DOMAIN links' = DOMAIN links /\ \A g \in DOMAIN links' : Orderly(links'[g])
      BY <2>1, <2>3, Zenon
  <2>7. TypeOK'
      BY <1>0, <2>1, <2>5, SameLinks, Zenon DEF Inv, TypeOK
  <2> QED
      BY <1>1, <2>1, <2>6, <2>7, Zenon
      DEF Inv, Dialed, Emptied, ConnectedIsSettled, PanicsOnOldOnly
<1>2. CASE status # "Unknown"
  <2>1. pc' = "select" /\ status' = "Disconnected" /\ sigs' = sigs + 1 /\ links' = links
      BY <1>2, Zenon DEF ReconnectFailed
  <2>2. sigs' \in 0 .. SigCap
      BY <1>0, <2>1
  <2>3. TypeOK'
      BY <1>0, <2>1, <2>2, SameLinks, Zenon DEF Inv, TypeOK
  <2> QED
      BY <1>2, <2>1, <2>3, Zenon DEF Inv, Dialed, Emptied, ConnectedIsSettled, PanicsOnOldOnly
<1> QED
    BY <1>1, <1>2, Zenon

(* Channel.Start. *)
LEMMA StartKeeps == ASSUME Inv, ~crashed, Main, scope' = scope PROVE Inv'
<1>0. /\ links # <<>> => /\ cur \in DOMAIN links /\ links[cur] \in Link /\ Orderly(links[cur])
                         /\ conn = links[cur]
      /\ sigs \in 0 .. SigCap /\ SigCap \in Nat
      /\ pc \in {"listen", "subscribe", "select", "sleep"} => links # <<>>
    BY LinksTyped, ChannelAssumption, Zenon DEF Inv, TypeOK, Dialed, conn
<1>1. CASE Start
  <2>1. /\ pc = "idle" /\ pc' = "dial" /\ isRunning' = TRUE
        /\ UNCHANGED <<status, sigs, links, ctxDone, crashed, faults>>
      BY <1>1, Zenon DEF Start
  <2>2. TypeOK'
      BY <2>1, SameLinks, Zenon DEF Inv, TypeOK
  <2> QED
      BY <2>1, <2>2, Zenon DEF Inv, Dialed, Emptied, ConnectedIsSettled, PanicsOnOldOnly
<1>2. CASE Dial
  <2>1. pc = "dial" /\ UNCHANGED <<isRunning, ctxDone, crashed>>
      BY <1>2, Zenon DEF Dial
  <2>2. CASE Fault /\ ReconnectFailed
      BY <2>1, <2>2, FailedKeeps, Zenon
  <2>3. CASE pc' = "listen" /\ links' = Append(links, NewLink) /\ UNCHANGED <<status, sigs, faults>>
    <3>1. MaxPings[scope] \in Nat /\ NumOfRetry \in Nat
        BY ChannelAssumption, Zenon DEF Inv, TypeOK
    <3>2. NewLink \in Link /\ Orderly(NewLink) /\ NotStarted(NewLink)
        BY <3>1 DEF NewLink, Link, Orderly, HasAnswer, NotStarted
    <3>3. links \in Seq(Link)
        BY Zenon DEF Inv, TypeOK
    <3> HIDE DEF NewLink
    <3>4. /\ links' \in Seq(Link) /\ Len(links') = Len(links) + 1 /\ Len(links) \in Nat
          /\ DOMAIN links' = 1 .. Len(links) + 1 /\ DOMAIN links = 1 .. Len(links)
          /\ \A g \in DOMAIN links : links'[g] = links[g]
          /\ links'[Len(links) + 1] = NewLink
        BY <2>3, <3>2, <3>3
    <3>5. \A g \in DOMAIN links' : Orderly(links'[g])
      <4> SUFFICES ASSUME NEW g \in DOMAIN links' PROVE Orderly(links'[g])
          BY Zenon
      <4>1. g \in DOMAIN links \/ g = Len(links) + 1
          BY <3>4
      <4> QED
          BY <3>2, <3>4, <4>1, Zenon DEF Inv
    <3>6. NotStarted(conn)'
        BY <3>2, <3>4, Zenon DEF conn, cur, NotStarted
    <3>7. TypeOK'
        BY <2>1, <2>3, <3>4, SameLinks, Zenon DEF Inv, TypeOK
    <3>8. Dialed' /\ Emptied' /\ ConnectedIsSettled' /\ PanicsOnOldOnly'
        BY <2>1, <2>3, <3>4 DEF Inv, Dialed, Emptied, ConnectedIsSettled, PanicsOnOldOnly
    <3> QED
        BY <3>5, <3>6, <3>7, <3>8, Zenon DEF Inv
  <2> QED
      BY <1>2, <2>2, <2>3, Zenon DEF Dial
<1>3. CASE Listen
  <2>1. /\ pc = "listen" /\ pc' = "subscribe" /\ NotStarted(conn)
        /\ UNCHANGED <<isRunning, status, sigs, ctxDone, crashed, faults>>
      BY <1>3, Zenon DEF Listen, Inv
  <2>2. PICK a \in {"none", "wait", "err"} :
           links' = [links EXCEPT ![cur].chk = "run", ![cur].auth = a,
                                  ![cur].asks = IF a = "wait" THEN 1 ELSE 0]
      BY <1>3, Zenon DEF Listen
  <2> DEFINE l == [links[cur] EXCEPT !.chk = "run", !.auth = a,
                                     !.asks = IF a = "wait" THEN 1 ELSE 0]
  <2>3. links' = [links EXCEPT ![cur] = l]
      BY <2>2, Zenon
  <2>4. l \in Link
    <3>1. (IF a = "wait" THEN 1 ELSE 0) \in 0 .. 1
        OBVIOUS
    <3> QED
        BY <1>0, <2>1, <2>2, <3>1, Zenon DEF Link
  <2>5. Orderly(l)
      BY <1>0, <2>1, <2>2, Zenon DEF Link, Orderly, HasAnswer, NotStarted
  <2>6. Emptied' /\ ConnectedIsSettled'
      BY <2>1, Zenon DEF Inv, Emptied, ConnectedIsSettled
  <2> HIDE DEF l
  <2> QED
      BY <1>0, <2>1, <2>3, <2>4, <2>5, <2>6, MainKeeps, Zenon DEF Inv, TypeOK
<1>4. CASE Subscribe
  <2>1. pc = "subscribe" /\ UNCHANGED <<isRunning, ctxDone, crashed, faults>>
      BY <1>4, Zenon DEF Subscribe
  <2>2. CASE ReconnectFailed
      BY <2>1, <2>2, FailedKeeps, Zenon
  <2>3. CASE pc' = "select" /\ status' = "Connected" /\ UNCHANGED <<sigs, links>>
    <3>1. links' = [links EXCEPT ![cur] = links[cur]]
        BY <1>0, <2>1, <2>3 DEF Inv, TypeOK
    <3>2. Emptied' /\ ConnectedIsSettled'
        BY <2>1, <2>3, Zenon DEF Inv, Emptied, ConnectedIsSettled
    <3> QED
        BY <1>0, <2>1, <2>3, <3>1, <3>2, MainKeeps, Zenon DEF Inv, TypeOK
  <2> QED
      BY <1>4, <2>2, <2>3, Zenon DEF Subscribe
<1>5. CASE Stop
  <2> DEFINE l == [links[cur] EXCEPT !.conn = "dead", !.live = FALSE]
  <2>1. /\ pc = "select" /\ pc' = "stopped" /\ isRunning' = FALSE
        /\ links' = [links EXCEPT ![cur] = l]
        /\ UNCHANGED <<status, sigs, ctxDone, crashed, faults>>
      BY <1>5, Zenon DEF Stop
  <2>2. l \in Link /\ Orderly(l)
      BY <1>0, <2>1, Zenon DEF Link, Orderly, HasAnswer
  <2>3. Emptied' /\ ConnectedIsSettled'
      BY <2>1, Zenon DEF Inv, Emptied, ConnectedIsSettled
  <2> HIDE DEF l
  <2> QED
      BY <1>0, <2>1, <2>2, <2>3, MainKeeps, Zenon DEF Inv, TypeOK
<1>6. ASSUME Disconnected, NEW l \in Link, Orderly(l), links' = [links EXCEPT ![cur] = l] PROVE Inv'
  <2>1. /\ pc = "select" /\ sigs < SigCap /\ sigs' = sigs + 1 /\ status' = "Disconnected"
        /\ UNCHANGED <<pc, isRunning, ctxDone, crashed, faults>>
      BY <1>6, Zenon DEF Disconnected
  <2>2. sigs' \in 0 .. SigCap /\ Emptied' /\ ConnectedIsSettled'
      BY <1>0, <2>1 DEF Emptied, ConnectedIsSettled
  <2> QED
      BY <1>0, <1>6, <2>1, <2>2, MainKeeps, Zenon DEF Inv, TypeOK
<1>7. CASE OnAlert
  <2>1. Disconnected /\ pc = "select" /\ conn.chk \in {"alertPing", "alert", "done"}
      BY <1>7, Zenon DEF OnAlert, Disconnected
  <2>2. PICK c \in {"alert", "run", "done"}, f \in BOOLEAN :
           /\ links' = [links EXCEPT ![cur] = [links[cur] EXCEPT !.chk = c, !.fresh = f]]
           /\ c = "done" => links[cur].chk = "done"
    <3> DEFINE c == CASE links[cur].chk = "alertPing" /\ conn.ponged /\ ~conn.fresh -> "alert"
                      [] links[cur].chk = "done" -> "done"
                      [] OTHER -> "run"
               f == IF conn.chk = "done" THEN links[cur].fresh ELSE FALSE
    <3>1. links' = [links EXCEPT ![cur] = [links[cur] EXCEPT !.chk = c, !.fresh = f]]
        BY <1>7, Zenon DEF OnAlert
    <3>2. c \in {"alert", "run", "done"} /\ (c = "done" => links[cur].chk = "done")
        BY <1>0, <2>1, Zenon
    <3>3. f \in BOOLEAN
        BY <1>0, <2>1, Zenon DEF Link
    <3> HIDE DEF c, f
    <3> QED
        BY <3>1, <3>2, <3>3, Zenon
  <2> DEFINE l == [links[cur] EXCEPT !.chk = c, !.fresh = f]
  <2>3. l \in Link /\ Orderly(l)
      BY <1>0, <2>1, <2>2, ZenonT(60) DEF Link, Orderly, HasAnswer
  <2> QED
      BY <1>6, <2>1, <2>2, <2>3, Zenon
<1>8. CASE OnErr
  <2> DEFINE l == [links[cur] EXCEPT !.recv = "done"]
  <2>1. Disconnected /\ pc = "select" /\ links' = [links EXCEPT ![cur] = l]
      BY <1>8, Zenon DEF OnErr, Disconnected
  <2>2. l \in Link /\ Orderly(l)
      BY <1>0, <2>1 DEF Link, Orderly, HasAnswer
  <2> QED
      BY <1>6, <2>1, <2>2, Zenon
<1>9. CASE OnAuthErr
  <2> DEFINE l == [links[cur] EXCEPT !.auth = "done"]
  <2>1. /\ Disconnected /\ pc = "select" /\ conn.auth \in {"err", "done"}
        /\ links' = [links EXCEPT ![cur] = l]
      BY <1>9, Zenon DEF OnAuthErr, Disconnected
  <2>2. l \in Link /\ Orderly(l)
      BY <1>0, <2>1 DEF Link, Orderly, HasAnswer
  <2> QED
      BY <1>6, <2>1, <2>2, Zenon
<1>10. CASE OnSignal
  <2>1. /\ pc = "select" /\ sigs > 0 /\ sigs' = sigs - 1 /\ pc' = "sleep"
        /\ UNCHANGED <<isRunning, status, links, ctxDone, crashed, faults>>
      BY <1>10, Zenon DEF OnSignal
  <2>2. links' = [links EXCEPT ![cur] = links[cur]]
      BY <1>0, <2>1 DEF Inv, TypeOK
  <2>3. sigs' \in 0 .. SigCap /\ Emptied' /\ ConnectedIsSettled'
      BY <1>0, <2>1 DEF Emptied, ConnectedIsSettled
  <2> QED
      BY <1>0, <2>1, <2>2, <2>3, MainKeeps, Zenon DEF Inv, TypeOK
<1>11. CASE Reconnect
  <2> DEFINE l == [links[cur] EXCEPT !.live = FALSE]
  <2>1. /\ pc = "sleep" /\ pc' = "dial" /\ status' = "Reconnecting" /\ sigs' = 0
        /\ links' = [links EXCEPT ![cur] = l]
        /\ UNCHANGED <<isRunning, ctxDone, crashed, faults>>
      BY <1>11, Zenon DEF Reconnect
  <2>2. l \in Link /\ Orderly(l)
      BY <1>0, <2>1, Zenon DEF Link, Orderly, HasAnswer
  <2>3. sigs' \in 0 .. SigCap /\ Emptied' /\ ConnectedIsSettled'
      BY <1>0, <2>1 DEF Emptied, ConnectedIsSettled
  <2> HIDE DEF l
  <2> QED
      BY <1>0, <2>1, <2>2, <2>3, MainKeeps, Zenon DEF Inv, TypeOK
<1> QED
    BY <1>1, <1>2, <1>3, <1>4, <1>5, <1>7, <1>8, <1>9, <1>10, <1>11, Zenon DEF Main

(* The invariant holds in every reachable state. *)
THEOREM Invariance == Spec => []Inv
<1>1. Inv /\ [Next]_vars => Inv'
  <2> SUFFICES ASSUME Inv, [Next]_vars PROVE Inv'
      BY Zenon
  <2>1. CASE Runs(Main)
      BY <2>1, StartKeeps, Zenon DEF Runs
  <2>2. ASSUME NEW g \in DOMAIN links,
               Runs(Receiver(g) \/ Ping(g) \/ CheckerEnds(g) \/ AuthRetry(g) \/ AuthorEnds(g)
                       \/ Breaks(g))
        PROVE Inv'
      BY <2>2, ReceiverKeeps, OthersKeep, Zenon DEF Runs
  <2>3. CASE Runs(Cancel)
    <3>1. /\ ctxDone' = TRUE
          /\ UNCHANGED <<scope, pc, isRunning, status, sigs, links, crashed, faults>>
        BY <2>3, Zenon DEF Runs, Cancel
    <3>2. TypeOK'
        BY <3>1, SameLinks, Zenon DEF Inv, TypeOK
    <3> QED
        BY <3>1, <3>2, Zenon DEF Inv, Dialed, Emptied, ConnectedIsSettled, PanicsOnOldOnly, conn, cur
  <2>4. CASE UNCHANGED vars
    <3>1. TypeOK'
        BY <2>4, SameLinks, Zenon DEF Inv, TypeOK, vars
    <3> QED
        BY <2>4, <3>1, Zenon DEF Inv, Dialed, Emptied, ConnectedIsSettled, PanicsOnOldOnly, conn, cur, vars
  <2> QED
      BY <2>1, <2>2, <2>3, <2>4, Zenon DEF Next
<1> QED
    BY <1>1, InitInv, PTL DEF Spec

(* A channel that reports Connected has no reconnect pending: Reconnect     *)
(* drops every signal of the connections before, and none is sent until     *)
(* the new one is subscribed.                                               *)
THEOREM ConnectedStaysSettled == Spec => []ConnectedIsSettled
<1>1. Inv => ConnectedIsSettled
    BY Zenon DEF Inv
<1> QED
    BY <1>1, Invariance, PTL

(* The process panics only because of a connection that was replaced or     *)
(* closed: on the current one the receiver always finds its health checker  *)
(* and its author.                                                          *)
THEOREM OnlyOldPanics == Spec => []PanicsOnOldOnly
<1>1. Inv => PanicsOnOldOnly
    BY Zenon DEF Inv
<1> QED
    BY <1>1, Invariance, PTL
-----------------------------------------------------------------------------
(* Dedup. *)

Claims(c, m) == at(c, "handle") /\ work[c].m = m

(* A message with this ID is processed, or about to be. *)
Stands(id) == \E n \in Msgs : MessageID(n) = id /\ (processed[n] # {} \/ \E c \in Channels : Claims(c, n))

(* What the cache remembers, and what was discarded, somebody processes. *)
NoGap == (\A id \in DOMAIN entries : Stands(id)) /\ (\A m \in dropped : Stands(MessageID(m)))

(* A copy is looked up with a time between its first arrival and now. *)
CopyInTime(c) ==
    work[c] # Idle =>
        /\ work[c].m \in DOMAIN first
        /\ first[work[c].m] <= work[c].t /\ work[c].t <= now
        /\ at(c, "look") \/ at(c, "renew") => key(c) # NoID
        /\ at(c, "renew") /\ OwnID(work[c].m) => work[c].m \in late

WorkInTime == \A c \in Channels : CopyInTime(c)

PastIsPast ==
    /\ \A m \in DOMAIN first : first[m] <= now
    /\ cleaner # Asleep => cleaner.now <= now

(* Of a message with an ID of its own that is not late: the cache entry is *)
(* not older than the first copy; the cleaner has it among the expired     *)
(* only after the time to live; and once a channel has claimed it, the     *)
(* entry stays for that time.                                              *)
Remembered ==
    \A m \in Msgs : OwnID(m) =>
        /\ MessageID(m) \in DOMAIN entries =>
              m \in DOMAIN first /\ first[m] <= entries[MessageID(m)] /\ entries[MessageID(m)] <= now
        /\ cleaner # Asleep /\ MessageID(m) \in cleaner.expired =>
              m \in DOMAIN first /\ now > first[m] + TTL
        /\ (processed[m] # {} \/ \E c \in Channels : Claims(c, m)) =>
              m \in DOMAIN first /\ (MessageID(m) \in DOMAIN entries \/ now > first[m] + TTL)

(* At most one claim. *)
Alone ==
    \A m \in Msgs \ late : OwnID(m) =>
        /\ \A c, d \in Channels : Claims(c, m) /\ Claims(d, m) => c = d
        /\ \A x, y \in processed[m] : x = y
        /\ processed[m] # {} => \A c \in Channels : ~Claims(c, m)

DedupInv == DedupTypeOK /\ NoGap /\ WorkInTime /\ PastIsPast /\ Remembered /\ Alone
-----------------------------------------------------------------------------
(* The exchange of a group does not change, and with it messages and IDs.  *)
LEMMA SameNames ==
  ASSUME gateway' = gateway
  PROVE  /\ Msgs' = Msgs /\ IDs' = IDs
         /\ \A m : MessageID(m)' = MessageID(m)
         /\ \A m : OwnID(m)' <=> OwnID(m)
  BY Zenon DEF Msgs, IDs, MessageID, OwnID

(* No step changes the exchange of the group. *)
LEMMA StepNames == [DedupNext]_dedupVars => gateway' = gateway
  BY Zenon DEF DedupNext, Receive, SetIfAbsent, Renew, Handle, Snapshot, Examine, BulkDelete, Tick, dedupVars

(* What is in the work of a channel that is not idle. *)
LEMMA WorkFields ==
  ASSUME DedupTypeOK, NEW c \in Channels
  PROVE  /\ work[c] = Idle <=> ~(at(c, "look") \/ at(c, "renew") \/ at(c, "handle"))
         /\ work[c] # Idle => /\ work[c].m \in Msgs /\ work[c].t \in Times
                              /\ work[c].at \in {"look", "renew", "handle"}
  BY DEF DedupTypeOK, Working, Idle, at

(* The type invariant of the channels' part, step by step. *)
LEMMA TypeStep == DedupTypeOK /\ WorkInTime /\ [DedupNext]_dedupVars => DedupTypeOK'
<1> SUFFICES ASSUME DedupTypeOK, WorkInTime, [DedupNext]_dedupVars PROVE DedupTypeOK'
    BY Zenon
<1>1. gateway' = gateway
    BY StepNames, Zenon
<1>2. Msgs' = Msgs /\ IDs' = IDs /\ \A x : MessageID(x)' = MessageID(x)
    BY <1>1, SameNames, Zenon
<1>3. Working' = Working /\ Cleaning' = Cleaning
    BY <1>2, Zenon DEF Working, Cleaning
<1>4. MaxTime \in Nat /\ now \in Nat /\ now <= MaxTime /\ Times = 0 .. MaxTime
    BY DedupAssumption DEF DedupTypeOK, Times
<1>5. \A x \in Msgs : MessageID(x) # NoID => MessageID(x) \in IDs
    BY Zenon DEF IDs
<1>6. CASE UNCHANGED dedupVars
    BY <1>2, <1>3, <1>6, Zenon DEF dedupVars, DedupTypeOK
<1>7. ASSUME NEW c \in Channels, NEW m \in Msgs, Receive(c, m) PROVE DedupTypeOK'
    <2>1. [m |-> m, t |-> now, at |-> IF MessageID(m) = NoID THEN "handle" ELSE "look"] \in Working
        BY Zenon DEF DedupTypeOK, Working
    <2>2. work' \in [Channels -> Working \union {Idle}]
        BY <1>7, <2>1, Zenon DEF Receive, DedupTypeOK
    <2>3. got' \in [Channels -> SUBSET Msgs]
        BY <1>7, Zenon DEF Receive, DedupTypeOK
    <2>4. DOMAIN first' \subseteq Msgs /\ \A x \in DOMAIN first' : first'[x] \in Times
        BY <1>7, Zenon DEF Receive, DedupTypeOK, Put
    <2> QED BY <1>2, <1>3, <1>7, <2>2, <2>3, <2>4, Zenon DEF Receive, DedupTypeOK
<1>8. ASSUME NEW c \in Channels, SetIfAbsent(c) \/ Renew(c) \/ Handle(c) PROVE DedupTypeOK'
    <2>1. work[c] # Idle /\ work[c] \in Working /\ work[c].m \in Msgs /\ work[c].t \in Times
        BY <1>8, WorkFields, Zenon DEF SetIfAbsent, Renew, Handle, DedupTypeOK, at
    <2>2. \A a \in {"look", "renew", "handle"} : [work[c] EXCEPT !.at = a] \in Working
        BY <2>1, Zenon DEF Working
    <2>3. work' = [work EXCEPT ![c] = Idle]
              \/ \E a \in {"look", "renew", "handle"} : work' = [work EXCEPT ![c] = [work[c] EXCEPT !.at = a]]
        BY <1>8, Zenon DEF SetIfAbsent, Occupied, Renew, Handle
    <2>4. work' \in [Channels -> Working \union {Idle}]
        BY <2>2, <2>3, Zenon DEF DedupTypeOK
    <2>5. late' \subseteq Msgs /\ dropped' \subseteq Msgs
        BY <1>8, <2>1, Zenon DEF SetIfAbsent, Occupied, Renew, Handle, Later, DedupTypeOK
    <2>6. entries' = entries \/ (entries' = Put(entries, key(c), work[c].t) /\ key(c) # NoID)
        BY <1>8, <2>1, Zenon DEF SetIfAbsent, Occupied, Renew, Handle, WorkInTime, CopyInTime
    <2>7. DOMAIN entries' \subseteq IDs /\ \A id \in DOMAIN entries' : entries'[id] \in Times
        BY <1>5, <2>1, <2>6, Zenon DEF Put, key, DedupTypeOK
    <2>8. processed' \in [Msgs -> SUBSET [c : Channels, t : Times]]
        BY <1>8, <2>1 DEF SetIfAbsent, Renew, Handle, DedupTypeOK
    <2> QED BY <1>2, <1>3, <1>8, <2>4, <2>5, <2>7, <2>8, Zenon DEF SetIfAbsent, Renew, Handle, DedupTypeOK
<1>9. CASE Snapshot
    <2>1. [now |-> now, keys |-> DOMAIN entries, expired |-> {}] \in Cleaning
        BY Zenon DEF Cleaning, DedupTypeOK
    <2> QED BY <1>2, <1>3, <1>9, <2>1, Zenon DEF Snapshot, DedupTypeOK
<1>10. ASSUME NEW id \in IDs, Examine(id) PROVE DedupTypeOK'
    <2>1. cleaner' \in Cleaning
        BY <1>10, Zenon DEF Examine, Cleaning, DedupTypeOK
    <2> QED BY <1>2, <1>3, <1>10, <2>1, Zenon DEF Examine, DedupTypeOK
<1>11. CASE BulkDelete
    BY <1>2, <1>3, <1>11, Zenon DEF BulkDelete, DedupTypeOK
<1>12. CASE Tick
    BY <1>2, <1>3, <1>4, <1>12 DEF Tick, DedupTypeOK
<1> QED BY <1>6, <1>7, <1>8, <1>9, <1>10, <1>11, <1>12, Zenon DEF DedupNext
-----------------------------------------------------------------------------
(* Only Receive, of a message without an ID, and the two steps that write  *)
(* the cache make a claim; only Handle ends one, by processing.            *)
LEMMA ClaimsStep ==
  ASSUME DedupTypeOK, [DedupNext]_dedupVars, NEW c \in Channels, NEW m
  PROVE  /\ Claims(c, m) => Claims(c, m)' \/ (Handle(c) /\ processed'[m] # {})
         /\ Claims(c, m)' => \/ Claims(c, m)
                             \/ MessageID(m) = NoID
                             \/ work[c].m = m /\ Renew(c)
                             \/ work[c].m = m /\ SetIfAbsent(c) /\ key(c) \notin DOMAIN entries
<1> USE DEF Claims, at
<1>1. UNCHANGED dedupVars => UNCHANGED <<work, processed>>
    BY Zenon DEF dedupVars
<1>2. ASSUME NEW d \in Channels, NEW n \in Msgs, Receive(d, n)
      PROVE  /\ Claims(c, m) => Claims(c, m)'
             /\ Claims(c, m)' => Claims(c, m) \/ (c = d /\ m = n /\ MessageID(m) = NoID)
    <2>1. /\ work[d] = Idle /\ UNCHANGED processed
          /\ work' = [work EXCEPT ![d] = [m |-> n, t |-> now,
                                          at |-> IF MessageID(n) = NoID THEN "handle" ELSE "look"]]
        BY <1>2, Zenon DEF Receive
    <2>2. ~Claims(d, m)
        BY <2>1 DEF Idle
    <2>3. CASE c # d
        BY <2>1, <2>3, Zenon DEF DedupTypeOK
    <2>4. CASE c = d
        BY <2>1, <2>2, <2>4, Zenon DEF DedupTypeOK
    <2> QED BY <2>1, <2>3, <2>4, Zenon
<1>3. ASSUME NEW d \in Channels, SetIfAbsent(d) \/ Renew(d)
      PROVE  /\ Claims(c, m) => Claims(c, m)'
             /\ Claims(c, m)' => \/ Claims(c, m)
                                 \/ /\ c = d /\ work[d].m = m
                                    /\ Renew(d) \/ (SetIfAbsent(d) /\ key(d) \notin DOMAIN entries)
    <2>1. /\ work[d].at \in {"look", "renew"} /\ UNCHANGED processed
          /\ \/ work' = [work EXCEPT ![d] = Idle] \/ work' = [work EXCEPT ![d].at = "renew"]
             \/ /\ work' = [work EXCEPT ![d].at = "handle"]
                /\ Renew(d) \/ (SetIfAbsent(d) /\ key(d) \notin DOMAIN entries)
        BY <1>3, Zenon DEF SetIfAbsent, Occupied, Renew
    <2>2. CASE c # d
        BY <2>1, <2>2, Zenon DEF DedupTypeOK
    <2>3. CASE c = d
        <3>1. work[d] \in Working
            BY <2>1 DEF DedupTypeOK, Idle
        <3> QED BY <2>1, <2>3, <3>1 DEF DedupTypeOK, Working, Idle
    <2> QED BY <2>1, <2>2, <2>3, Zenon
<1>4. ASSUME NEW d \in Channels, Handle(d)
      PROVE  /\ Claims(c, m)' => Claims(c, m)
             /\ Claims(c, m) => (c = d /\ processed'[m] # {}) \/ (c # d /\ Claims(c, m)')
    <2>1. /\ work[d].at = "handle" /\ work' = [work EXCEPT ![d] = Idle]
          /\ processed' = [processed EXCEPT ![work[d].m] = @ \union {[c |-> d, t |-> work[d].t]}]
        BY <1>4, Zenon DEF Handle
    <2>2. CASE c # d
        BY <2>1, <2>2, Zenon DEF DedupTypeOK
    <2>3. CASE c = d
        <3>1. work[d].m \in Msgs
            BY <2>1, WorkFields, Zenon DEF Idle
        <3> QED BY <2>1, <2>3, <3>1, Zenon DEF DedupTypeOK, Idle
    <2> QED BY <2>2, <2>3, Zenon
<1>5. ASSUME Snapshot \/ BulkDelete \/ Tick \/ \E id \in IDs : Examine(id)
      PROVE  UNCHANGED <<work, processed>>
    BY <1>5, Zenon DEF Snapshot, BulkDelete, Tick, Examine
<1>6. CASE UNCHANGED <<work, processed>>
    BY <1>6, Zenon
<1>7. CASE \E d \in Channels, n \in Msgs : Receive(d, n)
    BY <1>2, <1>7, Zenon
<1>8. CASE \E d \in Channels : SetIfAbsent(d) \/ Renew(d)
    BY <1>3, <1>8, Zenon
<1>9. CASE \E d \in Channels : Handle(d)
    BY <1>4, <1>9, Zenon
<1>10. \/ UNCHANGED dedupVars \/ \E d \in Channels : \E n \in Msgs : Receive(d, n)
       \/ \E d \in Channels : SetIfAbsent(d) \/ Renew(d) \/ Handle(d)
       \/ Snapshot \/ BulkDelete \/ Tick \/ \E id \in IDs : Examine(id)
    BY Zenon DEF DedupNext
<1> QED BY <1>1, <1>5, <1>6, <1>7, <1>8, <1>9, <1>10, Zenon

(* Handlers only add to what is processed. *)
LEMMA ProcessedStep ==
  ASSUME DedupTypeOK, [DedupNext]_dedupVars, NEW m \in Msgs
  PROVE  \/ processed'[m] = processed[m]
         \/ \E c \in Channels : /\ Handle(c) /\ Claims(c, m)
                                /\ processed'[m] = processed[m] \union {[c |-> c, t |-> work[c].t]}
<1>1. ASSUME NEW c \in Channels, Handle(c)
      PROVE  \/ processed'[m] = processed[m]
             \/ /\ Claims(c, m)
                /\ processed'[m] = processed[m] \union {[c |-> c, t |-> work[c].t]}
    BY <1>1, Zenon DEF Handle, Claims, DedupTypeOK
<1>2. \/ UNCHANGED processed \/ \E c \in Channels : Handle(c)
    BY Zenon DEF DedupNext, dedupVars, Receive, SetIfAbsent, Renew, Snapshot, Examine, BulkDelete, Tick
<1> QED BY <1>1, <1>2, Zenon

(* A channel that has handled its message claims none. *)
LEMMA HandleEnds ==
  ASSUME DedupTypeOK, NEW c \in Channels, Handle(c)
  PROVE  \A m : ~Claims(c, m)'
  BY Zenon DEF Handle, Claims, at, Idle, DedupTypeOK

(* So who stands for an ID does so for ever. *)
LEMMA StandsStep ==
  ASSUME DedupTypeOK, [DedupNext]_dedupVars, NEW id, Stands(id)
  PROVE  Stands(id)'
<1>1. Msgs' = Msgs /\ \A x : MessageID(x)' = MessageID(x)
    BY StepNames, SameNames, Zenon
<1>2. PICK n \in Msgs : MessageID(n) = id /\ (processed[n] # {} \/ \E c \in Channels : Claims(c, n))
    BY Zenon DEF Stands
<1>3. processed[n] # {} => processed'[n] # {}
    BY ProcessedStep, Zenon
<1>4. ASSUME NEW c \in Channels, Claims(c, n) PROVE processed'[n] # {} \/ Claims(c, n)'
    BY <1>4, ClaimsStep, Zenon
<1> QED BY <1>1, <1>2, <1>3, <1>4, Zenon DEF Stands

(* An entry is made by a copy about to be handled, and a copy is discarded *)
(* because of an entry: neither leaves a gap.                              *)
LEMMA NoGapStep == DedupTypeOK /\ NoGap /\ [DedupNext]_dedupVars => NoGap'
<1> SUFFICES ASSUME DedupTypeOK, NoGap, [DedupNext]_dedupVars PROVE NoGap'
    BY Zenon
<1>1. Msgs' = Msgs /\ \A x : MessageID(x)' = MessageID(x)
    BY StepNames, SameNames, Zenon
<1>2. \A id : Stands(id) => Stands(id)'
    BY StandsStep, Zenon
<1>3. (\A id \in DOMAIN entries : Stands(id)) /\ (\A m \in dropped : Stands(MessageID(m)))
    BY Zenon DEF NoGap
<1>4. CASE DOMAIN entries' \subseteq DOMAIN entries /\ UNCHANGED dropped
    BY <1>1, <1>2, <1>3, <1>4, Zenon DEF NoGap
<1>5. ASSUME NEW c \in Channels, SetIfAbsent(c) \/ Renew(c) PROVE NoGap'
    <2>1. work[c].m \in Msgs /\ work[c] \in Working
        BY <1>5, WorkFields, Zenon DEF SetIfAbsent, Renew, DedupTypeOK, at, Idle
    <2>2. CASE entries' = Put(entries, key(c), work[c].t) /\ work' = [work EXCEPT ![c].at = "handle"]
               /\ UNCHANGED dropped
        <3>1. PICK n \in Msgs : n = work[c].m
            BY <2>1, Zenon
        <3>2. ASSUME NEW id, id = key(c) PROVE Stands(id)'
            <4>1. Claims(c, n)' /\ MessageID(n)' = id
                BY <1>1, <2>1, <2>2, <3>1, <3>2, Zenon DEF Claims, at, DedupTypeOK, Working, key
            <4> QED BY <1>1, <4>1, Zenon DEF Stands
        <3>3. DOMAIN entries' = DOMAIN entries \union {key(c)}
            BY <2>2, Zenon DEF Put
        <3> QED BY <1>1, <1>2, <1>3, <2>2, <3>2, <3>3, Zenon DEF NoGap
    <2>3. CASE key(c) \in DOMAIN entries /\ UNCHANGED entries /\ dropped' \subseteq dropped \union {work[c].m}
        BY <1>1, <1>2, <1>3, <2>3, Zenon DEF NoGap, key
    <2> QED BY <1>5, <2>2, <2>3, Zenon DEF SetIfAbsent, Occupied, Renew
<1>6. \/ DOMAIN entries' \subseteq DOMAIN entries /\ UNCHANGED dropped
      \/ \E c \in Channels : SetIfAbsent(c) \/ Renew(c)
    BY Zenon DEF DedupNext, dedupVars, Receive, Handle, Snapshot, Examine, BulkDelete, Tick
<1> QED BY <1>4, <1>5, <1>6, Zenon
-----------------------------------------------------------------------------
(* The first copy keeps its time, and the clock does not go back. *)
LEMMA FirstStep ==
  ASSUME DedupTypeOK, PastIsPast, [DedupNext]_dedupVars
  PROVE  /\ now' \in Nat /\ now <= now'
         /\ \A m \in DOMAIN first : m \in DOMAIN first' /\ first'[m] = first[m]
         /\ \A m \in DOMAIN first' : first'[m] \in Nat /\ first'[m] <= now
         /\ late \subseteq late'
<1>1. now \in Nat /\ \A m \in DOMAIN first : first[m] \in Nat
    BY DedupAssumption, SMTT(30) DEF DedupTypeOK, Times
<1>2. \/ UNCHANGED first
      \/ \E m : m \notin DOMAIN first /\ first' = Put(first, m, now)
    BY Zenon DEF DedupNext, dedupVars, Receive, SetIfAbsent, Renew, Handle, Snapshot, Examine, BulkDelete, Tick
<1>3. UNCHANGED now \/ now' = now + 1
    BY Zenon DEF DedupNext, dedupVars, Receive, SetIfAbsent, Renew, Handle, Snapshot, Examine, BulkDelete, Tick
<1>4. late \subseteq late'
    BY Zenon DEF DedupNext, dedupVars, Receive, SetIfAbsent, Renew, Handle, Snapshot, Examine, BulkDelete, Tick, Later
<1>5. /\ \A m \in DOMAIN first : m \in DOMAIN first' /\ first'[m] = first[m]
      /\ \A m \in DOMAIN first' : first'[m] \in Nat /\ first'[m] <= now
    <2>1. CASE UNCHANGED first
        BY <1>1, <2>1, Zenon DEF PastIsPast
    <2>2. ASSUME NEW m, m \notin DOMAIN first, first' = Put(first, m, now)
          PROVE  /\ \A x \in DOMAIN first : x \in DOMAIN first' /\ first'[x] = first[x]
                 /\ \A x \in DOMAIN first' : first'[x] \in Nat /\ first'[x] <= now
        BY <1>1, <2>2 DEF Put, PastIsPast
    <2> QED BY <1>2, <2>1, <2>2, Zenon
<1> QED BY <1>1, <1>3, <1>4, <1>5

(* The times of copies, the cleaner and the cache agree with the clock: a  *)
(* copy that finds its entry expired comes after the time to live of the   *)
(* first copy.                                                             *)
LEMMA TimeStep ==
  ASSUME DedupTypeOK, WorkInTime, PastIsPast, Remembered, [DedupNext]_dedupVars
  PROVE  WorkInTime' /\ PastIsPast'
<1>1. Msgs' = Msgs /\ (\A x : MessageID(x)' = MessageID(x)) /\ (\A x : OwnID(x)' <=> OwnID(x))
    BY StepNames, SameNames, Zenon
<1>2. /\ now \in Nat /\ TTL \in Nat /\ \A m \in DOMAIN first : first[m] \in Nat
      /\ \A c \in Channels : work[c] # Idle => work[c].t \in Nat /\ work[c].m \in Msgs
      /\ \A id \in DOMAIN entries : entries[id] \in Nat
    BY DedupAssumption, WorkFields DEF DedupTypeOK, Times
<1>3. /\ now' \in Nat /\ now <= now' /\ late \subseteq late'
      /\ \A m \in DOMAIN first : m \in DOMAIN first' /\ first'[m] = first[m]
      /\ \A m \in DOMAIN first' : first'[m] \in Nat /\ first'[m] <= now
    BY FirstStep, Zenon
<1>4. PastIsPast'
    <2>1. \A m \in DOMAIN first' : first'[m] <= now'
        BY <1>2, <1>3
    <2>2. \/ cleaner' = Asleep
          \/ cleaner # Asleep /\ cleaner'.now = cleaner.now
          \/ cleaner'.now = now
        <3>1. ASSUME NEW id \in IDs, Examine(id) PROVE cleaner # Asleep /\ cleaner'.now = cleaner.now
            BY <3>1, Zenon DEF Examine, DedupTypeOK, Cleaning
        <3>2. Snapshot => cleaner'.now = now
            BY DEF Snapshot
        <3>3. BulkDelete => cleaner' = Asleep
            BY Zenon DEF BulkDelete
        <3>4. Snapshot \/ BulkDelete \/ (\E id \in IDs : Examine(id)) \/ UNCHANGED cleaner
            BY Zenon DEF DedupNext, dedupVars, Receive, SetIfAbsent, Renew, Handle, Tick
        <3> QED BY <3>1, <3>2, <3>3, <3>4, Zenon
    <2>3. cleaner # Asleep => cleaner.now \in Nat
        BY DedupAssumption DEF DedupTypeOK, Cleaning, Times
    <2> QED BY <1>2, <1>3, <2>1, <2>2, <2>3 DEF PastIsPast
<1>5. ASSUME NEW c \in Channels, work'[c] = work[c] \/ work'[c] = Idle PROVE CopyInTime(c)'
    <2>1. CASE work'[c] = Idle
        BY <2>1, Zenon DEF CopyInTime
    <2>2. CASE work'[c] = work[c] /\ work[c] # Idle
        <3>1. /\ work[c].m \in DOMAIN first /\ first[work[c].m] <= work[c].t /\ work[c].t <= now
              /\ at(c, "look") \/ at(c, "renew") => key(c) # NoID
              /\ at(c, "renew") /\ OwnID(work[c].m) => work[c].m \in late
            BY <2>2, Zenon DEF WorkInTime, CopyInTime
        <3>2. work[c].t <= now'
            BY <1>2, <1>3, <2>2, <3>1
        <3>3. (at(c, "look")' <=> at(c, "look")) /\ (at(c, "renew")' <=> at(c, "renew"))
            BY <2>2, Zenon DEF at
        <3>4. key(c)' = key(c) /\ (OwnID(work[c].m)' <=> OwnID(work[c].m))
            BY <2>2, StepNames, Zenon DEF key, MessageID, OwnID, Msgs
        <3> QED BY <1>3, <2>2, <3>1, <3>2, <3>3, <3>4, Zenon DEF CopyInTime
    <2> QED BY <1>5, <2>1, <2>2, Zenon
<1>6. ASSUME NEW c \in Channels, NEW m \in Msgs, Receive(c, m)
      PROVE  /\ work'[c].m = m /\ work'[c].t = now /\ m \in DOMAIN first'
             /\ work'[c].at = IF MessageID(m) = NoID THEN "handle" ELSE "look"
             /\ \A d \in Channels \ {c} : work'[d] = work[d]
    BY <1>6, Zenon DEF Receive, DedupTypeOK, Put
<1>7. ASSUME NEW c \in Channels, SetIfAbsent(c) \/ Renew(c)
      PROVE  /\ \A d \in Channels \ {c} : work'[d] = work[d]
             /\ work[c] # Idle
             /\ work'[c] = Idle \/ /\ work'[c].m = work[c].m /\ work'[c].t = work[c].t
                                   /\ \/ work'[c].at = "handle"
                                      \/ /\ work'[c].at = "renew" /\ key(c) # NoID
                                         /\ OwnID(work[c].m) => work[c].m \in late'
    <2>1. work[c] \in Working /\ work[c] # Idle
        BY <1>7 DEF SetIfAbsent, Renew, DedupTypeOK, at, Idle
    <2>2. \/ work' = [work EXCEPT ![c] = Idle]
          \/ work' = [work EXCEPT ![c].at = "handle"]
          \/ /\ work' = [work EXCEPT ![c].at = "renew"] /\ at(c, "look")
             /\ key(c) \in DOMAIN entries /\ work[c].t > entries[key(c)] + TTL
             /\ late' = Later(c)
        BY <1>7, Zenon DEF SetIfAbsent, Occupied, Renew
    <2>3. ASSUME key(c) \in DOMAIN entries, work[c].t > entries[key(c)] + TTL, OwnID(work[c].m),
                 late' = Later(c)
          PROVE  work[c].m \in late'
        <3>1. first[work[c].m] <= entries[key(c)] /\ work[c].t <= now /\ work[c].m \in DOMAIN first
            BY <1>2, <2>1, <2>3, Zenon DEF Remembered, WorkInTime, CopyInTime, key
        <3>2. now - first[work[c].m] > TTL
            BY <1>2, <2>1, <2>3, <3>1
        <3> QED BY <2>3, <3>2, Zenon DEF Later
    <2>4. at(c, "look") => key(c) # NoID
        BY <2>1, Zenon DEF WorkInTime, CopyInTime
    <2> QED BY <2>1, <2>2, <2>3, <2>4 DEF DedupTypeOK, Working
<1>8. ASSUME NEW c \in Channels, Handle(c)
      PROVE  \A d \in Channels : work'[d] = work[d] \/ work'[d] = Idle
    BY <1>8, Zenon DEF Handle, DedupTypeOK
<1>9. CASE \A c \in Channels : work'[c] = work[c] \/ work'[c] = Idle
    BY <1>4, <1>5, <1>9, Zenon DEF WorkInTime
<1>10. ASSUME NEW c \in Channels, NEW m \in Msgs, Receive(c, m) PROVE WorkInTime'
    <2>1. first'[m] <= now /\ now <= now'
        BY <1>3, <1>6, <1>10, Zenon
    <2>2. at(c, "look")' => key(c)' # NoID
        BY <1>1, <1>6, <1>10, Zenon DEF at, key
    <2>3. CopyInTime(c)'
        BY <1>6, <1>10, <2>1, <2>2, Zenon DEF CopyInTime, at
    <2> QED BY <1>5, <1>6, <1>10, <2>3, Zenon DEF WorkInTime
<1>11. ASSUME NEW c \in Channels, SetIfAbsent(c) \/ Renew(c) PROVE WorkInTime'
    <2>1. CASE work'[c] = Idle
        BY <1>5, <1>7, <1>11, <2>1, Zenon DEF WorkInTime
    <2>2. CASE work'[c] # Idle
        <3>1. work[c].m \in DOMAIN first /\ first[work[c].m] <= work[c].t /\ work[c].t <= now
            BY <1>7, <1>11, Zenon DEF WorkInTime, CopyInTime
        <3>2. work[c].t <= now'
            BY <1>2, <1>3, <1>7, <1>11, <3>1
        <3>3. PICK n : n = work[c].m
            BY Zenon
        <3>4. work'[c].m = n /\ (key(c) = MessageID(n)) /\ key(c)' = MessageID(n)
            BY <1>1, <1>7, <1>11, <2>2, <3>3, Zenon DEF key
        <3>5. /\ work'[c].at \in {"handle", "renew"} /\ work'[c].t = work[c].t
              /\ work'[c].at = "renew" => key(c) # NoID /\ (OwnID(n) => n \in late')
            BY <1>7, <1>11, <2>2, <3>3, Zenon
        <3>6. OwnID(work[c].m)' <=> OwnID(n)
            BY <3>4, StepNames, Zenon DEF OwnID, MessageID, Msgs
        <3>7. CopyInTime(c)'
            BY <1>3, <3>1, <3>2, <3>3, <3>4, <3>5, <3>6, Zenon DEF CopyInTime, at
        <3> QED BY <1>5, <1>7, <1>11, <3>7, Zenon DEF WorkInTime
    <2> QED BY <2>1, <2>2, Zenon
<1>12. \/ \E c \in Channels, m \in Msgs : Receive(c, m)
       \/ \E c \in Channels : SetIfAbsent(c) \/ Renew(c) \/ Handle(c)
       \/ UNCHANGED work
    BY Zenon DEF DedupNext, dedupVars, Snapshot, Examine, BulkDelete, Tick
<1> QED BY <1>4, <1>8, <1>9, <1>10, <1>11, <1>12, Zenon
-----------------------------------------------------------------------------
(* An entry is made by a copy, and removed after the time to live of the   *)
(* first copy.                                                             *)
LEMMA RememberedStep ==
  ASSUME DedupTypeOK, WorkInTime, PastIsPast, Remembered, [DedupNext]_dedupVars
  PROVE  Remembered'
<1>1. Msgs' = Msgs /\ (\A x : MessageID(x)' = MessageID(x)) /\ (\A x : OwnID(x)' <=> OwnID(x))
    BY StepNames, SameNames, Zenon
<1>2. /\ now \in Nat /\ TTL \in Nat /\ \A m \in DOMAIN first : first[m] \in Nat
      /\ \A id \in DOMAIN entries : entries[id] \in Nat
    BY DedupAssumption DEF DedupTypeOK, Times
<1>3. /\ now' \in Nat /\ now <= now'
      /\ \A m \in DOMAIN first : m \in DOMAIN first' /\ first'[m] = first[m]
    BY FirstStep, Zenon
<1> SUFFICES ASSUME NEW m \in Msgs, OwnID(m), NEW id, id = MessageID(m)
             PROVE  /\ id \in DOMAIN entries' =>
                          m \in DOMAIN first' /\ first'[m] <= entries'[id] /\ entries'[id] <= now'
                    /\ cleaner' # Asleep /\ id \in cleaner'.expired =>
                          m \in DOMAIN first' /\ now' > first'[m] + TTL
                    /\ (processed'[m] # {} \/ \E c \in Channels : Claims(c, m)') =>
                          m \in DOMAIN first' /\ (id \in DOMAIN entries' \/ now' > first'[m] + TTL)
    BY <1>1, Zenon DEF Remembered
<1>4. /\ id \in DOMAIN entries => m \in DOMAIN first /\ first[m] <= entries[id] /\ entries[id] <= now
      /\ cleaner # Asleep /\ id \in cleaner.expired => m \in DOMAIN first /\ now > first[m] + TTL
      /\ (processed[m] # {} \/ \E c \in Channels : Claims(c, m)) =>
              m \in DOMAIN first /\ (id \in DOMAIN entries \/ now > first[m] + TTL)
    BY Zenon DEF Remembered
<1>5. m \in DOMAIN first => m \in DOMAIN first' /\ first'[m] = first[m] /\ first[m] \in Nat
    BY <1>2, <1>3, Zenon
<1>6. m \in DOMAIN first /\ now > first[m] + TTL => now' > first'[m] + TTL
    BY <1>2, <1>3, <1>5
\* the entry of this ID, after a step, Zenon
<1>7. ASSUME NEW c \in Channels, SetIfAbsent(c) \/ Renew(c), entries' = Put(entries, key(c), work[c].t)
      PROVE  IF key(c) = id
             THEN /\ work[c].m = m /\ id \in DOMAIN entries' /\ entries'[id] = work[c].t
                  /\ m \in DOMAIN first /\ first[m] <= work[c].t /\ work[c].t <= now /\ work[c].t \in Nat
             ELSE id \in DOMAIN entries' => id \in DOMAIN entries /\ entries'[id] = entries[id]
    <2>1. work[c] # Idle /\ work[c].m \in Msgs /\ work[c].t \in Nat
        BY <1>7, WorkFields, DedupAssumption DEF SetIfAbsent, Renew, at, Idle, Times
    <2>2. key(c) = id => work[c].m = m
        BY <2>1, Zenon DEF key, OwnID
    <2>3. work[c].m \in DOMAIN first /\ first[work[c].m] <= work[c].t /\ work[c].t <= now
        BY <2>1, Zenon DEF WorkInTime, CopyInTime
    <2> QED BY <1>7, <2>1, <2>2, <2>3, Zenon DEF Put
<1>8. \/ UNCHANGED entries
      \/ \E c \in Channels : (SetIfAbsent(c) \/ Renew(c)) /\ entries' = Put(entries, key(c), work[c].t)
      \/ /\ BulkDelete /\ cleaner # Asleep
         /\ entries' = [x \in DOMAIN entries \ cleaner.expired |-> entries[x]]
    BY Zenon DEF DedupNext, dedupVars, Receive, SetIfAbsent, Occupied, Renew, Handle, Snapshot, Examine, BulkDelete, Tick
<1>9. id \in DOMAIN entries' =>
          m \in DOMAIN first' /\ first'[m] <= entries'[id] /\ entries'[id] <= now'
    <2>1. CASE id \in DOMAIN entries' => id \in DOMAIN entries /\ entries'[id] = entries[id]
        BY <1>2, <1>3, <1>4, <1>5, <2>1
    <2>2. ASSUME NEW c \in Channels, SetIfAbsent(c) \/ Renew(c), entries' = Put(entries, key(c), work[c].t)
          PROVE  id \in DOMAIN entries' =>
                    m \in DOMAIN first' /\ first'[m] <= entries'[id] /\ entries'[id] <= now'
        <3>1. CASE key(c) = id
            BY <1>2, <1>3, <1>5, <1>7, <2>2, <3>1
        <3>2. CASE key(c) # id
            BY <1>7, <2>1, <2>2, <3>2, Zenon
        <3> QED BY <3>1, <3>2, Zenon
    <2> QED BY <1>8, <2>1, <2>2, Zenon
<1>10. cleaner' # Asleep /\ id \in cleaner'.expired => m \in DOMAIN first' /\ now' > first'[m] + TTL
    <2>1. ASSUME NEW x \in IDs, Examine(x), id \in cleaner'.expired
          PROVE  m \in DOMAIN first /\ now > first[m] + TTL
        <3>1. /\ cleaner # Asleep
              /\ id \in cleaner.expired \/ (id \in DOMAIN entries /\ cleaner.now > entries[id] + TTL)
            BY <2>1, Zenon DEF Examine, DedupTypeOK, Cleaning
        <3>2. cleaner.now <= now /\ cleaner.now \in Nat
            BY <3>1, DedupAssumption DEF PastIsPast, DedupTypeOK, Cleaning, Times
        <3> QED BY <1>2, <1>4, <3>1, <3>2
    <2>2. Snapshot => cleaner'.expired = {}
        BY DEF Snapshot
    <2>3. BulkDelete => cleaner' = Asleep
        BY Zenon DEF BulkDelete
    <2>4. Snapshot \/ BulkDelete \/ (\E x \in IDs : Examine(x)) \/ UNCHANGED cleaner
        BY Zenon DEF DedupNext, dedupVars, Receive, SetIfAbsent, Renew, Handle, Tick
    <2> QED BY <1>4, <1>5, <1>6, <2>1, <2>2, <2>3, <2>4, Zenon
<1>11. m \in DOMAIN first /\ (id \in DOMAIN entries \/ now > first[m] + TTL) =>
          m \in DOMAIN first' /\ (id \in DOMAIN entries' \/ now' > first'[m] + TTL)
    <2>1. ASSUME id \in DOMAIN entries, id \notin DOMAIN entries' PROVE now > first[m] + TTL
        <3>1. \A c \in Channels : entries' # Put(entries, key(c), work[c].t)
            BY <2>1, Zenon DEF Put
        <3> QED BY <1>4, <1>8, <2>1, <3>1, Zenon
    <2> QED BY <1>5, <1>6, <2>1, Zenon
<1>12. ASSUME NEW c \in Channels, Claims(c, m)'
       PROVE  Claims(c, m) \/ (m \in DOMAIN first' /\ id \in DOMAIN entries')
    <2>1. MessageID(m) # NoID
        BY Zenon DEF OwnID
    <2>2. ASSUME work[c].m = m, Renew(c) \/ (SetIfAbsent(c) /\ key(c) \notin DOMAIN entries)
          PROVE  m \in DOMAIN first' /\ id \in DOMAIN entries'
        <3>1. entries' = Put(entries, key(c), work[c].t) /\ key(c) = id
            BY <2>2, Zenon DEF Renew, SetIfAbsent, Occupied, key
        <3> QED BY <1>5, <1>7, <2>2, <3>1, Zenon
    <2> QED BY <1>12, <2>1, <2>2, ClaimsStep, Zenon
<1>13. (processed'[m] # {} \/ \E c \in Channels : Claims(c, m)') =>
           m \in DOMAIN first' /\ (id \in DOMAIN entries' \/ now' > first'[m] + TTL)
    <2>1. processed'[m] # {} => processed[m] # {} \/ \E c \in Channels : Claims(c, m)
        BY ProcessedStep, Zenon
    <2> QED BY <1>4, <1>11, <1>12, <2>1, Zenon
<1> QED BY <1>9, <1>10, <1>13, Zenon

(* A second claim would need an entry that is gone, or has expired, within *)
(* the time to live of the first copy.                                     *)
LEMMA AloneStep ==
  ASSUME DedupTypeOK, WorkInTime, PastIsPast, Remembered, Alone, [DedupNext]_dedupVars
  PROVE  Alone'
<1>1. Msgs' = Msgs /\ (\A x : MessageID(x)' = MessageID(x)) /\ (\A x : OwnID(x)' <=> OwnID(x))
    BY StepNames, SameNames, Zenon
<1>2. now \in Nat /\ TTL \in Nat /\ (\A x \in DOMAIN first : first[x] \in Nat) /\ late \subseteq late'
    BY DedupAssumption, FirstStep DEF DedupTypeOK, Times
<1> SUFFICES ASSUME NEW m \in Msgs, m \notin late', OwnID(m)
             PROVE  /\ \A c, d \in Channels : Claims(c, m)' /\ Claims(d, m)' => c = d
                    /\ \A x, y \in processed'[m] : x = y
                    /\ processed'[m] # {} => \A c \in Channels : ~Claims(c, m)'
    BY <1>1, Zenon DEF Alone
<1>3. /\ \A c, d \in Channels : Claims(c, m) /\ Claims(d, m) => c = d
      /\ \A x, y \in processed[m] : x = y
      /\ processed[m] # {} => \A c \in Channels : ~Claims(c, m)
    BY <1>2, Zenon DEF Alone
<1>4. ASSUME NEW c \in Channels, Claims(c, m)', ~Claims(c, m)
      PROVE  /\ processed[m] = {} /\ \A d \in Channels : ~Claims(d, m)
             /\ SetIfAbsent(c)
    <2>1. ~(work[c].m = m /\ Renew(c))
        BY <1>2, WorkFields, Zenon DEF Renew, WorkInTime, CopyInTime, at, Idle
    <2>2. work[c].m = m /\ SetIfAbsent(c) /\ key(c) \notin DOMAIN entries
        BY <1>4, <2>1, ClaimsStep, Zenon DEF OwnID
    <2>3. ~(now - first[m] > TTL)
        BY <2>2, Zenon DEF SetIfAbsent, Later
    <2>4. m \in DOMAIN first => ~(now > first[m] + TTL)
        BY <1>2, <2>3
    <2>5. MessageID(m) \notin DOMAIN entries
        BY <2>2, Zenon DEF key
    <2> QED BY <2>2, <2>4, <2>5, Zenon DEF Remembered
<1>5. ASSUME NEW c \in Channels, SetIfAbsent(c)
      PROVE  processed' = processed /\ \A d \in Channels \ {c} : Claims(d, m)' => Claims(d, m)
    BY <1>5, Zenon DEF SetIfAbsent, Occupied, Claims, at, DedupTypeOK
<1>6. ASSUME NEW c \in Channels, Handle(c), Claims(c, m)
      PROVE  \A d \in Channels : ~Claims(d, m)'
    <2>1. ~Claims(c, m)'
        BY <1>6, HandleEnds, Zenon
    <2>2. ASSUME NEW d \in Channels, Claims(d, m)' PROVE Claims(d, m)
        BY <1>3, <1>4, <1>6, <2>2, Zenon
    <2> QED BY <1>3, <1>6, <2>1, <2>2, Zenon
<1>7. \A c, d \in Channels : Claims(c, m)' /\ Claims(d, m)' => c = d
    <2> SUFFICES ASSUME NEW c \in Channels, NEW d \in Channels, Claims(c, m)', Claims(d, m)', c # d
                 PROVE  FALSE
        BY Zenon
    <2>1. CASE Claims(c, m) /\ Claims(d, m)
        BY <1>3, <2>1, Zenon
    <2>2. CASE ~Claims(c, m)
        BY <1>4, <1>5, <2>2, Zenon
    <2>3. CASE ~Claims(d, m)
        BY <1>4, <1>5, <2>3, Zenon
    <2> QED BY <2>1, <2>2, <2>3, Zenon
<1>8. \A x, y \in processed'[m] : x = y
    BY <1>3, ProcessedStep, Zenon
<1>9. processed'[m] # {} => \A c \in Channels : ~Claims(c, m)'
    <2>1. CASE processed'[m] = processed[m]
        BY <1>3, <1>4, <2>1, Zenon
    <2>2. CASE \E c \in Channels : Handle(c) /\ Claims(c, m)
        BY <1>6, <2>2, Zenon
    <2> QED BY <2>1, <2>2, ProcessedStep, Zenon
<1> QED BY <1>7, <1>8, <1>9, Zenon
-----------------------------------------------------------------------------
(* The invariant holds of a new group and is kept by every step. *)
LEMMA DedupInitial == DedupInit => DedupInv
<1> SUFFICES ASSUME DedupInit PROVE DedupInv
    BY Zenon
<1>1. DOMAIN first = {} /\ DOMAIN entries = {} /\ 0 \in Times /\ now = 0
    BY DedupAssumption DEF DedupInit, Times
<1>2. DedupTypeOK
    BY <1>1, Zenon DEF DedupInit, DedupTypeOK
<1>3. NoGap /\ PastIsPast
    BY <1>1, Zenon DEF DedupInit, NoGap, PastIsPast
<1>4. WorkInTime /\ \A c \in Channels : \A m : ~Claims(c, m)
    BY Zenon DEF DedupInit, WorkInTime, CopyInTime, Claims, at, Idle
<1>5. Remembered /\ Alone
    BY <1>1, <1>4, Zenon DEF DedupInit, Remembered, Alone
<1> QED BY <1>2, <1>3, <1>4, <1>5, Zenon DEF DedupInv

(* Every step of channels, cleaner and clock keeps the invariant. *)
LEMMA DedupStep == DedupInv /\ [DedupNext]_dedupVars => DedupInv'
  BY TypeStep, NoGapStep, TimeStep, RememberedStep, AloneStep, Zenon DEF DedupInv

(* One channel at most processes a message with an ID of its own whose     *)
(* copies are looked up within the time to live (AddIfAbsent).             *)
THEOREM MessagesProcessedOnce == DedupSpec => []ProcessedOnce
<1>1. DedupInv => ProcessedOnce
    <2> SUFFICES ASSUME DedupInv, NEW m \in Msgs, m \notin late, OwnID(m)
                 PROVE  Cardinality(processed[m])
                          + Cardinality({c \in Channels : at(c, "handle") /\ work[c].m = m}) <= 1
        BY Zenon DEF ProcessedOnce
    <2> DEFINE H == {c \in Channels : at(c, "handle") /\ work[c].m = m}
    <2>1. /\ \A c, d \in H : c = d
          /\ \A x, y \in processed[m] : x = y
          /\ processed[m] # {} => H = {}
        BY Zenon DEF DedupInv, Alone, Claims
    <2> HIDE DEF H
    <2>2. ASSUME NEW S, \A x, y \in S : x = y
          PROVE  IF S = {} THEN Cardinality(S) = 0 ELSE Cardinality(S) = 1
        <3>1. S = {} \/ \E x : S = {x}
            BY <2>2
        <3> QED BY <3>1, FS_EmptySet, FS_Singleton, Zenon
    <2>3. IF H = {} THEN Cardinality(H) = 0 ELSE Cardinality(H) = 1
        BY <2>1, <2>2, Zenon
    <2>4. IF processed[m] = {} THEN Cardinality(processed[m]) = 0 ELSE Cardinality(processed[m]) = 1
        BY <2>1, <2>2, Zenon
    <2>5. Cardinality(processed[m]) + Cardinality(H) <= 1
        BY <2>1, <2>3, <2>4
    <2> QED BY <2>5, Zenon DEF H
<1> QED BY <1>1, DedupInitial, DedupStep, PTL DEF DedupSpec

(* No message is discarded for nothing (AddIfAbsent, StartCleanup). *)
THEOREM NoneDroppedForNothing == DedupSpec => []DroppedIsProcessed
<1>1. DedupInv => DroppedIsProcessed
    BY Zenon DEF DedupInv, NoGap, Stands, Claims, DroppedIsProcessed
<1> QED BY <1>1, DedupInitial, DedupStep, PTL DEF DedupSpec
-----------------------------------------------------------------------------
(* Agent.  The quota of a group and the units its sleeping goroutines will *)
(* give back are its capacity, and the units of the last second have a     *)
(* goroutine that still sleeps.                                            *)

SleepersOK ==
    /\ sleeping \subseteq Sleeper
    /\ \A r, s \in sleeping : r.id = s.id => r = s

RecentSleeps ==
    /\ recent \subseteq Spent
    /\ \A r \in recent : \E s \in sleeping :
          s.id = r.id /\ s.g = r.g /\ s.n = r.n /\ s.left + r.age = Second

QuotaIsShared ==
    \A g \in Groups :
        /\ IsFiniteSet(UnitsOf(sleeping, g))
        /\ quotas[g] + Cardinality(UnitsOf(sleeping, g)) = Limit[g]

AgentInv ==
    /\ exchange \in Exchanges /\ quotas \in [Groups -> Nat] /\ calls \in Nat
    /\ SleepersOK /\ RecentSleeps /\ QuotaIsShared

(* The units of one call. *)
LEMMA OneCall ==
    ASSUME NEW id, NEW n \in Nat
    PROVE  IsFiniteSet({id} \X (1 .. n)) /\ Cardinality({id} \X (1 .. n)) = n
<1>1. IsFiniteSet({id}) /\ Cardinality({id}) = 1
    BY FS_Singleton, Zenon
<1>2. IsFiniteSet(1 .. n) /\ Cardinality(1 .. n) = n
    <2>1. 1 \in Int /\ n \in Int
        OBVIOUS
    <2>2. IsFiniteSet(1 .. n) /\ Cardinality(1 .. n) = IF 1 > n THEN 0 ELSE n - 1 + 1
        BY <2>1, FS_Interval, Zenon
    <2> QED BY <2>2
<1>3. IsFiniteSet({id} \X (1 .. n)) /\ Cardinality({id} \X (1 .. n)) = Cardinality({id}) * Cardinality(1 .. n)
    BY <1>1, <1>2, FS_Product, Zenon
<1> QED BY <1>1, <1>2, <1>3

LEMMA UnitsIn ==
    ASSUME NEW R, NEW g, NEW u
    PROVE  u \in UnitsOf(R, g) <=> \E r \in R : r.g = g /\ u \in {r.id} \X (1 .. r.n)
BY Zenon DEF UnitsOf

(* A call with an ID of its own has units of its own. *)
LEMMA UnitsApart ==
    ASSUME NEW R, NEW g, NEW id, NEW n, \A r \in R : r.id # id
    PROVE  UnitsOf(R, g) \cap ({id} \X (1 .. n)) = {}
<1> SUFFICES ASSUME NEW u \in UnitsOf(R, g), u \in {id} \X (1 .. n)
             PROVE  FALSE
    BY Zenon
<1>1. PICK r \in R : u \in {r.id} \X (1 .. r.n)
    BY UnitsIn, ZenonT(40)
<1>2. u[1] = id /\ u[1] = r.id
    BY <1>1, Zenon
<1> QED BY <1>2, Zenon

(* Q is R and a record r of a call that R has no record of. *)
Adds(Q, R, r) == (\A x : x \in Q <=> x \in R \/ x = r) /\ r.n \in Nat /\ \A x \in R : x.id # r.id

(* The units of a call are added to those of its group. *)
LEMMA UnitsMore ==
    ASSUME NEW R, NEW r, NEW Q, NEW g, Adds(Q, R, r), IsFiniteSet(UnitsOf(R, g))
    PROVE  /\ IsFiniteSet(UnitsOf(Q, g))
           /\ r.g = g => Cardinality(UnitsOf(Q, g)) = Cardinality(UnitsOf(R, g)) + r.n
           /\ r.g # g => Cardinality(UnitsOf(Q, g)) = Cardinality(UnitsOf(R, g))
<1> (\A x : x \in Q <=> x \in R \/ x = r) /\ r.n \in Nat /\ \A x \in R : x.id # r.id
    BY Zenon DEF Adds
<1>1. CASE r.g = g
    <2> DEFINE U == UnitsOf(R, g)
               W == {r.id} \X (1 .. r.n)
    <2>1. UnitsOf(Q, g) = U \union W
        <3>1. ASSUME NEW u PROVE u \in UnitsOf(Q, g) <=> u \in U \/ u \in W
            <4>1. u \in UnitsOf(Q, g) <=> \E x \in Q : x.g = g /\ u \in {x.id} \X (1 .. x.n)
                BY UnitsIn, ZenonT(40)
            <4>2. u \in UnitsOf(R, g) <=> \E x \in R : x.g = g /\ u \in {x.id} \X (1 .. x.n)
                BY UnitsIn, ZenonT(40)
            <4> QED BY <1>1, <4>1, <4>2, Zenon
        <3> QED BY <3>1, Zenon
    <2>2. U \cap W = {}
        BY UnitsApart, Zenon
    <2>3. IsFiniteSet(W) /\ Cardinality(W) = r.n
        BY OneCall, Zenon
    <2>4. Cardinality(U) \in Nat
        BY FS_CardinalityType, Zenon
    <2> HIDE DEF U, W
    <2>5. IsFiniteSet(U \union W) /\ Cardinality(U \union W) = Cardinality(U) + Cardinality(W) - Cardinality(U \cap W)
        BY <2>3, FS_Union, Zenon DEF U
    <2>6. Cardinality(U \cap W) = 0
        BY <2>2, FS_EmptySet, Zenon
    <2>7. Cardinality(U \union W) = Cardinality(U) + r.n
        BY <2>3, <2>4, <2>5, <2>6
    <2> QED BY <1>1, <2>1, <2>5, <2>7, Zenon DEF U
<1>2. CASE r.g # g
    <2>1. UnitsOf(Q, g) = UnitsOf(R, g)
        <3>1. ASSUME NEW u PROVE u \in UnitsOf(Q, g) <=> u \in UnitsOf(R, g)
            <4>1. u \in UnitsOf(Q, g) <=> \E x \in Q : x.g = g /\ u \in {x.id} \X (1 .. x.n)
                BY UnitsIn, ZenonT(40)
            <4>2. u \in UnitsOf(R, g) <=> \E x \in R : x.g = g /\ u \in {x.id} \X (1 .. x.n)
                BY UnitsIn, ZenonT(40)
            <4> QED BY <1>2, <4>1, <4>2, Zenon
        <3> QED BY <3>1, Zenon
    <2> QED BY <1>2, <2>1, Zenon
<1> QED BY <1>1, <1>2, Zenon

(* The groups of the exchange have a capacity, and every endpoint a group. *)
LEMMA GroupsOK ==
    ASSUME exchange \in Exchanges
    PROVE  /\ Limit \in [Groups -> Nat \ {0}]
           /\ \A op \in Endpoints : Group[op] \in Groups
<1>1. CASE exchange = "coinex"
    <2>1. Limit \in [{"order", "cancel"} -> Nat \ {0}]
        BY <1>1, AgentAssumption, Zenon DEF Limit
    <2>2. Groups = {"order", "cancel"}
        BY <2>1, Zenon DEF Limit, Groups
    <2>3. Group = [SendOrder |-> "order", SendOrders |-> "order", AmendOrder |-> "order",
                   CancelOrder |-> "cancel", CancelOrders |-> "cancel"]
        BY <1>1, Zenon DEF Group
    <2>4. \A op \in Endpoints : Group[op] \in {"order", "cancel"}
        BY <2>3 DEF Endpoints
    <2> QED BY <2>1, <2>2, <2>4, Zenon
<1>2. CASE exchange = "bybit"
    <2>1. Limit \in [{"create", "amend", "cancel"} -> Nat \ {0}]
        BY <1>2, AgentAssumption, Zenon DEF Limit
    <2>2. Groups = {"create", "amend", "cancel"}
        BY <2>1, Zenon DEF Limit, Groups
    <2>3. Group = [SendOrder |-> "create", AmendOrder |-> "amend", CancelOrder |-> "cancel"]
        BY <1>2, Zenon DEF Group
    <2>4. \A op \in Endpoints : Group[op] \in {"create", "amend", "cancel"}
        BY <2>3 DEF Endpoints
    <2> QED BY <2>1, <2>2, <2>4, Zenon
<1> QED BY <1>1, <1>2, Zenon DEF Exchanges

LEMMA AgentInitOK == AgentInit => AgentInv
<1> SUFFICES ASSUME AgentInit PROVE AgentInv
    BY Zenon
<1>1. exchange \in Exchanges /\ quotas = Limit /\ sleeping = {} /\ recent = {} /\ calls = 0
    BY Zenon DEF AgentInit
<1>2. Limit \in [Groups -> Nat \ {0}]
    BY <1>1, GroupsOK, Zenon
<1>3. \A g : UnitsOf(sleeping, g) = {}
    BY <1>1, Zenon DEF UnitsOf
<1>4. IsFiniteSet({}) /\ Cardinality({}) = 0
    BY FS_EmptySet, Zenon
<1>5. QuotaIsShared
    BY <1>1, <1>2, <1>3, <1>4 DEF QuotaIsShared
<1>6. SleepersOK /\ RecentSleeps
    BY <1>1, Zenon DEF SleepersOK, RecentSleeps
<1> QED BY <1>1, <1>2, <1>5, <1>6, Zenon DEF AgentInv

(* A goroutine's record stays what it is while calls are counted. *)
LEMMA SleeperStays ==
    ASSUME calls \in Nat, calls' \in Nat, calls' >= calls, exchange' = exchange
    PROVE  Sleeper \subseteq Sleeper'
<1>1. 1 .. calls \subseteq 1 .. calls'
    OBVIOUS
<1>2. Groups' = Groups
    BY Zenon DEF Groups
<1> QED BY <1>1, <1>2, Zenon DEF Sleeper

(* consume takes quota and leaves a goroutine that gives it back. *)
LEMMA ConsumeOK ==
    ASSUME AgentInv, NEW g \in Groups, NEW n \in Nat, consume(g, n), calls' = calls + 1, exchange' = exchange
    PROVE  AgentInv'
<1> DEFINE s == [id |-> calls + 1, g |-> g, n |-> n, left |-> Second]
           r == [id |-> calls + 1, g |-> g, n |-> n, age |-> 0]
<1>1. /\ quotas[g] >= n /\ quotas' = [quotas EXCEPT ![g] = quotas[g] - n]
      /\ sleeping' = sleeping \union {s} /\ recent' = recent \union {r}
    BY Zenon DEF consume
<1>2. /\ exchange \in Exchanges /\ quotas \in [Groups -> Nat] /\ calls \in Nat
      /\ SleepersOK /\ RecentSleeps /\ QuotaIsShared
    BY Zenon DEF AgentInv
<1>3. Groups' = Groups /\ Limit' = Limit
    BY Zenon DEF Groups, Limit
<1>4. \A x \in sleeping : x.id # calls + 1
    BY <1>2 DEF SleepersOK, Sleeper
<1>5. quotas' \in [Groups -> Nat] /\ quotas'[g] = quotas[g] - n /\ \A h \in Groups : h # g => quotas'[h] = quotas[h]
    BY <1>1, <1>2
<1>6. s.id = calls + 1 /\ s.g = g /\ s.n = n /\ s.left = Second
      /\ r.id = calls + 1 /\ r.g = g /\ r.n = n /\ r.age = 0
    BY Zenon
<1>7. Second \in Nat \ {0}
    BY AgentAssumption, Zenon
<1>8. SleepersOK'
    <2>1. s \in Sleeper'
        BY <1>2, <1>3, <1>7 DEF Sleeper
    <2>2. Sleeper \subseteq Sleeper'
        BY <1>2, SleeperStays
    <2>3. \A x, y \in sleeping' : x.id = y.id => x = y
        BY <1>1, <1>2, <1>4, <1>6, Zenon DEF SleepersOK
    <2> QED BY <1>1, <1>2, <2>1, <2>2, <2>3, Zenon DEF SleepersOK
<1>9. RecentSleeps'
    <2>1. s.left + r.age = Second
        BY <1>6, <1>7
    <2>2. r \in Spent' /\ Spent \subseteq Spent'
        BY <1>2, <1>3, <1>7 DEF Spent
    <2> HIDE DEF s, r
    <2>3. recent' \subseteq Spent'
        BY <1>1, <1>2, <2>2, Zenon DEF RecentSleeps
    <2> QED BY <1>1, <1>2, <1>6, <2>1, <2>3, Zenon DEF RecentSleeps
<1>10. ASSUME NEW h \in Groups
       PROVE  /\ IsFiniteSet(UnitsOf(sleeping', h))
              /\ quotas'[h] + Cardinality(UnitsOf(sleeping', h)) = Limit[h]
    <2>1. IsFiniteSet(UnitsOf(sleeping, h)) /\ quotas[h] + Cardinality(UnitsOf(sleeping, h)) = Limit[h]
        BY <1>2, <1>10, Zenon DEF QuotaIsShared
    <2>2. Cardinality(UnitsOf(sleeping, h)) \in Nat
        BY <2>1, FS_CardinalityType, Zenon
    <2>3. Adds(sleeping', sleeping, s)
        <3>1. \A x : x \in sleeping' <=> x \in sleeping \/ x = s
            BY <1>1, Zenon
        <3>2. s.n \in Nat /\ \A x \in sleeping : x.id # s.id
            BY <1>4, <1>6, Zenon
        <3> HIDE DEF s
        <3> QED BY <3>1, <3>2, Zenon DEF Adds
    <2> HIDE DEF s
    <2> HIDE DEF s
    <2>4. /\ IsFiniteSet(UnitsOf(sleeping', h))
          /\ s.g = h => Cardinality(UnitsOf(sleeping', h)) = Cardinality(UnitsOf(sleeping, h)) + s.n
          /\ s.g # h => Cardinality(UnitsOf(sleeping', h)) = Cardinality(UnitsOf(sleeping, h))
        BY <2>1, <2>3, UnitsMore
    <2>5. quotas[h] \in Nat
        BY <1>2, <1>10, Zenon
    <2> QED BY <1>1, <1>5, <1>6, <2>1, <2>2, <2>4, <2>5, SMTT(40)
<1>11. QuotaIsShared'
    BY <1>3, <1>10, Zenon DEF QuotaIsShared
<1>12. calls' \in Nat
    BY <1>2
<1> QED BY <1>2, <1>3, <1>5, <1>8, <1>9, <1>11, <1>12, Zenon DEF AgentInv

(* A goroutine that wakes up gives back what its call has taken: the cap   *)
(* is never reached.                                                       *)
LEMMA RefillOK ==
    ASSUME AgentInv, NEW r \in sleeping, Refill(r)
    PROVE  AgentInv'
<1>1. /\ r.left = 0 /\ sleeping' = sleeping \ {r} /\ UNCHANGED <<exchange, recent, calls>>
      /\ quotas' = [quotas EXCEPT ![r.g] = IF quotas[r.g] + r.n > Limit[r.g] THEN Limit[r.g] ELSE quotas[r.g] + r.n]
    BY Zenon DEF Refill
<1>2. /\ exchange \in Exchanges /\ quotas \in [Groups -> Nat] /\ calls \in Nat
      /\ SleepersOK /\ RecentSleeps /\ QuotaIsShared
    BY Zenon DEF AgentInv
<1>3. Groups' = Groups /\ Limit' = Limit /\ Sleeper' = Sleeper /\ Spent' = Spent
    BY <1>1, Zenon DEF Groups, Limit, Sleeper, Spent
<1>4. r.g \in Groups /\ r.n \in Nat /\ \A x \in sleeping' : x.id # r.id
    BY <1>1, <1>2, Zenon DEF SleepersOK, Sleeper
<1>5. ASSUME NEW h \in Groups
      PROVE  /\ IsFiniteSet(UnitsOf(sleeping', h)) /\ Cardinality(UnitsOf(sleeping', h)) \in Nat
             /\ quotas[h] + Cardinality(UnitsOf(sleeping', h)) + (IF r.g = h THEN r.n ELSE 0) = Limit[h]
    <2>1. IsFiniteSet(UnitsOf(sleeping, h)) /\ quotas[h] + Cardinality(UnitsOf(sleeping, h)) = Limit[h]
        BY <1>2, <1>5, Zenon DEF QuotaIsShared
    <2>2. UnitsOf(sleeping', h) \subseteq UnitsOf(sleeping, h)
        <3>1. sleeping' \subseteq sleeping
            BY <1>1, Zenon
        <3> QED BY <3>1, Zenon DEF UnitsOf
    <2>3. IsFiniteSet(UnitsOf(sleeping', h)) /\ Cardinality(UnitsOf(sleeping', h)) \in Nat
        BY <2>1, <2>2, FS_Subset, FS_CardinalityType, Zenon
    <2>4. Adds(sleeping, sleeping', r)
        BY <1>1, <1>4, Zenon DEF Adds
    <2>5. /\ r.g = h => Cardinality(UnitsOf(sleeping, h)) = Cardinality(UnitsOf(sleeping', h)) + r.n
          /\ r.g # h => Cardinality(UnitsOf(sleeping, h)) = Cardinality(UnitsOf(sleeping', h))
        BY <2>3, <2>4, UnitsMore
    <2>6. quotas[h] \in Nat
        BY <1>2, <1>5, Zenon
    <2> QED BY <1>4, <2>1, <2>3, <2>5, <2>6
<1>6. quotas[r.g] + r.n + Cardinality(UnitsOf(sleeping', r.g)) = Limit[r.g]
    BY <1>2, <1>4, <1>5
<1>7. quotas' = [quotas EXCEPT ![r.g] = quotas[r.g] + r.n]
    <2>1. quotas[r.g] \in Nat /\ Cardinality(UnitsOf(sleeping', r.g)) \in Nat
        BY <1>2, <1>4, <1>5, Zenon
    <2>2. ~(quotas[r.g] + r.n > Limit[r.g])
        BY <1>4, <1>6, <2>1
    <2> QED BY <1>1, <2>2, Zenon
<1>8. quotas' \in [Groups -> Nat] /\ quotas'[r.g] = quotas[r.g] + r.n /\ \A h \in Groups : h # r.g => quotas'[h] = quotas[h]
    BY <1>2, <1>4, <1>7
<1>9. ASSUME NEW h \in Groups PROVE quotas'[h] + Cardinality(UnitsOf(sleeping', h)) = Limit[h]
    BY <1>2, <1>4, <1>5, <1>8, <1>9
<1>10. QuotaIsShared'
    BY <1>3, <1>5, <1>9, Zenon DEF QuotaIsShared
<1>11. SleepersOK'
    BY <1>1, <1>2, <1>3, Zenon DEF SleepersOK
<1>12. RecentSleeps'
    <2>1. ASSUME NEW x \in recent, NEW y \in sleeping, y.left + x.age = Second PROVE y # r
        <3>1. x.age \in 0 .. Second - 1
            BY <1>2, <2>1, Zenon DEF RecentSleeps, Spent
        <3> QED BY <1>1, <2>1, <3>1, AgentAssumption
    <2> QED BY <1>1, <1>2, <1>3, <2>1, Zenon DEF RecentSleeps
<1> QED BY <1>1, <1>2, <1>3, <1>8, <1>10, <1>11, <1>12, Zenon DEF AgentInv

(* A tick changes how long a goroutine sleeps and nothing else of it. *)
LEMMA ClockTickOK ==
    ASSUME AgentInv, ClockTick
    PROVE  AgentInv'
<1> DEFINE slept(r) == [r EXCEPT !.left = IF r.left = 0 THEN 0 ELSE r.left - 1]
           aged(r) == [r EXCEPT !.age = r.age + 1]
<1>1. /\ sleeping' = {slept(r) : r \in sleeping} /\ recent' = {aged(r) : r \in {x \in recent : x.age + 1 < Second}}
      /\ UNCHANGED <<exchange, quotas, calls>>
    BY Zenon DEF ClockTick
<1>2. /\ exchange \in Exchanges /\ quotas \in [Groups -> Nat] /\ calls \in Nat
      /\ SleepersOK /\ RecentSleeps /\ QuotaIsShared
    BY Zenon DEF AgentInv
<1>3. Groups' = Groups /\ Limit' = Limit /\ Sleeper' = Sleeper /\ Spent' = Spent
    BY <1>1, Zenon DEF Groups, Limit, Sleeper, Spent
<1>4. ASSUME NEW r \in sleeping
      PROVE  /\ slept(r) \in Sleeper
             /\ slept(r).id = r.id /\ slept(r).g = r.g /\ slept(r).n = r.n
             /\ r.left # 0 => slept(r).left = r.left - 1
    <2>1. r \in Sleeper
        BY <1>2, <1>4, Zenon DEF SleepersOK
    <2> QED BY <2>1, AgentAssumption DEF Sleeper
<1> HIDE DEF slept
<1>5. SleepersOK'
    <2>1. sleeping' \subseteq Sleeper
        BY <1>1, <1>4, Zenon
    <2>2. ASSUME NEW x \in sleeping', NEW y \in sleeping', x.id = y.id PROVE x = y
        <3>1. PICK v \in sleeping : x = slept(v)
            BY <1>1, <2>2, Zenon
        <3>2. PICK w \in sleeping : y = slept(w)
            BY <1>1, <2>2, Zenon
        <3>3. v.id = w.id
            BY <1>4, <2>2, <3>1, <3>2, Zenon
        <3> QED BY <1>2, <3>1, <3>2, <3>3, Zenon DEF SleepersOK
    <2> QED BY <1>3, <2>1, <2>2, Zenon DEF SleepersOK
<1>6. ASSUME NEW g PROVE UnitsOf(sleeping', g) = UnitsOf(sleeping, g)
    <2>1. ASSUME NEW u PROVE u \in UnitsOf(sleeping', g) <=> u \in UnitsOf(sleeping, g)
        <3>1. u \in UnitsOf(sleeping', g) <=> \E x \in sleeping' : x.g = g /\ u \in {x.id} \X (1 .. x.n)
            BY UnitsIn, ZenonT(40)
        <3>2. u \in UnitsOf(sleeping, g) <=> \E x \in sleeping : x.g = g /\ u \in {x.id} \X (1 .. x.n)
            BY UnitsIn, ZenonT(40)
        <3>3. \A x \in sleeping' : \E y \in sleeping : x.g = y.g /\ x.id = y.id /\ x.n = y.n
            BY <1>1, <1>4, Zenon
        <3>4. \A y \in sleeping : \E x \in sleeping' : x.g = y.g /\ x.id = y.id /\ x.n = y.n
            BY <1>1, <1>4, Zenon
        <3>5. ASSUME NEW x \in sleeping', x.g = g /\ u \in {x.id} \X (1 .. x.n)
              PROVE  \E y \in sleeping : y.g = g /\ u \in {y.id} \X (1 .. y.n)
            <4>1. PICK y \in sleeping : x.g = y.g /\ x.id = y.id /\ x.n = y.n
                BY <3>3, <3>5, Zenon
            <4>2. y.g = g /\ u \in {y.id} \X (1 .. y.n)
                BY <3>5, <4>1
            <4> QED BY <4>2, Zenon
        <3>6. ASSUME NEW y \in sleeping, y.g = g /\ u \in {y.id} \X (1 .. y.n)
              PROVE  \E x \in sleeping' : x.g = g /\ u \in {x.id} \X (1 .. x.n)
            <4>1. PICK x \in sleeping' : x.g = y.g /\ x.id = y.id /\ x.n = y.n
                BY <3>4, <3>6, Zenon
            <4>2. x.g = g /\ u \in {x.id} \X (1 .. x.n)
                BY <3>6, <4>1
            <4> QED BY <4>2, Zenon
        <3> QED BY <3>1, <3>2, <3>5, <3>6, Zenon
    <2> QED BY <2>1, Zenon
<1>7. QuotaIsShared'
    BY <1>1, <1>2, <1>3, <1>6, Zenon DEF QuotaIsShared
<1>8. ASSUME NEW x \in recent, x.age + 1 < Second
      PROVE  /\ aged(x) \in Spent
             /\ \E y \in sleeping' : /\ y.id = aged(x).id /\ y.g = aged(x).g /\ y.n = aged(x).n
                                     /\ y.left + aged(x).age = Second
    <2>1. PICK y \in sleeping : y.id = x.id /\ y.g = x.g /\ y.n = x.n /\ y.left + x.age = Second
        BY <1>2, <1>8, Zenon DEF RecentSleeps
    <2>2. y.left \in 0 .. Second
        BY <1>2, <2>1, Zenon DEF SleepersOK, Sleeper
    <2> DEFINE z == slept(y)
    <2>3. z \in sleeping' /\ z.id = x.id /\ z.g = x.g /\ z.n = x.n
        BY <1>1, <1>4, <2>1, Zenon
    <2>4. x \in Spent
        BY <1>2, <1>8, Zenon DEF RecentSleeps
    <2>5. /\ aged(x) \in Spent /\ aged(x).id = x.id /\ aged(x).g = x.g /\ aged(x).n = x.n
          /\ aged(x).age = x.age + 1 /\ x.age \in Nat
        BY <1>8, <2>4, AgentAssumption DEF Spent
    <2>6. y.left # 0
        BY <1>8, <2>1, <2>2, <2>5, AgentAssumption
    <2>7. z.left = y.left - 1
        BY <1>4, <2>6, Zenon
    <2>8. z.left + aged(x).age = Second
        BY <2>1, <2>2, <2>5, <2>7
    <2> HIDE DEF z
    <2> QED BY <2>3, <2>5, <2>8, Zenon
<1> HIDE DEF aged
<1>9. RecentSleeps'
    BY <1>1, <1>3, <1>8, Zenon DEF RecentSleeps
<1> QED BY <1>1, <1>2, <1>3, <1>5, <1>7, <1>9, Zenon DEF AgentInv

LEMMA CallOK ==
    ASSUME AgentInv, NEW op, NEW T \in SUBSET Orders, Call(op, T)
    PROVE  AgentInv'
<1>1. exchange \in Exchanges /\ calls \in Nat
    BY Zenon DEF AgentInv
<1>2. calls' = calls + 1 /\ exchange' = exchange
    BY Zenon DEF Call, rateVars
<1>3. CASE op \in Endpoints /\ consume(Group[op], Cardinality(T))
    <2>1. Group[op] \in Groups
        BY <1>1, <1>3, GroupsOK, Zenon
    <2>2. Cardinality(T) \in Nat
        BY AgentAssumption, FS_Subset, FS_CardinalityType, Zenon
    <2> QED BY <1>2, <1>3, <2>1, <2>2, ConsumeOK, Zenon
<1>4. CASE UNCHANGED rateVars
    <2>1. UNCHANGED <<quotas, sleeping, recent>> /\ Groups' = Groups /\ Limit' = Limit
        BY <1>4, Zenon DEF rateVars, Groups, Limit
    <2>2. calls' \in Nat /\ calls' >= calls
        BY <1>1, <1>2
    <2>3. Sleeper \subseteq Sleeper'
        BY <1>1, <1>2, <2>2, SleeperStays, Zenon
    <2>4. Spent \subseteq Spent'
        BY <1>1, <2>1, <2>2 DEF Spent
    <2>5. SleepersOK' /\ RecentSleeps'
        BY <2>1, <2>3, <2>4, Zenon DEF AgentInv, SleepersOK, RecentSleeps
    <2>6. QuotaIsShared'
        BY <2>1, Zenon DEF AgentInv, QuotaIsShared, UnitsOf
    <2> QED BY <1>1, <1>2, <2>1, <2>2, <2>5, <2>6, Zenon DEF AgentInv
<1> QED BY <1>3, <1>4, Zenon DEF Call

(* Every step keeps the invariant. *)
LEMMA AgentNextOK ==
    ASSUME AgentInv, [AgentNext]_agentVars
    PROVE  AgentInv'
<1>1. CASE \E o \in Orders : SendOrder(o) \/ CancelOrder(o) \/ AmendOrder(o)
    BY <1>1, CallOK, Zenon DEF SendOrder, CancelOrder, AmendOrder
<1>2. CASE \E T \in SUBSET Orders \ {{}} : SendOrders(T) \/ CancelOrders(T)
    BY <1>2, CallOK, Zenon DEF SendOrders, CancelOrders
<1>3. CASE UNCHANGED <<exchange, quotas, sleeping, recent, calls>>
    BY <1>3, Zenon DEF AgentInv, SleepersOK, RecentSleeps, QuotaIsShared, Sleeper, Spent, Groups, Limit, UnitsOf
<1>4. CASE \E r \in requests : Answered(r) \/ \E accepted \in SUBSET r.orders : Created(r, accepted)
    BY <1>3, <1>4, Zenon DEF Answered, Created, rateVars
<1>5. CASE \E r \in sleeping : Refill(r)
    BY <1>5, RefillOK, Zenon
<1>6. CASE ClockTick
    BY <1>6, ClockTickOK, Zenon
<1>7. CASE UNCHANGED agentVars
    BY <1>3, <1>7, Zenon DEF agentVars
<1> QED BY <1>1, <1>2, <1>4, <1>5, <1>6, <1>7, Zenon DEF AgentNext

(* What the last second let through still sleeps. *)
LEMMA AgentLimit ==
    ASSUME AgentInv
    PROVE  WindowLimit
<1> SUFFICES ASSUME NEW g \in Groups PROVE Cardinality(UnitsOf(recent, g)) <= Limit[g]
    BY Zenon DEF WindowLimit
<1>1. IsFiniteSet(UnitsOf(sleeping, g)) /\ quotas[g] + Cardinality(UnitsOf(sleeping, g)) = Limit[g]
    BY Zenon DEF AgentInv, QuotaIsShared
<1>2. UnitsOf(recent, g) \subseteq UnitsOf(sleeping, g)
    <2>1. ASSUME NEW u \in UnitsOf(recent, g) PROVE u \in UnitsOf(sleeping, g)
        <3>1. PICK r \in recent : r.g = g /\ u \in {r.id} \X (1 .. r.n)
            BY <2>1, UnitsIn, Zenon
        <3>2. PICK s \in sleeping : s.id = r.id /\ s.g = r.g /\ s.n = r.n
            BY <3>1, Zenon DEF AgentInv, RecentSleeps
        <3> QED BY <3>1, <3>2, UnitsIn, Zenon
    <2> QED BY <2>1, Zenon
<1>3. /\ Cardinality(UnitsOf(recent, g)) <= Cardinality(UnitsOf(sleeping, g))
      /\ Cardinality(UnitsOf(recent, g)) \in Nat /\ Cardinality(UnitsOf(sleeping, g)) \in Nat
    BY <1>1, <1>2, FS_Subset, FS_CardinalityType, Zenon
<1>4. quotas[g] \in Nat
    BY Zenon DEF AgentInv
<1> QED BY <1>1, <1>3, <1>4

(* Agent: in no window of a second are more units of a group let through   *)
(* than its capacity (WindowLimit), for any capacities, orders, batches    *)
(* and calls, however late the goroutines of consume wake up.              *)
THEOREM WindowIsLimited == AgentSpec => []WindowLimit
<1>1. AgentInit => AgentInv
    BY AgentInitOK, Zenon
<1>2. AgentInv /\ [AgentNext]_agentVars => AgentInv'
    BY AgentNextOK, Zenon
<1>3. AgentInv => WindowLimit
    BY AgentLimit, Zenon
<1> QED BY <1>1, <1>2, <1>3, PTL DEF AgentSpec
=============================================================================
