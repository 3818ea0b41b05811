------------------------------ MODULE Channel ------------------------------
(***************************************************************************)
(* One websocket channel of a gateway: Channel.Start (channel.go) and, for *)
(* every connection it has dialed, the goroutines of that connection:      *)
(* MessageReceiver, healthChecker and, on a private channel, author.       *)
(* Reconnecting starts new goroutines on a new connection; the old ones    *)
(* are told to end through their context, and the old connection is left   *)
(* open.  Goroutines meet on unbuffered Go channels: a sender is in a      *)
(* state of its own until the receiver takes the value; a receive from a   *)
(* closed channel succeeds, a send on one panics.                          *)
(*                                                                         *)
(* Topic messages are left out (module Dedup has them).  Definitions whose *)
(* name starts with Bad are faulty variants.                               *)
(***************************************************************************)
EXTENDS Naturals, Sequences

CONSTANTS
    NumOfRetry,  \* authNumOfRetry
    SigCap,      \* bound: signals in reconnectSigChan (its capacity is 1000)
    MaxFaults,   \* bound, for each scope: failures of the network, the peer or the writes
    MaxPings     \* bound, for each scope: pings of a connection that may still be answered

Scopes == {"public", "private"}

ASSUME ChannelAssumption ==
    /\ NumOfRetry \in Nat
    /\ MaxFaults \in [Scopes -> Nat] /\ MaxPings \in [Scopes -> Nat]
    /\ SigCap \in Nat \ {0}

VARIABLES
    scope,      \* Channel.scopeType
    pc,         \* where Channel.Start is
    isRunning,  \* Channel.isRunning
    status,     \* Channel.status
    sigs,       \* signals in reconnectSigChan
    links,      \* the connections dialed so far with their goroutines; the last is c.conn
    ctxDone,    \* the context passed to Start is cancelled
    crashed,    \* a goroutine has sent on a closed channel
    faults      \* failures so far

vars == <<scope, pc, isRunning, status, sigs, links, ctxDone, crashed, faults>>

(* conn: what the network does to reads and writes ("silent": the peer     *)
(* neither answers nor closes); recv, chk, auth: the goroutines, with the  *)
(* send they are blocked in; live: the context wsCtx is not cancelled;     *)
(* ponged: lastReceivedAt is set; fresh: it is newer than the last ping;   *)
(* pings, asks: pings and auth requests the peer may still answer.         *)
Link == [conn : {"open", "silent", "dead"},
         recv : {"read", "pong", "authOK", "authBad", "err", "done"},
         chk : {"none", "run", "alertPing", "alert", "done"},
         auth : {"none", "wait", "retry", "err", "done"},
         live : BOOLEAN, ponged : BOOLEAN, fresh : BOOLEAN,
         pings : 0 .. MaxPings[scope], asks : 0 .. 1, retries : 0 .. NumOfRetry]

NewLink == [conn |-> "open", recv |-> "read", chk |-> "none", auth |-> "none",
            live |-> TRUE, ponged |-> FALSE, fresh |-> FALSE,
            pings |-> 0, asks |-> 0, retries |-> 0]

cur == Len(links)
conn == links[cur]

Current(g, c) == cur = g /\ links[g].conn = c

Init ==
    /\ scope \in Scopes
    /\ pc = "idle"
    /\ isRunning = FALSE
    /\ status = "Unknown"
    /\ sigs = 0
    /\ links = <<>>
    /\ ctxDone = FALSE
    /\ crashed = FALSE
    /\ faults = 0

Fault == faults < MaxFaults[scope] /\ faults' = faults + 1

(* A write on a dead connection fails or is lost; on the others it works. *)
WriteFails(l) == l.conn = "dead"
-----------------------------------------------------------------------------
(* Channel.Start: initAndListen, then the select loop. *)

Start ==
    /\ pc = "idle"
    /\ pc' = "dial"
    /\ isRunning' = TRUE
    /\ UNCHANGED <<status, sigs, links, ctxDone, crashed, faults>>

BadReconnectFailed ==   \* a failed reconnect ends Start too
    /\ pc' = "failed"
    /\ links' = [g \in DOMAIN links |-> [links[g] EXCEPT !.live = FALSE]]
    /\ UNCHANGED <<status, sigs>>

(* initAndListen has failed: the first time Start returns the error (its   *)
(* deferred wsCancel runs), later the loop signals itself to try again.    *)
ReconnectFailed ==
    IF status = "Unknown"
    THEN pc' = "failed" /\ links' = [g \in DOMAIN links |-> [links[g] EXCEPT !.live = FALSE]]
                       /\ UNCHANGED <<status, sigs>>
    ELSE pc' = "select" /\ status' = "Disconnected" /\ sigs' = sigs + 1 /\ UNCHANGED links

Dial ==
    /\ pc = "dial"
    /\ \/ /\ pc' = "listen"
          /\ links' = Append(links, NewLink)
          /\ UNCHANGED <<status, sigs, faults>>
       \/ /\ Fault
          /\ ReconnectFailed
    /\ UNCHANGED <<isRunning, ctxDone, crashed>>

(* After 200ms: go healthChecker.Start, and go author.Start, which sends   *)
(* its request first.                                                      *)
Listen ==
    /\ pc = "listen"
    /\ pc' = "subscribe"
    /\ \E a \in IF scope = "public" THEN {"none"}
                ELSE IF WriteFails(conn) THEN {"wait", "err"} ELSE {"wait"} :
          links' = [links EXCEPT ![cur].chk = "run", ![cur].auth = a,
                                 ![cur].asks = IF a = "wait" THEN 1 ELSE 0]
    /\ UNCHANGED <<isRunning, status, sigs, ctxDone, crashed, faults>>

(* After another 200ms: sendSubscribeRequest. *)
Subscribe ==
    /\ pc = "subscribe"
    /\ \/ /\ pc' = "select"
          /\ status' = "Connected"
          /\ UNCHANGED <<sigs, links>>
       \/ WriteFails(conn) /\ ReconnectFailed
    /\ UNCHANGED <<isRunning, ctxDone, crashed, faults>>

Stop ==
    /\ pc = "select"
    /\ ctxDone
    /\ pc' = "stopped"
    /\ isRunning' = FALSE
    /\ links' = [links EXCEPT ![cur].conn = "dead", ![cur].live = FALSE]
    /\ UNCHANGED <<status, sigs, ctxDone, crashed, faults>>

(* The loop has received on one of the current connection's channels. *)
Disconnected ==
    /\ pc = "select"
    /\ sigs < SigCap
    /\ sigs' = sigs + 1
    /\ status' = "Disconnected"
    /\ UNCHANGED <<pc, isRunning, ctxDone, crashed, faults>>

BadOnAlert ==   \* the health checker ends with its alert
    /\ Disconnected
    /\ conn.chk \in {"alertPing", "alert", "done"}
    /\ links' = [links EXCEPT ![cur].chk = "done", ![cur].fresh = FALSE]

(* The healthChecker goes on after its alert; a ping that failed may also  *)
(* have timed out.                                                         *)
OnAlert ==
    /\ Disconnected
    /\ conn.chk \in {"alertPing", "alert", "done"}
    /\ links' = [links EXCEPT
           ![cur].chk = CASE @ = "alertPing" /\ conn.ponged /\ ~conn.fresh -> "alert"
                          [] @ = "done" -> "done"
                          [] OTHER -> "run",
           ![cur].fresh = IF conn.chk = "done" THEN @ ELSE FALSE]

OnErr ==
    /\ Disconnected
    /\ conn.recv \in {"err", "done"}
    /\ links' = [links EXCEPT ![cur].recv = "done"]

OnAuthErr ==
    /\ Disconnected
    /\ conn.auth \in {"err", "done"}
    /\ links' = [links EXCEPT ![cur].auth = "done"]

(* A reconnect signal: sleep, then drop the signals, cancel the goroutines *)
(* of the last connection and dial again.                                  *)
OnSignal ==
    /\ pc = "select"
    /\ sigs > 0
    /\ sigs' = sigs - 1
    /\ pc' = "sleep"
    /\ UNCHANGED <<isRunning, status, links, ctxDone, crashed, faults>>

BadReconnect ==   \* the signals are kept
    /\ pc = "sleep"
    /\ pc' = "dial"
    /\ status' = "Reconnecting"
    /\ links' = [links EXCEPT ![cur].live = FALSE]
    /\ UNCHANGED <<isRunning, sigs, ctxDone, crashed, faults>>

Reconnect ==
    /\ pc = "sleep"
    /\ pc' = "dial"
    /\ status' = "Reconnecting"
    /\ sigs' = 0
    /\ links' = [links EXCEPT ![cur].live = FALSE]
    /\ UNCHANGED <<isRunning, ctxDone, crashed, faults>>
-----------------------------------------------------------------------------
(* The goroutines of connection g. *)

mainVars == <<pc, isRunning, status, sigs, ctxDone>>

Becomes(g, l) == links' = [links EXCEPT ![g] = l]

(* A send on a closed channel panics, and the process ends. *)
Panic == crashed' = TRUE /\ UNCHANGED <<mainVars, links, faults>>

(* MessageReceiver.Start: read, run the handlers, forward. *)
ReadPong(g) ==
    /\ links[g].recv = "read" /\ links[g].conn = "open" /\ links[g].pings > 0
    /\ Becomes(g, [links[g] EXCEPT !.recv = "pong", !.pings = @ - 1])
    /\ UNCHANGED <<mainVars, crashed, faults>>

ReadAuth(g) ==
    /\ links[g].recv = "read" /\ links[g].conn = "open" /\ links[g].asks > 0
    /\ \/ Becomes(g, [links[g] EXCEPT !.recv = "authOK", !.asks = 0]) /\ UNCHANGED faults
       \/ Becomes(g, [links[g] EXCEPT !.recv = "authBad", !.asks = 0]) /\ Fault
    /\ UNCHANGED <<mainVars, crashed>>

(* A read error, or a handler that fails on a message. *)
ReadError(g) ==
    /\ links[g].recv = "read"
    /\ \/ links[g].conn = "dead" /\ UNCHANGED faults
       \/ links[g].conn = "open" /\ Fault
    /\ Becomes(g, [links[g] EXCEPT !.recv = "err"])
    /\ UNCHANGED <<mainVars, crashed>>

(* PongReceiveHandleFunc hands the pong to the health checker. *)
HandPong(g) ==
    /\ links[g].recv = "pong"
    /\ \/ /\ links[g].chk = "run"
          /\ Becomes(g, [links[g] EXCEPT !.recv = "read", !.ponged = TRUE, !.fresh = TRUE])
          /\ UNCHANGED <<mainVars, crashed, faults>>
       \/ links[g].chk = "done" /\ Panic

(* HandleAuthMessage hands the answer to the author, which retries up to   *)
(* NumOfRetry times.                                                       *)
HandAuth(g) ==
    /\ links[g].recv \in {"authOK", "authBad"}
    /\ \/ /\ links[g].auth = "wait"
          /\ Becomes(g, [links[g] EXCEPT !.recv = "read",
                !.auth = CASE links[g].recv = "authOK" -> "wait"
                           [] links[g].recv = "authBad" /\ links[g].retries >= NumOfRetry -> "err"
                           [] OTHER -> "retry"])
          /\ UNCHANGED <<mainVars, crashed, faults>>
       \/ links[g].auth = "done" /\ Panic

AuthRetry(g) ==
    /\ links[g].auth = "retry"
    /\ \E a \in IF WriteFails(links[g]) THEN {"wait", "err"} ELSE {"wait"} :
          Becomes(g, [links[g] EXCEPT !.auth = a, !.retries = @ + 1,
                                      !.asks = IF a = "wait" THEN 1 ELSE 0])
    /\ UNCHANGED <<mainVars, crashed, faults>>

(* The peer of a working connection answers a ping before the next tick;   *)
(* when it does not, that is a failure of the network.                     *)
OnTime(g) ==
    /\ Current(g, "open") /\ links[g].live
    /\ links[g].recv \notin {"err", "done"}
    /\ status # "Disconnected"

BadPing(g) ==   \* the last pong is good for ever
    /\ links[g].chk = "run"
    /\ \/ /\ WriteFails(links[g])
          /\ Becomes(g, [links[g] EXCEPT !.chk = "alertPing"])
       \/ Becomes(g, [links[g] EXCEPT
             !.pings = IF links[g].conn = "open" /\ @ < MaxPings[scope] THEN @ + 1 ELSE @])
    /\ UNCHANGED <<mainVars, crashed, faults>>

(* healthChecker.Start: a tick sends a ping, then looks at the last pong.  *)
(* Without any pong so far the time is counted from the ping just sent.    *)
Ping(g) ==
    LET late == links[g].ponged /\ ~links[g].fresh IN
    /\ links[g].chk = "run"
    /\ IF late /\ OnTime(g) THEN Fault ELSE UNCHANGED faults
    /\ \/ /\ WriteFails(links[g])
          /\ Becomes(g, [links[g] EXCEPT !.chk = "alertPing"])
       \/ Becomes(g, [links[g] EXCEPT
             !.chk = IF late THEN "alert" ELSE "run",
             !.fresh = FALSE,
             !.pings = IF links[g].conn = "open" /\ @ < MaxPings[scope] THEN @ + 1 ELSE @])
    /\ UNCHANGED <<mainVars, crashed>>

(* A cancelled context ends the health checker and the author, unless they *)
(* are blocked in a send.                                                  *)
CheckerEnds(g) ==
    /\ links[g].chk = "run" /\ ~links[g].live
    /\ Becomes(g, [links[g] EXCEPT !.chk = "done"])
    /\ UNCHANGED <<mainVars, crashed, faults>>

AuthorEnds(g) ==
    /\ links[g].auth = "wait" /\ ~links[g].live
    /\ Becomes(g, [links[g] EXCEPT !.auth = "done"])
    /\ UNCHANGED <<mainVars, crashed, faults>>

(* The network: a connection goes silent, or breaks. *)
Breaks(g) ==
    /\ Fault
    /\ \/ links[g].conn = "open" /\ Becomes(g, [links[g] EXCEPT !.conn = "silent"])
       \/ links[g].conn # "dead" /\ Becomes(g, [links[g] EXCEPT !.conn = "dead"])
    /\ UNCHANGED <<mainVars, crashed>>

Cancel ==
    /\ ~ctxDone
    /\ ctxDone' = TRUE
    /\ UNCHANGED <<pc, isRunning, status, sigs, links, crashed, faults>>
-----------------------------------------------------------------------------
Main == Start \/ Dial \/ Listen \/ Subscribe \/ Stop \/ OnAlert \/ OnErr \/ OnAuthErr
            \/ OnSignal \/ Reconnect

Receiver(g) == ReadPong(g) \/ ReadAuth(g) \/ ReadError(g) \/ HandPong(g) \/ HandAuth(g)

(* A step of the process, which has not panicked. *)
Runs(A) == ~crashed /\ A /\ UNCHANGED scope

Next ==
    \/ Runs(Main)
    \/ \E g \in DOMAIN links :
          Runs(Receiver(g) \/ Ping(g) \/ CheckerEnds(g) \/ AuthRetry(g) \/ AuthorEnds(g) \/ Breaks(g))
    \/ Runs(Cancel)

Spec == Init /\ [][Next]_vars

(* Start runs, select is fair to its cases (Go chooses one at random), the *)
(* goroutines run, tickers tick and the peer of an open connection answers *)
(* its pings.  Nothing obliges a connection to break.                      *)
Gens == UNION {1 .. MaxFaults[s] + 1 : s \in Scopes}

FairSpec ==
    /\ Spec
    /\ WF_vars(Runs(Start \/ Dial \/ Listen \/ Subscribe \/ Reconnect))
    /\ WF_vars(Runs(OnSignal)) /\ WF_vars(Runs(Stop))
    /\ WF_vars(Runs(OnAlert)) /\ WF_vars(Runs(OnErr)) /\ WF_vars(Runs(OnAuthErr))
    /\ \A g \in Gens :
          /\ WF_vars(g \in DOMAIN links /\ Runs(Receiver(g)))
          /\ WF_vars(g \in DOMAIN links /\ Runs(Ping(g)))
          /\ WF_vars(g \in DOMAIN links /\ Runs(AuthRetry(g)))
-----------------------------------------------------------------------------
(* Type invariant of the channel and of every connection it has dialed. *)
TypeOK ==
    /\ pc \in {"idle", "dial", "listen", "subscribe", "select", "sleep", "stopped", "failed"}
    /\ status \in {"Unknown", "Connected", "Disconnected", "Reconnecting"}
    /\ sigs \in 0 .. SigCap
    /\ links \in Seq(Link)
    /\ {isRunning, ctxDone, crashed} \subseteq BOOLEAN
    /\ scope \in Scopes /\ faults \in 0 .. MaxFaults[scope]

(* A channel that reports Connected has no reconnect pending: the signals  *)
(* of the old connection's goroutines, and the ones their closed channels  *)
(* produce, never tear down the connection made because of them.           *)
ConnectedIsSettled == status = "Connected" /\ pc = "select" => sigs = 0

(* Liveness: when a connection breaks ("Automatically reconnects on        *)
(* disconnection") or its peer goes silent (README: "a 3-second ping/pong  *)
(* liveness check with automatic reconnection on timeout") the loop comes  *)
(* to replace it, whichever goroutine notices it.  The exception is the    *)
(* code's: a silent peer that has never answered a ping does not time out, *)
(* since isTimeout then counts from the ping just sent.                    *)
LostIsReplaced ==
    (pc = "select" /\ (conn.conn = "dead" \/ (conn.conn = "silent" /\ conn.ponged)))
        ~> (pc # "select" \/ ctxDone \/ crashed)

(* Liveness: a channel that is Disconnected becomes Connected, through any *)
(* number of failed dials and subscriptions.                               *)
Reconnects == (status = "Disconnected") ~> (status = "Connected" \/ ctxDone \/ crashed)

(* The process panics only because of a connection that was replaced or    *)
(* closed: a late pong or answer on it reaches a goroutine that has ended. *)
PanicsOnOldOnly ==
    crashed => \E g \in DOMAIN links :
        links[g].recv \in {"pong", "authOK", "authBad"} /\ ~links[g].live
=============================================================================
