------------------------------- MODULE Proxy --------------------------------
(***************************************************************************)
(* How the network thread gets its connection (src/src/miner.rs, connect   *)
(* to handle_http_proxy): directly or through an HTTP proxy that may speak *)
(* TLS itself, then TLS with the pool if the configuration says so.  What  *)
(* Miner takes for one step, ConnectOk, ConnectFail or NetPanic, is here a *)
(* walk through stages.                                                    *)
(*                                                                         *)
(* The answer to CONNECT is taken from a single read of at most 128 bytes; *)
(* it is abstracted to its status, to the number of words the read shows,  *)
(* and to whether it leaves some of the answer unread.                     *)
(***************************************************************************)
EXTENDS Miner

CONSTANT Routes    \* the environments and configurations to start in

VARIABLES
  route,   \* [proxy, tls]: http_proxy or https_proxy, a TLS pool
  stage,   \* where connect is, while npc = "connecting"
  reply,   \* the status with which the proxy opened the tunnel
  junk     \* part of its answer is in the way of TLS with the pool

proxyVars == <<route, stage, reply, junk>>
allVars   == <<vars, proxyVars>>

Route == [proxy : {"none", "http", "https"}, tls : BOOLEAN]
ASSUME RoutesAssumption == Routes \subseteq Route /\ Routes # {}

\* One read of an answer; status "ok": 200; cut: the read ends before the answer does.
Reply == [status : {"ok", "other"}, words : 0..3, cut : BOOLEAN]

ProxyTypeOK ==
  /\ route \in Routes
  /\ stage \in {"idle", "dial", "proxy tls", "asked", "pool tls", "ready"}
  /\ reply \in {"none", "ok", "other"}
  /\ junk \in BOOLEAN
  /\ (npc = "connecting") = (stage # "idle")

ProxyInit ==
  /\ Init
  /\ route \in Routes
  /\ stage = "idle" /\ reply = "none" /\ junk = FALSE

\* What connect does with the stream it has: TLS with the pool, or nothing.
Opened == IF route.tls THEN "pool tls" ELSE "ready"

\* A new attempt.
Begin ==
  /\ StartConnect
  /\ stage' = "dial" /\ reply' = "none" /\ junk' = FALSE
  /\ UNCHANGED route

\* TcpStream::connect, to the pool or to the proxy.
Dialed ==
  /\ Alive
  /\ stage = "dial"
  /\ \/ route.proxy = "none"  /\ stage' = Opened
     \/ route.proxy = "http"  /\ stage' = "asked"
     \/ route.proxy = "https" /\ stage' = "proxy tls"
  /\ UNCHANGED <<vars, route, reply, junk>>

\* TLS with the proxy; CONNECT is written.
ProxySecured ==
  /\ Alive
  /\ stage = "proxy tls" /\ stage' = "asked"
  /\ UNCHANGED <<vars, route, reply, junk>>

\* Mutant of Accepted: any answer that is long enough will do.
AcceptedAny(r) == r.words >= 2

\* words[1] is 200.
Accepted(r) == r.words >= 2 /\ r.status = "ok"

\* words[1], or words[2] for the message, is out of bounds: a panic.
Unreadable(r) == r.words < 2 \/ (~Accepted(r) /\ r.words < 3)

\* The read of the answer: it opens the tunnel, is an error, or panics.
Answered(r) ==
  /\ stage = "asked"
  /\ reply' = IF Accepted(r) THEN r.status ELSE "none"
  /\ \/ Accepted(r) /\ Alive /\ stage' = Opened /\ UNCHANGED vars
        /\ junk' = (r.cut /\ route.tls)
     \/ ~Accepted(r) /\ ~Unreadable(r) /\ ConnectFail /\ stage' = "idle" /\ junk' = FALSE
     \/ Unreadable(r) /\ NetPanic /\ stage' = "idle" /\ junk' = FALSE
  /\ UNCHANGED route

\* TLS with the pool, which what is left of the answer makes impossible.
PoolSecured ==
  /\ Alive
  /\ stage = "pool tls" /\ ~junk
  /\ stage' = "ready"
  /\ UNCHANGED <<vars, route, reply, junk>>

\* An error, or the 3 s for what comes before, or for, TLS with the pool are over.
Failed ==
  /\ stage \in {"dial", "proxy tls", "asked", "pool tls"}
  /\ ConnectFail
  /\ stage' = "idle" /\ reply' = "none" /\ junk' = FALSE
  /\ UNCHANGED route

\* handle_socket.
Up ==
  /\ stage = "ready"
  /\ ConnectOk
  /\ stage' = "idle"
  /\ UNCHANGED <<route, reply, junk>>

-----------------------------------------------------------------------------
ProxyStep ==
  \/ Begin \/ Dialed \/ ProxySecured \/ PoolSecured \/ Failed \/ Up
  \/ \E r \in Reply : Answered(r)

\* Everything else is Miner's.  Without TLS what is left of the proxy's answer
\* is read as lines that are no JSON, which are logged and change nothing.
Elsewhere ==
  /\ \/ SendStep \/ TakeRequest \/ TakeError \/ PeerClose
     \/ Pool \/ (Connected /\ NetPanic)
     \/ Found \/ MainThread \/ CtrlC \/ Tick \/ Ended
  /\ UNCHANGED proxyVars

ProxyNext == ProxyStep \/ Elsewhere

ProxySpec == ProxyInit /\ [][ProxyNext]_allVars

\* As in Miner, except for ConnectStep: that the proxy answers or that TLS comes
\* about is not assumed, only that the waits for them have an end.
ProxyFairness ==
  /\ WF_allVars(Begin)
  /\ WF_allVars(Failed)
  /\ SF_allVars(Up)
  /\ WF_vars(SendStep)
  /\ WF_vars(TakeError)
  /\ SF_vars(TakeRequest)
  /\ WF_vars(MainThread)
  /\ SF_vars(ShowMetric)
  /\ SF_vars(CheckJob)
  /\ WF_vars(Tick)

ProxyFairSpec == ProxySpec /\ ProxyFairness

\* The login goes out only over a connection that the proxy, if there is one,
\* has opened: a refusal, whole or cut, never passes for a tunnel.
TunnelOpen ==
  npc \in {"login", "recv", "send"} /\ route.proxy # "none" => reply = "ok"

=============================================================================
