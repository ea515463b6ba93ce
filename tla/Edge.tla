--------------------------------- MODULE Edge ---------------------------------
(***************************************************************************)
(* The edge of the gateway: the server and its way down                    *)
(* (src/gateway/server.ts), the connection handler                         *)
(* (src/gateway/ws/connection.ts), the handshake (ws/handshake.ts) and the *)
(* credentials it asks for (auth/), with the rate limiters of Limiter and  *)
(* the requests of Admin.                                                  *)
(*                                                                         *)
(* A slot of Conns is a socket; once it is closed another may take it.     *)
(* Each callback of the server is one action; what the limiters decide, a  *)
(* refusal or a started handshake, belongs to the callback that asks.      *)
(***************************************************************************)
EXTENDS Admin, Limiter

CONSTANTS
  Addrs,        \* addresses of clients
  Peer,         \* the address a socket shows for a client: itself or its proxy
  TrustProxy,   \* gateway.trustProxy
  Conns,        \* sockets that are open together
  Limits,       \* the configurations of "upgrade", "conn" and "auth"
  HandshakeTime, \* the steps of the clock a handshake may last
  MaxTries      \* bound: the connections that are attempted

ASSUME EdgeAssumption ==
  /\ Addrs # {} /\ Peer \in [Addrs -> Addrs] /\ TrustProxy \in BOOLEAN
  /\ IsFiniteSet(Conns)
  /\ Limits \in [{"upgrade", "conn", "auth"} -> LimitConfig]
  /\ HandshakeTime \in Nat /\ MaxTries \in Nat
  /\ Loads \subseteq [start : 1..Horizon, tries : 0..MaxTries, requests : SUBSET Requests,
                      links : SUBSET Links, anomalies : 0..MaxAnomalies]

\* createAuthLimiter: no lockout ends before its attempts have left the window.
ASSUME AuthAssumption ==
  LET L == Limits["auth"]
  IN L.attempts >= 1 /\ L.window >= 1 /\ L.lockout >= L.window /\ L.maxLockout >= L.window

VARIABLES
  limiter,  \* the entries of the three limiters
  socket,   \* "none", "open" or "closing" (close or terminate was called)
  phase,    \* "greeting" and "attached" connections; the others are over
  since,    \* when the handshake of a connection began
  addr,     \* the address a connection comes from
  pong,     \* pongReceived
  gone,     \* the peer answers no more, without having closed
  tries,    \* how many connections were attempted
  failed,   \* when handshakes from an address failed, within the window
  stopping, \* stop has been called
  exited    \* the process has ended

connVars == <<socket, phase, since, addr, pong, gone>>
edgeVars == <<limiter, connVars, tries, failed, stopping, exited>>
vars == <<adminVars, edgeVars>>

Kinds == DOMAIN Limits

TypeOK ==
  /\ AdminTypeOK
  /\ limiter \in [Kinds -> [Addrs -> [times : Seq(Nat), until : Nat, lockouts : Nat, last : Nat]]]
  /\ \A k \in Kinds, a \in Addrs :
       /\ Len(limiter[k][a].times) <= Limits[k].attempts
       /\ limiter[k][a].until <= limiter[k][a].last + Max({Limits[k].lockout, Limits[k].maxLockout})
  /\ socket \in [Conns -> {"none", "open", "closing"}]
  /\ phase \in [Conns -> {"over", "greeting", "attached"}]
  /\ since \in [Conns -> Nat]
  /\ addr \in [Conns -> Addrs]
  /\ pong \in [Conns -> BOOLEAN] /\ gone \in [Conns -> BOOLEAN]
  /\ tries \in 0..MaxTries
  /\ failed \in [Addrs -> Seq(Nat)]
  /\ stopping \in BOOLEAN /\ exited \in BOOLEAN

InitWith(load) ==
  /\ AdminInit(load)
  /\ limiter = [k \in Kinds |-> [a \in Addrs |-> Fresh]]
  /\ socket = [c \in Conns |-> "none"]
  /\ phase = [c \in Conns |-> "over"]
  /\ since = [c \in Conns |-> 0]
  /\ addr \in {[c \in Conns |-> a] : a \in {CHOOSE b \in Addrs : TRUE}}
  /\ pong = [c \in Conns |-> TRUE]
  /\ gone = [c \in Conns |-> FALSE]
  /\ tries = load.tries
  /\ failed = [a \in Addrs |-> <<>>]
  /\ stopping = FALSE /\ exited = FALSE

Init == \E load \in Loads : InitWith(load)

-----------------------------------------------------------------------------
\* The address the upgrade limiter goes by, and the one the others go by.
UpgradeKey(a) == IF TrustProxy THEN a ELSE Peer[a]

\* What a check of limiter k leaves, and whether it allows.
After(k, a) == Checked(Limits[k], limiter[k][a], now)
Passes(k, a) == Allowed(Limits[k], Forgiven(Limits[k], limiter[k][a], now), now)
AuthLeft(a) == Remaining(Limits["auth"], limiter["auth"][a], now)

\* A socket the server closes at once, and one whose handshake begins.
Rejects(c) ==
  /\ socket' = [socket EXCEPT ![c] = "closing"]
  /\ phase' = [phase EXCEPT ![c] = "over"]
  /\ since' = since
Greets(c) ==
  /\ socket' = [socket EXCEPT ![c] = "open"]
  /\ phase' = [phase EXCEPT ![c] = "greeting"]
  /\ since' = [since EXCEPT ![c] = now]

\* Mutant: the failures of an address are not asked for.
UpgradeUnasked(c, a) ==
  LET up == After("upgrade", UpgradeKey(a))
      key == Peer[a]
  IN /\ socket[c] = "none" /\ ~stopping /\ tries < MaxTries
     /\ tries' = tries + 1
     /\ addr' = [addr EXCEPT ![c] = key]
     /\ Passes("upgrade", UpgradeKey(a)) /\ breaker = "closed" /\ Passes("conn", key)
     /\ limiter' = [limiter EXCEPT !["upgrade"][UpgradeKey(a)] = up,
                                   !["conn"][key] = After("conn", key)]
     /\ Greets(c)
     /\ UNCHANGED <<adminVars, pong, gone, failed, stopping, exited>>

\* An upgrade request: refused by its limiter before there is a socket; closed
\* while the breaker is open, by the connection limiter, or for the failures
\* of its address; else the handshake begins.
Upgrade(c, a) ==
  LET up == After("upgrade", UpgradeKey(a))
      key == Peer[a]
  IN /\ socket[c] = "none" /\ ~stopping /\ tries < MaxTries
     /\ tries' = tries + 1
     /\ addr' = [addr EXCEPT ![c] = key]
     /\ \/ /\ ~Passes("upgrade", UpgradeKey(a))
           /\ limiter' = [limiter EXCEPT !["upgrade"][UpgradeKey(a)] = up]
           /\ UNCHANGED <<socket, phase, since>>
        \/ /\ Passes("upgrade", UpgradeKey(a)) /\ breaker = "open"
           /\ limiter' = [limiter EXCEPT !["upgrade"][UpgradeKey(a)] = up]
           /\ Rejects(c)
        \/ /\ Passes("upgrade", UpgradeKey(a)) /\ breaker = "closed"
           /\ limiter' = [limiter EXCEPT !["upgrade"][UpgradeKey(a)] = up,
                                         !["conn"][key] = After("conn", key)]
           /\ IF Passes("conn", key) /\ AuthLeft(key) > 0 THEN Greets(c) ELSE Rejects(c)
     /\ UNCHANGED <<adminVars, pong, gone, failed, stopping, exited>>

\* performHandshake has failed: the failure is counted against the address.
Fails(c) ==
  /\ limiter' = [limiter EXCEPT !["auth"][addr[c]] = After("auth", addr[c])]
  /\ failed' = [failed EXCEPT ![addr[c]] = Append(@, now)]
  /\ phase' = [phase EXCEPT ![c] = "over"]

\* The first frame decides: it is refused for the first of its defects, from
\* its size to its credentials, or the connection is attached; frames still
\* arrive on a socket that is being closed.
FirstFrame(c, good) ==
  /\ phase[c] = "greeting" /\ ~gone[c]
  /\ \/ /\ good
        /\ phase' = [phase EXCEPT ![c] = "attached"]
        /\ UNCHANGED <<socket, limiter, failed>>
     \/ /\ ~good
        /\ Fails(c)
        /\ socket' = [socket EXCEPT ![c] = "closing"]
  /\ UNCHANGED <<adminVars, since, addr, pong, gone, tries, stopping, exited>>

\* The timer of a handshake, which is shorter than a step of the clock or two.
HandshakeTimeout(c) ==
  /\ phase[c] = "greeting"
  /\ Fails(c)
  /\ socket' = [socket EXCEPT ![c] = "closing"]
  /\ UNCHANGED <<adminVars, since, addr, pong, gone, tries, stopping, exited>>

\* The close event of a socket, which its peer closed or the server did.
Closed(c) ==
  /\ socket[c] # "none"
  /\ socket[c] = "closing" \/ ~gone[c]
  /\ socket' = [socket EXCEPT ![c] = "none"]
  /\ since' = [since EXCEPT ![c] = 0]
  /\ pong' = [pong EXCEPT ![c] = TRUE]
  /\ gone' = [gone EXCEPT ![c] = FALSE]
  /\ \/ phase[c] = "greeting" /\ Fails(c)
     \/ /\ phase[c] # "greeting"
        /\ phase' = [phase EXCEPT ![c] = "over"]
        /\ UNCHANGED <<limiter, failed>>
  /\ UNCHANGED <<adminVars, addr, tries, stopping, exited>>

\* The peer's machine is lost: no close event comes.
Vanishes(c) ==
  /\ socket[c] = "open" /\ ~gone[c]
  /\ gone' = [gone EXCEPT ![c] = TRUE]
  /\ UNCHANGED <<adminVars, limiter, socket, phase, since, addr, pong, tries, failed,
                 stopping, exited>>

\* attachHeartbeat: the next ping finds no answer to the last one, or is sent.
Beat(c) ==
  /\ phase[c] = "attached" /\ socket[c] # "none"
  /\ pong' = [pong EXCEPT ![c] = FALSE]
  /\ socket' = IF pong[c] THEN socket ELSE [socket EXCEPT ![c] = "closing"]
  /\ UNCHANGED <<adminVars, limiter, phase, since, addr, gone, tries, failed, stopping, exited>>

Pong(c) ==
  /\ phase[c] = "attached" /\ ~pong[c] /\ ~gone[c]
  /\ pong' = [pong EXCEPT ![c] = TRUE]
  /\ UNCHANGED <<adminVars, limiter, socket, phase, since, addr, gone, tries, failed,
                 stopping, exited>>

\* The idle timer of an attached connection.
Idle(c) ==
  /\ phase[c] = "attached" /\ socket[c] = "open"
  /\ socket' = [socket EXCEPT ![c] = "closing"]
  /\ UNCHANGED <<adminVars, limiter, phase, since, addr, pong, gone, tries, failed,
                 stopping, exited>>

-----------------------------------------------------------------------------
\* A limiter's timer fires every second window.
Cleanup(k) ==
  /\ now % (2 * Limits[k].window) = 0 /\ ~stopping
  /\ limiter' = [limiter EXCEPT ![k] = [a \in Addrs |-> Cleaned(Limits[k], limiter[k][a], now)]]
  /\ limiter' # limiter
  /\ UNCHANGED <<adminVars, connVars, tries, failed, stopping, exited>>

\* Mutant: the server waits for its clients without closing them.
StopKeepsClients(r) ==
  /\ Serves(r, "flush", "stop")
  /\ stopping' = TRUE
  /\ limiter' = [k \in Kinds |-> [a \in Addrs |-> Fresh]]
  /\ UNCHANGED <<now, breakerVars, linkVars, paused, trail, connVars, tries, failed, exited>>

\* The flush of a kill has ended, whether it failed or not, and stop runs: the
\* limiters are emptied and every client is closed.
Stop(r) ==
  /\ Serves(r, "flush", "stop")
  /\ stopping' = TRUE
  /\ limiter' = [k \in Kinds |-> [a \in Addrs |-> Fresh]]
  /\ socket' = [c \in Conns |-> IF socket[c] = "open" THEN "closing" ELSE socket[c]]
  /\ UNCHANGED <<now, breakerVars, linkVars, paused, trail, phase, since, addr, pong, gone,
                 tries, failed, exited>>

\* Both servers have called back: no socket is left.  The process ends.
Exit(r) ==
  /\ serving[r] = "stop" /\ \A c \in Conns : socket[c] = "none"
  /\ exited' = TRUE
  /\ UNCHANGED <<adminVars, limiter, connVars, tries, failed, stopping>>

\* The handshake timer is not later than a step of the clock.  An attempt that
\* leaves its window is dropped here: every use of the attempts drops it first.
Tick ==
  /\ now < Horizon
  /\ \A c \in Conns : phase[c] = "greeting" => now - since[c] < HandshakeTime
  /\ now' = now + 1
  /\ failed' = [a \in Addrs |-> Kept(failed[a], {t \in Nat : t > now' - Limits["auth"].window})]
  /\ limiter' = [k \in Kinds |-> [a \in Addrs |->
                   [limiter[k][a] EXCEPT !.times = Recent(Limits[k], limiter[k][a], now')]]]
  /\ UNCHANGED <<breakerVars, linkVars, paused, serving, trail, connVars, tries, stopping,
                 exited>>

ConnStep(c) ==
  \/ \E a \in Addrs : Upgrade(c, a)
  \/ \E good \in BOOLEAN : FirstFrame(c, good)
  \/ HandshakeTimeout(c) \/ Closed(c) \/ Vanishes(c) \/ Beat(c) \/ Pong(c) \/ Idle(c)

Next ==
  /\ ~exited
  /\ \/ Tick
     \/ AdminStep /\ UNCHANGED edgeVars
     \/ \E c \in Conns : ConnStep(c)
     \/ \E k \in Kinds : Cleanup(k)
     \/ \E r \in Requests : Stop(r) \/ Exit(r)

\* Timers fire, a socket the server closes is closed in the end (ws destroys
\* it after a while), and a kill that has begun goes on.
Fairness ==
  /\ WF_vars(~exited /\ \E c \in Conns : HandshakeTimeout(c))
  /\ WF_vars(~exited /\ \E c \in Conns : socket[c] = "closing" /\ Closed(c))
  /\ WF_vars(~exited /\ \E r \in Requests :
               (KillTimer(r) /\ UNCHANGED edgeVars) \/ Stop(r) \/ Exit(r))
  /\ \A c \in Conns : WF_vars(~exited /\ Beat(c))

Spec == Init /\ [][Next]_vars /\ Fairness

-----------------------------------------------------------------------------
(* Properties *)

\* Handshakes that run together are all counted when they fail
\* (connection.ts:97): in no window do more fail from an address than the
\* limit and the sockets that had passed the check before it was reached; of
\* these, the two that reach the limit and begin the lockout apart, one may
\* fail during the lockout and be in the window that follows it.
FailuresBounded ==
  \A a \in Addrs :
    Len(failed[a]) <= Limits["auth"].attempts - 1 + Cardinality(Conns)
                        + Max({0, Cardinality(Conns) - 2})

\* A lockout's growth is forgotten only when no lockout is in force and the
\* last one began long enough ago (rate-limiter.ts:71 and :120), by a check or
\* by the timer, until the server stops.
BackoffKept ==
  [][\A k \in Kinds, a \in Addrs :
       limiter'[k][a].lockouts < limiter[k][a].lockouts =>
         \/ stopping'
         \/ /\ now >= limiter[k][a].until
            /\ now - limiter[k][a].last >= Limits[k].reset]_vars

\* No connection waits forever for a first frame or for a peer that is lost,
\* and a kill ends the process whatever its clients do.
Settles ==
  /\ \A c \in Conns : (phase[c] = "greeting" \/ (phase[c] = "attached" /\ gone[c]))
                         ~> (phase[c] = "attached" /\ ~gone[c]) \/ phase[c] = "over" \/ exited
  /\ \A r \in Requests : (serving[r] = "timer") ~> exited
=============================================================================
