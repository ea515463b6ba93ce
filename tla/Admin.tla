-------------------------------- MODULE Admin --------------------------------
(***************************************************************************)
(* The circuit breaker (src/security/circuit-breaker.ts), the kill links   *)
(* of outbound messages (src/security/kill-tokens.ts), and the HTTP        *)
(* requests that read and move them (src/gateway/http/admin.ts, routes.ts, *)
(* greenlight.ts): several requests are served at once and each waits for  *)
(* its body, a flag on disk, provider checks or a timer.                   *)
(***************************************************************************)
EXTENDS Integers, FiniteSets, SequencesExt, Filter

CONSTANTS
  Requests,   \* HTTP requests, each served once
  Links,      \* kill tokens, each issued once
  MaxActive,  \* KILL_TOKEN_MAX_ACTIVE
  Ttl,        \* the time a kill token is good for
  Threshold,  \* anomalies in a window that trip the breaker
  AnomalyWindow,
  MaxAnomalies, \* bound: the anomalies of a behaviour
  Horizon,      \* bound: the clock stops here
  Loads         \* bound: how much of each bound a behaviour starts with

ASSUME AdminAssumption ==
  /\ IsFiniteSet(Requests) /\ IsFiniteSet(Links)
  /\ MaxActive \in Nat \ {0} /\ Ttl \in Nat \ {0} /\ Threshold \in Nat \ {0}
  /\ AnomalyWindow \in Nat /\ MaxAnomalies \in Nat /\ Horizon \in Nat

VARIABLES
  now,       \* the time
  breaker,   \* "closed" or "open"
  anomalies, \* when the anomalies of the window happened
  counted,   \* how many anomalies there were in all
  links,     \* the unredeemed kill tokens, oldest first
  expires,   \* when an issued token expires, 0 before it is issued
  honoured,  \* when a token was redeemed, each time it was
  paused,    \* the pause flag on disk
  serving,   \* what each request is waiting for
  trail,     \* the audit entries of privileged operations
  auto       \* the breaker was tripped by anomalies since its last reset

breakerVars == <<breaker, anomalies, counted, auto>>
linkVars == <<links, expires, honoured>>
adminVars == <<now, breakerVars, linkVars, paused, serving, trail>>

Waits == {"new", "body", "flag", "providers", "failing", "timer", "flush", "stop",
          "green", "red", "done"}
Entry == [op : {"breaker", "kill", "link"},
          what : {"trip", "reset", "shutdown", "redeemed", "refused", "denied"}]

AdminTypeOK ==
  /\ now \in 1..Horizon
  /\ breaker \in {"closed", "open"} /\ auto \in BOOLEAN /\ paused \in BOOLEAN
  /\ anomalies \in Seq(1..Horizon) /\ Len(anomalies) <= Threshold
  /\ counted \in 0..MaxAnomalies
  /\ links \in Seq(Links) /\ Len(links) <= MaxActive
  /\ expires \in [Links -> Nat]
  /\ honoured \in [Links -> Seq(1..Horizon)]
  /\ serving \in [Requests -> Waits]
  /\ trail \in Seq(Entry)

\* A gateway has just started; the load says which requests and links there
\* will be, how many anomalies are left out and how far the clock may run.
AdminInit(load) ==
  /\ now = load.start
  /\ breaker = "closed" /\ anomalies = <<>> /\ counted = load.anomalies /\ auto = FALSE
  /\ links = <<>>
  /\ expires = [l \in Links |-> IF l \in load.links THEN 0 ELSE 1]
  /\ honoured = [l \in Links |-> <<>>]
  /\ paused = FALSE
  /\ serving = [r \in Requests |-> IF r \in load.requests THEN "new" ELSE "done"]
  /\ trail = <<>>

Recorded(op, what) == trail' = Append(trail, [op |-> op, what |-> what])
Serves(r, from, to) == serving[r] = from /\ serving' = [serving EXCEPT ![r] = to]

-----------------------------------------------------------------------------
\* trip does nothing when the breaker is open, reset when it is closed.
Trip == breaker' = "open" /\ UNCHANGED <<anomalies, counted, auto>>

Reset ==
  /\ breaker' = "closed"
  /\ anomalies' = IF breaker = "open" THEN <<>> ELSE anomalies
  /\ auto' = FALSE
  /\ UNCHANGED counted

\* The times that are within the window of anomalies.
Window == {t \in Nat : t >= now - AnomalyWindow}

\* recordAnomaly: the window slides and the breaker trips at the threshold.
Anomaly ==
  LET held == Kept(Append(anomalies, now), Window)
      trips == Len(held) >= Threshold
  IN /\ counted < MaxAnomalies
     /\ breaker = "closed"
     /\ counted' = counted + 1
     /\ anomalies' = held
     /\ breaker' = IF trips THEN "open" ELSE breaker
     /\ auto' = (auto \/ trips)
     /\ UNCHANGED <<now, linkVars, paused, serving, trail>>

\* The breaker's own timer drops the anomalies that have left the window.
ForgetAnomalies ==
  /\ anomalies' = Kept(anomalies, Window)
  /\ anomalies' # anomalies
  /\ UNCHANGED <<now, breaker, counted, auto, linkVars, paused, serving, trail>>

-----------------------------------------------------------------------------
\* A token that has not expired.
Valid(l) == expires[l] > now

Unexpired == Kept(links, {l \in Links : Valid(l)})

\* ensureCapacity: expired tokens go first, then the oldest ones.
WithRoom ==
  IF Len(links) < MaxActive THEN links
  ELSE IF Len(Unexpired) < MaxActive THEN Unexpired
  ELSE Tail(Unexpired)

\* issueKillToken, for a message that is sent out.
IssueLink(l) ==
  /\ expires[l] = 0
  /\ links' = Append(WithRoom, l)
  /\ expires' = [expires EXCEPT ![l] = now + Ttl]
  /\ UNCHANGED <<now, breakerVars, honoured, paused, serving, trail>>

\* The sweeper's timer.
Sweep ==
  /\ Unexpired # links
  /\ links' = Unexpired
  /\ UNCHANGED <<now, breakerVars, expires, honoured, paused, serving, trail>>

\* The tokens left when l is looked up: it is deleted before its expiry is read.
Without(l) == Kept(links, Links \ {l})

\* GET /admin/kill-token: handleKillToken with verifyAndRedeem.
LinkOpened(r, l) ==
  /\ expires[l] # 0
  /\ Serves(r, "new", "done")
  /\ \/ /\ l \in ToSet(links) /\ Valid(l)
        /\ links' = Without(l)
        /\ honoured' = [honoured EXCEPT ![l] = Append(@, now)]
        /\ Trip
        /\ Recorded("link", "redeemed")
     \/ /\ ~(l \in ToSet(links) /\ Valid(l))
        /\ links' = Without(l)
        /\ Recorded("link", "denied")
        /\ UNCHANGED <<honoured, breakerVars>>
  /\ UNCHANGED <<now, expires, paused>>

-----------------------------------------------------------------------------
\* POST /admin/circuit-breaker with and without the admin token; a GET reads
\* the state and changes nothing.
BreakerRequest(r) ==
  \/ /\ Serves(r, "new", "body")
     /\ UNCHANGED <<now, breakerVars, linkVars, paused, trail>>
  \/ /\ Serves(r, "new", "done")
     /\ Recorded("breaker", "denied")
     /\ UNCHANGED <<now, breakerVars, linkVars, paused>>

\* Mutant: the reset is not recorded.
BreakerBodySilent(r, action) ==
  /\ Serves(r, "body", "done")
  /\ \/ action = "trip" /\ Trip /\ Recorded("breaker", "trip")
     \/ action = "reset" /\ Reset /\ UNCHANGED trail
     \/ action = "other" /\ UNCHANGED breakerVars /\ Recorded("breaker", "refused")
  /\ UNCHANGED <<now, linkVars, paused>>

\* Its body has been read: an action, or too long, no JSON or no such action.
BreakerBody(r, action) ==
  /\ Serves(r, "body", "done")
  /\ \/ action = "trip" /\ Trip /\ Recorded("breaker", "trip")
     \/ action = "reset" /\ Reset /\ Recorded("breaker", "reset")
     \/ action = "other" /\ UNCHANGED breakerVars /\ Recorded("breaker", "refused")
  /\ UNCHANGED <<now, linkVars, paused>>

\* POST /admin/kill: the answer goes out and a timer is set.
KillRequest(r) ==
  /\ \/ Serves(r, "new", "timer") /\ Recorded("kill", "shutdown")
     \/ Serves(r, "new", "done") /\ Recorded("kill", "denied")
  /\ UNCHANGED <<now, breakerVars, linkVars, paused>>

\* The timer of a kill fires and the audit log is flushed.
KillTimer(r) ==
  /\ Serves(r, "timer", "flush")
  /\ UNCHANGED <<now, breakerVars, linkVars, paused, trail>>

-----------------------------------------------------------------------------
\* GET /greenlight: evaluateGreenlight reads the pause flag from disk first.
GreenlightRequest(r) ==
  /\ Serves(r, "new", "flag")
  /\ UNCHANGED <<now, breakerVars, linkVars, paused, trail>>

\* Then the breaker, and asks the providers.
GreenlightRead(r) ==
  /\ Serves(r, "flag", IF paused \/ breaker = "open" THEN "failing" ELSE "providers")
  /\ UNCHANGED <<now, breakerVars, linkVars, paused, trail>>

\* The providers have answered or timed out: the verdict is green if they are
\* healthy and nothing failed before, whatever has happened meanwhile.
GreenlightAnswered(r) ==
  /\ \/ Serves(r, "providers", "green")
     \/ Serves(r, "providers", "red")
     \/ Serves(r, "failing", "red")
  /\ UNCHANGED <<now, breakerVars, linkVars, paused, trail>>

\* crabmeat pause and resume, in another process, while someone may ask.
SetPause(b) ==
  /\ paused # b /\ \E r \in Requests : serving[r] \in {"new", "flag"}
  /\ paused' = b
  /\ UNCHANGED <<now, breakerVars, linkVars, serving, trail>>

AdminStep ==
  \/ Anomaly \/ ForgetAnomalies \/ Sweep
  \/ \E l \in Links : IssueLink(l)
  \/ \E r \in Requests, l \in Links : LinkOpened(r, l)
  \/ \E r \in Requests : BreakerRequest(r) \/ KillRequest(r) \/ KillTimer(r)
  \/ \E r \in Requests, a \in {"trip", "reset", "other"} : BreakerBody(r, a)
  \/ \E r \in Requests : GreenlightRequest(r) \/ GreenlightRead(r) \/ GreenlightAnswered(r)
  \/ \E b \in BOOLEAN : SetPause(b)

-----------------------------------------------------------------------------
(* Properties *)

\* A kill link works once, and only before it expires (kill-tokens.ts), with
\* tokens swept, evicted and opened at any moment.
LinksOnce ==
  \A l \in Links :
    /\ Len(honoured[l]) <= 1
    /\ \A k \in DOMAIN honoured[l] : honoured[l][k] < expires[l]

\* The entries that say the breaker moved.
Moves == Kept(trail, {e \in Entry : e.what \in {"trip", "reset", "redeemed"}})

\* The audit trail tells where the breaker stands (admin.ts, AdminContext):
\* it is open exactly if the last entry that moved it opened it, or anomalies
\* have tripped it since it was last reset.
TrailTells ==
  (breaker = "open") <=>
     auto \/ (Moves # <<>> /\ Last(Moves).what \in {"trip", "redeemed"})

\* Both: what a link does is done once and told.
KillsTold == AdminTypeOK /\ LinksOnce /\ TrailTells
=============================================================================
