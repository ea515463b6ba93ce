------------------------------- MODULE Answers -------------------------------
(***************************************************************************)
(* The way of a chat message from the gateway to an answer                 *)
(* (handleChatSend in src/gateway/ws/handler.ts): the arbiter bridge       *)
(* (src/agents/arbiter-bridge.ts), the layer 2 router                      *)
(* (src/agents/layer2/) and the first provider call of a turn with its     *)
(* refusal interception (streamProviderTurn in src/agents/inference.ts,    *)
(* refusal-detect.ts), over the model calls of Models.  What a turn does   *)
(* with the answer is in Turn.                                             *)
(*                                                                         *)
(* Two buffers hold back the lead of a text until it can be judged: one    *)
(* for the hedges of layer 2, one for the refusals of a turn.              *)
(***************************************************************************)
EXTENDS Models

CONSTANTS
  Messages,   \* chat messages, all of one session
  Layer2,     \* layer 2 is enabled, with a provider within its thresholds
  CacheTime,  \* CACHE_TTL_MS of the health check
  LeadTokens, \* the tokens that fill a lead buffer
  Class,      \* what a message's text is classified as, or "none"
  Allowlist,  \* contentClassAllowlist of refusalFallback, empty when it is off
  Unclassified, \* rerouteUnclassified of refusalFallback
  Loads       \* bound: the states a behaviour starts in

Call(m, use) == <<m, use>>
Uses == {"consult", "ping", "local", "turn", "reroute"}

ASSUME AnswersAssumption ==
  /\ Calls = Messages \X Uses
  /\ \A m \in Messages :
       /\ Via[Call(m, "consult")] = "chain" /\ Via[Call(m, "turn")] = "chain"
       /\ Via[Call(m, "ping")] = "own" /\ Via[Call(m, "local")] = "own"
       /\ Via[Call(m, "reroute")] = "direct"
       /\ Target[Call(m, "ping")] = Target[Call(m, "local")]
  /\ Layer2 \in BOOLEAN /\ CacheTime \in Nat /\ LeadTokens \in Nat
  /\ Unclassified \in BOOLEAN
  /\ \A load \in Loads :
       /\ load.stage \in [Messages -> {"new", "gate", "over"}]
       /\ load.health \in [well : BOOLEAN, at : 0..Horizon]
       /\ load.history \subseteq BOOLEAN
       /\ load.now \in 1..Horizon

VARIABLES
  history,  \* the session's history holds tool arguments that are no JSON
  stage,    \* where a message is
  drained,  \* the tokens of its consultation that were yielded
  health,   \* the cached health check: its verdict, and when, 0 for none
  lead,     \* the buffer of layer 2: "open", or decided: "clean" or "caught"
  refusal,  \* the buffer of the turn, or "off"
  layers,   \* whose text the client has seen, in order
  ended,    \* the ends the client was told: "done" or "error"
  held,     \* the exchanges in the session object a message works on
  saving,   \* layer 2 saves it and nobody waits
  stored    \* the exchanges in the stored session

answerVars ==
  <<history, stage, drained, health, lead, refusal, layers, ended, held, saving, stored>>
vars == <<modelVars, answerVars>>

Stages == {"new", "consult", "execute", "save", "gate", "health", "local", "turn",
           "reroute", "over"}

TypeOK ==
  /\ ModelsTypeOK
  /\ history \in BOOLEAN
  /\ stage \in [Messages -> Stages]
  /\ drained \in [Messages -> Nat]
  /\ health \in [well : BOOLEAN, at : 0..Horizon]
  /\ lead \in [Messages -> {"open", "clean", "caught"}]
  /\ refusal \in [Messages -> {"off", "open", "clean", "caught"}]
  /\ layers \in [Messages -> Seq({"arbiter", "local", "turn", "reroute"})]
  /\ ended \in [Messages -> Seq({"done", "error"})]
  /\ held \in [Messages -> SUBSET Messages]
  /\ saving \in [Messages -> BOOLEAN]
  /\ stored \subseteq Messages

\* A refusal of the message is intercepted: its class is on the allowlist, or
\* it has none.
IsAllowedToReroute(class) == class # "none" /\ class \in Allowlist
Armed(m) == IsAllowedToReroute(Class[m]) \/ (Unclassified /\ Class[m] = "none")

\* The load says where the messages are and what the health cache holds.
Init ==
  /\ \E load \in Loads :
       /\ stage = load.stage /\ health = load.health /\ history \in load.history
       /\ ModelsInit(load.now)
  /\ drained = [m \in Messages |-> 0]
  /\ lead = [m \in Messages |-> "open"]
  /\ refusal = [m \in Messages |-> IF Armed(m) THEN "open" ELSE "off"]
  /\ layers = [m \in Messages |-> <<>>]
  /\ ended = [m \in Messages |-> <<>>]
  /\ held = [m \in Messages |-> {}]
  /\ saving = [m \in Messages |-> FALSE]
  /\ stored = {}

Goes(m, from, to) == stage[m] = from /\ stage' = [stage EXCEPT ![m] = to]
Shows(m, layer) ==
  layers' = [layers EXCEPT ![m] = IF @ # <<>> /\ Last(@) = layer THEN @ ELSE Append(@, layer)]
Tells(m, what) == ended' = [ended EXCEPT ![m] = Append(@, what)]

\* What becomes of a lead buffer that gets a chunk, and of one that has to
\* decide.  A lead is held until it is full; then it is found clean and goes
\* out with all that follows, or it is caught and nothing goes out.
Decided(buffer, empty) ==
  IF buffer # "open" THEN {buffer} ELSE IF empty THEN {"clean"} ELSE {"clean", "caught"}
Fed(buffer, full) == IF full THEN Decided(buffer, FALSE) ELSE {buffer}
Passes(buffer) == buffer \in {"off", "clean"}
Fills(m, use) == tokens[Call(m, use)] + 1 >= LeadTokens

Outcome(m, use) == end[Call(m, use)]
IsOver(m, use) == step[Call(m, use)] = "over"

-----------------------------------------------------------------------------
\* The session is loaded, and the arbiter finds no intent in the text.
PassesArbiter(m) ==
  /\ Goes(m, "new", "gate")
  /\ held' = [held EXCEPT ![m] = stored]
  /\ UNCHANGED <<modelVars, history, drained, health, lead, refusal, layers, ended, saving, stored>>

\* It finds one and consults the model: the generator of createArbiterProviderFn
\* starts the stream.  What it sends holds no calls.
Consults(m) ==
  /\ Goes(m, "new", "consult")
  /\ held' = [held EXCEPT ![m] = stored]
  /\ TryStream(Call(m, "consult"), FALSE)
  /\ UNCHANGED <<history, drained, health, lead, refusal, layers, ended, saving, stored>>

\* The generator yields a token of its queue.
Yields(m) ==
  /\ stage[m] = "consult" /\ drained[m] < tokens[Call(m, "consult")]
  /\ drained' = [drained EXCEPT ![m] = @ + 1]
  /\ UNCHANGED <<modelVars, history, stage, health, lead, refusal, layers, ended, held, saving, stored>>

\* Mutant: an error does not wake the generator.
FlaggedDone(m) == Outcome(m, "consult") = "done"

\* done and error set the flag the generator waits for; it is woken by tokens
\* and by these two events, by nothing else.
Flagged(m) == Outcome(m, "consult") \in {"done", "error"}

Drained(m) == drained[m] = tokens[Call(m, "consult")]

\* The consultation is complete; or it has failed, which is told as an answer.
ConsultEnds(m) ==
  /\ Drained(m) /\ Flagged(m)
  /\ \/ /\ Outcome(m, "consult") = "done"
        /\ Goes(m, "consult", "execute")
        /\ UNCHANGED <<layers, ended>>
     \/ /\ Outcome(m, "consult") = "error"
        /\ Goes(m, "consult", "over")
        /\ Shows(m, "arbiter") /\ Tells(m, "done")
  /\ UNCHANGED <<modelVars, history, drained, health, lead, refusal, held, saving, stored>>

\* The intent is executed; the receipt goes out, the exchange is noted.
Executed(m) ==
  /\ Goes(m, "execute", "save")
  /\ Shows(m, "arbiter") /\ Tells(m, "done")
  /\ held' = [held EXCEPT ![m] = @ \cup {m}]
  /\ UNCHANGED <<modelVars, history, drained, health, lead, refusal, saving, stored>>

\* The awaited save ends.
Saved(m) ==
  /\ Goes(m, "save", "over")
  /\ stored' = held[m]
  /\ UNCHANGED <<modelVars, history, drained, health, lead, refusal, layers, ended, held, saving>>

-----------------------------------------------------------------------------
\* What the health check says of layer 2, if it was asked recently.
Cached == health.at # 0 /\ now - health.at < CacheTime

\* The turn begins with its first provider call.
StartsTurn(m, from) ==
  /\ Goes(m, from, "turn")
  /\ TryStream(Call(m, "turn"), history)

\* The gate of layer 2: off, known to be down, known to be well, to be asked.
Gate(m) ==
  /\ \/ (Layer2 => Cached /\ ~health.well) /\ StartsTurn(m, "gate")
     \/ /\ Layer2 /\ Cached /\ health.well
        /\ Goes(m, "gate", "local") /\ TryProvider(Call(m, "local"), FALSE)
     \/ /\ Layer2 /\ ~Cached
        /\ Goes(m, "gate", "health") /\ TryProvider(Call(m, "ping"), FALSE)
  /\ UNCHANGED <<history, drained, health, lead, refusal, layers, ended, held, saving, stored>>

\* The race of pingProvider and its timeout: a token or done is an answer, an
\* error is none, and the timeout may come before either.
HealthKnown(m, well) ==
  /\ IF well THEN tokens[Call(m, "ping")] > 0 \/ Outcome(m, "ping") = "done"
             ELSE Outcome(m, "ping") # "done"
  /\ health' = [well |-> well, at |-> now]
  /\ \/ well /\ Goes(m, "health", "local") /\ TryProvider(Call(m, "local"), FALSE)
     \/ ~well /\ StartsTurn(m, "health")
  /\ UNCHANGED <<history, drained, lead, refusal, layers, ended, held, saving, stored>>

\* Mutant: the lead goes out while it is collected.
LocalTokenUnheld(m) ==
  /\ stage[m] = "local" /\ Token(Call(m, "local"))
  /\ Shows(m, "local")
  /\ \E to \in Fed(lead[m], Fills(m, "local")) : lead' = [lead EXCEPT ![m] = to]
  /\ UNCHANGED <<history, stage, drained, health, refusal, ended, held, saving, stored>>

\* A token of layer 2 goes through its lead buffer.
LocalToken(m) ==
  /\ stage[m] = "local" /\ Token(Call(m, "local"))
  /\ \E to \in Fed(lead[m], Fills(m, "local")) :
       /\ lead' = [lead EXCEPT ![m] = to]
       /\ IF Passes(to) THEN Shows(m, "local") ELSE UNCHANGED layers
  /\ UNCHANGED <<history, stage, drained, health, refusal, ended, held, saving, stored>>

\* handleLayer2 after the stream: an error or nothing to show leaves the
\* message to the turn, whatever was shown.
LocalFails(m) ==
  /\ Outcome(m, "local") = "error" \/ tokens[Call(m, "local")] = 0
  /\ IsOver(m, "local")
  /\ StartsTurn(m, "local")
  /\ UNCHANGED <<history, drained, health, lead, refusal, layers, ended, held, saving, stored>>

\* A lead that is still open is decided now.  A hedge escalates; an answer is
\* ended, noted, and saved by nobody's leave.
LocalEnds(m, verdict) ==
  /\ Outcome(m, "local") = "done" /\ tokens[Call(m, "local")] > 0
  /\ verdict \in Decided(lead[m], FALSE)
  /\ lead' = [lead EXCEPT ![m] = verdict]
  /\ \/ /\ verdict = "caught"
        /\ StartsTurn(m, "local")
        /\ UNCHANGED <<layers, ended, held, saving>>
     \/ /\ verdict = "clean"
        /\ Goes(m, "local", "over")
        /\ Shows(m, "local") /\ Tells(m, "done")
        /\ held' = [held EXCEPT ![m] = @ \cup {m}]
        /\ saving' = [saving EXCEPT ![m] = TRUE]
        /\ UNCHANGED modelVars
  /\ UNCHANGED <<history, drained, health, refusal, stored>>

\* The save that nobody waits for ends, or fails with a warning.
StraySave(m) ==
  /\ saving[m]
  /\ saving' = [saving EXCEPT ![m] = FALSE]
  /\ stored' \in {stored, held[m]}
  /\ UNCHANGED <<modelVars, history, stage, drained, health, lead, refusal, layers, ended, held>>

-----------------------------------------------------------------------------
\* A token of the turn goes through its lead buffer, if it has one; one of the
\* fallback provider does not.
TurnToken(m) ==
  /\ stage[m] = "turn" /\ Token(Call(m, "turn"))
  /\ \E to \in Fed(refusal[m], Fills(m, "turn")) :
       /\ refusal' = [refusal EXCEPT ![m] = to]
       /\ IF Passes(to) THEN Shows(m, "turn") ELSE UNCHANGED layers
  /\ UNCHANGED <<history, stage, drained, health, lead, ended, held, saving, stored>>
RerouteToken(m) ==
  /\ stage[m] = "reroute" /\ Token(Call(m, "reroute"))
  /\ Shows(m, "reroute")
  /\ UNCHANGED <<history, stage, drained, health, lead, refusal, ended, held, saving, stored>>

\* Tool calls and the end of the text make the buffer decide.
TurnStreamEnds(m, called) ==
  /\ stage[m] = "turn" /\ StreamEnds(Call(m, "turn"), called)
  /\ \E to \in Decided(refusal[m], tokens[Call(m, "turn")] = 0) :
       /\ refusal' = [refusal EXCEPT ![m] = to]
       /\ IF refusal[m] = "open" /\ to = "clean" /\ tokens[Call(m, "turn")] > 0
          THEN Shows(m, "turn") ELSE UNCHANGED layers
  /\ UNCHANGED <<history, stage, drained, health, lead, ended, held, saving, stored>>

\* A refusal that comes with tool calls is not rerouted.
Refused(m) ==
  /\ stage[m] = "turn" /\ Outcome(m, "turn") = "done"
  /\ refusal[m] = "caught" /\ ~tools[Call(m, "turn")]

\* The primary's answer is a refusal: a receipt goes out, and another provider
\* is asked, once.
Reroutes(m) ==
  /\ Refused(m)
  /\ Goes(m, "turn", "reroute")
  /\ TryProvider(Call(m, "reroute"), history)
  /\ Shows(m, "reroute")
  /\ UNCHANGED <<history, drained, health, lead, refusal, ended, held, saving, stored>>

\* Done, or an error: by the turn, or by the gateway for a request that could
\* not be made.  A stream that broke off is not told.
TurnEnds(m) ==
  /\ stage[m] \in {"turn", "reroute"} /\ IsOver(m, stage[m]) /\ ~Refused(m)
  /\ Goes(m, stage[m], "over")
  /\ CASE Outcome(m, stage[m]) = "done" -> Tells(m, "done")
       [] Outcome(m, stage[m]) \in {"error", "thrown"} -> Tells(m, "error")
       [] Outcome(m, stage[m]) = "silent" -> UNCHANGED ended
  /\ UNCHANGED <<modelVars, history, drained, health, lead, refusal, layers, held, saving, stored>>

-----------------------------------------------------------------------------
Arbiter(m) ==
  PassesArbiter(m) \/ Consults(m) \/ Yields(m) \/ ConsultEnds(m) \/ Executed(m) \/ Saved(m)

Routes(m) ==
  \/ Gate(m) \/ LocalFails(m) \/ Reroutes(m) \/ TurnEnds(m)
  \/ \E well \in BOOLEAN : HealthKnown(m, well)
  \/ \E verdict \in {"clean", "caught"} : LocalEnds(m, verdict)

\* A token of a call nobody forwards: a consultation's, or a ping's.
Unforwarded(c) == c[2] \in {"consult", "ping"} /\ Token(c)

\* A call goes on without a word of its stream's end, or comes to it.
StreamStep(c) ==
  /\ \/ Build(c) \/ Unforwarded(c)
     \/ \E trouble \in Troubles : StreamFails(c, trouble)
  /\ UNCHANGED answerVars
Completes(c, called) ==
  \/ c[2] = "turn" /\ TurnStreamEnds(c[1], called)
  \/ c[2] # "turn" /\ (StreamEnds(c, called) \/ (called /\ Rescued(c))) /\ UNCHANGED answerVars

Next ==
  \/ \E m \in Messages :
       \/ Arbiter(m) \/ Routes(m) \/ StraySave(m)
       \/ LocalToken(m) \/ TurnToken(m) \/ RerouteToken(m)
  \/ \E c \in Calls : StreamStep(c) \/ \E called \in BOOLEAN : Completes(c, called)
  \/ (ResetCooldowns \/ Tick) /\ UNCHANGED answerVars

\* A stream ends: the clients of the providers give up on one that does not
\* (timeoutMs).  Callbacks and promises go on.
Fairness ==
  /\ \A c \in Calls :
       WF_vars(\/ (Build(c) \/ \E trouble \in Troubles : StreamFails(c, trouble)) /\ UNCHANGED answerVars
               \/ Completes(c, FALSE))
  /\ \A m \in Messages : WF_vars(Arbiter(m) \/ Routes(m)) /\ WF_vars(StraySave(m))

Spec == Init /\ [][Next]_vars /\ Fairness

-----------------------------------------------------------------------------
(* Properties *)

\* Behind the chain, its cooldowns and its failover a caller hears one
\* provider only: no text is stitched together from two, tool calls come with
\* done, and an error after a text is only told past the chain
\* (model-select.ts).
AsOneStream == Stream!Spec

\* A provider whose cooldown runs is asked by nobody who began after it was
\* cooled: calls that had already decided who is available still may
\* (model-select.ts:158), and layer 2 and its ping, which bypass the selector.
CoolingSpared ==
  [][\A c \in Calls :
       (Build(c) /\ Via[c] # "own" /\ now < until[Head(queue[c])])
          => began[c] <= until[Head(queue[c])] - CoolTime]_vars

\* The client is told at most one end.  It sees no text of a local model that
\* hedged (escalation.ts), nor of a turn that was caught refusing, whose place
\* the fallback provider takes and no other turn's (refusal-detect.ts); and it
\* sees text of two layers only when the local stream failed after its lead
\* had gone out.
SeenOnce ==
  /\ TypeOK
  /\ \A m \in Messages :
       /\ Len(ended[m]) <= 1
       /\ lead[m] = "caught" => "local" \notin ToSet(layers[m])
       /\ refusal[m] = "caught" => "turn" \notin ToSet(layers[m])
       /\ "reroute" \in ToSet(layers[m]) => refusal[m] = "caught"
       /\ Len(layers[m]) > 1 =>
            layers[m][1] = "local" /\ Len(layers[m]) = 2 /\ Outcome(m, "local") = "error"
       /\ ended[m] # <<>> => stage[m] \in {"save", "over"}

\* A message is answered, told an error, or its stream broke off
\* (model-select.ts:185).
Answered ==
  \A m \in Messages :
    stage[m] = "new" ~>
      \/ ended[m] # <<>>
      \/ \E use \in {"consult", "turn"} : Outcome(m, use) = "silent"

\* The generator of the arbiter's consultation is not left waiting when its
\* stream is over (arbiter-bridge.ts).
Woken ==
  \A m \in Messages :
    stage[m] = "consult" /\ IsOver(m, "consult") => Flagged(m)
=============================================================================
