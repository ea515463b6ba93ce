------------------------------- MODULE Models -------------------------------
(***************************************************************************)
(* Model selection (src/agents/model-select.ts) over the streams of the    *)
(* three kinds of providers (src/agents/providers/).  Several calls are    *)
(* under way at once and share the cooldowns of one selector.              *)
(*                                                                         *)
(* A call goes through the failover chain ("chain"), to one provider       *)
(* through the selector ("direct"), or past it ("own").                    *)
(*                                                                         *)
(* The branch for a provider that returns without any event is left out:   *)
(* each of the three emits a done or an error before it returns.           *)
(***************************************************************************)
EXTENDS Integers, SequencesExt, Filter

CONSTANTS
  Calls,      \* calls of a model, each made once
  Via,        \* how a call reaches its provider
  Target,     \* the provider of a call that does not go through the chain
  Providers,
  Kind,       \* "openai", "anthropic" or "ollama"
  Local,      \* the providers with a loopback address
  Uncensored, \* the providers whose role is "uncensored"
  Order,      \* the providers as configured
  Priority,   \* models.priorityMode
  Nobody,
  CoolTime,   \* COOLDOWN_MS in steps of the clock
  MaxTokens,  \* bound: the tokens of the stream of each call
  Horizon     \* bound: the clock stops here

ASSUME ModelsAssumption ==
  /\ Via \in [Calls -> {"chain", "direct", "own"}]
  /\ Target \in [Calls -> Providers]
  /\ Kind \in [Providers -> {"openai", "anthropic", "ollama"}]
  /\ Local \subseteq Providers /\ Uncensored \subseteq Providers
  /\ Order \in Seq(Providers)
  /\ Priority \in {"config-order", "local-first", "api-first"}
  /\ Nobody \notin Providers
  /\ CoolTime \in Nat /\ MaxTokens \in [Calls -> Nat] /\ Horizon \in Nat

VARIABLES
  now,     \* the time
  until,   \* when the cooldown of a provider ends, 0 without one
  began,   \* when a call began, 0 before
  queue,   \* the providers a call will still try; the first is streaming
  step,    \* "idle", "build" (request being made), "stream" or "over"
  broken,  \* the history of a call holds arguments that are no JSON
  source,  \* what the caller has heard, as in ModelStream
  tokens,
  tools,
  end

callVars == <<began, queue, step, broken>>
heardVars == <<source, tokens, tools, end>>
modelVars == <<now, until, callVars, heardVars>>

Stream ==
  INSTANCE ModelStream WITH Patient <- {c \in Calls : Via[c] = "chain"}

ModelsTypeOK ==
  /\ now \in 1..Horizon
  /\ until \in [Providers -> Nat]
  /\ began \in [Calls -> 0..Horizon]
  /\ queue \in [Calls -> Seq(Providers)]
  /\ step \in [Calls -> {"idle", "build", "stream", "over"}]
  /\ \A c \in Calls : queue[c] # <<>> <=> step[c] \in {"build", "stream"}
  /\ broken \in [Calls -> BOOLEAN]
  /\ source \in [Calls -> Providers \cup {Nobody}]
  /\ tokens \in [Calls -> Nat] /\ \A c \in Calls : tokens[c] <= MaxTokens[c]
  /\ tools \in [Calls -> BOOLEAN]
  /\ end \in [Calls -> {"idle", "open", "done", "error", "silent", "thrown"}]

ModelsInit(start) ==
  /\ now = start
  /\ until = [p \in Providers |-> 0]
  /\ began = [c \in Calls |-> 0]
  /\ queue = [c \in Calls |-> <<>>]
  /\ step = [c \in Calls |-> "idle"]
  /\ broken = [c \in Calls |-> FALSE]
  /\ source = [c \in Calls |-> Nobody]
  /\ tokens = [c \in Calls |-> 0]
  /\ tools = [c \in Calls |-> FALSE]
  /\ end = [c \in Calls |-> "idle"]

-----------------------------------------------------------------------------
\* sortProvidersByPriority.
Sorted ==
  LET local == Kept(Order, Local)
      api == Kept(Order, Providers \ Local)
  IN CASE Priority = "config-order" -> Order
       [] Priority = "local-first" -> local \o api
       [] Priority = "api-first" -> api \o local

\* The failover chain.
Chain == Kept(Sorted, Providers \ Uncensored)

Available(p) == now >= until[p]

\* What can go wrong with a provider: a request it finds wrong, also with a
\* text of MODEL_LEVEL_ERROR_PATTERNS, missing rights, a rate limit or an
\* outage, tool arguments it cannot parse, and an error in the middle of a
\* stream.
Troubles == {"request", "model", "rights", "outage", "arguments", "line"}

\* What a kind can report.
Reports(kind) ==
  CASE kind = "openai" -> Troubles \ {"line"}
    [] kind = "anthropic" -> Troubles \ {"line", "arguments"}
    [] kind = "ollama" -> Troubles

\* classifyOpenAIError and the other kinds' rules for advancing at once.
Cascadable(kind, trouble) ==
  \/ kind \in {"openai", "ollama"} /\ trouble \in {"request", "model"}
  \/ kind = "ollama" /\ trouble = "line"

ModelLevel(trouble) == trouble \in {"model", "arguments"}

Cooled(p) == [until EXCEPT ![p] = now + CoolTime]

-----------------------------------------------------------------------------
\* A call is over; what it worked with is gone.
Over(c, how) ==
  /\ step' = [step EXCEPT ![c] = "over"]
  /\ began' = [began EXCEPT ![c] = 0]
  /\ queue' = [queue EXCEPT ![c] = <<>>]
  /\ broken' = [broken EXCEPT ![c] = FALSE]
  /\ end' = [end EXCEPT ![c] = how]
  /\ UNCHANGED <<now, tokens>>

\* A call begins with the providers it will try.
Opens(c, providers, malformed) ==
  /\ step[c] = "idle"
  /\ \/ providers = <<>> /\ Over(c, "error")
     \/ /\ providers # <<>>
        /\ step' = [step EXCEPT ![c] = "build"]
        /\ began' = [began EXCEPT ![c] = now]
        /\ queue' = [queue EXCEPT ![c] = providers]
        /\ broken' = [broken EXCEPT ![c] = malformed]
        /\ end' = [end EXCEPT ![c] = "open"]
        /\ UNCHANGED <<now, tokens>>
  /\ UNCHANGED <<until, source, tools>>

\* Mutant: nobody asks who is available.
TryStreamAnyway(c, malformed) == Via[c] = "chain" /\ Opens(c, Chain, malformed)

\* tryStream: who is available is decided once, for the whole call.
TryStream(c, malformed) ==
  Via[c] = "chain" /\ Opens(c, Kept(Chain, {p \in Providers : Available(p)}), malformed)

\* tryStreamWithProvider, and a caller that uses a provider itself.
TryProvider(c, malformed) ==
  \/ /\ Via[c] = "direct"
     /\ Opens(c, IF Available(Target[c]) THEN <<Target[c]>> ELSE <<>>, malformed)
  \/ Via[c] = "own" /\ Opens(c, <<Target[c]>>, malformed)

\* The request is made.  An anthropic one parses the arguments of every call
\* in the history, outside any catch; the other kinds pass them on or replace
\* what is no JSON.
Build(c) ==
  /\ step[c] = "build"
  /\ \/ /\ broken[c] /\ Kind[Head(queue[c])] = "anthropic"
        /\ Over(c, "thrown")
     \/ /\ ~(broken[c] /\ Kind[Head(queue[c])] = "anthropic")
        /\ step' = [step EXCEPT ![c] = "stream"]
        /\ UNCHANGED <<now, began, queue, broken, tokens, end>>
  /\ UNCHANGED <<until, source, tools>>

\* A piece of text arrives and is passed on at once.
Token(c) ==
  /\ step[c] = "stream" /\ tokens[c] < MaxTokens[c]
  /\ tokens' = [tokens EXCEPT ![c] = @ + 1]
  /\ source' = [source EXCEPT ![c] = Head(queue[c])]
  /\ UNCHANGED <<now, until, callVars, tools, end>>

\* The stream has ended: done, after the tool calls that arrived in it and
\* were held until now.
StreamEnds(c, called) ==
  /\ step[c] = "stream"
  /\ tools' = [tools EXCEPT ![c] = called]
  /\ source' = [source EXCEPT ![c] = Head(queue[c])]
  /\ Over(c, "done")
  /\ UNCHANGED until

\* rescueOllamaToolCallError: the arguments are found in the error itself.
Rescued(c) ==
  step[c] = "stream" /\ Kind[Head(queue[c])] = "openai" /\ StreamEnds(c, TRUE)

-----------------------------------------------------------------------------
Advances(c) ==
  /\ queue' = [queue EXCEPT ![c] = Tail(@)]
  /\ step' = [step EXCEPT ![c] = "build"]
  /\ UNCHANGED <<now, began, broken, tokens, end>>

\* tryStream when a provider has failed before anything was heard of it.
ChainFails(c, trouble) ==
  LET p == Head(queue[c])
      cascades == Cascadable(Kind[p], trouble)
  IN /\ until' = IF cascades \/ ModelLevel(trouble) THEN until ELSE Cooled(p)
     /\ IF (ModelLevel(trouble) /\ ~cascades) \/ Len(queue[c]) = 1
        THEN Over(c, "error")
        ELSE Advances(c)

\* Mutant: the chain goes on after an error in the middle of a text.
BreaksOffOnwards(c, trouble) == ChainFails(c, trouble)

\* An error after a token: tryStream has succeeded, and keeps it to itself.
BreaksOff(c, trouble) == Over(c, "silent") /\ UNCHANGED until

StreamFails(c, trouble) ==
  /\ step[c] = "stream" /\ trouble \in Reports(Kind[Head(queue[c])])
  /\ \/ Via[c] = "chain" /\ tokens[c] = 0 /\ ChainFails(c, trouble)
     \/ Via[c] = "chain" /\ tokens[c] > 0 /\ BreaksOff(c, trouble)
     \/ /\ Via[c] = "direct" /\ Over(c, "error")
        /\ until' = IF ModelLevel(trouble) THEN until ELSE Cooled(Target[c])
     \/ Via[c] = "own" /\ Over(c, "error") /\ UNCHANGED until
  /\ UNCHANGED <<source, tools>>

\* resetCooldowns, when a session swaps its model.
ResetCooldowns ==
  /\ \E p \in Providers : until[p] > now
  /\ until' = [p \in Providers |-> 0]
  /\ UNCHANGED <<now, callVars, heardVars>>

Tick ==
  /\ now < Horizon
  /\ now' = now + 1
  /\ UNCHANGED <<until, callVars, heardVars>>
=============================================================================
