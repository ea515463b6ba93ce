------------------------------ MODULE Dispatch ------------------------------
(***************************************************************************)
(* What becomes of one tool call of the model: processToolCalls in          *)
(* src/agents/inference.ts, the catalog and its capability ids (catalog.ts),*)
(* validation (validate.ts), the lifecycle hooks (src/hooks/), the hooks    *)
(* around tools (hooks.ts), and the handler with its timeout (invoke.ts).   *)
(* Turn takes all of this for one step of a batch; rates, kills and repeated *)
(* errors are there.                                                        *)
(***************************************************************************)
EXTENDS Desk

CONSTANTS
  Requests,    \* names of tool calls, strings
  Request,     \* what is called: [session, role, child, cap, raw, args]
  ConfigTools, \* config.tools: tool id -> [effect, parameters]
  OwnerOnly,   \* OWNER_ONLY_CORE_TOOLS
  AgentTools,  \* agent.tools
  Effects,     \* agent.allowedEffects
  Handlers,    \* the tools with a registered handler
  Secrets,     \* the names the environment defines
  BeforeTool, AfterTool,  \* the configured lifecycle hooks, in order
  Guards, Posts           \* the pre- and post-hooks of the embedding program

\* A capability id is the pair of a session and a tool (the HMAC of both).
\* Arguments are a function from names to <<type, value>>; a reference to a
\* secret is <<"secret", name>>.  They arrive as text, of which matters whether
\* there is something before and after a body: [before, body, after].
\* A parameter is [type, required, enum, secret], its enum a set of texts.
\* A hook is [id, kind, vetoes], where vetoes are the calls it would block.
ASSUME DispatchAssumption ==
  /\ Requests \subseteq STRING
  /\ \A r \in Requests : Request[r].raw.body \in {"object", "path", "cut", "nothing"}
  /\ BeforeTool \in Seq(Range(BeforeTool)) /\ AfterTool \in Seq(Range(AfterTool))
  /\ \A h \in Range(BeforeTool) \cup Range(AfterTool) :
       h.kind \in {"function", "command"} /\ h.id # "call"
  /\ "none" \notin DOMAIN ConfigTools
  /\ \A t \in DOMAIN ConfigTools : \A p \in DOMAIN ConfigTools[t].parameters :
       ConfigTools[t].parameters[p]
         \in [type : STRING, required : BOOLEAN, enum : SUBSET STRING, secret : BOOLEAN]

VARIABLES
  hooks,    \* the lifecycle hooks that were loaded: [before, after]
  stage,    \* where a call is
  queue,    \* the hooks that are still to run at this stage
  answer,   \* how it came out
  soft,     \* the hooks before it that failed, which lets it pass
  acts,     \* its handler: "no", "running", or how that ended
  changed,  \* a post-hook has replaced its result
  trail     \* the audit log's records of it: <<hook or "call", status>>

dispatchVars == <<hooks, stage, queue, answer, soft, acts, changed, trail>>

Requested == DOMAIN stage

-----------------------------------------------------------------------------
\* The text of the arguments.

\* sanitizeToolArguments: what is written around an object is cut off if it
\* begins before it, and bad escapes, those of a path, are turned.  An object
\* that is followed by more text is left as it is.
Extracted(raw) ==
  IF raw.before /\ raw.body # "nothing"
  THEN [before |-> FALSE, body |-> raw.body, after |-> raw.after /\ raw.body = "cut"]
  ELSE raw
SanitizeToolArguments(raw) ==
  LET text == Extracted(raw)
  IN IF text.body = "path" THEN [text EXCEPT !.body = "object"] ELSE text
IsJson(text) == text = [before |-> FALSE, body |-> "object", after |-> FALSE]

-----------------------------------------------------------------------------
\* The catalog and validateToolInvocation.

\* createToolCatalog
Toolbox ==
  [t \in DOMAIN ConfigTools |->
     [effect |-> ConfigTools[t].effect, parameters |-> ConfigTools[t].parameters,
      owner |-> t \in OwnerOnly]]

RoleOf(r) == IF Request[r].role = "none" THEN "owner" ELSE Request[r].role
\* A child cannot have children.
ToolsOf(r) == AgentTools \ (IF Request[r].child THEN {"subagent_spawn"} ELSE {})

MintCapabilityMap(session) == [cap \in {session} \X DOMAIN Toolbox |-> cap[2]]

GetAvailableTools(r) ==
  {t \in ToolsOf(r) \cap DOMAIN Toolbox : Toolbox[t].owner => RoleOf(r) = "owner"}

\* What is declared to the model: a capability for every available tool, and
\* its parameters; a secret is declared as a string.
ToJsonSchema(ps) ==
  [p \in DOMAIN ps |-> [ps[p] EXCEPT !.type = IF ps[p].secret THEN "string" ELSE @]]
GetToolDeclarations(r) ==
  {[name |-> <<Request[r].session, t>>, parameters |-> ToJsonSchema(Toolbox[t].parameters)] :
     t \in GetAvailableTools(r)}

TypeOf(v) == IF v[1] = "secret" THEN "string" ELSE v[1]
\* An enumeration is one of strings, whatever the parameter's type.
Parses(ps, args) ==
  \A p \in DOMAIN ps :
    IF p \notin DOMAIN args THEN ~ps[p].required
    ELSE IF ps[p].enum # {} THEN TypeOf(args[p]) = "string" /\ args[p][2] \in ps[p].enum
    ELSE TypeOf(args[p]) = ps[p].type

ResolveCapability(r) ==
  LET map == MintCapabilityMap(Request[r].session)
  IN IF Request[r].cap \in DOMAIN map THEN map[Request[r].cap] ELSE "none"

ValidateToolInvocation(r) ==
  LET t == ResolveCapability(r)
  IN CASE t = "none" -> "invalid"
       [] t # "none" /\ t \notin ToolsOf(r) -> "denied"
       [] t \in ToolsOf(r) /\ Toolbox[t].effect \notin Effects -> "denied"
       [] t \in ToolsOf(r) /\ Toolbox[t].effect \in Effects /\ t \notin GetAvailableTools(r) ->
            "denied"
       [] OTHER -> IF Parses(Toolbox[t].parameters, Request[r].args) THEN "ok" ELSE "invalid"

\* isEffectBlockedByPlanMode
BlockedByPlan(r) ==
  LET s == Request[r].session
  IN /\ s \in DOMAIN plans /\ plans[s].active
     /\ Toolbox[ResolveCapability(r)].effect # "read"

\* $SECRET:name in the arguments that are parameters of the tool.
ResolveSecrets(r) ==
  \A p \in DOMAIN Toolbox[ResolveCapability(r)].parameters \cap DOMAIN Request[r].args :
    Request[r].args[p][1] = "secret" => Request[r].args[p][2] \in Secrets

-----------------------------------------------------------------------------
\* Lifecycle hooks.

\* createLifecycleHookRegistry: a function that cannot be loaded is left out.
Loaded_(list, broken) ==
  Kept(list, {h \in Range(list) : h.kind = "command" \/ h.id \notin broken})
Functions_ == {h.id : h \in {g \in Range(BeforeTool) \cup Range(AfterTool) : g.kind = "function"}}

\* What a hook's end is taken for.  The first event settles: a verdict that
\* comes after the timeout is not heard.
RunCommandHook(ending) ==
  CASE ending \in {"silence", "ok"} -> "ok"
    [] ending = "blocked" -> "blocked"
    [] OTHER -> "soft_error"  \* not started, timeout, exit code, no JSON, soft_error
RunFunctionHook(ending) ==
  CASE ending \in {"nothing", "ok"} -> "ok"
    [] ending = "blocked" -> "blocked"
    [] OTHER -> "soft_error"  \* thrown, timeout, soft_error

\* A hook says what it would, or it fails.
Endings(h, r) ==
  IF r \in h.vetoes THEN {"blocked", "timeout", "throws"}
  ELSE {"silence", "nothing", "ok", "timeout", "exit"}
Verdict(h, ending) ==
  IF h.kind = "command" THEN RunCommandHook(ending) ELSE RunFunctionHook(ending)

\* adaptAuditLogAsHookSink
Recorded(verdict) ==
  CASE verdict = "ok" -> "success" [] verdict = "blocked" -> "denied" [] OTHER -> "error"

-----------------------------------------------------------------------------
DispatchInit(scene) ==
  /\ \E broken \in SUBSET Functions_, off \in BOOLEAN :
       hooks = IF off \/ Requests \cap scene = {} THEN [before |-> <<>>, after |-> <<>>]
               ELSE [before |-> Loaded_(BeforeTool, broken), after |-> Loaded_(AfterTool, broken)]
  /\ stage = [r \in Requests \cap scene |-> "idle"]
  /\ queue = [r \in Requested |-> <<>>]
  /\ answer = [r \in Requested |-> "none"]
  /\ soft = [r \in Requested |-> {}]
  /\ acts = [r \in Requested |-> "no"]
  /\ changed = [r \in Requested |-> FALSE]
  /\ trail = [r \in Requested |-> <<>>]

\* The status the audit log gets.
StatusOf(a) ==
  IF a = "success" THEN "success"
  ELSE IF a \in {"denied", "nudged", "blocked"} THEN "denied" ELSE "error"

Moves(r, to, list) == stage' = [stage EXCEPT ![r] = to] /\ queue' = [queue EXCEPT ![r] = list]
Answers_(r, how) == answer' = [answer EXCEPT ![r] = how]
Records(r, records) == trail' = [trail EXCEPT ![r] = @ \o records]

\* A call's arguments are parsed, it is validated and passes plan mode; if
\* not, it is recorded, and only an invalid or denied one goes by the hooks.
CallBegins(r) ==
  LET readable == IsJson(SanitizeToolArguments(Request[r].raw))
      verdict == ValidateToolInvocation(r)
  IN /\ stage[r] = "idle"
     /\ CASE ~readable ->
               Moves(r, "done", <<>>) /\ Answers_(r, "unparsed") /\ UNCHANGED trail
          [] readable /\ verdict # "ok" ->
               /\ Moves(r, "after", hooks.after) /\ Answers_(r, verdict)
               /\ Records(r, << <<"call", StatusOf(verdict)>> >>)
          [] readable /\ verdict = "ok" /\ BlockedByPlan(r) ->
               /\ Moves(r, "done", <<>>) /\ Answers_(r, "nudged")
               /\ Records(r, << <<"call", "denied">> >>)
          [] OTHER -> Moves(r, "before", hooks.before) /\ UNCHANGED <<answer, trail>>
     /\ UNCHANGED <<hooks, soft, acts, changed>>

\* Mutant: a hook that blocks is noted, and the call goes on.
HookEndsAnyway(r, ending) ==
  /\ stage[r] \in {"before", "after"} /\ queue[r] # <<>>
  /\ ending \in Endings(Head(queue[r]), r)
  /\ Moves(r, stage[r], Tail(queue[r]))
  /\ UNCHANGED <<hooks, answer, soft, acts, changed, trail>>

\* fire: one hook after the other, each awaited.  The first that blocks ends
\* it before a tool; after one, that is a misuse.
HookEnds(r, ending) ==
  LET h == Head(queue[r])
      verdict == Verdict(h, ending)
      blocks == verdict = "blocked" /\ stage[r] = "before"
      misused == verdict = "blocked" /\ stage[r] = "after"
  IN /\ stage[r] \in {"before", "after"} /\ queue[r] # <<>>
     /\ ending \in Endings(h, r)
     /\ Records(r, << <<h.id, Recorded(verdict)>> >>
                   \o (IF blocks THEN << <<"call", "denied">> >> ELSE <<>>)
                   \o (IF misused THEN << <<h.id, "error">> >> ELSE <<>>))
     /\ IF blocks THEN Moves(r, "done", <<>>) /\ Answers_(r, "blocked")
        ELSE Moves(r, stage[r], Tail(queue[r])) /\ UNCHANGED answer
     /\ soft' = [soft EXCEPT ![r] =
          IF stage[r] = "before" /\ verdict = "soft_error" THEN @ \cup {h.id} ELSE @]
     /\ UNCHANGED <<hooks, acts, changed>>

-----------------------------------------------------------------------------
\* executeValidatedTool

\* Without its secrets a call goes no further; with them it goes by the guards.
Resolved(r) ==
  /\ stage[r] = "before" /\ queue[r] = <<>>
  /\ IF ResolveSecrets(r) THEN Moves(r, "guard", Guards) /\ UNCHANGED answer
     ELSE Moves(r, "report", <<>>) /\ Answers_(r, "refused")
  /\ UNCHANGED <<hooks, soft, acts, changed, trail>>

\* runPreHooks: one that throws denies.
GuardEnds(r, verdict) ==
  /\ stage[r] = "guard" /\ queue[r] # <<>>
  /\ IF verdict \in {"allow", "warn"} THEN Moves(r, "guard", Tail(queue[r])) /\ UNCHANGED answer
     ELSE Moves(r, "report", <<>>) /\ Answers_(r, "refused")
  /\ UNCHANGED <<hooks, soft, acts, changed, trail>>

\* The handler is called; a tool without one is an error.
HandlerStarts(r) ==
  LET there == ResolveCapability(r) \in Handlers
  IN /\ stage[r] = "guard" /\ queue[r] = <<>>
     /\ acts' = [acts EXCEPT ![r] = IF there THEN "running" ELSE "no"]
     /\ IF there THEN Moves(r, "running", <<>>) /\ UNCHANGED answer
        ELSE Moves(r, "post", Posts) /\ Answers_(r, "failed")
     /\ UNCHANGED <<hooks, soft, changed, trail>>

\* It comes to an end; nobody hears of it once the call has timed out.  An
\* exception goes by no post-hook.
HandlerEnds(r, how) ==
  /\ acts[r] = "running"
  /\ acts' = [acts EXCEPT ![r] = how]
  /\ IF stage[r] = "running"
       THEN /\ Moves(r, IF how = "threw" THEN "report" ELSE "post",
                        IF how = "threw" THEN <<>> ELSE Posts)
            /\ Answers_(r, IF how = "well" THEN "success" ELSE "failed")
       ELSE UNCHANGED <<stage, queue, answer>>
  /\ UNCHANGED <<hooks, soft, changed, trail>>

\* The timeout wins the race and aborts the signal; the handler goes on until
\* it looks at that.
TimesOut(r) ==
  /\ stage[r] = "running"
  /\ Moves(r, "report", <<>>) /\ Answers_(r, "timeout")
  /\ UNCHANGED <<hooks, soft, acts, changed, trail>>

Heeds(r) ==
  /\ acts[r] = "running" /\ answer[r] = "timeout"
  /\ acts' = [acts EXCEPT ![r] = "stopped"]
  /\ UNCHANGED <<hooks, stage, queue, answer, soft, changed, trail>>

\* runPostHooks: one that throws leaves the result as it was.
PostEnds(r, how) ==
  /\ stage[r] = "post" /\ queue[r] # <<>>
  /\ Moves(r, "post", Tail(queue[r]))
  /\ changed' = [changed EXCEPT ![r] = @ \/ how = "changed"]
  /\ UNCHANGED <<hooks, answer, soft, acts, trail>>

\* The result is recorded and pushed, then the hooks after it run.
Report(r, status) ==
  /\ stage[r] = "report" \/ (stage[r] = "post" /\ queue[r] = <<>>)
  /\ ~changed[r] => status = StatusOf(answer[r])
  /\ Records(r, << <<"call", status>> >>)
  /\ Moves(r, "after", hooks.after)
  /\ UNCHANGED <<hooks, answer, soft, acts, changed>>

CallEnds(r) ==
  /\ stage[r] = "after" /\ queue[r] = <<>>
  /\ Moves(r, "done", <<>>)
  /\ UNCHANGED <<hooks, answer, soft, acts, changed, trail>>

RequestStep(r) ==
  \/ CallBegins(r) \/ Resolved(r) \/ HandlerStarts(r) \/ TimesOut(r) \/ Heeds(r) \/ CallEnds(r)
  \/ \E ending \in {"silence", "nothing", "ok", "blocked", "timeout", "throws", "exit"} :
       HookEnds(r, ending)
  \/ \E verdict \in {"allow", "warn", "deny", "throws"} : GuardEnds(r, verdict)
  \/ \E how \in {"well", "badly", "threw"} : HandlerEnds(r, how)
  \/ \E how \in {"same", "changed", "throws"} : PostEnds(r, how)
  \/ \E status \in {"success", "error"} : Report(r, status)

CrashDispatch ==
  /\ stage' = [r \in Requested |-> IF stage[r] \in {"idle", "done"} THEN stage[r] ELSE "dead"]
  /\ acts' = [r \in Requested |-> IF acts[r] = "running" THEN "stopped" ELSE acts[r]]
  /\ UNCHANGED <<hooks, queue, answer, soft, changed, trail>>

-----------------------------------------------------------------------------
\* Arguments a declaration asks for.
Fits(shown, args) ==
  /\ DOMAIN args \subseteq DOMAIN shown
  /\ \A p \in DOMAIN shown :
       IF p \in DOMAIN args
       THEN TypeOf(args[p]) = shown[p].type /\ (shown[p].enum # {} => args[p][2] \in shown[p].enum)
       ELSE ~shown[p].required

Own(r) == Kept(trail[r], {"call"} \X {"success", "denied", "error"})

\* The audit log tells of every call once, and tells what its handler did:
\* one recorded as denied never ran; one recorded as a success ran to its end,
\* unless a post-hook says otherwise; and only after a timeout may a handler
\* still run when its call has been answered.  A call that a lifecycle hook
\* would block runs only if that hook failed.
\* A call that keeps to what was declared to the model is denied only for its
\* effect class, which getToolDeclarations does not look at, and invalid only
\* for a parameter whose declaration is not what is validated: an enumeration
\* or a secret that is no string.  (inference.ts, invoke.ts, catalog.ts,
\* validate.ts)
AnswersTrue ==
  \A r \in Requested :
    /\ Len(Own(r)) <= 1
    /\ stage[r] = "done" => (Own(r) = <<>> <=> answer[r] = "unparsed")
    /\ Own(r) = << <<"call", "denied">> >> => acts[r] = "no"
    /\ Own(r) = << <<"call", "success">> >> /\ ~changed[r] => acts[r] = "well"
    /\ stage[r] \in {"report", "post", "after", "done"} /\ acts[r] = "running" =>
         answer[r] = "timeout"
    /\ acts[r] # "no" =>
         \A i \in DOMAIN hooks.before :
           r \in hooks.before[i].vetoes => hooks.before[i].id \in soft[r]
    /\ \A d \in GetToolDeclarations(r) :
         LET tool == Toolbox[ResolveCapability(r)]
         IN Request[r].cap = d.name =>
              /\ answer[r] = "denied" => tool.effect \notin Effects
              /\ answer[r] = "invalid" /\ Fits(d.parameters, Request[r].args) =>
                   \E p \in DOMAIN tool.parameters :
                     /\ tool.parameters[p].type # "string"
                     /\ tool.parameters[p].enum # {} \/ tool.parameters[p].secret
=============================================================================
