-------------------------------- MODULE Turn --------------------------------
(***************************************************************************)
(* The agent loop: InferencePipeline.handleTurn with streamProviderTurn    *)
(* and processToolCalls (src/agents/inference.ts), the pending-input       *)
(* buffer (src/agents/pending-input.ts), the circuit breaker               *)
(* (src/security/circuit-breaker.ts) and the gateway frames that reach     *)
(* them while a turn is running.                                           *)
(*                                                                         *)
(* The process is a single-threaded event loop: an action is the code      *)
(* between two awaits, and other turns and frames run in between.          *)
(***************************************************************************)
EXTENDS Transcript, FiniteSets

CONSTANTS
  Turns,             \* the invocations of handleTurn
  Sessions,          \* session keys
  SessionOf,         \* the session of each turn
  Sigs,              \* tool-call signatures: validated name and arguments
  MaxBatch,          \* most tool calls the provider emits in one response
  MaxIterations,     \* agent.maxToolIterations
  CallsPerIteration, \* 5 in the code: the call budget is a multiple of it
  RepeatThreshold,   \* REPEAT_ERROR_THRESHOLD
  MaxPending,        \* MAX_PENDING_PER_SESSION
  AnomalyThreshold,  \* AutoTripConfig.threshold
  MaxEntries         \* session.maxTranscriptEntries

ASSUME TurnAssumption ==
  /\ SessionOf \in [Turns -> Sessions]
  /\ Turns \cap Sessions = {}
  /\ MaxBatch \in Nat \ {0}
  /\ MaxIterations \in Nat \ {0}
  /\ CallsPerIteration \in Nat \ {0}
  /\ RepeatThreshold \in Nat \ {0}
  /\ MaxPending \in Nat
  /\ AnomalyThreshold \in Nat \ {0}
  /\ MaxEntries \in Nat \ {0}

VARIABLES
  pc,          \* where each turn is suspended
  iter,        \* iterations
  total,       \* totalToolCalls
  retried,     \* emptyRetried
  compacted,   \* compactedThisTurn
  failed,      \* hadError
  errored,     \* erroredSignatures
  batch,       \* the tool calls being processed, as signatures
  idx,         \* the call processToolCalls is at
  transcript,  \* session.transcript, the copy each turn works on
  sent,        \* chat.done and chat.error frames each turn has sent
  late,        \* history: provider and tool calls begun since the breaker opened
  ran,         \* history: tools executed
  breaker,     \* CircuitBreaker.state
  anomalies,   \* anomalyTimestamps.length
  pending,     \* pending-input buffers
  saved        \* transcripts on disk

loopVars  == <<iter, total, retried, compacted, failed>>
callVars  == <<errored, batch, idx>>
history   == <<late, ran>>
sysVars   == <<breaker, anomalies, pending, saved>>
vars == <<pc, loopVars, callVars, transcript, sent, history, sysVars>>

\* Where a turn awaits: loading and hooks ("admitting"), compaction, the
\* provider, the refusal fallback, a hook or a tool; "checkpoint", "batch"
\* and "finishing" are loop heads.
Idle      == {"idle", "ended"}
Looping   == {"checkpoint", "compacting", "streaming", "rerouting"}
Batching  == {"batch", "hook", "running", "failing", "after"}
Closing   == {"finishing", "saving"}
Location  == Idle \cup {"admitting"} \cup Looping \cup Batching \cup Closing

Kinds == {"text", "kill"}          \* isControlKillToken or not
Work  == {"model", "tool"}         \* what the circuit breaker is to stop
Batches == UNION {[1 .. m -> Sigs] : m \in 1 .. MaxBatch}

TypeOK ==
  /\ pc \in [Turns -> Location]
  /\ iter \in [Turns -> 0 .. MaxIterations]
  /\ total \in [Turns -> Nat]
  /\ retried \in [Turns -> BOOLEAN]
  /\ compacted \in [Turns -> BOOLEAN]
  /\ failed \in [Turns -> BOOLEAN]
  /\ errored \in [Turns -> [Sigs -> Nat]]
  /\ batch \in [Turns -> Seq(Sigs)]
  /\ idx \in [Turns -> Nat]
  /\ transcript \in [Turns -> Seq(Entry)]
  /\ sent \in [Turns -> Seq({"done", "error"})]
  /\ late \in [Turns -> [Work -> Nat]]
  /\ ran \in [Turns -> Nat]
  /\ breaker \in {"closed", "open"}
  /\ anomalies \in Nat
  /\ pending \in [Sessions -> Seq(Kinds)]
  /\ saved \in [Sessions -> Seq(Entry)]

Init ==
  /\ pc = [t \in Turns |-> "idle"]
  /\ iter = [t \in Turns |-> 0]
  /\ total = [t \in Turns |-> 0]
  /\ retried = [t \in Turns |-> FALSE]
  /\ compacted = [t \in Turns |-> FALSE]
  /\ failed = [t \in Turns |-> FALSE]
  /\ errored = [t \in Turns |-> [g \in Sigs |-> 0]]
  /\ batch = [t \in Turns |-> <<>>]
  /\ idx = [t \in Turns |-> 0]
  /\ transcript = [t \in Turns |-> <<>>]
  /\ sent = [t \in Turns |-> <<>>]
  /\ late = [t \in Turns |-> [w \in Work |-> 0]]
  /\ ran = [t \in Turns |-> 0]
  /\ breaker = "closed"
  /\ anomalies = 0
  /\ pending = [s \in Sessions |-> <<>>]
  /\ saved = [s \in Sessions |-> <<>>]

-----------------------------------------------------------------------------
Goto(t, l)   == pc' = [pc EXCEPT ![t] = l]
Push(t, es)  == transcript' = [transcript EXCEPT ![t] = @ \o es]
Send(t, f)   == sent' = [sent EXCEPT ![t] = Append(@, f)]
SetPending(s, q) == pending' = [pending EXCEPT ![s] = q]

\* sink.sendError, hadError = true, break.
Fail(t) ==
  /\ Send(t, "error")
  /\ failed' = [failed EXCEPT ![t] = TRUE]
  /\ Goto(t, "finishing")

\* A provider or tool call begins: counted while the breaker is open.
Begin(t, w) ==
  late' = IF breaker = "open" THEN [late EXCEPT ![t][w] = @ + 1] ELSE late

\* CircuitBreaker.recordAnomaly: counts in the window, trips at the threshold.
RecordAnomaly ==
  IF breaker = "open" THEN UNCHANGED <<breaker, anomalies>>
  ELSE /\ anomalies' = anomalies + 1
       /\ breaker' = IF anomalies + 1 >= AnomalyThreshold THEN "open" ELSE "closed"

-----------------------------------------------------------------------------
\* handleChatSend has loaded the session: handleTurn is called with that copy.
Start(t) ==
  /\ pc[t] = "idle"
  /\ Goto(t, "admitting")
  /\ transcript' = [transcript EXCEPT ![t] = saved[SessionOf[t]]]
  /\ UNCHANGED <<loopVars, callVars, sent, history, sysVars>>

\* The pause toggle is engaged, or a before_turn hook blocks.
Refuse(t) ==
  /\ pc[t] = "admitting"
  /\ Goto(t, "ended")
  /\ sent' = [sent EXCEPT ![t] = @ \o <<"error", "done">>]
  /\ UNCHANGED <<loopVars, callVars, transcript, history, sysVars>>

Admit(t) ==
  /\ pc[t] = "admitting"
  /\ Goto(t, "checkpoint")
  /\ Push(t, UserMessages(1))
  /\ UNCHANGED <<loopVars, callVars, sent, history, sysVars>>

-----------------------------------------------------------------------------
\* Mutant: the while condition is off by one.
MoreIterationsInclusive(t) == iter[t] <= MaxIterations
MoreIterations(t) == iter[t] < MaxIterations

CountIteration(t) == iter' = [iter EXCEPT ![t] = @ + 1]

\* The while condition fails.
Exhausted(t) ==
  /\ pc[t] = "checkpoint"
  /\ ~MoreIterations(t)
  /\ Goto(t, "finishing")
  /\ UNCHANGED <<loopVars, callVars, transcript, sent, history, sysVars>>

\* Interrupt checkpoint, breaker open: drop the queued input and halt.
Halt(t) ==
  /\ pc[t] = "checkpoint"
  /\ MoreIterations(t)
  /\ breaker = "open"
  /\ CountIteration(t)
  /\ SetPending(SessionOf[t], <<>>)
  /\ Fail(t)
  /\ UNCHANGED <<total, retried, compacted, callVars, transcript, history,
                 breaker, anomalies, saved>>

\* The number of texts ahead of the first kill token of q.
TextsAhead(q) == Cardinality({k \in 1 .. Len(q) : \A j \in 1 .. k : q[j] = "text"})

\* Interrupt checkpoint, breaker closed: the buffer is drained into the
\* transcript up to a kill token, which trips the breaker and halts.
Drain(t) ==
  LET q == pending[SessionOf[t]]
      n == TextsAhead(q)
  IN /\ pc[t] = "checkpoint"
     /\ MoreIterations(t)
     /\ breaker = "closed"
     /\ CountIteration(t)
     /\ SetPending(SessionOf[t], <<>>)
     /\ Push(t, UserMessages(n))
     /\ IF n < Len(q)
        THEN /\ breaker' = "open"
             /\ Fail(t)
             /\ UNCHANGED compacted
        ELSE /\ \/ Goto(t, "streaming") /\ UNCHANGED compacted
                \/ /\ ~compacted[t]
                   /\ Goto(t, "compacting")
                   /\ compacted' = [compacted EXCEPT ![t] = TRUE]
             /\ UNCHANGED <<breaker, failed, sent>>
     /\ UNCHANGED <<total, retried, callVars, history, anomalies, saved>>

\* compactHistory's outcomes: unchanged, a summary entry ahead of a recent
\* suffix, or the suffix hardTruncate keeps.
CompactOutcomes(s) ==
  {s} \cup {<<Said("system")>> \o From(s, k) : k \in 2 .. Len(s) + 1}
      \cup {From(s, k) : k \in 2 .. Len(s) + 1}

\* compactHistory returns and the provider call begins: the breaker is not
\* looked at again.
Compacted(t) ==
  /\ pc[t] = "compacting"
  /\ Goto(t, "streaming")
  /\ \E s \in CompactOutcomes(transcript[t]) :
       transcript' = [transcript EXCEPT ![t] = s]
  /\ Begin(t, "model")
  /\ UNCHANGED <<loopVars, callVars, sent, ran, sysVars>>

-----------------------------------------------------------------------------
\* Every provider failed: the selector forwards the last error.
StreamError(t) ==
  /\ pc[t] = "streaming"
  /\ RecordAnomaly
  /\ Fail(t)
  /\ UNCHANGED <<iter, total, retried, compacted, callVars, transcript,
                 history, pending, saved>>

\* Mutant: the loop goes on after a text answer.
StreamAnswerContinues(t) ==
  /\ pc[t] = "streaming"
  /\ Push(t, <<Said("assistant")>>)
  /\ Send(t, "done")
  /\ Goto(t, "checkpoint")
  /\ UNCHANGED <<loopVars, callVars, history, sysVars>>

\* A text answer; a detected leak is redacted and counts as an anomaly.
StreamAnswer(t) ==
  /\ pc[t] = "streaming"
  /\ Push(t, <<Said("assistant")>>)
  /\ Send(t, "done")
  /\ Goto(t, "finishing")
  /\ RecordAnomaly \/ UNCHANGED <<breaker, anomalies>>
  /\ UNCHANGED <<loopVars, callVars, history, pending, saved>>

\* Tokens, then an error: tryStream counts the provider as having succeeded
\* and forwards neither the error nor a done event.
StreamCut(t) ==
  /\ pc[t] = "streaming"
  /\ Goto(t, "finishing")
  /\ UNCHANGED <<loopVars, callVars, transcript, sent, history, sysVars>>

\* No text and no tool call: nudge and retry once.
StreamEmptyRetry(t) ==
  /\ pc[t] = "streaming"
  /\ ~retried[t]
  /\ retried' = [retried EXCEPT ![t] = TRUE]
  /\ Push(t, UserMessages(1))
  /\ Goto(t, "checkpoint")
  /\ UNCHANGED <<iter, total, compacted, failed, callVars, sent, history, sysVars>>

StreamEmptyFail(t) ==
  /\ pc[t] = "streaming"
  /\ retried[t]
  /\ Fail(t)
  /\ UNCHANGED <<iter, total, retried, compacted, callVars, transcript,
                 history, sysVars>>

\* The lead buffer detects a refusal: the fallback provider is called,
\* without a look at the breaker.
StreamRefused(t) ==
  /\ pc[t] = "streaming"
  /\ Goto(t, "rerouting")
  /\ Begin(t, "model")
  /\ UNCHANGED <<loopVars, callVars, transcript, sent, ran, sysVars>>

\* The fallback answers, or ends silently and a note stands in for it.
RerouteAnswer(t) ==
  /\ pc[t] = "rerouting"
  /\ Push(t, <<Said("assistant")>>)
  /\ Send(t, "done")
  /\ Goto(t, "finishing")
  /\ UNCHANGED <<loopVars, callVars, history, sysVars>>

RerouteError(t) ==
  /\ pc[t] = "rerouting"
  /\ Fail(t)
  /\ UNCHANGED <<iter, total, retried, compacted, callVars, transcript,
                 history, sysVars>>

\* Mutant: the budget is checked before the new calls are added.
WithinBudgetBefore(t, b) == total[t] <= MaxIterations * CallsPerIteration
WithinBudget(t, b) == total[t] + Len(b) <= MaxIterations * CallsPerIteration

\* Tool calls beyond the budget: dropped before they reach the transcript.
OverBudget(t) ==
  /\ pc[t] = "streaming"
  /\ \E b \in Batches :
       /\ ~WithinBudget(t, b)
       /\ total' = [total EXCEPT ![t] = @ + Len(b)]
  /\ Fail(t)
  /\ UNCHANGED <<iter, retried, compacted, callVars, transcript, history, sysVars>>

\* Tool calls within the budget: the assistant entry is pushed.
StreamToolCalls(t) ==
  /\ pc[t] = "streaming"
  /\ \E b \in Batches :
       /\ WithinBudget(t, b)
       /\ total' = [total EXCEPT ![t] = @ + Len(b)]
       /\ batch' = [batch EXCEPT ![t] = b]
       /\ Push(t, <<Calls(Len(b))>>)
  /\ idx' = [idx EXCEPT ![t] = 1]
  /\ Goto(t, "batch")
  /\ UNCHANGED <<iter, retried, compacted, failed, errored, sent, history, sysVars>>

-----------------------------------------------------------------------------
Sig(t) == batch[t][idx[t]]

\* The result, or the stub, of every call from the current one to call j.
Answer(t, j) == Push(t, Results(idx[t], j))

\* The current call is answered and the next one is up.
NextCall(t) == idx' = [idx EXCEPT ![t] = @ + 1]

\* Mutant: the stubs begin after the current call.
AbortAfter(t) ==
  Push(t, Results(idx[t] + 1, Len(batch[t]))) /\ Fail(t) /\ UNCHANGED <<batch, idx>>

\* earlyExit, or the current result followed by stubs: ok is false.
Abort(t) == Answer(t, Len(batch[t])) /\ Fail(t) /\ UNCHANGED <<batch, idx>>

\* erroredSignatures.set(sig, count + 1): did it reach the threshold?
Strike(t) == errored' = [errored EXCEPT ![t][Sig(t)] = @ + 1]

\* Mutant: the count before this failure is compared.
StruckOutLate(t) == errored[t][Sig(t)] >= RepeatThreshold
StruckOut(t) == errored[t][Sig(t)] + 1 >= RepeatThreshold

\* Mutant: the end of the batch is off by one.
BatchDoneLate(t) ==
  /\ pc[t] = "batch"
  /\ idx[t] > Len(batch[t]) + 1
  /\ Goto(t, "checkpoint")
  /\ UNCHANGED <<loopVars, callVars, transcript, sent, history, sysVars>>

BatchDone(t) ==
  /\ pc[t] = "batch"
  /\ idx[t] > Len(batch[t])
  /\ Goto(t, "checkpoint")
  /\ UNCHANGED <<loopVars, callVars, transcript, sent, history, sysVars>>

\* At a call: the loop head of processToolCalls.
AtCall(t) == pc[t] = "batch" /\ idx[t] <= Len(batch[t])

\* Per-call kill checkpoint.
CallHalted(t) ==
  /\ AtCall(t)
  /\ breaker = "open"
  /\ Abort(t)
  /\ UNCHANGED <<iter, total, retried, compacted, errored, history, sysVars>>

\* A rate limiter refuses the call, or its arguments are not JSON.
CallRefused(t) ==
  /\ AtCall(t)
  /\ breaker = "closed"
  /\ Abort(t)
  /\ UNCHANGED <<iter, total, retried, compacted, errored, history, sysVars>>

\* Plan mode blocks the call: a nudge stands for its result.
CallNudged(t) ==
  /\ AtCall(t)
  /\ breaker = "closed"
  /\ Strike(t)
  /\ IF StruckOut(t)
     THEN Abort(t)
     ELSE /\ Answer(t, idx[t])
          /\ NextCall(t)
          /\ UNCHANGED <<pc, sent, failed, batch>>
  /\ UNCHANGED <<iter, total, retried, compacted, history, sysVars>>

\* validateToolInvocation throws; the failure hook is awaited.
CallInvalid(t) ==
  /\ AtCall(t)
  /\ breaker = "closed"
  /\ Goto(t, "failing")
  /\ UNCHANGED <<loopVars, callVars, transcript, sent, history, sysVars>>

\* Mutant: no kill checkpoint before the call.
CallUnchecked(t) ==
  /\ AtCall(t)
  /\ Goto(t, "hook")
  /\ UNCHANGED <<loopVars, callVars, transcript, sent, history, sysVars>>

\* The call is valid; the before_tool hook is awaited.
CallChecked(t) ==
  /\ AtCall(t)
  /\ breaker = "closed"
  /\ Goto(t, "hook")
  /\ UNCHANGED <<loopVars, callVars, transcript, sent, history, sysVars>>

HookBlocked(t) ==
  /\ pc[t] = "hook"
  /\ Abort(t)
  /\ UNCHANGED <<iter, total, retried, compacted, errored, history, sysVars>>

\* executeValidatedTool: the breaker was checked before the hook was awaited.
ToolStart(t) ==
  /\ pc[t] = "hook"
  /\ Goto(t, "running")
  /\ Begin(t, "tool")
  /\ ran' = [ran EXCEPT ![t] = @ + 1]
  /\ UNCHANGED <<loopVars, callVars, transcript, sent, sysVars>>

ToolOk(t) ==
  /\ pc[t] = "running"
  /\ errored' = [errored EXCEPT ![t][Sig(t)] = 0]
  /\ Answer(t, idx[t])
  /\ Goto(t, "after")
  /\ UNCHANGED <<loopVars, batch, idx, sent, history, sysVars>>

\* The tool returns isError.
ToolError(t) ==
  /\ pc[t] = "running"
  /\ Strike(t)
  /\ IF StruckOut(t)
     THEN Abort(t)
     ELSE /\ Answer(t, idx[t])
          /\ Goto(t, "after")
          /\ UNCHANGED <<sent, failed, batch, idx>>
  /\ UNCHANGED <<iter, total, retried, compacted, history, sysVars>>

\* The handler throws or times out; the failure hook is awaited.
ToolThrows(t) ==
  /\ pc[t] = "running"
  /\ Goto(t, "failing")
  /\ UNCHANGED <<loopVars, callVars, transcript, sent, history, sysVars>>

\* The after_tool hook returns.
AfterTool(t) ==
  /\ pc[t] = "after"
  /\ NextCall(t)
  /\ Goto(t, "batch")
  /\ UNCHANGED <<loopVars, errored, batch, transcript, sent, history, sysVars>>

\* EffectDeniedError: a hard stop.
Denied(t) ==
  /\ pc[t] = "failing"
  /\ Abort(t)
  /\ UNCHANGED <<iter, total, retried, compacted, errored, history, sysVars>>

\* Any other exception: the error is the result and counts as a strike.
Thrown(t) ==
  /\ pc[t] = "failing"
  /\ Strike(t)
  /\ IF StruckOut(t)
     THEN Abort(t)
     ELSE /\ Answer(t, idx[t])
          /\ NextCall(t)
          /\ Goto(t, "batch")
          /\ UNCHANGED <<sent, failed, batch>>
  /\ UNCHANGED <<iter, total, retried, compacted, history, sysVars>>

-----------------------------------------------------------------------------
\* After the loop: the iteration limit is reported and the transcript trimmed.
Finish(t) ==
  /\ pc[t] = "finishing"
  /\ Goto(t, "saving")
  /\ IF iter[t] >= MaxIterations /\ ~failed[t] THEN Send(t, "error")
                                              ELSE UNCHANGED sent
  /\ transcript' = [transcript EXCEPT ![t] = TrimTranscript(@, MaxEntries)]
  /\ UNCHANGED <<loopVars, callVars, history, sysVars>>

\* The after_turn hook has returned: store.save.
Save(t) ==
  /\ pc[t] = "saving"
  /\ Goto(t, "ended")
  /\ saved' = [saved EXCEPT ![SessionOf[t]] = transcript[t]]
  /\ UNCHANGED <<loopVars, callVars, transcript, sent, history,
                 breaker, anomalies, pending>>

-----------------------------------------------------------------------------
turnVars == <<pc, loopVars, callVars, transcript, sent>>

\* Mutant: a full buffer drops its oldest entry instead of refusing.
ChatQueueDropsOldest(s) ==
  /\ \E t \in Turns : SessionOf[t] = s /\ pc[t] # "idle"
  /\ SetPending(s, IF Len(pending[s]) < MaxPending
                   THEN Append(pending[s], "text")
                   ELSE Tail(Append(pending[s], "kill")))
  /\ UNCHANGED <<turnVars, history, breaker, anomalies, saved>>

\* chat.queue by the owner of an active session: a kill token trips the
\* breaker and drops the queue, other input is queued up to the cap.
ChatQueue(s) ==
  /\ \E t \in Turns : SessionOf[t] = s /\ pc[t] # "idle"
  /\ \/ SetPending(s, <<>>) /\ breaker' = "open"
     \/ /\ Len(pending[s]) < MaxPending
        /\ SetPending(s, Append(pending[s], "text"))
        /\ UNCHANGED breaker
  /\ UNCHANGED <<turnVars, history, anomalies, saved>>

\* --killbot in a message, /kill, the admin endpoint or a greenlight halt.
Trip ==
  /\ breaker = "closed"
  /\ breaker' = "open"
  /\ UNCHANGED <<turnVars, history, anomalies, pending, saved>>

\* --resetbot, /reset or the admin endpoint.
Reset ==
  /\ breaker = "open"
  /\ breaker' = "closed"
  /\ anomalies' = 0
  /\ late' = [t \in Turns |-> [w \in Work |-> 0]]
  /\ UNCHANGED <<turnVars, ran, pending, saved>>

\* The oldest anomaly slides out of the window.
AnomalyExpires ==
  /\ anomalies > 0
  /\ anomalies' = anomalies - 1
  /\ UNCHANGED <<turnVars, history, breaker, pending, saved>>

-----------------------------------------------------------------------------
Admission(t) == Start(t) \/ Refuse(t) \/ Admit(t)
LoopHead(t)  == Exhausted(t) \/ Halt(t) \/ Drain(t) \/ Compacted(t)
Stream(t) ==
  \/ StreamError(t) \/ StreamAnswer(t) \/ StreamCut(t)
  \/ StreamEmptyRetry(t) \/ StreamEmptyFail(t)
  \/ StreamRefused(t) \/ RerouteAnswer(t) \/ RerouteError(t)
  \/ OverBudget(t) \/ StreamToolCalls(t)
ToolCall(t) ==
  \/ BatchDone(t) \/ CallHalted(t) \/ CallRefused(t) \/ CallNudged(t)
  \/ CallInvalid(t) \/ CallChecked(t) \/ HookBlocked(t) \/ ToolStart(t)
  \/ ToolOk(t) \/ ToolError(t) \/ ToolThrows(t) \/ AfterTool(t)
  \/ Denied(t) \/ Thrown(t)

\* What the runtime carries forward once a turn has been started.
Progress(t) ==
  \/ Refuse(t) \/ Admit(t) \/ LoopHead(t) \/ Stream(t) \/ ToolCall(t)
  \/ Finish(t) \/ Save(t)
TurnStep(t) == Start(t) \/ Progress(t)

Environment == (\E s \in Sessions : ChatQueue(s)) \/ Trip \/ Reset \/ AnomalyExpires

Next == (\E t \in Turns : TurnStep(t)) \/ Environment

Spec == Init /\ [][Next]_vars

\* Hooks, providers and tools all run under a timeout and every await settles.
Fairness == \A t \in Turns : WF_vars(Progress(t))
FairSpec == Spec /\ Fairness

-----------------------------------------------------------------------------
(* Safety properties. *)

\* How many calls of the current batch have their result in the transcript.
Answered(t) == IF pc[t] = "after" THEN idx[t] ELSE idx[t] - 1

\* Whatever way a batch ends (done, kill, rate limit, bad arguments, plan
\* mode, hook, denial, repeated errors), every tool call of the transcript has
\* exactly its results after it, in order, with nothing in between; while a
\* batch runs, its answered part is a prefix.  (pushToolErrorStub, earlyExit)
TranscriptPaired ==
  /\ \A t \in Turns :
       IF pc[t] \in Batching
       THEN OpenBatch(transcript[t], Len(batch[t]), Answered(t))
       ELSE CallsAnswered(transcript[t])
  /\ \A s \in Sessions : CallsAnswered(saved[s])

\* After the breaker opens, a turn begins at most the one tool whose check was
\* already behind it, or the provider call (and its refusal fallback) that
\* was already past the checkpoint: a kill is not outrun by a batch or a loop.
KillBounded ==
  \A t \in Turns :
    /\ late[t]["tool"] <= 1
    /\ late[t]["model"] <= 2
    /\ late[t]["tool"] = 0 \/ late[t]["model"] = 0

\* A call that failed RepeatThreshold times in a row ends the turn with an
\* error: the model is not asked again and no other tool runs.
StruckOutStops ==
  \A t \in Turns : (\E g \in Sigs : errored[t][g] >= RepeatThreshold)
    => failed[t] /\ pc[t] \in Closing \cup {"ended"}

\* The tools a turn runs stay within maxIterations * 5, and they never exceed
\* the calls that were admitted.
BudgetHeld ==
  \A t \in Turns : ran[t] <= total[t] /\ ran[t] <= MaxIterations * CallsPerIteration

\* A client sees at most one chat.done per turn, and a turn that failed has
\* told it so.
Frames(t, f) == {k \in DOMAIN sent[t] : sent[t][k] = f}
OneDone ==
  \A t \in Turns : /\ Cardinality(Frames(t, "done")) <= 1
                   /\ failed[t] => Frames(t, "error") # {}

\* Queued input only leaves the buffer into the transcript of a turn of its
\* session, entry for entry, or because the breaker is open.
QueueLeaves ==
  [][\A s \in Sessions : pending'[s] # pending[s] /\ Len(pending'[s]) <= Len(pending[s])
       => \/ breaker' = "open"
          \/ \E t \in Turns :
               /\ SessionOf[t] = s
               /\ transcript'[t] = transcript[t] \o UserMessages(Len(pending[s]))]_vars

\* What two turns of one session share serves both: the stored transcript
\* stays paired, and queued input leaves the queue in order.
SharedKept == []TranscriptPaired /\ QueueLeaves

-----------------------------------------------------------------------------
(* Liveness. *)

\* Every turn that was accepted reaches its end, whatever retries, nudges,
\* reroutes, tool batches and kills it goes through.  (the loop of handleTurn)
TurnsEnd == \A t \in Turns : pc[t] = "admitting" ~> pc[t] = "ended"

=============================================================================
