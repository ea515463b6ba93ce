------------------------------- MODULE Context -------------------------------
(***************************************************************************)
(* What the model gets to see of a session: compaction                     *)
(* (src/agents/compaction.ts), the context window (src/agents/context.ts)  *)
(* and the cap on the stored transcript (src/sessions/transcript.ts), over *)
(* the turns of one session and its /compact and /clear commands.          *)
(*                                                                         *)
(* Entries carry their estimated tokens.  A batch of tool calls and its    *)
(* results are pushed in one step: module Turn shows that every way out of *)
(* processToolCalls leaves them complete.                                  *)
(***************************************************************************)
EXTENDS Transcript, FiniteSetsExt

CONSTANTS
  Budget,           \* agent.contextWindowTokens, or maxTokens * 4
  MaxSummaryTokens, \* 500 in the code
  SummaryWeights,   \* tokens of a summary entry: preamble, metadata, summary
  SystemWeights,    \* tokens of the system prompt, rebuilt on every iteration
  Weights,          \* tokens of a message of the user or of the model
  CallWeights,      \* tokens of the text that comes with tool calls
  ResultWeights,    \* tokens of a tool result
  MaxEntries,       \* session.maxTranscriptEntries
  MaxIterations,    \* agent.maxToolIterations
  MaxBatch,         \* most tool calls of one response
  MaxStored         \* bound: no turn begins on a longer stored transcript

ASSUME ContextAssumption ==
  /\ Budget \in Nat \ {0}
  /\ MaxSummaryTokens \in Nat
  /\ SummaryWeights \subseteq Nat /\ SystemWeights \subseteq Nat
  /\ Weights \subseteq Nat /\ CallWeights \subseteq Nat /\ ResultWeights \subseteq Nat
  /\ MaxEntries \in Nat \ {0}
  /\ MaxIterations \in Nat \ {0}
  /\ MaxBatch \in Nat \ {0}
  /\ MaxStored \in Nat

VARIABLES
  pc,         \* where the turn is
  iter,       \* iterations
  compacted,  \* compactedThisTurn
  retried,    \* emptyRetried
  transcript, \* session.transcript: the turn's copy, or while no turn runs
              \* the stored one
  window      \* the context window of the provider call under way

locals == <<iter, compacted, retried, window>>
vars == <<pc, locals, transcript>>

Weighed == [role : Roles, n : Nat, w : Nat]
Window  == [system : Nat, history : Seq(Weighed)]

TypeOK ==
  /\ pc \in {"idle", "loop", "assembling", "calling"}
  /\ iter \in 0 .. MaxIterations
  /\ compacted \in BOOLEAN
  /\ retried \in BOOLEAN
  /\ transcript \in Seq(Weighed)
  /\ window \in Window

-----------------------------------------------------------------------------
Weigh(e, w) == [role |-> e.role, n |-> e.n, w |-> w]
Bare(s)     == [k \in DOMAIN s |-> [role |-> s[k].role, n |-> s[k].n]]

\* The estimated tokens of s from position p on: only content is counted, so
\* the arguments of a tool call weigh nothing.
TokensFrom(s, p) ==
  LET sum[m \in 0 .. Len(s)] == IF m = 0 THEN 0 ELSE sum[m - 1] + s[Len(s) + 1 - m].w
  IN sum[Len(s) + 1 - p]
Tokens(s) == TokensFrom(s, 1)

\* groupTranscriptUnits: position p begins a unit unless it is a tool entry
\* in the run of tool entries after an assistant entry with calls.
UnitStart(s, p) ==
  s[p].role = "tool" =>
    ~ \E q \in 1 .. p - 1 : /\ s[q].role = "assistant" /\ s[q].n > 0
                            /\ \A k \in q + 1 .. p : s[k].role = "tool"

\* Mutant: a unit that fills the budget exactly is left out.
NewestUnitsBelow(s, b) ==
  LET starts == {p \in 1 .. Len(s) : UnitStart(s, p)} \cup {Len(s) + 1}
  IN From(s, Min({p \in starts : p = Len(s) + 1 \/ TokensFrom(s, p) < b}))

\* The newest whole units whose tokens fit in b.
NewestUnits(s, b) ==
  LET starts == {p \in 1 .. Len(s) : UnitStart(s, p)} \cup {Len(s) + 1}
  IN From(s, Min({p \in starts : TokensFrom(s, p) <= b}))

\* buildContextWindow with a system prompt of st tokens.
BuildWindow(s, st) ==
  [system |-> st,
   history |-> IF Budget <= st THEN <<>> ELSE NewestUnits(s, Budget - st)]

SummaryBudget == Min({MaxSummaryTokens, (15 * Budget) \div 100})
KeepBudget    == Budget - SummaryBudget

\* The first entry compaction keeps: it looks at entries, not at units.
SplitIndex(s) == Min({p \in 1 .. Len(s) + 1 : TokensFrom(s, p) <= KeepBudget})

\* The outcomes of compactHistory: the model's summary stands for the entries
\* before the split, or the call fails or times out and hardTruncate drops
\* the oldest units.
CompactHistory(s) ==
  IF Tokens(s) <= Budget \/ SplitIndex(s) = 1 THEN {s}
  ELSE {<<Weigh(Said("system"), w)>> \o From(s, SplitIndex(s)) : w \in SummaryWeights}
       \cup {NewestUnits(s, Budget)}

\* Compaction is tried from 80% of the budget on.
CompactionDue(s) == 5 * Tokens(s) > 4 * Budget

-----------------------------------------------------------------------------
NoWindow == [system |-> 0, history |-> <<>>]

Init ==
  /\ pc = "idle"
  /\ iter = 0
  /\ compacted = FALSE
  /\ retried = FALSE
  /\ transcript = <<>>
  /\ window = NoWindow

PushAll(es) == transcript' = transcript \o es

\* chat.send: the turn works on the stored transcript and adds the message.
Ask ==
  /\ pc = "idle"
  /\ Len(transcript) <= MaxStored
  /\ pc' = "loop"
  /\ \E w \in Weights : PushAll(<<Weigh(Said("user"), w)>>)
  /\ UNCHANGED locals

\* The arbiter or layer 2 answers without the model: the exchange is stored
\* and the cap is not applied.
FastPath ==
  /\ pc = "idle"
  /\ Len(transcript) + 2 <= MaxStored
  /\ \E u \in Weights, a \in Weights :
       PushAll(<<Weigh(Said("user"), u), Weigh(Said("assistant"), a)>>)
  /\ UNCHANGED <<pc, locals>>

MoreIterations == iter < MaxIterations

\* The interrupt checkpoint: queued input joins the transcript.
Checkpoint ==
  /\ pc = "loop"
  /\ MoreIterations
  /\ iter' = iter + 1
  /\ pc' = "assembling"
  /\ \/ UNCHANGED transcript
     \/ \E w \in Weights : PushAll(<<Weigh(Said("user"), w)>>)
  /\ UNCHANGED <<compacted, retried, window>>

\* Compaction, once a turn whether or not it changed anything, then the
\* window for the provider call.
Assemble ==
  LET due == ~compacted /\ CompactionDue(transcript)
  IN /\ pc = "assembling"
     /\ pc' = "calling"
     /\ compacted' = (compacted \/ due)
     /\ transcript' \in (IF due THEN CompactHistory(transcript) ELSE {transcript})
     /\ \E st \in SystemWeights : window' = BuildWindow(transcript', st)
     /\ UNCHANGED <<iter, retried>>

\* The end of a turn: the transcript s is cut to its cap and stored, and the
\* locals of handleTurn are gone.
EndTurn(s) ==
  /\ transcript' = TrimTranscript(s, MaxEntries)
  /\ pc' = "idle"
  /\ iter' = 0
  /\ compacted' = FALSE
  /\ retried' = FALSE
  /\ window' = NoWindow

\* On to the next iteration.
Again == pc' = "loop" /\ window' = NoWindow

Exhausted == pc = "loop" /\ ~MoreIterations /\ EndTurn(transcript)

\* A text answer.
Answer ==
  /\ pc = "calling"
  /\ \E w \in Weights : EndTurn(Append(transcript, Weigh(Said("assistant"), w)))

\* The provider fails, the calls exceed the budget or the turn is halted.
GiveUp == pc = "calling" /\ EndTurn(transcript)

\* An empty answer: nudge once.
Nudge ==
  /\ pc = "calling"
  /\ ~retried
  /\ retried' = TRUE
  /\ Again
  /\ \E w \in Weights : PushAll(<<Weigh(Said("user"), w)>>)
  /\ UNCHANGED <<iter, compacted>>

\* A batch of tool calls and its results; the turn goes on, or a failed batch
\* ends it.
CallTools ==
  /\ pc = "calling"
  /\ \E m \in 1 .. MaxBatch, w \in CallWeights :
       \E rw \in [1 .. m -> ResultWeights] :
         LET es == <<Weigh(Calls(m), w)>> \o [k \in 1 .. m |-> Weigh(Result(k), rw[k])]
         IN \/ /\ PushAll(es)
               /\ Again
               /\ UNCHANGED <<iter, compacted, retried>>
            \/ EndTurn(transcript \o es)

-----------------------------------------------------------------------------
\* /compact, on a session whose turns are over.  The command awaits the model
\* between its load and its save; a save over a newer transcript stores what
\* the same command stores here when it runs before that turn.
CompactCommand ==
  /\ pc = "idle"
  /\ Len(transcript) >= 4
  /\ transcript' \in CompactHistory(transcript)
  /\ UNCHANGED <<pc, locals>>

\* /clear.
Clear ==
  /\ pc = "idle"
  /\ transcript' = <<>>
  /\ UNCHANGED <<pc, locals>>

Next ==
  \/ Ask \/ FastPath \/ Checkpoint \/ Assemble \/ Exhausted
  \/ Answer \/ GiveUp \/ Nudge \/ CallTools
  \/ CompactCommand \/ Clear

Spec == Init /\ [][Next]_vars

-----------------------------------------------------------------------------
(* Properties. *)

\* Whatever was compacted, truncated and capped before, the provider is never
\* shown a tool call without all of its results right after it, and neither
\* is what is kept for the next turn.  (groupTranscriptUnits, hardTruncate)
CallsWhole == CallsAnswered(Bare(window.history)) /\ CallsAnswered(Bare(transcript))

\* The request stays within the budget whenever the pinned region leaves any
\* room, also when compaction was already used up earlier in the turn.
WindowFits ==
  window.history # <<>> => window.system + Tokens(window.history) <= Budget

\* Tool results that lost their call through a cut appear only ahead of the
\* conversation: no cut leaves one after a user or assistant entry.
Orphaned(s, p) ==
  s[p].role = "tool" /\ ~ \E q \in 1 .. p - 1 :
    s[q].role = "assistant" /\ s[p].n <= s[q].n /\ q + s[p].n = p
OrphansInFront(s) ==
  \A p \in DOMAIN s : Orphaned(s, p) =>
    \A q \in 1 .. p - 1 : s[q].role \in {"system", "tool"}
OrphansOnlyInFront == OrphansInFront(window.history) /\ OrphansInFront(transcript)

\* Compaction, its hard truncation, the window, the stored cap, /compact and
\* /clear together never part a call from its results, and part results from
\* their call only at the front, where context.ts:131 has it that they never
\* do: trimTranscript and compactHistory cut by entry.
PairsKept == TypeOK /\ CallsWhole /\ OrphansOnlyInFront

\* A newest message that fits beside the system prompt, and into what
\* compaction keeps, is the last thing the model reads: neither compaction
\* nor its hard truncation, nor the window, drops or summarises it.
QuestionSeen ==
  [][pc = "assembling" /\ pc' = "calling" =>
       LET e == transcript[Len(transcript)]
       IN e.role = "user" /\ e.w <= Budget - window'.system /\ e.w <= KeepBudget
            /\ window'.system < Budget
          => window'.history # <<>> /\ window'.history[Len(window'.history)] = e]_vars

\* What the model reads fits its context and ends in the question.
WindowServes == []WindowFits /\ QuestionSeen

=============================================================================
