----------------------------- MODULE Transcript -----------------------------
(***************************************************************************)
(* Session transcripts (src/sessions/transcript.ts, src/agents/context.ts) *)
(* as sequences of entries.  The text of an entry is abstracted away; what *)
(* the providers' tool protocol is sensitive to is kept: the role, how     *)
(* many tool calls an assistant entry carries, and which call of its batch *)
(* a tool result answers.                                                  *)
(***************************************************************************)
EXTENDS Integers, Sequences

Roles == {"system", "user", "assistant", "tool"}

\* n is the number of tool calls of an assistant entry, the position in its
\* batch of the call a tool entry answers, and 0 for every other entry.
Entry == [role : Roles, n : Nat]

Said(role) == [role |-> role, n |-> 0]
Calls(m)   == [role |-> "assistant", n |-> m]
Result(k)  == [role |-> "tool", n |-> k]

\* The results of calls i..j of one batch, in order.
Results(i, j) == [k \in 1 .. (j - i + 1) |-> Result(i + k - 1)]

\* m user messages.
UserMessages(m) == [k \in 1 .. m |-> Said("user")]

\* The entries of s from position k on.
From(s, k) == SubSeq(s, k, Len(s))

\* Array.prototype.slice(-m): the last m entries, and all of them when m = 0.
SliceLast(s, m) == IF m = 0 \/ m >= Len(s) THEN s ELSE From(s, Len(s) - m + 1)

\* Mutant: the first entry is kept whatever it is.
TrimKeepsFirst(s, max) ==
  IF Len(s) <= max THEN s ELSE <<s[1]>> \o SliceLast(s, max - 1)

\* trimTranscript: the most recent max entries, keeping a leading system entry.
TrimTranscript(s, max) ==
  IF Len(s) <= max THEN s
  ELSE IF s[1].role = "system" THEN <<s[1]>> \o SliceLast(s, max - 1)
  ELSE SliceLast(s, max)

-----------------------------------------------------------------------------
\* Every tool call is answered by its result, in order, right after the
\* assistant entry that made it: what a provider requires on replay.
CallsAnswered(s) ==
  \A p \in 1 .. Len(s) : s[p].role = "assistant" =>
    \A k \in 1 .. s[p].n : p + k <= Len(s) /\ s[p + k] = Result(k)

\* Every tool result follows the assistant entry whose call it answers.
ResultsAnchored(s) ==
  \A p \in 1 .. Len(s) : s[p].role = "tool" =>
    \E q \in 1 .. (p - 1) :
      s[q].role = "assistant" /\ s[p].n <= s[q].n /\ q + s[p].n = p

\* s ends in a batch of m calls of which the first d are answered; every
\* earlier batch is answered completely.
OpenBatch(s, m, d) ==
  /\ d \in 0 .. m
  /\ d < Len(s)
  /\ s[Len(s) - d] = Calls(m)
  /\ \A k \in 1 .. d : s[Len(s) - d + k] = Result(k)
  /\ \A p \in 1 .. (Len(s) - d - 1) : s[p].role = "assistant" =>
       \A k \in 1 .. s[p].n : p + k < Len(s) - d /\ s[p + k] = Result(k)
=============================================================================
