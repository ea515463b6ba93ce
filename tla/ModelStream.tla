----------------------------- MODULE ModelStream -----------------------------
(***************************************************************************)
(* What a caller of a model may rely on, whichever providers are tried     *)
(* behind its back: tokens, tool calls and an end, from one provider only. *)
(***************************************************************************)
EXTENDS Naturals

CONSTANTS
  Calls,      \* calls of a model
  Patient,    \* the calls that go through the failover chain
  Providers,
  Nobody      \* no provider has been heard yet

VARIABLES
  source, \* the provider a call has heard
  tokens, \* how many tokens it has heard
  tools,  \* whether it has heard tool calls
  end     \* "idle", "open", or how the call ended

streamVars == <<source, tokens, tools, end>>

Init ==
  /\ source = [c \in Calls |-> Nobody]
  /\ tokens = [c \in Calls |-> 0]
  /\ tools = [c \in Calls |-> FALSE]
  /\ end = [c \in Calls |-> "idle"]

Ends(c, how) == end' = [end EXCEPT ![c] = how]

Hears(c, p) ==
  /\ end[c] = "open" /\ source[c] \in {Nobody, p}
  /\ source' = [source EXCEPT ![c] = p]

Open(c) == end[c] = "idle" /\ Ends(c, "open") /\ UNCHANGED <<source, tokens, tools>>

Say(c, p) ==
  /\ Hears(c, p)
  /\ tokens' = [tokens EXCEPT ![c] = @ + 1]
  /\ UNCHANGED <<tools, end>>

\* Tool calls come with the end, after every token.
Finish(c, p) ==
  /\ Hears(c, p)
  /\ \E b \in BOOLEAN : tools' = [tools EXCEPT ![c] = b]
  /\ Ends(c, "done")
  /\ UNCHANGED tokens

\* A call through the chain is told of an error only if it has heard nothing.
Fail(c) ==
  /\ end[c] \in {"idle", "open"}
  /\ c \in Patient => tokens[c] = 0
  /\ Ends(c, "error")
  /\ UNCHANGED <<source, tokens, tools>>

\* It ends without a word after its provider broke off in the middle.
BreakOff(c) ==
  /\ end[c] = "open" /\ c \in Patient /\ tokens[c] > 0
  /\ Ends(c, "silent")
  /\ UNCHANGED <<source, tokens, tools>>

\* The request could not even be made.
Throw(c) ==
  /\ end[c] = "open" /\ tokens[c] = 0
  /\ Ends(c, "thrown")
  /\ UNCHANGED <<source, tokens, tools>>

Next ==
  \E c \in Calls :
    \/ Open(c) \/ Fail(c) \/ BreakOff(c) \/ Throw(c)
    \/ \E p \in Providers : Say(c, p) \/ Finish(c, p)

Spec == Init /\ [][Next]_streamVars
=============================================================================
