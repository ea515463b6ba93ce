------------------------------ MODULE MCAnswers ------------------------------
(***************************************************************************)
(* Instance of Answers for TLC: two messages, a remote provider, a local   *)
(* one that also serves layer 2, and an uncensored one.                    *)
(***************************************************************************)
EXTENDS Answers

CONSTANTS m1, m2, remote, nearby, free

MCCalls == Messages \X Uses
MCVia == [c \in MCCalls |-> CASE c[2] \in {"consult", "turn"} -> "chain"
                              [] c[2] \in {"ping", "local"} -> "own"
                              [] c[2] = "reroute" -> "direct"]
MCTarget == [c \in MCCalls |-> IF c[2] = "reroute" THEN free ELSE nearby]
MCKind == [p \in Providers |-> CASE p = remote -> "anthropic" [] p = nearby -> "ollama"
                                 [] p = free -> "openai"]
MCOrder == <<nearby, free, remote>>
MCTokens == [c \in MCCalls |-> IF c[2] = "local" \/ c = <<m1, "turn">> THEN 2 ELSE 1]
\* A class that is on the allowlist, and one that is not.
MCClass == [m \in Messages |-> IF m = m1 THEN "listed" ELSE "other"]

Stage(s1, s2) == [m \in Messages |-> IF m = m1 THEN s1 ELSE s2]
Health(b, t) == [well |-> b, at |-> t]

\* One message all the way over time; and two turns that share the cooldowns.
MCLoads == {
  [stage |-> Stage("new", "over"), health |-> Health(FALSE, 0), history |-> BOOLEAN, now |-> 2],
  [stage |-> Stage("gate", "gate"), health |-> Health(FALSE, 2), history |-> {FALSE}, now |-> 2]}
=============================================================================
