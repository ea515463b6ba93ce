------------------------------- MODULE Gateway -------------------------------
(***************************************************************************)
(* Connections, the sessions they own and the questions a running turn     *)
(* asks its user: attachMessageHandler and handleChatSend                  *)
(* (src/gateway/ws/handler.ts) with the ask_user and mirror brokers        *)
(* (src/agents/tools/ask-user-broker.ts, message-mirror-broker.ts).        *)
(*                                                                         *)
(* Ownership is kept per connection, the brokers keep one sender per       *)
(* session: two connections may own the session that one of them serves.   *)
(***************************************************************************)
EXTENDS Integers, SequencesExt

CONSTANTS
  Conns,        \* authenticated connections; a closed one may be opened anew
  Sessions,     \* session keys
  Turns,        \* the turns handleChatSend starts
  None,         \* no connection, no session
  Cap,          \* MAX_OWNED_SESSIONS
  MaxQuestions  \* bound: the questions all turns ask together

ASSUME GatewayAssumption ==
  /\ None \notin Conns \cup Sessions
  /\ Cap \in Nat \ {0}
  /\ MaxQuestions \in Nat

VARIABLES
  open,    \* the open connections
  owned,   \* ownedSessions of each connection, in insertion order
  client,  \* the connection whose sender and mirror sink a session has
  running, \* the session of each turn, once it has been started
  status,  \* "new", "running", "asking" or "done"
  asked,   \* the connection the parked question of a turn went to
  outcome, \* how each question of a turn was settled, in order
  seen     \* the questions each client has been shown

connVars == <<open, owned, client>>
turnVars == <<running, status, asked, outcome, seen>>
vars == <<connVars, turnVars>>

Question == Turns \X Nat
Outcome  == [how : {"answered", "unanswered", "cancelled"}, to : SUBSET Question]

TypeOK ==
  /\ open \subseteq Conns
  /\ owned \in [Conns -> Seq(Sessions)]
  /\ \A c \in Conns : Len(owned[c]) <= Cap /\ Cardinality(ToSet(owned[c])) = Len(owned[c])
  /\ client \in [Sessions -> Conns \cup {None}]
  /\ running \in [Turns -> Sessions \cup {None}]
  /\ status \in [Turns -> {"new", "running", "asking", "done"}]
  /\ asked \in [Turns -> Conns \cup {None}]
  /\ outcome \in [Turns -> Seq(Outcome)]
  /\ seen \in [Conns -> SUBSET Question]

Init ==
  /\ open = {}
  /\ owned = [c \in Conns |-> <<>>]
  /\ client = [s \in Sessions |-> None]
  /\ running = [t \in Turns |-> None]
  /\ status = [t \in Turns |-> "new"]
  /\ asked = [t \in Turns |-> None]
  /\ outcome = [t \in Turns |-> <<>>]
  /\ seen = [c \in Conns |-> {}]

-----------------------------------------------------------------------------
Owns(c, s) == s \in ToSet(owned[c])
Parked(s)  == {t \in Turns : status[t] = "asking" /\ running[t] = s}

\* The question a turn is at: the one after those that are settled.
Current(t) == <<t, Len(outcome[t]) + 1>>

Settled(t, h, Q) == Append(outcome[t], [how |-> h, to |-> Q])

QuestionsLeft ==
  MapThenSumSet(LAMBDA t : Len(outcome[t]) + (IF status[t] = "asking" THEN 1 ELSE 0), Turns)
    < MaxQuestions

\* cancelAllForSession: the questions of S are rejected and their turns go on.
Cancel(S) ==
  /\ status' = [t \in Turns |-> IF t \in S THEN "running" ELSE status[t]]
  /\ asked' = [t \in Turns |-> IF t \in S THEN None ELSE asked[t]]
  /\ outcome' = [t \in Turns |-> IF t \in S THEN Settled(t, "cancelled", {})
                                            ELSE outcome[t]]

\* The question of t is settled, by the answer to the question in Q if there
\* is one, and its tool call goes on.
Settle(t, h, Q) ==
  /\ status' = [status EXCEPT ![t] = "running"]
  /\ asked' = [asked EXCEPT ![t] = None]
  /\ outcome' = [outcome EXCEPT ![t] = Settled(t, h, Q)]

Connect(c) ==
  /\ c \notin open
  /\ open' = open \cup {c}
  /\ UNCHANGED <<owned, client, turnVars>>

\* Mutant: only the questions are cancelled.
CloseKeepsSender(c) ==
  /\ c \in open
  /\ open' = open \ {c}
  /\ Cancel(UNION {Parked(s) : s \in ToSet(owned[c])})
  /\ owned' = [owned EXCEPT ![c] = <<>>]
  /\ UNCHANGED <<client, running, seen>>

\* The close callback, for whatever reason the socket closes: the sender of
\* every session the connection owned is removed, whoever registered it.
Close(c) ==
  /\ c \in open
  /\ open' = open \ {c}
  /\ client' = [s \in Sessions |-> IF Owns(c, s) THEN None ELSE client[s]]
  /\ Cancel(UNION {Parked(s) : s \in ToSet(owned[c])})
  /\ owned' = [owned EXCEPT ![c] = <<>>]
  /\ UNCHANGED <<running, seen>>

-----------------------------------------------------------------------------
\* Mutant: a session may be evicted whatever waits for it.
EvictableAny(c) == DOMAIN owned[c]

\* The positions of the owned sessions that no question is parked on.
Evictable(c) == {k \in DOMAIN owned[c] : Parked(owned[c][k]) = {}}

\* The oldest evictable session of a connection at its cap.
Oldest(c, k) == k \in Evictable(c) /\ \A j \in Evictable(c) : k <= j

Full(c) == Len(owned[c]) >= Cap

\* chat.send claims a session the connection does not own yet: it becomes the
\* session's client and the questions put to an earlier client are cancelled.
\* A session evicted to make room loses its client and its questions too.
Claim(c, s) ==
  \/ /\ ~Full(c)
     /\ owned' = [owned EXCEPT ![c] = Append(@, s)]
     /\ client' = [client EXCEPT ![s] = c]
     /\ Cancel(IF client[s] # None THEN Parked(s) ELSE {})
  \/ /\ Full(c)
     /\ \E k \in DOMAIN owned[c] :
          /\ Oldest(c, k)
          /\ owned' = [owned EXCEPT ![c] = Append(RemoveAt(@, k), s)]
          /\ client' = [client EXCEPT ![owned[c][k]] = None, ![s] = c]
          /\ Cancel(Parked(owned[c][k])
                    \cup (IF client[s] # None THEN Parked(s) ELSE {}))

\* chat.send on a session the connection does not own.  Every owned session
\* waits on a question: SESSION_LIMIT_REACHED, nothing happens.
ChatSendClaim(c, s) ==
  /\ c \in open
  /\ ~Owns(c, s)
  /\ Claim(c, s)
  /\ UNCHANGED <<open, running, seen>>

\* chat.send reaches handleTurn: nothing waits for the turn, and a second one
\* may run on the same session.
ChatSendTurn(c, s, t) ==
  /\ c \in open
  /\ Owns(c, s)
  /\ status[t] = "new"
  /\ status' = [status EXCEPT ![t] = "running"]
  /\ running' = [running EXCEPT ![t] = s]
  /\ UNCHANGED <<connVars, asked, outcome, seen>>

-----------------------------------------------------------------------------
\* askQuestion, no sender: rejected.
AskRefused(t) ==
  /\ status[t] = "running"
  /\ QuestionsLeft
  /\ client[running[t]] = None
  /\ outcome' = [outcome EXCEPT ![t] = Settled(t, "unanswered", {})]
  /\ UNCHANGED <<connVars, running, status, asked, seen>>

\* askQuestion: the question is parked and sent to the session's client.
Ask(t) ==
  LET c == client[running[t]]
  IN /\ status[t] = "running"
     /\ QuestionsLeft
     /\ c # None
     /\ status' = [status EXCEPT ![t] = "asking"]
     /\ asked' = [asked EXCEPT ![t] = c]
     /\ seen' = [seen EXCEPT ![c] = @ \cup {Current(t)}]
     /\ UNCHANGED <<connVars, running, outcome>>

\* Mutant: any parked question of the session takes the answer.
UserAnswerAny(c, q) ==
  /\ c \in open
  /\ q \in seen[c]
  /\ Owns(c, running[q[1]])
  /\ \E t \in Parked(running[q[1]]) : Settle(t, "answered", {q})
  /\ UNCHANGED <<connVars, running, seen>>

\* user.answer, perhaps late or repeated: only the question that is parked
\* takes it, and only from an owner of its session.
UserAnswer(c, q) ==
  /\ c \in open
  /\ q \in seen[c]
  /\ Owns(c, running[q[1]])
  /\ status[q[1]] = "asking"
  /\ q = Current(q[1])
  /\ Settle(q[1], "answered", {q})
  /\ UNCHANGED <<connVars, running, seen>>

\* The timer of a parked question fires.
Timeout(t) ==
  /\ status[t] = "asking"
  /\ Settle(t, "unanswered", {})
  /\ UNCHANGED <<connVars, running, seen>>

TurnEnds(t) ==
  /\ status[t] = "running"
  /\ status' = [status EXCEPT ![t] = "done"]
  /\ UNCHANGED <<connVars, running, asked, outcome, seen>>

-----------------------------------------------------------------------------
Frame(c) ==
  \/ \E s \in Sessions : ChatSendClaim(c, s) \/ \E t \in Turns : ChatSendTurn(c, s, t)
  \/ \E q \in seen[c] : UserAnswer(c, q)

TurnStep(t) == AskRefused(t) \/ Ask(t) \/ Timeout(t) \/ TurnEnds(t)

Next ==
  \/ \E c \in Conns : Connect(c) \/ Close(c) \/ Frame(c)
  \/ \E t \in Turns : TurnStep(t)

Spec == Init /\ [][Next]_vars

-----------------------------------------------------------------------------
(* Properties. *)

\* A session's sender belongs to a connection that is open and still owns it:
\* no event is sent into a closed socket as if someone were watching.
ClientsLive ==
  \A s \in Sessions : client[s] # None => client[s] \in open /\ Owns(client[s], s)

\* A turn waits for an answer only while the connection that was shown the
\* question is still the session's client and may answer it: takeovers,
\* evictions and disconnects never leave a turn waiting on someone else.
ParkedReachable ==
  \A t \in Turns : status[t] = "asking" =>
    /\ asked[t] = client[running[t]]
    /\ asked[t] \in open
    /\ Owns(asked[t], running[t])
    /\ Current(t) \in seen[asked[t]]

\* An answer settles the question it was given to: a late or repeated answer
\* to a question that timed out is never taken for the answer to the next.
AnswersMatch ==
  \A t \in Turns : \A k \in DOMAIN outcome[t] :
    outcome[t][k].how = "answered" => outcome[t][k].to = {<<t, k>>}

\* A parked question is cancelled only because a connection that owned its
\* session closed or another one took the session over, never because its
\* session was evicted to make room.
EvictionSparesQuestions ==
  [][\A t \in Turns :
       /\ Len(outcome'[t]) > Len(outcome[t])
       /\ outcome'[t][Len(outcome'[t])].how = "cancelled"
       => \/ \E c \in open \ open' : Owns(c, running[t])
          \/ client'[running[t]] \notin {client[running[t]], None}]_vars

\* Whoever a question waits for can answer it, and it waits until then, until
\* its timeout or until its session is taken over.
QuestionsServed == []TypeOK /\ []ParkedReachable /\ EvictionSparesQuestions

=============================================================================
