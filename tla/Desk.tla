-------------------------------- MODULE Desk --------------------------------
(***************************************************************************)
(* What the agent's tools keep in memory, per session: the todo list        *)
(* (src/agents/tools/todo.ts), plan mode (plan-mode.ts), timers             *)
(* (builtins.ts), the rate of message_send and the sinks its mirror goes to *)
(* (message-send.ts, message-mirror-broker.ts); and the two tools that wait *)
(* for something: message_send for its connectors, subagent_spawn for a     *)
(* child that talks to the model on its own (subagent-spawn.ts and          *)
(* runChildTask in src/agents/inference.ts).                                *)
(*                                                                         *)
(* An errand is one call of one of these tools.                             *)
(***************************************************************************)
EXTENDS Integers, SequencesExt, FiniteSetsExt, Filter

CONSTANTS
  Errands,       \* names of calls, strings
  Errand,        \* what a call asks for: [tool, session, with]
  MaxLists,      \* MAX_TODO_SESSIONS
  MaxTodos,      \* MAX_TODOS_PER_SESSION
  MaxSteps,      \* MAX_PLAN_STEPS
  MaxTimers,     \* MAX_TIMERS_PER_SESSION
  MaxSends,      \* SEND_MAX_PER_WINDOW
  Channels,      \* the ids of the registered outbound connectors
  MaxChildTurns  \* MAX_CHILD_TURNS

\* What `with` is:
\*   todo_set       the items, <<id, status>>       todo_update  one item
\*   plan_exit      the steps, [id, needs]          timer_*      the label
\*   message_send   the channels, a sequence
\*   subagent_spawn the turns asked for
ASSUME DeskAssumption ==
  /\ Errands \subseteq STRING
  /\ {MaxLists, MaxTodos, MaxSteps, MaxTimers, MaxSends, MaxChildTurns} \subseteq Nat \ {0}

VARIABLES
  went,      \* how far an errand is
  todos,     \* <<session, list>>, the least recently used first
  plans,     \* plan mode of the sessions that used it: [active, last]
  timers,    \* activeTimers: <<session, label>>
  rate,      \* rateState: sends in the window of a session
  sinks,     \* sessions with a mirror sink
  reports,   \* what message_send has to report: <<channel, delivered, mirrored>>
  child,     \* a subagent: the turns it used and what its last one was
  late,      \* the subagents whose deadline has passed
  uses       \* history: <<session, whether it kept its list>>, per use of one

deskVars == <<went, todos, plans, timers, rate, sinks, reports, child, late>>
deskHistory == <<uses>>

Sent == DOMAIN went  \* the errands of this behaviour
Statuses == {"pending", "in_progress", "completed"}

DeskInit(scene) ==
  /\ went = [e \in Errands \cap scene |-> "idle"]
  /\ todos = <<>> /\ plans = <<>> /\ timers = {} /\ rate = <<>>
  /\ sinks = {Errand[e].session : e \in Sent}
  /\ reports = [e \in Sent |-> <<>>]
  /\ child = [e \in Sent |-> [turns |-> 0, last |-> "none", flags |-> {}]]
  /\ late = {}
  /\ uses = <<>>

Begins(e, tool) == went[e] = "idle" /\ Errand[e].tool = tool
Goes(e, how) == went' = [went EXCEPT ![e] = how]
Extended(f, x, y) == [z \in DOMAIN f \cup {x} |-> IF z = x THEN y ELSE f[z]]

-----------------------------------------------------------------------------
\* todo_write

HasList(s) == \E i \in DOMAIN todos : todos[i][1] = s
GetList(s) ==
  IF HasList(s) THEN todos[SelectInSeq(todos, LAMBDA l : l[1] = s)][2] ELSE <<>>
Dropped(ls, s) == Kept(ls, {l \in Range(ls) : l[1] # s})

EnsureCapacity(ls) ==
  IF Len(ls) < MaxLists THEN ls ELSE SubSeq(ls, Len(ls) - MaxLists + 2, Len(ls))

SetList(s, list) ==
  todos' = Append(Dropped(IF HasList(s) THEN todos ELSE EnsureCapacity(todos), s), <<s, list>>)

\* Mutant: reading a list does not count as using it.
TouchSessionNever(s) == UNCHANGED todos

TouchSession(s) == IF HasList(s) THEN SetList(s, GetList(s)) ELSE UNCHANGED todos

Todo(e) == UNCHANGED <<plans, timers, rate, sinks, reports, child, late>>
Used(s) == uses' = Append(uses, <<s, TRUE>>)

TodoList(e) ==
  LET s == Errand[e].session
  IN /\ Begins(e, "todo_list")
     /\ TouchSession(s)
     /\ IF HasList(s) THEN Used(s) ELSE UNCHANGED uses
     /\ Goes(e, "done") /\ Todo(e)

TodoSet(e) ==
  LET list == Errand[e].with
      s == Errand[e].session
  IN /\ Begins(e, "todo_set")
     /\ IF /\ Len(list) <= MaxTodos
           /\ \A i \in DOMAIN list : list[i][2] \in Statuses
           /\ \A i, k \in DOMAIN list : i # k => list[i][1] # list[k][1]
          THEN SetList(s, list) /\ Used(s) /\ Goes(e, "done")
          ELSE UNCHANGED <<todos, uses>> /\ Goes(e, "refused")
     /\ Todo(e)

TodoUpdate(e) ==
  LET item == Errand[e].with
      s == Errand[e].session
      list == GetList(s)
      i == SelectInSeq(list, LAMBDA t : t[1] = item[1])
  IN /\ Begins(e, "todo_update")
     /\ IF i # 0 /\ item[2] \in Statuses
          THEN SetList(s, ReplaceAt(list, i, item)) /\ Used(s) /\ Goes(e, "done")
          ELSE UNCHANGED <<todos, uses>> /\ Goes(e, "refused")
     /\ Todo(e)

TodoClear(e) ==
  /\ Begins(e, "todo_clear")
  /\ todos' = Dropped(todos, Errand[e].session)
  /\ uses' = Append(uses, <<Errand[e].session, FALSE>>)
  /\ Goes(e, "done") /\ Todo(e)

-----------------------------------------------------------------------------
\* plan_mode

ValidatePlan(steps) ==
  /\ Len(steps) \in 1 .. MaxSteps
  /\ \A i, k \in DOMAIN steps : i # k => steps[i].id # steps[k].id
  \* a step needs only steps before it, or itself
  /\ \A i \in DOMAIN steps : steps[i].needs \subseteq {steps[k].id : k \in 1 .. i}

PlanEnter(e) ==
  /\ Begins(e, "plan_enter")
  /\ plans' = Extended(plans, Errand[e].session, [active |-> TRUE, last |-> <<>>])
  /\ Goes(e, "done")
  /\ UNCHANGED <<todos, timers, rate, sinks, reports, child, late, deskHistory>>

PlanExit(e) ==
  LET s == Errand[e].session
      steps == Errand[e].with
  IN /\ Begins(e, "plan_exit")
     /\ IF s \in DOMAIN plans /\ plans[s].active /\ ValidatePlan(steps)
          THEN plans' = [plans EXCEPT ![s] = [active |-> FALSE, last |-> steps]] /\ Goes(e, "done")
          ELSE UNCHANGED plans /\ Goes(e, "refused")
     /\ UNCHANGED <<todos, timers, rate, sinks, reports, child, late, deskHistory>>

PlanStatus(e) ==
  /\ Begins(e, "plan_status") /\ Goes(e, "done")
  /\ UNCHANGED <<todos, plans, timers, rate, sinks, reports, child, late, deskHistory>>

\* A tool with an effect, as the agent loop sees it at dispatch.
Writes(e) ==
  LET s == Errand[e].session
  IN /\ Begins(e, "writes")
     /\ Goes(e, IF s \in DOMAIN plans /\ plans[s].active THEN "refused" ELSE "done")
     /\ UNCHANGED <<todos, plans, timers, rate, sinks, reports, child, late, deskHistory>>

-----------------------------------------------------------------------------
\* timer

TimerStart(e) ==
  LET s == Errand[e].session
      mine == {t \in timers : t[1] = s}
      key == <<s, Errand[e].with>>
  IN /\ Begins(e, "timer_start")
     /\ IF key \in timers \/ Cardinality(mine) >= MaxTimers
          THEN UNCHANGED timers /\ Goes(e, "refused")
          ELSE timers' = timers \cup {key} /\ Goes(e, "done")
     /\ UNCHANGED <<todos, plans, rate, sinks, reports, child, late, deskHistory>>

TimerCheck(e) ==
  /\ Begins(e, "timer_check")
  /\ Goes(e, IF <<Errand[e].session, Errand[e].with>> \in timers THEN "done" ELSE "refused")
  /\ UNCHANGED <<todos, plans, timers, rate, sinks, reports, child, late, deskHistory>>

TimerList(e) ==
  /\ Begins(e, "timer_list") /\ Goes(e, "done")
  /\ UNCHANGED <<todos, plans, timers, rate, sinks, reports, child, late, deskHistory>>

TimerStop(e) ==
  LET key == <<Errand[e].session, Errand[e].with>>
  IN /\ Begins(e, "timer_stop")
     /\ timers' = timers \ {key}
     /\ Goes(e, IF key \in timers THEN "done" ELSE "refused")
     /\ UNCHANGED <<todos, plans, rate, sinks, reports, child, late, deskHistory>>

-----------------------------------------------------------------------------
\* message_send

\* checkRate counts a send before its channels are looked up.
MessageSend(e) ==
  LET s == Errand[e].session
      chosen == Errand[e].with
      count == IF s \in DOMAIN rate THEN rate[s] ELSE 0
  IN /\ Begins(e, "message_send")
     /\ IF chosen = <<>> \/ ~IsInjective(chosen) \/ count >= MaxSends
          THEN UNCHANGED rate /\ Goes(e, "refused")
          ELSE /\ rate' = Extended(rate, s, count + 1)
               /\ Goes(e, IF Range(chosen) \subseteq Channels THEN "sending" ELSE "refused")
     /\ UNCHANGED <<todos, plans, timers, sinks, reports, child, late, deskHistory>>

\* A connector has answered, or has thrown; the next one follows.
Delivered(e, ok) ==
  LET n == Len(reports[e]) + 1
  IN /\ went[e] = "sending"
     /\ reports' = [reports EXCEPT ![e] =
          Append(@, <<Errand[e].with[n], ok, Errand[e].session \in sinks>>)]
     /\ IF n < Len(Errand[e].with) THEN UNCHANGED went
        ELSE Goes(e, IF \E i \in DOMAIN reports'[e] : reports'[e][i][2] THEN "done" ELSE "failed")
     /\ UNCHANGED <<todos, plans, timers, rate, sinks, child, late, deskHistory>>

\* A client of the session leaves or comes back.
SinkChanges(s) ==
  /\ \E e \in Sent : went[e] = "sending" /\ Errand[e].session = s
  /\ sinks' = IF s \in sinks THEN sinks \ {s} ELSE sinks \cup {s}
  /\ UNCHANGED <<went, todos, plans, timers, rate, reports, child, late, deskHistory>>

WindowEnds(s) ==
  /\ s \in DOMAIN rate
  /\ rate' = [t \in DOMAIN rate \ {s} |-> rate[t]]
  /\ UNCHANGED <<went, todos, plans, timers, sinks, reports, child, late, deskHistory>>

-----------------------------------------------------------------------------
\* subagent_spawn

Turns(e) == Min({MaxChildTurns, Max({1, Errand[e].with})})

SubagentSpawn(e) ==
  /\ Begins(e, "subagent_spawn")
  /\ Goes(e, "looping")
  /\ UNCHANGED <<todos, plans, timers, rate, sinks, reports, child, late, deskHistory>>

\* The head of the loop.
ChildTurn(e) ==
  /\ went[e] = "looping"
  /\ IF child[e].turns = Turns(e) THEN Goes(e, "returned") /\ UNCHANGED child
     ELSE IF e \in late
       THEN /\ Goes(e, "returned")
            /\ child' = [child EXCEPT ![e].flags = @ \cup {"timed_out"}]
     ELSE /\ Goes(e, "streaming")
          /\ child' = [child EXCEPT ![e].turns = @ + 1]
  /\ UNCHANGED <<todos, plans, timers, rate, sinks, reports, late, deskHistory>>

\* The stream, or the deadline, has settled.  A stream without a token is
\* "empty" and only takes a turn; one that broke off is taken for a text.
ChildStreamed(e, result) ==
  LET flag == IF result = "thrown" THEN {"error"}
              ELSE IF e \in late THEN {"timed_out"}
              ELSE IF result = "error" THEN {"error"} ELSE {}
  IN /\ went[e] = "streaming"
     /\ child' = [child EXCEPT ![e].last = result, ![e].flags = @ \cup flag]
     /\ Goes(e, IF flag # {} \/ result = "text" THEN "returned"
                ELSE IF result = "tool_calls" THEN "tools" ELSE "looping")
     /\ UNCHANGED <<todos, plans, timers, rate, sinks, reports, late, deskHistory>>

\* The tools run to their end, however late.
ChildTools(e, ok) ==
  /\ went[e] = "tools"
  /\ child' = [child EXCEPT ![e].flags =
       IF ~ok THEN @ \cup {"error"}
       ELSE IF child[e].turns = Turns(e) THEN @ \cup {"exhausted"} ELSE @]
  /\ Goes(e, IF ok THEN "looping" ELSE "returned")
  /\ UNCHANGED <<todos, plans, timers, rate, sinks, reports, late, deskHistory>>

Deadline(e) ==
  /\ went[e] \in {"looping", "streaming", "tools"} /\ e \notin late
  /\ late' = late \cup {e}
  /\ UNCHANGED <<went, todos, plans, timers, rate, sinks, reports, child, deskHistory>>

-----------------------------------------------------------------------------
ErrandStep(e) ==
  \/ TodoList(e) \/ TodoSet(e) \/ TodoUpdate(e) \/ TodoClear(e)
  \/ PlanEnter(e) \/ PlanExit(e) \/ PlanStatus(e) \/ Writes(e)
  \/ TimerStart(e) \/ TimerCheck(e) \/ TimerList(e) \/ TimerStop(e)
  \/ MessageSend(e) \/ \E ok \in BOOLEAN : Delivered(e, ok)
  \/ SubagentSpawn(e) \/ ChildTurn(e) \/ Deadline(e)
  \/ \E result \in {"text", "tool_calls", "empty", "error", "thrown"} : ChildStreamed(e, result)
  \/ \E ok \in BOOLEAN : ChildTools(e, ok)

DeskPasses ==
  \/ \E s \in {Errand[e].session : e \in Sent} : SinkChanges(s) \/ WindowEnds(s)

\* The process is started again: all of this is only in memory.
CrashDesk ==
  /\ went' = [e \in Sent |->
       IF went[e] \in {"sending", "looping", "streaming", "tools"} THEN "dead" ELSE went[e]]
  /\ todos' = <<>> /\ plans' = <<>> /\ timers' = {} /\ rate' = <<>> /\ sinks' = {}
  /\ late' = {} /\ uses' = <<>>
  /\ UNCHANGED <<reports, child>>

-----------------------------------------------------------------------------
\* A todo list is forgotten only for lack of room, and then the one that was
\* not used for longest: a session that has a list, and after whose last use
\* of it fewer than MAX_TODO_SESSIONS others used theirs, still has it.
\* (touchSession and setList, which move a list to the end; clear gives up one.)
RecentKept ==
  \A i \in DOMAIN uses :
    LET s == uses[i][1]
        after == {k \in i + 1 .. Len(uses) : TRUE}
    IN /\ uses[i][2]
       /\ \A k \in after : uses[k][1] # s
       /\ Cardinality({uses[k][1] : k \in {k \in after : uses[k][2]}}) < MaxLists
       => HasList(s)
=============================================================================
