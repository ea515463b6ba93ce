-------------------------------- MODULE Mail --------------------------------
(***************************************************************************)
(* The email channel: the poll loop of src/connectors/email-imap.ts, the   *)
(* inbound handler of src/gateway/server.ts it calls for each message, and *)
(* the attachments that tools of the handler's turn stage for the reply    *)
(* (src/agents/tools/email-attach.ts).  The mailbox remembers across       *)
(* restarts what is flagged \Seen; the queues of attachments do not.  The  *)
(* turn itself is module Turn; here it runs tools and ends.                *)
(***************************************************************************)
EXTENDS Integers, SequencesExt, Filter

CONSTANTS
  Threads,     \* conversations, one session each
  MaxPerTick,  \* MAX_MESSAGES_PER_TICK
  MaxFiles,    \* MAX_ATTACHMENTS_PER_SESSION
  MaxSessions, \* MAX_ATTACHMENT_SESSIONS
  Tools,       \* identities for the attaching tools under way at once
  MaxMail,     \* bound: messages that arrive
  MaxCalls,    \* bound: attaching tools one turn calls
  MaxFailures, \* bound: things that fail
  MaxBoots     \* bound: starts of the process

ASSUME MailAssumption ==
  /\ {MaxPerTick, MaxFiles, MaxSessions, MaxBoots} \subseteq Nat \ {0}
  /\ {MaxMail, MaxCalls, MaxFailures} \subseteq Nat

VARIABLES
  boot,      \* the current start of the process
  stage,     \* the connector: "up", "stopping" (logging out) or "down"
  mail,      \* the messages, oldest first: their sort and thread
  seen,      \* those flagged \Seen
  pc,        \* the await the poll loop is in, "idle" between polls
  batch,     \* the messages of this poll still to handle, the current one first
  turns,     \* how many times the handler was called
  calls,     \* how many attaching tools the turn has called
  tool,      \* each attaching tool under way
  queues,    \* attachment queues, in the Map's order
  outgoing,  \* the reply being sent
  straying,  \* replies whose send outlived its timeout
  delivered, \* history: replies that reached the sender
  gaveUp,    \* history: messages whose handling threw
  doubts,    \* history: for each message, how often a reply that may have
             \* been delivered left it unseen
  failures   \* history: things that failed

mailbox == <<mail, seen>>
loop == <<pc, batch, turns, calls, outgoing>>
files == <<tool, queues>>
past == <<straying, delivered, gaveUp, doubts, failures>>
vars == <<boot, stage, mailbox, loop, files, past>>

Sorts == {"turn", "command", "filtered"}
Messages == 1 .. MaxMail
Attempts == 0 .. (MaxMail + MaxFailures + MaxBoots)
File == [turn : Attempts, thread : Threads, late : BOOLEAN]
Reply == [msg : Messages, turn : Attempts, files : Seq(File)]
Idle == [at |-> "idle"]
NoReply == [msg |-> 0]

TypeOK ==
  /\ boot \in 1 .. MaxBoots
  /\ stage \in {"up", "stopping", "down"}
  /\ mail \in Seq([sort : Sorts, thread : Threads])
  /\ seen \subseteq DOMAIN mail
  /\ pc \in {"idle", "search", "fetch", "load", "turn", "command", "send", "flag", "giveup"}
  /\ batch \in Seq(DOMAIN mail) /\ Len(batch) <= MaxPerTick
  /\ turns \in Attempts
  /\ calls \in 0 .. MaxCalls
  /\ tool \in [Tools -> {Idle} \cup
       [at : {"asked", "checked"}, turn : Attempts, thread : Threads, late : BOOLEAN]]
  /\ queues \in Seq([key : Threads, files : Seq(File)])
  /\ Len(queues) <= MaxSessions
  /\ \A i, j \in DOMAIN queues : queues[i].key = queues[j].key => i = j
  /\ outgoing \in Reply \cup {NoReply}
  /\ straying \subseteq Reply /\ delivered \subseteq Reply
  /\ gaveUp \subseteq DOMAIN mail
  /\ doubts \in [Messages -> Nat]
  /\ failures \in 0 .. MaxFailures

Init ==
  /\ boot = 1 /\ stage = "up"
  /\ mail = <<>> /\ seen = {}
  /\ pc = "idle" /\ batch = <<>> /\ turns = 0 /\ calls = 0 /\ outgoing = NoReply
  /\ tool = [t \in Tools |-> Idle] /\ queues = <<>>
  /\ straying = {} /\ delivered = {} /\ gaveUp = {}
  /\ doubts = [m \in Messages |-> 0] /\ failures = 0

-----------------------------------------------------------------------------
(* Attachment queues. *)

\* getQueue, in a state of the Map.
QueueIn(map, k) ==
  LET own == {i \in DOMAIN map : map[i].key = k}
  IN IF own = {} THEN <<>> ELSE map[CHOOSE i \in own : TRUE].files

Queue(k) == QueueIn(queues, k)

HasQueue(k) == \E i \in DOMAIN queues : queues[i].key = k

\* ensureCapacity: room for a new session is made at the cost of the one
\* that staged longest ago.
RoomFor(k) == IF ~HasQueue(k) /\ Len(queues) >= MaxSessions THEN Tail(queues) ELSE queues

\* The Map without the queue of k.
Others(map, k) == Kept(map, {q \in Range(map) : q.key # k})

\* The end of both tools: the session's queue moves to the end of the Map
\* and the file to the end of the queue.
Push(k, f) ==
  queues' = Append(Others(RoomFor(k), k),
                   [key |-> k, files |-> Append(QueueIn(RoomFor(k), k), f)])

\* drainAttachments.
Drained(k) == Others(queues, k)

-----------------------------------------------------------------------------
(* The poll loop. *)

Current == batch[1]
Thread == mail[Current].thread

\* Something fails; without a client or transporter everything does.
Fail ==
  \/ stage = "down" /\ UNCHANGED failures
  \/ stage # "down" /\ failures < MaxFailures /\ failures' = failures + 1

Doubt(m) == doubts' = [doubts EXCEPT ![m] = @ + 1]

\* The loop goes on to the next message, or the poll is over.
Advance ==
  /\ batch' = IF stage = "up" THEN Tail(batch) ELSE <<>>
  /\ pc' = IF stage = "up" /\ Len(batch) > 1 THEN "fetch" ELSE "idle"
  /\ outgoing' = NoReply
  /\ UNCHANGED <<turns, calls>>

\* A message reaches the mailbox; "filtered" stands for everything the loop
\* answers with the flag alone: unknown or spoofed senders, empty messages,
\* copies not addressed to the agent.
Arrive(sort, thread) ==
  /\ Len(mail) < MaxMail
  /\ mail' = Append(mail, [sort |-> sort, thread |-> thread])
  /\ UNCHANGED <<boot, stage, seen, loop, files, past>>

\* The interval fires while no poll is under way; the mailbox lock is awaited.
PollStarts ==
  /\ stage = "up" /\ pc = "idle"
  /\ pc' = "search"
  /\ UNCHANGED <<boot, stage, mailbox, batch, turns, calls, outgoing, files, past>>

\* Mutant: polling stays set after a poll that failed.
PollFailsOpen ==
  /\ pc = "search"
  /\ Fail
  /\ pc' = "polling"
  /\ UNCHANGED <<boot, stage, mailbox, batch, turns, calls, outgoing, files,
                 straying, delivered, gaveUp, doubts>>

\* The lock or the search fails.
PollFails ==
  /\ pc = "search"
  /\ Fail
  /\ pc' = "idle"
  /\ UNCHANGED <<boot, stage, mailbox, batch, turns, calls, outgoing, files,
                 straying, delivered, gaveUp, doubts>>

\* The oldest of the unseen messages, up to the cap of one poll.
Oldest ==
  LET unseen == Kept([i \in DOMAIN mail |-> i], DOMAIN mail \ seen)
  IN SubSeq(unseen, 1, IF Len(unseen) < MaxPerTick THEN Len(unseen) ELSE MaxPerTick)

\* The search returns; after stop the loop breaks off at its first message.
SearchEnds ==
  /\ pc = "search"
  /\ batch' = IF stage = "up" THEN Oldest ELSE <<>>
  /\ pc' = IF batch' = <<>> THEN "idle" ELSE "fetch"
  /\ UNCHANGED <<boot, stage, mailbox, turns, calls, outgoing, files, past>>

\* The message is there and parsed: it is flagged, or the handler is called.
FetchEnds ==
  /\ pc = "fetch" /\ stage # "down"
  /\ pc' = IF mail[Current].sort = "filtered" THEN "flag" ELSE "load"
  /\ UNCHANGED <<boot, stage, mailbox, batch, turns, calls, outgoing, files, past>>

\* The fetch returns nothing: the message is left for the next poll.
FetchEmpty ==
  /\ pc = "fetch"
  /\ Fail
  /\ Advance
  /\ UNCHANGED <<boot, stage, mailbox, files, straying, delivered, gaveUp, doubts>>

\* Fetching, parsing or loading the session throws: the message is given up.
HandlingThrows ==
  /\ pc \in {"fetch", "load"}
  /\ Fail
  /\ gaveUp' = gaveUp \cup {Current}
  /\ pc' = "giveup"
  /\ UNCHANGED <<boot, stage, mailbox, batch, turns, calls, outgoing, files,
                 straying, delivered, doubts>>

\* The session is loaded: a command or a turn begins.
LoadEnds ==
  /\ pc = "load"
  /\ turns' = turns + 1
  /\ calls' = 0
  /\ pc' = mail[Current].sort
  /\ UNCHANGED <<boot, stage, mailbox, batch, outgoing, files, past>>

-----------------------------------------------------------------------------
(* The turn and its attaching tools. *)

\* A tool the turn waits for.
Awaited == {t \in Tools : tool[t] # Idle /\ ~tool[t].late}

\* Identities are interchangeable, so a call takes any that is free.
Free == {t \in Tools : tool[t] = Idle}

\* The turn calls email_attach or email_attach_content and waits for it.
ToolCalled(t) ==
  /\ pc = "turn" /\ Awaited = {}
  /\ Free # {} /\ t = CHOOSE free \in Free : TRUE
  /\ calls < MaxCalls
  /\ calls' = calls + 1
  /\ tool' = [tool EXCEPT ![t] = [at |-> "asked", turn |-> turns, thread |-> Thread, late |-> FALSE]]
  /\ UNCHANGED <<boot, stage, mailbox, pc, batch, turns, outgoing, queues, past>>

\* The caps admit the file; reading or writing it is awaited.
ToolChecks(t) ==
  /\ tool[t].at = "asked"
  /\ Len(Queue(tool[t].thread)) < MaxFiles
  /\ tool' = [tool EXCEPT ![t].at = "checked"]
  /\ UNCHANGED <<boot, stage, mailbox, loop, queues, past>>

\* The tool returns an error: no such file, over a cap, an I/O error.
ToolErrs(t) ==
  /\ tool[t] # Idle
  /\ tool' = [tool EXCEPT ![t] = Idle]
  /\ UNCHANGED <<boot, stage, mailbox, loop, queues, past>>

\* The file is queued.
ToolStages(t) ==
  /\ tool[t].at = "checked"
  /\ Push(tool[t].thread, [turn |-> tool[t].turn, thread |-> tool[t].thread, late |-> tool[t].late])
  /\ tool' = [tool EXCEPT ![t] = Idle]
  /\ UNCHANGED <<boot, stage, mailbox, loop, past>>

\* The turn stops waiting for a tool; the tool ignores its signal and goes on.
ToolTimesOut(t) ==
  /\ t \in Awaited
  /\ Fail
  /\ tool' = [tool EXCEPT ![t].late = TRUE]
  /\ UNCHANGED <<boot, stage, mailbox, loop, queues,
                 straying, delivered, gaveUp, doubts>>

\* The handler has returned a reply: it is sent, or the transporter is gone
\* and the message stays unseen.
SendStarts(attached) ==
  IF stage = "down" THEN Advance
  ELSE /\ pc' = "send"
       /\ outgoing' = [msg |-> Current, turn |-> turns, files |-> attached]
       /\ UNCHANGED <<batch, turns, calls>>

\* handleTurn has returned.
TurnEnds ==
  /\ pc = "turn" /\ Awaited = {}
  /\ SendStarts(Queue(Thread))
  /\ queues' = Drained(Thread)
  /\ UNCHANGED <<boot, stage, mailbox, tool, past>>

\* Mutant: what was staged before the error stays.
TurnThrowsKeeping ==
  /\ pc = "turn" /\ Awaited = {}
  /\ Fail
  /\ SendStarts(<<>>)
  /\ UNCHANGED <<boot, stage, mailbox, files, straying, delivered, gaveUp, doubts>>

\* handleTurn throws: the reply is the error, without files.
TurnThrows ==
  /\ pc = "turn" /\ Awaited = {}
  /\ Fail
  /\ SendStarts(<<>>)
  /\ queues' = Drained(Thread)
  /\ UNCHANGED <<boot, stage, mailbox, tool, straying, delivered, gaveUp, doubts>>

\* A command is known or not, returns or throws: its reply has no files.
CommandEnds ==
  /\ pc = "command"
  /\ SendStarts(<<>>)
  /\ queues' = Drained(Thread)
  /\ UNCHANGED <<boot, stage, mailbox, tool, past>>

-----------------------------------------------------------------------------
(* Delivery. *)

\* Mutant: the loop goes on without flagging what it answered.
SendEndsUnflagged ==
  /\ pc = "send"
  /\ delivered' = delivered \cup {outgoing}
  /\ Advance
  /\ UNCHANGED <<boot, stage, mailbox, files, straying, gaveUp, doubts, failures>>

\* sendMail resolves: the message can be flagged.
SendEnds ==
  /\ pc = "send"
  /\ delivered' = delivered \cup {outgoing}
  /\ outgoing' = NoReply
  /\ pc' = "flag"
  /\ UNCHANGED <<boot, stage, mailbox, batch, turns, calls, files,
                 straying, gaveUp, doubts, failures>>

\* Mutant: a failed send is handled like any other exception.
SendFailsGivingUp ==
  /\ pc = "send"
  /\ Fail
  /\ pc' = "giveup"
  /\ outgoing' = NoReply
  /\ UNCHANGED <<boot, stage, mailbox, batch, turns, calls, files,
                 straying, delivered, gaveUp, doubts>>

\* sendMail rejects: the message stays unseen.  The relay may have taken the
\* reply before the connection broke.
SendFails ==
  /\ pc = "send"
  /\ Fail
  /\ \/ UNCHANGED <<delivered, doubts>>
     \/ delivered' = delivered \cup {outgoing} /\ Doubt(Current)
  /\ Advance
  /\ UNCHANGED <<boot, stage, mailbox, files, straying, gaveUp>>

\* SEND_HARD_TIMEOUT_MS: the loop goes on, and so does the send.
SendTimesOut ==
  /\ pc = "send"
  /\ Fail
  /\ straying' = straying \cup {outgoing}
  /\ Doubt(Current)
  /\ Advance
  /\ UNCHANGED <<boot, stage, mailbox, files, delivered, gaveUp>>

\* A send that outlived its timeout succeeds or fails.
StraySendEnds(r) ==
  /\ r \in straying
  /\ straying' = straying \ {r}
  /\ delivered' \in {delivered, delivered \cup {r}}
  /\ UNCHANGED <<boot, stage, mailbox, loop, files, gaveUp, doubts, failures>>

\* \Seen is set, after the reply, instead of one, or by the catch of the loop.
FlagEnds ==
  /\ pc \in {"flag", "giveup"} /\ stage # "down"
  /\ seen' = seen \cup {Current}
  /\ Advance
  /\ UNCHANGED <<boot, stage, mail, files, past>>

\* Setting \Seen throws: the catch of the loop tries once more.
FlagFails ==
  /\ pc = "flag"
  /\ Fail
  /\ pc' = "giveup"
  /\ UNCHANGED <<boot, stage, mailbox, batch, turns, calls, outgoing, files,
                 straying, delivered, gaveUp, doubts>>

Replied(m) == \E r \in delivered : r.msg = m

\* The catch fails too: the message stays unseen.
GiveUpFails ==
  /\ pc = "giveup"
  /\ Fail
  /\ IF Replied(Current) THEN Doubt(Current) ELSE UNCHANGED doubts
  /\ Advance
  /\ UNCHANGED <<boot, stage, mailbox, files, straying, delivered, gaveUp>>

-----------------------------------------------------------------------------
(* Stop and start. *)

\* stop: no further poll, and the loop breaks off before its next message.
StopCalled ==
  /\ stage = "up"
  /\ stage' = "stopping"
  /\ UNCHANGED <<boot, mailbox, loop, files, past>>

\* logout is over, client and transporter are gone.
StopEnds ==
  /\ stage = "stopping"
  /\ stage' = "down"
  /\ UNCHANGED <<boot, mailbox, loop, files, past>>

\* The process ends, at any time, and is started again.
Restart ==
  /\ boot < MaxBoots
  /\ boot' = boot + 1
  /\ stage' = "up"
  /\ pc' = "idle" /\ batch' = <<>> /\ calls' = 0 /\ outgoing' = NoReply
  /\ tool' = [t \in Tools |-> Idle] /\ queues' = <<>>
  /\ straying' = {}
  /\ IF pc \in {"flag", "giveup"} /\ Replied(Current) THEN Doubt(Current) ELSE UNCHANGED doubts
  /\ UNCHANGED <<mailbox, turns, delivered, gaveUp, failures>>

-----------------------------------------------------------------------------
\* What one poll and the tool it waits for do.
Poll ==
  \/ PollStarts \/ PollFails \/ SearchEnds
  \/ FetchEnds \/ FetchEmpty \/ HandlingThrows \/ LoadEnds
  \/ TurnEnds \/ TurnThrows \/ CommandEnds
  \/ SendEnds \/ SendFails \/ SendTimesOut
  \/ FlagEnds \/ FlagFails \/ GiveUpFails

ToolStep(t) == ToolChecks(t) \/ ToolErrs(t) \/ ToolStages(t) \/ ToolTimesOut(t)

Next ==
  \/ Poll
  \/ \E t \in Tools : ToolCalled(t) \/ ToolStep(t)
  \/ \E sort \in Sorts, thread \in Threads : Arrive(sort, thread)
  \/ \E r \in straying : StraySendEnds(r)
  \/ StopCalled \/ StopEnds \/ Restart

\* Every await of the loop settles, the interval fires again, and a tool
\* returns or times out.
Fairness == WF_vars(Poll \/ \E t \in Awaited : ToolStep(t))

Spec == Init /\ [][Next]_vars /\ Fairness

-----------------------------------------------------------------------------
(* Properties. *)

\* A message that wanted an answer is not flagged without one, unless
\* fetching, parsing or loading its session threw: an outage of SMTP, a stop
\* or a crash leaves it for a later poll.
AnsweredOrGivenUp ==
  \A m \in seen : mail[m].sort # "filtered" => Replied(m) \/ m \in gaveUp

\* A message is answered once more only for each earlier reply whose fate
\* was in doubt when the message was left unseen.
OneReplyPerDoubt ==
  \A m \in DOMAIN mail :
    Cardinality({r \in delivered \cup straying : r.msg = m}) <= 1 + doubts[m]

\* The files of a reply were staged in the turn that wrote it; only a tool
\* that outlived its timeout can slip one into a later reply, and then only
\* of the same thread.
OwnFiles ==
  \A r \in delivered \cup straying : \A i \in DOMAIN r.files :
    /\ r.files[i].turn = r.turn \/ r.files[i].late
    /\ r.files[i].thread = mail[r.msg].thread

\* A reply carries no more files than the cap, leaving late ones aside: two
\* tools both check before either stages.
CapHeld ==
  \A r \in delivered \cup straying :
    Cardinality({i \in DOMAIN r.files : ~r.files[i].late}) <= MaxFiles

\* A file that was staged is taken from its queue only by its session's
\* handler, or to make room for another session when its own is the one that
\* staged longest ago.
StagedKept ==
  [][boot' = boot =>
       \A k \in Threads :
         \/ IsPrefix(Queue(k), Queue(k)')
         \/ pc \in {"turn", "command"} /\ pc' # pc /\ k = Thread
         \/ /\ Len(queues) = MaxSessions /\ queues[1].key = k
            /\ ~HasQueue(Last(queues').key)]_vars

\* What is staged goes out with the reply it was staged for, whole and within
\* the cap.
FilesServed == []TypeOK /\ [](OwnFiles /\ CapHeld) /\ StagedKept

\* If things fail only finitely often and the connector stays up, every
\* message is in the end flagged: the cap of a poll defers, it does not drop.
Settled ==
  \A m \in Messages : (m \in DOMAIN mail ~> (m \in seen \/ stage # "up"))
=============================================================================
