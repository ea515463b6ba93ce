---------------------------- MODULE AnswersProofs ----------------------------
(***************************************************************************)
(* Theorems about the calls of a model and the way of a message to its     *)
(* answer, for any providers, priorities, cooldowns, calls and messages.   *)
(***************************************************************************)
EXTENDS Answers, FilterTheorems, SequenceTheorems

-----------------------------------------------------------------------------
(* The inductive invariants *)

UnderWay(c) == step[c] \in {"build", "stream"}

\* What has been heard of a call: nothing before it streams, and then of the
\* provider it streams from.
Heard(c) ==
  /\ step[c] = "idle" => end[c] = "idle"
  /\ UnderWay(c) => end[c] = "open"
  /\ step[c] = "over" => end[c] \in {"done", "error", "silent", "thrown"}
  /\ step[c] \in {"idle", "build"} => tokens[c] = 0
  /\ step[c] # "over" /\ tokens[c] = 0 => source[c] = Nobody
  /\ step[c] = "stream" /\ tokens[c] > 0 => source[c] = Head(queue[c])

\* A provider a call may still try was available when the call began, or was
\* cooled after that.
Spared(c) ==
  UnderWay(c) =>
    /\ began[c] <= now
    /\ Via[c] # "own" =>
         \A p \in ToSet(queue[c]) : until[p] <= began[c] \/ began[c] + CoolTime <= until[p]

ModelsInv == ModelsTypeOK /\ \A c \in Calls : Heard(c) /\ Spared(c)

Before == {"new", "consult", "execute", "gate", "health"}

\* What the client has seen of a message, by its stage.
Seen(m) ==
  /\ layers[m] \in {<<>>, <<"arbiter">>, <<"local">>, <<"turn">>, <<"reroute">>,
                    <<"local", "turn">>, <<"local", "reroute">>}
  /\ Len(ended[m]) <= 1
  /\ stage[m] \in Before \cup {"local", "turn", "reroute"} => ended[m] = <<>>
  /\ stage[m] \in Before => layers[m] = <<>> /\ lead[m] = "open"
  /\ stage[m] = "local" =>
       /\ layers[m] \in {<<>>, <<"local">>}
       /\ layers[m] # <<>> => lead[m] = "clean" /\ tokens[Call(m, "local")] > 0
  /\ stage[m] = "turn" => layers[m] \in {<<>>, <<"local">>, <<"turn">>, <<"local", "turn">>}
  /\ stage[m] = "reroute" => layers[m] \in {<<"reroute">>, <<"local", "reroute">>}
  /\ stage[m] \in Before \cup {"local", "save"} => refusal[m] # "caught"
  /\ stage[m] = "reroute" => refusal[m] = "caught"
  /\ stage[m] \in {"turn", "reroute"} /\ layers[m] = <<"local">> => Outcome(m, "local") = "error"
  /\ layers[m] \in {<<"local", "turn">>, <<"local", "reroute">>} => Outcome(m, "local") = "error"
  /\ lead[m] = "caught" => layers[m] \in {<<>>, <<"arbiter">>, <<"turn">>, <<"reroute">>}
  /\ refusal[m] \in {"open", "caught"} => layers[m] \notin {<<"turn">>, <<"local", "turn">>}
  /\ layers[m] \in {<<"reroute">>, <<"local", "reroute">>} => refusal[m] = "caught"

AnswersInv == TypeOK /\ ModelsInv /\ \A m \in Messages : Seen(m)
-----------------------------------------------------------------------------
\* The chain is one of providers; a call is offered the available ones.
LEMMA ChainIs ==
  /\ Chain \in Seq(Providers)
  /\ Kept(Chain, {p \in Providers : Available(p)}) \in Seq({p \in Providers : Available(p)})
  <1>1. Order \in Seq(Providers)
    BY ModelsAssumption
  <1>2. Kept(Order, Local) \in Seq(Providers) /\ Kept(Order, Providers \ Local) \in Seq(Providers)
    <2>1. Kept(Order, Local) \in Seq(Providers \cap Local)
          /\ Kept(Order, Providers \ Local) \in Seq(Providers \cap (Providers \ Local))
      BY <1>1, KeptIs
    <2>2. QED
      BY <2>1, SeqMonotonic
  <1>3. Sorted \in Seq(Providers)
    BY <1>1, <1>2, ModelsAssumption DEF Sorted
  <1>4. Chain \in Seq(Providers)
    <2>1. Chain \in Seq(Providers \cap (Providers \ Uncensored))
      BY <1>3, KeptIs DEF Chain
    <2>2. QED
      BY <2>1, SeqMonotonic
  <1>5. QED
    <2> DEFINE S == {p \in Providers : Available(p)}
    <2> HIDE DEF S
    <2>1. Kept(Chain, S) \in Seq(Providers \cap S)
      BY <1>4, KeptIs
    <2>2. Providers \cap S = S
      BY DEF S
    <2>3. QED
      BY <1>4, <2>1, <2>2 DEF S
-----------------------------------------------------------------------------
(* The calls of a model *)

ModelsStep ==
  \/ \E c \in Calls :
       \/ \E b \in BOOLEAN : TryStream(c, b) \/ TryProvider(c, b) \/ StreamEnds(c, b)
       \/ Build(c) \/ Token(c)
       \/ \E trouble \in Troubles : StreamFails(c, trouble)
  \/ ResetCooldowns \/ Tick

\* What the calls have said stays said.
Keeps ==
  \A c \in Calls :
    /\ tokens[c] > 0 => tokens'[c] > 0
    /\ end[c] = "error" => end'[c] = "error"

\* A step of one call, which may cool a provider.
Alone(c) ==
  /\ now' = now
  /\ \A d \in Calls \ {c} :
       /\ began'[d] = began[d] /\ queue'[d] = queue[d] /\ step'[d] = step[d]
       /\ source'[d] = source[d] /\ tokens'[d] = tokens[d] /\ end'[d] = end[d]
  /\ \A q \in Providers : until'[q] \in {until[q], now + CoolTime}

LEMMA OtherCalls ==
  ASSUME ModelsInv, NEW c \in Calls, Alone(c), NEW d \in Calls, d # c
  PROVE  Heard(d)' /\ Spared(d)'
  <1>1. ModelsTypeOK /\ Heard(d) /\ Spared(d)
    BY DEF ModelsInv
  <1>2. Heard(d)'
    BY <1>1 DEF Alone, Heard, UnderWay
  <1>3. ASSUME UnderWay(d)' PROVE Spared(d)'
    <2>1. /\ UnderWay(d) /\ began[d] <= now /\ queue[d] \in Seq(Providers)
          /\ began'[d] = began[d] /\ queue'[d] = queue[d] /\ now' = now
      BY <1>1, <1>3 DEF Alone, UnderWay, Spared, ModelsTypeOK
    <2>2. ASSUME Via[d] # "own", NEW q \in ToSet(queue[d])
          PROVE  until'[q] <= began[d] \/ began[d] + CoolTime <= until'[q]
      <3>1. q \in Providers
        BY <2>1, <2>2 DEF ToSet
      <3>2. /\ until[q] <= began[d] \/ began[d] + CoolTime <= until[q]
            /\ until'[q] \in {until[q], now + CoolTime}
            /\ began[d] \in Nat /\ now \in Nat /\ CoolTime \in Nat
        BY <1>1, <2>1, <2>2, <3>1, ModelsAssumption DEF Alone, Spared, ModelsTypeOK
      <3>3. QED
        BY <2>1, <3>2
    <2>3. QED
      BY <2>1, <2>2 DEF Spared
  <1>4. QED
    BY <1>2, <1>3 DEF Spared

\* The end of a call keeps the types of what only it writes.
LEMMA OverType ==
  ASSUME ModelsTypeOK, NEW c \in Calls, NEW how \in {"done", "error", "silent", "thrown"},
         Over(c, how)
  PROVE  /\ now' \in 1..Horizon /\ began' \in [Calls -> 0..Horizon]
         /\ queue' \in [Calls -> Seq(Providers)]
         /\ step' \in [Calls -> {"idle", "build", "stream", "over"}]
         /\ \A d \in Calls : queue'[d] # <<>> <=> step'[d] \in {"build", "stream"}
         /\ broken' \in [Calls -> BOOLEAN]
         /\ tokens' \in [Calls -> Nat] /\ \A d \in Calls : tokens'[d] <= MaxTokens[d]
         /\ end' \in [Calls -> {"idle", "open", "done", "error", "silent", "thrown"}]
  <1>1. <<>> \in Seq(Providers) /\ 0 \in 0..Horizon
    BY ModelsAssumption
  <1>2. UNCHANGED <<now, tokens>>
    BY DEF Over
  <1>3. /\ began' = [began EXCEPT ![c] = 0] /\ queue' = [queue EXCEPT ![c] = <<>>]
        /\ step' = [step EXCEPT ![c] = "over"] /\ broken' = [broken EXCEPT ![c] = FALSE]
        /\ end' = [end EXCEPT ![c] = how]
    BY DEF Over
  <1>4. \A d \in Calls : queue'[d] # <<>> <=> step'[d] \in {"build", "stream"}
    BY <1>3 DEF ModelsTypeOK
  <1>5. QED
    BY <1>1, <1>2, <1>3, <1>4 DEF ModelsTypeOK

\* A call begins.
LEMMA OpensStep ==
  ASSUME ModelsInv, NEW c \in Calls, NEW ps \in Seq(Providers), NEW b \in BOOLEAN,
         Via[c] # "own" => \A p \in ToSet(ps) : Available(p),
         Opens(c, ps, b)
  PROVE  ModelsInv' /\ Keeps /\ Stream!Next
  <1>1. ModelsTypeOK /\ Heard(c) /\ step[c] = "idle" /\ tokens[c] = 0
    BY DEF ModelsInv, Opens, Heard
  <1>2. /\ UNCHANGED <<now, until, source, tools, tokens>>
        /\ ps # <<>> \/ Over(c, "error")
    BY DEF Opens, Over
  <1>3. CASE ps = <<>>
    <2>1. Over(c, "error")
      BY <1>2, <1>3
    <2>2. ModelsTypeOK'
      BY <1>1, <1>2, <2>1, OverType DEF ModelsTypeOK
    <2>3. Alone(c) /\ step'[c] = "over" /\ end'[c] = "error"
      BY <1>1, <1>2, <2>1 DEF Alone, Over, ModelsTypeOK
    <2>4. Heard(c)' /\ Spared(c)'
      BY <2>3 DEF Heard, Spared, UnderWay
    <2>5. Keeps
      BY <1>1, <1>2, <2>1 DEF Keeps, Over, ModelsTypeOK
    <2>6. Stream!Fail(c)
      BY <1>1, <1>2, <2>1 DEF Stream!Fail, Stream!Ends, Over, Heard
    <2>7. QED
      BY <2>2, <2>3, <2>4, <2>5, <2>6, OtherCalls DEF ModelsInv, Stream!Next
  <1>4. CASE ps # <<>>
    <2>1. /\ step' = [step EXCEPT ![c] = "build"]
          /\ began' = [began EXCEPT ![c] = now]
          /\ queue' = [queue EXCEPT ![c] = ps]
          /\ broken' = [broken EXCEPT ![c] = b]
          /\ end' = [end EXCEPT ![c] = "open"]
      BY <1>4 DEF Opens, Over
    <2>2. ModelsTypeOK'
      BY <1>1, <1>2, <1>4, <2>1 DEF ModelsTypeOK
    <2>3. Alone(c) /\ began'[c] = now /\ queue'[c] = ps /\ step'[c] = "build" /\ end'[c] = "open"
      BY <1>1, <1>2, <2>1 DEF Alone, ModelsTypeOK
    <2>4. Heard(c)'
      BY <1>1, <1>2, <2>3 DEF Heard, UnderWay
    <2>5. Spared(c)'
      <3>1. \A p \in ToSet(ps) : p \in Providers
        BY DEF ToSet
      <3>2. QED
        BY <1>1, <1>2, <2>3, <3>1 DEF Spared, Available, ModelsTypeOK
    <2>6. Keeps
      BY <1>1, <1>2, <2>1 DEF Keeps, ModelsTypeOK, Heard
    <2>7. Stream!Open(c)
      BY <1>1, <1>2, <2>1 DEF Stream!Open, Stream!Ends, Heard
    <2>8. QED
      BY <2>2, <2>3, <2>4, <2>5, <2>6, <2>7, OtherCalls DEF ModelsInv, Stream!Next
  <1>5. QED
    BY <1>3, <1>4

LEMMA TryStep ==
  ASSUME ModelsInv, NEW c \in Calls, NEW b \in BOOLEAN, TryStream(c, b) \/ TryProvider(c, b)
  PROVE  ModelsInv' /\ Keeps /\ Stream!Next
  <1> DEFINE able == {p \in Providers : Available(p)}
             one == IF Available(Target[c]) THEN <<Target[c]>> ELSE <<>>
  <1>1. Target[c] \in Providers
    BY ModelsAssumption
  <1>2. CASE TryStream(c, b)
    <2>1. Kept(Chain, able) \in Seq(Providers) /\ \A p \in ToSet(Kept(Chain, able)) : Available(p)
      BY ChainIs DEF ToSet
    <2>2. Opens(c, Kept(Chain, able), b)
      BY <1>2 DEF TryStream
    <2>3. QED
      BY <2>1, <2>2, OpensStep
  <1>3. CASE Via[c] = "direct" /\ Opens(c, one, b)
    <2>1. one \in Seq(Providers) /\ \A p \in ToSet(one) : Available(p)
      BY <1>1 DEF ToSet
    <2>2. QED
      BY <1>3, <2>1, OpensStep
  <1>4. CASE Via[c] = "own" /\ Opens(c, <<Target[c]>>, b)
    <2>1. <<Target[c]>> \in Seq(Providers)
      BY <1>1
    <2>2. QED
      BY <1>4, <2>1, OpensStep
  <1>5. QED
    BY <1>2, <1>3, <1>4 DEF TryProvider

\* A call that streams goes on, or comes to its end.
LEMMA TokenStep ==
  ASSUME ModelsInv, NEW c \in Calls, Token(c)
  PROVE  ModelsInv' /\ Keeps /\ Stream!Next
  <1> DEFINE p == Head(queue[c])
  <1>1. ModelsTypeOK /\ Heard(c) /\ Spared(c) /\ step[c] = "stream" /\ tokens[c] < MaxTokens[c]
    BY DEF ModelsInv, Token
  <1>2. /\ UNCHANGED <<now, until, began, queue, step, broken, tools, end>>
        /\ tokens' = [tokens EXCEPT ![c] = @ + 1] /\ source' = [source EXCEPT ![c] = p]
    BY DEF Token, callVars
  <1>3. p \in Providers /\ tokens[c] \in Nat /\ MaxTokens[c] \in Nat
    BY <1>1, ModelsAssumption DEF ModelsTypeOK
  <1>4. ModelsTypeOK'
    BY SMTT(30), <1>1, <1>2, <1>3 DEF ModelsTypeOK
  <1>5. Alone(c) /\ tokens'[c] = tokens[c] + 1 /\ source'[c] = p
    BY <1>1, <1>2 DEF Alone, ModelsTypeOK
  <1>6. Heard(c)' /\ Spared(c)'
    BY <1>1, <1>2, <1>3, <1>5 DEF Heard, Spared, UnderWay
  <1>7. Keeps
    BY <1>1, <1>2 DEF Keeps, ModelsTypeOK
  <1>8. Stream!Say(c, p)
    BY <1>1, <1>2, <1>3 DEF Stream!Say, Stream!Hears, Heard, UnderWay
  <1>9. QED
    BY <1>3, <1>4, <1>5, <1>6, <1>7, <1>8, OtherCalls DEF ModelsInv, Stream!Next

\* A call is over, without a word against what was heard.
LEMMA OverStep ==
  ASSUME ModelsInv, NEW c \in Calls, UnderWay(c),
         NEW how \in {"done", "error", "silent", "thrown"}, Over(c, how),
         \/ until' = until
         \/ \E q \in Providers : until' = Cooled(q),
         source' = source \/ source' = [source EXCEPT ![c] = Head(queue[c])],
         tools' = tools \/ \E b \in BOOLEAN : tools' = [tools EXCEPT ![c] = b]
  PROVE  ModelsInv' /\ Keeps
  <1>1. ModelsTypeOK /\ Heard(c) /\ end[c] = "open" /\ queue[c] # <<>>
    BY DEF ModelsInv, Heard, UnderWay, ModelsTypeOK
  <1>2. until' \in [Providers -> Nat] /\ \A q \in Providers : until'[q] \in {until[q], now + CoolTime}
    BY <1>1, ModelsAssumption DEF ModelsTypeOK, Cooled
  <1>3. source' \in [Calls -> Providers \cup {Nobody}] /\ \A d \in Calls \ {c} : source'[d] = source[d]
    <2>1. Head(queue[c]) \in Providers
      BY <1>1 DEF ModelsTypeOK
    <2>2. QED
      BY <1>1, <2>1 DEF ModelsTypeOK
  <1>4. tools' \in [Calls -> BOOLEAN]
    BY <1>1 DEF ModelsTypeOK
  <1>5. ModelsTypeOK'
    BY ZenonT(30), <1>1, <1>2, <1>3, <1>4, OverType DEF ModelsTypeOK
  <1>6. Alone(c) /\ step'[c] = "over" /\ end'[c] = how
    BY <1>1, <1>2, <1>3 DEF Alone, Over, ModelsTypeOK
  <1>7. Heard(c)' /\ Spared(c)'
    BY <1>6 DEF Heard, Spared, UnderWay
  <1>8. Keeps
    BY <1>1 DEF Keeps, Over, ModelsTypeOK
  <1>9. QED
    BY <1>5, <1>6, <1>7, <1>8, OtherCalls DEF ModelsInv
\* The chain goes on to its next provider.
LEMMA AdvanceStep ==
  ASSUME ModelsInv, NEW c \in Calls, step[c] = "stream", tokens[c] = 0, Len(queue[c]) # 1,
         Advances(c), UNCHANGED <<source, tools>>,
         \/ until' = until
         \/ \E q \in Providers : until' = Cooled(q)
  PROVE  ModelsInv' /\ Keeps /\ UNCHANGED Stream!streamVars
  <1>1. /\ ModelsTypeOK /\ Heard(c) /\ Spared(c) /\ queue[c] # <<>>
        /\ end[c] = "open" /\ source[c] = Nobody
    BY DEF ModelsInv, Heard, UnderWay, ModelsTypeOK
  <1>2. UNCHANGED <<now, began, broken, tokens, end, source, tools>>
    BY DEF Advances
  <1>3. /\ queue' = [queue EXCEPT ![c] = Tail(queue[c])]
        /\ step' = [step EXCEPT ![c] = "build"]
    BY DEF Advances
  <1>4. /\ Tail(queue[c]) \in Seq(Providers) /\ Tail(queue[c]) # <<>>
        /\ ToSet(Tail(queue[c])) \subseteq ToSet(queue[c])
    <2>1. queue[c] \in Seq(Providers)
      BY <1>1 DEF ModelsTypeOK
    <2> DEFINE s == queue[c]
    <2> HIDE DEF s
    <2>2. s \in Seq(Providers) /\ s # <<>> /\ Len(s) # 1
      BY <1>1, <2>1 DEF s
    <2>a. /\ Tail(s) \in Seq(Providers) /\ Len(Tail(s)) = Len(s) - 1
          /\ \A i \in 1..Len(Tail(s)) : Tail(s)[i] = s[i + 1]
      BY <2>2, HeadTailProperties
    <2>b. Len(s) \in Nat /\ Len(s) > 1 /\ DOMAIN s = 1..Len(s)
      <3>1. Len(s) \in Nat /\ DOMAIN s = 1..Len(s)
        BY <2>2
      <3>2. Len(s) # 0
        BY <2>2, EmptySeq
      <3>3. QED
        BY <2>2, <3>1, <3>2
    <2>3. /\ Tail(s) \in Seq(Providers) /\ Len(Tail(s)) = Len(s) - 1
          /\ Len(s) \in Nat /\ Len(s) > 1 /\ DOMAIN s = 1..Len(s) /\ DOMAIN Tail(s) = 1..Len(s) - 1
          /\ \A i \in 1..Len(s) - 1 : Tail(s)[i] = s[i + 1]
      BY <2>a, <2>b
    <2>4. \A i \in DOMAIN Tail(s) : i + 1 \in DOMAIN s /\ Tail(s)[i] = s[i + 1]
      BY <2>3
    <2>5. ToSet(Tail(s)) \subseteq ToSet(s)
      BY <2>4 DEF ToSet
    <2>6. Tail(s) # <<>>
      <3>1. Len(Tail(s)) # Len(<<>>)
        BY SMTT(30), <2>3
      <3>2. QED
        BY <3>1
    <2>7. QED
      BY <2>3, <2>5, <2>6 DEF s
  <1>5. until' \in [Providers -> Nat] /\ \A q \in Providers : until'[q] \in {until[q], now + CoolTime}
    BY <1>1, ModelsAssumption DEF ModelsTypeOK, Cooled
  <1>6. ModelsTypeOK'
    BY <1>1, <1>2, <1>3, <1>4, <1>5 DEF ModelsTypeOK
  <1>7. Alone(c) /\ queue'[c] = Tail(queue[c]) /\ step'[c] = "build"
    BY <1>1, <1>2, <1>3, <1>5 DEF Alone, ModelsTypeOK
  <1>8. Heard(c)'
    BY <1>1, <1>2, <1>7 DEF Heard, UnderWay
  <1>9. Spared(c)'
    <2>1. ASSUME Via[c] # "own", NEW q \in ToSet(queue[c])
          PROVE  until'[q] <= began[c] \/ began[c] + CoolTime <= until'[q]
      <3>1. q \in Providers
        BY <1>1, <2>1 DEF ModelsTypeOK, ToSet
      <3>2. /\ until[q] <= began[c] \/ began[c] + CoolTime <= until[q]
            /\ until'[q] \in {until[q], now + CoolTime} /\ began[c] <= now
            /\ began[c] \in Nat /\ now \in Nat /\ CoolTime \in Nat
        BY SMTT(30), <1>1, <1>5, <2>1, <3>1, ModelsAssumption DEF Spared, UnderWay, ModelsTypeOK
      <3>3. QED
        BY <3>2
    <2>2. began[c] <= now
      BY <1>1 DEF Spared, UnderWay
    <2>3. QED
      BY <1>2, <1>4, <1>7, <2>1, <2>2 DEF Spared
  <1>10. Keeps /\ UNCHANGED Stream!streamVars
    BY <1>2 DEF Keeps, Stream!streamVars
  <1>11. QED
    BY <1>6, <1>7, <1>8, <1>9, <1>10, OtherCalls DEF ModelsInv

LEMMA BuildStep ==
  ASSUME ModelsInv, NEW c \in Calls, Build(c)
  PROVE  ModelsInv' /\ Keeps /\ [Stream!Next]_(Stream!streamVars)
  <1>1. ModelsTypeOK /\ Heard(c) /\ Spared(c) /\ step[c] = "build" /\ UNCHANGED <<until, source, tools>>
    BY DEF ModelsInv, Build
  <1>2. CASE Over(c, "thrown")
    <2>1. ModelsInv' /\ Keeps
      BY <1>1, <1>2, OverStep DEF UnderWay
    <2>2. Stream!Throw(c)
      BY <1>1, <1>2 DEF Stream!Throw, Stream!Ends, Over, Heard, UnderWay
    <2>3. QED
      BY <2>1, <2>2 DEF Stream!Next
  <1>3. CASE /\ step' = [step EXCEPT ![c] = "stream"]
             /\ UNCHANGED <<now, began, queue, broken, tokens, end>>
    <2>1. ModelsTypeOK'
      BY <1>1, <1>3 DEF ModelsTypeOK
    <2>2. Alone(c) /\ step'[c] = "stream"
      BY <1>1, <1>3 DEF Alone, ModelsTypeOK
    <2>3. Heard(c)' /\ Spared(c)'
      BY <1>1, <1>3, <2>2 DEF Heard, Spared, UnderWay
    <2>4. Keeps /\ UNCHANGED Stream!streamVars
      BY <1>1, <1>3 DEF Keeps, Stream!streamVars
    <2>5. QED
      BY <2>1, <2>2, <2>3, <2>4, OtherCalls DEF ModelsInv
  <1>4. QED
    BY <1>2, <1>3 DEF Build

LEMMA StreamEndsStep ==
  ASSUME ModelsInv, NEW c \in Calls, NEW b \in BOOLEAN, StreamEnds(c, b)
  PROVE  ModelsInv' /\ Keeps /\ Stream!Next
  <1> DEFINE p == Head(queue[c])
  <1>1. /\ ModelsTypeOK /\ Heard(c) /\ step[c] = "stream" /\ until' = until /\ Over(c, "done")
        /\ tools' = [tools EXCEPT ![c] = b] /\ source' = [source EXCEPT ![c] = p]
    BY DEF ModelsInv, StreamEnds
  <1>2. ModelsInv' /\ Keeps
    BY <1>1, OverStep DEF UnderWay
  <1>3. p \in Providers /\ tokens[c] \in Nat
    BY <1>1 DEF ModelsTypeOK
  <1>4. Stream!Finish(c, p)
    <2>1. \E x \in BOOLEAN : tools' = [tools EXCEPT ![c] = x]
      BY <1>1
    <2>2. QED
      <3>1. Stream!Hears(c, p) /\ Stream!Ends(c, "done") /\ UNCHANGED tokens
        BY <1>1, <1>3 DEF Stream!Hears, Stream!Ends, Over, Heard, UnderWay
      <3>2. QED
        BY <2>1, <3>1, Zenon DEF Stream!Finish
  <1>5. QED
    BY <1>2, <1>3, <1>4 DEF Stream!Next

LEMMA FailsStep ==
  ASSUME ModelsInv, NEW c \in Calls, NEW trouble \in Troubles, StreamFails(c, trouble)
  PROVE  ModelsInv' /\ Keeps /\ [Stream!Next]_(Stream!streamVars)
  <1>1. /\ ModelsTypeOK /\ Heard(c) /\ step[c] = "stream" /\ UNCHANGED <<source, tools>>
        /\ Head(queue[c]) \in Providers /\ Target[c] \in Providers /\ tokens[c] \in Nat
    BY ModelsAssumption DEF ModelsInv, StreamFails, ModelsTypeOK
  <1>2. ASSUME Over(c, "error"), Via[c] = "chain" => tokens[c] = 0,
               \/ until' = until
               \/ \E q \in Providers : until' = Cooled(q)
        PROVE  ModelsInv' /\ Keeps /\ Stream!Next
    <2>1. ModelsInv' /\ Keeps
      BY <1>1, <1>2, OverStep DEF UnderWay
    <2>2. Stream!Fail(c)
      BY <1>1, <1>2 DEF Stream!Fail, Stream!Ends, Over, Heard, UnderWay
    <2>3. QED
      BY <2>1, <2>2 DEF Stream!Next
  <1>3. CASE Via[c] = "chain" /\ tokens[c] = 0 /\ ChainFails(c, trouble)
    <2>1. until' = until \/ \E q \in Providers : until' = Cooled(q)
      BY <1>1, <1>3 DEF ChainFails
    <2>2. Over(c, "error") \/ (Len(queue[c]) # 1 /\ Advances(c))
      BY <1>3 DEF ChainFails
    <2>3. CASE Over(c, "error")
      BY <1>2, <1>3, <2>1, <2>3
    <2>4. CASE Len(queue[c]) # 1 /\ Advances(c)
      BY <1>1, <1>3, <2>1, <2>4, AdvanceStep
    <2>5. QED
      BY <2>2, <2>3, <2>4
  <1>4. CASE Via[c] = "chain" /\ tokens[c] > 0 /\ BreaksOff(c, trouble)
    <2>1. Over(c, "silent") /\ until' = until
      BY <1>4 DEF BreaksOff
    <2>2. ModelsInv' /\ Keeps
      BY <1>1, <2>1, OverStep DEF UnderWay
    <2>3. Stream!BreakOff(c)
      BY <1>1, <1>4, <2>1 DEF Stream!BreakOff, Stream!Ends, Over, Heard, UnderWay
    <2>4. QED
      BY <2>2, <2>3 DEF Stream!Next
  <1>5. CASE /\ Via[c] = "direct" /\ Over(c, "error")
             /\ until' = IF ModelLevel(trouble) THEN until ELSE Cooled(Target[c])
    BY <1>1, <1>2, <1>5
  <1>6. CASE Via[c] = "own" /\ Over(c, "error") /\ UNCHANGED until
    BY <1>2, <1>6
  <1>7. QED
    BY <1>3, <1>4, <1>5, <1>6 DEF StreamFails

\* Every step of the calls keeps their invariant and is one of ModelStream, or
\* none that a caller hears.
LEMMA ModelsSteps ==
  ASSUME ModelsInv, ModelsStep \/ UNCHANGED modelVars
  PROVE  ModelsInv' /\ Keeps /\ [Stream!Next]_(Stream!streamVars)
  <1>1. ModelsTypeOK
    BY DEF ModelsInv
  <1>2. ASSUME NEW c \in Calls, NEW b \in BOOLEAN,
               TryStream(c, b) \/ TryProvider(c, b) \/ StreamEnds(c, b)
        PROVE  ModelsInv' /\ Keeps /\ Stream!Next
    BY <1>2, TryStep, StreamEndsStep
  <1>3. ASSUME NEW c \in Calls, Build(c) \/ Token(c)
        PROVE  ModelsInv' /\ Keeps /\ [Stream!Next]_(Stream!streamVars)
    BY <1>3, BuildStep, TokenStep
  <1>4. ASSUME NEW c \in Calls, NEW trouble \in Troubles, StreamFails(c, trouble)
        PROVE  ModelsInv' /\ Keeps /\ [Stream!Next]_(Stream!streamVars)
    BY <1>4, FailsStep
  <1>5. ASSUME ResetCooldowns \/ Tick \/ UNCHANGED modelVars
        PROVE  ModelsInv' /\ Keeps /\ UNCHANGED Stream!streamVars
    <2>1. /\ UNCHANGED <<callVars, heardVars>>
          /\ now' \in 1..Horizon /\ now <= now'
          /\ until' = until \/ until' = [p \in Providers |-> 0]
      BY <1>1, <1>5, ModelsAssumption DEF ResetCooldowns, Tick, modelVars, ModelsTypeOK
    <2>2. ModelsTypeOK'
      BY <1>1, <2>1 DEF ModelsTypeOK, callVars, heardVars
    <2>3. ASSUME NEW c \in Calls PROVE Heard(c)' /\ Spared(c)'
      <3>1. Heard(c) /\ Spared(c)
        BY DEF ModelsInv
      <3>2. Heard(c)'
        BY <2>1, <3>1 DEF Heard, UnderWay, callVars, heardVars
      <3>3. ASSUME UnderWay(c)' PROVE Spared(c)'
        <4>1. /\ UnderWay(c) /\ queue'[c] = queue[c] /\ began'[c] = began[c]
              /\ queue[c] \in Seq(Providers) /\ began[c] \in Nat /\ now \in Nat /\ now' \in Nat
          BY <1>1, <2>1, <3>3, ModelsAssumption DEF UnderWay, callVars, ModelsTypeOK
        <4>2. \A p \in ToSet(queue[c]) : p \in Providers
          BY <4>1 DEF ToSet
        <4>3. QED
          BY <2>1, <3>1, <4>1, <4>2 DEF Spared
      <3>4. QED
        BY <3>2, <3>3 DEF Spared
    <2>4. QED
      BY <2>1, <2>2, <2>3 DEF ModelsInv, Keeps, callVars, heardVars, Stream!streamVars
  <1>6. QED
    BY <1>2, <1>3, <1>4, <1>5 DEF ModelsStep
-----------------------------------------------------------------------------
(* Messages *)

AnswerTypes ==
  /\ history \in BOOLEAN
  /\ stage \in [Messages -> Stages]
  /\ drained \in [Messages -> Nat]
  /\ health \in [well : BOOLEAN, at : 0..Horizon]
  /\ lead \in [Messages -> {"open", "clean", "caught"}]
  /\ refusal \in [Messages -> {"off", "open", "clean", "caught"}]
  /\ layers \in [Messages -> Seq({"arbiter", "local", "turn", "reroute"})]
  /\ ended \in [Messages -> Seq({"done", "error"})]
  /\ held \in [Messages -> SUBSET Messages]
  /\ saving \in [Messages -> BOOLEAN]
  /\ stored \subseteq Messages

\* A step of one message.
OneMessage(m) ==
  \A n \in Messages \ {m} :
    /\ stage'[n] = stage[n] /\ lead'[n] = lead[n] /\ refusal'[n] = refusal[n]
    /\ layers'[n] = layers[n] /\ ended'[n] = ended[n]

LEMMA CallsOf == ASSUME NEW m \in Messages, NEW use \in Uses PROVE Call(m, use) \in Calls
  BY AnswersAssumption DEF Call

\* What the calls keep, of the local call of a message.
LEMMA LocalKept ==
  ASSUME Keeps, NEW m \in Messages
  PROVE  /\ Outcome(m, "local") = "error" => Outcome(m, "local")' = "error"
         /\ tokens[Call(m, "local")] > 0 => tokens'[Call(m, "local")] > 0
  <1>1. Call(m, "local") \in Calls
    BY CallsOf DEF Uses
  <1>2. QED
    BY <1>1 DEF Keeps, Outcome

LEMMA MessageStep ==
  ASSUME AnswersInv, ModelsInv', Keeps, NEW m \in Messages, OneMessage(m), AnswerTypes', Seen(m)'
  PROVE  AnswersInv'
  <1>1. ASSUME NEW n \in Messages, n # m PROVE Seen(n)'
    <2>1. Seen(n)
      BY DEF AnswersInv
    <2>2. /\ stage'[n] = stage[n] /\ lead'[n] = lead[n] /\ refusal'[n] = refusal[n]
          /\ layers'[n] = layers[n] /\ ended'[n] = ended[n]
      BY <1>1 DEF OneMessage
    <2>3. QED
      BY <2>1, <2>2, LocalKept DEF Seen
  <1>2. TypeOK'
    BY DEF ModelsInv, AnswerTypes, TypeOK
  <1>3. QED
    BY <1>1, <1>2 DEF AnswersInv

\* A step of the calls alone.
LEMMA CallsStep ==
  ASSUME AnswersInv, ModelsInv', Keeps, UNCHANGED answerVars
  PROVE  AnswersInv'
  <1>1. ASSUME NEW n \in Messages PROVE Seen(n)'
    <2>1. Seen(n)
      BY DEF AnswersInv
    <2>2. QED
      BY <2>1, LocalKept DEF Seen, answerVars
  <1>2. TypeOK'
    BY DEF AnswersInv, ModelsInv, TypeOK, answerVars
  <1>3. QED
    BY <1>1, <1>2 DEF AnswersInv

\* What is shown joins what was shown, once.
LEMMA ShowsIs ==
  ASSUME TypeOK, NEW m \in Messages, NEW layer \in {"arbiter", "local", "turn", "reroute"},
         Shows(m, layer)
  PROVE  /\ layers' \in [Messages -> Seq({"arbiter", "local", "turn", "reroute"})]
         /\ \A n \in Messages \ {m} : layers'[n] = layers[n]
         /\ layers[m] \in {<<>>, <<layer>>} => layers'[m] = <<layer>>
         /\ layer # "local" /\ layers[m] \in {<<"local">>, <<"local", layer>>}
              => layers'[m] = <<"local", layer>>
  <1> DEFINE s == layers[m]
             shown == IF s # <<>> /\ Last(s) = layer THEN s ELSE Append(s, layer)
  <1>1. /\ layers \in [Messages -> Seq({"arbiter", "local", "turn", "reroute"})]
        /\ layers' = [layers EXCEPT ![m] = shown]
    BY DEF TypeOK, Shows
  <1>2. s \in Seq({"arbiter", "local", "turn", "reroute"})
    BY <1>1
  <1>3. shown \in Seq({"arbiter", "local", "turn", "reroute"})
    BY <1>2
  <1>4. s \in {<<>>, <<layer>>} => shown = <<layer>>
    <2>1. Append(<<>>, layer) = <<layer>> /\ Last(<<layer>>) = layer /\ <<layer>> # <<>>
      BY DEF Last
    <2>2. QED
      BY <2>1
  <1>5. layer # "local" /\ s \in {<<"local">>, <<"local", layer>>} => shown = <<"local", layer>>
    <2>1. Append(<<"local">>, layer) = <<"local", layer>>
      <3> DEFINE a == Append(<<"local">>, layer)
                 b == <<"local", layer>>
      <3>1. a \in Seq({"local", layer}) /\ Len(a) = 2 /\ a[1] = "local" /\ a[2] = layer
        OBVIOUS
      <3>2. b \in Seq({"local", layer}) /\ Len(b) = 2 /\ b[1] = "local" /\ b[2] = layer
        OBVIOUS
      <3> HIDE DEF a, b
      <3>3. \A i \in 1..Len(a) : a[i] = b[i]
        BY <3>1, <3>2
      <3>4. a = b
        BY <3>1, <3>2, <3>3, SeqEqual
      <3>5. QED
        BY <3>4 DEF a, b
    <2>2. Last(<<"local">>) = "local" /\ Last(<<"local", layer>>) = layer
      BY DEF Last
    <2>3. <<"local", layer>> # <<>>
      OBVIOUS
    <2>4. QED
      BY <2>1, <2>2, <2>3
  <1>6. QED
    <2> HIDE DEF shown
    <2>1. QED
      BY <1>1, <1>3, <1>4, <1>5

LEMMA TellsIs ==
  ASSUME TypeOK, NEW m \in Messages, NEW what \in {"done", "error"}, Tells(m, what)
  PROVE  /\ ended' \in [Messages -> Seq({"done", "error"})]
         /\ \A n \in Messages \ {m} : ended'[n] = ended[n]
         /\ ended[m] = <<>> => Len(ended'[m]) = 1
  BY DEF TypeOK, Tells
\* The arbiter's steps.
LEMMA ArbiterStep ==
  ASSUME AnswersInv, ModelsInv', Keeps, NEW m \in Messages, Arbiter(m)
  PROVE  AnswersInv'
  <1>1. TypeOK /\ Seen(m)
    BY DEF AnswersInv
  <1>2. CASE PassesArbiter(m) \/ Consults(m)
    <2>1. /\ stage[m] = "new" /\ \E to \in {"gate", "consult"} : stage' = [stage EXCEPT ![m] = to]
          /\ held' = [held EXCEPT ![m] = stored]
          /\ UNCHANGED <<history, drained, health, lead, refusal, layers, ended, saving, stored>>
      BY <1>2 DEF PassesArbiter, Consults, Goes
    <2>2. AnswerTypes'
      BY <1>1, <2>1 DEF TypeOK, AnswerTypes, Stages
    <2>3. OneMessage(m) /\ stage'[m] \in {"gate", "consult"}
      BY <1>1, <2>1 DEF OneMessage, TypeOK
    <2>4. Seen(m)'
      BY <1>1, <2>1, <2>3 DEF Seen, Before
    <2>5. QED
      BY <2>2, <2>3, <2>4, MessageStep
  <1>3. CASE Yields(m)
    <2>1. /\ drained' = [drained EXCEPT ![m] = @ + 1]
          /\ UNCHANGED <<history, stage, health, lead, refusal, layers, ended, held, saving, stored>>
      BY <1>3 DEF Yields
    <2>2. AnswerTypes'
      BY <1>1, <2>1 DEF TypeOK, AnswerTypes
    <2>3. OneMessage(m)
      BY <2>1 DEF OneMessage
    <2>4. Seen(m)'
      BY <1>1, <2>1, LocalKept DEF Seen
    <2>5. QED
      BY <2>2, <2>3, <2>4, MessageStep
  <1>4. CASE ConsultEnds(m)
    <2>1. /\ stage[m] = "consult"
          /\ UNCHANGED <<history, drained, health, lead, refusal, held, saving, stored>>
          /\ \/ stage' = [stage EXCEPT ![m] = "execute"] /\ UNCHANGED <<layers, ended>>
             \/ /\ stage' = [stage EXCEPT ![m] = "over"]
                /\ Shows(m, "arbiter") /\ Tells(m, "done")
      BY <1>4 DEF ConsultEnds, Goes
    <2>2. CASE stage' = [stage EXCEPT ![m] = "execute"] /\ UNCHANGED <<layers, ended>>
      <3>1. AnswerTypes'
        BY <1>1, <2>1, <2>2 DEF TypeOK, AnswerTypes, Stages
      <3>2. OneMessage(m) /\ stage'[m] = "execute"
        BY <1>1, <2>1, <2>2 DEF OneMessage, TypeOK
      <3>3. Seen(m)'
        BY SMTT(30), <1>1, <2>1, <2>2, <3>2 DEF Seen, Before
      <3>4. QED
        BY <3>1, <3>2, <3>3, MessageStep
    <2>3. CASE stage' = [stage EXCEPT ![m] = "over"] /\ Shows(m, "arbiter") /\ Tells(m, "done")
      <3>1. AnswerTypes'
        BY <1>1, <2>1, <2>3, ShowsIs, TellsIs DEF TypeOK, AnswerTypes, Stages
      <3>2. OneMessage(m) /\ stage'[m] = "over"
        BY <1>1, <2>1, <2>3, ShowsIs, TellsIs DEF OneMessage, TypeOK
      <3>3. layers[m] = <<>> /\ ended[m] = <<>> /\ lead[m] = "open" /\ refusal[m] # "caught"
        BY <1>1, <2>1 DEF Seen, Before
      <3>4. layers'[m] = <<"arbiter">> /\ Len(ended'[m]) = 1
        BY <1>1, <2>3, <3>3, ShowsIs, TellsIs
      <3>5. Seen(m)'
        BY <2>1, <3>2, <3>3, <3>4 DEF Seen, Before
      <3>6. QED
        BY <3>1, <3>2, <3>5, MessageStep
    <2>4. QED
      BY <2>1, <2>2, <2>3
  <1>5. CASE Executed(m)
    <2>1. /\ stage[m] = "execute" /\ stage' = [stage EXCEPT ![m] = "save"]
          /\ Shows(m, "arbiter") /\ Tells(m, "done")
          /\ held' = [held EXCEPT ![m] = @ \cup {m}]
          /\ UNCHANGED <<history, drained, health, lead, refusal, saving, stored>>
      BY <1>5 DEF Executed, Goes
    <2>2. AnswerTypes'
      BY <1>1, <2>1, ShowsIs, TellsIs DEF TypeOK, AnswerTypes, Stages
    <2>3. OneMessage(m) /\ stage'[m] = "save"
      BY <1>1, <2>1, ShowsIs, TellsIs DEF OneMessage, TypeOK
    <2>4. layers[m] = <<>> /\ ended[m] = <<>> /\ lead[m] = "open" /\ refusal[m] # "caught"
      BY <1>1, <2>1 DEF Seen, Before
    <2>5. layers'[m] = <<"arbiter">> /\ Len(ended'[m]) = 1
      BY <1>1, <2>1, <2>4, ShowsIs, TellsIs
    <2>6. Seen(m)'
      BY <2>1, <2>3, <2>4, <2>5 DEF Seen, Before
    <2>7. QED
      BY <2>2, <2>3, <2>6, MessageStep
  <1>6. CASE Saved(m)
    <2>1. /\ stage[m] = "save" /\ stage' = [stage EXCEPT ![m] = "over"] /\ stored' = held[m]
          /\ UNCHANGED <<history, drained, health, lead, refusal, layers, ended, held, saving>>
      BY <1>6 DEF Saved, Goes
    <2>2. AnswerTypes'
      BY <1>1, <2>1 DEF TypeOK, AnswerTypes, Stages
    <2>3. OneMessage(m) /\ stage'[m] = "over"
      BY <1>1, <2>1 DEF OneMessage, TypeOK
    <2>4. Seen(m)'
      BY <1>1, <2>1, <2>3, LocalKept DEF Seen, Before
    <2>5. QED
      BY <2>2, <2>3, <2>4, MessageStep
  <1>7. QED
    BY <1>2, <1>3, <1>4, <1>5, <1>6 DEF Arbiter
\* The ways from the gate to the turn.
LEMMA GateStep ==
  ASSUME AnswersInv, ModelsInv', Keeps, NEW m \in Messages,
         Gate(m) \/ \E well \in BOOLEAN : HealthKnown(m, well)
  PROVE  AnswersInv'
  <1>1. TypeOK /\ Seen(m)
    BY DEF AnswersInv
  <1>2. /\ stage[m] \in {"gate", "health"}
        /\ \E to \in {"turn", "local", "health"} : stage' = [stage EXCEPT ![m] = to]
        /\ health' \in [well : BOOLEAN, at : 0..Horizon]
        /\ UNCHANGED <<history, drained, lead, refusal, layers, ended, held, saving, stored>>
    <2>1. CASE Gate(m)
      BY <1>1, <2>1 DEF Gate, StartsTurn, Goes, TypeOK
    <2>2. ASSUME NEW well \in BOOLEAN, HealthKnown(m, well)
          PROVE  /\ stage[m] \in {"gate", "health"}
                 /\ \E to \in {"turn", "local", "health"} : stage' = [stage EXCEPT ![m] = to]
                 /\ health' \in [well : BOOLEAN, at : 0..Horizon]
                 /\ UNCHANGED <<history, drained, lead, refusal, layers, ended, held, saving, stored>>
      <3>1. now \in 0..Horizon
        BY <1>1, ModelsAssumption DEF TypeOK, ModelsTypeOK
      <3>2. health' = [well |-> well, at |-> now]
            /\ UNCHANGED <<history, drained, lead, refusal, layers, ended, held, saving, stored>>
        BY <2>2 DEF HealthKnown
      <3>3. stage[m] = "health" /\ \E to \in {"turn", "local"} : stage' = [stage EXCEPT ![m] = to]
        BY <2>2 DEF HealthKnown, StartsTurn, Goes
      <3>4. QED
        BY <3>1, <3>2, <3>3
    <2>3. QED
      BY <2>1, <2>2
  <1>3. AnswerTypes'
    BY <1>1, <1>2 DEF TypeOK, AnswerTypes, Stages
  <1>4. OneMessage(m) /\ stage'[m] \in {"turn", "local", "health"}
    BY <1>1, <1>2 DEF OneMessage, TypeOK
  <1>5. layers[m] = <<>> /\ ended[m] = <<>> /\ lead[m] = "open" /\ refusal[m] # "caught"
    BY <1>1, <1>2 DEF Seen, Before
  <1>6. Seen(m)'
    BY <1>2, <1>4, <1>5 DEF Seen, Before
  <1>7. QED
    BY <1>3, <1>4, <1>6, MessageStep

\* Layer 2 leaves the message to the turn.
LEMMA LocalFailsStep ==
  ASSUME AnswersInv, ModelsInv', Keeps, NEW m \in Messages, LocalFails(m)
  PROVE  AnswersInv'
  <1>1. TypeOK /\ Seen(m)
    BY DEF AnswersInv
  <1>2. /\ stage[m] = "local" /\ stage' = [stage EXCEPT ![m] = "turn"]
        /\ Outcome(m, "local") = "error" \/ tokens[Call(m, "local")] = 0
        /\ UNCHANGED <<history, drained, health, lead, refusal, layers, ended, held, saving, stored>>
    BY DEF LocalFails, StartsTurn, Goes
  <1>3. AnswerTypes'
    BY <1>1, <1>2 DEF TypeOK, AnswerTypes, Stages
  <1>4. OneMessage(m) /\ stage'[m] = "turn"
    BY <1>1, <1>2 DEF OneMessage, TypeOK
  <1>5. /\ layers[m] \in {<<>>, <<"local">>} /\ ended[m] = <<>> /\ refusal[m] # "caught"
        /\ layers[m] # <<>> => lead[m] = "clean" /\ Outcome(m, "local")' = "error"
    BY <1>1, <1>2, LocalKept DEF Seen
  <1>6. /\ layers'[m] \in {<<>>, <<"local">>} /\ ended'[m] = <<>> /\ refusal'[m] # "caught"
        /\ layers'[m] # <<>> => lead'[m] = "clean" /\ Outcome(m, "local")' = "error"
    BY <1>2, <1>5
  <1>7. Seen(m)'
    <2>1. CASE layers'[m] = <<>>
      BY <1>4, <1>6, <2>1 DEF Seen, Before
    <2>2. CASE layers'[m] = <<"local">>
      <3>1. ended'[m] = <<>> /\ refusal'[m] # "caught" /\ lead'[m] = "clean"
            /\ Outcome(m, "local")' = "error"
        BY <1>6, <2>2
      <3>2. QED
        BY <1>4, <2>2, <3>1 DEF Seen, Before
    <2>3. QED
      BY <1>6, <2>1, <2>2
  <1>8. QED
    BY <1>3, <1>4, <1>7, MessageStep

\* Layer 2 ends with an answer or a hedge.
LEMMA LocalEndsStep ==
  ASSUME AnswersInv, ModelsInv', Keeps, NEW m \in Messages, NEW verdict \in {"clean", "caught"},
         LocalEnds(m, verdict)
  PROVE  AnswersInv'
  <1>1. TypeOK /\ Seen(m)
    BY DEF AnswersInv
  <1>2. /\ lead' = [lead EXCEPT ![m] = verdict]
        /\ lead[m] # "open" => verdict = lead[m]
        /\ UNCHANGED <<history, drained, health, refusal, stored>>
    BY DEF LocalEnds, Decided
  <1>3. stage[m] = "local"
    BY DEF LocalEnds, StartsTurn, Goes
  <1>4. /\ layers[m] \in {<<>>, <<"local">>} /\ ended[m] = <<>> /\ refusal[m] # "caught"
        /\ layers[m] # <<>> => lead[m] = "clean"
    BY <1>1, <1>3 DEF Seen
  <1>5. CASE verdict = "caught"
    <2>1. stage' = [stage EXCEPT ![m] = "turn"] /\ UNCHANGED <<layers, ended, held, saving>>
      BY <1>5 DEF LocalEnds, StartsTurn, Goes
    <2>2. AnswerTypes'
      BY <1>1, <1>2, <2>1 DEF TypeOK, AnswerTypes, Stages
    <2>3. OneMessage(m) /\ stage'[m] = "turn"
      BY <1>1, <1>2, <2>1 DEF OneMessage, TypeOK
    <2>4. layers'[m] = <<>> /\ ended'[m] = <<>> /\ refusal'[m] = refusal[m]
      BY <1>2, <1>4, <1>5, <2>1
    <2>5. Seen(m)'
      BY <1>4, <2>3, <2>4 DEF Seen, Before
    <2>6. QED
      BY <2>2, <2>3, <2>5, MessageStep
  <1>6. CASE verdict = "clean"
    <2>1. /\ stage' = [stage EXCEPT ![m] = "over"]
          /\ Shows(m, "local") /\ Tells(m, "done")
          /\ held' = [held EXCEPT ![m] = @ \cup {m}]
          /\ saving' = [saving EXCEPT ![m] = TRUE]
      BY <1>6 DEF LocalEnds, Goes
    <2>2. AnswerTypes'
      BY <1>1, <1>2, <2>1, ShowsIs, TellsIs DEF TypeOK, AnswerTypes, Stages
    <2>3. OneMessage(m) /\ stage'[m] = "over" /\ lead'[m] = "clean"
      BY <1>1, <1>2, <1>6, <2>1, ShowsIs, TellsIs DEF OneMessage, TypeOK
    <2>4. layers'[m] = <<"local">> /\ Len(ended'[m]) = 1 /\ refusal'[m] = refusal[m]
      BY <1>1, <1>2, <1>4, <2>1, ShowsIs, TellsIs
    <2>5. Seen(m)'
      BY <1>4, <2>3, <2>4 DEF Seen, Before
    <2>6. QED
      BY <2>2, <2>3, <2>5, MessageStep
  <1>7. QED
    BY <1>5, <1>6

\* A refusal is rerouted.
LEMMA ReroutesStep ==
  ASSUME AnswersInv, ModelsInv', Keeps, NEW m \in Messages, Reroutes(m)
  PROVE  AnswersInv'
  <1>1. TypeOK /\ Seen(m)
    BY DEF AnswersInv
  <1>2. /\ stage[m] = "turn" /\ stage' = [stage EXCEPT ![m] = "reroute"]
        /\ refusal[m] = "caught" /\ Shows(m, "reroute")
        /\ UNCHANGED <<history, drained, health, lead, refusal, ended, held, saving, stored>>
    BY DEF Reroutes, Refused, Goes
  <1>3. AnswerTypes'
    BY <1>1, <1>2, ShowsIs DEF TypeOK, AnswerTypes, Stages
  <1>4. OneMessage(m) /\ stage'[m] = "reroute"
    BY <1>1, <1>2, ShowsIs DEF OneMessage, TypeOK
  <1>5. /\ layers[m] \in {<<>>, <<"local">>} /\ ended[m] = <<>>
        /\ layers[m] = <<"local">> => lead[m] # "caught" /\ Outcome(m, "local") = "error"
    BY <1>1, <1>2 DEF Seen
  <1>6. IF layers[m] = <<>> THEN layers'[m] = <<"reroute">>
                            ELSE layers'[m] = <<"local", "reroute">>
    BY <1>1, <1>2, <1>5, ShowsIs
  <1>7. layers[m] # <<>> => lead[m] # "caught" /\ Outcome(m, "local")' = "error"
    BY <1>5, LocalKept
  <1>a. lead'[m] = lead[m] /\ refusal'[m] = "caught" /\ ended'[m] = <<>>
    BY <1>2, <1>5
  <1>b. Len(ended'[m]) <= 1 /\ stage'[m] \notin Before \cup {"local", "turn", "save"}
    BY <1>4, <1>a DEF Before
  <1>8. Seen(m)'
    <2>1. CASE layers[m] = <<>>
      <3>1. layers'[m] = <<"reroute">>
        BY <1>6, <2>1
      <3>2. /\ layers'[m] \notin {<<"turn">>, <<"local">>, <<"local", "turn">>, <<"local", "reroute">>}
            /\ layers'[m] \in {<<>>, <<"arbiter">>, <<"turn">>, <<"reroute">>}
        BY <3>1
      <3>3. QED
        BY <1>4, <1>a, <1>b, <3>1, <3>2 DEF Seen
    <2>2. CASE layers[m] = <<"local">>
      <3>1. layers'[m] = <<"local", "reroute">>
        BY <1>6, <2>2
      <3>2. layers'[m] \notin {<<"turn">>, <<"local">>, <<"local", "turn">>}
        BY <3>1
      <3>3. lead'[m] # "caught" /\ Outcome(m, "local")' = "error"
        BY <1>7, <1>a, <2>2
      <3>4. QED
        BY <1>4, <1>a, <1>b, <3>1, <3>2, <3>3 DEF Seen
    <2>3. QED
      BY <1>5, <2>1, <2>2
  <1>9. QED
    BY <1>3, <1>4, <1>8, MessageStep

\* The turn tells its end, unless its stream broke off.
LEMMA TurnEndsStep ==
  ASSUME AnswersInv, ModelsInv', Keeps, NEW m \in Messages, TurnEnds(m)
  PROVE  AnswersInv'
  <1>1. TypeOK /\ Seen(m)
    BY DEF AnswersInv
  <1>2. /\ stage[m] \in {"turn", "reroute"} /\ stage' = [stage EXCEPT ![m] = "over"]
        /\ UNCHANGED <<history, drained, health, lead, refusal, layers, held, saving, stored>>
    BY DEF TurnEnds, Goes
  <1>3. \/ ended' = ended
        \/ \E what \in {"done", "error"} : Tells(m, what)
    <2>1. Call(m, stage[m]) \in Calls
      BY <1>2, CallsOf DEF Uses
    <2>2. step[Call(m, stage[m])] = "over"
      BY DEF TurnEnds, IsOver
    <2>3. ended' = ended \/ Tells(m, "done") \/ Tells(m, "error")
          \/ Outcome(m, stage[m]) \notin {"done", "error", "thrown", "silent"}
      BY DEF TurnEnds
    <2>4. Outcome(m, stage[m]) \in {"done", "error", "thrown", "silent"}
      BY <2>1, <2>2 DEF AnswersInv, ModelsInv, Heard, Outcome
    <2>5. QED
      BY <2>3, <2>4
  <1>4. /\ ended' \in [Messages -> Seq({"done", "error"})] /\ Len(ended'[m]) <= 1
        /\ \A n \in Messages \ {m} : ended'[n] = ended[n]
    <2>1. ended[m] = <<>>
      BY <1>1, <1>2 DEF Seen
    <2>2. Len(<<>>) = 0
      OBVIOUS
    <2>3. CASE ended' = ended
      BY <1>1, <2>1, <2>2, <2>3 DEF TypeOK
    <2>4. ASSUME NEW what \in {"done", "error"}, Tells(m, what)
          PROVE  /\ ended' \in [Messages -> Seq({"done", "error"})] /\ Len(ended'[m]) <= 1
                 /\ \A n \in Messages \ {m} : ended'[n] = ended[n]
      <3>1. /\ ended' \in [Messages -> Seq({"done", "error"})]
            /\ \A n \in Messages \ {m} : ended'[n] = ended[n]
            /\ Len(ended'[m]) = 1
        BY <1>1, <2>1, <2>4, TellsIs
      <3>2. QED
        BY <3>1
    <2>5. QED
      BY <1>3, <2>3, <2>4
  <1>5. AnswerTypes'
    BY <1>1, <1>2, <1>4 DEF TypeOK, AnswerTypes, Stages
  <1>6. OneMessage(m) /\ stage'[m] = "over"
    BY <1>1, <1>2, <1>4 DEF OneMessage, TypeOK
  <1>7. Seen(m)'
    BY <1>1, <1>2, <1>4, <1>6, LocalKept DEF Seen, Before
  <1>8. QED
    BY <1>5, <1>6, <1>7, MessageStep
\* The save of layer 2, and the tokens that are forwarded.
LEMMA StraySaveStep ==
  ASSUME AnswersInv, ModelsInv', Keeps, NEW m \in Messages, StraySave(m)
  PROVE  AnswersInv'
  <1>1. TypeOK /\ Seen(m)
    BY DEF AnswersInv
  <1>2. /\ saving' = [saving EXCEPT ![m] = FALSE] /\ stored' \in {stored, held[m]}
        /\ UNCHANGED <<history, stage, drained, health, lead, refusal, layers, ended, held>>
    BY DEF StraySave
  <1>3. AnswerTypes'
    BY <1>1, <1>2 DEF TypeOK, AnswerTypes
  <1>4. OneMessage(m)
    BY <1>2 DEF OneMessage
  <1>5. Seen(m)'
    BY <1>1, <1>2, LocalKept DEF Seen
  <1>6. QED
    BY <1>3, <1>4, <1>5, MessageStep

LEMMA LocalTokenStep ==
  ASSUME AnswersInv, ModelsInv', Keeps, NEW m \in Messages, LocalToken(m)
  PROVE  AnswersInv'
  <1>1. TypeOK /\ Seen(m) /\ stage[m] = "local"
    BY DEF AnswersInv, LocalToken
  <1>2. /\ Token(Call(m, "local"))
        /\ UNCHANGED <<history, stage, drained, health, refusal, ended, held, saving, stored>>
    BY DEF LocalToken
  <1>3. PICK to \in {"open", "clean", "caught"} :
          /\ lead' = [lead EXCEPT ![m] = to]
          /\ lead[m] # "open" => to = lead[m]
          /\ IF to = "clean" THEN Shows(m, "local") ELSE UNCHANGED layers
    <2>1. lead[m] \in {"open", "clean", "caught"}
      BY <1>1 DEF TypeOK
    <2>2. QED
      BY <2>1 DEF LocalToken, Fed, Decided, Passes
  <1>4. /\ layers[m] \in {<<>>, <<"local">>} /\ ended[m] = <<>> /\ refusal[m] # "caught"
        /\ layers[m] # <<>> => lead[m] = "clean"
    BY <1>1 DEF Seen
  <1>5. tokens'[Call(m, "local")] > 0
    <2>1. Call(m, "local") \in Calls
      BY CallsOf DEF Uses
    <2>2. /\ tokens \in [Calls -> Nat]
          /\ tokens' = [tokens EXCEPT ![Call(m, "local")] = tokens[Call(m, "local")] + 1]
      BY <1>1, <1>2 DEF Token, TypeOK, ModelsTypeOK
    <2>3. QED
      BY <2>1, <2>2
  <1>6. AnswerTypes'
    <2>1. layers' \in [Messages -> Seq({"arbiter", "local", "turn", "reroute"})]
      BY <1>1, <1>3, ShowsIs DEF TypeOK
    <2>2. QED
      BY <1>1, <1>2, <1>3, <2>1 DEF TypeOK, AnswerTypes
  <1>7. OneMessage(m) /\ lead'[m] = to
    BY <1>1, <1>2, <1>3, ShowsIs DEF OneMessage, TypeOK
  <1>8. IF to = "clean" THEN layers'[m] = <<"local">> ELSE layers'[m] = <<>>
    BY <1>1, <1>3, <1>4, ShowsIs
  <1>9. stage'[m] = "local" /\ ended'[m] = <<>> /\ refusal'[m] # "caught"
    BY <1>1, <1>2, <1>4
  <1>10. Seen(m)'
    <2>1. Len(ended'[m]) <= 1 /\ "local" \notin Before \cup {"turn", "reroute"}
      BY <1>9 DEF Before
    <2>2. CASE to = "clean"
      <3>1. layers'[m] = <<"local">>
        BY <1>8, <2>2
      <3>2. layers'[m] \notin {<<"turn">>, <<"reroute">>, <<"local", "turn">>, <<"local", "reroute">>}
        BY <3>1
      <3>3. QED
        BY <1>5, <1>7, <1>9, <2>1, <2>2, <3>1, <3>2 DEF Seen
    <2>3. CASE to # "clean"
      <3>1. layers'[m] = <<>>
        BY <1>8, <2>3
      <3>2. layers'[m] \notin {<<"turn">>, <<"reroute">>, <<"local", "turn">>, <<"local", "reroute">>}
        BY <3>1
      <3>3. QED
        BY <1>7, <1>9, <2>1, <3>1, <3>2 DEF Seen
    <2>4. QED
      BY <2>2, <2>3
  <1>11. QED
    BY <1>6, <1>7, <1>10, MessageStep

\* What becomes of the buffer of a turn and what the client sees of it.
LEMMA RefusalStep ==
  ASSUME AnswersInv, ModelsInv', Keeps, NEW m \in Messages, stage[m] = "turn",
         UNCHANGED <<history, stage, drained, health, lead, ended, held, saving, stored>>,
         NEW to \in {"off", "open", "clean", "caught"},
         refusal' = [refusal EXCEPT ![m] = to],
         refusal[m] # "open" => to = refusal[m],
         \/ to \in {"off", "clean"} /\ Shows(m, "turn")
         \/ UNCHANGED layers
  PROVE  AnswersInv'
  <1>1. TypeOK /\ Seen(m)
    BY DEF AnswersInv
  <1>2. AnswerTypes'
    <2>1. layers' \in [Messages -> Seq({"arbiter", "local", "turn", "reroute"})]
      BY <1>1, ShowsIs DEF TypeOK
    <2>2. QED
      BY <1>1, <2>1 DEF TypeOK, AnswerTypes
  <1>3. OneMessage(m) /\ refusal'[m] = to
    BY <1>1, ShowsIs DEF OneMessage, TypeOK
  <1>4. /\ layers[m] \in {<<>>, <<"local">>, <<"turn">>, <<"local", "turn">>} /\ ended[m] = <<>>
        /\ refusal[m] \in {"open", "caught"} => layers[m] \in {<<>>, <<"local">>}
        /\ lead[m] = "caught" => layers[m] \in {<<>>, <<"turn">>}
        /\ layers[m] \in {<<"local">>, <<"local", "turn">>} => Outcome(m, "local") = "error"
    BY <1>1 DEF Seen
  <1>5. stage'[m] = "turn" /\ lead'[m] = lead[m] /\ ended'[m] = <<>> /\ Len(ended'[m]) <= 1
        /\ "turn" \notin Before \cup {"local", "save", "reroute"}
    BY <1>4 DEF Before
  <1>6. CASE layers' = layers
    <2>1. layers'[m] = layers[m]
      BY <1>6
    <2>2. refusal[m] = to \/ (refusal[m] = "open" /\ layers[m] \in {<<>>, <<"local">>})
      BY <1>4
    <2>3. Seen(m)'
      BY <1>1, <1>3, <1>5, <2>1, <2>2, LocalKept DEF Seen, Before
    <2>4. QED
      BY <1>2, <1>3, <2>3, MessageStep
  <1>7. CASE to \in {"off", "clean"} /\ Shows(m, "turn")
    <2>1. CASE layers[m] \in {<<>>, <<"turn">>}
      <3>1. layers'[m] = <<"turn">>
        BY <1>1, <1>7, <2>1, ShowsIs
      <3>2. layers'[m] \notin {<<"local">>, <<"reroute">>, <<"local", "turn">>, <<"local", "reroute">>}
            /\ layers'[m] # <<>>
        BY <3>1
      <3>3. Seen(m)'
        BY <1>3, <1>5, <1>7, <3>1, <3>2 DEF Seen
      <3>4. QED
        BY <1>2, <1>3, <3>3, MessageStep
    <2>2. CASE layers[m] \in {<<"local">>, <<"local", "turn">>}
      <3>1. layers'[m] = <<"local", "turn">>
        BY <1>1, <1>7, <2>2, ShowsIs
      <3>2. layers'[m] \notin {<<"reroute">>, <<"local">>, <<"local", "reroute">>} /\ layers'[m] # <<>>
        BY <3>1
      <3>3. lead[m] # "caught" /\ Outcome(m, "local")' = "error"
        BY <1>4, <2>2, LocalKept
      <3>4. Seen(m)'
        BY <1>3, <1>5, <1>7, <3>1, <3>2, <3>3 DEF Seen
      <3>5. QED
        BY <1>2, <1>3, <3>4, MessageStep
    <2>3. QED
      BY <1>4, <2>1, <2>2
  <1>8. QED
    BY <1>6, <1>7

LEMMA TurnTokenStep ==
  ASSUME AnswersInv, ModelsInv', Keeps, NEW m \in Messages,
         TurnToken(m) \/ \E called \in BOOLEAN : TurnStreamEnds(m, called)
  PROVE  AnswersInv'
  <1>1. refusal[m] \in {"off", "open", "clean", "caught"}
    BY DEF AnswersInv, TypeOK
  <1>2. /\ stage[m] = "turn"
        /\ UNCHANGED <<history, stage, drained, health, lead, ended, held, saving, stored>>
    BY DEF TurnToken, TurnStreamEnds
  <1> DEFINE Becomes(to) ==
               /\ to \in {"off", "open", "clean", "caught"}
               /\ refusal' = [refusal EXCEPT ![m] = to]
               /\ refusal[m] # "open" => to = refusal[m]
               /\ \/ to \in {"off", "clean"} /\ Shows(m, "turn")
                  \/ UNCHANGED layers
  <1>3. PICK to : Becomes(to)
    <2>1. CASE TurnToken(m)
      <3>1. PICK to \in Fed(refusal[m], Fills(m, "turn")) :
              /\ refusal' = [refusal EXCEPT ![m] = to]
              /\ IF Passes(to) THEN Shows(m, "turn") ELSE UNCHANGED layers
        BY <2>1 DEF TurnToken
      <3>2. to \in {refusal[m]} \/ (refusal[m] = "open" /\ to \in {"clean", "caught"})
        BY <3>1 DEF Fed, Decided
      <3>3. Becomes(to)
        BY <1>1, <3>1, <3>2 DEF Passes
      <3>4. QED
        BY <3>3
    <2>2. ASSUME NEW called \in BOOLEAN, TurnStreamEnds(m, called)
          PROVE  \E to : Becomes(to)
      <3>1. PICK to \in Decided(refusal[m], tokens[Call(m, "turn")] = 0) :
              /\ refusal' = [refusal EXCEPT ![m] = to]
              /\ IF refusal[m] = "open" /\ to = "clean" /\ tokens[Call(m, "turn")] > 0
                 THEN Shows(m, "turn") ELSE UNCHANGED layers
        BY <2>2 DEF TurnStreamEnds
      <3>2. to \in {refusal[m]} \/ (refusal[m] = "open" /\ to \in {"clean", "caught"})
        BY <3>1 DEF Decided
      <3>3. Becomes(to)
        BY <1>1, <3>1, <3>2
      <3>4. QED
        BY <3>3
    <2>3. QED
      <3> HIDE DEF Becomes
      <3>1. QED
        BY <2>1, <2>2
  <1>4. QED
    BY <1>2, <1>3, RefusalStep

LEMMA RerouteTokenStep ==
  ASSUME AnswersInv, ModelsInv', Keeps, NEW m \in Messages, RerouteToken(m)
  PROVE  AnswersInv'
  <1>1. TypeOK /\ Seen(m)
    BY DEF AnswersInv
  <1>2. /\ stage[m] = "reroute" /\ Shows(m, "reroute")
        /\ UNCHANGED <<history, stage, drained, health, lead, refusal, ended, held, saving, stored>>
    BY DEF RerouteToken
  <1>3. AnswerTypes'
    BY <1>1, <1>2, ShowsIs DEF TypeOK, AnswerTypes
  <1>4. OneMessage(m)
    BY <1>1, <1>2, ShowsIs DEF OneMessage
  <1>5. layers[m] \in {<<"reroute">>, <<"local", "reroute">>}
    BY <1>1, <1>2 DEF Seen
  <1>6. layers'[m] = layers[m]
    BY <1>1, <1>2, <1>5, ShowsIs
  <1>7. Seen(m)'
    BY <1>1, <1>2, <1>6, LocalKept DEF Seen
  <1>8. QED
    BY <1>3, <1>4, <1>7, MessageStep
\* What a step of a message does to the calls is a step of the calls.
LEMMA NextModels ==
  ASSUME TypeOK, Next
  PROVE  ModelsStep \/ UNCHANGED modelVars
  <1>1. history \in BOOLEAN /\ FALSE \in BOOLEAN
    BY DEF TypeOK
  <1>2. \A m \in Messages, use \in Uses : Call(m, use) \in Calls
    BY CallsOf
  <1>3. ASSUME NEW m \in Messages, NEW use \in Uses, NEW b \in BOOLEAN,
               TryStream(Call(m, use), b) \/ TryProvider(Call(m, use), b)
        PROVE  ModelsStep
    BY <1>2, <1>3 DEF ModelsStep
  <1>4. ASSUME NEW m \in Messages, Arbiter(m) PROVE ModelsStep \/ UNCHANGED modelVars
    BY <1>1, <1>3, <1>4 DEF Arbiter, PassesArbiter, Consults, Yields, ConsultEnds, Executed, Saved, Uses
  <1>5. ASSUME NEW m \in Messages, NEW from, StartsTurn(m, from) PROVE ModelsStep
    BY <1>1, <1>3, <1>5 DEF StartsTurn, Uses
  <1>6. ASSUME NEW m \in Messages, Gate(m) PROVE ModelsStep
    BY <1>1, <1>3, <1>5, <1>6 DEF Gate, Uses
  <1>7. ASSUME NEW m \in Messages, NEW well \in BOOLEAN, HealthKnown(m, well) PROVE ModelsStep
    BY <1>1, <1>3, <1>5, <1>7 DEF HealthKnown, Uses
  <1>8. ASSUME NEW m \in Messages, NEW verdict \in {"clean", "caught"}, LocalEnds(m, verdict)
        PROVE  ModelsStep \/ UNCHANGED modelVars
    BY <1>5, <1>8 DEF LocalEnds
  <1>9. ASSUME NEW m \in Messages, LocalFails(m) \/ Reroutes(m) \/ TurnEnds(m)
        PROVE  ModelsStep \/ UNCHANGED modelVars
    BY <1>1, <1>3, <1>5, <1>9 DEF LocalFails, Reroutes, TurnEnds, Uses
  <1>10. ASSUME NEW m \in Messages, Routes(m) PROVE ModelsStep \/ UNCHANGED modelVars
    BY <1>6, <1>7, <1>8, <1>9, <1>10 DEF Routes
  <1>11. ASSUME NEW m \in Messages, StraySave(m) \/ LocalToken(m) \/ TurnToken(m) \/ RerouteToken(m)
         PROVE  ModelsStep \/ UNCHANGED modelVars
    <2>1. StraySave(m) => UNCHANGED modelVars
      BY DEF StraySave
    <2>2. ~StraySave(m) => \E use \in Uses : Token(Call(m, use))
      BY <1>11 DEF LocalToken, TurnToken, RerouteToken, Uses
    <2>3. QED
      BY <1>2, <2>1, <2>2 DEF ModelsStep
  <1>12. ASSUME NEW c \in Calls, StreamStep(c) PROVE ModelsStep
    BY <1>12 DEF StreamStep, Unforwarded, ModelsStep
  <1>13. ASSUME NEW c \in Calls, NEW called \in BOOLEAN, Completes(c, called) PROVE ModelsStep
    <2>1. \E b \in BOOLEAN : StreamEnds(c, b)
      <3>1. CASE c[2] = "turn"
        <4>1. PICK m \in Messages, use \in Uses : c = <<m, use>>
          BY AnswersAssumption
        <4>2. c = Call(c[1], "turn")
          BY <3>1, <4>1 DEF Call
        <4>3. QED
          BY <1>13, <3>1, <4>2 DEF Completes, TurnStreamEnds
      <3>2. CASE c[2] # "turn"
        BY <1>13, <3>2 DEF Completes, Rescued
      <3>3. QED
        BY <3>1, <3>2
    <2>2. QED
      BY <2>1 DEF ModelsStep
  <1>14. ASSUME ResetCooldowns \/ Tick PROVE ModelsStep
    BY <1>14 DEF ModelsStep
  <1>15. QED
    BY <1>4, <1>10, <1>11, <1>12, <1>13, <1>14 DEF Next

LEMMA NextInv ==
  ASSUME AnswersInv, [Next]_vars
  PROVE  AnswersInv' /\ [Stream!Next]_(Stream!streamVars)
  <1>1. ModelsStep \/ UNCHANGED modelVars
    BY NextModels DEF AnswersInv, vars
  <1>2. ModelsInv' /\ Keeps /\ [Stream!Next]_(Stream!streamVars)
    BY <1>1, ModelsSteps DEF AnswersInv
  <1>3. ASSUME NEW m \in Messages, Routes(m) PROVE AnswersInv'
    BY <1>2, <1>3, GateStep, LocalFailsStep, LocalEndsStep, ReroutesStep, TurnEndsStep DEF Routes
  <1>4. ASSUME NEW m \in Messages,
               \/ Arbiter(m) \/ StraySave(m)
               \/ LocalToken(m) \/ TurnToken(m) \/ RerouteToken(m)
        PROVE  AnswersInv'
    BY <1>2, <1>4, ArbiterStep, StraySaveStep, LocalTokenStep, TurnTokenStep, RerouteTokenStep
  <1>5. ASSUME NEW c \in Calls, NEW called \in BOOLEAN, Completes(c, called) PROVE AnswersInv'
    <2>1. CASE c[2] = "turn" /\ TurnStreamEnds(c[1], called)
      <3>1. c[1] \in Messages
        BY AnswersAssumption
      <3>2. QED
        BY <1>2, <2>1, <3>1, TurnTokenStep
    <2>2. CASE UNCHANGED answerVars
      BY <1>2, <2>2, CallsStep
    <2>3. QED
      BY <1>5, <2>1, <2>2 DEF Completes
  <1>6. ASSUME UNCHANGED answerVars PROVE AnswersInv'
    BY <1>2, <1>6, CallsStep
  <1>7. AnswersInv'
    BY <1>3, <1>4, <1>5, <1>6 DEF Next, StreamStep, vars
  <1>8. QED
    BY <1>2, <1>7

LEMMA InitInv ==
  ASSUME Init
  PROVE  AnswersInv /\ Stream!Init
  <1>1. PICK load \in Loads :
          /\ stage = load.stage /\ health = load.health /\ history \in load.history
          /\ ModelsInit(load.now)
    BY DEF Init
  <1>2. /\ stage \in [Messages -> {"new", "gate", "over"}]
        /\ health \in [well : BOOLEAN, at : 0..Horizon] /\ history \in BOOLEAN
        /\ load.now \in 1..Horizon
    BY <1>1, AnswersAssumption
  <1>3. ModelsInv
    <2>1. ModelsTypeOK
      BY <1>1, <1>2, ModelsAssumption DEF ModelsInit, ModelsTypeOK
    <2>2. \A c \in Calls : Heard(c) /\ Spared(c)
      BY <1>1 DEF ModelsInit, Heard, Spared, UnderWay
    <2>3. QED
      BY <2>1, <2>2 DEF ModelsInv
  <1>4. /\ drained = [m \in Messages |-> 0] /\ lead = [m \in Messages |-> "open"]
        /\ refusal = [m \in Messages |-> IF Armed(m) THEN "open" ELSE "off"]
        /\ layers = [m \in Messages |-> <<>>] /\ ended = [m \in Messages |-> <<>>]
        /\ held = [m \in Messages |-> {}] /\ saving = [m \in Messages |-> FALSE] /\ stored = {}
    BY DEF Init
  <1>5. TypeOK
    BY <1>2, <1>3, <1>4 DEF ModelsInv, TypeOK, Stages
  <1>6. ASSUME NEW m \in Messages PROVE Seen(m)
    <2>1. /\ stage[m] \in {"new", "gate", "over"} /\ lead[m] = "open"
          /\ refusal[m] \in {"open", "off"} /\ layers[m] = <<>> /\ ended[m] = <<>>
      BY <1>2, <1>4
    <2>2. Len(ended[m]) <= 1
      BY <2>1
    <2>3. QED
      BY <2>1, <2>2 DEF Seen, Before
  <1>7. Stream!Init
    BY <1>1 DEF ModelsInit, Stream!Init
  <1>8. QED
    BY <1>3, <1>5, <1>6, <1>7 DEF AnswersInv

-----------------------------------------------------------------------------
(* Theorems *)

\* The inductive invariant of the calls and the messages.
THEOREM Invariance == Spec => []AnswersInv
  <1>1. Init => AnswersInv
    BY InitInv
  <1>2. AnswersInv /\ [Next]_vars => AnswersInv'
    BY NextInv
  <1>3. QED
    BY <1>1, <1>2, PTL DEF Spec

\* The calls behind the chain, its cooldowns and its failover, refine the
\* abstract stream: a caller hears one provider only, tool calls come with
\* done, and an error after a text is told past the chain only
\* (model-select.ts).
THEOREM OneStream == Spec => AsOneStream
  <1>1. Init => Stream!Init
    BY InitInv
  <1>2. AnswersInv /\ [Next]_vars => [Stream!Next]_(Stream!streamVars)
    BY NextInv
  <1>3. QED
    BY <1>1, <1>2, Invariance, PTL DEF Spec, AsOneStream, Stream!Spec

\* A provider whose cooldown runs is asked by nobody who began after it was
\* cooled (model-select.ts).
THEOREM Cooling == Spec => CoolingSpared
  <1> DEFINE Asks == \A c \in Calls :
               (Build(c) /\ Via[c] # "own" /\ now < until[Head(queue[c])])
                  => began[c] <= until[Head(queue[c])] - CoolTime
  <1>1. AnswersInv => Asks
    <2>1. SUFFICES ASSUME AnswersInv, NEW c \in Calls, Build(c), Via[c] # "own",
                          now < until[Head(queue[c])]
                   PROVE  began[c] <= until[Head(queue[c])] - CoolTime
      BY Zenon
    <2> DEFINE p == Head(queue[c])
    <2>2. ModelsTypeOK /\ Spared(c) /\ step[c] = "build"
      BY <2>1 DEF AnswersInv, ModelsInv, Build
    <2>3. queue[c] \in Seq(Providers) /\ queue[c] # <<>>
      BY <2>2 DEF ModelsTypeOK
    <2>4. p \in Providers /\ p \in ToSet(queue[c])
      <3>1. 1 \in DOMAIN queue[c] /\ p = queue[c][1]
        BY <2>3
      <3>2. QED
        BY <2>3, <3>1 DEF ToSet
    <2>5. /\ until[p] <= began[c] \/ began[c] + CoolTime <= until[p]
          /\ began[c] <= now
          /\ began[c] \in Nat /\ now \in Nat /\ until[p] \in Nat /\ CoolTime \in Nat
      BY <2>1, <2>2, <2>4, ModelsAssumption DEF Spared, UnderWay, ModelsTypeOK
    <2>6. QED
      BY <2>1, <2>5
  <1>2. AnswersInv /\ [Next]_vars => [Asks]_vars
    BY <1>1
  <1>3. QED
    BY <1>2, Invariance, PTL DEF Spec, CoolingSpared

\* The client is told at most one end, sees no text that was caught hedging or
\* refusing, and text of two layers only when the local stream failed after
\* its lead had gone out (router.ts, refusal-detect.ts).
THEOREM Once == Spec => []SeenOnce
  <1>1. \A a : ToSet(<<a>>) = {a}
    BY DEF ToSet
  <1>2. \A a, b : ToSet(<<a, b>>) = {a, b}
    BY DEF ToSet
  <1>3. ToSet(<<>>) = {}
    BY DEF ToSet
  <1>4. AnswersInv => SeenOnce
    <2>1. SUFFICES ASSUME AnswersInv, NEW m \in Messages
                   PROVE  /\ Len(ended[m]) <= 1
                          /\ lead[m] = "caught" => "local" \notin ToSet(layers[m])
                          /\ refusal[m] = "caught" => "turn" \notin ToSet(layers[m])
                          /\ "reroute" \in ToSet(layers[m]) => refusal[m] = "caught"
                          /\ Len(layers[m]) > 1 =>
                               /\ layers[m][1] = "local" /\ Len(layers[m]) = 2
                               /\ Outcome(m, "local") = "error"
                          /\ ended[m] # <<>> => stage[m] \in {"save", "over"}
      BY DEF AnswersInv, SeenOnce
    <2>2. Seen(m) /\ stage[m] \in Stages
      BY <2>1 DEF AnswersInv, TypeOK
    <2>3. Len(ended[m]) <= 1 /\ (ended[m] # <<>> => stage[m] \in {"save", "over"})
      BY <2>2 DEF Seen, Before, Stages
    <2>4. lead[m] = "caught" => "local" \notin ToSet(layers[m])
      BY <1>1, <1>3, <2>2 DEF Seen
    <2>5. ASSUME refusal[m] = "caught" PROVE "turn" \notin ToSet(layers[m])
      <3>1. layers[m] \in {<<>>, <<"arbiter">>, <<"local">>, <<"reroute">>, <<"local", "reroute">>}
        BY <2>2, <2>5 DEF Seen
      <3>2. QED
        BY <1>1, <1>2, <1>3, <3>1
    <2>6. ASSUME refusal[m] # "caught" PROVE "reroute" \notin ToSet(layers[m])
      <3>1. layers[m] \in {<<>>, <<"arbiter">>, <<"local">>, <<"turn">>, <<"local", "turn">>}
        BY <2>2, <2>6 DEF Seen
      <3>2. QED
        BY <1>1, <1>2, <1>3, <3>1
    <2>7. ASSUME Len(layers[m]) > 1
          PROVE  layers[m][1] = "local" /\ Len(layers[m]) = 2 /\ Outcome(m, "local") = "error"
      <3>1. layers[m] \in {<<"local", "turn">>, <<"local", "reroute">>}
        <4> DEFINE short == {<<>>, <<"arbiter">>, <<"local">>, <<"turn">>, <<"reroute">>}
        <4>1. /\ ~(Len(<<>>) > 1) /\ ~(Len(<<"arbiter">>) > 1) /\ ~(Len(<<"local">>) > 1)
              /\ ~(Len(<<"turn">>) > 1) /\ ~(Len(<<"reroute">>) > 1)
          OBVIOUS
        <4>2. layers[m] \notin short
          BY <2>7, <4>1, Zenon
        <4> HIDE DEF short
        <4>3. QED
          BY <2>2, <4>2 DEF Seen, short
      <3>2. QED
        BY <2>2, <3>1 DEF Seen
    <2>8. QED
      BY <2>3, <2>4, <2>5, <2>6, <2>7
  <1>5. QED
    BY <1>4, Invariance, PTL
=============================================================================
