----------------------------- MODULE MCScheduler -----------------------------
(***************************************************************************)
(* Instance of Scheduler for TLC: ids and run slots are interchangeable.   *)
(***************************************************************************)
EXTENDS Scheduler, TLC

Symmetry == Permutations(Ids) \cup Permutations(Slots)

\* Hours of two minutes, days of three hours, from a Sunday on: the second
\* hour of the first day comes twice, that of the second day not at all.
MCWall == <<0, 1, 2, 3, 2, 3, 4, 5, 6, 7, 10, 11, 12, 13, 14, 15>>
MCSpans == {<<1, 2>>, <<3, 5>>, <<10, 11>>}

Part(base, a, b, step) == [base |-> base, a |-> a, b |-> b, step |-> step]
\* At the first minute of the second hour, every second minute of the whole
\* week, and what is refused.
Once == <<"fields", <<At(0), <<Part("range", 1, 1, <<>>)>>, Every, Every, Every>>>>
Often == <<"fields", <<<<Part("any", 0, 0, <<1>>)>>, <<Part("range", 0, 2, <<2>>), Part("one", 1, 0, <<2>>)>>,
           Every, Every, <<Part("one", 1, 0, <<1>>)>>>>>>
Wrong == <<"fields", <<<<Part("any", 0, 0, <<0>>)>>, <<Part("range", 0, 3, <<>>)>>, Every, Every, Every>>>>
MCExpression == <<Once, Wrong, Often>>
=============================================================================
