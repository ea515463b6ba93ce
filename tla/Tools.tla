------------------------------- MODULE Tools --------------------------------
(***************************************************************************)
(* What the agent's tools and the slash commands do to the program's files, *)
(* side by side: single documents (Documents), the consolidation pass       *)
(* (Dream), the bulk file tools (Bulk) and the searches (Lookups) on one    *)
(* file system, with crashes; and what the tools keep in memory (Desk),     *)
(* which a crash takes away.                                                *)
(*                                                                         *)
(* A behaviour starts with one scene: the jobs, calls and errands in it.    *)
(***************************************************************************)
EXTENDS Dream, Bulk, Lookups, Dispatch

CONSTANTS
  Scenes,    \* sets of jobs, calls, lookups and errands, each with the files there are first
  Expiring,  \* the notes with a time to live
  Home       \* the process that runs the errands

\* The files of a scene are finitely many documents, and none is half written.
ASSUME ToolsAssumption ==
  \A scene \in Scenes :
    /\ IsFiniteSet(DOMAIN scene[2])
    /\ \A f \in DOMAIN scene[2] :
         scene[2][f] \in Seq(Range(scene[2][f])) /\ Half \notin Range(scene[2][f])

\* A bulk call that has nothing to do with a directory.
KeepsOff(c, d) ==
  IF Asked[c].tool \in Movers
  THEN Asked[c].to[1] # d /\ \A i \in DOMAIN Asked[c].sources : Asked[c].sources[i][1] # d
  ELSE d \notin Asked[c].folder \cup {Asked[c].root}

\* The bulk tools keep out of the directories the program has documents in.
BulkApart ==
  \A scene \in Scenes, j \in Jobs, c \in Calls :
    {j, c} \subseteq scene[1] => KeepsOff(c, Work[j].file[1])

\* A directory of sessions has nothing else, and belongs to one process.
OneStore ==
  \A scene \in Scenes, j, k \in Jobs :
    {j, k} \subseteq scene[1] /\ InSessions(j) /\ Work[j].file[1] = Work[k].file[1] =>
      InSessions(k) /\ ProcessOf[j] = ProcessOf[k]

fileVars == <<docVars, docHistory, dreamVars, dreamHistory, bulkVars, bulkHistory>>
lookAll == <<lookVars, lookHistory>>
deskAll == <<deskVars, deskHistory>>
allVars == <<fileVars, lookAll, deskAll, dispatchVars>>

Init ==
  \E scene \in Scenes :
    DocumentsInit(scene[1], scene[2]) /\ DreamInit(scene[1])
      /\ BulkInit(scene[1]) /\ LookupsInit(scene[1]) /\ DeskInit(scene[1])
      /\ DispatchInit(scene[1])

\* A job works on its document.
Job(j) ==
  /\ DocumentStep(j)
  /\ Disturbs("")
  /\ UNCHANGED <<dreamVars, dreamHistory, bulkVars, minted, before>>

Consolidate(j) ==
  \/ /\ GateStep(j)
     /\ UNCHANGED <<docVars, docHistory, bulkVars, bulkHistory>>
  \/ /\ DreamRead(j)
     /\ UNCHANGED <<dreamVars, dreamHistory, bulkVars, bulkHistory>>

Bulk(c) ==
  /\ \/ CallStep(c) /\ UNCHANGED faults
     \/ ItemFault(c)
  /\ UNCHANGED <<phase, copy, found, saves, ready, expired, docHistory, dreamVars,
                 dreamHistory>>

\* Nothing in memory touches a file.
AtDesk ==
  /\ \/ \E e \in Sent : ErrandStep(e)
     \/ DeskPasses
  /\ UNCHANGED <<fileVars, lookAll, dispatchVars>>

Passes ==
  \/ Tick /\ UNCHANGED <<docVars, docHistory, bulkVars, bulkHistory>>
  \/ /\ Age
     /\ UNCHANGED <<phase, copy, found, saves, ready, expired, faults, docHistory,
                    dreamVars, dreamHistory>>
  \/ /\ \E id \in Expiring : Expire(id)
     /\ UNCHANGED <<dreamVars, dreamHistory, bulkVars, bulkHistory>>

\* The processes that have something to do: no other's crash is noticed.
Engaged ==
  {ProcessOf[j] : j \in Present} \cup {Asked[c].process : c \in Called}
    \cup {Query[l].process : l \in Asking} \cup {Home : x \in Sent \cup Requested}

Crash(p) ==
  /\ CrashDocuments(p) /\ CrashDream(p) /\ CrashBulk(p) /\ CrashLookups(p)
  /\ IF p = Home THEN CrashDesk /\ CrashDispatch ELSE UNCHANGED <<deskAll, dispatchVars>>

\* Whatever changes a file, the lookups under way may come across it.
OnFiles ==
  \/ \E j \in Present : Job(j)
  \/ \E j \in Dreams : Consolidate(j)
  \/ \E c \in Called : Bulk(c)
  \/ Passes

\* Nor does the way of a call to its handler, which is one of the jobs above.
Requesting ==
  /\ \E r \in Requested : RequestStep(r)
  /\ UNCHANGED <<fileVars, lookAll, deskAll>>

Next ==
  \/ OnFiles /\ Witnessed /\ UNCHANGED <<lookVars, deskAll, dispatchVars>>
  \/ \E l \in Asking : LookupStep(l) /\ UNCHANGED <<fileVars, deskAll, dispatchVars>> /\ Witnessed
  \/ AtDesk
  \/ Requesting
  \/ \E p \in Engaged : Crash(p) /\ Witnessed

Spec == Init /\ [][Next]_allVars
=============================================================================
