-------------------------------- MODULE Bulk --------------------------------
(***************************************************************************)
(* The file tools that work on many files (src/agents/tools/builtins.ts):  *)
(* file_move, file_copy, three renamers, flatten_folder, clean_junk_files. *)
(* Each plans first, from what it finds; a dry run returns the plan with a *)
(* token, and a plan above the threshold runs only when it is sent again   *)
(* with a token minted for the same plan.  Then the items are taken one by *)
(* one, with a look at the file system before each change.                 *)
(***************************************************************************)
EXTENDS Documents

CONSTANTS
  Calls,        \* names of calls, strings
  Asked,        \* what a call asks for: a record, see below
  Hidden,       \* file names that start with a dot
  Protected,    \* directories isWriteProtected refuses
  Apart,        \* pairs of directories on two devices
  Threshold,    \* dryRunBulkThreshold
  PreviewCap    \* MAX_PENDING_PREVIEWS

\* A call is [tool, process, sources, to, folder, root, names, dry, confirm]:
\*   sources, to   of file_move and file_copy: a sequence of files, and a file
\*                 or (its name is "") a directory
\*   folder, root  of the others: the directories walked, and the one named
\*   names         the new name of a file name, or the names that are junk
\*   dry, confirm  a dry run; the call whose token this one carries, or "none"
Movers == {"file_move", "file_copy"}
Renamers == {"rename_files_dirty", "rename_episodes", "rename_rom_files"}

ASSUME BulkAssumption ==
  /\ Calls \subseteq STRING \ {""} /\ Calls \cap Jobs = {}
  /\ \A c \in Calls :
       /\ Asked[c].process \in Processes
       /\ Asked[c].tool \in Movers => Asked[c].sources \in Seq(STRING \X STRING)
  /\ Threshold \in Nat \ {0} /\ PreviewCap \in Nat

VARIABLES
  at,        \* how far a call is
  plan,      \* its plan: a sequence of <<source, destination>>
  next,      \* the item it has come to
  carried,   \* the document copyFile is copying
  previews,  \* pendingPreviews of a process, the oldest first
  aged,      \* the tokens older than PREVIEW_TTL_MS
  minted,    \* history: the plan a call's token was minted for
  before,    \* history: the files there were when a call planned
  disturbed  \* history: calls after whose plan somebody else changed a file

bulkVars == <<at, plan, next, carried, previews, aged>>
bulkHistory == <<minted, before, disturbed>>

Called == DOMAIN at  \* the calls of this behaviour
Nowhere == <<"", "<delete>">>
Underway == {"check", "act", "copying", "unlink"}

BulkInit(scene) ==
  /\ at = [c \in Calls \cap scene |-> "idle"]
  /\ plan = [c \in Calls \cap scene |-> <<>>]
  /\ next = [c \in Calls \cap scene |-> 1]
  /\ carried = [c \in Calls \cap scene |-> <<>>]
  /\ previews = [p \in Processes |-> <<>>]
  /\ aged = {}
  /\ minted = [c \in Calls \cap scene |-> <<>>]
  /\ before = [c \in Calls \cap scene |-> <<>>]
  /\ disturbed = {}

-----------------------------------------------------------------------------
\* Plans.

\* Hidden files are not seen, half-written temporary ones are.
WalkFiles(c) ==
  Readdir({f \in Files : f[1] \in Asked[c].folder /\ f[2] \notin Hidden})

\* buildBulkFilePlan; two sources of one name get one destination.
MovePlan(c) ==
  LET a == Asked[c]
      To(src) == IF a.to[2] = "" THEN <<a.to[1], src[2]>> ELSE a.to
      good == Kept(a.sources, {src \in Files : To(src)[1] \notin Protected})
  IN [i \in DOMAIN good |-> <<good[i], To(good[i])>>]

\* A file is skipped when its new name is empty, its own, or in use.
RenamePlan(c, files) ==
  LET names == Asked[c].names
      New(f) == <<f[1], IF f[2] \in DOMAIN names THEN names[f[2]] ELSE f[2]>>
      Take(acc, f) ==
        IF New(f)[2] = "" \/ New(f) \in acc.used THEN acc
        ELSE [used |-> (acc.used \ {f}) \cup {New(f)}, plan |-> Append(acc.plan, <<f, New(f)>>)]
      taken[i \in 0 .. Len(files)] ==
        IF i = 0 THEN [used |-> Range(files), plan |-> <<>>] ELSE Take(taken[i - 1], files[i])
  IN taken[Len(files)].plan

UniqueTargetName(used, name) ==
  IF name \notin used THEN name
  ELSE LET Numbered(i) == name \o "_" \o ToString(i)
       IN Numbered(CHOOSE i \in 1 .. Cardinality(used) + 1 :
                     /\ Numbered(i) \notin used
                     /\ \A k \in 1 .. i - 1 : Numbered(k) \in used)

FlattenPlan(c, files) ==
  LET root == Asked[c].root
      deep == Kept(files, {f \in Range(files) : f[1] # root})
      Take(acc, f) ==
        LET name == UniqueTargetName(acc.used, f[2])
        IN [used |-> acc.used \cup {name}, plan |-> Append(acc.plan, <<f, <<root, name>>>>)]
      taken[i \in 0 .. Len(deep)] ==
        IF i = 0 THEN [used |-> {f[2] : f \in {f \in Range(files) : f[1] = root}}, plan |-> <<>>]
        ELSE Take(taken[i - 1], deep[i])
  IN taken[Len(deep)].plan

JunkPlan(c, files) ==
  LET junk == Kept(files, {f \in Range(files) : f[2] \in Asked[c].names})
  IN [i \in DOMAIN junk |-> <<junk[i], Nowhere>>]

-----------------------------------------------------------------------------
\* Previews.

PlanFingerprint(c, p) == <<Asked[c].tool, Range(p)>>

ReapExpiredPreviews(ps) ==
  LET live == Kept(ps, {e \in Range(ps) : e[1] \notin aged})
  IN IF Len(live) > PreviewCap
     THEN SubSeq(live, Len(live) - PreviewCap + 1, Len(live)) ELSE live

MintConfirmToken(c, p, ps) ==
  Append(ReapExpiredPreviews(ps), <<c, PlanFingerprint(c, p)>>)

\* The preview a call's token stands for; there is one for this plan only.
Confirms(c, p, ps) == <<Asked[c].confirm, PlanFingerprint(c, p)>> \in Range(ReapExpiredPreviews(ps))
\* Mutant: the token stays valid.
ConsumeConfirmTokenNever(c, ps) == ReapExpiredPreviews(ps)
ConsumeConfirmToken(c, ps) ==
  Kept(ReapExpiredPreviews(ps), {e \in Range(ps) : e[1] # Asked[c].confirm})

Disturbs(me) ==
  disturbed' = IF disk' = disk THEN disturbed
               ELSE disturbed \cup {c \in Called \ {me} : at[c] # "idle"}

\* What every one of these tools does with its plan.
Submit(c, p) ==
  LET ps == previews[Asked[c].process]
      over == Len(p) > Threshold
      confirmed == Asked[c].confirm # "none" /\ Confirms(c, p, ps)
      shows == Asked[c].dry \/ (over /\ ~confirmed)
  IN /\ at[c] = "idle"
     /\ at' = [at EXCEPT ![c] =
          IF Asked[c].dry THEN "previewed"
          ELSE IF over /\ ~confirmed THEN "refused"
          ELSE IF p = <<>> THEN "done" ELSE "check"]
     /\ plan' = [plan EXCEPT ![c] = p]
     /\ previews' = [previews EXCEPT ![Asked[c].process] =
          IF shows THEN MintConfirmToken(c, p, ps)
          ELSE IF over THEN ConsumeConfirmToken(c, ps) ELSE ps]
     /\ minted' = IF shows THEN [minted EXCEPT ![c] = PlanFingerprint(c, p)] ELSE minted
     /\ before' = [before EXCEPT ![c] = disk]
     /\ UNCHANGED <<next, carried, aged, disturbed, disk>>

FileMove(c) == Asked[c].tool = "file_move" /\ Submit(c, MovePlan(c))
FileCopy(c) == Asked[c].tool = "file_copy" /\ Submit(c, MovePlan(c))
RenameFilesDirty(c) ==
  /\ Asked[c].tool = "rename_files_dirty"
  /\ \E files \in WalkFiles(c) : Submit(c, RenamePlan(c, files))
RenameEpisodes(c) ==
  /\ Asked[c].tool = "rename_episodes"
  /\ \E files \in WalkFiles(c) : Submit(c, RenamePlan(c, files))
RenameRomFiles(c) ==
  /\ Asked[c].tool = "rename_rom_files"
  /\ \E files \in WalkFiles(c) : Submit(c, RenamePlan(c, files))
FlattenFolder(c) ==
  /\ Asked[c].tool = "flatten_folder"
  /\ \E files \in WalkFiles(c) : Submit(c, FlattenPlan(c, files))
CleanJunkFiles(c) ==
  /\ Asked[c].tool = "clean_junk_files"
  /\ \E files \in WalkFiles(c) : Submit(c, JunkPlan(c, files))

-----------------------------------------------------------------------------
\* The items, one after the other.

Src(c) == plan[c][next[c]][1]
Dst(c) == plan[c][next[c]][2]

Advance(c) ==
  /\ at' = [at EXCEPT ![c] = IF next[c] = Len(plan[c]) THEN "done" ELSE "check"]
  /\ next' = [next EXCEPT ![c] = @ + 1]

\* Mutant: the target is not looked at again before a rename.
MayActUnseen(c) == Asked[c].tool = "clean_junk_files" => Src(c)[1] \notin Protected

\* verifyStillSafe looks at the source; the stat before a rename at the target.
MayAct(c) ==
  CASE Asked[c].tool \in Movers -> Src(c) \in Files
    [] Asked[c].tool = "clean_junk_files" -> Src(c)[1] \notin Protected
    [] OTHER -> Dst(c) \notin Files

Check(c) ==
  /\ at[c] = "check"
  /\ IF MayAct(c)
       THEN at' = [at EXCEPT ![c] = "act"] /\ UNCHANGED next
       ELSE Advance(c)
  /\ UNCHANGED <<plan, carried, previews, aged, disk, bulkHistory>>

Copies(c) ==
  \/ Asked[c].tool = "file_copy"
  \/ Asked[c].tool = "file_move" /\ <<Src(c)[1], Dst(c)[1]>> \in Apart

\* executeRenamePlan, moveOneFile, unlink: rename replaces what is at its target.
Act(c) ==
  /\ at[c] = "act" /\ ~Copies(c)
  /\ disk' =
       IF Src(c) \notin Files THEN disk
       ELSE IF Asked[c].tool = "clean_junk_files" THEN Gone({Src(c)})
       ELSE [g \in (Files \ {Src(c)}) \cup {Dst(c)} |->
               IF g = Dst(c) THEN disk[Src(c)] ELSE disk[g]]
  /\ Advance(c)
  /\ Disturbs(c)
  /\ UNCHANGED <<plan, carried, previews, aged, minted, before>>

\* copyFile fills its target in place.
CopyOpen(c) ==
  /\ at[c] = "act" /\ Copies(c)
  /\ IF Src(c) \in Files
       THEN /\ carried' = [carried EXCEPT ![c] = disk[Src(c)]]
            /\ disk' = Put(Dst(c), <<Half>>)
            /\ at' = [at EXCEPT ![c] = "copying"]
            /\ UNCHANGED next
       ELSE Advance(c) /\ UNCHANGED <<carried, disk>>
  /\ Disturbs(c)
  /\ UNCHANGED <<plan, previews, aged, minted, before>>

CopyFill(c) ==
  /\ at[c] = "copying"
  /\ disk' = Put(Dst(c), carried[c])
  /\ IF Asked[c].tool = "file_move"
       THEN at' = [at EXCEPT ![c] = "unlink"] /\ UNCHANGED next
       ELSE Advance(c)
  /\ Disturbs(c)
  /\ UNCHANGED <<plan, carried, previews, aged, minted, before>>

Unlink(c) ==
  /\ at[c] = "unlink"
  /\ disk' = Gone({Src(c)})
  /\ Advance(c)
  /\ Disturbs(c)
  /\ UNCHANGED <<plan, carried, previews, aged, minted, before>>

\* One item fails, the others go on; a copy that fails removes its target.
ItemFault(c) ==
  /\ faults < MaxFaults /\ faults' = faults + 1
  /\ at[c] \in {"act", "copying", "unlink"}
  /\ disk' = IF at[c] = "copying" THEN Gone({Dst(c)}) ELSE disk
  /\ Advance(c)
  /\ Disturbs(c)
  /\ UNCHANGED <<plan, carried, previews, aged, minted, before>>

Age ==
  /\ aged' = aged \cup {c \in Called : at[c] \in {"previewed", "refused"}}
  /\ aged' # aged
  /\ UNCHANGED <<at, plan, next, carried, previews, disk, bulkHistory>>

CrashBulk(p) ==
  /\ previews' = [previews EXCEPT ![p] = <<>>]
  /\ at' = [c \in Called |->
       IF Asked[c].process = p /\ at[c] \in Underway THEN "dead" ELSE at[c]]
  /\ UNCHANGED <<plan, next, carried, aged, bulkHistory>>

CallStep(c) ==
  \/ FileMove(c) \/ FileCopy(c) \/ RenameFilesDirty(c) \/ RenameEpisodes(c)
  \/ RenameRomFiles(c) \/ FlattenFolder(c) \/ CleanJunkFiles(c)
  \/ Check(c) \/ Act(c) \/ CopyOpen(c) \/ CopyFill(c) \/ Unlink(c)

-----------------------------------------------------------------------------
Ran(c) == at[c] \in Underway \cup {"done", "dead"}
Sound(c) == \* a move or copy onto free places, one for each source
  /\ \A i \in DOMAIN plan[c] : plan[c][i][2] \notin DOMAIN before[c]
  /\ \A i, k \in DOMAIN plan[c] : i # k => plan[c][i][2] # plan[c][k][2]

\* As long as nobody else changes files, no document is lost, neither half way
\* through, nor by a failing item, nor by a crash: a renamer or flatten_folder
\* never writes over a file, not even one it did not see when it planned, and
\* a move onto free places keeps every document somewhere.
AloneLosesNothing ==
  \A c \in Called :
    /\ Ran(c) /\ c \notin disturbed
    /\ \/ Asked[c].tool \in Renamers \cup {"flatten_folder"}
       \/ Asked[c].tool \in Movers /\ Sound(c)
    => \A f \in DOMAIN before[c] : \E g \in Files : disk[g] = before[c][f]

\* A plan above the threshold is carried out only if just that plan was shown
\* before, and once for each time it was shown.
PreviewedOnce ==
  \A c \in Called :
    Ran(c) /\ Len(plan[c]) > Threshold =>
      /\ Asked[c].confirm \in Called
      /\ minted[Asked[c].confirm] = PlanFingerprint(c, plan[c])
      /\ \A k \in Called \ {c} :
           Ran(k) /\ Len(plan[k]) > Threshold => Asked[k].confirm # Asked[c].confirm
=============================================================================
