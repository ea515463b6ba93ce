----------------------------- MODULE Documents ------------------------------
(***************************************************************************)
(* The files the program keeps whole: sessions (src/sessions/store.ts),    *)
(* AGENT.json, notes, profile and tasks (src/agents/tools/agent-data.ts,   *)
(* src/agents/agent-identity.ts), memories and text files                  *)
(* (src/agents/tools/builtins.ts), feature toggles (src/features/store.ts) *)
(* and the memory index (src/memory/).  Every change of one of them reads  *)
(* it, works on the copy in memory, writes a temporary file beside it and  *)
(* renames that over it (src/infra/fs.ts).                                 *)
(*                                                                         *)
(* A job is one call of one handler.  A document is a sequence of entries  *)
(* <<id, part, value>>: a field, a note, a list or its item, something     *)
(* said in a session, a piece of text.                                     *)
(***************************************************************************)
EXTENDS Integers, SequencesExt, FiniteSetsExt, TLC, Filter

CONSTANTS
  Jobs,        \* names of calls, strings
  Processes,
  ProcessOf,   \* the process a job runs in
  Work,        \* what a job does: a record of op, file, id, part, value
  MemoryCap,   \* MAX_MEMORY_FILE_BYTES, in entries
  TextCap,     \* MAX_TEXT_LENGTH, what memory_read shows, in entries
  FileCap,     \* MAX_FILE_READ_BYTES, what file_read reads, in entries
  MaxSaves,    \* bound: how often a turn saves its session
  MaxFaults    \* bound: crashes, failing writes and failing items together

ASSUME DocumentsAssumption ==
  /\ Jobs \subseteq STRING
  /\ ProcessOf \in [Jobs -> Processes]
  /\ {MemoryCap, TextCap, FileCap} \subseteq Nat /\ MaxSaves \in Nat \ {0} /\ MaxFaults \in Nat

VARIABLES
  disk,    \* the files: a function from <<directory, name>> to a document
  phase,   \* how far a job is
  copy,    \* the document a job has in memory
  found,   \* the file was there when the job read it
  saves,   \* how often a job has saved
  ready,   \* the processes whose session store has initialized its directory
  expired, \* the notes whose time has come
  faults,  \* how many crashes and failures there were
  log,     \* history: the saves in their order, as <<job, what its file was>>
  known,   \* history: how many of them a job could see when it read
  crowded  \* history: processes in which two calls initialized the directory

docVars == <<disk, phase, copy, found, saves, ready, expired, faults>>
docHistory == <<log, known, crowded>>

-----------------------------------------------------------------------------
\* Entries and documents.

Half == <<"half", "", "">>
Broken(doc) == \E i \in DOMAIN doc : doc[i][1] = "broken"
\* agentIdentitySchema: traits is a list.
WellFormed(doc) ==
  /\ ~Broken(doc)
  /\ \A i \in DOMAIN doc : doc[i][1] = "traits" => doc[i][3] # "text"

Entry(w) == <<w.id, w.part, w.value>>
Has(doc, id, part) == \E i \in DOMAIN doc : doc[i][1] = id /\ doc[i][2] = part
Value(doc, id, part) ==
  doc[SelectInSeq(doc, LAMBDA e : e[1] = id /\ e[2] = part)][3]
Without(doc, id, part) ==
  Kept(doc, {e \in Range(doc) : e[1] # id \/ e[2] # part})
Set(doc, id, part, value) ==
  ReplaceAt(doc, SelectInSeq(doc, LAMBDA e : e[1] = id /\ e[2] = part),
            <<id, part, value>>)
\* { ...existing, ...updates }
Merge(doc, w) ==
  IF Has(doc, w.id, w.part) THEN Set(doc, w.id, w.part, w.value)
  ELSE Append(doc, Entry(w))

\* The order of readdir is the file system's: some order, or the opposite one.
Readdir(items) ==
  LET some == SetToSeq(items)
  IN {some, Reverse(some)}

\* The notes that have not expired.
Active(doc) == Kept(doc, {e \in Range(doc) : e[1] \notin expired})

Said(doc) == Kept(doc, {e \in Range(doc) : e[1] = "said"})
Unsaid(doc) == Kept(doc, {e \in Range(doc) : e[1] # "said"})

\* What stands below the sentinel of the memory index; nothing without one.
Tail_(doc) ==
  LET at == SelectInSeq(doc, LAMBDA e : e[1] = "sentinel")
  IN IF at = 0 THEN <<>> ELSE SubSeq(doc, at + 1, Len(doc))

-----------------------------------------------------------------------------
\* What those that only read get to see.

\* loadAgentIdentity takes an AGENT.json that does not pass the schema for an
\* absent one.
Loaded(doc) == IF WellFormed(doc) THEN doc ELSE <<>>

ShownNotes(doc) == Active(doc)
ShownTasks(w, doc) ==
  IF w.id = "" THEN doc ELSE Kept(doc, {e \in Range(doc) : e[1] = w.id})
\* From a line on, so many lines.
ShownLines(w, doc) == SubSeq(doc, w.value[1], Min({Len(doc), w.value[1] + w.value[2] - 1}))
RefusesLines(there, doc) == ~there \/ Len(doc) > FileCap
ShownMemory(doc) == SubSeq(doc, 1, Min({Len(doc), TextCap}))
ShownFeature(doc) == IF Broken(doc) THEN <<>> ELSE doc

\* The sections of the system prompt; a broken file leaves its section out.
NotesSection(doc) == IF Broken(doc) THEN <<>> ELSE Active(doc)
TasksSection(doc) ==
  LET Pending(id) == \E i \in DOMAIN doc : doc[i][1] = id /\ doc[i][3] = "open"
  IN Kept(doc, {e \in Range(doc) : Pending(e[1])})
ProfileFields ==
  {"name", "communicationStyle", "interests", "location", "observedPatterns", "notes"}
ProfileSection(doc) ==
  LET Field(name) == Kept(doc, {e \in Range(doc) : e[1] = name})
  IN IF Broken(doc) THEN <<>>
     ELSE Field("name") \o Field("communicationStyle") \o Field("interests")
            \o Field("location") \o Field("observedPatterns") \o Field("notes")
            \o Kept(doc, {e \in Range(doc) : e[1] \notin ProfileFields})

Shown(w, doc) ==
  CASE w.op = "notes_read" -> ShownNotes(doc)
    [] w.op = "list" -> ShownTasks(w, doc)
    [] w.op = "file_read" -> ShownLines(w, doc)
    [] w.op = "memory_read" -> ShownMemory(doc)
    [] w.op = "feature_read" -> ShownFeature(doc)
    [] w.op = "identity_show" -> Loaded(doc)
    [] w.op = "notes_prompt" -> NotesSection(doc)
    [] w.op = "tasks_prompt" -> TasksSection(doc)
    [] w.op = "user_profile_prompt" -> ProfileSection(doc)
    [] OTHER -> doc

-----------------------------------------------------------------------------
\* What the handlers make of the document they have read, and when they give
\* up after reading it (Refuses...).

SessionOps == {"turn", "clear", "compact", "away", "back", "layer2"}
TaskOps == {"create_list", "add_item", "check", "uncheck", "remove_item", "delete_list"}
NoteOps == {"notes_add", "notes_update", "notes_delete"}
MergeOps == {"identity_update", "user_profile_update"}
ShowOps == {"identity_read", "user_profile_read", "notes_read", "list"}
PromptOps == {"notes_prompt", "user_profile_prompt", "tasks_prompt", "identity_show",
              "feature_read"}
SecretOps == {"cap_secret", "session_secret"}
ReadOps == ShowOps \cup PromptOps \cup {"memory_read", "file_read", "feature_clear"}

IdentitySet(w, doc) == Merge(Loaded(doc), w)
Seeded(w, doc) == <<Entry(w)>>
RefusesSeed(there, doc) == there /\ WellFormed(doc)

\* Mutant: the update replaces what was there instead of joining it.
ChangedIdentityReplaced(w, doc) == <<Entry(w)>>

\* handleIdentityUpdate; handleUserProfileUpdate does the same.
ChangedIdentity(w, doc) == Merge(doc, w)
ChangedProfile(w, doc) == Merge(doc, w)

ChangedNotes(w, doc) ==
  CASE w.op = "notes_add" -> Append(doc, Entry(w))
    [] w.op = "notes_update" -> Set(doc, w.id, "", w.value)
    [] w.op = "notes_delete" -> Without(doc, w.id, "")
RefusesNotes(w, doc) == w.op # "notes_add" /\ ~Has(Active(doc), w.id, "")

\* tasks_manage: an entry without a part is a list, the others are its items.
ChangedLists(w, doc) ==
  CASE w.op = "create_list" -> doc \o << <<w.id, "", w.value>>, <<w.id, w.part, "open">> >>
    [] w.op = "add_item" -> Append(doc, <<w.id, w.part, "open">>)
    [] w.op = "delete_list" -> Kept(doc, {e \in Range(doc) : e[1] # w.id})
ChangedItems(w, doc) ==
  CASE w.op = "check" -> Set(doc, w.id, w.part, "done")
    [] w.op = "uncheck" -> Set(doc, w.id, w.part, "open")
    [] w.op = "remove_item" -> Without(doc, w.id, w.part)
RefusesTasks(w, doc) ==
  CASE w.op = "create_list" -> Has(doc, w.id, "")
    [] w.op \in {"add_item", "delete_list"} -> ~Has(doc, w.id, "")
    [] OTHER -> ~Has(doc, w.id, w.part)

\* A turn adds to the transcript it loaded, save after save; the others are
\* the slash commands on a session.
Turned(w, doc, n) == Append(doc, <<"said", ToString(n), w.value>>)
Cleared(doc) == Unsaid(doc)
Compacted(doc) ==
  Unsaid(doc) \o << <<"said", "", "summary">> >> \o SubSeq(Said(doc), Len(Said(doc)) - 1, Len(Said(doc)))
RefusesCompact(doc) == Len(Said(doc)) < 4
MarkedAway(w, doc) == Merge(doc, w)
MarkedBack(doc) == Set(doc, "away", "", "off")
RefusesBack(doc) == ~Has(doc, "away", "") \/ Value(doc, "away", "") = "off"
Layer2Set(w, doc) == Merge(doc, w)

\* file_write replaces a file only when it is told to; file_edit needs the old
\* text once, unless it replaces all of it; an append rewrites the file.
Written(w) == <<Entry(w)>>
RefusesWrite(w, there) == there /\ w.part # "overwrite"
Edited(w, doc) ==
  [i \in DOMAIN doc |-> IF doc[i][1] = w.id THEN <<w.value, "", "">> ELSE doc[i]]
RefusesEdit(w, doc) ==
  LET hits == Cardinality({i \in DOMAIN doc : doc[i][1] = w.id})
  IN hits = 0 \/ (hits > 1 /\ w.part # "replace_all")
Remembered(w, doc) == IF w.op = "memory_append" THEN Append(doc, Entry(w)) ELSE <<Entry(w)>>
RefusesMemory(w, doc) == w.op = "memory_append" /\ Len(doc) > MemoryCap
FeatureWritten(w) == <<Entry(w)>>

\* A secret that is there is used, and minted otherwise; the one of the session
\* keys is taken as it is, the one of the capability ids must be well-formed.
KnowsCapSecret(w, there) == w.op = "cap_secret" /\ there
KnowsSessionSecret(w, doc) == w.op = "session_secret" /\ doc # <<>>

\* runConsolidator: a new manifest, of the files scanned, above the sentinel.
FormatManifest(headers) ==
  << <<"manifest", "", "">> >>
    \o [i \in DOMAIN headers |-> <<"manifest", headers[i][2], "">>]
ChangedIndex(doc) ==
  FormatManifest(Kept(doc, {e \in Range(doc) : e[1] = "header"}))
    \o << <<"sentinel", "", "">> >> \o Tail_(doc)

\* Somebody edits the file by hand, and may leave what is no JSON.
ByHand(w, doc) ==
  IF w.op = "hand" THEN Append(doc, Entry(w)) ELSE << <<"broken", "", "">> >>

Changed(w, doc, n) ==
  CASE w.op = "identity_update" -> ChangedIdentity(w, doc)
    [] w.op = "user_profile_update" -> ChangedProfile(w, doc)
    [] w.op = "identity_set" -> IdentitySet(w, doc)
    [] w.op = "seed" -> Seeded(w, doc)
    [] w.op \in NoteOps -> ChangedNotes(w, doc)
    [] w.op \in {"create_list", "add_item", "delete_list"} -> ChangedLists(w, doc)
    [] w.op \in {"check", "uncheck", "remove_item"} -> ChangedItems(w, doc)
    [] w.op = "turn" -> Turned(w, doc, n)
    [] w.op = "clear" -> Cleared(doc)
    [] w.op = "compact" -> Compacted(doc)
    [] w.op = "away" -> MarkedAway(w, doc)
    [] w.op = "back" -> MarkedBack(doc)
    [] w.op = "layer2" -> Layer2Set(w, doc)
    [] w.op = "file_write" -> Written(w)
    [] w.op = "file_edit" -> Edited(w, doc)
    [] w.op \in {"memory_append", "memory_overwrite"} -> Remembered(w, doc)
    [] w.op = "feature_write" -> FeatureWritten(w)
    [] w.op \in SecretOps -> <<Entry(w)>>
    [] w.op = "dream" -> ChangedIndex(doc)
    [] w.op \in {"hand", "breaks"} -> ByHand(w, doc)

Refused(w, there, doc) ==
  \/ w.op \in MergeOps \cup NoteOps \cup TaskOps \cup SessionOps \cup ShowOps /\ Broken(doc)
  \/ w.op = "seed" /\ RefusesSeed(there, doc)
  \/ w.op \in NoteOps /\ RefusesNotes(w, doc)
  \/ w.op \in TaskOps /\ RefusesTasks(w, doc)
  \/ w.op \in SessionOps \ {"turn"} /\ ~there
  \/ w.op = "compact" /\ RefusesCompact(doc)
  \/ w.op = "back" /\ RefusesBack(doc)
  \/ w.op = "file_write" /\ RefusesWrite(w, there)
  \/ w.op = "file_edit" /\ RefusesEdit(w, doc)
  \/ w.op = "memory_append" /\ RefusesMemory(w, doc)
  \/ w.op = "list" /\ w.id # "" /\ ~Has(doc, w.id, "")
  \/ w.op = "memory_read" /\ ~there
  \/ w.op = "file_read" /\ RefusesLines(there, doc)
  \/ w.op = "cap_secret" /\ Broken(doc)

-----------------------------------------------------------------------------
Present == DOMAIN phase  \* the jobs of this behaviour
Busy == {"entering", "held", "open", "filled"}
InSessions(j) == Work[j].op \in SessionOps
TmpOf(j) == <<Work[j].file[1], Work[j].file[2] \o ".tmp." \o j>>
Temps == {TmpOf(j) : j \in Present}
Files == DOMAIN disk

\* A temporary file is named by a random UUID, and no directory by nothing;
\* what a job writes is not half a document.
ASSUME WorkAssumption ==
  \A j \in Jobs :
    /\ Work[j].op \in ReadOps \cup SessionOps \cup TaskOps \cup NoteOps \cup MergeOps \cup SecretOps
                      \cup {"identity_set", "seed", "file_write", "file_edit", "memory_append",
                            "memory_overwrite", "feature_write", "dream", "hand", "breaks"}
    /\ Work[j].file[1] # ""
    /\ Work[j].id # "half" /\ (Work[j].op = "file_edit" => Work[j].value # "half")
    /\ Work[j].op = "file_read" => Work[j].value \in (Nat \ {0}) \X Nat
    /\ \A k \in Jobs : TmpOf(j) # Work[k].file /\ (j # k => TmpOf(j) # TmpOf(k))

Put(f, doc) == [g \in Files \cup {f} |-> IF g = f THEN doc ELSE disk[g]]
Gone(fs) == [g \in Files \ fs |-> disk[g]]

DocumentsInit(scene, files) ==
  /\ disk = files
  /\ phase = [j \in Jobs \cap scene |-> "idle"]
  /\ copy = [j \in Jobs \cap scene |-> <<>>]
  /\ found = [j \in Jobs \cap scene |-> FALSE]
  /\ saves = [j \in Jobs \cap scene |-> 0]
  /\ ready = {}
  /\ expired = {}
  /\ faults = 0
  /\ log = <<>>
  /\ known = [j \in Jobs \cap scene |-> 0]
  /\ crowded = {}

\* Mutant: the directory is swept for every call.
EnterAlways(j) ==
  /\ phase[j] = "idle" /\ InSessions(j)
  /\ phase' = [phase EXCEPT ![j] = "entering"]
  /\ crowded' = crowded \cup
       {ProcessOf[k] : k \in {k \in Present : phase[k] = "entering" /\ ProcessOf[k] = ProcessOf[j]}}
  /\ UNCHANGED <<disk, copy, found, saves, ready, expired, faults, log, known>>

\* ensureDir of the session store: the directory is made once per process...
Enter(j) ==
  /\ phase[j] = "idle" /\ InSessions(j) /\ ProcessOf[j] \notin ready
  /\ phase' = [phase EXCEPT ![j] = "entering"]
  /\ crowded' = crowded \cup
       {ProcessOf[k] : k \in {k \in Present : phase[k] = "entering" /\ ProcessOf[k] = ProcessOf[j]}}
  /\ UNCHANGED <<disk, copy, found, saves, ready, expired, faults, log, known>>

\* The memories that are there, newest first, which is left out.
ScanMemdir(index) ==
  LET memories == SetToSeq({f \in Files \ Temps : f[1] = index[1] /\ f # index})
  IN [i \in DOMAIN memories |-> <<"header", memories[i][2], "">>]

\* What a job has in memory once it has read its file; a change of the notes
\* prunes those that have expired.
TakesIn(j) ==
  LET w == Work[j]
      there == w.file \in Files
      doc == IF there THEN disk[w.file] ELSE <<>>
  IN /\ copy' = [copy EXCEPT ![j] = 
          IF w.op \in ReadOps THEN Shown(w, doc)
          ELSE IF w.op = "dream" THEN ScanMemdir(w.file) \o doc
          ELSE IF w.op \in NoteOps THEN Active(doc) ELSE doc]
     /\ found' = [found EXCEPT ![j] = there]
     /\ known' = [known EXCEPT ![j] = Len(log)]
     /\ phase' = [phase EXCEPT ![j] =
          IF Refused(w, there, doc) THEN "refused"
          ELSE IF w.op \in ReadOps \/ KnowsCapSecret(w, there) \/ KnowsSessionSecret(w, doc)
          THEN "done" ELSE "held"]

\* ... and the leftovers of earlier processes are removed from it.
Sweep(j) ==
  /\ phase[j] = "entering"
  /\ disk' = Gone({f \in Temps : f[1] = Work[j].file[1]})
  /\ ready' = ready \cup {ProcessOf[j]}
  /\ TakesIn(j)
  /\ UNCHANGED <<saves, expired, faults, log, crowded>>

Read(j) ==
  /\ phase[j] = "idle"
  /\ InSessions(j) => ProcessOf[j] \in ready
  /\ Work[j].op # "dream"
  /\ TakesIn(j)
  /\ disk' = IF Work[j].op = "feature_clear" THEN Gone({Work[j].file}) ELSE disk
  /\ UNCHANGED <<saves, ready, expired, faults, log, crowded>>

\* The secret of the session keys cannot be read, which is taken for its absence.
SecretUnread(j) ==
  /\ faults < MaxFaults /\ faults' = faults + 1
  /\ phase[j] = "idle" /\ Work[j].op = "session_secret"
  /\ phase' = [phase EXCEPT ![j] = "held"]
  /\ known' = [known EXCEPT ![j] = Len(log)]
  /\ UNCHANGED <<disk, copy, found, saves, ready, expired, log, crowded>>

\* Mutant: the file itself is opened for writing.
OpenInPlace(j) ==
  /\ phase[j] = "held"
  /\ disk' = Put(Work[j].file, <<Half>>)
  /\ phase' = [phase EXCEPT ![j] = "open"]
  /\ UNCHANGED <<copy, found, saves, ready, expired, faults, docHistory>>

\* writeFileAtomic: a temporary file, its content, and the rename.
Open(j) ==
  /\ phase[j] = "held"
  /\ disk' = Put(TmpOf(j), <<Half>>)
  /\ phase' = [phase EXCEPT ![j] = "open"]
  /\ UNCHANGED <<copy, found, saves, ready, expired, faults, docHistory>>

Fill(j) ==
  /\ phase[j] = "open"
  /\ copy' = [copy EXCEPT ![j] = Changed(Work[j], copy[j], saves[j])]
  /\ disk' = IF TmpOf(j) \in Files THEN Put(TmpOf(j), copy'[j]) ELSE disk
  /\ phase' = [phase EXCEPT ![j] = "filled"]
  /\ UNCHANGED <<found, saves, ready, expired, faults, docHistory>>

Rename(j) ==
  /\ phase[j] = "filled"
  /\ IF TmpOf(j) \in Files
       THEN /\ disk' = [g \in (Files \ {TmpOf(j)}) \cup {Work[j].file} |->
                          IF g = Work[j].file THEN disk[TmpOf(j)] ELSE disk[g]]
            /\ saves' = [saves EXCEPT ![j] = @ + 1]
            /\ log' = Append(log, <<j, IF Work[j].file \in Files
                                       THEN disk[Work[j].file] ELSE <<>> >>)
            /\ phase' = [phase EXCEPT ![j] =
                 IF Work[j].op = "turn" /\ saves'[j] < MaxSaves THEN "held" ELSE "done"]
       ELSE /\ phase' = [phase EXCEPT ![j] = "failed"]
            /\ UNCHANGED <<disk, saves, log>>
  /\ UNCHANGED <<copy, found, ready, expired, faults, known, crowded>>

\* A write or rename fails: the temporary file is removed, the handler reports.
Fault(j) ==
  /\ faults < MaxFaults /\ faults' = faults + 1
  /\ phase[j] \in {"open", "filled"}
  /\ disk' = Gone({TmpOf(j)})
  /\ phase' = [phase EXCEPT ![j] = "failed"]
  /\ UNCHANGED <<copy, found, saves, ready, expired, docHistory>>

\* The process is killed and started again.
CrashDocuments(p) ==
  /\ faults < MaxFaults /\ faults' = faults + 1
  /\ phase' = [j \in Present |->
       IF ProcessOf[j] = p /\ phase[j] \in Busy THEN "dead" ELSE phase[j]]
  /\ ready' = ready \ {p}
  /\ UNCHANGED <<disk, copy, found, saves, expired, docHistory>>

Expire(id) ==
  /\ id \notin expired
  /\ \E j \in Present : Work[j].id = id
  /\ expired' = expired \cup {id}
  /\ UNCHANGED <<disk, phase, copy, found, saves, ready, faults, docHistory>>

DocumentStep(j) ==
  Enter(j) \/ Sweep(j) \/ Read(j) \/ SecretUnread(j) \/ Open(j) \/ Fill(j) \/ Rename(j) \/ Fault(j)

-----------------------------------------------------------------------------
\* Whatever crashes or fails and whoever reads meanwhile, a document is there
\* as some save left it and never cut short.
Whole ==
  \A j \in Present :
    /\ Work[j].file \in Files => Half \notin Range(disk[Work[j].file])
    /\ Half \notin Range(copy[j])

\* Two calls may initialize the session directory at once; only then can one
\* remove the temporary file of the other, and a save is lost without a fault.
SavesLand ==
  [][\A j \in Present : phase'[j] = "failed" /\ Rename(j) =>
       ProcessOf[j] \in crowded]_<<docVars, docHistory>>

\* What a job left in its document.
Left(j, doc) ==
  LET w == Work[j]
  IN CASE w.op \in {"identity_update", "user_profile_update", "identity_set", "seed",
                    "away", "layer2", "memory_append", "memory_overwrite",
                    "file_write", "feature_write", "notes_add", "hand"} \cup SecretOps ->
            Entry(w) \in Range(doc)
       [] w.op = "notes_update" -> <<w.id, "", w.value>> \in Range(doc)
       [] w.op \in {"add_item", "create_list"} -> Has(doc, w.id, w.part)
       [] w.op = "check" -> <<w.id, w.part, "done">> \in Range(doc)
       [] w.op = "uncheck" -> <<w.id, w.part, "open">> \in Range(doc)
       [] w.op \in {"notes_delete", "remove_item"} -> ~Has(doc, w.id, w.part)
       [] w.op = "delete_list" -> ~Has(doc, w.id, "")
       [] w.op = "turn" -> \E i \in DOMAIN doc : doc[i][1] = "said" /\ doc[i][3] = w.value
       [] w.op = "back" -> <<"away", "", "off">> \in Range(doc)
       [] w.op = "file_edit" -> ~Has(doc, w.id, "") /\ Has(doc, w.value, "")
       [] OTHER -> TRUE

\* Job k undoes by its own meaning what j left, in the document it has read.
Undoes(k, was, j) ==
  LET w == Work[k]  v == Work[j]
  IN \/ w.op \in {"file_write", "memory_overwrite", "feature_write", "breaks", "seed"}
     \/ w.op = "identity_set" /\ ~WellFormed(was)
     \/ w.op = "session_secret" /\ faults > 0
     \/ w.op \in {"clear", "compact"} /\ v.op = "turn"
     \/ w.op = "dream" /\ ~(v.op = "hand" /\ Has(was, "sentinel", ""))
     \/ w.op = "file_edit" /\ w.id \in {v.id, v.value}
     \/ w.op = "delete_list" /\ w.id = v.id
     \/ w.id = v.id /\ w.part = v.part
          /\ w.op \notin {"turn", "clear", "compact", "memory_append", "hand"} \cup SecretOps

\* The document as k had read it: what the first save after that replaced.
AsRead(k) ==
  LET after == {n \in known[k] + 1 .. Len(log) : Work[log[n][1]].file = Work[k].file}
  IN log[Min(after)][2]

\* Updates are lost only where they overlap.  What a finished job left in its
\* document stays until a later job undoes it by its own meaning, or one saves
\* that had read the document before; a note may expire, and a session secret
\* that could not be read is minted anew.  A field that
\* /identity set or a task list does not name, and the text below the
\* sentinel of the index, are none of their business.
LostOnlyByOverlap ==
  \A i \in DOMAIN log :
    LET j == log[i][1]  f == Work[j].file
    IN \/ f \notin Files
       \/ Left(j, disk[f])
       \/ Work[j].id \in expired
       \/ \E m \in i + 1 .. Len(log) :
            LET k == log[m][1]
            IN Work[k].file = f /\ (known[k] < i \/ Undoes(k, AsRead(k), j))
=============================================================================
