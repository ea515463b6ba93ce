------------------------------ MODULE MCTools -------------------------------
(***************************************************************************)
(* Instance of Tools for TLC.  Each scene puts a few calls beside each      *)
(* other that meet in a file or in memory, with the files there are first; *)
(* the state spaces of the scenes add up instead of multiplying.            *)
(***************************************************************************)
EXTENDS Tools

J(op, file, id, part, value) ==
  [op |-> op, file |-> file, id |-> id, part |-> part, value |-> value]
Session == <<"sessions", "s1">>
Identity == <<"agent", "AGENT.json">>
Notes == <<"agent", "notes">>
Tasks == <<"agent", "tasks">>
Profile == <<"agent", "USER.json">>
Memory == <<"memory", "food.md">>
Index == <<"memory", "MEMORY.md">>
Features == <<"state", "features">>
Text == <<"text", "a">>
CapSecret == <<"state", "cap-secret">>
KeySecret == <<"state", "session-key-secret">>

MCWork == [
  turn |-> J("turn", Session, "said", "", "hello"),
  turn2 |-> J("turn", Session, "said", "", "again"),
  away |-> J("away", Session, "away", "", "on"),
  back |-> J("back", Session, "away", "", "off"),
  layer2 |-> J("layer2", Session, "layer2", "", "off"),
  clear |-> J("clear", Session, "", "", ""),
  compact |-> J("compact", Session, "", "", ""),
  rename |-> J("identity_update", Identity, "name", "", "Crab"),
  vibe |-> J("identity_set", Identity, "vibe", "", "calm"),
  traits |-> J("identity_set", Identity, "traits", "", "text"),
  mend |-> J("identity_update", Identity, "traits", "", "list"),
  seed |-> J("seed", Identity, "name", "", "Shard"),
  profile |-> J("user_profile_update", Profile, "tz", "", "CET"),
  byhand |-> J("breaks", Profile, "", "", ""),
  note |-> J("notes_add", Notes, "n2", "", "milk"),
  edit |-> J("notes_update", Notes, "n1", "", "bread"),
  drop |-> J("notes_delete", Notes, "n1", "", ""),
  list |-> J("create_list", Tasks, "L2", "i1", "todo"),
  add |-> J("add_item", Tasks, "L1", "i2", ""),
  check |-> J("check", Tasks, "L1", "i1", ""),
  uncheck |-> J("uncheck", Tasks, "L1", "i1", ""),
  remove |-> J("remove_item", Tasks, "L1", "i1", ""),
  unlist |-> J("delete_list", Tasks, "L1", "", ""),
  learn |-> J("memory_append", Memory, "rice", "", ""),
  learn2 |-> J("memory_append", Memory, "tea", "", ""),
  rewrite |-> J("memory_overwrite", Memory, "soup", "", ""),
  write |-> J("file_write", Text, "x", "", ""),
  over |-> J("file_write", Text, "x", "overwrite", ""),
  patch |-> J("file_edit", Text, "x", "", "y"),
  spill |-> J("file_edit", <<"in", "y">>, "milk", "replace_all", "water"),
  all |-> J("file_edit", Text, "x", "replace_all", "z"),
  on |-> J("feature_write", Features, "f", "", "on"),
  reset |-> J("feature_clear", Features, "", "", ""),
  look |-> J("feature_read", Features, "", "", ""),
  whoami |-> J("identity_show", Identity, "", "", ""),
  whois |-> J("identity_read", Identity, "", "", ""),
  prompt |-> J("notes_prompt", Notes, "", "", ""),
  notes |-> J("notes_read", Notes, "", "", ""),
  todo |-> J("tasks_prompt", Tasks, "", "", ""),
  lists |-> J("list", Tasks, "L1", "", ""),
  user |-> J("user_profile_prompt", Profile, "", "", ""),
  recall |-> J("memory_read", Memory, "", "", ""),
  see |-> J("file_read", Text, "", "", <<1, 1>>),
  cap1 |-> J("cap_secret", CapSecret, "secret", "", "r1"),
  cap2 |-> J("cap_secret", CapSecret, "secret", "", "r2"),
  marred |-> J("breaks", CapSecret, "", "", ""),
  key1 |-> J("session_secret", KeySecret, "secret", "", "r1"),
  key2 |-> J("session_secret", KeySecret, "secret", "", "r2"),
  dream1 |-> J("dream", Index, "manifest", "", ""),
  dream2 |-> J("dream", Index, "manifest", "", ""),
  dream3 |-> J("dream", Index, "manifest", "", ""),
  pen |-> J("hand", Index, "mine", "", "")]

MCJobs == DOMAIN MCWork
MCProcessOf == [j \in MCJobs |-> IF j \in {"dream3", "cap2", "key2"} THEN "p2" ELSE "p1"]

SessionFile == Session :> <<<<"away", "", "off">>, <<"said", "1", "a">>, <<"said", "2", "b">>,
                            <<"said", "3", "c">>, <<"said", "4", "d">>>>
IdentityFile == Identity :> <<<<"name", "", "Old">>, <<"user", "", "Sam">>>>
ProfileFile == Profile :> <<<<"role", "", "cook">>>>
NotesFile == Notes :> <<<<"n1", "", "eggs">>>>
TasksFile == Tasks :> <<<<"L1", "", "home">>, <<"L1", "i1", "open">>>>
MemoryFile == Memory :> <<<<"salt", "", "">>>>
IndexFile == Index :> <<<<"sentinel", "", "">>, <<"old", "", "">>>>
TextFile == Text :> <<<<"x", "", "">>>>
Folder == (
  <<"in", "A b">> :> <<<<"A", "", "">>>> @@
  <<"in", "a_b">> :> <<<<"B", "", "">>>> @@
  <<"in", ".txt">> :> <<<<"C", "", "">>>> @@
  <<"in", "[].txt">> :> <<<<"D", "", "">>>>)
Sub == <<"in/sub", "a_b">> :> <<<<"E", "", "">>>>
Far == <<"far", "a_b">> :> <<<<"F", "", "">>>>

C(tool, sources, to, folder, names, dry, confirm) ==
  [tool |-> tool, process |-> "p1", sources |-> sources, to |-> to, folder |-> folder,
   root |-> "in", names |-> names, dry |-> dry, confirm |-> confirm]
Tidy == "A b" :> "a_b_2" @@ "a_b" :> "c" @@ "[].txt" :> ".txt"
Dirty(dry, confirm) == C("rename_files_dirty", <<>>, <<"", "">>, {"in"}, Tidy, dry, confirm)
Two == <<<<"in", "A b">>, <<"in", "a_b">>>>

MCAsked == [
  dirty0 |-> Dirty(TRUE, "none"),
  dirty1 |-> Dirty(FALSE, "dirty0"),
  dirty2 |-> Dirty(FALSE, "dirty0"),
  dirty3 |-> Dirty(FALSE, "dirty1"),
  episodes |-> C("rename_episodes", <<>>, <<"", "">>, {"in"}, "A b" :> "[].txt" @@ "[].txt" :> "", FALSE, "none"),
  roms |-> C("rename_rom_files", <<>>, <<"", "">>, {"in/sub"}, "a_b" :> "r", FALSE, "none"),
  flatten |-> C("flatten_folder", <<>>, <<"", "">>, {"in", "in/sub"}, <<>>, FALSE, "none"),
  junk |-> C("clean_junk_files", <<>>, <<"", "">>, {"in"}, {"[].txt"}, FALSE, "none"),
  move0 |-> C("file_move", Two, <<"far", "">>, {}, <<>>, FALSE, "none"),
  move1 |-> C("file_move", Two, <<"far", "">>, {}, <<>>, FALSE, "move0"),
  move2 |-> C("file_move", <<<<"in", "A b">>>>, <<"out", "g">>, {}, <<>>, FALSE, "none"),
  move3 |-> C("file_move", <<<<"in/sub", "a_b">>>>, <<"far", "g">>, {}, <<>>, FALSE, "none"),
  shift |-> C("file_move", <<<<"in/sub", "x">>>>, <<"in/sub", "z">>, {}, <<>>, FALSE, "none"),
  copy |-> C("file_copy", <<<<"in", "A b">>>>, <<"in", "a_b">>, {}, <<>>, FALSE, "none")]

MCCalls == DOMAIN MCAsked

E(tool, session, with) == [tool |-> tool, session |-> session, with |-> with]
MCErrand == [
  set1 |-> E("todo_set", "s1", <<<<"a", "pending">>, <<"b", "pending">>>>),
  set2 |-> E("todo_set", "s2", <<<<"a", "pending">>>>),
  set3 |-> E("todo_set", "s3", <<<<"a", "completed">>>>),
  set4 |-> E("todo_set", "s3", <<<<"a", "pending">>, <<"a", "pending">>>>),
  list1 |-> E("todo_list", "s1", ""),
  update1 |-> E("todo_update", "s1", <<"b", "completed">>),
  update2 |-> E("todo_update", "s2", <<"b", "completed">>),
  clear2 |-> E("todo_clear", "s2", ""),
  enter |-> E("plan_enter", "s1", ""),
  exit |-> E("plan_exit", "s1", <<[id |-> "x", needs |-> {"x"}], [id |-> "y", needs |-> {"x"}]>>),
  ahead |-> E("plan_exit", "s1", <<[id |-> "x", needs |-> {"y"}], [id |-> "y", needs |-> {}]>>),
  writes |-> E("writes", "s1", ""),
  start1 |-> E("timer_start", "s1", "t"),
  start2 |-> E("timer_start", "s1", "u"),
  stop |-> E("timer_stop", "s1", "t"),
  watch |-> E("timer_check", "s1", "t"),
  clocks |-> E("timer_list", "s1", ""),
  status |-> E("plan_status", "s1", ""),
  send1 |-> E("message_send", "s1", <<"mail", "chat">>),
  send2 |-> E("message_send", "s1", <<"chat">>),
  send3 |-> E("message_send", "s1", <<"fax">>),
  child1 |-> E("subagent_spawn", "s1", 9),
  child2 |-> E("subagent_spawn", "s1", 1)]
MCErrands == DOMAIN MCErrand

L(tool, root, names, only, max) ==
  [tool |-> tool, process |-> "p1", root |-> root, names |-> names, text |-> {"milk"},
   only |-> only, max |-> max]
In == <<"in", "">>
MCQuery == [
  glob1 |-> L("glob_search", In, {"x"}, FALSE, 9),
  glob2 |-> L("glob_search", In, {"x", "y", "x.png"}, FALSE, 9),
  glob3 |-> L("glob_search", <<"gone", "">>, {"x"}, FALSE, 9),
  grep1 |-> L("grep_search", In, {"x", "y", "x.png"}, FALSE, 9),
  grep2 |-> L("grep_search", In, {"x", "y", "z"}, FALSE, 2),
  grep3 |-> L("grep_search", In, {"y"}, TRUE, 1),
  grep4 |-> L("grep_search", <<"in", "y">>, {}, FALSE, 9),
  grep5 |-> L("grep_search", <<"gone", "">>, {"x"}, FALSE, 9),
  search1 |-> L("search_files", In, "x" :> 100 @@ "x.png" :> 60, FALSE, 2),
  search2 |-> L("search_files", <<"in", "y">>, <<>>, FALSE, 2),
  search3 |-> L("search_files", <<"in/sub", "">>, "x" :> 100 @@ "z" :> 10, FALSE, 2),
  dir1 |-> L("file_list", In, {}, FALSE, 9),
  dir2 |-> L("file_list", <<"in/sub", "">>, {}, FALSE, 9)]
MCLookups == DOMAIN MCQuery
MCBelow == (
  "in" :> {"in/sub", "in/dist"} @@ "in/sub" :> {"in/.git"} @@
  "in/dist" :> {} @@ "in/.git" :> {})
Milk == <<"milk", "", "">>
Tree == (
  <<"in", "y">> :> <<Milk, <<"tea", "", "">>, Milk>> @@
  <<"in/sub", "x">> :> <<Milk>> @@
  <<"in/sub", "y">> :> <<Milk>>)
Wood == (
  <<"in/.git", "x">> :> <<Milk>> @@ <<"in/dist", "x">> :> <<Milk>> @@
  <<"in", "x">> :> <<>> @@ <<"in", "x.png">> :> <<Milk>>)

Raw(first, body, then) == [before |-> first, body |-> body, after |-> then]
R(session, tool, args) ==
  [session |-> session, role |-> "owner", child |-> FALSE, cap |-> <<session, tool>>,
   raw |-> Raw(FALSE, "object", FALSE), args |-> args]
Param(type, required, enum) ==
  [type |-> type, required |-> required, enum |-> enum, secret |-> FALSE]
Kit(effect, parameters) == [effect |-> effect, parameters |-> parameters]
MCConfigTools == [
  file_write |-> Kit("write", [path |-> Param("string", TRUE, {}),
                               lines |-> Param("number", FALSE, {})]),
  web_fetch |-> Kit("network", [url |-> Param("string", TRUE, {})]),
  launch_app |-> Kit("read", <<>>),
  browser |-> Kit("read", [action |-> Param("string", TRUE, {"open", "close"}),
                           wait |-> Param("number", FALSE, {"1", "2"}),
                           code |-> [Param("number", FALSE, {}) EXCEPT !.secret = TRUE]]),
  subagent_spawn |-> Kit("read", <<>>),
  unwritten |-> Kit("read", <<>>)]
MCRequest == [
  save |-> R("s1", "file_write", [path |-> <<"string", "a">>]),
  key |-> R("s1", "file_write", [path |-> <<"secret", "K">>]),
  nokey |-> R("s1", "file_write", [path |-> <<"secret", "Q">>]),
  nopath |-> R("s1", "file_write", [lines |-> <<"number", "1">>]),
  badlines |-> R("s1", "file_write", [path |-> <<"string", "a">>, lines |-> <<"string", "1">>]),
  fetch |-> R("s1", "web_fetch", [url |-> <<"string", "u">>]),
  guest |-> [R("s1", "launch_app", <<>>) EXCEPT !.role = "external"],
  local |-> [R("s1", "launch_app", <<>>) EXCEPT !.role = "none"],
  open |-> R("s1", "browser", [action |-> <<"string", "open">>]),
  shut |-> R("s1", "browser", [action |-> <<"string", "shut">>]),
  child |-> [R("s1", "subagent_spawn", <<>>) EXCEPT !.child = TRUE],
  void |-> R("s1", "unwritten", <<>>),
  garbled |-> [R("s1", "browser", <<>>) EXCEPT !.raw = Raw(TRUE, "nothing", FALSE)],
  reasoned |-> [R("s1", "unwritten", <<>>) EXCEPT !.raw = Raw(TRUE, "path", TRUE)],
  trailing |-> [R("s1", "unwritten", <<>>) EXCEPT !.raw = Raw(FALSE, "object", TRUE)],
  torn |-> [R("s1", "unwritten", <<>>) EXCEPT !.raw = Raw(TRUE, "cut", FALSE)],
  wait |-> R("s1", "browser", [action |-> <<"string", "open">>, wait |-> <<"number", "1">>]),
  code |-> R("s1", "browser", [action |-> <<"string", "open">>, code |-> <<"secret", "K">>]),
  stolen |-> [R("s1", "browser", [action |-> <<"string", "open">>])
                EXCEPT !.cap = <<"s2", "browser">>]]
MCRequests == DOMAIN MCRequest
MCEffects == {"read", "write"}
MCHandlers == DOMAIN MCConfigTools \ {"unwritten"}
MCBefore == << [id |-> "policy", kind |-> "command", vetoes |-> {"save", "open"}],
               [id |-> "watcher", kind |-> "function", vetoes |-> {"key", "save"}] >>
MCAfter == << [id |-> "notify", kind |-> "command", vetoes |-> {"open"}] >>
MCGuards == <<"guard">>
MCPosts == <<"post">>

MCApart == {<<"in", "far">>}

MCScenes == {
  <<{"turn", "away"}, SessionFile>>,
  <<{"turn", "clear"}, SessionFile>>,
  <<{"turn", "compact"}, SessionFile>>,
  <<{"away", "back"}, SessionFile>>,
  <<{"away", "layer2"}, SessionFile>>,
  <<{"rename", "vibe"}, IdentityFile>>,
  <<{"rename", "whois"}, IdentityFile>>,
  <<{"traits", "seed", "vibe"}, <<>>>>,
  <<{"traits", "whoami"}, <<>>>>,
  <<{"rename", "traits", "vibe", "mend"}, IdentityFile>>,
  <<{"profile", "byhand", "user"}, ProfileFile>>,
  <<{"note", "edit", "prompt"}, NotesFile>>,
  <<{"drop", "edit", "note"}, NotesFile>>,
  <<{"list", "add"}, TasksFile>>,
  <<{"check", "todo"}, TasksFile>>,
  <<{"uncheck", "remove", "unlist"}, TasksFile>>,
  <<{"unlist", "lists"}, TasksFile>>,
  <<{"learn", "learn2", "recall"}, MemoryFile>>,
  <<{"rewrite", "learn", "notes"}, MemoryFile @@ NotesFile>>,
  <<{"write", "over", "patch", "see"}, TextFile>>,
  <<{"all", "patch", "see"}, TextFile>>,
  <<{"on", "reset", "look"}, <<>>>>,
  <<{"dream1", "dream2"}, IndexFile>>,
  <<{"dream1", "dream3"}, IndexFile>>,
  <<{"dream1", "pen"}, IndexFile @@ MemoryFile>>,
  <<{"dream1", "learn"}, MemoryFile>>,
  <<{"dirty0", "dirty1", "dirty2"}, Folder>>,
  <<{"dirty1", "dirty3"}, Folder>>,
  <<{"learn", "dirty1"}, Folder @@ MemoryFile>>,
  <<{"episodes", "roms"}, Folder @@ Sub>>,
  <<{"flatten", "junk"}, Folder @@ Sub>>,
  <<{"flatten", "roms"}, Folder @@ Sub>>,
  <<{"move0", "move1", "move3"}, Folder @@ Sub @@ Far>>,
  <<{"move2", "copy"}, Folder>>,
  <<{"glob1", "shift"}, Tree @@ Wood>>,
  <<{"grep1", "shift"}, Tree @@ Wood>>,
  <<{"glob2", "grep2"}, Tree @@ Wood>>,
  <<{"glob3", "grep5", "search2", "grep4"}, Tree>>,
  <<{"grep1", "spill"}, Tree>>,
  <<{"grep2", "spill"}, Tree>>,
  <<{"grep3", "shift"}, Tree>>,
  <<{"dir1", "shift"}, Tree>>,
  <<{"search1", "shift"}, Tree @@ Wood>>,
  <<{"search3", "shift"}, Tree @@ Wood>>,
  <<{"dir2", "shift"}, Tree @@ Wood>>,
  <<{"search1", "spill"}, Tree>>,
  <<{"set1", "set2", "set3", "list1", "update1"}, <<>>>>,
  <<{"set1", "set2", "set4", "update2", "clear2"}, <<>>>>,
  <<{"enter", "exit", "ahead", "writes", "status"}, <<>>>>,
  <<{"start1", "start2", "stop", "watch", "clocks"}, <<>>>>,
  <<{"send1", "send2"}, <<>>>>,
  <<{"send3"}, <<>>>>,
  <<{"child1"}, <<>>>>,
  <<{"child2"}, <<>>>>,
  <<{"save", "enter"}, <<>>>>,
  <<{"key"}, <<>>>>, <<{"nokey"}, <<>>>>, <<{"open"}, <<>>>>, <<{"stolen"}, <<>>>>,
  <<{"garbled"}, <<>>>>, <<{"guest"}, <<>>>>, <<{"local"}, <<>>>>,
  <<{"shut"}, <<>>>>, <<{"nopath"}, <<>>>>, <<{"badlines"}, <<>>>>, <<{"fetch"}, <<>>>>,
  <<{"child"}, <<>>>>, <<{"void"}, <<>>>>,
  <<{"reasoned"}, <<>>>>, <<{"trailing"}, <<>>>>, <<{"torn"}, <<>>>>,
  <<{"wait"}, <<>>>>, <<{"code"}, <<>>>>,
  <<{"cap1", "cap2"}, <<>>>>,
  <<{"cap1", "marred"}, CapSecret :> << <<"secret", "", "old">> >>>>,
  <<{"key1", "key2"}, <<>>>>}

\* What the theorems on documents ask of a scene.
ASSUME ScenesApart == BulkApart /\ OneStore
=============================================================================
