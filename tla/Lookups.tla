------------------------------ MODULE Lookups -------------------------------
(***************************************************************************)
(* The tools that look for files (src/agents/tools/builtins.ts):            *)
(* glob_search, grep_search, search_files and file_list.  A lookup walks    *)
(* down a directory and takes file after file, while others go on changing  *)
(* them; what cannot be read is passed over.                                *)
(***************************************************************************)
EXTENDS Documents

CONSTANTS
  Lookups,   \* names of calls, strings
  Query,     \* what a call looks for: a record, see below
  Below,     \* the directories in a directory
  Pruned,    \* directories no walk enters: node_modules, .git, hidden ones
  Built,     \* directories named dist, which only glob_search enters
  Binary,    \* names of binary files
  GlobCap,   \* MAX_GLOB_RESULTS
  ListCap,   \* the entries file_list shows
  MaxScan    \* MAX_SEARCH_SCAN_FILES

\* A query is [tool, process, root, names, text, only, max]:
\*   root    a directory <<name, "">>, or a file
\*   names   the file names the pattern admits; for search_files, a function
\*           from those that score to their score
\*   text    the ids of the lines that match
\*   only    files_only            max   max_results

ASSUME LookupsAssumption ==
  /\ Lookups \subseteq STRING /\ Lookups \cap Jobs = {}
  /\ \A l \in Lookups :
       /\ Query[l].tool \in {"glob_search", "grep_search", "search_files", "file_list"}
       /\ Query[l].max \in IF Query[l].tool = "grep_search" THEN Nat \ {0} ELSE Nat
       /\ Query[l].tool = "search_files" => Query[l].names \in [DOMAIN Query[l].names -> Nat]
  /\ DOMAIN Query = Lookups
  /\ IsFiniteSet(DOMAIN Below) /\ \A d \in DOMAIN Below : Below[d] \subseteq DOMAIN Below
  /\ {GlobCap, ListCap, MaxScan} \subseteq Nat \ {0}

VARIABLES
  looks,    \* how far a lookup is
  stack,    \* the rest of the directories it is in, the innermost last
  hits,     \* what it has found: <<file, line, score or size>>, one by one
  walked,   \* the files it has come to
  cut,      \* it has stopped at a cap
  steady,   \* history: the files that matched as long as it went on
  ever      \* history: the files that matched at some time

lookVars == <<looks, stack, hits, walked, cut>>
lookHistory == <<steady, ever>>

Asking == DOMAIN looks  \* the lookups of this behaviour

-----------------------------------------------------------------------------
\* What a query finds in one file.

Lines(q, doc) ==
  Kept([i \in DOMAIN doc |-> i], {i \in DOMAIN doc : doc[i][1] \in q.text})

\* A file that is named itself is read whatever its name.
Admits(q, f) == f = q.root \/ (f[2] \in q.names /\ f[2] \notin Binary)

\* scoreName, scanContent and their sum, which no hit is without.
NameScore(q, f) == IF f[2] \in DOMAIN q.names THEN q.names[f[2]] ELSE 0
ContentScore(q, f, doc) ==
  LET count == Len(Lines(q, doc))
  IN IF f[2] \in Binary \/ count = 0 THEN 0 ELSE 30 + 2 * Min({count, 5})
Score(q, f, doc) == NameScore(q, f) + ContentScore(q, f, doc)

Matches(q, f, doc) ==
  CASE q.tool = "glob_search" -> f[2] \in q.names
    [] q.tool = "grep_search" -> Admits(q, f) /\ Lines(q, doc) # <<>>
    [] q.tool = "search_files" -> Score(q, f, doc) > 0
    [] q.tool = "file_list" -> f[1] = q.root[1]

\* The directories in a directory that the walk enters.
Skips(q) == IF q.tool = "glob_search" THEN Pruned ELSE Pruned \cup Built
Children(q, d) == IF d \in DOMAIN Below THEN Below[d] \ Skips(q) ELSE {}

\* The directories a walk gets to: the least set that has the one it begins at
\* and what the walk enters from any of them.
Closed(q, dirs) == \A d \in dirs : Children(q, d) \subseteq dirs
Reach(q, from) ==
  {d \in DOMAIN Below :
     /\ from \in DOMAIN Below
     /\ \A dirs \in SUBSET DOMAIN Below : from \in dirs /\ Closed(q, dirs) => d \in dirs}

Reached == [q \in Range(Query) |-> Reach(q, q.root[1])]

\* A file that is named itself is searched, but has nothing to list or glob.
Rooted(q, f) ==
  IF q.root[2] = "" THEN f[1] \in Reached[q]
  ELSE f = q.root /\ q.tool \in {"grep_search", "search_files"}

\* The files of a file system the query is about.
About(q, files) ==
  {f \in DOMAIN files : f[2] # "" /\ Rooted(q, f) /\ Matches(q, f, files[f])}

-----------------------------------------------------------------------------
LookupsInit(scene) ==
  /\ looks = [l \in Lookups \cap scene |-> "idle"]
  /\ stack = [l \in Asking |-> <<>>]
  /\ hits = [l \in Asking |-> <<>>]
  /\ walked = [l \in Asking |-> 0]
  /\ cut = [l \in Asking |-> FALSE]
  /\ steady = [l \in Asking |-> {}]
  /\ ever = [l \in Asking |-> {}]

\* The lookup's histories, after any step of anybody.
Witnessed ==
  /\ steady' = [l \in Asking |->
       IF looks[l] = "idle" THEN About(Query[l], disk')
       ELSE IF looks[l] = "walking" THEN steady[l] \cap About(Query[l], disk')
       ELSE steady[l]]
  /\ ever' = [l \in Asking |->
       IF looks[l] = "idle" THEN About(Query[l], disk')
       ELSE IF looks[l] = "walking" THEN ever[l] \cup About(Query[l], disk')
       ELSE ever[l]]

\* A call on a path that is not there, or not of the kind the tool wants.
Start(l) ==
  LET q == Query[l]
      folder == q.root[2] = ""
      good == IF folder THEN q.root[1] \in DOMAIN Below
              ELSE q.tool \in {"grep_search", "search_files"} /\ q.root \in Files
  IN /\ looks[l] = "idle"
     /\ looks' = [looks EXCEPT ![l] = IF good THEN "walking"
                                      ELSE IF q.tool = "glob_search" THEN "done" ELSE "refused"]
     /\ stack' = [stack EXCEPT ![l] = IF good THEN << <<q.root>> >> ELSE <<>>]
     /\ UNCHANGED <<hits, walked, cut>>

Walking(l) == looks[l] = "walking" /\ stack[l] # <<>>
Here(l) == Head(Last(stack[l]))
\* The stack without the item at hand; directories that are through fall off.
Rest(l) == Front(stack[l]) \o << Tail(Last(stack[l])) >>
Trim(s) == Kept(s, Range(s) \ {<<>>})

\* Mutant: a file that has gone ends the walk.
AfterBroken(l, full) == IF full \/ Here(l) \notin Files THEN <<>> ELSE Trim(Rest(l))
\* What is left of the walk once a file is through.
After(l, full) == IF full THEN <<>> ELSE Trim(Rest(l))

\* search_files has come to as many files as it may.
Exhausted(l) == Query[l].tool = "search_files" /\ walked[l] >= MaxScan
GiveUp(l) ==
  /\ Walking(l) /\ Exhausted(l)
  /\ stack' = [stack EXCEPT ![l] = <<>>]
  /\ cut' = [cut EXCEPT ![l] = TRUE]
  /\ UNCHANGED <<looks, hits, walked>>

EnterFolder(l) ==
  /\ Walking(l) /\ ~Exhausted(l) /\ Here(l)[2] = ""
  /\ Query[l].tool # "file_list"
  /\ \E listing \in Readdir({f \in Files : f[1] = Here(l)[1]}
                            \cup {<<d, "">> : d \in Children(Query[l], Here(l)[1])}) :
       stack' = [stack EXCEPT ![l] = Trim(Append(Rest(l), listing))]
  /\ UNCHANGED <<looks, hits, walked, cut>>

\* file_list shows the first entries of one directory.
ListFolder(l) ==
  LET q == Query[l]
      folders == {<<d, "">> : d \in Below[q.root[1]]}
      files == {f \in Files : f[1] = q.root[1]}
  IN /\ Walking(l) /\ q.tool = "file_list" /\ Here(l) = q.root
     /\ \E listing \in Readdir(folders \cup files) :
          /\ stack' = [stack EXCEPT ![l] =
               Trim(<<SubSeq(listing, 1, Min({ListCap, Len(listing)}))>>)]
          /\ cut' = [cut EXCEPT ![l] = Len(listing) > ListCap]
     /\ UNCHANGED <<looks, hits, walked>>

\* Each entry is looked at once more, for its size.
Entry_(l) ==
  LET size == IF Here(l) \in Files THEN Len(disk[Here(l)]) ELSE 0
  IN /\ Walking(l) /\ Query[l].tool = "file_list" /\ Here(l) # Query[l].root
     /\ hits' = [hits EXCEPT ![l] = Append(@, <<Here(l), 0, size>>)]
     /\ stack' = [stack EXCEPT ![l] = After(l, FALSE)]
     /\ UNCHANGED <<looks, walked, cut>>

\* collectGlob goes by the name alone; at its cap it leaves one directory.
Glob(l) ==
  LET good == Here(l)[2] \in Query[l].names
      full == good /\ Len(hits[l]) + 1 >= 2 * GlobCap
  IN /\ Walking(l) /\ Query[l].tool = "glob_search" /\ Here(l)[2] # ""
     /\ hits' = [hits EXCEPT ![l] = IF good THEN Append(@, <<Here(l), 0, 0>>) ELSE @]
     /\ stack' = [stack EXCEPT ![l] = Trim(IF full THEN Front(@) ELSE Rest(l))]
     /\ cut' = [cut EXCEPT ![l] = @ \/ full]
     /\ UNCHANGED <<looks, walked>>

\* scanFile: line after line, until there are enough of them.
Grep(l) ==
  LET q == Query[l]
      f == Here(l)
      lines == IF f \in Files /\ Admits(q, f) THEN Lines(q, disk[f]) ELSE <<>>
      free == q.max - Len(hits[l])
      taken == IF q.only THEN Min({1, Len(lines)}) ELSE Min({free, Len(lines)})
      full == ~q.only /\ taken > 0 /\ taken = free
  IN /\ Walking(l) /\ q.tool = "grep_search" /\ f[2] # ""
     /\ hits' = [hits EXCEPT ![l] = @ \o [i \in 1 .. taken |-> <<f, lines[i], 0>>]]
     /\ stack' = [stack EXCEPT ![l] = After(l, full)]
     /\ cut' = [cut EXCEPT ![l] = full]
     /\ UNCHANGED <<looks, walked>>

\* A file that has gone keeps what its name scores.
Search(l) ==
  LET q == Query[l]
      f == Here(l)
      score == Score(q, f, IF f \in Files THEN disk[f] ELSE <<>>)
  IN /\ Walking(l) /\ q.tool = "search_files" /\ f[2] # "" /\ ~Exhausted(l)
     /\ walked' = [walked EXCEPT ![l] = @ + 1]
     /\ hits' = [hits EXCEPT ![l] = IF score > 0 THEN Append(@, <<f, 0, score>>) ELSE @]
     /\ stack' = [stack EXCEPT ![l] = After(l, FALSE)]
     /\ UNCHANGED <<looks, cut>>

\* What is shown in the end: the first files globbed, or those that score
\* best; which of two equals comes first is left open.
Finish(l) ==
  LET q == Query[l]
      room == CASE q.tool = "glob_search" -> GlobCap
                [] q.tool = "search_files" -> q.max
                [] OTHER -> Len(hits[l])
      few == Min({room, Len(hits[l])})
  IN /\ looks[l] = "walking" /\ stack[l] = <<>>
     /\ IF q.tool = "search_files"
          THEN \E best \in kSubset(few, Range(hits[l])) :
                 /\ \A h \in best, k \in Range(hits[l]) \ best : h[3] >= k[3]
                 /\ hits' = [hits EXCEPT ![l] = Kept(@, best)]
          ELSE hits' = [hits EXCEPT ![l] = SubSeq(@, 1, few)]
     /\ looks' = [looks EXCEPT ![l] = "done"]
     /\ cut' = [cut EXCEPT ![l] = @ \/ few < Len(hits[l])]
     /\ UNCHANGED <<stack, walked>>

LookupStep(l) ==
  \/ Start(l) \/ EnterFolder(l) \/ ListFolder(l) \/ Entry_(l)
  \/ Glob(l) \/ Grep(l) \/ Search(l) \/ GiveUp(l) \/ Finish(l)

CrashLookups(p) ==
  /\ looks' = [l \in Asking |->
       IF Query[l].process = p /\ looks[l] = "walking" THEN "dead" ELSE looks[l]]
  /\ UNCHANGED <<stack, hits, walked, cut>>

-----------------------------------------------------------------------------
Found(l) == {h[1] : h \in Range(hits[l])}

\* What goes on in the files meanwhile never costs a lookup a file it is not
\* about: one that does not say that it was cut off has found every file that
\* matched from its start to its end, and nothing that never matched.
NoneMissed ==
  \A l \in Asking :
    looks[l] = "done" =>
      /\ ~cut[l] => steady[l] \subseteq Found(l)
      /\ {f \in Found(l) : f[2] # ""} \subseteq ever[l]
=============================================================================
