----------------------------- MODULE CineraSearch -----------------------------
(***************************************************************************)
(* The search page of the annotated episodes: cinera_search.js.  Each      *)
(* project's index is loaded on its own; a query searches those that are   *)
(* there, and timers put the results into the page in small batches.       *)
(***************************************************************************)
EXTENDS Integers, Sequences, FiniteSets, SequencesExt

CONSTANTS
  IndexFiles,  \* for each project, the lines of its index
  Parent,      \* for each project, the one its filter is nested in, or 0
  Queries,     \* for each query, the texts of markers it matches
  NoQuery,     \* the empty query
  BadQueries,  \* queries that are no regular expression
  MaxItems,    \* maxItems, 42 in the code
  MaxTimers    \* a bound: the user waits while so many timers are pending

Projects == DOMAIN IndexFiles

ASSUME SearchAssumption ==
  /\ MaxItems \in Nat \ {0} /\ MaxTimers \in Nat \ {0}
  /\ IndexFiles \in Seq(Seq([kind : STRING, text : STRING]))
  /\ DOMAIN Parent = Projects
  /\ NoQuery \notin DOMAIN Queries \cup BadQueries

VARIABLES
  queryBox, lastQuery,
  indexSortChronological,
  episodes,           \* of each project, once its index is parsed
  loading,            \* the projects whose index is under way
  off, filteredOut,   \* projects: the class of the filter, and the flag
  resultsToRender, resultsIndex, resultsMarkerIndex,
  rendering, timers,
  handleLive,         \* renderHandle is the newest of the timers
  containers,         \* the projects whose results have a container
  hiddenContainers,
  results,            \* what the containers show, in order
  found               \* the episodes the summary counts

filterClickVars == <<off, filteredOut, hiddenContainers>>
loadVars == <<episodes, loading>>
pageVars == <<resultsIndex, resultsMarkerIndex, rendering, timers, handleLive, containers,
              results>>
searchVars == <<queryBox, lastQuery, indexSortChronological, loadVars, filterClickVars,
                resultsToRender, pageVars, found>>

-----------------------------------------------------------------------------
\* An index has lines of several kinds.  An episode counts once the line of
\* dashes after it is read, if it has a name and a title.
ReadLine(st, line) ==
  CASE line.kind = "---" ->
         [done |-> IF st.name # "" /\ st.title # ""
                   THEN Append(st.done, [name |-> st.name, markers |-> st.markers])
                   ELSE st.done,
          name |-> "", title |-> "", markers |-> <<>>, inMarkers |-> FALSE]
    [] line.kind = "name" -> [st EXCEPT !.name = line.text]
    [] line.kind = "title" -> [st EXCEPT !.title = line.text]
    [] line.kind = "markers" -> [st EXCEPT !.markers = <<>>, !.inMarkers = TRUE]
    [] line.kind = "marker" ->
         IF st.inMarkers THEN [st EXCEPT !.markers = Append(@, line.text)] ELSE st
    [] OTHER -> st

NothingRead ==
  [done |-> <<>>, name |-> "", title |-> "", markers |-> <<>>, inMarkers |-> FALSE]

ParseIndexFile(lines) ==
  LET read[i \in 0 .. Len(lines)] ==
        IF i = 0 THEN NothingRead ELSE ReadLine(read[i - 1], lines[i])
  IN read[Len(lines)].done

\* What a loop over s pushes to a list of those that are in S.
Pushed(s, S) ==
  LET pushed[i \in 0 .. Len(s)] ==
        IF i = 0 THEN <<>>
        ELSE IF s[i] \in S THEN Append(pushed[i - 1], s[i]) ELSE pushed[i - 1]
  IN pushed[Len(s)]

\* runSearchInterior, over the episodes in the order given.
MatchesIn(query, eps) ==
  LET searched == [e \in DOMAIN eps |->
                     [name |-> eps[e].name, matches |-> Pushed(eps[e].markers, Queries[query])]]
  IN Pushed(searched, {r \in ToSet(searched) : r.matches # <<>>})

SearchResults(query, eps, chronological) ==
  [p \in Projects |->
     IF query \notin DOMAIN Queries THEN <<>>
     ELSE MatchesIn(query, IF chronological THEN eps[p] ELSE Reverse(eps[p]))]

-----------------------------------------------------------------------------
\* renderResults, on what it changes.  One item: an episode's heading, or a
\* marker under it.  The first episode of a project gets a container, and the
\* loop that fills it in ends the outer one, whose counter it uses.
RenderItem(todo, st, p) ==
  IF st.items = MaxItems \/ st.index[p] = Len(todo[p]) THEN st
  ELSE LET result == todo[p][st.index[p] + 1]
           opens == st.mark = -1 /\ st.index[p] = 0
           places == IF opens THEN Append(st.containers, p) ELSE st.containers
           ends == st.mark + 1 = Len(result.matches)
       IN IF st.mark = -1
          THEN [st EXCEPT
                  !.containers = places,
                  !.hidden = IF opens /\ p \in filteredOut THEN @ \cup {p} ELSE @,
                  !.results = Append(@, <<Last(places), result.name>>),
                  !.mark = 0, !.items = @ + 1,
                  !.stop = @ \/ opens]
          ELSE [st EXCEPT
                  !.results = Append(@, <<Last(st.containers), result.name,
                                          result.matches[st.mark + 1]>>),
                  !.mark = IF ends THEN -1 ELSE @ + 1,
                  !.index[p] = IF ends THEN @ + 1 ELSE @,
                  !.items = @ + 1]

RenderProject(todo, st, p) ==
  IF st.stop THEN st
  ELSE IF st.index[p] < Len(todo[p])
       THEN LET filled[i \in 0 .. MaxItems] ==
                  IF i = 0 THEN st ELSE RenderItem(todo, filled[i - 1], p)
            IN [filled[MaxItems] EXCEPT !.timers = @ + 1, !.live = TRUE, !.rendering = TRUE]
       ELSE [st EXCEPT !.rendering = FALSE]

RenderProjects(todo, st) ==
  LET rendered[p \in 0 .. Len(IndexFiles)] ==
        IF p = 0 THEN st ELSE RenderProject(todo, rendered[p - 1], p)
  IN rendered[Len(IndexFiles)]

\* The page as it is, or cleared; n timers are pending.
Page(cleared, n, live) ==
  [index |-> IF cleared THEN [p \in Projects |-> 0] ELSE resultsIndex,
   mark |-> IF cleared THEN -1 ELSE resultsMarkerIndex,
   containers |-> IF cleared THEN <<>> ELSE containers,
   hidden |-> IF cleared THEN {} ELSE hiddenContainers,
   results |-> IF cleared THEN <<>> ELSE results,
   items |-> 0, stop |-> FALSE,
   timers |-> n, live |-> live, rendering |-> rendering]

RenderResults(todo, cleared, n, live) ==
  \E st \in {RenderProjects(todo, Page(cleared, n, live))} :
    /\ resultsIndex' = st.index /\ resultsMarkerIndex' = st.mark
    /\ containers' = st.containers /\ hiddenContainers' = st.hidden
    /\ results' = st.results
    /\ timers' = st.timers /\ handleLive' = st.live /\ rendering' = st.rendering

ClearResults(refresh) ==
  IF refresh
  THEN /\ resultsIndex' = [p \in Projects |-> 0] /\ resultsMarkerIndex' = -1
       /\ containers' = <<>> /\ hiddenContainers' = {} /\ results' = <<>>
  ELSE UNCHANGED <<resultsIndex, resultsMarkerIndex, containers, hiddenContainers, results>>

\* numEpisodes.
Episodes(todo) ==
  LET sum[p \in 0 .. Len(IndexFiles)] == IF p = 0 THEN 0 ELSE sum[p - 1] + Len(todo[p])
  IN sum[Len(IndexFiles)]

\* runSearch, given what the caller changed.  A bad query throws half way.
RunSearch(query, eps, chronological, refresh) ==
  LET cleared == refresh \/ lastQuery # query
      parsed == {p \in Projects : eps[p] # <<>>}
      cancels == rendering /\ handleLive
  IN /\ lastQuery' = query
     /\ \E todo \in {SearchResults(query, eps, chronological)} :
          /\ resultsToRender' = todo
          /\ found' = IF query \in BadQueries THEN found ELSE Episodes(todo)
          /\ IF query \in DOMAIN Queries /\ parsed # {}
             THEN RenderResults(todo, cleared, timers - (IF cancels THEN 1 ELSE 0),
                                handleLive /\ ~rendering)
             ELSE ClearResults(cleared) /\ UNCHANGED <<rendering, timers, handleLive>>

-----------------------------------------------------------------------------
TypeQuery(query) ==
  /\ timers < MaxTimers
  /\ queryBox' = query
  /\ RunSearch(query, episodes, indexSortChronological, FALSE)
  /\ UNCHANGED <<indexSortChronological, loadVars, off, filteredOut>>

ClickSort ==
  /\ timers < MaxTimers
  /\ indexSortChronological' = ~indexSortChronological
  /\ RunSearch(queryBox, episodes, indexSortChronological', TRUE)
  /\ UNCHANGED <<queryBox, loadVars, off, filteredOut>>

\* The results shown so far stay.
IndexLoadsKeeping(p) ==
  /\ p \in loading
  /\ loading' = loading \ {p}
  /\ episodes' = [episodes EXCEPT ![p] = ParseIndexFile(IndexFiles[p])]
  /\ RunSearch(queryBox, episodes', indexSortChronological, FALSE)
  /\ UNCHANGED <<queryBox, indexSortChronological, off, filteredOut>>

IndexLoads(p) ==
  /\ p \in loading
  /\ loading' = loading \ {p}
  /\ episodes' = [episodes EXCEPT ![p] = ParseIndexFile(IndexFiles[p])]
  /\ RunSearch(queryBox, episodes', indexSortChronological, TRUE)
  /\ UNCHANGED <<queryBox, indexSortChronological, off, filteredOut>>

IndexFails(p) ==
  /\ p \in loading
  /\ loading' = loading \ {p}
  /\ UNCHANGED <<queryBox, lastQuery, indexSortChronological, episodes, filterClickVars,
                 resultsToRender, pageVars, found>>

TimerFires ==
  /\ timers > 0
  /\ RenderResults(resultsToRender, FALSE, timers - 1, handleLive /\ timers > 1)
  /\ UNCHANGED <<queryBox, lastQuery, indexSortChronological, loadVars, off, filteredOut,
                 resultsToRender, found>>

\* toggleEntriesOfProjectAndChildren: the projects nested in p follow it,
\* however they were set.
Nested(p) == {q \in Projects : q = p \/ Parent[q] = p}

HideEntries(ps) == off' = off \cup ps /\ filteredOut' = filteredOut \cup ps
ShowEntries(ps) == off' = off \ ps /\ filteredOut' = filteredOut \ ps

\* hideProjectSearchResults and showProjectSearchResults, of those on the page.
HideResults(ps) == hiddenContainers' = hiddenContainers \cup (ps \cap ToSet(containers))
ShowResults(ps) == hiddenContainers' = hiddenContainers \ ps

ClickFilter(p) ==
  /\ \/ p \in off /\ ShowEntries(Nested(p)) /\ ShowResults(Nested(p))
     \/ p \notin off /\ HideEntries(Nested(p)) /\ HideResults(Nested(p))
  /\ UNCHANGED <<queryBox, lastQuery, indexSortChronological, loadVars, resultsToRender,
                 pageVars, found>>

\* The page may come with a query in its hash.
SearchInit ==
  /\ queryBox \in {NoQuery} \cup DOMAIN Queries
  /\ lastQuery = queryBox
  /\ indexSortChronological = TRUE
  /\ episodes = [p \in Projects |-> <<>>] /\ loading = Projects
  /\ off = {} /\ filteredOut = {} /\ hiddenContainers = {}
  /\ resultsToRender = [p \in Projects |-> <<>>]
  /\ resultsIndex = [p \in Projects |-> 0] /\ resultsMarkerIndex = -1
  /\ rendering = FALSE /\ timers = 0 /\ handleLive = FALSE
  /\ containers = <<>> /\ results = <<>>
  /\ found = 0

SearchNext ==
  \/ \E query \in {NoQuery} \cup DOMAIN Queries \cup BadQueries : TypeQuery(query)
  \/ ClickSort
  \/ \E p \in Projects : IndexLoads(p) \/ IndexFails(p) \/ ClickFilter(p)
  \/ TimerFires

SearchSpec == SearchInit /\ [][SearchNext]_searchVars

-----------------------------------------------------------------------------
\* An episode's heading and the markers under it.
EntryOf(p, r) ==
  <<<<p, r.name>>>> \o [i \in DOMAIN r.matches |-> <<p, r.name, r.matches[i]>>]

\* Everything the query finds, in the order of the projects.
Expected ==
  LET all == SearchResults(lastQuery, episodes, indexSortChronological)
      Of(p) == FlattenSeq([i \in DOMAIN all[p] |-> EntryOf(p, all[p][i])])
  IN FlattenSeq([p \in Projects |-> Of(p)])

(***************************************************************************)
(* Whatever the order of queries, indexes, clicks and timers, the page     *)
(* shows results of the present query only, each once and in its place; it *)
(* shows them all when no timer is left, and hides those of the projects   *)
(* that are filtered out.                                                  *)
(***************************************************************************)
SearchComplete ==
  /\ IsPrefix(results, Expected)
  /\ timers = 0 => results = Expected
  /\ hiddenContainers = filteredOut \cap ToSet(containers)
  /\ off = filteredOut
  /\ queryBox \notin BadQueries =>
       found = Len(Pushed(Expected, Projects \X STRING))
=============================================================================
