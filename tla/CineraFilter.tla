----------------------------- MODULE CineraFilter -----------------------------
(***************************************************************************)
(* The filter of an annotated episode: cinera_player_pre.js.  Markers of   *)
(* the video belong to categories (topics and media); those that are off   *)
(* make markers be skipped, in one of two modes.                           *)
(***************************************************************************)
EXTENDS Integers, Sequences, FiniteSets, SequencesExt

CONSTANTS
  Topics, Media,   \* the filter's items, in order
  Categories,      \* for each marker of the video: its topics and media
  InitiallyOff     \* sets of items a page may come with switched off

FilterItems == Topics \o Media
Markers == DOMAIN Categories

ASSUME FilterAssumption ==
  /\ Topics \in Seq(ToSet(Topics)) /\ Media \in Seq(ToSet(Media))
  /\ IsInjective(FilterItems)
  /\ \A m \in Markers : Categories[m] \subseteq ToSet(FilterItems)
  /\ \A off \in InitiallyOff : off \subseteq ToSet(FilterItems)

VARIABLES
  initState,    \* filterInitState: the items off at first
  filterState,  \* the items off
  offClasses,   \* for each marker: the categories of its off_ classes
  skip,         \* the markers with the class skip
  filterMode    \* "inclusive" or "exclusive"

filterVars == <<initState, filterState, offClasses, skip, filterMode>>

\* A marker's categories that are not switched off.
OnClasses(classes, m) == Categories[m] \ classes[m]

\* filterItemToggle, on what it changes; only markers of the item are visited.
FilterItemToggle(st, c) ==
  LET off == c \notin st.items
      visited == {m \in Markers : c \in Categories[m] /\ (c \in st.classes[m] <=> ~off)}
      classes == [m \in Markers |->
                    IF m \notin visited THEN st.classes[m]
                    ELSE IF off THEN st.classes[m] \cup {c} ELSE st.classes[m] \ {c}]
  IN [items |-> IF off THEN st.items \cup {c} ELSE st.items \ {c},
      classes |-> classes,
      skip |->
        IF off
        THEN st.skip \cup {m \in visited :
                             filterMode = "exclusive" \/ OnClasses(classes, m) = {}}
        ELSE st.skip \ {m \in visited :
                          filterMode = "inclusive" \/ classes[m] = {}}]

\* Markers are never put back.
ApplyFilterOnce(mode, classes, skipped) ==
  skipped \cup {m \in Markers : classes[m] # {}}

\* applyFilter, in the mode given.
ApplyFilter(mode, classes, skipped) ==
  IF mode = "exclusive"
  THEN skipped \cup {m \in Markers : classes[m] # {}}
  ELSE skipped \ {m \in Markers : OnClasses(classes, m) # {}}

OtherMode == IF filterMode = "inclusive" THEN "exclusive" ELSE "inclusive"

\* The page comes with the classes that fit the items that are off.
FilterInit ==
  /\ initState \in InitiallyOff
  /\ filterState = initState
  /\ offClasses = [m \in Markers |-> Categories[m] \cap initState]
  /\ filterMode = "exclusive"
  /\ skip = {m \in Markers : offClasses[m] # {}}

State == [items |-> filterState, classes |-> offClasses, skip |-> skip]

SetState(st) == filterState' = st.items /\ offClasses' = st.classes /\ skip' = st.skip

\* A click on an item, or x, X or space when it has the focus.
ToggleItem(c) ==
  /\ SetState(FilterItemToggle(State, c))
  /\ UNCHANGED <<initState, filterMode>>

ToggleFilterMode ==
  /\ filterMode' = OtherMode
  /\ skip' = ApplyFilter(OtherMode, offClasses, skip)
  /\ UNCHANGED <<initState, filterState, offClasses>>

\* The items of a list that are chosen, one after another.
ToggleAll(list, chosen) ==
  LET run[i \in 0 .. Len(list)] ==
        IF i = 0 THEN State
        ELSE IF list[i] \in chosen THEN FilterItemToggle(run[i - 1], list[i]) ELSE run[i - 1]
  IN run[Len(list)]

\* invertFilter: every item of the list in which one has the focus.
InvertFilter(list) ==
  /\ SetState(ToggleAll(list, ToSet(list)))
  /\ UNCHANGED <<initState, filterMode>>

\* resetFilter toggles what differs, then leaves the inclusive mode.
ResetFilter ==
  LET differ == (initState \ filterState) \cup (filterState \ initState)
  IN \E st \in {ToggleAll(FilterItems, differ)} :
       /\ filterState' = st.items
       /\ offClasses' = st.classes
       /\ filterMode' = "exclusive"
       /\ skip' = IF filterMode = "inclusive"
                  THEN ApplyFilter("exclusive", st.classes, st.skip) ELSE st.skip
       /\ UNCHANGED initState

FilterNext ==
  \/ \E c \in ToSet(FilterItems) : ToggleItem(c)
  \/ ToggleFilterMode
  \/ InvertFilter(Topics)
  \/ InvertFilter(Media)
  \/ ResetFilter

FilterSpec == FilterInit /\ [][FilterNext]_filterVars

-----------------------------------------------------------------------------
(***************************************************************************)
(* The markers skipped are those the items and the mode call for: in the   *)
(* exclusive mode a marker with a category that is off, in the inclusive   *)
(* one a marker whose categories all are; and the classes of a marker      *)
(* agree with the items.  The code visits only the markers of the item     *)
(* toggled, and adds and removes classes one at a time.                    *)
(***************************************************************************)
FilterSound ==
  \A m \in Markers :
    /\ offClasses[m] = Categories[m] \cap filterState
    /\ m \in skip <=> /\ offClasses[m] # {}
                      /\ filterMode = "inclusive" => Categories[m] \subseteq filterState
=============================================================================
