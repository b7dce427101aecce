------------------------------ MODULE LinkEditor ------------------------------
(***************************************************************************)
(* The list of links on the settings pages of users and projects, and the  *)
(* dragging of its rows: lib/link_editor.ts and lib/reorderable.js.  The   *)
(* list is the sequence of the children of #links: two titles, rows,       *)
(* placeholders of empty sections, and, during a drag, the dummy.          *)
(***************************************************************************)
EXTENDS Integers, Sequences, FiniteSets, SequencesExt

CONSTANTS
  Rows,       \* rows that may be made, as strings
  MaxLinks    \* rows the page opens with, at most

ASSUME LinksAssumption ==
  /\ MaxLinks \in Nat
  /\ Rows \cap {"none", "primary-links", "secondary-links", "link-placeholder",
               "reorderable-dummy"} = {}

VARIABLES
  kids,       \* the children of #links
  hasUrl,     \* the rows whose URL is filled in
  linksJSON,  \* what the form will send: rows and whether they are primary
  shownLinks, \* the links in the preview of the project's page
  drag,       \* the row being dragged, or NoRow
  live,       \* the rows made and not deleted
  ghosts      \* the rows deleted during their own drag

linkVars == <<kids, hasUrl, linksJSON, shownLinks, drag, live, ghosts>>

NoRow == "none"
Primary == "primary-links"
Secondary == "secondary-links"
EmptySection == "link-placeholder"
Dummy == "reorderable-dummy"

Position(e, s) == CHOOSE i \in DOMAIN s : s[i] = e

\* What of s is in S.
Kept(s, S) ==
  LET kept[i \in 0 .. Len(s)] ==
        IF i = 0 THEN <<>>
        ELSE IF s[i] \in S THEN Append(kept[i - 1], s[i]) ELSE kept[i - 1]
  IN kept[Len(s)]

Without(s, e) == Kept(s, ToSet(s) \ {e})
Before(s, e, new) == InsertAt(s, Position(e, s), new)
After(s, e, new) == InsertAt(s, Position(e, s) + 1, new)

\* The class reorderable-item: link_editor.html gives it to the title of the
\* second section too.
Items == Rows \cup {Secondary}

\* ensurePlaceholders.
EnsurePlaceholders(list) ==
  LET s == Without(list, EmptySection)
      split == Position(Secondary, s)
      s1 == IF \E i \in 1 .. split : s[i] \in Rows THEN s ELSE After(s, Primary, EmptySection)
  IN  IF \E i \in split .. Len(s) : s[i] \in Rows THEN s1 ELSE After(s1, Secondary, EmptySection)

\* getLinkData.
GetLinkData(s, filled) ==
  LET links[i \in 0 .. Len(s)] ==
        IF i = 0 THEN <<>>
        ELSE IF s[i] \in filled
             THEN Append(links[i - 1], [link |-> s[i], primary |-> \A j \in 1 .. i : s[j] # Secondary])
             ELSE links[i - 1]
  IN  links[Len(s)]

\* updateLinkPreviews of project_edit.ts, on the event linkedit.
UpdateLinkPreviews == shownLinks' = GetLinkData(kids', hasUrl')

\* linksUpdated.
LinksUpdated ==
  /\ linksJSON' = GetLinkData(kids', hasUrl')
  /\ UpdateLinkPreviews

\* The end of every handler that changes the list.
ListBecomes(s) ==
  /\ kids' = EnsurePlaceholders(s)
  /\ LinksUpdated

\* initLinkEditor: the links the site sent, each in its section.
LinksInit ==
  \E primaries, secondaries \in {s \in UNION {[1 .. n -> Rows] : n \in 0 .. MaxLinks} : IsInjective(s)} :
    /\ ToSet(primaries) \cap ToSet(secondaries) = {}
    /\ Len(primaries) + Len(secondaries) <= MaxLinks
    /\ kids = EnsurePlaceholders(<<Primary>> \o primaries \o <<Secondary>> \o secondaries)
    /\ live = ToSet(primaries) \cup ToSet(secondaries)
    /\ hasUrl = live
    /\ linksJSON = <<>>
    /\ shownLinks = GetLinkData(kids, hasUrl)
    /\ drag = NoRow
    /\ ghosts = {}

AddLink(r) ==
  /\ r \notin live \cup ToSet(kids) \cup ghosts
  /\ live' = live \cup {r}
  /\ UNCHANGED <<hasUrl, drag, ghosts>>
  /\ ListBecomes(Before(kids, Secondary, r))

DeleteLink(r) ==
  /\ Contains(kids, r)
  /\ live' = live \ {r}
  /\ ghosts' = IF r = drag THEN ghosts \cup {r} ELSE ghosts
  /\ UNCHANGED <<hasUrl, drag>>
  /\ ListBecomes(Without(kids, r))

\* linkInput: the URL of a row is filled in or emptied.
LinkInput(r) ==
  /\ Contains(kids, r)
  /\ hasUrl' = SymDiff(hasUrl, {r})
  /\ UNCHANGED kids
  /\ LinksUpdated
  /\ UNCHANGED <<drag, live, ghosts>>

\* startDrag, on the primary pointer's press on a row's handle.
StartDrag(r) ==
  /\ drag = NoRow
  /\ Contains(kids, r)
  /\ drag' = r
  /\ kids' = Before(kids, r, Dummy)
  /\ UNCHANGED <<hasUrl, linksJSON, shownLinks, live, ghosts>>

\* doDrag's walk: going from the closest item towards the pointer, the dragged
\* row comes before any other item.
AlreadyOrdered(closest, before) ==
  LET at == Position(closest, kids)
      way == IF before THEN Reverse(SubSeq(kids, 1, at - 1))
                       ELSE SubSeq(kids, at + 1, Len(kids))
      met == Kept(way, Items)
  IN  met # <<>> /\ Head(met) = drag

\* doDrag: the pointer is before or after the middle of its closest item.
DoDrag(closest, before) ==
  /\ drag # NoRow
  /\ closest \in Items \ {drag}
  /\ Contains(kids, closest)
  /\ ~AlreadyOrdered(closest, before)
  /\ LET rest == Without(Without(kids, Dummy), drag)
         moved == IF before THEN Before(rest, closest, Dummy) ELSE After(rest, closest, Dummy)
     IN  /\ UNCHANGED <<hasUrl, drag, live, ghosts>>
         /\ ListBecomes(Before(moved, Dummy, drag))

\* endDrag, when the pointer is released or lost.
EndDrag ==
  /\ drag # NoRow
  /\ drag' = NoRow
  /\ UNCHANGED <<hasUrl, live, ghosts>>
  /\ ListBecomes(Without(Before(Without(kids, drag), Dummy, drag), Dummy))

\* The submit handler.
SubmitLinks ==
  /\ linksJSON' = GetLinkData(kids, hasUrl)
  /\ UNCHANGED <<kids, hasUrl, shownLinks, drag, live, ghosts>>

LinksNext ==
  \/ \E r \in Rows : AddLink(r) \/ DeleteLink(r) \/ LinkInput(r) \/ StartDrag(r)
  \/ \E closest \in Items, before \in BOOLEAN : DoDrag(closest, before)
  \/ EndDrag
  \/ SubmitLinks

LinksSpec == LinksInit /\ [][LinksNext]_linkVars

-----------------------------------------------------------------------------
(***************************************************************************)
(* However dragging, adding, deleting and typing interleave, each row that *)
(* was made and not deleted is in the list, once, and no other is, except  *)
(* one deleted while it was dragged, which the end of its drag brings      *)
(* back; each section without rows, and no other, shows one placeholder;   *)
(* and what the form sends, from the first event on, and what the preview  *)
(* shows is the list as it is.                                             *)
(***************************************************************************)
LinksSound ==
  LET split == Position(Secondary, kids)
      rowsOf(from, to) == {i \in from .. to : kids[i] \in Rows}
      emptyOf(from, to) == {i \in from .. to : kids[i] = EmptySection}
  IN  /\ \A i, j \in DOMAIN kids : kids[i] = kids[j] /\ kids[i] # EmptySection => i = j
      /\ live \subseteq ToSet(kids)
      /\ ToSet(kids) \cap Rows \subseteq live \cup ghosts
      /\ Contains(kids, Dummy) <=> drag # NoRow
      /\ kids[1] = Primary
      /\ \A side \in {<<1, split>>, <<split, Len(kids)>>} :
           Cardinality(emptyOf(side[1], side[2])) =
             IF rowsOf(side[1], side[2]) = {} THEN 1 ELSE 0
      /\ linksJSON \in {<<>>, GetLinkData(kids, hasUrl)}
      /\ shownLinks = GetLinkData(kids, hasUrl)
=============================================================================
