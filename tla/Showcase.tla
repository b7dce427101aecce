------------------------------- MODULE Showcase -------------------------------
(***************************************************************************)
(* The wall of pictures on the pages of past jams: showcase.js.  Items are *)
(* laid out in rows, again on every resize, and their thumbnails are       *)
(* fetched when the wall is first on the screen.                           *)
(***************************************************************************)
EXTENDS Integers, Sequences, SequencesExt

CONSTANTS
  Widths,   \* the natural width of each item, at the height of a row
  Screens   \* widths the container may have

ASSUME ShowcaseAssumption == Widths \in Seq(Nat) /\ Screens \subseteq Nat

VARIABLES
  width,     \* of the container
  wallRows,  \* the rows of items: sequences of indices
  justified, \* for each row: it has justify-between
  onScreen,
  ready,     \* DOMContentLoaded has fired
  thumbnails,\* for each item: how often its thumbnail was added
  modals,    \* items whose modal was made
  overlay    \* the items whose modal is on the page

wallVars == <<wallRows, justified>>
modalVars == <<modals, overlay>>
showcaseVars ==
  <<width, wallVars, onScreen, ready, thumbnails, modalVars>>

WallItems == DOMAIN Widths

\* rowWidth when the items of the row were added.
RowWidth(row) ==
  LET sum[i \in 0 .. Len(row)] == IF i = 0 THEN 0 ELSE sum[i - 1] + Widths[row[i]]
  IN sum[Len(row)]

\* layout: a row ends with the item that overflows it; the rest is the last row.
AddItem(w, at, i) ==
  LET row == Append(at.row, i)
  IN IF RowWidth(row) > w THEN [done |-> Append(at.done, row), row |-> <<>>]
                          ELSE [done |-> at.done, row |-> row]

Layout(w) ==
  LET at[i \in 0 .. Len(Widths)] ==
        IF i = 0 THEN [done |-> <<>>, row |-> <<>>] ELSE AddItem(w, at[i - 1], i)
      filled == at[Len(Widths)]
  IN Append(filled.done, filled.row)

LayOut(w) ==
  \E laid \in {Layout(w)} :
    /\ wallRows' = laid
    /\ justified' = [r \in DOMAIN laid |-> RowWidth(laid[r]) >= w]

\* tryLoadImages, with doOnce around each thumbnail: those in the container.
TryLoadImages(wall, seen) ==
  thumbnails' =
    [i \in WallItems |-> IF /\ seen /\ thumbnails[i] = 0
                        /\ \E r \in DOMAIN wall : Contains(wall[r], i)
                     THEN 1 ELSE thumbnails[i]]

ShowcaseInit ==
  /\ width \in Screens
  /\ wallRows = <<>> /\ justified = <<>>
  /\ onScreen \in BOOLEAN
  /\ ready = FALSE
  /\ thumbnails = [i \in WallItems |-> 0]
  /\ modals = {} /\ overlay = {}

DOMContentLoaded ==
  /\ ~ready
  /\ ready' = TRUE
  /\ LayOut(width)
  /\ TryLoadImages(wallRows', onScreen)
  /\ UNCHANGED <<width, onScreen, modalVars>>

\* A resize may bring the wall on or off the screen.
Resize(w, seen) ==
  /\ width' = w /\ onScreen' = seen
  /\ LayOut(w)
  /\ TryLoadImages(wallRows', seen)
  /\ UNCHANGED <<ready, modalVars>>

Scroll(seen) ==
  /\ onScreen' = seen
  /\ TryLoadImages(wallRows, seen)
  /\ UNCHANGED <<width, wallVars, ready, modalVars>>

\* The modal is made once and covers the page while it is open.
ClickItem(i) ==
  /\ overlay = {}
  /\ \E r \in DOMAIN wallRows : Contains(wallRows[r], i)
  /\ modals' = modals \cup {i}
  /\ overlay' = {i}
  /\ UNCHANGED <<width, wallVars, onScreen, ready, thumbnails>>

CloseModal ==
  /\ overlay # {}
  /\ overlay' = {}
  /\ UNCHANGED <<width, wallVars, onScreen, ready, thumbnails, modals>>

ShowcaseNext ==
  \/ DOMContentLoaded
  \/ \E w \in Screens, seen \in BOOLEAN : Resize(w, seen)
  \/ \E seen \in BOOLEAN : Scroll(seen)
  \/ \E i \in WallItems : ClickItem(i)
  \/ CloseModal

ShowcaseSpec == ShowcaseInit /\ [][ShowcaseNext]_showcaseVars

-----------------------------------------------------------------------------
(***************************************************************************)
(* Once laid out the wall shows every item once and in order; a row but    *)
(* the last is full and would not be without its last item; and when the   *)
(* laid out wall was on the screen every thumbnail was fetched, once.      *)
(***************************************************************************)
WallComplete ==
  wallRows # <<>> =>
    /\ FlattenSeq(wallRows) = [i \in WallItems |-> i]
    /\ \A r \in 1 .. Len(wallRows) - 1 :
         RowWidth(Front(wallRows[r])) <= width /\ RowWidth(wallRows[r]) > width /\ justified[r]
    /\ \A i \in WallItems : thumbnails[i] <= 1 /\ (ready /\ onScreen => thumbnails[i] = 1)
=============================================================================
