---------------------------- MODULE ProjectOwners ----------------------------
(***************************************************************************)
(* The owners of a project on its settings page: project_edit.ts:76-205.   *)
(* A name is checked by the site, one at a time, while the page goes on;   *)
(* the site finds a user whatever the case, and answers with the name the  *)
(* user has.                                                               *)
(***************************************************************************)
EXTENDS Integers, Sequences, FiniteSets, SequencesExt

CONSTANTS
  Users,        \* the names the site knows, in lower case
  Strangers,    \* names it does not know
  MaxOwners     \* maxOwners

Empty == "empty"

ASSUME OwnersAssumption ==
  /\ MaxOwners \in Nat
  /\ Users \cap Strangers = {}
  /\ Empty \notin Users \cup Strangers

VARIABLES
  rows,            \* the owners listed, in order
  typed,           \* addOwnerInput.value, trimmed and in lower case, or Empty
  inputDisabled,   \* addOwnerInput.disabled
  buttonDisabled,  \* addOwnerButton.disabled
  query,           \* the name being checked, or Empty
  error,           \* ownersError shows something
  previewed        \* the owners in the preview of the project's card

ownersVars == <<rows, typed, inputDisabled, buttonDisabled, query, error, previewed>>

\* One owner too late.
UpdateAddOwnerStylesLate(newRows) == inputDisabled' = (Len(newRows) > MaxOwners)

\* updateAddOwnerStyles, which has the last word on the input.
UpdateAddOwnerStyles(newRows) == inputDisabled' = (Len(newRows) >= MaxOwners)

SetOwnerQueryState(name, newRows) ==
  /\ query' = name
  /\ buttonDisabled' = (name # Empty)
  /\ UpdateAddOwnerStyles(newRows)

OwnersInit ==
  /\ rows \in {s \in UNION {[1 .. n -> Users] : n \in 0 .. MaxOwners} : IsInjective(s)}
  /\ typed = Empty
  /\ inputDisabled = (Len(rows) >= MaxOwners)
  /\ buttonDisabled = FALSE
  /\ query = Empty
  /\ error = FALSE
  /\ previewed = rows

TypeOwner(name) ==
  /\ ~inputDisabled
  /\ name # typed
  /\ typed' = name
  /\ UNCHANGED <<rows, inputDisabled, buttonDisabled, query, error, previewed>>

\* startAddOwner: Enter in the input, or the button.
StartAddOwner ==
  /\ ~inputDisabled \/ ~buttonDisabled
  /\ query = Empty
  /\ typed # Empty
  /\ ~Contains(rows, typed)
  /\ error' = FALSE
  /\ SetOwnerQueryState(typed, rows)
  /\ UNCHANGED <<rows, typed, previewed>>

\* The load event: the user is found and becomes an owner, and the input is
\* emptied; or is not found; or the answer cannot be read.
OwnerFound ==
  /\ query \in Users
  /\ rows' = Append(rows, query)
  /\ previewed' = rows'
  /\ typed' = Empty
  /\ SetOwnerQueryState(Empty, rows')
  /\ UNCHANGED error

\* The load event without the user, or the error event.
OwnerNotAdded ==
  /\ query # Empty
  /\ error' = TRUE
  /\ SetOwnerQueryState(Empty, rows)
  /\ UNCHANGED <<rows, typed, previewed>>

RemoveOwner(i) ==
  /\ rows' = RemoveAt(rows, i)
  /\ previewed' = rows'
  /\ UpdateAddOwnerStyles(rows')
  /\ UNCHANGED <<typed, buttonDisabled, query, error>>

OwnersNext ==
  \/ \E name \in Users \cup Strangers \cup {Empty} : TypeOwner(name)
  \/ StartAddOwner
  \/ OwnerFound
  \/ OwnerNotAdded
  \/ \E i \in DOMAIN rows : RemoveOwner(i)

OwnersSpec == OwnersInit /\ [][OwnersNext]_ownersVars

-----------------------------------------------------------------------------
(***************************************************************************)
(* No user is listed twice and no more than MaxOwners are, however typing, *)
(* adding, removing and the site's answer interleave.  startAddOwner does  *)
(* not count the rows: it is the disabled input, and that an answer empties *)
(* it, that keep a full list from growing.  The preview shows the list.    *)
(***************************************************************************)
OwnersSound ==
  /\ Len(rows) <= MaxOwners
  /\ IsInjective(rows)
  /\ query # Empty => ~Contains(rows, query)
  /\ previewed = rows
=============================================================================
