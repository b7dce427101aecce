------------------------------ MODULE CineraMenus ------------------------------
(***************************************************************************)
(* The menus in the title bar of an annotated episode, opened with the     *)
(* mouse and with the keys: cinera_player_pre.js, cinera_player_post.js.   *)
(***************************************************************************)
EXTENDS CineraFilter

CONSTANTS
  Quotes,       \* how many
  References,   \* for each reference, how many identifiers (timecodes) it has
  Supports,     \* for each person of the credits, whether there is a support link
  MenuBars      \* sets of menus a page may come with

ASSUME MenusAssumption ==
  /\ \A bar \in MenuBars : bar \subseteq {"quotes", "references", "filter", "link", "credits"}
  /\ Quotes \in Nat \ {0}
  /\ References \in Seq(Nat \ {0}) /\ Supports \in Seq(BOOLEAN)
  /\ References # <<>> /\ Supports # <<>>
  /\ Topics # <<>> /\ Media # <<>>

VARIABLES
  present,            \* the menus of the page
  visible,            \* the menus shown
  mouseIn,            \* the menu the mouse is in, or NoMenu
  focusedElement, focusedIdentifier,
  lastFocused,        \* the globals lastFocusedQuote, ...Reference, and so on
  highlighted,        \* elements with the class focused
  identifiersLit,     \* identifiers with the class focused
  pointed,            \* the mouse was over a reference
  linkAnnotation

focusVars == <<focusedElement, focusedIdentifier, lastFocused, highlighted, identifiersLit>>
shownVars == <<present, visible, mouseIn>>
menuVars == <<shownVars, focusVars, pointed, linkAnnotation, filterVars>>

NoMenu == "none"

\* An element is a kind and a position; the identifiers of a reference are in
\* rows, and the keys left and right run through them all.
None == <<"none", 0>>
NoIdentifier == <<0, 0>>
QuoteItems == {"quote"} \X (1 .. Quotes)
ReferenceItems == {"ref"} \X DOMAIN References
TopicItems == {"topic"} \X DOMAIN Topics
MediumItems == {"medium"} \X DOMAIN Media
CreditItems == ({"person"} \X DOMAIN Supports)
                 \cup ({"support"} \X {p \in DOMAIN Supports : Supports[p]})

MenuItems == [quotes |-> QuoteItems, references |-> ReferenceItems,
              filter |-> TopicItems \cup MediumItems, credits |-> CreditItems,
              link |-> {}]

ItemsOf(menu) == MenuItems[menu]
IsFilterItem(e) == e \in ItemsOf("filter")
CategoryOf(e) == IF e[1] = "topic" THEN Topics[e[2]] ELSE Media[e[2]]

MenusInit ==
  /\ FilterInit
  /\ present \in MenuBars
  /\ visible = {} /\ mouseIn = NoMenu
  /\ focusedElement = None /\ focusedIdentifier = NoIdentifier
  /\ lastFocused = [quote |-> None, reference |-> None, identifier |-> NoIdentifier,
                    category |-> None, topic |-> None, medium |-> None, credit |-> None]
  /\ highlighted = {} /\ identifiersLit = {}
  /\ pointed = FALSE
  /\ linkAnnotation = TRUE

-----------------------------------------------------------------------------
\* What a menu gives the focus to when it opens.
FirstCredit ==
  IF Supports[1] THEN <<"support", CHOOSE p \in DOMAIN Supports : Supports[p]
                                      /\ \A q \in 1 .. p - 1 : ~Supports[q]>>
  ELSE <<"person", 1>>

Or(last, first) == IF last = None THEN first ELSE last

Opened(menu) ==
  CASE menu = "quotes" -> [lastFocused EXCEPT !.quote = Or(@, <<"quote", 1>>)]
    [] menu = "references" ->
         IF lastFocused.reference = None \/ lastFocused.identifier = NoIdentifier
         THEN [lastFocused EXCEPT !.reference = <<"ref", 1>>, !.identifier = <<1, 1>>]
         ELSE lastFocused
    [] menu = "filter" -> [lastFocused EXCEPT !.category = Or(@, <<"topic", 1>>)]
    [] menu = "credits" -> [lastFocused EXCEPT !.credit = Or(@, FirstCredit)]
    [] menu = "link" -> lastFocused

FocusOf(menu, last) ==
  CASE menu = "quotes" -> last.quote
    [] menu = "references" -> last.reference
    [] menu = "filter" -> last.category
    [] menu = "credits" -> last.credit
    [] menu = "link" -> focusedElement

Hide(menu) ==
  /\ visible' = visible \ {menu}
  /\ highlighted' = highlighted \ {focusedElement}
  /\ identifiersLit' = identifiersLit \ {focusedIdentifier}
  /\ focusedElement' = None /\ focusedIdentifier' = NoIdentifier
  /\ UNCHANGED lastFocused

\* Every other menu goes.  The link menu takes no focus: it stays where it was.
Show(menu) ==
  /\ visible' = {menu}
  /\ lastFocused' = Opened(menu)
  /\ focusedElement' = FocusOf(menu, lastFocused')
  /\ highlighted' = (highlighted \ {focusedElement})
                      \cup (IF menu = "link" THEN {} ELSE {focusedElement'})
  /\ focusedIdentifier' = IF menu = "references" THEN lastFocused'.identifier
                          ELSE focusedIdentifier
  /\ identifiersLit' = (identifiersLit \ {focusedIdentifier})
                         \cup (IF menu = "references" THEN {focusedIdentifier'} ELSE {})

ToggleMenuVisibility(menu) == IF menu \in visible THEN Hide(menu) ELSE Show(menu)

\* The keys q, r, f, y and c, and a click on the link, which also copies it.
MenuKey(menu) ==
  /\ ToggleMenuVisibility(menu)
  /\ UNCHANGED <<present, mouseIn, pointed, linkAnnotation, filterVars>>

\* The key Y shows the link and selects its text.
SelectLinkKey ==
  /\ "link" \in present \ visible
  /\ Show("link")
  /\ UNCHANGED <<present, mouseIn, pointed, linkAnnotation, filterVars>>

\* handleMouseOverMenu
MouseEnterMenu(menu) ==
  /\ mouseIn = NoMenu
  /\ mouseIn' = menu
  /\ IF menu \in visible THEN UNCHANGED <<visible, focusVars>> ELSE Show(menu)
  /\ UNCHANGED <<present, pointed, linkAnnotation, filterVars>>

MouseLeaveMenu ==
  /\ mouseIn # NoMenu
  /\ mouseIn' = NoMenu
  /\ IF mouseIn \in visible THEN Hide(mouseIn) ELSE UNCHANGED <<visible, focusVars>>
  /\ UNCHANGED <<present, pointed, linkAnnotation, filterVars>>

-----------------------------------------------------------------------------
\* The mouse moves over an item of the menu shown.
\* The old highlight stays.
RefocusKeeps(from, to) ==
  /\ highlighted' = highlighted \cup {to}
  /\ focusedElement' = to

Refocus(from, to) ==
  /\ highlighted' = (highlighted \ {from}) \cup {to}
  /\ focusedElement' = to

MouseOverQuote(e) ==
  /\ e # lastFocused.quote
  /\ Refocus(focusedElement, e)
  /\ lastFocused' = [lastFocused EXCEPT !.quote = e]
  /\ UNCHANGED <<focusedIdentifier, identifiersLit, pointed>>

\* navigateFilter
MouseOverFilterItem(e) ==
  /\ e # lastFocused.category
  /\ Refocus(lastFocused.category, e)
  /\ lastFocused' = IF e[1] = "topic"
                    THEN [lastFocused EXCEPT !.topic = e, !.category = e]
                    ELSE [lastFocused EXCEPT !.medium = e, !.category = e]
  /\ UNCHANGED <<focusedIdentifier, identifiersLit, pointed>>

MouseOverCredit(e) ==
  /\ e # lastFocused.credit
  /\ Refocus(lastFocused.credit, e)
  /\ lastFocused' = [lastFocused EXCEPT !.credit = e]
  /\ UNCHANGED <<focusedIdentifier, identifiersLit, pointed>>

\* The identifier goes to a variable of another name, focusedIdentifer: the
\* one that Enter uses stays.
MouseOverReference(e) ==
  LET ours == lastFocused.identifier[1] = e[2]
      id == IF ours THEN lastFocused.identifier ELSE <<e[2], 1>>
  IN /\ Refocus(IF e # lastFocused.reference THEN focusedElement ELSE None, e)
     /\ lastFocused' = [lastFocused EXCEPT !.reference = e, !.identifier = id]
     /\ identifiersLit' = (IF ours THEN identifiersLit
                           ELSE identifiersLit \ {lastFocused.identifier}) \cup {id}
     /\ pointed' = TRUE
     /\ UNCHANGED focusedIdentifier

MouseOverItem(e) ==
  /\ mouseIn \in visible /\ e \in ItemsOf(mouseIn)
  /\ \/ mouseIn = "quotes" /\ MouseOverQuote(e)
     \/ mouseIn = "references" /\ MouseOverReference(e)
     \/ mouseIn = "filter" /\ MouseOverFilterItem(e)
     \/ mouseIn = "credits" /\ MouseOverCredit(e)
  /\ UNCHANGED <<shownVars, linkAnnotation, filterVars>>

\* An identifier of the reference the mouse is over.
MouseOverIdentifier(id) ==
  /\ "references" \in visible /\ mouseIn = "references" /\ pointed
  /\ id[1] = lastFocused.reference[2] /\ id # lastFocused.identifier
  /\ identifiersLit' = (identifiersLit \ {lastFocused.identifier}) \cup {id}
  /\ lastFocused' = [lastFocused EXCEPT !.identifier = id]
  /\ UNCHANGED <<shownVars, focusedElement, focusedIdentifier, highlighted, pointed,
                 linkAnnotation, filterVars>>

-----------------------------------------------------------------------------
\* The keys act on the element with the focus, even if its menu is hidden.
\* Up and down: by is -1 or 1.
Sibling(e, by) ==
  LET to == <<e[1], e[2] + by>>
  IN IF e[1] = "support" /\ to \notin CreditItems THEN <<"person", e[2] + by>> ELSE to

Moved(e) ==
  CASE e[1] = "quote" -> [lastFocused EXCEPT !.quote = e]
    [] e[1] = "ref" -> [lastFocused EXCEPT !.reference = e, !.identifier = <<e[2], 1>>]
    [] e[1] \in {"topic", "medium"} -> [lastFocused EXCEPT !.category = e]
    [] e[1] \in {"person", "support"} -> [lastFocused EXCEPT !.credit = e]

UpDownKey(by) ==
  \E to \in {Sibling(focusedElement, by)} :
    /\ \E menu \in present : {focusedElement, to} \subseteq ItemsOf(menu)
    /\ Refocus(focusedElement, to)
    /\ lastFocused' = Moved(to)
    /\ focusedIdentifier' = IF to[1] = "ref" THEN <<to[2], 1>> ELSE focusedIdentifier
    /\ identifiersLit' = IF to[1] = "ref"
                         THEN (identifiersLit \ {focusedIdentifier}) \cup {<<to[2], 1>>}
                         ELSE identifiersLit
    /\ UNCHANGED <<shownVars, pointed, linkAnnotation, filterVars>>

\* Left and right, among the identifiers of a reference.
NextIdentifier(by) ==
  /\ focusedElement \in ReferenceItems
  /\ \E id \in {<<focusedIdentifier[1], focusedIdentifier[2] + by>>} :
       /\ id[2] \in 1 .. References[id[1]]
       /\ identifiersLit' = (identifiersLit \ {focusedIdentifier}) \cup {id}
       /\ focusedIdentifier' = id
       /\ lastFocused' = [lastFocused EXCEPT !.identifier = id]
  /\ UNCHANGED <<focusedElement, highlighted>>

\* From the topics to the media and back, to where the focus was last.
OtherColumn(by) ==
  /\ \/ /\ by = -1 /\ focusedElement \in MediumItems
        /\ lastFocused' = [lastFocused EXCEPT !.medium = focusedElement,
                                              !.topic = Or(@, <<"topic", 1>>),
                                              !.category = Or(lastFocused.topic, <<"topic", 1>>)]
     \/ /\ by = 1 /\ focusedElement \in TopicItems
        /\ lastFocused' = [lastFocused EXCEPT !.topic = focusedElement,
                                              !.medium = Or(@, <<"medium", 1>>),
                                              !.category = Or(lastFocused.medium, <<"medium", 1>>)]
  /\ Refocus(focusedElement, lastFocused'.category)
  /\ UNCHANGED <<focusedIdentifier, identifiersLit>>

\* From a person to the support link and back.
OtherCredit(by) ==
  \E to \in {<<IF by = 1 THEN "support" ELSE "person", focusedElement[2]>>} :
    /\ {focusedElement, to} \subseteq CreditItems /\ to # focusedElement
    /\ Refocus(focusedElement, to)
    /\ lastFocused' = [lastFocused EXCEPT !.credit = to]
    /\ UNCHANGED <<focusedIdentifier, identifiersLit>>

LeftRightKey(by) ==
  /\ NextIdentifier(by) \/ OtherColumn(by) \/ OtherCredit(by)
  /\ UNCHANGED <<shownVars, pointed, linkAnnotation, filterVars>>

\* x and space go down, X and shift with space go up.
ToggleKey(by) ==
  /\ IsFilterItem(focusedElement)
  /\ ToggleItem(CategoryOf(focusedElement))
  /\ \E to \in {Sibling(focusedElement, by)} :
       IF IsFilterItem(to)
       THEN /\ Refocus(focusedElement, to)
            /\ lastFocused' = IF to[1] = "topic"
                              THEN [lastFocused EXCEPT !.topic = to, !.category = to]
                              ELSE [lastFocused EXCEPT !.medium = to, !.category = to]
       ELSE UNCHANGED <<focusedElement, highlighted, lastFocused>>
  /\ UNCHANGED <<shownVars, focusedIdentifier, identifiersLit, pointed, linkAnnotation>>

InvertKey ==
  /\ IsFilterItem(focusedElement)
  /\ InvertFilter(IF focusedElement[1] = "topic" THEN Topics ELSE Media)
  /\ UNCHANGED <<shownVars, focusVars, pointed, linkAnnotation>>

ResetKey ==
  /\ "filter" \in present
  /\ ResetFilter
  /\ UNCHANGED <<shownVars, focusVars, pointed, linkAnnotation>>

ToggleLinkMode == linkAnnotation' = ~linkAnnotation

\* toggleFilterOrLinkMode, the key z.
ModeKey ==
  /\ \/ "filter" \in visible /\ ToggleFilterMode /\ UNCHANGED linkAnnotation
     \/ "link" \in visible /\ ToggleLinkMode /\ UNCHANGED filterVars
  /\ UNCHANGED <<shownVars, focusVars, pointed>>

\* Where Enter goes: the time of a quote or of an identifier, or a link.
EnterTarget ==
  IF focusedElement \in ReferenceItems THEN <<"timecode", focusedIdentifier>>
  ELSE IF focusedElement \in QuoteItems \cup CreditItems THEN focusedElement ELSE None

MenusNext ==
  \/ \E menu \in present : MenuKey(menu) \/ MouseEnterMenu(menu)
  \/ SelectLinkKey
  \/ MouseLeaveMenu
  \/ \E menu \in present : \E e \in ItemsOf(menu) : MouseOverItem(e)
  \/ \E r \in DOMAIN References : \E k \in 1 .. References[r] : MouseOverIdentifier(<<r, k>>)
  \/ \E by \in {-1, 1} : UpDownKey(by) \/ LeftRightKey(by) \/ ToggleKey(by)
  \/ InvertKey
  \/ ResetKey
  \/ ModeKey

MenusSpec == MenusInit /\ [][MenusNext]_menuVars

-----------------------------------------------------------------------------
(***************************************************************************)
(* One menu is open at most, one element has the highlight at most, and it *)
(* is the one the keys act on: the focus is in the menu that is shown.     *)
(* The link menu takes no focus of its own, and so leaves the focus in the *)
(* menu it hides.  As long as the mouse has not been over a reference the  *)
(* identifier highlighted is the one Enter goes to.                        *)
(***************************************************************************)
FocusIsShown ==
  /\ Cardinality(visible) <= 1
  /\ Cardinality(highlighted) <= 1
  /\ visible = {} => focusedElement = None /\ highlighted = {}
  /\ \A menu \in visible \ {"link"} :
       focusedElement \in ItemsOf(menu) /\ highlighted = {focusedElement}
  /\ ~pointed /\ visible = {"references"} =>
       /\ \A id \in identifiersLit : EnterTarget = <<"timecode", id>>
       /\ identifiersLit # {} /\ focusedIdentifier[1] = focusedElement[2]
=============================================================================
