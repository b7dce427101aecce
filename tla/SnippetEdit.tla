----------------------------- MODULE SnippetEdit -----------------------------
(***************************************************************************)
(* The form that writes and edits a snippet: snippetedit.ts.  It keeps in  *)
(* step what the form sends (the text, a file, the flag that removes the   *)
(* attachment, the projects) and what the user is shown.                   *)
(***************************************************************************)
EXTENDS Integers, Sequences, FiniteSets, SequencesExt

CONSTANTS
  Texts,            \* descriptions, trimmed; Blank is one
  LinkTexts,        \* those that hold a URL
  Attachments,      \* files the user has, as strings
  BigAttachments,   \* those over maxFilesize
  AllProjects,      \* project ids
  MyProjects,       \* availableProjects: those of who edits
  MaxDepth          \* elements of the form one inside the other

Blank == "blank"
Nothing == "nothing"
Asset == "asset"       \* a file the site keeps
Video == "video"       \* an embeddable url, shown as a video
HiddenUrl == "url"     \* an embeddable url without a video's id, which is not shown

ASSUME SnippetAssumption ==
  /\ LinkTexts \subseteq Texts \ {Blank} /\ Blank \in Texts
  /\ BigAttachments \subseteq Attachments
  /\ Attachments \cap {Nothing, Asset, Video, HiddenUrl} = {}
  /\ MyProjects \subseteq AllProjects /\ IsFiniteSet(AllProjects)

VARIABLES
  snippet,        \* what the form was opened with
  description,    \* text.value, trimmed
  snippetFile,    \* the file input
  snippetRemove,  \* removeAttachment.value is "true"
  attachmentChanged, hasAttachment,
  shownFile,      \* what previewContent shows, Nothing: the upload box is shown
  restore,        \* a link that brings the original back is shown
  saveDisabled,
  projects,       \* the projects listed, in order
  offered,        \* the projects the selector offers
  dialog,         \* the file dialog is open
  ghost,          \* the dialog was cancelled and the browser emptied the input
  enterCounter, highlight,   \* of a file dragged over the form
  outcome         \* "open", "cancelled", "unchanged", "deleted" or what was sent

snippetVars ==
  <<snippet, description, snippetFile, snippetRemove, attachmentChanged, hasAttachment,
    shownFile, restore, saveDisabled, projects, offered, dialog, ghost, enterCounter,
    highlight, outcome>>

attachmentVars ==
  <<snippetFile, snippetRemove, attachmentChanged, hasAttachment, shownFile, restore, ghost>>
projectVars == <<projects, offered>>
dragVars == <<enterCounter, highlight>>

Pending == outcome.kind = "open"

\* The first medium of a snippet: the asset, or else the url's video.  It is the
\* only one that the form takes from the page.
FirstMedium(asset, url) ==
  IF asset # Nothing THEN asset ELSE IF url = Video THEN Video ELSE Nothing

\* validate
SaveDisabled(text, has, f) == (text = Blank /\ ~has) \/ f \in BigAttachments

\* setPreview
SetPreview(el) ==
  /\ shownFile' = el
  /\ restore' = (snippet.attachment # Nothing /\ el # snippet.attachment)

SetFile(f) ==
  /\ snippetFile' = f
  /\ ghost' = FALSE
  /\ attachmentChanged' = TRUE
  /\ snippetRemove' = FALSE
  /\ hasAttachment' = TRUE
  /\ SetPreview(f)
  /\ saveDisabled' = SaveDisabled(description, TRUE, f)

ClearAttachment(restoreOriginal) ==
  LET had == snippet.attachment # Nothing
      back == had /\ restoreOriginal
  IN /\ snippetFile' = Nothing
     /\ ghost' = FALSE
     /\ attachmentChanged' = (had /\ ~back)
     /\ snippetRemove' = (had /\ ~back)
     /\ hasAttachment' = back
     /\ SetPreview(IF back THEN snippet.attachment ELSE Nothing)
     /\ saveDisabled' = SaveDisabled(description, back, Nothing)

\* updateProjectSelector
Offered(list) == MyProjects \ ToSet(list)

\* makeSnippetEdit: a new snippet, or editTimelineSnippet.  A project that is
\* not one of availableProjects is not listed.
SnippetInit ==
  /\ \E existing \in BOOLEAN, t \in Texts, asset \in {Nothing, Asset},
        url \in {Nothing, Video, HiddenUrl}, ps \in SUBSET AllProjects, sticky \in SUBSET AllProjects :
       /\ Cardinality(sticky) <= 1 /\ sticky \subseteq ps /\ (existing \/ ps = sticky)
       /\ snippet = [existing |-> existing, text |-> t, asset |-> asset, url |-> url,
                     attachment |-> FirstMedium(asset, url), projects |-> ps,
                     sticky |-> sticky]
  /\ IF snippet.existing
     THEN snippet.text # Blank \/ snippet.attachment # Nothing
     ELSE snippet.text = Blank /\ snippet.asset = Nothing /\ snippet.url = Nothing
  /\ description = snippet.text
  /\ snippetFile = Nothing /\ snippetRemove = FALSE
  /\ attachmentChanged = FALSE
  /\ hasAttachment = (snippet.attachment # Nothing)
  /\ shownFile = snippet.attachment
  /\ restore = FALSE
  /\ saveDisabled = SaveDisabled(snippet.text, hasAttachment, Nothing)
  /\ projects = SetToSeq(snippet.projects \cap MyProjects)
  /\ offered = Offered(projects)
  /\ dialog = FALSE /\ ghost = FALSE
  /\ enterCounter = 0 /\ highlight = FALSE
  /\ outcome = [kind |-> "open"]

TypeText(t) ==
  /\ Pending /\ ~dialog
  /\ t # description
  /\ description' = t
  /\ saveDisabled' = SaveDisabled(t, hasAttachment, snippetFile)
  /\ UNCHANGED <<snippet, attachmentVars, projectVars, dragVars, dialog, outcome>>

\* A file is dropped on the form, or pasted into the text.
DropFile(f) ==
  /\ Pending /\ enterCounter > 0
  /\ SetFile(f)
  /\ enterCounter' = 0 /\ highlight' = FALSE
  /\ UNCHANGED <<snippet, description, projectVars, dialog, outcome>>

PasteFile(f) ==
  /\ Pending /\ ~dialog
  /\ SetFile(f)
  /\ UNCHANGED <<snippet, description, projectVars, dragVars, dialog, outcome>>

DragEnter(droppable) ==
  /\ Pending /\ ~dialog
  /\ enterCounter < MaxDepth
  /\ enterCounter' = enterCounter + 1
  /\ highlight' = (highlight \/ droppable)
  /\ UNCHANGED <<snippet, description, attachmentVars, saveDisabled, projectVars,
                 dialog, outcome>>

DragLeave ==
  /\ Pending /\ enterCounter > 0
  /\ enterCounter' = enterCounter - 1
  /\ highlight' = (highlight /\ enterCounter > 1)
  /\ UNCHANGED <<snippet, description, attachmentVars, saveDisabled, projectVars,
                 dialog, outcome>>

\* Something without a file is dropped.
DropNothing ==
  /\ Pending /\ enterCounter > 0
  /\ enterCounter' = 0 /\ highlight' = FALSE
  /\ UNCHANGED <<snippet, description, attachmentVars, saveDisabled, projectVars,
                 dialog, outcome>>

\* uploadLink and replaceLink
OpenFileDialog ==
  /\ Pending /\ ~dialog /\ enterCounter = 0
  /\ dialog' = TRUE
  /\ UNCHANGED <<snippet, description, attachmentVars, saveDisabled, projectVars,
                 dragVars, outcome>>

ChooseFile(f) ==
  /\ dialog
  /\ dialog' = FALSE
  /\ SetFile(f)
  /\ UNCHANGED <<snippet, description, projectVars, dragVars, outcome>>

\* The change event of an emptied input does nothing.
CancelFileDialog ==
  /\ dialog
  /\ dialog' = FALSE
  /\ \/ UNCHANGED <<snippetFile, ghost>>
     \/ snippetFile # Nothing /\ snippetFile' = Nothing /\ ghost' = TRUE
  /\ UNCHANGED <<snippet, description, snippetRemove, attachmentChanged, hasAttachment,
                 shownFile, restore, saveDisabled, projectVars, dragVars, outcome>>

\* removeLink; resetLink and uploadResetLink.
RemoveAttachment ==
  /\ Pending /\ ~dialog
  /\ shownFile # Nothing
  /\ ClearAttachment(FALSE)
  /\ UNCHANGED <<snippet, description, projectVars, dragVars, dialog, outcome>>

RestoreAttachment ==
  /\ Pending /\ ~dialog
  /\ restore
  /\ ClearAttachment(TRUE)
  /\ UNCHANGED <<snippet, description, projectVars, dragVars, dialog, outcome>>

SetProjects(list) == projects' = list /\ offered' = Offered(list)

AddProject(p) ==
  /\ Pending /\ ~dialog
  /\ p \in offered
  /\ SetProjects(Append(projects, p))
  /\ UNCHANGED <<snippet, description, attachmentVars, saveDisabled, dragVars, dialog,
                 outcome>>

\* The sticky project has no button that removes it.
RemoveProject(i) ==
  /\ Pending /\ ~dialog
  /\ projects[i] \notin snippet.sticky
  /\ SetProjects(RemoveAt(projects, i))
  /\ UNCHANGED <<snippet, description, attachmentVars, saveDisabled, dragVars, dialog,
                 outcome>>

ProjectsChanged ==
  \/ Cardinality(snippet.projects) # Len(projects)
  \/ snippet.projects \ ToSet(projects) # {}

Close(result) ==
  /\ Pending /\ ~dialog
  /\ outcome' = result
  /\ UNCHANGED <<snippet, description, attachmentVars, saveDisabled, projectVars, dragVars,
                 dialog>>

CancelEdit == snippet.existing /\ Close([kind |-> "cancelled"])

\* An edit that changed nothing is not sent.
Save ==
  /\ ~saveDisabled
  /\ IF /\ snippet.existing
        /\ ~attachmentChanged
        /\ snippet.text = description
        /\ ~ProjectsChanged
     THEN Close([kind |-> "unchanged"])
     ELSE Close([kind |-> "sent", text |-> description, file |-> snippetFile,
                 remove |-> snippetRemove, projects |-> projects])

DeleteSnippet == snippet.existing /\ Close([kind |-> "deleted"])

SnippetNext ==
  \/ \E t \in Texts : TypeText(t)
  \/ \E f \in Attachments : DropFile(f) \/ PasteFile(f) \/ ChooseFile(f)
  \/ \E droppable \in BOOLEAN : DragEnter(droppable)
  \/ DragLeave
  \/ DropNothing
  \/ OpenFileDialog
  \/ CancelFileDialog
  \/ RemoveAttachment
  \/ RestoreAttachment
  \/ \E p \in AllProjects : AddProject(p)
  \/ \E i \in DOMAIN projects : RemoveProject(i)
  \/ CancelEdit
  \/ Save
  \/ DeleteSnippet

SnippetSpec == SnippetInit /\ [][SnippetNext]_snippetVars

-----------------------------------------------------------------------------
\* What SnippetEditSubmit (website/snippet.go) stores of a form: a file takes the
\* place of the asset and leaves the url.
StoredAttachment(s) ==
  [asset |-> IF s.file # Nothing THEN s.file ELSE IF s.remove THEN Nothing ELSE snippet.asset,
   url |-> IF s.remove THEN Nothing ELSE snippet.url]

NoAttachment == [asset |-> Nothing, url |-> Nothing]

\* What the first URL of a text that can be embedded leads to; a file is fetched.
EmbedScan ==
  {NoAttachment, [asset |-> Asset, url |-> Nothing]}
    \cup {[asset |-> Nothing, url |-> u] : u \in {Video, HiddenUrl}}

\* The links of an edited text are looked at when nothing else is stored.
SavedAttachments(s) ==
  IF StoredAttachment(s) = NoAttachment /\ s.text \in LinkTexts /\ s.text # snippet.text
  THEN EmbedScan
  ELSE {StoredAttachment(s)}

(***************************************************************************)
(* What Save does is what the form shows: the attachment shown is the      *)
(* first that the site then has; behind it there is at most the url of     *)
(* before, and not one the user removed; and where the form shows none     *)
(* there is none, unless the text was edited and holds a URL.  The site    *)
(* does not refuse the snippet for having neither text nor attachment, or  *)
(* a file over the limit; and a Save that sends nothing loses nothing.     *)
(* Not so when a cancelled dialog emptied the file input.                  *)
(***************************************************************************)
KeepsShown(kept) ==
  /\ FirstMedium(kept.asset, kept.url) = shownFile
  /\ kept.url \in {Nothing, snippet.url}
  /\ shownFile = Nothing /\ snippet.attachment # Nothing => kept = NoAttachment

SaveSendsShown ==
  CASE outcome.kind = "sent" ->
         /\ outcome.file \notin BigAttachments
         /\ \/ ghost
            \/ \A kept \in SavedAttachments(outcome) :
                 \/ KeepsShown(kept)
                 \/ /\ shownFile = Nothing
                    /\ outcome.text \in LinkTexts /\ outcome.text # snippet.text
         /\ ghost \/ outcome.text # Blank \/ shownFile # Nothing
         /\ IsInjective(outcome.projects)
         /\ snippet.sticky \cap MyProjects \subseteq ToSet(outcome.projects)
    [] outcome.kind = "unchanged" ->
         /\ shownFile = snippet.attachment
         /\ description = snippet.text
         /\ ToSet(projects) = snippet.projects
    [] OTHER -> highlight => enterCounter > 0
=============================================================================
