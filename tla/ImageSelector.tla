---------------------------- MODULE ImageSelector ----------------------------
(***************************************************************************)
(* The field for a picture on the settings pages: lib/image_selector.ts.   *)
(* It keeps three things in step: the file the form sends, the flag that   *)
(* removes the picture, and the picture shown.                             *)
(***************************************************************************)
EXTENDS FiniteSets

CONSTANTS
  Pictures,    \* files the user has, as strings
  BigPictures  \* those over maxFileSize

NoPicture == "none"

ASSUME ImageAssumption == BigPictures \subseteq Pictures /\ NoPicture \notin Pictures

VARIABLES
  original,    \* the picture the site has, or NoPicture
  file,        \* imageInput's file, or NoPicture
  removeFlag,  \* the value of remove_<name> is "true"
  url,         \* what is shown: the original, a file, or NoPicture (the default)
  card,        \* the picture in the preview of the project's card
  invalid,     \* imageInput's custom validity: the form is not sent
  links,       \* the links shown: a subset of {"reset", "remove"}
  picking,     \* the file dialog is open
  emptied,     \* the dialog was cancelled and the browser emptied the input
  sent         \* what the form sent, or NotSent

imageVars ==
  <<original, file, removeFlag, url, card, invalid, links, picking, emptied, sent>>

NotSent == [file |-> "nothing", remove |-> FALSE]

\* updatePreview; the pages give no default picture.
Links(shown) ==
  (IF original \notin {NoPicture, shown} THEN {"reset"} ELSE {}) \cup
  (IF shown # NoPicture THEN {"remove"} ELSE {})

\* onUpdate: updateCardPreview, of project_edit.ts.
UpdateCardPreview(shown) == card' = shown

\* setImageUrl and updatePreview.
ShowImage(shown) == url' = shown /\ UpdateCardPreview(shown) /\ links' = Links(shown)

ImageInit ==
  /\ original \in {NoPicture, "original"}
  /\ file = NoPicture
  /\ removeFlag = FALSE
  /\ url = original /\ card = original
  /\ links = Links(original)
  /\ invalid = FALSE
  /\ picking = FALSE
  /\ emptied = FALSE
  /\ sent = NotSent

OpenImageInput ==
  /\ sent = NotSent /\ ~picking
  /\ picking' = TRUE
  /\ UNCHANGED <<original, file, removeFlag, url, card, invalid, links, emptied, sent>>

\* The change event with a file: handleNewImageFile.  A file over the limit is
\* shown, and keeps the form from being sent.
PickImage(f) ==
  /\ picking
  /\ picking' = FALSE
  /\ file' = f
  /\ emptied' = FALSE
  /\ invalid' = (f \in BigPictures)
  /\ removeFlag' = FALSE
  /\ ShowImage(f)
  /\ UNCHANGED <<original, sent>>

\* The dialog is cancelled.  A browser may leave the input as it is, or empty
\* it: the change event then has no file and its handler does nothing.
CancelPicking ==
  /\ picking
  /\ picking' = FALSE
  /\ \/ UNCHANGED <<file, emptied>>
     \/ file # NoPicture /\ file' = NoPicture /\ emptied' = TRUE
  /\ UNCHANGED <<original, removeFlag, url, card, invalid, links, sent>>

\* The input keeps its file.
ClearFileKeeps ==
  /\ invalid' = FALSE
  /\ emptied' = FALSE
  /\ UNCHANGED file

ClearFile ==
  /\ invalid' = FALSE
  /\ file' = NoPicture
  /\ emptied' = FALSE

RemoveImage ==
  /\ sent = NotSent /\ ~picking
  /\ "remove" \in links
  /\ ClearFile
  /\ removeFlag' = TRUE
  /\ ShowImage(NoPicture)
  /\ UNCHANGED <<original, picking, sent>>

ResetImage ==
  /\ sent = NotSent /\ ~picking
  /\ "reset" \in links
  /\ ClearFile
  /\ removeFlag' = FALSE
  /\ ShowImage(original)
  /\ UNCHANGED <<original, picking, sent>>

SubmitImage ==
  /\ sent = NotSent /\ ~picking
  /\ ~invalid
  /\ sent' = [file |-> file, remove |-> removeFlag]
  /\ UNCHANGED <<original, file, removeFlag, url, card, invalid, links, picking, emptied>>

ImageNext ==
  \/ OpenImageInput
  \/ \E f \in Pictures : PickImage(f)
  \/ CancelPicking
  \/ RemoveImage
  \/ ResetImage
  \/ SubmitImage

ImageSpec == ImageInit /\ [][ImageNext]_imageVars

-----------------------------------------------------------------------------
\* What the site has once it took the form: a file replaces the picture, the
\* flag removes it (website/projects.go, website/user.go).
Saved(s) ==
  IF s.file # NoPicture THEN s.file ELSE IF s.remove THEN NoPicture ELSE original

(***************************************************************************)
(* The picture shown when the form is sent is the one the site then has,   *)
(* whatever was picked, removed and reset before, and the card shows it    *)
(* too; a file over the limit is never sent.  Not so when a cancelled      *)
(* dialog emptied the input: its handler ignores the event, and the        *)
(* picture it no longer holds stays on the page.                           *)
(***************************************************************************)
ShownIsSaved ==
  /\ card = url
  /\ sent # NotSent =>
       (Saved(sent) = url \/ emptied) /\ sent.file \notin BigPictures
=============================================================================
