---------------------------- MODULE MarkdownUpload ----------------------------
(***************************************************************************)
(* The text field of the editor pages and the files uploaded into it:      *)
(* lib/markdown_upload.ts, editor.ts and the autosave of                   *)
(* lib/markdown_previews.ts.  The browser runs one handler at a time, so   *)
(* each handler is one action, with every function it calls.               *)
(*                                                                         *)
(* The text is a sequence of characters, and a character a triple          *)
(* <<kind, upload number, position>>: a placeholder, which shows the       *)
(* file's name, is two characters long, a link three, an error message     *)
(* one, so that what the code counts in characters is counted here too.    *)
(* Positions run from 0, as in JavaScript: position i is between Text[i]   *)
(* and Text[i + 1].                                                        *)
(***************************************************************************)
EXTENDS Integers, Sequences, FiniteSets, SequencesExt

CONSTANTS
  MaxFiles,     \* files the user drops, pastes or picks, at most
  MaxEdits,     \* other changes the user makes to the text or the selection, at most
  MaxText       \* length beyond which the user types nothing more

ASSUME UploadAssumption ==
  /\ MaxFiles \in Nat \ {0}
  /\ MaxEdits \in Nat
  /\ MaxText \in Nat

VARIABLES
  text,           \* eText.value
  selStart,       \* eText.selectionStart
  selEnd,         \* eText.selectionEnd
  names,          \* the files of the uploads so far: fileCounter is its length
  uploadQueue,    \* uploads that wait, first the next
  currentUpload,  \* the upload being sent, or NoUpload
  submitDisabled, \* the submit buttons are disabled
  draft,          \* what localStorage holds of the text, or NoDraft
  posted,         \* the text of the last call of doMarkdown
  submitted,      \* the form was sent and the page left
  edits           \* changes of the text or the selection by the user, to bound them

uploadVars ==
  <<text, selStart, selEnd, names, uploadQueue, currentUpload,
    submitDisabled, draft, posted, submitted, edits>>

NoUpload == [number |-> 0, name |-> "none"]
NoDraft == <<<<"nodraft", 0, 0>>>>

\* What matters of a file's name: header is one that cannot be put into the
\* Hmn-Upload-Filename header (base64EncArr breaks its lines with \r\n after 57
\* bytes); dollar is one with "$&" in it, which String.replace takes for the
\* text it replaces.
Names == {"plain", "header", "dollar"}

\* What a file may be: too big for the site, or a file with such a name.
Files == Names \cup {"too big"}

Char(kind) == <<<<kind, 0, 0>>>>
NewLine == Char("newline")
Placeholder(u) == <<<<u.name, u.number, 1>>, <<u.name, u.number, 2>>>>
Link(u) == [i \in 1 .. 3 |-> <<"link", u.number, i>>]
Failure(u) == <<<<"failure", u.number, 1>>>>

Left(t, i) == SubSeq(t, 1, i)
Right(t, i) == SubSeq(t, i + 1, Len(t))
Between(t, i, j) == SubSeq(t, i + 1, j)

\* indexOf, or -1.
IndexIn(s, t) ==
  LET found == {i \in 0 .. Len(t) - Len(s) : Between(t, i, i + Len(s)) = s}
  IN  IF found = {} THEN -1 ELSE CHOOSE i \in found : \A j \in found : i <= j

Shows(t, s) == IndexIn(s, t) # -1

PendingUploads == {uploadQueue[i] : i \in DOMAIN uploadQueue} \cup
           (IF currentUpload = NoUpload THEN {} ELSE {currentUpload})

(***************************************************************************)
(* The text and the selection once newString replaced upload u's           *)
(* placeholder in t, or was put at its end when the user broke it.         *)
(***************************************************************************)
Replaced(t, s, e, u, newString) ==
  LET old == Placeholder(u)
      found == IndexIn(old, t)
      at == IF found = -1 THEN Len(t) ELSE found
      inserted == IF u.name = "dollar" /\ newString = Link(u)
                    THEN Left(newString, 1) \o old \o Right(newString, 1)
                    ELSE newString
      t2 == IF found = -1
              THEN t \o NewLine \o newString
              ELSE Left(t, at) \o inserted \o Right(t, at + Len(old))
      intersects == s < at + Len(old) /\ at < e
      fullyInside == at <= s /\ e <= at + Len(old)
      difference == Len(newString) - Len(old)
      Moved(p) == IF p >= at + Len(old) THEN p + difference ELSE p
  IN  IF (fullyInside /\ s = e) \/ (intersects /\ ~fullyInside)
        THEN [text |-> t2, start |-> at + Len(newString), end |-> at + Len(newString)]
        ELSE [text |-> t2, start |-> Moved(s), end |-> Moved(e)]

(***************************************************************************)
(* uploadNext on the queue q: the uploads whose header cannot be set fail  *)
(* at once, the first other one is sent, and with none left the submit     *)
(* buttons come back.  It returns what the queue, the text and the current *)
(* upload become.                                                          *)
(***************************************************************************)
Failing(p, u) == Replaced(p.text, p.start, p.end, u, Failure(u))

\* The page once the first uploads of q have failed.
Failed(q, page) ==
  LET failed[i \in 0 .. Len(q)] == IF i = 0 THEN page ELSE Failing(failed[i - 1], q[i])
  IN failed

\* How many uploads of q fail, before one that can be sent.
Bad(q) ==
  Min({n \in 0 .. Len(q) : n < Len(q) => q[n + 1].name # "header"})

UploadNext(q, page) ==
  LET rest == Right(q, Bad(q))
  IN  [page |-> Failed(q, page)[Bad(q)],
       queue |-> IF rest = <<>> THEN <<>> ELSE Tail(rest),
       current |-> IF rest = <<>> THEN NoUpload ELSE Head(rest),
       disabled |-> rest # <<>>]

\* After a handler that leaves the page with this text, this queue and no upload
\* under way, the handler having called doMarkdown and uploadNext.
Continue(q, page) ==
  \E next \in {UploadNext(q, page)} :
    /\ text' = next.page.text
    /\ selStart' = next.page.start
    /\ selEnd' = next.page.end
    /\ posted' = next.page.text
    /\ uploadQueue' = next.queue
    /\ currentUpload' = next.current
    /\ submitDisabled' = next.disabled

(***************************************************************************)
(* importUserFiles, for a drop, a paste or the file input.                 *)
(***************************************************************************)
\* The number of the next upload, which starts again with every drop.
NextNumberAgain(taken) == Len(taken.uploads) + 1

NextNumber(taken) == Len(names) + Len(taken.uploads) + 1

\* One turn of the loop over the files.
TakeFile(taken, f) ==
  LET u == [number |-> NextNumber(taken), name |-> f]
  IN  IF f = "too big"
        THEN [taken EXCEPT !.insert = @ \o Char("too big") \o NewLine]
        ELSE [insert |-> taken.insert \o Placeholder(u) \o NewLine,
              uploads |-> Append(taken.uploads, u)]

\* What is inserted for the files, and the uploads they become.
Taken(files) ==
  LET before == Left(text, selStart)
      onALine == before # <<>> /\ Last(before) # NewLine[1]
      taken[i \in 0 .. Len(files)] ==
        IF i = 0 THEN [insert |-> IF onALine THEN NewLine ELSE <<>>, uploads |-> <<>>]
        ELSE TakeFile(taken[i - 1], files[i])
  IN  taken[Len(files)]

ImportUserFiles(files) ==
  \E taken \in {Taken(files)} :
  LET uploads == taken.uploads
      caret == selStart + Len(taken.insert)
      page == [text |-> Left(text, selStart) \o taken.insert \o Right(text, selEnd),
               start |-> caret, end |-> caret]
      queue == uploadQueue \o uploads
  IN  /\ ~submitted
      /\ Len(text) <= MaxText
      /\ Len(names) + Len(uploads) <= MaxFiles
      /\ names' = names \o [i \in DOMAIN uploads |-> uploads[i].name]
      /\ IF currentUpload = NoUpload
           THEN Continue(queue, page)
           ELSE /\ text' = page.text
                /\ selStart' = page.start
                /\ selEnd' = page.end
                /\ posted' = page.text
                /\ uploadQueue' = queue
                /\ UNCHANGED <<currentUpload, submitDisabled>>
      /\ UNCHANGED <<draft, submitted, edits>>

\* uploadDone, on the loadend event of the request: the site took the file, or
\* refused it, or never answered.
UploadDone ==
  /\ ~submitted
  /\ currentUpload # NoUpload
  /\ \E answer \in {Link(currentUpload), Failure(currentUpload)} :
       \E page \in {Replaced(text, selStart, selEnd, currentUpload, answer)} :
         Continue(uploadQueue, page)
  /\ UNCHANGED <<names, draft, submitted, edits>>

(***************************************************************************)
(* The user.  A change the browser makes fires an input event, which saves *)
(* the draft and renders the text; a change a handler makes does neither,  *)
(* unless the handler calls doMarkdown.                                    *)
(***************************************************************************)
Edited(newText, caret) ==
  /\ ~submitted
  /\ edits < MaxEdits
  /\ edits' = edits + 1
  /\ text' = newText
  /\ selStart' = caret
  /\ selEnd' = caret
  /\ posted' = newText
  /\ UNCHANGED <<names, uploadQueue, currentUpload, submitDisabled, submitted>>

Type ==
  /\ Len(text) <= MaxText
  /\ Edited(Left(text, selStart) \o Char("word") \o Right(text, selEnd), selStart + 1)
  /\ draft' = text'

DeleteText ==
  /\ selStart < selEnd
  /\ Edited(Left(text, selStart) \o Right(text, selEnd), selStart)
  /\ draft' = text'

\* Ctrl+K, Ctrl+B, Ctrl+I: the selection between two markers, or an empty pair,
\* and the caret before the closing one; a link's caret is inside "]( )".
Format(link) ==
  LET selected == Between(text, selStart, selEnd)
      close == IF link THEN Char("](") \o Char(")") ELSE Char("mark")
      caret == IF link /\ selected # <<>> THEN selEnd + 2 ELSE selEnd + 1
  IN  /\ Len(text) <= MaxText
      /\ Edited(Left(text, selStart) \o Char("mark") \o selected \o close
                  \o Right(text, selEnd), caret)
      /\ UNCHANGED draft

\* Pasting an address over selected text makes a link of it.
PasteAddress ==
  /\ selStart < selEnd
  /\ Len(text) <= MaxText
  /\ Edited(Left(text, selStart) \o Char("mark") \o Between(text, selStart, selEnd)
              \o Char("](url)") \o Right(text, selEnd), selEnd + 2)
  /\ UNCHANGED draft

Select(i, j) ==
  /\ ~submitted
  /\ edits < MaxEdits
  /\ <<i, j>> # <<selStart, selEnd>>
  /\ edits' = edits + 1
  /\ selStart' = i
  /\ selEnd' = j
  /\ UNCHANGED <<text, names, uploadQueue, currentUpload, submitDisabled,
                 draft, posted, submitted>>

\* The form's submit event: the draft goes, whatever becomes of the request.
Submit ==
  /\ ~submitted
  /\ ~submitDisabled
  /\ submitted' = TRUE
  /\ draft' = NoDraft
  /\ UNCHANGED <<text, selStart, selEnd, names, uploadQueue, currentUpload,
                 submitDisabled, posted, edits>>

\* The page opens: with the text the site sends, or, when it sends none, with
\* the draft of an earlier visit, and renders it.  The caret is at the start.
UploadInit ==
  \E sent \in {<<>>, Char("word")}, saved \in {NoDraft, Char("word")} :
    /\ text = IF sent = <<>> /\ saved # NoDraft THEN saved ELSE sent
    /\ draft = saved
    /\ posted = text
    /\ selStart = 0 /\ selEnd = 0
    /\ names = <<>>
    /\ uploadQueue = <<>>
    /\ currentUpload = NoUpload
    /\ submitDisabled = FALSE
    /\ submitted = FALSE
    /\ edits = 0

UploadNextStep ==
  \/ \E files \in {<<f>> : f \in Files} \cup {<<f, g>> : f, g \in Files} :
       ImportUserFiles(files)
  \/ UploadDone
  \/ Type
  \/ DeleteText
  \/ \E link \in BOOLEAN : Format(link)
  \/ PasteAddress
  \/ \E i, j \in 0 .. Len(text) : i <= j /\ Select(i, j)
  \/ Submit

UploadSpec == UploadInit /\ [][UploadNextStep]_uploadVars

-----------------------------------------------------------------------------
(***************************************************************************)
(* An upload that is over, by its answer or because it could not be sent,  *)
(* has left its link or its error in the text and its placeholder nowhere, *)
(* and took no other upload's placeholder with it; the form was not sent   *)
(* before, and waits only while an upload is under way, which it is as     *)
(* long as one is queued; the preview knows the text.  A file with "$&" in *)
(* its name is the exception: its link brings the placeholder back.        *)
(***************************************************************************)
UploadsReplaced ==
  [][/\ \A n \in DOMAIN names' :
          LET u == [number |-> n, name |-> names'[n]]
          IN  /\ u \notin PendingUploads' /\ (n \notin DOMAIN names \/ u \in PendingUploads)
              /\ u.name # "dollar"
              => /\ ~Shows(text', Placeholder(u))
                 /\ Shows(text', Link(u)) \/ Shows(text', Failure(u))
     /\ \A v \in PendingUploads \cap PendingUploads' :
          currentUpload' # currentUpload /\ Shows(text, Placeholder(v)) =>
            Shows(text', Placeholder(v))
     /\ submitted' => PendingUploads' = {}
     /\ submitDisabled' <=> currentUpload' # NoUpload
     /\ currentUpload' = NoUpload => uploadQueue' = <<>>
     /\ posted' = text']_uploadVars

\* What an answer to the current upload may put in place of its placeholder, in
\* t, when it has one.
Answered(t) ==
  LET at == IndexIn(Placeholder(currentUpload), t)
  IN  {Left(t, at) \o answer \o Right(t, at + 2) :
         answer \in {Link(currentUpload), Failure(currentUpload)}}

\* The current upload is answered in this step, its placeholder is there and is
\* gone after it, and the step replaces no other.
AnswerStep ==
  /\ currentUpload # NoUpload /\ currentUpload' # currentUpload
  /\ currentUpload.name # "dollar"
  /\ Shows(text, Placeholder(currentUpload))
  /\ \A i \in DOMAIN uploadQueue : uploadQueue[i].name # "header"

\* What was to the left of p is to the left of p2 after the step.
Keeps(p, p2) ==
  LET at == IndexIn(Placeholder(currentUpload), text)
  IN  /\ p2 <= Len(text')
      /\ IF p <= at
           THEN Left(text', p2) = Left(text, p)
           ELSE Left(text', p2) \in Answered(Left(text, p))

(***************************************************************************)
(* An answer leaves the user's caret where it was: what was to its left is *)
(* to its left again, with the placeholder replaced.  A selection that     *)
(* holds nothing of the placeholder is left as well.  A caret inside the   *)
(* placeholder, or right before it, goes behind the answer.                *)
(***************************************************************************)
CaretStays ==
  [][LET at == IndexIn(Placeholder(currentUpload), text)
     IN  AnswerStep =>
           /\ (selStart >= at + 2 \/ selEnd <= at) /\ <<selStart, selEnd>> # <<at, at>> =>
                Keeps(selStart, selStart') /\ Keeps(selEnd, selEnd')
           /\ selStart = selEnd /\ selStart \in {at, at + 1} =>
                Keeps(at + 2, selStart') /\ selEnd' = selStart']_uploadVars
=============================================================================
