---------------------------- MODULE MarkdownPreview ----------------------------
(***************************************************************************)
(* The live preview: initLiveMarkdown of lib/markdown_previews.ts, on the  *)
(* page, and markdown_worker.js, in a worker thread, which send each other *)
(* messages.  A text is the number of the edit that made it.               *)
(***************************************************************************)
EXTENDS Integers, Sequences, SequencesExt

CONSTANTS
  Fields,      \* the text fields of the page that have a preview
  MaxTyped     \* edits of a field, at most

VARIABLES
  listening,   \* the field previewWorker.onmessage is for, or NoField
  opened,      \* fields initLiveMarkdown was called for
  value,       \* value[f]: the text of field f
  preview,     \* preview[f]: the text whose rendering is shown, -1 for nothing
  toWorker,    \* messages from the page, in order
  toPage,      \* messages from the worker, in order
  jobs,        \* the worker's jobs, at most one per field, oldest first
  timer,       \* the worker has a call of doPreview to make
  wasmLoaded   \* the worker has the parser

NoField == "none"

previewVars ==
  <<listening, opened, value, preview, toWorker, toPage, jobs, timer, wasmLoaded>>

PreviewInit ==
  /\ listening = NoField
  /\ opened = {}
  /\ value = [f \in Fields |-> 0]
  /\ preview = [f \in Fields |-> -1]
  /\ toWorker = <<>>
  /\ toPage = <<>>
  /\ jobs = <<>>
  /\ timer = FALSE
  /\ wasmLoaded = FALSE

DoMarkdown(f, text) == toWorker' = Append(toWorker, [field |-> f, text |-> text])

\* initLiveMarkdown: each call takes over the worker's one onmessage.
InitLiveMarkdown(f) ==
  /\ f \notin opened
  /\ opened' = opened \cup {f}
  /\ listening' = f
  /\ DoMarkdown(f, value[f])
  /\ UNCHANGED <<value, preview, toPage, jobs, timer, wasmLoaded>>

\* An input event, or a handler that changed the text and calls doMarkdown.
Edit(f) ==
  /\ f \in opened
  /\ value[f] < MaxTyped
  /\ value' = [value EXCEPT ![f] = @ + 1]
  /\ DoMarkdown(f, value[f] + 1)
  /\ UNCHANGED <<listening, opened, preview, toPage, jobs, timer, wasmLoaded>>

\* The page's onmessage.
ShowPreview ==
  /\ toPage # <<>>
  /\ toPage' = Tail(toPage)
  /\ preview' = LET m == Head(toPage)
                IN  IF m.field = listening
                      THEN [preview EXCEPT ![m.field] = m.text]
                      ELSE preview
  /\ UNCHANGED <<listening, opened, value, toWorker, jobs, timer, wasmLoaded>>

\* The worker's onmessage: the job takes the place of an older one of the field.
AddJob ==
  /\ toWorker # <<>>
  /\ LET job == Head(toWorker)
         old == SelectInSeq(jobs, LAMBDA j : j.field = job.field)
     IN  jobs' = IF old = 0 THEN Append(jobs, job) ELSE [jobs EXCEPT ![old] = job]
  /\ toWorker' = Tail(toWorker)
  /\ timer' = TRUE
  /\ UNCHANGED <<listening, opened, value, preview, toPage, wasmLoaded>>

\* The jobs that came before the parser wait for the next one.
WasmLoadsSilently ==
  /\ ~wasmLoaded
  /\ wasmLoaded' = TRUE
  /\ UNCHANGED <<listening, opened, value, preview, toWorker, toPage, jobs, timer>>

WasmLoads ==
  /\ ~wasmLoaded
  /\ wasmLoaded' = TRUE
  /\ timer' = TRUE
  /\ UNCHANGED <<listening, opened, value, preview, toWorker, toPage, jobs>>

\* doPreview.  Further calls that wait find no job left: one flag stands for all.
DoPreview ==
  /\ timer
  /\ timer' = FALSE
  /\ IF wasmLoaded
       THEN toPage' = toPage \o jobs /\ jobs' = <<>>
       ELSE UNCHANGED <<toPage, jobs>>
  /\ UNCHANGED <<listening, opened, value, preview, toWorker, wasmLoaded>>

PreviewNext ==
  \/ \E f \in Fields : InitLiveMarkdown(f) \/ Edit(f)
  \/ ShowPreview
  \/ AddJob
  \/ WasmLoads
  \/ DoPreview

\* Each thread's event loop goes on, and the parser arrives.
PreviewFairness ==
  /\ WF_previewVars(ShowPreview)
  /\ WF_previewVars(AddJob)
  /\ WF_previewVars(WasmLoads)
  /\ WF_previewVars(DoPreview)

PreviewSpec == PreviewInit /\ [][PreviewNext]_previewVars /\ PreviewFairness

-----------------------------------------------------------------------------
(***************************************************************************)
(* The preview catches up with the text, however messages, timers and the  *)
(* loading of the parser interleave: debouncing drops only what is out of  *)
(* date.  This is so for the last field initLiveMarkdown was called for;   *)
(* the others have lost their listener.                                    *)
(***************************************************************************)
PreviewCatchesUp ==
  \A f \in Fields : listening = f ~> (preview[f] = value[f] \/ listening # f)
=============================================================================
