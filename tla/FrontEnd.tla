-------------------------------- MODULE FrontEnd --------------------------------
(***************************************************************************)
(* The scripts of the site's pages, together.  A page runs one of them, or *)
(* several that share no state, so a visitor's browser is one of them at a *)
(* time; the state of the others stays as it is when nothing is loaded.    *)
(***************************************************************************)
EXTENDS MarkdownUpload, MarkdownPreview, ProjectOwners, LinkEditor, ImageSelector,
        SnippetEdit, Landing, Showcase, Perfmon, FilenameHeader, QRDecoder

VARIABLE page

\* The script's initial states, or one of them when it is not the page's.
Loaded(p, idle) == page = p \/ (page # p /\ idle)

FrontEndInit ==
  /\ QRInit
  /\ page \in {"editor", "preview", "owners", "links", "image", "snippet", "landing",
               "showcase", "perfmon", "file name", "scanner"}
  /\ Loaded("scanner", picture.plain = <<>> /\ picture.inverted = <<>>)
  /\ Loaded("editor", text = <<>> /\ draft = NoDraft) /\ UploadInit
  /\ PreviewInit
  /\ Loaded("owners", rows = <<>>) /\ OwnersInit
  /\ Loaded("links", live = {}) /\ LinksInit
  /\ Loaded("image", original = NoPicture) /\ ImageInit
  /\ SnippetInit
  /\ Loaded("snippet", ~snippet.existing /\ snippet.projects = {})
  /\ Loaded("landing", /\ hash = NoHash /\ tab = Featured
                       /\ latestNews = (CHOOSE n \in NewsPosts : TRUE) /\ newsRead = TRUE)
  /\ LandingInit
  /\ Loaded("showcase", width = (CHOOSE w \in Screens : TRUE) /\ onScreen = FALSE)
  /\ ShowcaseInit
  /\ Loaded("perfmon", /\ records = <<[route |-> CHOOSE route \in Routes : TRUE,
                                       duration |-> CHOOSE d \in Durations : TRUE]>>
                       /\ blocks = <<>>)
  /\ PerfmonInit
  /\ Loaded("file name", fileName = <<>>) /\ FilenameInit

\* The page's script takes a step, and the others none.
Running(p) ==
  /\ page = p /\ UNCHANGED page
  /\ p # "editor" => UNCHANGED uploadVars
  /\ p # "preview" => UNCHANGED previewVars
  /\ p # "owners" => UNCHANGED ownersVars
  /\ p # "links" => UNCHANGED linkVars
  /\ p # "image" => UNCHANGED imageVars
  /\ p # "snippet" => UNCHANGED snippetVars
  /\ p # "landing" => UNCHANGED landingVars
  /\ p # "showcase" => UNCHANGED showcaseVars
  /\ p # "perfmon" => UNCHANGED perfmonVars
  /\ p # "file name" => UNCHANGED headerVars
  /\ p # "scanner" => UNCHANGED qrVars

FrontEndNext ==
  \/ page = "editor" /\ UploadNextStep /\ Running("editor")
  \/ page = "preview" /\ PreviewNext /\ Running("preview")
  \/ page = "owners" /\ OwnersNext /\ Running("owners")
  \/ page = "links" /\ LinksNext /\ Running("links")
  \/ page = "image" /\ ImageNext /\ Running("image")
  \/ page = "snippet" /\ SnippetNext /\ Running("snippet")
  \/ page = "landing" /\ LandingNext /\ Running("landing")
  \/ page = "showcase" /\ ShowcaseNext /\ Running("showcase")
  \/ page = "perfmon" /\ PerfmonNext /\ Running("perfmon")
  \/ page = "file name" /\ FilenameNext /\ Running("file name")
  \/ page = "scanner" /\ QRNext /\ Running("scanner")

frontEndVars ==
  <<page, uploadVars, previewVars, ownersVars, linkVars, imageVars, snippetVars, landingVars,
    showcaseVars, perfmonVars, headerVars, qrVars>>

\* The fairness of the preview's threads holds where the page has them.
FrontEndSpec ==
  FrontEndInit /\ [][FrontEndNext]_frontEndVars /\ (page = "preview" => PreviewFairness)

-----------------------------------------------------------------------------
(***************************************************************************)
(* The forms send, and the site then has, what they show: the links of a   *)
(* profile or a project, a picture, a snippet, and the name of a file in   *)
(* the header of its upload.                                               *)
(***************************************************************************)
FormsSendWhatTheyShow == LinksSound /\ ShownIsSaved /\ SaveSendsShown /\ HeaderHoldsName

(***************************************************************************)
(* Whatever the user does to the text while files are uploaded, each       *)
(* answer replaces its placeholder and nothing else, and leaves the user's *)
(* caret and selection where they were.                                    *)
(***************************************************************************)
EditorKeepsText == UploadsReplaced /\ CaretStays

(***************************************************************************)
(* The pages show what there is: the tab of the URL and the news not yet   *)
(* closed, the wall of showcase items on every width of the window, and    *)
(* the flame graph of a request.                                           *)
(***************************************************************************)
PagesShow == TabFollowsHash /\ WallComplete /\ FlamesNest
=============================================================================
