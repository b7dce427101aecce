----------------------------- MODULE BrowserProofs -----------------------------
(***************************************************************************)
(* Proofs about the scripts of the pages: the owners of a project          *)
(* (ProjectOwners) and the forms, the tabs, the wall, the performance page *)
(* and the editor of the other pages (FrontEnd), for any users and limit,  *)
(* any pictures, snippets, projects, hashes, items, requests and uploads.  *)
(* Each part has an invariant of its own; the steps of the pages are first *)
(* brought down to what they are for the part (FrontEndSteps).  What is    *)
(* said of numbers, lists and loops in general is in CineraProofs.         *)
(***************************************************************************)
EXTENDS FrontEnd, CineraProofs

-----------------------------------------------------------------------------
(*****************************************************************************)
(* Owners.  startAddOwner looks at neither the number of rows nor the list   *)
(* as it will be when the site answers.  Two facts make up for it and are    *)
(* the strengthening: while the list is full nothing is typed and no name is *)
(* being checked (FullIsQuiet), as the answer that fills it empties the      *)
(* input and only a list with room lets somebody type (InputFollows); and a  *)
(* name that is being checked is not listed, as only its own answer lists it. *)
(*****************************************************************************)

OwnerNames == Users \cup Strangers \cup {Empty}
Full == Len(rows) >= MaxOwners

OwnersTypeOK ==
  /\ rows \in Seq(Users)
  /\ typed \in OwnerNames /\ query \in OwnerNames
  /\ inputDisabled \in BOOLEAN /\ buttonDisabled \in BOOLEAN /\ error \in BOOLEAN

FullIsQuiet == Full => typed = Empty /\ query = Empty
InputFollows == inputDisabled = Full

OwnersInv == OwnersTypeOK /\ FullIsQuiet /\ InputFollows /\ OwnersSound

LEMMA OwnersInitInv == OwnersInit => OwnersInv
<1> SUFFICES ASSUME OwnersInit PROVE OwnersInv
  OBVIOUS
<1> USE OwnersAssumption DEF OwnersInit
<1>1. PICK n \in 0 .. MaxOwners : rows \in [1 .. n -> Users]
  OBVIOUS
<1>2. rows \in Seq(Users) /\ Len(rows) = n
  BY <1>1
<1>3. OwnersTypeOK
  <2>1. typed = Empty /\ query = Empty /\ Empty \in OwnerNames
    BY DEF OwnerNames
  <2>2. buttonDisabled \in BOOLEAN /\ error \in BOOLEAN
    OBVIOUS
  <2>3. inputDisabled = (Len(rows) >= MaxOwners)
    OBVIOUS
  <2>4. inputDisabled \in BOOLEAN
    <3> HIDE DEF OwnersInit
    <3> QED
      BY <2>3
  <2> QED
    BY <1>2, <2>1, <2>2, <2>4 DEF OwnersTypeOK
<1>4. FullIsQuiet /\ InputFollows
  BY DEF FullIsQuiet, InputFollows, Full
<1>5. OwnersSound
  BY <1>2 DEF OwnersSound
<1> QED
  BY <1>3, <1>4, <1>5 DEF OwnersInv

(* A list with a name appended that it did not hold has no name twice. *)
LEMMA AppendNew ==
  ASSUME NEW S, NEW s \in Seq(S), NEW x \in S, IsInjective(s), ~Contains(s, x)
  PROVE  IsInjective(Append(s, x))
<1> DEFINE new == Append(s, x)
<1>1. /\ DOMAIN new = 1 .. Len(s) + 1
      /\ \A i \in 1 .. Len(s) : new[i] = s[i] /\ s[i] # x
      /\ new[Len(s) + 1] = x
  BY DEF Contains
<1>2. SUFFICES ASSUME NEW a \in DOMAIN new, NEW b \in DOMAIN new, new[a] = new[b]
               PROVE  a = b
  BY DEF IsInjective
<1>3. a \in 1 .. Len(s) \/ a = Len(s) + 1
  BY <1>1
<1>4. b \in 1 .. Len(s) \/ b = Len(s) + 1
  BY <1>1
<1>5. CASE a \in 1 .. Len(s) /\ b \in 1 .. Len(s)
  <2>1. s[a] = s[b]
    BY <1>1, <1>2, <1>5
  <2> QED
    BY <2>1, <1>5 DEF IsInjective
<1> QED
  BY <1>1, <1>2, <1>3, <1>4, <1>5

(* What a list is when an entry is removed: shorter, of the same names, and *)
(* with none of them twice if none was.                                     *)
LEMMA RemoveOne ==
  ASSUME NEW S, NEW s \in Seq(S), NEW i \in DOMAIN s
  PROVE  /\ RemoveAt(s, i) \in Seq(S)
         /\ Len(RemoveAt(s, i)) = Len(s) - 1
         /\ \A j \in 1 .. Len(s) - 1 : RemoveAt(s, i)[j] = IF j < i THEN s[j] ELSE s[j + 1]
<1> DEFINE front == SubSeq(s, 1, i - 1)
           back == SubSeq(s, i + 1, Len(s))
<1>1. i \in 1 .. Len(s) /\ Len(s) \in Nat
  OBVIOUS
<1>2. /\ front \in Seq(S) /\ Len(front) = i - 1
      /\ \A j \in 1 .. i - 1 : front[j] = s[j]
  BY <1>1
<1>3. /\ back \in Seq(S) /\ Len(back) = Len(s) - i
      /\ \A j \in 1 .. Len(s) - i : back[j] = s[i + j]
  BY <1>1
<1>4. RemoveAt(s, i) = front \o back
  BY DEF RemoveAt
<1> HIDE DEF front, back
<1>5. front \o back \in Seq(S) /\ Len(front \o back) = Len(s) - 1
  BY <1>1, <1>2, <1>3
<1>6. ASSUME NEW j \in 1 .. Len(s) - 1
      PROVE  (front \o back)[j] = IF j < i THEN s[j] ELSE s[j + 1]
  <2>1. (front \o back)[j] = IF j <= Len(front) THEN front[j] ELSE back[j - Len(front)]
    <3>1. j \in 1 .. Len(front) + Len(back)
      BY <1>1, <1>2, <1>3
    <3> QED
      BY <3>1, <1>2, <1>3, ConcatProperties
  <2>2. CASE j < i
    BY <2>1, <2>2, <1>1, <1>2
  <2>3. CASE ~(j < i)
    <3>1. j - Len(front) \in 1 .. Len(s) - i /\ ~(j <= Len(front))
      BY <2>3, <1>1, <1>2
    <3>2. back[j - Len(front)] = s[i + (j - Len(front))]
      BY <3>1, <1>3
    <3>3. i + (j - Len(front)) = j + 1
      BY <1>1, <1>2
    <3> QED
      BY <2>1, <2>3, <3>1, <3>2, <3>3
  <2> QED
    BY <2>2, <2>3
<1> QED
  BY <1>4, <1>5, <1>6

LEMMA RemoveKeepsOrder ==
  ASSUME NEW S, NEW s \in Seq(S), NEW i \in DOMAIN s, IsInjective(s)
  PROVE  /\ IsInjective(RemoveAt(s, i))
         /\ \A x : Contains(RemoveAt(s, i), x) => Contains(s, x)
<1> DEFINE new == RemoveAt(s, i)
           At(j) == IF j < i THEN j ELSE j + 1
<1>1. /\ new \in Seq(S) /\ Len(new) = Len(s) - 1 /\ Len(s) \in Nat /\ i \in 1 .. Len(s)
      /\ \A j \in 1 .. Len(s) - 1 : new[j] = IF j < i THEN s[j] ELSE s[j + 1]
  BY RemoveOne
<1> HIDE DEF new
<1>2. \A j \in 1 .. Len(s) - 1 : new[j] = s[At(j)] /\ At(j) \in 1 .. Len(s)
  BY <1>1
<1>3. ASSUME NEW a \in DOMAIN new, NEW b \in DOMAIN new, new[a] = new[b]
      PROVE  a = b
  <2>1. a \in 1 .. Len(s) - 1 /\ b \in 1 .. Len(s) - 1
    BY <1>1
  <2>2. /\ new[a] = s[At(a)] /\ At(a) \in 1 .. Len(s)
        /\ new[b] = s[At(b)] /\ At(b) \in 1 .. Len(s)
    BY <2>1, <1>2
  <2> HIDE DEF At
  <2>3. At(a) \in DOMAIN s /\ At(b) \in DOMAIN s /\ s[At(a)] = s[At(b)]
    BY <2>2, <1>3
  <2>4. At(a) = At(b)
    BY <2>3 DEF IsInjective
  <2> QED
    BY <2>1, <2>4, <1>1 DEF At
<1>4. IsInjective(new)
  BY <1>3 DEF IsInjective
<1>5. \A x : Contains(new, x) => Contains(s, x)
  BY <1>1, <1>2 DEF Contains
<1> QED
  BY <1>4, <1>5 DEF new

LEMMA OwnersStep == OwnersInv /\ [OwnersNext]_ownersVars => OwnersInv'
<1> SUFFICES ASSUME OwnersInv, [OwnersNext]_ownersVars PROVE OwnersInv'
  OBVIOUS
<1> USE OwnersAssumption DEF OwnersInv, OwnersTypeOK, OwnerNames, Full
<1>0. MaxOwners \in Nat /\ Len(rows) \in Nat /\ Len(rows) <= MaxOwners
  BY DEF OwnersSound
<1>1. ASSUME NEW name \in Users \cup Strangers \cup {Empty}, TypeOwner(name)
      PROVE  OwnersInv'
  BY <1>1 DEF TypeOwner, FullIsQuiet, InputFollows, OwnersSound
<1>2. CASE StartAddOwner
  BY <1>0, <1>2 DEF StartAddOwner, SetOwnerQueryState, UpdateAddOwnerStyles, FullIsQuiet,
                    InputFollows, OwnersSound
<1>3. CASE OwnerFound
  <2> USE <1>3 DEF OwnerFound, SetOwnerQueryState, UpdateAddOwnerStyles
  <2>1. ~Full /\ ~Contains(rows, query) /\ IsInjective(rows)
    BY DEF FullIsQuiet, OwnersSound
  <2>2. rows' \in Seq(Users) /\ Len(rows') = Len(rows) + 1
    OBVIOUS
  <2>3. IsInjective(rows')
    BY <2>1, AppendNew
  <2>4. OwnersTypeOK'
    BY <2>2
  <2>5. FullIsQuiet' /\ InputFollows'
    BY DEF FullIsQuiet, InputFollows
  <2>6. OwnersSound'
    BY <1>0, <2>1, <2>2, <2>3 DEF OwnersSound
  <2> QED
    BY <2>4, <2>5, <2>6
<1>4. CASE OwnerNotAdded
  BY <1>4 DEF OwnerNotAdded, SetOwnerQueryState, UpdateAddOwnerStyles, FullIsQuiet,
              InputFollows, OwnersSound
<1>5. ASSUME NEW i \in DOMAIN rows, RemoveOwner(i)
      PROVE  OwnersInv'
  <2> USE <1>5 DEF RemoveOwner, UpdateAddOwnerStyles
  <2>1. /\ rows' \in Seq(Users) /\ Len(rows') = Len(rows) - 1
    BY RemoveOne
  <2>2. /\ IsInjective(rows')
        /\ \A x : Contains(rows', x) => Contains(rows, x)
    BY RemoveKeepsOrder DEF OwnersSound
  <2>3. OwnersTypeOK'
    BY <2>1
  <2>4. FullIsQuiet' /\ InputFollows'
    BY <1>0, <2>1 DEF FullIsQuiet, InputFollows
  <2>5. OwnersSound'
    BY <1>0, <2>1, <2>2 DEF OwnersSound
  <2> QED
    BY <2>3, <2>4, <2>5
<1>6. CASE UNCHANGED ownersVars
  BY <1>6 DEF ownersVars, FullIsQuiet, InputFollows, OwnersSound
<1> QED
  BY <1>1, <1>2, <1>3, <1>4, <1>5, <1>6 DEF OwnersNext

(***************************************************************************)
(* The types of the page's state, and that its input is closed exactly     *)
(* while the list of owners is full.                                       *)
(***************************************************************************)
THEOREM OwnersTyped == OwnersSpec => [](OwnersTypeOK /\ InputFollows)
<1>1. OwnersInv => OwnersTypeOK /\ InputFollows
  BY DEF OwnersInv
<1> QED
  BY OwnersInitInv, OwnersStep, <1>1, PTL DEF OwnersSpec

(***************************************************************************)
(* No user is listed twice, no more than MaxOwners are, and the preview    *)
(* shows the list, whatever is typed, added and removed while the site     *)
(* looks a name up (startAddOwner).                                        *)
(***************************************************************************)
THEOREM OwnersAreSound == OwnersSpec => []OwnersSound
<1>1. OwnersInv => OwnersSound
  BY DEF OwnersInv
<1> QED
  BY OwnersInitInv, OwnersStep, <1>1, PTL DEF OwnersSpec

-----------------------------------------------------------------------------
(***************************************************************************)
(* A step of the scripts is one of a script or leaves its state alone.     *)
(***************************************************************************)
LEMMA FrontEndSteps ==
  ASSUME [FrontEndNext]_frontEndVars
  PROVE  /\ ImageNext \/ UNCHANGED imageVars
         /\ SnippetNext \/ UNCHANGED snippetVars
         /\ LandingNext \/ UNCHANGED landingVars
         /\ UploadNextStep \/ UNCHANGED uploadVars
         /\ ShowcaseNext \/ UNCHANGED showcaseVars
         /\ PerfmonNext \/ UNCHANGED perfmonVars
         /\ LinksNext \/ UNCHANGED linkVars
         /\ FilenameNext \/ UNCHANGED headerVars
<1>1. CASE UNCHANGED frontEndVars
  BY <1>1 DEF frontEndVars
<1>2. CASE page = "editor" /\ UploadNextStep /\ Running("editor")
  BY <1>2 DEF Running
<1>3. CASE page = "image" /\ ImageNext /\ Running("image")
  BY <1>3 DEF Running
<1>4. CASE page = "snippet" /\ SnippetNext /\ Running("snippet")
  BY <1>4 DEF Running
<1>5. CASE page = "landing" /\ LandingNext /\ Running("landing")
  BY <1>5 DEF Running
<1>6. CASE page = "showcase" /\ ShowcaseNext /\ Running("showcase")
  BY <1>6 DEF Running
<1>7. CASE page = "perfmon" /\ PerfmonNext /\ Running("perfmon")
  BY <1>7 DEF Running
<1>8. CASE page = "links" /\ LinksNext /\ Running("links")
  BY <1>8 DEF Running
<1>9. CASE page = "file name" /\ FilenameNext /\ Running("file name")
  BY <1>9 DEF Running
<1>10. CASE \E p : /\ page = p /\ Running(p)
                 /\ p \notin {"editor", "image", "snippet", "landing", "showcase", "perfmon",
                               "links", "file name"}
  BY <1>10 DEF Running
<1> QED
  BY <1>1, <1>2, <1>3, <1>4, <1>5, <1>6, <1>7, <1>8, <1>9, <1>10 DEF FrontEndNext

-----------------------------------------------------------------------------
(*****************************************************************************)
(* The image selector.  Unless a cancelled dialog emptied the input, what is *)
(* shown follows from the file and the flag (ShownFollows); a file over the  *)
(* limit makes the input invalid; and what was sent is still what the form   *)
(* holds, as nothing but the open dialog moves after it (SentStays).         *)
(*****************************************************************************)

ShownFollows ==
  /\ card = url
  /\ ~emptied => url = IF file # NoPicture THEN file
                       ELSE IF removeFlag THEN NoPicture ELSE original

SentStays ==
  sent # NotSent => sent = [file |-> file, remove |-> removeFlag] /\ ~invalid /\ ~picking

ImageInv ==
  /\ removeFlag \in BOOLEAN
  /\ file \in BigPictures => invalid
  /\ file # NoPicture => ~emptied
  /\ ShownFollows
  /\ SentStays

(* The image selector keeps its invariant.                                   *)
LEMMA ImageStep == ImageInv /\ (ImageNext \/ UNCHANGED imageVars) => ImageInv'
<1> SUFFICES ASSUME ImageInv, ImageNext \/ UNCHANGED imageVars PROVE ImageInv'
  OBVIOUS
<1> USE ImageAssumption DEF ImageInv, ShownFollows, SentStays, ShowImage, UpdateCardPreview
<1>1. CASE OpenImageInput
  BY <1>1 DEF OpenImageInput
<1>2. ASSUME NEW f \in Pictures, PickImage(f) PROVE ImageInv'
  BY <1>2 DEF PickImage
<1>3. CASE CancelPicking
  BY <1>3 DEF CancelPicking
<1>4. CASE RemoveImage
  BY <1>4 DEF RemoveImage, ClearFile
<1>5. CASE ResetImage
  BY <1>5 DEF ResetImage, ClearFile
<1>6. CASE SubmitImage
  BY <1>6 DEF SubmitImage
<1>7. CASE UNCHANGED imageVars
  BY <1>7 DEF imageVars
<1> QED
  BY <1>1, <1>2, <1>3, <1>4, <1>5, <1>6, <1>7 DEF ImageNext

(* The picture shown when the form is sent is the one the site then has, and *)
(* none over the limit is sent (lib/image_selector.ts).                      *)
THEOREM ShownPictureIsSaved == FrontEndSpec => []ShownIsSaved
<1>1. FrontEndInit => ImageInv
  BY ImageAssumption DEF FrontEndInit, ImageInit, ImageInv, ShownFollows, SentStays
<1>2. ImageInv /\ [FrontEndNext]_frontEndVars => ImageInv'
  BY ImageStep, FrontEndSteps
<1>3. ImageInv => ShownIsSaved
  BY DEF ImageInv, ShownFollows, SentStays, ShownIsSaved, Saved
<1> QED
  BY <1>1, <1>2, <1>3, PTL DEF FrontEndSpec

-----------------------------------------------------------------------------
(*****************************************************************************)
(* Tabs.  The last change of the hash that was not yet reported is to the    *)
(* hash the URL has, so once all are reported the tab follows it.            *)
(*****************************************************************************)

LandingInv ==
  /\ hashEvents \in Seq(Hashes \cup ToSet(TabNames))
  /\ hashEvents # <<>> => Last(hashEvents) = hash
  /\ hashEvents = <<>> /\ hash # NoHash => tab = Resolve(hash)
  /\ activeButton = tab
  /\ newsHidden = HiddenNews(latestNews, newsRead, closedNews)
  /\ hash \in Hashes \cup ToSet(TabNames)
  /\ newsRead \in BOOLEAN

(* A change of the hash is the last one to be reported.                      *)
LEMMA HashChanged ==
  ASSUME LandingInv, NEW new \in Hashes \cup ToSet(TabNames), ChangeHash(new)
  PROVE  /\ hashEvents' \in Seq(Hashes \cup ToSet(TabNames))
         /\ hashEvents' # <<>> => Last(hashEvents') = hash'
         /\ hash' = new
         /\ hashEvents' = <<>> => hash' = hash
<1>1. CASE new = hash
  BY <1>1 DEF LandingInv, ChangeHash
<1>2. CASE new # hash
  <2>1. hashEvents' = Append(hashEvents, new) /\ hash' = new
    BY <1>2 DEF ChangeHash
  <2> QED
    BY <2>1 DEF LandingInv, Last
<1> QED
  BY <1>1, <1>2

(* The landing page keeps its invariant.                                     *)
LEMMA LandingStep == LandingInv /\ (LandingNext \/ UNCHANGED landingVars) => LandingInv'
<1> SUFFICES ASSUME LandingInv, LandingNext \/ UNCHANGED landingVars PROVE LandingInv'
  OBVIOUS
<1>1. ASSUME NEW name \in ToSet(TabNames), ClickTab(name) PROVE LandingInv'
  <2>1. tab' = Resolve(name) /\ activeButton' = Resolve(name) /\ UNCHANGED newsVars
    BY <1>1 DEF ClickTab, SelectTab
  <2>2. ChangeHash(name)
    BY <1>1 DEF ClickTab
  <2> QED
    BY <2>1, <2>2, HashChanged DEF LandingInv, newsVars, HiddenNews
<1>2. ASSUME NEW new \in Hashes, Navigate(new) PROVE LandingInv'
  <2>1. UNCHANGED <<tab, activeButton, newsVars>> /\ new # hash /\ ChangeHash(new)
    BY <1>2 DEF Navigate
  <2> QED
    BY <2>1, HashChanged DEF LandingInv, newsVars, HiddenNews
<1>3. CASE HashChange
  <2>1. /\ hashEvents # <<>> /\ hashEvents' = Tail(hashEvents)
        /\ UNCHANGED <<hash, newsVars>>
        /\ IF Head(hashEvents) = NoHash THEN UNCHANGED <<tab, activeButton>>
           ELSE tab' = Resolve(Head(hashEvents)) /\ activeButton' = Resolve(Head(hashEvents))
    BY <1>3 DEF HashChange, SelectTab
  <2>2. Last(hashEvents) = hash /\ hashEvents \in Seq(Hashes \cup ToSet(TabNames))
    BY <2>1 DEF LandingInv
  <2>3. /\ hashEvents' \in Seq(Hashes \cup ToSet(TabNames))
        /\ hashEvents' # <<>> => Last(hashEvents') = hash
        /\ hashEvents' = <<>> => Head(hashEvents) = hash
    <3>1. Len(hashEvents) \in Nat \ {0} /\ Len(hashEvents') = Len(hashEvents) - 1
          /\ hashEvents' \in Seq(Hashes \cup ToSet(TabNames))
      BY <2>1, <2>2, EmptySeq, HeadTailProperties
    <3>2. \A i \in 1 .. Len(hashEvents') : hashEvents'[i] = hashEvents[i + 1]
      BY <2>1, <2>2, HeadTailProperties
    <3>3. CASE Len(hashEvents) = 1
      BY <3>1, <3>3, <2>2, EmptySeq DEF Last
    <3>4. CASE Len(hashEvents) # 1
      <4>1. Len(hashEvents') \in 1 .. Len(hashEvents') /\ hashEvents' # <<>>
        BY <3>1, <3>4, EmptySeq
      <4> QED
        BY <4>1, <3>1, <3>2, <2>2 DEF Last
    <3> QED
      BY <3>3, <3>4
  <2> QED
    BY <2>1, <2>3 DEF LandingInv, newsVars, HiddenNews
<1>4. CASE CloseNews
  BY <1>4 DEF CloseNews, LandingInv, tabVars, HiddenNews
<1>5. ASSUME NEW post \in NewsPosts, NEW read \in BOOLEAN, Reload(post, read)
      PROVE  LandingInv'
  <2>1. tab' \in InitialTabs(hash) /\ activeButton' = tab' /\ hashEvents' = <<>>
        /\ UNCHANGED <<hash, closedNews>> /\ latestNews' = post /\ newsRead' = read
        /\ newsHidden' = HiddenNews(post, read, closedNews)
    BY <1>5 DEF Reload
  <2>2. hash # NoHash => tab' = Resolve(hash)
    BY <2>1 DEF InitialTabs
  <2> QED
    BY <2>1, <2>2 DEF LandingInv, HiddenNews
<1>6. CASE UNCHANGED landingVars
  BY <1>6 DEF landingVars, tabVars, newsVars, LandingInv, HiddenNews
<1> QED
  BY <1>1, <1>2, <1>3, <1>4, <1>5, <1>6 DEF LandingNext

(* The landing page starts with it, and it says that the tab is the hash's.  *)
LEMMA LandingStarts == LandingInit => LandingInv
<1> SUFFICES ASSUME LandingInit PROVE LandingInv
  OBVIOUS
<1>1. hashEvents = <<>> /\ activeButton = tab /\ hash \in Hashes /\ newsRead \in BOOLEAN
      /\ newsHidden = HiddenNews(latestNews, newsRead, closedNews) /\ tab \in InitialTabs(hash)
  BY DEF LandingInit
<1> QED
  BY <1>1 DEF LandingInv, InitialTabs

LEMMA LandingFollows == LandingInv => TabFollowsHash
  BY DEF LandingInv, TabFollowsHash, HiddenNews

(* Once every change of the hash is reported the tab is the URL's, and the   *)
(* news closed last stays closed (lib/tabs.ts, landing.ts).                  *)
THEOREM TabsFollowTheHash == FrontEndSpec => []TabFollowsHash
<1>1. FrontEndInit => LandingInv
  BY LandingStarts DEF FrontEndInit
<1>2. LandingInv /\ [FrontEndNext]_frontEndVars => LandingInv'
  BY LandingStep, FrontEndSteps
<1> QED
  BY <1>1, <1>2, LandingFollows, PTL DEF FrontEndSpec

-----------------------------------------------------------------------------
(*****************************************************************************)
(* The form of a snippet.  What is shown follows from the file and the flag  *)
(* that removes (ShownNow), unless a cancelled dialog emptied the input,     *)
(* which then counts as a change (AttachmentFollows); Save is disabled for   *)
(* what the site refuses (DisabledFollows); the projects listed are each     *)
(* listed once, the sticky one always (ProjectsKept); and nothing moves once *)
(* the form is closed, as no dialog is open then (ClosedFits).               *)
(*****************************************************************************)

ShownNow ==
  IF snippetFile # Nothing THEN snippetFile
  ELSE IF snippetRemove THEN Nothing ELSE snippet.attachment

AttachmentFollows ==
  /\ snippet.attachment = FirstMedium(snippet.asset, snippet.url)
  /\ snippetFile \in Attachments \cup {Nothing}
  /\ snippetRemove \in BOOLEAN /\ attachmentChanged \in BOOLEAN
  /\ ghost => attachmentChanged /\ snippetFile = Nothing
  /\ snippetFile # Nothing => attachmentChanged
  /\ ~ghost =>
       /\ hasAttachment = (shownFile # Nothing)
       /\ shownFile = ShownNow
       /\ ~attachmentChanged => shownFile = snippet.attachment

DisabledFollows ==
  /\ snippetFile \in BigAttachments => saveDisabled
  /\ ~ghost => saveDisabled = SaveDisabled(description, hasAttachment, snippetFile)

ProjectsKept ==
  /\ projects \in Seq(MyProjects)
  /\ IsInjective(projects)
  /\ snippet.projects \subseteq AllProjects
  /\ snippet.sticky \cap MyProjects \subseteq ToSet(projects)
  /\ offered = Offered(projects)

DragFits == enterCounter \in Nat /\ highlight \in BOOLEAN /\ (highlight => enterCounter > 0)

ClosedFits ==
  /\ outcome.kind \in {"open", "cancelled", "unchanged", "deleted", "sent"}
  /\ outcome.kind # "open" => ~dialog
  /\ outcome.kind = "sent" =>
       /\ ~saveDisabled
       /\ outcome.text = description /\ outcome.projects = projects
       /\ outcome.file = snippetFile /\ outcome.remove = snippetRemove
  /\ outcome.kind = "unchanged" =>
       ~attachmentChanged /\ snippet.text = description /\ ~ProjectsChanged

SnippetInv ==
  AttachmentFollows /\ DisabledFollows /\ ProjectsKept /\ DragFits /\ ClosedFits

(* A set listed is listed whole, each of its members once.                   *)
LEMMA Listed ==
  ASSUME NEW S, IsFiniteSet(S)
  PROVE  /\ SetToSeq(S) \in Seq(S) /\ IsInjective(SetToSeq(S))
         /\ ToSet(SetToSeq(S)) = S
<1> DEFINE n == Cardinality(S)
           list == SetToSeq(S)
<1>1. n \in Nat /\ ExistsBijection(1 .. n, S)
  BY FS_CardinalityType
<1>2. list \in [1 .. n -> S] /\ IsInjective(list)
  <2>1. \E f \in [1 .. n -> S] : IsInjective(f)
    BY <1>1 DEF ExistsBijection, Bijection, Injection
  <2> QED
    BY <2>1 DEF SetToSeq
<1>3. Cardinality(1 .. n) = n
  BY <1>1, FS_Interval
<1> HIDE DEF n, list
<1>4. list \in Surjection(1 .. n, S)
  BY <1>2, <1>3, FS_Injection DEF Injection, n
<1>5. ToSet(list) = S
  BY <1>2, <1>4 DEF ToSet, Surjection
<1>6. list \in Seq(S)
  BY <1>1, <1>2, SeqDef
<1> QED
  BY <1>2, <1>5, <1>6 DEF list

(* A form opens with its invariant, whatever the snippet holds.              *)
LEMMA SnippetStarts == SnippetInit => SnippetInv
<1> SUFFICES ASSUME SnippetInit PROVE SnippetInv
  OBVIOUS
<1>0. \E existing \in BOOLEAN, words \in Texts, asset \in {Nothing, Asset},
         link \in {Nothing, Video, HiddenUrl}, ps \in SUBSET AllProjects,
         sticky \in SUBSET AllProjects :
       /\ Cardinality(sticky) <= 1 /\ sticky \subseteq ps /\ (existing \/ ps = sticky)
       /\ snippet = [existing |-> existing, text |-> words, asset |-> asset, url |-> link,
                     attachment |-> FirstMedium(asset, link), projects |-> ps,
                     sticky |-> sticky]
  BY Zenon DEF SnippetInit
<1>1. PICK existing \in BOOLEAN, words \in Texts, asset \in {Nothing, Asset},
           link \in {Nothing, Video, HiddenUrl}, ps \in SUBSET AllProjects,
           sticky \in SUBSET AllProjects :
        /\ sticky \subseteq ps
        /\ snippet = [existing |-> existing, text |-> words, asset |-> asset, url |-> link,
                      attachment |-> FirstMedium(asset, link), projects |-> ps,
                      sticky |-> sticky]
  BY <1>0, Zenon
<1>2. /\ snippet.attachment = FirstMedium(snippet.asset, snippet.url)
      /\ snippet.projects = ps /\ snippet.sticky = sticky
      /\ snippet.text = words
  BY <1>1
<1>3. /\ description = snippet.text /\ snippetFile = Nothing /\ snippetRemove = FALSE
      /\ attachmentChanged = FALSE /\ hasAttachment = (snippet.attachment # Nothing)
      /\ shownFile = snippet.attachment
      /\ saveDisabled = SaveDisabled(snippet.text, hasAttachment, Nothing)
      /\ projects = SetToSeq(snippet.projects \cap MyProjects) /\ offered = Offered(projects)
      /\ dialog = FALSE /\ ghost = FALSE /\ enterCounter = 0 /\ highlight = FALSE
      /\ outcome = [kind |-> "open"]
  BY DEF SnippetInit
<1>4. /\ projects \in Seq(ps \cap MyProjects) /\ IsInjective(projects)
      /\ ToSet(projects) = ps \cap MyProjects
  <2>1. IsFiniteSet(ps \cap MyProjects)
    BY SnippetAssumption, FS_Subset
  <2> QED
    BY <2>1, <1>2, <1>3, Listed
<1>5. projects \in Seq(MyProjects)
  BY <1>4
<1>6. ProjectsKept
  BY <1>1, <1>2, <1>3, <1>4, <1>5 DEF ProjectsKept
<1>7. AttachmentFollows
  BY <1>2, <1>3 DEF AttachmentFollows, ShownNow
<1>8. DisabledFollows
  BY <1>3, SnippetAssumption DEF DisabledFollows
<1> QED
  BY <1>3, <1>6, <1>7, <1>8 DEF SnippetInv, DragFits, ClosedFits

\* A file set by a drop, a paste or the dialog leaves the form consistent.
LEMMA FileSet ==
  ASSUME SnippetInv, NEW f \in Attachments, SetFile(f), UNCHANGED <<snippet, description>>
  PROVE  AttachmentFollows' /\ DisabledFollows'
<1>1. f # Nothing /\ snippet.attachment = FirstMedium(snippet.asset, snippet.url)
  BY SnippetAssumption DEF SnippetInv, AttachmentFollows
<1>2. /\ snippetFile' = f /\ ghost' = FALSE /\ attachmentChanged' = TRUE
      /\ snippetRemove' = FALSE /\ hasAttachment' = TRUE /\ shownFile' = f
      /\ saveDisabled' = SaveDisabled(description, TRUE, f)
  BY DEF SetFile, SetPreview
<1>3. AttachmentFollows'
  BY <1>1, <1>2 DEF AttachmentFollows, ShownNow
<1>4. DisabledFollows'
  BY <1>1, <1>2 DEF DisabledFollows, SaveDisabled
<1> QED
  BY <1>3, <1>4

\* And so do the links that remove it and bring the original back.
LEMMA AttachmentCleared ==
  ASSUME SnippetInv, NEW back \in BOOLEAN, ClearAttachment(back),
         UNCHANGED <<snippet, description>>
  PROVE  AttachmentFollows' /\ DisabledFollows'
<1> DEFINE had == snippet.attachment # Nothing
<1>1. /\ snippetFile' = Nothing /\ ghost' = FALSE
      /\ attachmentChanged' = (had /\ ~(had /\ back))
      /\ snippetRemove' = (had /\ ~(had /\ back))
      /\ hasAttachment' = (had /\ back)
      /\ shownFile' = IF had /\ back THEN snippet.attachment ELSE Nothing
      /\ saveDisabled' = SaveDisabled(description, had /\ back, Nothing)
  BY DEF ClearAttachment, SetPreview
<1>2. AttachmentFollows'
  BY <1>1 DEF SnippetInv, AttachmentFollows, ShownNow
<1>3. DisabledFollows'
  BY <1>1, SnippetAssumption DEF DisabledFollows, SaveDisabled
<1> QED
  BY <1>2, <1>3

\* The lists of projects that the form can be given.
LEMMA ProjectsSet ==
  ASSUME SnippetInv, NEW list \in Seq(MyProjects), IsInjective(list),
         snippet.sticky \cap MyProjects \subseteq ToSet(list), SetProjects(list),
         UNCHANGED snippet
  PROVE  ProjectsKept'
  BY DEF SnippetInv, ProjectsKept, SetProjects

\* Where nothing but the text, the file and the drag changes, and the form is open.
LEMMA SnippetOpen ==
  ASSUME SnippetInv, Pending \/ dialog, UNCHANGED <<snippet, outcome>>,
         AttachmentFollows', DisabledFollows', ProjectsKept', DragFits'
  PROVE  SnippetInv'
  BY DEF SnippetInv, ClosedFits, Pending

(* And so it does when it closes, with the outcome it then has.              *)
LEMMA SnippetCloses ==
  ASSUME SnippetInv, NEW ending, Close(ending),
         ending.kind \in {"cancelled", "unchanged", "deleted", "sent"},
         ending.kind = "sent" =>
           /\ ~saveDisabled
           /\ ending.text = description /\ ending.projects = projects
           /\ ending.file = snippetFile /\ ending.remove = snippetRemove,
         ending.kind = "unchanged" =>
           ~attachmentChanged /\ snippet.text = description /\ ~ProjectsChanged
  PROVE  SnippetInv'
<1>1. /\ outcome' = ending /\ dialog' = dialog /\ ~dialog
      /\ UNCHANGED <<snippet, description, snippetFile, snippetRemove, attachmentChanged,
                     hasAttachment, shownFile, restore, ghost, saveDisabled, projects,
                     offered, enterCounter, highlight>>
  BY DEF Close, attachmentVars, projectVars, dragVars
<1>2. AttachmentFollows' /\ DisabledFollows' /\ ProjectsKept' /\ DragFits'
  BY <1>1 DEF SnippetInv, AttachmentFollows, DisabledFollows, ProjectsKept, DragFits,
              ShownNow
<1>3. ClosedFits'
  BY <1>1 DEF ClosedFits, ProjectsChanged
<1> QED
  BY <1>2, <1>3 DEF SnippetInv

(* The form keeps its invariant.                                             *)
LEMMA SnippetStep == SnippetInv /\ (SnippetNext \/ UNCHANGED snippetVars) => SnippetInv'
<1> SUFFICES ASSUME SnippetInv, SnippetNext \/ UNCHANGED snippetVars PROVE SnippetInv'
  OBVIOUS
<1>0. AttachmentFollows /\ DisabledFollows /\ ProjectsKept /\ DragFits /\ ClosedFits
  BY DEF SnippetInv
<1>1. ASSUME NEW words \in Texts, TypeText(words) PROVE SnippetInv'
  <2>1. /\ description' = words /\ saveDisabled' = SaveDisabled(words, hasAttachment, snippetFile)
        /\ UNCHANGED <<snippet, snippetFile, snippetRemove, attachmentChanged, hasAttachment,
                       shownFile, ghost, projects, offered, enterCounter, highlight, outcome>>
        /\ Pending
    BY <1>1 DEF TypeText, attachmentVars, projectVars, dragVars
  <2>2. AttachmentFollows' /\ ProjectsKept' /\ DragFits'
    BY <2>1, <1>0 DEF AttachmentFollows, ProjectsKept, DragFits, ShownNow
  <2>3. DisabledFollows'
    BY <2>1 DEF DisabledFollows, SaveDisabled
  <2> QED
    BY <2>1, <2>2, <2>3, SnippetOpen
<1>2. ASSUME NEW f \in Attachments, DropFile(f) \/ PasteFile(f) \/ ChooseFile(f)
      PROVE  SnippetInv'
  <2>1. /\ SetFile(f) /\ UNCHANGED <<snippet, description, projects, offered, outcome>>
        /\ Pending \/ dialog
    BY <1>2 DEF DropFile, PasteFile, ChooseFile, projectVars
  <2>2. DragFits'
    <3>1. \/ enterCounter' = 0 /\ highlight' = FALSE
          \/ UNCHANGED <<enterCounter, highlight>>
      BY <1>2 DEF DropFile, PasteFile, ChooseFile, dragVars
    <3>2. enterCounter \in Nat /\ highlight \in BOOLEAN /\ (highlight => enterCounter > 0)
      BY <1>0 DEF DragFits
    <3>3. CASE enterCounter' = 0 /\ highlight' = FALSE
      BY <3>3 DEF DragFits
    <3>4. CASE UNCHANGED <<enterCounter, highlight>>
      BY <3>4, <3>2 DEF DragFits
    <3> QED
      BY <3>1, <3>3, <3>4
  <2>3. ProjectsKept'
    BY <2>1, <1>0 DEF ProjectsKept
  <2> QED
    BY <2>1, <2>2, <2>3, FileSet, SnippetOpen
<1>3. ASSUME \/ \E droppable \in BOOLEAN : DragEnter(droppable)
             \/ DragLeave \/ DropNothing \/ OpenFileDialog
      PROVE  SnippetInv'
  <2>1. /\ UNCHANGED <<snippet, description, snippetFile, snippetRemove, attachmentChanged,
                       hasAttachment, shownFile, ghost, saveDisabled, projects, offered,
                       outcome>>
        /\ Pending
    BY <1>3 DEF DragEnter, DragLeave, DropNothing, OpenFileDialog, attachmentVars, projectVars
  <2>2. DragFits'
    <3>1. \/ enterCounter' = 0 /\ highlight' = FALSE
          \/ UNCHANGED <<enterCounter, highlight>>
          \/ \E droppable \in BOOLEAN :
               enterCounter' = enterCounter + 1 /\ highlight' = (highlight \/ droppable)
          \/ /\ enterCounter > 0 /\ enterCounter' = enterCounter - 1
             /\ highlight' = (highlight /\ enterCounter > 1)
      BY <1>3 DEF DragEnter, DragLeave, DropNothing, OpenFileDialog, dragVars
    <3>2. enterCounter \in Nat /\ highlight \in BOOLEAN /\ (highlight => enterCounter > 0)
      BY <1>0 DEF DragFits
    <3>3. CASE enterCounter' = 0 /\ highlight' = FALSE
      BY <3>3 DEF DragFits
    <3>4. CASE UNCHANGED <<enterCounter, highlight>>
      BY <3>4, <3>2 DEF DragFits
    <3>5. ASSUME NEW droppable \in BOOLEAN, enterCounter' = enterCounter + 1,
                 highlight' = (highlight \/ droppable)
          PROVE  DragFits'
      <4>1. highlight' \in BOOLEAN
        BY <3>5, Zenon
      <4> QED
        BY <4>1, <3>5, <3>2 DEF DragFits
    <3>6. CASE /\ enterCounter > 0 /\ enterCounter' = enterCounter - 1
               /\ highlight' = (highlight /\ enterCounter > 1)
      <4>1. highlight' \in BOOLEAN
        BY <3>6, Zenon
      <4>2. highlight' => enterCounter > 1
        BY <3>6, Zenon
      <4>3. enterCounter' \in Nat /\ (enterCounter > 1 => enterCounter' > 0)
        BY <3>6, <3>2
      <4> QED
        BY <4>1, <4>2, <4>3, Zenon DEF DragFits
    <3> QED
      BY <3>1, <3>3, <3>4, <3>5, <3>6
  <2>3. AttachmentFollows' /\ DisabledFollows' /\ ProjectsKept'
    BY <2>1, <1>0 DEF AttachmentFollows, DisabledFollows, ProjectsKept, ShownNow
  <2> QED
    BY <2>1, <2>2, <2>3, SnippetOpen
<1>4. CASE CancelFileDialog
  <2>1. /\ UNCHANGED <<snippet, description, snippetRemove, attachmentChanged, hasAttachment,
                       shownFile, restore, saveDisabled, projects, offered, enterCounter,
                       highlight, outcome>>
        /\ dialog
        /\ \/ UNCHANGED <<snippetFile, ghost>>
           \/ snippetFile # Nothing /\ snippetFile' = Nothing /\ ghost' = TRUE
    BY <1>4 DEF CancelFileDialog, projectVars, dragVars
  <2>2. ProjectsKept' /\ DragFits'
    BY <2>1, <1>0 DEF ProjectsKept, DragFits
  <2>3. AttachmentFollows'
    BY <2>1, <1>0 DEF AttachmentFollows, ShownNow
  <2>4. DisabledFollows'
    BY <2>1, <1>0, SnippetAssumption DEF DisabledFollows
  <2> QED
    BY <2>1, <2>2, <2>3, <2>4, SnippetOpen
<1>5. CASE RemoveAttachment \/ RestoreAttachment
  <2>1. /\ \E back \in BOOLEAN : ClearAttachment(back)
        /\ UNCHANGED <<snippet, description, projects, offered, enterCounter, highlight,
                       outcome>>
        /\ Pending
    BY <1>5 DEF RemoveAttachment, RestoreAttachment, projectVars, dragVars
  <2>2. ProjectsKept' /\ DragFits'
    BY <2>1, <1>0 DEF ProjectsKept, DragFits
  <2> QED
    BY <2>1, <2>2, AttachmentCleared, SnippetOpen
<1>6. ASSUME \/ \E p \in AllProjects : AddProject(p)
             \/ \E i \in DOMAIN projects : RemoveProject(i)
      PROVE  SnippetInv'
  <2>1. /\ UNCHANGED <<snippet, description, snippetFile, snippetRemove, attachmentChanged,
                       hasAttachment, shownFile, ghost, saveDisabled, enterCounter, highlight,
                       outcome>>
        /\ Pending
    BY <1>6 DEF AddProject, RemoveProject, attachmentVars, dragVars
  <2>2. AttachmentFollows' /\ DisabledFollows' /\ DragFits'
    BY <2>1, <1>0 DEF AttachmentFollows, DisabledFollows, DragFits, ShownNow
  <2>3. ASSUME NEW p \in AllProjects, AddProject(p) PROVE ProjectsKept'
    <3>1. p \in MyProjects /\ ~Contains(projects, p) /\ SetProjects(Append(projects, p))
      BY <2>3, <1>0 DEF AddProject, ProjectsKept, Offered, ToSet, Contains
    <3>2. Append(projects, p) \in Seq(MyProjects) /\ IsInjective(Append(projects, p))
      BY <3>1, <1>0, AppendNew DEF ProjectsKept
    <3>3. ToSet(projects) \subseteq ToSet(Append(projects, p))
      BY <1>0, <3>1 DEF ProjectsKept, ToSet
    <3> QED
      BY <3>1, <3>2, <3>3, <2>1, <1>0, ProjectsSet DEF ProjectsKept
  <2>4. ASSUME NEW i \in DOMAIN projects, RemoveProject(i) PROVE ProjectsKept'
    <3> DEFINE list == RemoveAt(projects, i)
    <3>1. SetProjects(list) /\ projects[i] \notin snippet.sticky
      BY <2>4 DEF RemoveProject
    <3>2. projects \in Seq(MyProjects) /\ Len(projects) \in Nat /\ i \in 1 .. Len(projects)
      BY <1>0 DEF ProjectsKept
    <3>3. /\ list \in Seq(MyProjects) /\ Len(list) = Len(projects) - 1
          /\ \A j \in 1 .. Len(projects) - 1 :
               list[j] = IF j < i THEN projects[j] ELSE projects[j + 1]
      BY <3>2, RemoveOne
    <3>4. IsInjective(list)
      BY <3>2, <1>0, RemoveKeepsOrder DEF ProjectsKept
    <3>5. ASSUME NEW q \in snippet.sticky \cap MyProjects
          PROVE  q \in ToSet(list)
      <4>1. PICK j \in 1 .. Len(projects) : projects[j] = q
        BY <1>0, <3>2, <3>5 DEF ProjectsKept, ToSet
      <4>2. j # i
        BY <4>1, <3>1, <3>5
      <4> HIDE DEF list
      <4>3. CASE j < i
        BY <4>1, <4>3, <3>2, <3>3 DEF ToSet
      <4>4. CASE j > i
        <5>1. j - 1 \in 1 .. Len(projects) - 1 /\ list[j - 1] = projects[j]
          BY <4>4, <3>2, <3>3
        <5>2. j - 1 \in DOMAIN list
          BY <5>1, <3>3
        <5> QED
          BY <5>1, <5>2, <4>1 DEF ToSet
      <4> QED
        BY <4>2, <4>3, <4>4, <3>2
    <3> QED
      BY <3>1, <3>3, <3>4, <3>5, <2>1, ProjectsSet
  <2> QED
    BY <1>6, <2>1, <2>2, <2>3, <2>4, SnippetOpen
<1>7. CASE CancelEdit \/ DeleteSnippet
  BY <1>7, SnippetCloses DEF CancelEdit, DeleteSnippet
<1>8. CASE Save
  <2>1. CASE Close([kind |-> "unchanged"]) /\ ~attachmentChanged
             /\ snippet.text = description /\ ~ProjectsChanged
    BY <2>1, SnippetCloses
  <2>2. CASE Close([kind |-> "sent", text |-> description, file |-> snippetFile,
                    remove |-> snippetRemove, projects |-> projects]) /\ ~saveDisabled
    BY <2>2, SnippetCloses
  <2> QED
    BY <1>8, <2>1, <2>2 DEF Save
<1>9. CASE UNCHANGED snippetVars
  BY <1>9, <1>0 DEF snippetVars, SnippetInv, AttachmentFollows, DisabledFollows, ProjectsKept,
                    DragFits, ClosedFits, ShownNow, ProjectsChanged
<1> QED
  BY <1>1, <1>2, <1>3, <1>4, <1>5, <1>6, <1>7, <1>8, <1>9 DEF SnippetNext

(* A Save that changes nothing is one whose list holds the snippet's         *)
(* projects and no other.                                                    *)
LEMMA SameProjects ==
  ASSUME ProjectsKept, ~ProjectsChanged
  PROVE  ToSet(projects) = snippet.projects
<1>1. IsFiniteSet(snippet.projects) /\ Cardinality(snippet.projects) = Len(projects)
      /\ snippet.projects \subseteq ToSet(projects) /\ projects \in Seq(MyProjects)
  BY SnippetAssumption, FS_Subset DEF ProjectsKept, ProjectsChanged
<1>2. projects \in Surjection(1 .. Len(projects), ToSet(projects)) /\ Len(projects) \in Nat
  BY <1>1 DEF Surjection, ToSet
<1>3. IsFiniteSet(ToSet(projects)) /\ Cardinality(ToSet(projects)) <= Len(projects)
  <2>1. IsFiniteSet(1 .. Len(projects)) /\ Cardinality(1 .. Len(projects)) = Len(projects)
    BY <1>2, FS_Interval
  <2> QED
    BY <1>2, <2>1, FS_Surjection
<1>4. /\ Cardinality(snippet.projects) <= Cardinality(ToSet(projects))
      /\ Cardinality(ToSet(projects)) = Cardinality(snippet.projects)
           => ToSet(projects) = snippet.projects
  BY <1>1, <1>3, FS_Subset
<1>5. Cardinality(ToSet(projects)) \in Nat /\ Cardinality(snippet.projects) \in Nat
  BY <1>1, <1>3, FS_CardinalityType
<1> QED
  BY <1>1, <1>3, <1>4, <1>5

(* What Save does is what the form shows (snippetedit.ts).                   *)
THEOREM SaveIsWhatIsShown == FrontEndSpec => []SaveSendsShown
<1>1. FrontEndInit => SnippetInv
  BY SnippetStarts DEF FrontEndInit
<1>2. SnippetInv /\ [FrontEndNext]_frontEndVars => SnippetInv'
  BY SnippetStep, FrontEndSteps
<1>3. SnippetInv => SaveSendsShown
  <2> SUFFICES ASSUME SnippetInv PROVE SaveSendsShown
    OBVIOUS
  <2>0. AttachmentFollows /\ DisabledFollows /\ ProjectsKept /\ DragFits /\ ClosedFits
    BY DEF SnippetInv
  <2>1. CASE outcome.kind = "sent"
    <3>1. /\ ~saveDisabled /\ outcome.text = description /\ outcome.projects = projects
          /\ outcome.file = snippetFile /\ outcome.remove = snippetRemove
      BY <2>0, <2>1 DEF ClosedFits
    <3>2. outcome.file \notin BigAttachments
      BY <3>1, <2>0 DEF DisabledFollows
    <3>3. ASSUME ~ghost, NEW kept \in SavedAttachments(outcome)
          PROVE  \/ KeepsShown(kept)
                 \/ /\ shownFile = Nothing
                    /\ outcome.text \in LinkTexts /\ outcome.text # snippet.text
      <4>1. shownFile = ShownNow /\ snippet.attachment = FirstMedium(snippet.asset, snippet.url)
        BY <3>3, <2>0 DEF AttachmentFollows
      <4>2. StoredAttachment(outcome) =
              [asset |-> IF snippetFile # Nothing THEN snippetFile
                         ELSE IF snippetRemove THEN Nothing ELSE snippet.asset,
               url |-> IF snippetRemove THEN Nothing ELSE snippet.url]
        BY <3>1 DEF StoredAttachment
      <4>3. CASE StoredAttachment(outcome) = NoAttachment
        <5>1. shownFile = Nothing
          BY <4>1, <4>2, <4>3 DEF ShownNow, NoAttachment, FirstMedium, Nothing, Video
        <5>2. \/ kept = NoAttachment
              \/ outcome.text \in LinkTexts /\ outcome.text # snippet.text
          BY <3>3, <4>3 DEF SavedAttachments
        <5>3. KeepsShown(NoAttachment)
          BY <5>1 DEF KeepsShown, NoAttachment, FirstMedium, Nothing, Video
        <5> QED
          BY <5>1, <5>2, <5>3
      <4>4. CASE StoredAttachment(outcome) # NoAttachment
        <5>1. kept = StoredAttachment(outcome)
          BY <3>3, <4>4 DEF SavedAttachments
        <5>2. FirstMedium(kept.asset, kept.url) = shownFile
          BY <4>1, <4>2, <5>1 DEF ShownNow, FirstMedium, Nothing, Video
        <5>3. kept.url \in {Nothing, snippet.url}
          BY <4>2, <5>1
        <5>4. shownFile = Nothing /\ snippet.attachment # Nothing => kept = NoAttachment
          BY <4>1, <4>2, <5>1 DEF ShownNow, NoAttachment
        <5> QED
          BY <5>2, <5>3, <5>4 DEF KeepsShown
      <4> QED
        BY <4>3, <4>4
    <3>4. ghost \/ outcome.text # Blank \/ shownFile # Nothing
      BY <3>1, <2>0 DEF AttachmentFollows, DisabledFollows, SaveDisabled
    <3> QED
      BY <2>0, <2>1, <3>1, <3>2, <3>3, <3>4 DEF SaveSendsShown, ProjectsKept
  <2>2. CASE outcome.kind = "unchanged"
    BY <2>0, <2>2, SameProjects DEF SaveSendsShown, ClosedFits, AttachmentFollows
  <2> QED
    BY <2>0, <2>1, <2>2 DEF SaveSendsShown, DragFits
<1> QED
  BY <1>1, <1>2, <1>3, PTL DEF FrontEndSpec

-----------------------------------------------------------------------------

WallRow == Seq(WallItems)

(* The width of a row is a number, and that of an empty one 0.               *)
LEMMA RowWidths ==
  /\ \A row \in WallRow : RowWidth(row) \in Nat
  /\ RowWidth(<<>>) = 0
<1>1. ASSUME NEW row \in WallRow
      PROVE  RowWidth(row) \in Nat /\ (row = <<>> => RowWidth(row) = 0)
  <2> DEFINE n == Len(row)
             turn == [i \in 1 .. n |-> [sum \in Nat |-> sum + Widths[row[i]]]]
             IsSum(f) == f = [i \in 0 .. n |-> IF i = 0 THEN 0 ELSE f[i - 1] + Widths[row[i]]]
  <2>1. \A i \in 1 .. n : Widths[row[i]] \in Nat
    BY ShowcaseAssumption DEF WallItems, WallRow
  <2>2. n \in Nat /\ 0 \in Nat /\ IsLoop(turn, n, Nat)
    BY <2>1 DEF IsLoop, WallRow
  <2>3. PICK f \in [0 .. n -> Nat] : f[0] = 0 /\ \A i \in 1 .. n : f[i] = turn[i][f[i - 1]]
    <3> HIDE DEF turn, n
    <3>1. \E f : Runs(f, turn, n, Nat, 0)
      BY <2>2, Loop, Zenon
    <3> QED
      BY <3>1 DEF Runs
  <2>4. ASSUME NEW i \in 1 .. n PROVE f[i] = f[i - 1] + Widths[row[i]]
    <3>1. f[i - 1] \in Nat
      BY <2>2, <2>3
    <3> QED
      BY <2>3, <3>1
  <2>5. IsSum(f)
    <3>1. \A i \in 0 .. n : f[i] = IF i = 0 THEN 0 ELSE f[i - 1] + Widths[row[i]]
      BY <2>3, <2>4
    <3> QED
      BY <3>1
  <2> DEFINE sum == CHOOSE g : IsSum(g)
  <2>6. IsSum(sum)
    BY <2>5
  <2>7. RowWidth(row) = sum[n]
    BY DEF RowWidth
  <2> HIDE DEF sum
  <2>8. \A i \in 0 .. n : sum[i] = f[i]
    <3> DEFINE Wrong == {i \in 0 .. n : sum[i] # f[i]}
    <3>1. CASE Wrong # {}
      <4>1. PICK x \in Wrong : \A y \in Wrong : x <= y
        <5>1. Wrong \in SUBSET Nat
          BY <2>2, <3>1
        <5> HIDE DEF Wrong
        <5> QED
          BY <2>2, <3>1, <5>1, Smallest
      <4>2. sum[0] = 0 /\ x # 0
        BY <2>2, <2>3, <2>6
      <4>3. x - 1 \in 0 .. n /\ sum[x - 1] = f[x - 1]
        BY <4>1, <4>2
      <4>4. sum[x] = sum[x - 1] + Widths[row[x]] /\ f[x] = f[x - 1] + Widths[row[x]]
        BY <4>2, <2>4, <2>6
      <4> QED
        BY <4>3, <4>4
    <3> QED
      BY <3>1
  <2> QED
    BY <2>2, <2>3, <2>7, <2>8
<1>2. <<>> \in WallRow
  BY DEF WallRow
<1> QED
  BY <1>1, <1>2

(* What the loop of layout leaves after the first i items.                   *)
Laid(w, i, at) ==
  /\ at.done \in Seq(WallRow \ {<<>>}) /\ at.row \in WallRow
  /\ FlattenSeq(at.done) \o at.row = [k \in 1 .. i |-> k]
  /\ \A k \in 1 .. i :
       Contains(at.row, k) \/ \E r0 \in DOMAIN at.done : Contains(at.done[r0], k)
  /\ RowWidth(at.row) <= w
  /\ \A r0 \in DOMAIN at.done :
       RowWidth(Front(at.done[r0])) <= w /\ RowWidth(at.done[r0]) > w

(* An item added to a row is in it, and the others stay.                     *)
LEMMA Added ==
  ASSUME NEW S, NEW row \in Seq(S), NEW e \in S
  PROVE  /\ Append(row, e) \in Seq(S) \ {<<>>} /\ Front(Append(row, e)) = row
         /\ \A k : Contains(Append(row, e), k) <=> Contains(row, k) \/ k = e
<1>1. Append(row, e) \in Seq(S) \ {<<>>}
  BY AppendProperties
<1>2. /\ Len(Append(row, e)) = Len(row) + 1 /\ Len(row) \in Nat
      /\ Append(row, e)[Len(row) + 1] = e
      /\ \A i \in 1 .. Len(row) : Append(row, e)[i] = row[i]
  BY AppendProperties
<1>3. Front(Append(row, e)) = row
  <2>1. Front(Append(row, e)) = SubSeq(Append(row, e), 1, Len(row))
    BY <1>2 DEF Front
  <2>2. SubSeq(Append(row, e), 1, Len(row)) = row
    OBVIOUS
  <2> QED
    BY <2>1, <2>2
<1>4. ASSUME NEW k PROVE Contains(Append(row, e), k) <=> Contains(row, k) \/ k = e
  <2>1. \A i : i \in 1 .. Len(row) + 1 <=> i \in 1 .. Len(row) \/ i = Len(row) + 1
    BY <1>2
  <2> QED
    BY <1>2, <2>1 DEF Contains
<1> QED
  BY <1>1, <1>3, <1>4

(* A turn of the loop.                                                       *)
LEMMA LaysItem ==
  ASSUME NEW w \in Nat, NEW i \in Nat, i + 1 \in WallItems, NEW at, Laid(w, i, at)
  PROVE  Laid(w, i + 1, AddItem(w, at, i + 1))
<1> DEFINE e == i + 1
           row == Append(at.row, e)
           now == AddItem(w, at, e)
<1>0. /\ at.done \in Seq(WallRow \ {<<>>}) /\ at.row \in WallRow
      /\ FlattenSeq(at.done) \o at.row = [k \in 1 .. i |-> k]
      /\ \A k \in 1 .. i :
           Contains(at.row, k) \/ \E r0 \in DOMAIN at.done : Contains(at.done[r0], k)
      /\ RowWidth(at.row) <= w
      /\ \A r0 \in DOMAIN at.done :
           RowWidth(Front(at.done[r0])) <= w /\ RowWidth(at.done[r0]) > w
  BY DEF Laid
<1>1. /\ row \in WallRow \ {<<>>} /\ Front(row) = at.row
      /\ \A k : Contains(row, k) <=> Contains(at.row, k) \/ k = e
  BY <1>0, Added DEF WallRow
<1>2. /\ at.done \in Seq(WallRow) /\ FlattenSeq(at.done) \in Seq(WallItems)
      /\ FlattenSeq(Append(at.done, row)) = FlattenSeq(at.done) \o row
  <2>1. at.done \in Seq(Seq(WallItems)) /\ row \in Seq(WallItems)
    BY <1>0, <1>1, SeqMonotonic DEF WallRow
  <2> HIDE DEF row
  <2> QED
    BY <2>1, Flattened DEF WallRow
<1>3. FlattenSeq(at.done) \o row = [k \in 1 .. i + 1 |-> k]
  <2>1. e \in WallItems /\ at.row \in Seq(WallItems) /\ FlattenSeq(at.done) \in Seq(WallItems)
    BY <1>0, <1>2 DEF WallRow
  <2>2. FlattenSeq(at.done) \o Append(at.row, e) = Append(FlattenSeq(at.done) \o at.row, e)
    <3>1. \A before, s \in Seq(WallItems) : \A x \in WallItems :
            before \o Append(s, x) = Append(before \o s, x)
      BY Appended
    <3> QED
      BY <2>1, <3>1, Zenon
  <2>3. Append([k \in 1 .. i |-> k], i + 1) = [k \in 1 .. i + 1 |-> k]
    OBVIOUS
  <2> QED
    BY <2>2, <2>3, <1>0
<1>4. RowWidth(row) \in Nat /\ RowWidth(at.row) \in Nat /\ RowWidth(<<>>) = 0
  BY <1>0, <1>1, RowWidths
<1>5. \A k \in 1 .. i + 1 : k \in 1 .. i \/ k = e
  OBVIOUS
<1>6. CASE RowWidth(row) > w
  <2>1. now.done = Append(at.done, row) /\ now.row = <<>>
    BY <1>6 DEF AddItem
  <2> HIDE DEF now, row, e
  <2>2. /\ now.done \in Seq(WallRow \ {<<>>}) /\ now.row \in WallRow
        /\ Len(now.done) = Len(at.done) + 1 /\ Len(at.done) \in Nat
        /\ DOMAIN now.done = 1 .. Len(at.done) + 1 /\ DOMAIN at.done = 1 .. Len(at.done)
        /\ now.done[Len(at.done) + 1] = row
        /\ \A r0 \in DOMAIN at.done : r0 \in DOMAIN now.done /\ now.done[r0] = at.done[r0]
    <3>1. <<>> \in WallRow
      BY DEF WallRow
    <3> QED
      BY <3>1, <2>1, <1>0, <1>1
  <2>3. FlattenSeq(now.done) \o now.row = [k \in 1 .. i + 1 |-> k]
    <3>1. FlattenSeq(now.done) = [k \in 1 .. i + 1 |-> k]
      BY <2>1, <1>2, <1>3
    <3>2. FlattenSeq(now.done) \in Seq(WallItems)
      <4>1. FlattenSeq(at.done) \o row \in Seq(WallItems)
        BY <1>1, <1>2, ConcatProperties DEF WallRow
      <4> QED
        BY <4>1, <2>1, <1>2
    <3> QED
      BY <3>1, <3>2, <2>1, ConcatEmptySeq
  <2>4. ASSUME NEW k \in 1 .. i + 1
        PROVE  Contains(now.row, k) \/ \E r0 \in DOMAIN now.done : Contains(now.done[r0], k)
    <3>1. CASE Contains(row, k)
      <4>1. Len(at.done) + 1 \in DOMAIN now.done
        BY <2>2
      <4> QED
        BY <3>1, <4>1, <2>2
    <3>2. CASE ~Contains(row, k)
      <4>1. k \in 1 .. i /\ ~Contains(at.row, k)
        BY <3>2, <1>1, <1>5
      <4> QED
        BY <4>1, <1>0, <2>2
    <3> QED
      BY <3>1, <3>2
  <2>5. RowWidth(now.row) <= w
    BY <2>1, <1>4
  <2>6. ASSUME NEW r0 \in DOMAIN now.done
        PROVE  RowWidth(Front(now.done[r0])) <= w /\ RowWidth(now.done[r0]) > w
    <3>1. r0 \in DOMAIN at.done \/ r0 = Len(at.done) + 1
      BY <2>2
    <3> QED
      BY <3>1, <2>2, <1>0, <1>1, <1>6
  <2>7. Laid(w, i + 1, now)
    BY <2>2, <2>3, <2>4, <2>5, <2>6 DEF Laid
  <2> QED
    BY <2>7 DEF now, e
<1>7. CASE ~(RowWidth(row) > w)
  <2>1. now.done = at.done /\ now.row = row
    BY <1>7 DEF AddItem
  <2> HIDE DEF now, row, e
  <2>2. RowWidth(row) <= w
    BY <1>4, <1>7
  <2>3. Laid(w, i + 1, now)
    BY <2>1, <2>2, <1>0, <1>1, <1>3, <1>5 DEF Laid
  <2> QED
    BY <2>3 DEF now, e
<1> QED
  BY <1>6, <1>7

(* The wall, once laid out.                                                  *)
LEMMA LaidOut ==
  ASSUME NEW w \in Nat
  PROVE  LET wall == Layout(w)
         IN  /\ wall # <<>> /\ wall \in Seq(WallRow)
             /\ FlattenSeq(wall) = [i \in WallItems |-> i]
             /\ Len(wall) \in Nat /\ DOMAIN wall = 1 .. Len(wall)
             /\ \A r0 \in 1 .. Len(wall) - 1 :
                  RowWidth(Front(wall[r0])) <= w /\ RowWidth(wall[r0]) > w
             /\ \A i \in WallItems : \E r0 \in DOMAIN wall : Contains(wall[r0], i)
<1> DEFINE n == Len(Widths)
           start == [done |-> <<>>, row |-> <<>>]
           IsRun(f) == f = [i \in 0 .. n |-> IF i = 0 THEN start ELSE AddItem(w, f[i - 1], i)]
           run == CHOOSE f : IsRun(f)
           X == [done : Seq(WallRow), row : WallRow]
           turn == [i \in 1 .. n |-> [at \in X |-> AddItem(w, at, i)]]
<1>1. n \in Nat /\ WallItems = 1 .. n
  BY ShowcaseAssumption DEF WallItems
<1>2. start \in X /\ <<>> \in WallRow
  BY DEF WallRow
<1>3. ASSUME NEW i \in 1 .. n, NEW at \in X PROVE AddItem(w, at, i) \in X
  <2>1. Append(at.row, i) \in WallRow
    BY <1>1 DEF WallRow
  <2> QED
    BY <2>1, <1>2 DEF AddItem
<1>4. IsLoop(turn, n, X)
  BY <1>3 DEF IsLoop
<1>5. PICK f : Runs(f, turn, n, X, start)
  <2> HIDE DEF turn, n, X, start
  <2> QED
    BY <1>1, <1>2, <1>4, Loop, Zenon
<1>6. f \in [0 .. n -> X] /\ f[0] = start /\ \A i \in 1 .. n : f[i] = AddItem(w, f[i - 1], i)
  <2>1. f \in [0 .. n -> X] /\ f[0] = start /\ \A i \in 1 .. n : f[i] = turn[i][f[i - 1]]
    BY <1>5 DEF Runs
  <2>2. ASSUME NEW i \in 1 .. n PROVE f[i] = AddItem(w, f[i - 1], i)
    <3>1. i - 1 \in 0 .. n
      BY <1>1
    <3>2. f[i - 1] \in X
      BY <3>1, <2>1
    <3> QED
      BY <3>2, <2>1
  <2> QED
    BY <2>1, <2>2
<1>7. IsRun(f)
  <2> HIDE DEF X
  <2> QED
    BY <1>6
<1>8. IsRun(run)
  BY <1>7
<1>9. Layout(w) = Append(run[n].done, run[n].row)
  BY DEF Layout
<1>10. run[0] = start /\ \A i \in 1 .. n : run[i] = AddItem(w, run[i - 1], i)
  <2> HIDE DEF run
  <2> QED
    BY <1>1, <1>8
<1> HIDE DEF run
<1>11. \A i \in 0 .. n : Laid(w, i, run[i])
  <2> DEFINE Wrong == {i \in 0 .. n : ~Laid(w, i, run[i])}
  <2>1. CASE Wrong # {}
    <3>1. PICK x \in Wrong : \A y \in Wrong : x <= y
      <4>1. Wrong \in SUBSET Nat
        BY <1>1
      <4> HIDE DEF Wrong
      <4> QED
        BY <2>1, <4>1, Smallest
    <3>2. x # 0
      <4>1. Laid(w, 0, run[0])
        <5>1. FlattenSeq(<<>>) = <<>> /\ <<>> \o <<>> = [k \in 1 .. 0 |-> k]
          BY DEF FlattenSeq
        <5> QED
          BY <5>1, <1>2, <1>10, RowWidths DEF Laid
      <4> QED
        BY <4>1, <1>1
    <3>3. x \in 1 .. n /\ x - 1 \in 0 .. n /\ x - 1 \in Nat /\ x - 1 + 1 = x
      BY <3>2, <1>1
    <3>4. Laid(w, x - 1, run[x - 1])
      BY <3>1, <3>3
    <3>5. Laid(w, x - 1 + 1, AddItem(w, run[x - 1], x - 1 + 1))
      BY <3>3, <3>4, <1>1, LaysItem
    <3>6. Laid(w, x, run[x])
      BY <3>3, <3>5, <1>10
    <3> QED
      BY <3>6
  <2> QED
    BY <2>1
<1>12. Laid(w, n, run[n])
  BY <1>1, <1>11
<1> DEFINE at == run[n]
           wall == Append(at.done, at.row)
<1>13. /\ at.done \in Seq(WallRow) /\ at.row \in WallRow /\ wall \in Seq(WallRow)
       /\ Len(at.done) \in Nat /\ Len(wall) = Len(at.done) + 1 /\ wall # <<>>
       /\ DOMAIN wall = 1 .. Len(wall) /\ DOMAIN at.done = 1 .. Len(at.done)
       /\ wall[Len(wall)] = at.row /\ \A r0 \in DOMAIN at.done : wall[r0] = at.done[r0]
  <2>1. at.done \in Seq(WallRow) /\ at.row \in WallRow
    BY <1>12, SeqMonotonic DEF Laid
  <2> QED
    BY <2>1
<1>14. FlattenSeq(wall) = [i \in WallItems |-> i]
  <2>1. FlattenSeq(wall) = FlattenSeq(at.done) \o at.row
    BY <1>13, Flattened DEF WallRow
  <2> QED
    BY <2>1, <1>1, <1>12 DEF Laid
<1>15. \A i \in WallItems : \E r0 \in DOMAIN wall : Contains(wall[r0], i)
  <2> HIDE DEF wall, at
  <2> QED
    BY <1>1, <1>12, <1>13 DEF Laid, at
<1>16. \A r0 \in 1 .. Len(wall) - 1 : RowWidth(Front(wall[r0])) <= w /\ RowWidth(wall[r0]) > w
  <2>1. Len(wall) - 1 = Len(at.done)
    BY <1>13
  <2> HIDE DEF wall, at
  <2> QED
    BY <2>1, <1>12, <1>13 DEF Laid, at
<1> QED
  BY <1>9, <1>13, <1>14, <1>15, <1>16

(* The rows are the layout of the width the window has, and the thumbnails   *)
(* of a wall laid out on the screen are there.                               *)
WallInv ==
  /\ width \in Screens
  /\ justified = [r0 \in DOMAIN wallRows |-> RowWidth(wallRows[r0]) >= width]
  /\ wallRows # <<>> => wallRows = Layout(width)
  /\ thumbnails \in [WallItems -> {0, 1}]
  /\ onScreen \in BOOLEAN
  /\ wallRows # <<>> /\ onScreen => \A i \in WallItems : thumbnails[i] = 1

(* A step of the wall keeps its invariant.                                   *)
LEMMA WallStep == WallInv /\ (ShowcaseNext \/ UNCHANGED showcaseVars) => WallInv'
<1> SUFFICES ASSUME WallInv, ShowcaseNext \/ UNCHANGED showcaseVars PROVE WallInv'
  OBVIOUS
<1>1. ASSUME NEW seen \in BOOLEAN, TryLoadImages(wallRows', seen), onScreen' = seen,
             wallRows' # <<>> => wallRows' = Layout(width'), width' \in Screens,
             wallRows' = <<>> => wallRows = <<>>
      PROVE  /\ thumbnails' \in [WallItems -> {0, 1}]
             /\ wallRows' # <<>> /\ onScreen' => \A i \in WallItems : thumbnails'[i] = 1
  <2>1. ASSUME NEW i \in WallItems PROVE thumbnails[i] \in {0, 1}
    BY DEF WallInv
  <2>2. /\ thumbnails' \in [WallItems -> {0, 1}]
        /\ \A i \in WallItems : seen /\ (\E r0 \in DOMAIN wallRows' : Contains(wallRows'[r0], i))
             => thumbnails'[i] = 1
    BY <1>1, <2>1 DEF TryLoadImages
  <2>3. ASSUME wallRows' # <<>>, NEW i \in WallItems
        PROVE  \E r0 \in DOMAIN wallRows' : Contains(wallRows'[r0], i)
    <3>1. width' \in Nat
      BY <1>1, ShowcaseAssumption
    <3> QED
      BY <3>1, <2>3, <1>1, LaidOut
  <2> QED
    BY <1>1, <2>2, <2>3
<1>2. ASSUME NEW w \in Screens, LayOut(w), width' = w
      PROVE  /\ justified' = [r0 \in DOMAIN wallRows' |-> RowWidth(wallRows'[r0]) >= width']
             /\ wallRows' = Layout(width') /\ wallRows' # <<>> /\ width' \in Screens
  <2>1. w \in Nat
    BY ShowcaseAssumption
  <2> QED
    BY <2>1, <1>2, LaidOut DEF LayOut
<1>3. CASE DOMContentLoaded
  <2>1. width \in Screens /\ LayOut(width) /\ width' = width /\ onScreen' = onScreen
        /\ onScreen \in BOOLEAN
        /\ TryLoadImages(wallRows', onScreen)
    BY <1>3 DEF DOMContentLoaded, WallInv
  <2>2. /\ justified' = [r0 \in DOMAIN wallRows' |-> RowWidth(wallRows'[r0]) >= width']
        /\ wallRows' = Layout(width') /\ wallRows' # <<>> /\ width' \in Screens
    BY <2>1, <1>2
  <2>3. /\ thumbnails' \in [WallItems -> {0, 1}]
        /\ onScreen' => \A i \in WallItems : thumbnails'[i] = 1
    BY <2>1, <2>2, <1>1
  <2> QED
    BY <2>1, <2>2, <2>3 DEF WallInv
<1>4. ASSUME NEW w \in Screens, NEW seen \in BOOLEAN, Resize(w, seen) PROVE WallInv'
  <2>1. width' = w /\ LayOut(w) /\ onScreen' = seen /\ TryLoadImages(wallRows', seen)
    BY <1>4 DEF Resize
  <2>2. /\ justified' = [r0 \in DOMAIN wallRows' |-> RowWidth(wallRows'[r0]) >= width']
        /\ wallRows' = Layout(width') /\ wallRows' # <<>> /\ width' \in Screens
    BY <2>1, <1>2
  <2> QED
    BY <2>1, <2>2, <1>1 DEF WallInv
<1>5. ASSUME NEW seen \in BOOLEAN, Scroll(seen) PROVE WallInv'
  <2>1. UNCHANGED <<width, wallRows, justified>> /\ onScreen' = seen
        /\ TryLoadImages(wallRows', seen)
    BY <1>5 DEF Scroll, wallVars
  <2> QED
    BY <2>1, <1>1 DEF WallInv
<1>6. CASE (\E i \in WallItems : ClickItem(i)) \/ CloseModal \/ UNCHANGED showcaseVars
  <2>1. UNCHANGED <<width, wallRows, justified, onScreen, thumbnails>>
    BY <1>6 DEF ClickItem, CloseModal, showcaseVars, wallVars
  <2> QED
    BY <2>1 DEF WallInv
<1> QED
  BY <1>3, <1>4, <1>5, <1>6 DEF ShowcaseNext

(* It starts with it.                                                        *)
LEMMA WallStarts == ShowcaseInit => WallInv
<1> SUFFICES ASSUME ShowcaseInit PROVE WallInv
  OBVIOUS
<1>1. /\ width \in Screens /\ wallRows = <<>> /\ justified = <<>>
      /\ thumbnails = [i \in WallItems |-> 0] /\ onScreen \in BOOLEAN
  BY DEF ShowcaseInit
<1>2. justified = [r0 \in DOMAIN wallRows |-> RowWidth(wallRows[r0]) >= width]
  BY <1>1
<1> QED
  BY <1>1, <1>2 DEF WallInv

(* And it says that the wall is complete.                                    *)
LEMMA WallIsComplete == WallInv => WallComplete
<1> SUFFICES ASSUME WallInv, wallRows # <<>>
    PROVE /\ FlattenSeq(wallRows) = [i \in WallItems |-> i]
          /\ \A r0 \in 1 .. Len(wallRows) - 1 :
               /\ RowWidth(Front(wallRows[r0])) <= width
               /\ RowWidth(wallRows[r0]) > width /\ justified[r0]
          /\ \A i \in WallItems : thumbnails[i] <= 1 /\ (ready /\ onScreen => thumbnails[i] = 1)
  BY DEF WallComplete
<1>1. width \in Nat /\ wallRows = Layout(width)
  BY ShowcaseAssumption DEF WallInv
<1>2. /\ FlattenSeq(wallRows) = [i \in WallItems |-> i]
      /\ Len(wallRows) \in Nat /\ DOMAIN wallRows = 1 .. Len(wallRows)
      /\ \A r0 \in 1 .. Len(wallRows) - 1 :
           RowWidth(Front(wallRows[r0])) <= width /\ RowWidth(wallRows[r0]) > width
  BY <1>1, LaidOut
<1>3. ASSUME NEW r0 \in 1 .. Len(wallRows) - 1 PROVE justified[r0]
  <2>1. r0 \in DOMAIN wallRows
    BY <1>2
  <2>2. justified[r0] = (RowWidth(wallRows[r0]) >= width)
    BY <2>1 DEF WallInv
  <2>3. RowWidth(wallRows[r0]) > width
    BY <1>2
  <2>4. RowWidth(wallRows[r0]) \in Nat
    <3>1. wallRows \in Seq(WallRow)
      BY <1>1, LaidOut
    <3>2. wallRows[r0] \in WallRow
      BY <2>1, <3>1
    <3> QED
      BY <3>2, RowWidths
  <2>5. RowWidth(wallRows[r0]) >= width
    BY <2>3, <2>4, <1>1
  <2> QED
    BY <2>2, <2>5, Zenon
<1>4. \A i \in WallItems : thumbnails[i] <= 1 /\ (onScreen => thumbnails[i] = 1)
  <2>1. \A i \in WallItems : thumbnails[i] \in {0, 1}
    BY DEF WallInv
  <2>2. \A i \in WallItems : thumbnails[i] <= 1
    BY <2>1
  <2> QED
    BY <2>2 DEF WallInv
<1> QED
  BY <1>2, <1>3, <1>4

-----------------------------------------------------------------------------
(*****************************************************************************)
(* The performance page.  Which of two requests comes first is decided, so   *)
(* their ranks are all different and a route's list holds each of its        *)
(* requests.                                                                 *)
(*****************************************************************************)
Requests == [route : Routes, duration : Durations]

(* The requests of a route are listed, all of them and no other.             *)
LEMMA RankedRecords ==
  ASSUME records \in Seq(Requests), NEW r0
  PROVE  ToSet(RouteRecords(r0)) = {n \in DOMAIN records : records[n].route = r0}
<1> DEFINE theirs == {n \in DOMAIN records : records[n].route = r0}
           before(n) == {m \in theirs : Precedes(m, n)}
           c == Cardinality(theirs)
           listed == RouteRecords(r0)
           rank == [n \in theirs |-> Cardinality(before(n)) + 1]
<1>1. /\ Len(records) \in Nat /\ DOMAIN records = 1 .. Len(records)
      /\ \A n \in DOMAIN records : records[n].duration \in Nat /\ n \in Nat
  <2>1. Durations \subseteq Nat
    BY PerfmonAssumption
  <2>2. Len(records) \in Nat /\ DOMAIN records = 1 .. Len(records)
    OBVIOUS
  <2>3. \A n \in DOMAIN records : records[n] \in Requests
    OBVIOUS
  <2>4. \A q \in Requests : q.duration \in Nat
    BY <2>1 DEF Requests
  <2>5. \A n \in DOMAIN records : n \in Nat
    BY <2>2
  <2> QED
    BY <2>2, <2>3, <2>4, <2>5, Zenon
<1>2. IsFiniteSet(theirs) /\ c \in Nat /\ theirs \subseteq DOMAIN records
  <2>1. IsFiniteSet(1 .. Len(records)) /\ theirs \in SUBSET (1 .. Len(records))
    BY <1>1, FS_Interval
  <2>2. IsFiniteSet(theirs)
    BY <2>1, FS_Subset
  <2> QED
    BY <2>2, FS_CardinalityType
<1>3. \A m, n \in theirs : m # n => Precedes(m, n) \/ Precedes(n, m)
  BY <1>1 DEF Precedes
<1>4. \A n \in theirs : ~Precedes(n, n)
  BY <1>1 DEF Precedes
<1>5. \A l, m, n \in theirs : Precedes(l, m) /\ Precedes(m, n) => Precedes(l, n)
  BY <1>1 DEF Precedes
<1>6. ASSUME NEW n \in theirs
      PROVE  /\ IsFiniteSet(before(n)) /\ Cardinality(before(n)) \in Nat
             /\ Cardinality(before(n)) + 1 <= c
  <2>1. before(n) \in SUBSET theirs /\ n \notin before(n) /\ before(n) \cup {n} \in SUBSET theirs
    BY <1>4
  <2> HIDE DEF before, theirs
  <2>2. IsFiniteSet(before(n)) /\ Cardinality(before(n)) \in Nat
    BY <1>2, <2>1, FS_Subset, FS_CardinalityType
  <2>3. Cardinality(before(n) \cup {n}) = Cardinality(before(n)) + 1
    BY <2>1, <2>2, FS_AddElement
  <2>4. Cardinality(before(n) \cup {n}) <= Cardinality(theirs)
    BY <2>1, <1>2, FS_Subset
  <2> QED
    BY <2>2, <2>3, <2>4
<1>7. ASSUME NEW m \in theirs, NEW n \in theirs, Precedes(m, n)
      PROVE  Cardinality(before(m)) < Cardinality(before(n))
  <2>1. m \notin before(m) /\ before(m) \cup {m} \in SUBSET before(n)
    BY <1>4, <1>5, <1>7
  <2>2. IsFiniteSet(before(m)) /\ IsFiniteSet(before(n))
        /\ Cardinality(before(m)) \in Nat /\ Cardinality(before(n)) \in Nat
    BY <1>6
  <2> HIDE DEF before, theirs
  <2>3. Cardinality(before(m) \cup {m}) = Cardinality(before(m)) + 1
    BY <2>1, <2>2, FS_AddElement
  <2>4. Cardinality(before(m) \cup {m}) <= Cardinality(before(n))
    BY <2>1, <2>2, FS_Subset
  <2> QED
    BY <2>2, <2>3, <2>4
<1>8. rank \in Injection(theirs, 1 .. c)
  <2>1. rank \in [theirs -> 1 .. c]
    <3> HIDE DEF before
    <3> QED
      BY <1>6, <1>2
  <2>2. ASSUME NEW m \in theirs, NEW n \in theirs, rank[m] = rank[n] PROVE m = n
    <3>1. Cardinality(before(m)) \in Nat /\ Cardinality(before(n)) \in Nat
          /\ rank[m] = Cardinality(before(m)) + 1 /\ rank[n] = Cardinality(before(n)) + 1
      BY <1>6
    <3>2. Cardinality(before(m)) = Cardinality(before(n))
      BY <3>1, <2>2
    <3>3. ~Precedes(m, n) /\ ~Precedes(n, m)
      <4> HIDE DEF before, theirs
      <4> QED
        BY <3>1, <3>2, <1>7
    <3> QED
      BY <3>3, <1>3
  <2> HIDE DEF rank
  <2> QED
    BY <2>1, <2>2 DEF Injection, IsInjective
<1>9. rank \in Surjection(theirs, 1 .. c)
  <2>1. IsFiniteSet(1 .. c) /\ Cardinality(1 .. c) = c
    BY <1>2, FS_Interval
  <2> HIDE DEF rank
  <2> QED
    BY <2>1, <1>2, <1>8, FS_Injection
<1>10. /\ \A k \in 1 .. c : \E n \in theirs : Cardinality(before(n)) = k - 1
       /\ \A n \in theirs : \E k \in 1 .. c : Cardinality(before(n)) = k - 1
       /\ \A m, n \in theirs : Cardinality(before(m)) = Cardinality(before(n)) => m = n
  <2>1. \A k \in 1 .. c : \E n \in theirs : rank[n] = k
    BY <1>9 DEF Surjection
  <2>2. \A n \in theirs : Cardinality(before(n)) \in Nat /\ Cardinality(before(n)) + 1 <= c
    BY <1>6
  <2>3. \A m, n \in theirs : rank[m] = rank[n] => m = n
    BY <1>8 DEF Injection, IsInjective
  <2>4. \A n \in theirs : rank[n] = Cardinality(before(n)) + 1
    OBVIOUS
  <2> HIDE DEF rank, before, theirs
  <2>5. ASSUME NEW k \in 1 .. c PROVE \E n \in theirs : Cardinality(before(n)) = k - 1
    <3>1. PICK n \in theirs : rank[n] = k
      BY <2>1
    <3> QED
      BY <3>1, <2>2, <2>4
  <2>6. ASSUME NEW n \in theirs
        PROVE  \E k \in 1 .. c : Cardinality(before(n)) = k - 1
    <3>1. rank[n] \in 1 .. c /\ Cardinality(before(n)) \in Nat
          /\ rank[n] = Cardinality(before(n)) + 1
      BY <2>2, <2>4, <1>2
    <3> QED
      BY <3>1
  <2>7. ASSUME NEW m \in theirs, NEW n \in theirs, Cardinality(before(m)) = Cardinality(before(n))
        PROVE  m = n
    BY <2>3, <2>4, <2>7
  <2> QED
    BY <2>5, <2>6, <2>7
<1>11. DOMAIN listed = 1 .. c
       /\ \A k \in 1 .. c : listed[k] = CHOOSE n \in theirs : Cardinality(before(n)) = k - 1
  BY DEF RouteRecords
<1> HIDE DEF listed, before, theirs, c
<1>12. \A k \in 1 .. c : listed[k] \in theirs /\ Cardinality(before(listed[k])) = k - 1
  <2> TAKE k \in 1 .. c
  <2>1. \E n \in theirs : Cardinality(before(n)) = k - 1
    BY <1>10
  <2>2. listed[k] = CHOOSE n \in theirs : Cardinality(before(n)) = k - 1
    BY <1>11
  <2> QED
    BY <2>1, <2>2
<1>13. \A n \in theirs : \E k \in DOMAIN listed : listed[k] = n
  <2> TAKE n \in theirs
  <2>1. PICK k0 \in 1 .. c : Cardinality(before(n)) = k0 - 1
    BY <1>10
  <2>2. listed[k0] \in theirs /\ Cardinality(before(listed[k0])) = k0 - 1
    BY <2>1, <1>12
  <2>3. listed[k0] = n
    <3>1. Cardinality(before(listed[k0])) = Cardinality(before(n))
      BY <2>1, <2>2
    <3> QED
      BY <3>1, <2>2, <1>10, Zenon
  <2> QED
    BY <2>1, <2>3, <1>11
<1>14. ToSet(listed) = theirs
  BY <1>11, <1>12, <1>13 DEF ToSet
<1> QED
  BY <1>14 DEF listed, theirs

(* The requests shown are those of the route marked.                         *)
RoutesInv ==
  /\ records \in Seq(Requests)
  /\ \/ marked = {} /\ activeRoute = NoRoute /\ shown = Recents
     \/ marked = {activeRoute} /\ activeRoute \in Routes /\ shown = RouteRecords(activeRoute)

(* A step of the page keeps that.                                            *)
LEMMA RoutesStep == RoutesInv /\ (PerfmonNext \/ UNCHANGED perfmonVars) => RoutesInv'
<1> SUFFICES ASSUME RoutesInv, PerfmonNext \/ UNCHANGED perfmonVars PROVE RoutesInv'
  OBVIOUS
<1>1. records' = records => Recents' = Recents /\ \A r0 : RouteRecords(r0)' = RouteRecords(r0)
  BY DEF Recents, Newest, RouteRecords, Precedes
<1>2. ASSUME NEW r0 \in Routes, ClickRoute(r0) PROVE RoutesInv'
  <2>1. NoRoute # r0 /\ records' = records
    BY <1>2, PerfmonAssumption DEF ClickRoute
  <2>2. CASE r0 = activeRoute
    <3>1. marked = {activeRoute} /\ activeRoute' = NoRoute /\ marked' = marked \ {r0}
          /\ shown' = Recents
      BY <1>2, <2>1, <2>2 DEF ClickRoute, RoutesInv
    <3>2. marked' = {}
      BY <3>1, <2>2
    <3> QED
      BY <3>1, <3>2, <2>1, <1>1 DEF RoutesInv
  <2>3. CASE r0 # activeRoute
    <3>1. activeRoute' = r0 /\ marked' = {r0} /\ shown' = RouteRecords(r0)
      BY <1>2, <2>3 DEF ClickRoute
    <3>2. RouteRecords(activeRoute)' = RouteRecords(r0)
      BY <3>1, <2>1 DEF RouteRecords, Precedes
    <3> QED
      BY <3>1, <3>2, <2>1 DEF RoutesInv
  <2> QED
    BY <2>2, <2>3
<1>3. CASE UNCHANGED perfmonVars
  <2>1. UNCHANGED <<records, activeRoute, shown, marked>>
    BY <1>3 DEF perfmonVars
  <2>2. RouteRecords(activeRoute)' = RouteRecords(activeRoute)
    BY <2>1 DEF RouteRecords, Precedes
  <2> QED
    BY <2>1, <2>2, <1>1 DEF RoutesInv
<1> QED
  BY <1>2, <1>3 DEF PerfmonNext

(* The flame graph.  The blocks one request can have.                        *)
FlamesInv == blocks \in Seq(Blocks) /\ WellNested(blocks)

(* The block an ended one is put into ends no earlier, and all the blocks    *)
(* further in end before.                                                    *)
LEMMA InnermostEncloses ==
  ASSUME NEW bs, NEW o, Len(o) \in Nat, NEW end \in Int,
         \A k \in 1 .. Len(o) : bs[o[k]].end \in Int
  PROVE  /\ Innermost(bs, o, end) \in 0 .. Len(o)
         /\ Innermost(bs, o, end) # 0 => end <= bs[o[Innermost(bs, o, end)]].end
         /\ \A m \in Innermost(bs, o, end) + 1 .. Len(o) : end > bs[o[m]].end
<1> DEFINE Outside == {k \in 0 .. Len(o) : \A m \in k + 1 .. Len(o) : end > bs[o[m]].end}
           Is(k) == /\ k # 0 => end <= bs[o[k]].end
                    /\ \A m \in k + 1 .. Len(o) : end > bs[o[m]].end
<1>1. Outside \in SUBSET Nat /\ Outside # {}
  <2>1. Len(o) \in Outside
    OBVIOUS
  <2> QED
    BY <2>1
<1>2. PICK x \in Outside : \A y \in Outside : x <= y
  <2> HIDE DEF Outside
  <2> QED
    BY <1>1, Smallest
<1>3. ASSUME x # 0 PROVE end <= bs[o[x]].end
  <2>1. x - 1 \notin Outside /\ x - 1 \in 0 .. Len(o)
    <3>1. x \in 0 .. Len(o)
      BY <1>2
    <3>2. x - 1 \in 0 .. Len(o) /\ ~(x <= x - 1)
      BY <3>1, <1>3
    <3> HIDE DEF Outside
    <3> QED
      BY <3>2, <1>2
  <2>2. PICK m \in x - 1 + 1 .. Len(o) : ~(end > bs[o[m]].end)
    BY <2>1
  <2>3. m = x
    BY <2>2, <1>2
  <2>4. bs[o[x]].end \in Int
    BY <1>2, <1>3
  <2> QED
    BY <2>2, <2>3, <2>4
<1>4. x \in 0 .. Len(o) /\ Is(x)
  BY <1>2, <1>3
<1>5. Innermost(bs, o, end) = CHOOSE k \in 0 .. Len(o) : Is(k)
  BY DEF Innermost
<1> HIDE DEF Is
<1>6. Innermost(bs, o, end) \in 0 .. Len(o) /\ Is(Innermost(bs, o, end))
  BY <1>4, <1>5
<1> QED
  BY <1>6 DEF Is

(* The blocks open when a block has started: how they follow from the ones   *)
(* open before it.                                                           *)
LEMMA OpenBlocks ==
  ASSUME blocks \in Seq(Blocks)
  PROVE  LET n    == Len(blocks)
             open == Open(blocks)
         IN  /\ n \in Nat /\ open \in [0 .. n -> Seq(1 .. n)] /\ open[0] = <<>>
             /\ \A i \in 1 .. n :
                  open[i] = Append(SubSeq(open[i - 1], 1,
                                          Innermost(blocks, open[i - 1], blocks[i].end)), i)
<1> DEFINE n == Len(blocks)
           X == Seq(1 .. n)
           put(o, i) == Append(SubSeq(o, 1, Innermost(blocks, o, blocks[i].end)), i)
           turn == [i \in 1 .. n |-> [o \in X |-> put(o, i)]]
           IsOpen(f) == f = [i \in 0 .. n |-> IF i = 0 THEN <<>> ELSE put(f[i - 1], i)]
           open == CHOOSE f : IsOpen(f)
<1>1. n \in Nat /\ <<>> \in X /\ DOMAIN blocks = 1 .. n /\ \A i \in 1 .. n : blocks[i].end \in Int
  <2>1. MaxEnd \in Nat
    BY PerfmonAssumption
  <2>2. \A i \in 1 .. n : blocks[i] \in Blocks
    OBVIOUS
  <2>3. \A b \in Blocks : b.end \in Int
    BY <2>1 DEF Blocks
  <2> QED
    BY <2>2, <2>3
<1>2. ASSUME NEW i \in 1 .. n, NEW o \in X PROVE put(o, i) \in X
  <2>1. \A k \in 1 .. Len(o) : o[k] \in 1 .. n
    OBVIOUS
  <2>2. Innermost(blocks, o, blocks[i].end) \in 0 .. Len(o)
    <3>1. Len(o) \in Nat /\ blocks[i].end \in Int
      BY <1>1
    <3>2. \A k \in 1 .. Len(o) : blocks[o[k]].end \in Int
      BY <1>1, <2>1
    <3> HIDE DEF X, n
    <3> QED
      BY <3>1, <3>2, InnermostEncloses
  <2> DEFINE k0 == Innermost(blocks, o, blocks[i].end)
  <2> HIDE DEF k0
  <2>3. k0 \in 0 .. Len(o)
    BY <2>2 DEF k0
  <2>4. SubSeq(o, 1, k0) \in Seq(1 .. n)
    BY <2>3
  <2>5. Append(SubSeq(o, 1, k0), i) \in X
    BY <2>4
  <2> QED
    BY <2>5 DEF k0
<1>3. IsLoop(turn, n, X)
  BY <1>2 DEF IsLoop
<1>4. PICK f : Runs(f, turn, n, X, <<>>)
  <2> HIDE DEF turn, n, X
  <2> QED
    BY <1>1, <1>3, Loop, Zenon
<1>5. f \in [0 .. n -> X] /\ f[0] = <<>> /\ \A i \in 1 .. n : f[i] = put(f[i - 1], i)
  <2>1. f \in [0 .. n -> X] /\ f[0] = <<>> /\ \A i \in 1 .. n : f[i] = turn[i][f[i - 1]]
    BY <1>4 DEF Runs
  <2>2. ASSUME NEW i \in 1 .. n PROVE f[i] = put(f[i - 1], i)
    <3>1. i - 1 \in 0 .. n
      BY <1>1
    <3>2. f[i - 1] \in X
      BY <3>1, <2>1
    <3>3. turn[i][f[i - 1]] = put(f[i - 1], i)
      <4> HIDE DEF put, X
      <4> QED
        BY <3>2
    <3> QED
      BY <3>3, <2>1
  <2> QED
    BY <2>1, <2>2
<1> HIDE DEF put, X
<1>6. IsOpen(f)
  BY <1>5
<1>7. IsOpen(open)
  BY <1>6
<1>8. Open(blocks) = open
  BY DEF Open, put
<1> HIDE DEF open
<1>9. open \in [0 .. n -> X] /\ open[0] = <<>> /\ \A i \in 1 .. n : open[i] = put(open[i - 1], i)
  <2>1. \A i \in 0 .. n : open[i] = IF i = 0 THEN <<>> ELSE put(open[i - 1], i)
    BY <1>7
  <2>2. open[0] = <<>> /\ \A i \in 1 .. n : open[i] = put(open[i - 1], i)
    BY <2>1, <1>1
  <2>3. \A i \in 0 .. n : open[i] \in X
    <3> DEFINE Wrong == {i \in 0 .. n : open[i] \notin X}
    <3>1. CASE Wrong # {}
      <4>1. PICK x \in Wrong : \A y \in Wrong : x <= y
        <5>1. Wrong \in SUBSET Nat
          BY <1>1
        <5> HIDE DEF Wrong
        <5> QED
          BY <3>1, <5>1, Smallest
      <4>2. x # 0
        BY <2>2, <1>1
      <4>3. x \in 1 .. n /\ x - 1 \in 0 .. n /\ x - 1 \notin Wrong
        BY <4>1, <4>2, <1>1
      <4>4. open[x - 1] \in X
        BY <4>3
      <4>5. put(open[x - 1], x) \in X
        BY <4>3, <4>4, <1>2
      <4> QED
        BY <4>1, <4>3, <4>5, <2>2
    <3> QED
      BY <3>1
  <2>4. open = [i \in 0 .. n |-> open[i]]
    BY <1>7
  <2> QED
    BY <2>2, <2>3, <2>4
<1> QED
  BY <1>1, <1>8, <1>9 DEF put, X

(* Open blocks, outermost first, are in the order they started, and one ends *)
(* no later than those around it.                                            *)
Stacked(i, o) ==
  /\ o \in Seq(1 .. i)
  /\ \A a, b \in 1 .. Len(o) : a < b => o[a] < o[b] /\ blocks[o[b]].end <= blocks[o[a]].end

(* What a block is put on: all of the open blocks that do not end before it. *)
LEMMA PutOn ==
  ASSUME blocks \in Seq(Blocks), NEW i \in 1 .. Len(blocks), NEW o, Stacked(i - 1, o)
  PROVE  LET k   == Innermost(blocks, o, blocks[i].end)
             now == Append(SubSeq(o, 1, k), i)
         IN  /\ k \in 0 .. Len(o) /\ Len(o) \in Nat
             /\ \A m \in k + 1 .. Len(o) : blocks[i].end > blocks[o[m]].end
             /\ Len(now) = k + 1 /\ now[k + 1] = i /\ \A a \in 1 .. k : now[a] = o[a]
             /\ Stacked(i, now)
<1> DEFINE n == Len(blocks)
           k == Innermost(blocks, o, blocks[i].end)
           now == Append(SubSeq(o, 1, k), i)
           end(m) == blocks[m].end
<1>1. n \in Nat /\ DOMAIN blocks = 1 .. n /\ i \in 1 .. n /\ i - 1 \in Nat
      /\ \A m \in 1 .. n : end(m) \in Int
  <2>1. MaxEnd \in Nat
    BY PerfmonAssumption
  <2>2. \A m \in 1 .. n : blocks[m] \in Blocks
    OBVIOUS
  <2>3. \A b \in Blocks : b.end \in Int
    BY <2>1 DEF Blocks
  <2> QED
    BY <2>2, <2>3
<1>2. /\ o \in Seq(1 .. i - 1) /\ Len(o) \in Nat
      /\ \A a \in 1 .. Len(o) : o[a] \in 1 .. i - 1 /\ o[a] \in 1 .. n /\ o[a] < i
      /\ \A a, b \in 1 .. Len(o) : a < b => o[a] < o[b] /\ end(o[b]) <= end(o[a])
  <2>1. o \in Seq(1 .. i - 1)
    BY DEF Stacked
  <2>2. \A m \in 1 .. i - 1 : m \in 1 .. n /\ m < i
    BY <1>1
  <2>3. \A a \in 1 .. Len(o) : o[a] \in 1 .. i - 1
    BY <2>1
  <2> QED
    BY <2>1, <2>2, <2>3 DEF Stacked
<1>3. /\ k \in 0 .. Len(o)
      /\ k # 0 => end(i) <= end(o[k])
      /\ \A m \in k + 1 .. Len(o) : end(i) > end(o[m])
  <2>1. Len(o) \in Nat /\ blocks[i].end \in Int /\ \A a \in 1 .. Len(o) : blocks[o[a]].end \in Int
    BY <1>1, <1>2
  <2> QED
    BY <2>1, InnermostEncloses
<1> HIDE DEF k, end
<1>4. /\ now \in Seq(1 .. i) /\ Len(now) = k + 1 /\ now[k + 1] = i
      /\ \A a \in 1 .. k : now[a] = o[a]
  <2>1. o \in Seq(1 .. i)
    <3>1. 1 .. i - 1 \subseteq 1 .. i
      BY <1>1
    <3> HIDE DEF n
    <3> QED
      BY <1>2, <3>1, SeqMonotonic
  <2>2. /\ SubSeq(o, 1, k) \in Seq(1 .. i) /\ Len(SubSeq(o, 1, k)) = k
        /\ \A a \in 1 .. k : SubSeq(o, 1, k)[a] = o[a]
    BY <2>1, <1>2, <1>3
  <2>3. i \in 1 .. i /\ k \in Nat
    BY <1>1, <1>2, <1>3
  <2> QED
    BY <2>2, <2>3
<1> HIDE DEF now
<1>5. ASSUME NEW a \in 1 .. k + 1, NEW b \in 1 .. k + 1, a < b
      PROVE  now[a] < now[b] /\ end(now[b]) <= end(now[a])
  <2>1. a \in 1 .. k /\ a \in 1 .. Len(o) /\ k # 0 /\ k \in 1 .. Len(o)
    BY <1>2, <1>3, <1>5
  <2>2. now[a] = o[a] /\ o[a] < i
    BY <2>1, <1>2, <1>4
  <2>3. CASE b = k + 1
    <3>1. end(o[k]) <= end(o[a])
      BY <2>1, <1>1, <1>2
    <3>2. end(i) \in Int /\ end(o[k]) \in Int /\ end(o[a]) \in Int
      BY <2>1, <1>1, <1>2
    <3>3. end(i) <= end(o[a])
      BY <2>1, <3>1, <3>2, <1>3
    <3> QED
      BY <2>2, <2>3, <3>3, <1>4
  <2>4. CASE b # k + 1
    <3>1. b \in 1 .. k /\ b \in 1 .. Len(o)
      BY <2>1, <2>4, <1>2, <1>3
    <3>2. now[b] = o[b]
      BY <3>1, <1>4
    <3> QED
      BY <2>1, <2>2, <3>1, <3>2, <1>2, <1>5
  <2> QED
    BY <2>3, <2>4
<1>6. Stacked(i, now)
  <2>1. \A a, b \in 1 .. Len(now) : a < b => now[a] < now[b] /\ end(now[b]) <= end(now[a])
    BY <1>4, <1>5
  <2> QED
    BY <2>1, <1>4 DEF Stacked, end
<1> QED
  BY <1>2, <1>3, <1>4, <1>6 DEF k, now, end

(* So it is after every block.                                               *)
LEMMA AllStacked ==
  ASSUME blocks \in Seq(Blocks)
  PROVE  \A i \in 0 .. Len(blocks) : Stacked(i, Open(blocks)[i])
<1> DEFINE n == Len(blocks)
           open == Open(blocks)
           Wrong == {i \in 0 .. n : ~Stacked(i, open[i])}
<1>1. /\ n \in Nat /\ open[0] = <<>>
      /\ \A i \in 1 .. n :
           open[i] = Append(SubSeq(open[i - 1], 1,
                                   Innermost(blocks, open[i - 1], blocks[i].end)), i)
  BY OpenBlocks
<1> HIDE DEF open
<1>2. CASE Wrong # {}
  <2>1. PICK x \in Wrong : \A y \in Wrong : x <= y
    <3>1. Wrong \in SUBSET Nat
      BY <1>1
    <3> HIDE DEF Wrong
    <3> QED
      BY <1>2, <3>1, Smallest
  <2>2. x # 0
    <3>1. Stacked(0, <<>>)
      BY DEF Stacked
    <3> QED
      BY <3>1, <2>1, <1>1
  <2>3. x \in 1 .. n /\ x - 1 \in 0 .. n /\ Stacked(x - 1, open[x - 1])
    BY <2>1, <2>2, <1>1
  <2>4. Stacked(x, open[x])
    <3> DEFINE o == open[x - 1]
    <3>1. Stacked(x, Append(SubSeq(o, 1, Innermost(blocks, o, blocks[x].end)), x))
      <4> HIDE DEF o
      <4> QED
        BY <2>3, PutOn DEF o
    <3>2. open[x] = Append(SubSeq(o, 1, Innermost(blocks, o, blocks[x].end)), x)
      BY <2>3, <1>1
    <3> QED
      BY <3>1, <3>2
  <2> QED
    BY <2>4
<1> QED
  BY <1>2 DEF open

(* A block is drawn below the one it ran in.                                 *)
LEMMA ParentEncloses ==
  ASSUME FlamesInv, NEW i \in DOMAIN blocks, Parents(blocks)[i] # 0
  PROVE  /\ blocks[Parents(blocks)[i]].start <= blocks[i].start
         /\ blocks[i].end <= blocks[Parents(blocks)[i]].end
<1> DEFINE n == Len(blocks)
           open == Open(blocks)
           o == open[i]
           p == Parents(blocks)[i]
<1>1. blocks \in Seq(Blocks) /\ n \in Nat /\ DOMAIN blocks = 1 .. n
  BY DEF FlamesInv
<1>2. i \in 1 .. n /\ i \in 0 .. n /\ i - 1 \in 0 .. n /\ Stacked(i, o) /\ Stacked(i - 1, open[i - 1])
  <2>1. i \in 1 .. n /\ i \in 0 .. n /\ i - 1 \in 0 .. n
    BY <1>1
  <2> QED
    BY <2>1, <1>1, AllStacked
<1>3. Len(o) \in Nat /\ Len(o) # 0 /\ o[Len(o)] = i /\ \A a \in 1 .. Len(o) : o[a] \in 1 .. i
  <2> DEFINE k == Innermost(blocks, open[i - 1], blocks[i].end)
             now == Append(SubSeq(open[i - 1], 1, k), i)
  <2>1. k \in 0 .. Len(open[i - 1]) /\ Len(open[i - 1]) \in Nat /\ Len(now) = k + 1 /\ now[k + 1] = i
    BY <1>1, <1>2, PutOn
  <2>2. o = now
    BY <1>1, <1>2, OpenBlocks
  <2>3. o \in Seq(1 .. i)
    BY <1>2 DEF Stacked
  <2>4. \A a \in 1 .. Len(o) : o[a] \in 1 .. i
    BY <2>3
  <2>5. k \in Nat /\ Len(o) = k + 1 /\ o[k + 1] = i
    <3> HIDE DEF k, now, o
    <3> QED
      BY <2>1, <2>2
  <2> HIDE DEF k, o
  <2> QED
    BY <2>4, <2>5
<1>4. p = IF Len(o) = 1 THEN 0 ELSE o[Len(o) - 1]
  BY <1>1 DEF Parents
<1> HIDE DEF o, open, p
<1>5. Len(o) - 1 \in 1 .. Len(o) /\ Len(o) \in 1 .. Len(o) /\ Len(o) - 1 < Len(o)
      /\ p = o[Len(o) - 1]
  <2>1. p # 0
    BY DEF p
  <2>2. Len(o) # 1
    BY <2>1, <1>4
  <2>3. p = o[Len(o) - 1]
    BY <2>2, <1>4
  <2>4. Len(o) \in Nat /\ Len(o) # 0
    BY <1>3
  <2>5. Len(o) - 1 \in 1 .. Len(o) /\ Len(o) \in 1 .. Len(o) /\ Len(o) - 1 < Len(o)
    <3>1. \A x \in Nat : x # 0 /\ x # 1 => x - 1 \in 1 .. x /\ x \in 1 .. x /\ x - 1 < x
      OBVIOUS
    <3> QED
      BY <3>1, <2>2, <2>4, Zenon
  <2> QED
    BY <2>3, <2>5
<1>6. p < i /\ blocks[i].end <= blocks[p].end /\ p \in 1 .. i
  BY <1>2, <1>3, <1>5 DEF Stacked
<1>7. p \in DOMAIN blocks
  BY <1>1, <1>2, <1>6
<1>8. blocks[p].start <= blocks[i].start
  BY <1>6, <1>7 DEF FlamesInv, WellNested
<1> QED
  BY <1>6, <1>8 DEF p

(* Two blocks of one row do not overlap: as long as blocks start before one  *)
(* of them ends it stays open, and they are further in.                      *)
LEMMA RowsApart ==
  ASSUME FlamesInv, NEW i \in DOMAIN blocks, NEW j \in DOMAIN blocks, i < j,
         Depths(blocks)[i] = Depths(blocks)[j]
  PROVE  blocks[i].end <= blocks[j].start
<1> DEFINE n == Len(blocks)
           open == Open(blocks)
           d == Len(open[i])
<1>1. /\ blocks \in Seq(Blocks) /\ n \in Nat /\ DOMAIN blocks = 1 .. n
      /\ \A m \in 1 .. n : blocks[m].start \in Int /\ blocks[m].end \in Int
  <2>1. MaxEnd \in Nat
    BY PerfmonAssumption
  <2>2. blocks \in Seq(Blocks)
    BY DEF FlamesInv
  <2>3. \A m \in 1 .. n : blocks[m] \in Blocks
    BY <2>2
  <2>4. \A b \in Blocks : b.start \in Int /\ b.end \in Int
    BY <2>1 DEF Blocks
  <2> QED
    BY <2>2, <2>3, <2>4
<1>2. /\ \A m \in 0 .. n : Stacked(m, open[m])
      /\ \A m \in 1 .. n :
           open[m] = Append(SubSeq(open[m - 1], 1,
                                   Innermost(blocks, open[m - 1], blocks[m].end)), m)
  BY <1>1, AllStacked, OpenBlocks
<1> HIDE DEF open
<1>3. ASSUME NEW m \in 1 .. n
      PROVE  LET k == Innermost(blocks, open[m - 1], blocks[m].end)
             IN  /\ k \in 0 .. Len(open[m - 1]) /\ Len(open[m - 1]) \in Nat
                 /\ \A l \in k + 1 .. Len(open[m - 1]) : blocks[m].end > blocks[open[m - 1][l]].end
                 /\ Len(open[m]) = k + 1 /\ open[m][k + 1] = m
                 /\ \A a \in 1 .. k : open[m][a] = open[m - 1][a]
  <2>1. m \in 1 .. Len(blocks) /\ m - 1 \in 0 .. n
    BY <1>1
  <2>2. Stacked(m - 1, open[m - 1])
    BY <2>1, <1>2
  <2> DEFINE o == open[m - 1]
             k == Innermost(blocks, o, blocks[m].end)
             now == Append(SubSeq(o, 1, k), m)
  <2>3. /\ k \in 0 .. Len(o) /\ Len(o) \in Nat
        /\ \A l \in k + 1 .. Len(o) : blocks[m].end > blocks[o[l]].end
        /\ Len(now) = k + 1 /\ now[k + 1] = m /\ \A a \in 1 .. k : now[a] = o[a]
    <3>1. Stacked(m - 1, o) /\ blocks \in Seq(Blocks)
      BY <2>2, <1>1
    <3> HIDE DEF o
    <3>2. k \in 0 .. Len(o) /\ Len(o) \in Nat
      BY <2>1, <3>1, PutOn
    <3>3. \A l \in k + 1 .. Len(o) : blocks[m].end > blocks[o[l]].end
      BY <2>1, <3>1, PutOn
    <3>4. Len(now) = k + 1 /\ now[k + 1] = m
      BY <2>1, <3>1, PutOn
    <3>5. \A a \in 1 .. k : now[a] = o[a]
      BY <2>1, <3>1, PutOn
    <3> QED
      BY <3>2, <3>3, <3>4, <3>5
  <2>4. open[m] = now
    BY <2>1, <1>2
  <2> HIDE DEF now, k
  <2> QED
    BY <2>3, <2>4 DEF k
<1> SUFFICES ASSUME ~(blocks[i].end <= blocks[j].start) PROVE FALSE
  OBVIOUS
<1>4. i \in 1 .. n /\ j \in 1 .. n /\ blocks[j].start < blocks[i].end
  BY <1>1
<1>5. d \in Nat /\ d # 0 /\ open[i][d] = i
  <2> DEFINE k == Innermost(blocks, open[i - 1], blocks[i].end)
  <2>1. k \in 0 .. Len(open[i - 1]) /\ Len(open[i - 1]) \in Nat /\ d = k + 1 /\ open[i][k + 1] = i
    BY <1>3, <1>4
  <2> HIDE DEF k, d
  <2>2. k \in Nat
    BY <2>1
  <2> QED
    BY <2>1, <2>2
<1> HIDE DEF d
<1> DEFINE Inside(m) == Len(open[m]) >= d /\ open[m][d] = i /\ (m # i => Len(open[m]) > d)
           Wrong == {m \in i .. j : ~Inside(m)}
<1>6. CASE Wrong # {}
  <2>1. PICK x \in Wrong : \A y \in Wrong : x <= y
    <3>1. Wrong \in SUBSET Nat
      BY <1>4, <1>1
    <3> HIDE DEF Wrong
    <3> QED
      BY <1>6, <3>1, Smallest
  <2>2. x # i
    BY <1>5 DEF d
  <2>3. x \in 1 .. n /\ x - 1 \in i .. j /\ x \in i .. j /\ i < x /\ x <= j
    BY <2>1, <2>2, <1>4, <1>1
  <2>4. Len(open[x - 1]) >= d /\ open[x - 1][d] = i
    <3>1. x - 1 \notin Wrong
      <4>1. ~(x <= x - 1)
        BY <2>3
      <4> HIDE DEF Wrong
      <4> QED
        BY <2>1, <4>1
    <3> HIDE DEF Inside
    <3>2. Inside(x - 1)
      BY <2>3, <3>1
    <3> QED
      BY <3>2 DEF Inside
  <2>5. blocks[x].end <= blocks[i].end
    <3>1. blocks[x].start <= blocks[j].start
      <4>1. CASE x = j
        BY <4>1, <1>1, <1>4
      <4>2. CASE x # j
        <5>1. x < j /\ x \in DOMAIN blocks
          BY <4>2, <2>3, <1>1
        <5> QED
          BY <5>1 DEF FlamesInv, WellNested
      <4> QED
        BY <4>1, <4>2
    <3>2. blocks[x].start < blocks[i].end
      BY <3>1, <2>3, <1>1, <1>4
    <3>3. x \in DOMAIN blocks
      BY <2>3, <1>1
    <3> QED
      BY <3>2, <3>3, <2>3 DEF FlamesInv, WellNested
  <2> DEFINE k == Innermost(blocks, open[x - 1], blocks[x].end)
  <2>6. /\ k \in 0 .. Len(open[x - 1]) /\ Len(open[x - 1]) \in Nat
        /\ \A l \in k + 1 .. Len(open[x - 1]) : blocks[x].end > blocks[open[x - 1][l]].end
        /\ Len(open[x]) = k + 1
        /\ \A a \in 1 .. k : open[x][a] = open[x - 1][a]
    BY <2>3, <1>3
  <2> HIDE DEF k
  <2>7. k >= d
    <3> SUFFICES ASSUME ~(k >= d) PROVE FALSE
      OBVIOUS
    <3>1. d \in k + 1 .. Len(open[x - 1])
      BY <2>4, <2>6, <1>5
    <3>2. blocks[x].end > blocks[i].end
      BY <3>1, <2>4, <2>6
    <3> QED
      BY <3>2, <2>3, <2>5, <1>1, <1>4
  <2>8. Len(open[x]) > d /\ open[x][d] = i
    <3>1. d \in 1 .. k /\ k \in Nat
      BY <2>6, <2>7, <1>5
    <3> QED
      BY <3>1, <2>4, <2>6, <1>5
  <2>9. Inside(x)
    <3>1. Len(open[x]) \in Nat
      BY <2>6
    <3> QED
      BY <2>8, <3>1, <1>5
  <2> QED
    BY <2>1, <2>9
<1>7. CASE Wrong = {}
  <2>1. j \in i .. j /\ j # i
    BY <1>4, <1>1
  <2>2. Len(open[j]) > d
    BY <2>1, <1>7
  <2>3. Depths(blocks)[i] = Len(open[i]) - 1 /\ Depths(blocks)[j] = Len(open[j]) - 1
    BY DEF Depths, open
  <2>4. Len(open[j]) \in Nat
    <3> DEFINE k == Innermost(blocks, open[j - 1], blocks[j].end)
    <3>1. k \in 0 .. Len(open[j - 1]) /\ Len(open[j - 1]) \in Nat /\ Len(open[j]) = k + 1
      BY <1>3, <1>4
    <3> HIDE DEF k
    <3> QED
      BY <3>1
  <2>5. d = Len(open[i])
    BY DEF d
  <2>6. d - 1 = Len(open[j]) - 1
    BY <2>3, <2>5
  <2> QED
    BY <2>2, <2>4, <2>6, <1>5
<1> QED
  BY <1>6, <1>7

(* The pages start with what their steps keep.                               *)
LEMMA PagesStart == FrontEndInit => LandingInv /\ WallInv /\ RoutesInv /\ FlamesInv
<1> SUFFICES ASSUME FrontEndInit PROVE LandingInv /\ WallInv /\ RoutesInv /\ FlamesInv
  OBVIOUS
<1>1. LandingInit /\ ShowcaseInit /\ PerfmonInit
  BY DEF FrontEndInit
<1>2. LandingInv
  BY <1>1, LandingStarts
<1>3. WallInv
  BY <1>1, WallStarts
<1>4. RoutesInv
  <2>1. PICK n \in 1 .. MaxData : records \in [1 .. n -> Requests]
    BY <1>1 DEF PerfmonInit, Requests
  <2>2. n \in Nat
    BY PerfmonAssumption
  <2>3. records \in Seq(Requests)
    BY <2>1, <2>2, SeqDef
  <2> QED
    BY <2>3, <1>1 DEF PerfmonInit, RoutesInv
<1>5. FlamesInv
  <2>1. PICK n \in 0 .. MaxBlocks : blocks \in [1 .. n -> Blocks]
    BY <1>1 DEF PerfmonInit
  <2>2. n \in Nat
    BY PerfmonAssumption
  <2>3. blocks \in Seq(Blocks)
    BY <2>1, <2>2, SeqDef
  <2> QED
    BY <2>3, <1>1 DEF PerfmonInit, FlamesInv
<1> QED
  BY <1>2, <1>3, <1>4, <1>5

(* The requests of the flame graph stay what they are.                       *)
LEMMA FlamesStep == FlamesInv /\ (PerfmonNext \/ UNCHANGED perfmonVars) => FlamesInv'
<1> SUFFICES ASSUME FlamesInv, PerfmonNext \/ UNCHANGED perfmonVars PROVE FlamesInv'
  OBVIOUS
<1>1. blocks' = blocks
  BY DEF PerfmonNext, ClickRoute, perfmonVars
<1> QED
  BY <1>1 DEF FlamesInv, WellNested

(* What is marked is shown, and what is drawn is nested.                     *)
LEMMA FlamesAreNested == RoutesInv /\ FlamesInv => FlamesNest
<1> SUFFICES ASSUME RoutesInv, FlamesInv PROVE FlamesNest
  OBVIOUS
<1>1. IF marked = {}
      THEN shown = Recents
      ELSE /\ marked = {activeRoute}
           /\ ToSet(shown) = {n \in DOMAIN records : records[n].route = activeRoute}
  <2>1. records \in Seq(Requests)
    BY DEF RoutesInv
  <2>2. ToSet(RouteRecords(activeRoute)) = {n \in DOMAIN records : records[n].route = activeRoute}
    BY <2>1, RankedRecords
  <2> QED
    BY <2>2 DEF RoutesInv
<1>2. ASSUME NEW i \in DOMAIN blocks, NEW j \in DOMAIN blocks
      PROVE  /\ LET p == Parents(blocks)[i]
                IN p # 0 => blocks[p].start <= blocks[i].start /\ blocks[i].end <= blocks[p].end
             /\ i < j /\ Depths(blocks)[i] = Depths(blocks)[j]
                  => blocks[i].end <= blocks[j].start
  BY ParentEncloses, RowsApart
<1> QED
  BY <1>1, <1>2 DEF FlamesNest

(*****************************************************************************)
(* The pages show what there is: the tab of the URL, the wall of a past jam  *)
(* with every item, in rows, on windows of every width, and the flame graph  *)
(* of a request, for any items, requests and blocks (lib/tabs.ts,            *)
(* landing.ts, showcase.js, perfmon.js).                                     *)
(*****************************************************************************)
THEOREM PagesAreRight == FrontEndSpec => []PagesShow
<1> DEFINE Inv == LandingInv /\ WallInv /\ RoutesInv /\ FlamesInv
<1>1. FrontEndInit => Inv
  BY PagesStart
<1>2. Inv /\ [FrontEndNext]_frontEndVars => Inv'
  BY FrontEndSteps, LandingStep, WallStep, RoutesStep, FlamesStep
<1>3. Inv => PagesShow
  BY LandingFollows, WallIsComplete, FlamesAreNested DEF PagesShow
<1> HIDE DEF Inv
<1> QED
  BY <1>1, <1>2, <1>3, PTL DEF FrontEndSpec

-----------------------------------------------------------------------------
(*****************************************************************************)
(* The editor.  A character of a placeholder carries the number of its       *)
(* upload and is in the text once at most (Once), so a placeholder is found  *)
(* where it is and nowhere else; what is replaced is found between a left    *)
(* and a right part of the text that stay, and whatever is shown and holds   *)
(* none of the characters replaced is in one of them.                        *)
(*****************************************************************************)
CharKinds ==
  Names \cup {"link", "failure", "newline", "too big", "word", "mark", "](", ")", "](url)"}

Chars == CharKinds \X Nat \X Nat

(* The characters of placeholders in a text.                                 *)
Marks(words) == {c \in ToSet(words) : c[1] \in Names}

(* None of them is there twice.                                              *)
Once(words) ==
  \A i, j \in DOMAIN words : words[i] = words[j] /\ words[i][1] \in Names => i = j

(* s is somewhere in the text, one character after the other.                *)
Occurs(s, words) ==
  \E i \in 0 .. Len(words) - Len(s) : \A k \in 1 .. Len(s) : words[i + k] = s[k]

(* A text with a character in it is not empty.                               *)
LEMMA NotEmpty == \A x : Len(x) # 0 => x # <<>>
<1>1. Len(<<>>) = 0
  BY EmptySeq
<1> QED
  BY <1>1

(* The characters of placeholders in two texts, one after the other.         *)
LEMMA JoinedMarks ==
  ASSUME NEW a \in Seq(Chars), NEW b \in Seq(Chars)
  PROVE  /\ Marks(a \o b) = Marks(a) \cup Marks(b)
         /\ Once(a \o b) <=> Once(a) /\ Once(b) /\ Marks(a) \cap Marks(b) = {}
<1> DEFINE ab == a \o b
           n == Len(a)
           m == Len(b)
<1>1. /\ ab \in Seq(Chars) /\ n \in Nat /\ m \in Nat /\ DOMAIN ab = 1 .. n + m
      /\ DOMAIN a = 1 .. n /\ DOMAIN b = 1 .. m
      /\ \A i \in 1 .. n : ab[i] = a[i]
      /\ \A i \in 1 .. m : ab[n + i] = b[i]
      /\ ToSet(ab) = ToSet(a) \cup ToSet(b)
  BY JoinedTexts
<1> HIDE DEF ab, n, m
<1>2. Marks(ab) = Marks(a) \cup Marks(b)
  BY <1>1 DEF Marks
<1>3. ASSUME Once(ab) PROVE Once(a) /\ Once(b) /\ Marks(a) \cap Marks(b) = {}
  <2>1. \A i \in 1 .. n : i \in 1 .. n + m
    BY <1>1
  <2>2. \A i \in 1 .. m : n + i \in 1 .. n + m
    BY <1>1
  <2>3. \A i \in 1 .. n, j \in 1 .. m : i # n + j
    BY <1>1
  <2>4. \A i, j \in 1 .. m : n + i = n + j => i = j
    BY <1>1
  <2>5. Once(a)
    BY <2>1, <1>1, <1>3 DEF Once
  <2>6. Once(b)
    <3> SUFFICES ASSUME NEW i \in 1 .. m, NEW j \in 1 .. m, b[i] = b[j], b[i][1] \in Names
        PROVE i = j
      BY <1>1 DEF Once
    <3>1. n + i = n + j
      BY <2>2, <1>1, <1>3 DEF Once
    <3> QED
      BY <3>1, <2>4
  <2>7. Marks(a) \cap Marks(b) = {}
    <3> SUFFICES ASSUME NEW i \in 1 .. n, NEW j \in 1 .. m, a[i] = b[j], a[i][1] \in Names
        PROVE FALSE
      BY <1>1 DEF Marks, ToSet
    <3>1. i = n + j
      BY <2>1, <2>2, <1>1, <1>3 DEF Once
    <3> QED
      BY <3>1, <2>3
  <2> QED
    BY <2>5, <2>6, <2>7
<1>4. ASSUME Once(a), Once(b), Marks(a) \cap Marks(b) = {} PROVE Once(ab)
  <2> SUFFICES ASSUME NEW i \in 1 .. n + m, NEW j \in 1 .. n + m, ab[i] = ab[j],
                      ab[i][1] \in Names
      PROVE i = j
    BY <1>1 DEF Once
  <2>1. \A k \in 1 .. n + m : k \in 1 .. n \/ (k - n \in 1 .. m /\ n + (k - n) = k)
    BY <1>1
  <2>2. \A k \in 1 .. n, l \in 1 .. m : a[k][1] \in Names => a[k] # b[l]
    BY <1>1, <1>4 DEF Marks, ToSet
  <2>3. CASE i \in 1 .. n /\ j \in 1 .. n
    BY <2>3, <1>1, <1>4 DEF Once
  <2>4. CASE i \in 1 .. n /\ j \notin 1 .. n
    <3>1. j - n \in 1 .. m /\ ab[j] = b[j - n]
      BY <2>1, <2>4, <1>1
    <3> QED
      BY <3>1, <2>2, <2>4, <1>1
  <2>5. CASE i \notin 1 .. n /\ j \in 1 .. n
    <3>1. i - n \in 1 .. m /\ ab[i] = b[i - n]
      BY <2>1, <2>5, <1>1
    <3> QED
      BY <3>1, <2>2, <2>5, <1>1
  <2>6. CASE i \notin 1 .. n /\ j \notin 1 .. n
    <3>1. j - n \in 1 .. m /\ ab[j] = b[j - n] /\ i - n \in 1 .. m /\ ab[i] = b[i - n]
      BY <2>1, <2>6, <1>1
    <3>2. i - n = j - n
      BY <3>1, <1>1, <1>4 DEF Once
    <3> QED
      BY <3>2, <1>1
  <2> QED
    BY <2>3, <2>4, <2>5, <2>6
<1> QED
  BY <1>2, <1>3, <1>4 DEF ab

(* The three parts of a text.                                                *)
LEMMA PartedText ==
  ASSUME NEW S, NEW words \in Seq(S), NEW i \in Nat, NEW j \in Nat, i <= j, j <= Len(words)
  PROVE  /\ Left(words, i) \in Seq(S) /\ Len(Left(words, i)) = i
         /\ Between(words, i, j) \in Seq(S) /\ Len(Between(words, i, j)) = j - i
         /\ Right(words, j) \in Seq(S) /\ Len(Right(words, j)) = Len(words) - j
         /\ \A k \in 1 .. i : Left(words, i)[k] = words[k]
         /\ \A k \in 1 .. j - i : Between(words, i, j)[k] = words[i + k]
         /\ \A k \in 1 .. Len(words) - j : Right(words, j)[k] = words[j + k]
         /\ words = Left(words, i) \o Between(words, i, j) \o Right(words, j)
<1> DEFINE n == Len(words)
           a == Left(words, i)
           b == Between(words, i, j)
           c == Right(words, j)
           ab == a \o b
           abc == ab \o c
<1>0. n \in Nat
  OBVIOUS
<1>1. /\ a \in Seq(S) /\ Len(a) = i /\ \A k \in 1 .. i : a[k] = words[k]
  BY DEF Left
<1>2. /\ b \in Seq(S) /\ Len(b) = j - i /\ \A k \in 1 .. j - i : b[k] = words[i + k]
  <2>1. i + 1 \in 1 .. n + 1 /\ j \in 0 .. n /\ i + 1 <= j + 1
    BY <1>0
  <2>2. b \in Seq(S) /\ Len(b) = j - i
    BY <2>1, <1>0 DEF Between
  <2>3. ASSUME NEW k \in 1 .. j - i PROVE b[k] = words[i + k]
    <3>1. b[k] = words[i + 1 + k - 1]
      BY <2>1, <1>0 DEF Between
    <3>2. i + 1 + k - 1 = i + k
      OBVIOUS
    <3> QED
      BY <3>1, <3>2
  <2> QED
    BY <2>2, <2>3
<1>3. /\ c \in Seq(S) /\ Len(c) = n - j /\ \A k \in 1 .. n - j : c[k] = words[j + k]
  <2>1. j + 1 \in 1 .. n + 1 /\ j + 1 <= n + 1
    BY <1>0
  <2>2. c \in Seq(S) /\ Len(c) = n - j
    BY <2>1, <1>0 DEF Right
  <2>3. ASSUME NEW k \in 1 .. n - j PROVE c[k] = words[j + k]
    <3>1. c[k] = words[j + 1 + k - 1]
      BY <2>1, <1>0 DEF Right
    <3>2. j + 1 + k - 1 = j + k
      OBVIOUS
    <3> QED
      BY <3>1, <3>2
  <2> QED
    BY <2>2, <2>3
<1> HIDE DEF a, b, c, n
<1>4. /\ ab \in Seq(S) /\ Len(ab) = j /\ \A k \in 1 .. i : ab[k] = words[k]
      /\ \A k \in 1 .. j - i : ab[i + k] = words[i + k]
  <2>1. /\ ab \in Seq(S) /\ Len(ab) = Len(a) + Len(b)
        /\ \A k \in 1 .. Len(a) : ab[k] = a[k]
        /\ \A k \in 1 .. Len(b) : ab[Len(a) + k] = b[k]
    <3>1. a \in Seq(S) /\ b \in Seq(S)
      BY <1>1, <1>2
    <3> QED
      BY <3>1, JoinedTexts
  <2>2. i + (j - i) = j
    OBVIOUS
  <2> HIDE DEF ab
  <2>3. /\ ab \in Seq(S) /\ Len(ab) = i + (j - i)
        /\ \A k \in 1 .. i : ab[k] = a[k]
        /\ \A k \in 1 .. j - i : ab[i + k] = b[k]
    BY <2>1, <1>1, <1>2
  <2> QED
    BY <2>2, <2>3, <1>1, <1>2
<1> HIDE DEF ab
<1>5. \A k \in 1 .. j : ab[k] = words[k]
  <2> TAKE k \in 1 .. j
  <2>1. CASE k <= i
    BY <2>1, <1>4
  <2>2. CASE ~(k <= i)
    <3>1. k - i \in 1 .. j - i /\ i + (k - i) = k
      BY <2>2
    <3> QED
      BY <3>1, <1>4
  <2> QED
    BY <2>1, <2>2
<1>6. /\ abc \in Seq(S) /\ Len(abc) = n /\ \A k \in 1 .. j : abc[k] = words[k]
      /\ \A k \in 1 .. n - j : abc[j + k] = words[j + k]
  <2>1. /\ abc \in Seq(S) /\ Len(abc) = Len(ab) + Len(c)
        /\ \A k \in 1 .. Len(ab) : abc[k] = ab[k]
        /\ \A k \in 1 .. Len(c) : abc[Len(ab) + k] = c[k]
    <3>1. ab \in Seq(S) /\ c \in Seq(S)
      BY <1>3, <1>4
    <3> QED
      BY <3>1, JoinedTexts
  <2>2. j + (n - j) = n
    BY <1>0
  <2> HIDE DEF abc
  <2>3. /\ abc \in Seq(S) /\ Len(abc) = j + (n - j)
        /\ \A k \in 1 .. j : abc[k] = ab[k]
        /\ \A k \in 1 .. n - j : abc[j + k] = c[k]
    BY <2>1, <1>3, <1>4
  <2> QED
    BY <2>2, <2>3, <1>3, <1>5
<1> HIDE DEF abc
<1>7. \A k \in 1 .. n : abc[k] = words[k]
  <2> TAKE k \in 1 .. n
  <2>1. CASE k <= j
    BY <2>1, <1>6
  <2>2. CASE ~(k <= j)
    <3>1. k - j \in 1 .. n - j /\ j + (k - j) = k
      BY <2>2, <1>0
    <3> QED
      BY <3>1, <1>6
  <2> QED
    BY <2>1, <2>2
<1>8. abc = words
  <2>1. Len(words) = n /\ words \in Seq(S)
    BY DEF n
  <2> QED
    BY <2>1, <1>6, <1>7, SeqEqual
<1> QED
  BY <1>1, <1>2, <1>3, <1>8 DEF a, b, c, n, ab, abc

(* Three texts, one after the other.                                         *)
LEMMA JoinedThree ==
  ASSUME NEW S, NEW a \in Seq(S), NEW x \in Seq(S), NEW b \in Seq(S)
  PROVE  /\ a \o x \o b \in Seq(S)
         /\ Len(a) \in Nat /\ Len(x) \in Nat /\ Len(b) \in Nat
         /\ Len(a \o x \o b) = Len(a) + Len(x) + Len(b)
         /\ \A k \in 1 .. Len(a) : (a \o x \o b)[k] = a[k]
         /\ \A k \in 1 .. Len(x) : (a \o x \o b)[Len(a) + k] = x[k]
         /\ \A k \in 1 .. Len(b) : (a \o x \o b)[Len(a) + Len(x) + k] = b[k]
         /\ ToSet(a \o x \o b) = ToSet(a) \cup ToSet(x) \cup ToSet(b)
<1> DEFINE ax == a \o x
           all == ax \o b
           n == Len(a)
           m == Len(x)
<1>1. /\ ax \in Seq(S) /\ Len(ax) = n + m /\ n \in Nat /\ m \in Nat
      /\ \A k \in 1 .. n : ax[k] = a[k]
      /\ \A k \in 1 .. m : ax[n + k] = x[k]
      /\ ToSet(ax) = ToSet(a) \cup ToSet(x)
  BY JoinedTexts
<1> HIDE DEF ax
<1>2. /\ all \in Seq(S) /\ Len(all) = Len(ax) + Len(b) /\ Len(b) \in Nat
      /\ \A k \in 1 .. Len(ax) : all[k] = ax[k]
      /\ \A k \in 1 .. Len(b) : all[Len(ax) + k] = b[k]
      /\ ToSet(all) = ToSet(ax) \cup ToSet(b)
  <2>1. ax \in Seq(S) /\ b \in Seq(S)
    BY <1>1
  <2> QED
    BY <2>1, JoinedTexts
<1> HIDE DEF all, n, m
<1>3. \A k \in 1 .. n : k \in 1 .. n + m
  BY <1>1
<1>4. \A k \in 1 .. m : n + k \in 1 .. n + m
  BY <1>1
<1>5. Len(all) = n + m + Len(b)
  BY <1>1, <1>2
<1>6. \A k \in 1 .. n : all[k] = a[k]
  BY <1>1, <1>2, <1>3
<1>7. \A k \in 1 .. m : all[n + k] = x[k]
  BY <1>1, <1>2, <1>4
<1>8. \A k \in 1 .. Len(b) : all[n + m + k] = b[k]
  BY <1>1, <1>2
<1>9. ToSet(all) = ToSet(a) \cup ToSet(x) \cup ToSet(b)
  BY <1>1, <1>2
<1> QED
  BY <1>1, <1>2, <1>5, <1>6, <1>7, <1>8, <1>9 DEF all, ax, n, m

(* indexOf finds the first place where a text is shown, if there is one.     *)
LEMMA IndexOf ==
  ASSUME NEW S, NEW s \in Seq(S), NEW words \in Seq(S)
  PROVE  LET at == IndexIn(s, words)
         IN  /\ Shows(words, s) <=> Occurs(s, words)
             /\ at = -1 \/ /\ at \in 0 .. Len(words) - Len(s)
                           /\ \A k \in 1 .. Len(s) : words[at + k] = s[k]
                           /\ \A i \in 0 .. Len(words) - Len(s) :
                                (\A k \in 1 .. Len(s) : words[i + k] = s[k]) => at <= i
<1> DEFINE n == Len(s)
           m == Len(words)
           places == {i \in 0 .. m - n : Between(words, i, i + n) = s}
           at == IndexIn(s, words)
<1>1. n \in Nat /\ m \in Nat
  OBVIOUS
<1>2. ASSUME NEW i \in 0 .. m - n
      PROVE  Between(words, i, i + n) = s <=> \A k \in 1 .. n : words[i + k] = s[k]
  <2>1. i \in Nat /\ i + n \in Nat /\ i <= i + n /\ i + n <= Len(words) /\ i + n - i = n
    BY <1>1
  <2> DEFINE part == Between(words, i, i + n)
  <2>2. part \in Seq(S) /\ Len(part) = n /\ \A k \in 1 .. n : part[k] = words[i + k]
    <3>1. /\ part \in Seq(S) /\ Len(part) = i + n - i
          /\ \A k \in 1 .. i + n - i : part[k] = words[i + k]
      <4>1. \A j \in Nat : i <= j /\ j <= Len(words) =>
              /\ Between(words, i, j) \in Seq(S) /\ Len(Between(words, i, j)) = j - i
              /\ \A k \in 1 .. j - i : Between(words, i, j)[k] = words[i + k]
        BY <2>1, PartedText
      <4>2. i + n \in Nat /\ i <= i + n /\ i + n <= Len(words)
        BY <2>1
      <4> DEFINE j0 == i + n
      <4> HIDE DEF j0
      <4>3. j0 \in Nat /\ i <= j0 /\ j0 <= Len(words)
        BY <4>2 DEF j0
      <4>4. /\ Between(words, i, j0) \in Seq(S) /\ Len(Between(words, i, j0)) = j0 - i
            /\ \A k \in 1 .. j0 - i : Between(words, i, j0)[k] = words[i + k]
        BY <4>1, <4>3
      <4> QED
        BY <4>4 DEF j0
    <3> HIDE DEF part, n
    <3> QED
      BY <3>1, <2>1
  <2> HIDE DEF part
  <2>3. (\A k \in 1 .. n : part[k] = s[k]) => part = s
    BY <2>2, SeqEqual
  <2>4. (\A k \in 1 .. n : words[i + k] = s[k]) => \A k \in 1 .. n : part[k] = s[k]
    BY <2>2
  <2>5. part = s => \A k \in 1 .. n : words[i + k] = s[k]
    BY <2>2
  <2> QED
    BY <2>3, <2>4, <2>5 DEF part
<1>3. at = IF places = {} THEN -1 ELSE CHOOSE i \in places : \A j \in places : i <= j
  BY DEF IndexIn
<1>4. places # {} => at \in places /\ \A j \in places : at <= j
  <2> SUFFICES ASSUME places # {} PROVE at \in places /\ \A j \in places : at <= j
    OBVIOUS
  <2>1. places \in SUBSET Nat
    BY <1>1
  <2> HIDE DEF places
  <2>2. \E i \in places : \A j \in places : i <= j
    BY <2>1, Smallest
  <2> HIDE DEF at
  <2> QED
    BY <2>2, <1>3
<1>5. places # {} => at # -1
  <2>1. \A i \in places : i # -1
    BY <1>1
  <2> QED
    BY <2>1, <1>4
<1>6. Occurs(s, words) <=> places # {}
  BY <1>2 DEF Occurs
<1>7. Shows(words, s) <=> places # {}
  BY <1>3, <1>5 DEF Shows
<1>8. ASSUME places # {}
      PROVE  /\ at \in 0 .. m - n /\ \A k \in 1 .. n : words[at + k] = s[k]
             /\ \A i \in 0 .. m - n : (\A k \in 1 .. n : words[i + k] = s[k]) => at <= i
  <2> HIDE DEF at
  <2>1. at \in 0 .. m - n /\ Between(words, at, at + n) = s
    BY <1>4, <1>8
  <2>2. \A k \in 1 .. n : words[at + k] = s[k]
    BY <2>1, <1>2
  <2>3. ASSUME NEW i \in 0 .. m - n, \A k \in 1 .. n : words[i + k] = s[k] PROVE at <= i
    <3>1. i \in places
      BY <2>3, <1>2
    <3> HIDE DEF places
    <3> QED
      BY <3>1, <1>4, <1>8
  <2> QED
    BY <2>1, <2>2, <2>3
<1>9. places = {} => at = -1
  BY <1>3
<1> QED
  BY <1>6, <1>7, <1>8, <1>9

(* A text shown in a part is shown in the whole; and one shown in the whole  *)
(* that has no character of a part is shown in another.                      *)
LEMMA OccursAround ==
  ASSUME NEW S, NEW a \in Seq(S), NEW x \in Seq(S), NEW b \in Seq(S), NEW s \in Seq(S), s # <<>>
  PROVE  /\ Occurs(s, a) \/ Occurs(s, x) \/ Occurs(s, b) => Occurs(s, a \o x \o b)
         /\ x # <<>> /\ ToSet(s) \cap ToSet(x) = {} /\ Occurs(s, a \o x \o b)
              => Occurs(s, a) \/ Occurs(s, b)
<1> DEFINE all == a \o x \o b
           n == Len(a)
           m == Len(x)
           p == Len(b)
           q == Len(s)
<1>1. /\ n \in Nat /\ m \in Nat /\ p \in Nat /\ q \in Nat /\ Len(all) = n + m + p
      /\ \A k \in 1 .. n : all[k] = a[k]
      /\ \A k \in 1 .. m : all[n + k] = x[k]
      /\ \A k \in 1 .. p : all[n + m + k] = b[k]
  <2>1. q \in Nat
    OBVIOUS
  <2> QED
    BY <2>1, JoinedThree
<1>2. q # 0 /\ (x # <<>> => m # 0) /\ DOMAIN s = 1 .. q /\ DOMAIN x = 1 .. m
  BY EmptySeq
<1> DEFINE total == Len(all)
<1>0. total = n + m + p
  BY <1>1
<1> HIDE DEF total, all, n, m, p, q
<1>10. Occurs(s, all) <=> \E i \in 0 .. n + m + p - q : \A k \in 1 .. q : all[i + k] = s[k]
  <2>1. Occurs(s, all) <=> \E i \in 0 .. total - q : \A k \in 1 .. q : all[i + k] = s[k]
    BY DEF Occurs, total, q
  <2>2. total \in Nat /\ n + m + p \in Nat /\ q \in Nat
    BY <1>0, <1>1
  <2>3. \A i : i \in 0 .. total - q <=> i \in 0 .. n + m + p - q
    <3>1. total - q = n + m + p - q
      BY <1>0, <1>1
    <3> QED
      BY <3>1
  <2> QED
    BY <2>1, <2>3
<1>3. ASSUME Occurs(s, a) PROVE Occurs(s, all)
  <2>1. PICK i \in 0 .. n - q : \A k \in 1 .. q : a[i + k] = s[k]
    BY <1>3 DEF Occurs, n, q
  <2>2. i \in 0 .. n + m + p - q
    BY <1>1
  <2>3. ASSUME NEW k \in 1 .. q PROVE all[i + k] = s[k]
    <3>1. i + k \in 1 .. n
      BY <1>1
    <3> QED
      BY <3>1, <2>1, <1>1
  <2> QED
    BY <2>2, <2>3, <1>10
<1>4. ASSUME Occurs(s, x) PROVE Occurs(s, all)
  <2>1. PICK i \in 0 .. m - q : \A k \in 1 .. q : x[i + k] = s[k]
    BY <1>4 DEF Occurs, m, q
  <2>2. n + i \in 0 .. n + m + p - q
    BY <1>1
  <2>3. ASSUME NEW k \in 1 .. q PROVE all[n + i + k] = s[k]
    <3>1. i + k \in 1 .. m /\ n + i + k = n + (i + k)
      BY <1>1
    <3> QED
      BY <3>1, <2>1, <1>1
  <2> QED
    BY <2>2, <2>3, <1>10
<1>5. ASSUME Occurs(s, b) PROVE Occurs(s, all)
  <2>1. PICK i \in 0 .. p - q : \A k \in 1 .. q : b[i + k] = s[k]
    BY <1>5 DEF Occurs, p, q
  <2>2. n + m + i \in 0 .. n + m + p - q
    BY <1>1
  <2>3. ASSUME NEW k \in 1 .. q PROVE all[n + m + i + k] = s[k]
    <3>1. i + k \in 1 .. p /\ n + m + i + k = n + m + (i + k)
      BY <1>1
    <3> QED
      BY <3>1, <2>1, <1>1
  <2> QED
    BY <2>2, <2>3, <1>10
<1>6. ASSUME x # <<>>, ToSet(s) \cap ToSet(x) = {}, Occurs(s, all)
      PROVE  Occurs(s, a) \/ Occurs(s, b)
  <2>1. PICK i \in 0 .. n + m + p - q : \A k \in 1 .. q : all[i + k] = s[k]
    BY <1>6, <1>10
  <2>2. \A k \in 1 .. q, l \in 1 .. m : s[k] # x[l]
    BY <1>2, <1>6 DEF ToSet
  <2>3. CASE i + q <= n
    <3>1. i \in 0 .. n - q
      BY <2>3, <1>1
    <3>2. ASSUME NEW k \in 1 .. q PROVE a[i + k] = s[k]
      <4>1. i + k \in 1 .. n
        BY <2>3, <1>1
      <4> QED
        BY <4>1, <2>1, <1>1
    <3> QED
      BY <3>1, <3>2 DEF Occurs, n, q
  <2>4. CASE n + m <= i
    <3>1. i - (n + m) \in 0 .. p - q
      BY <2>4, <1>1
    <3>2. ASSUME NEW k \in 1 .. q PROVE b[i - (n + m) + k] = s[k]
      <4>1. i - (n + m) + k \in 1 .. p
        BY <2>4, <1>1
      <4>2. n + m + (i - (n + m) + k) = i + k
        BY <1>1
      <4> QED
        BY <4>1, <4>2, <2>1, <1>1
    <3> QED
      BY <3>1, <3>2 DEF Occurs, p, q
  <2>5. CASE ~(i + q <= n) /\ ~(n + m <= i)
    <3>1. CASE i <= n
      <4>1. n + 1 - i \in 1 .. q /\ i + (n + 1 - i) = n + 1 /\ 1 \in 1 .. m
        BY <2>5, <3>1, <1>1, <1>2, <1>6
      <4>2. all[n + 1] = s[n + 1 - i] /\ all[n + 1] = x[1]
        BY <4>1, <2>1, <1>1
      <4> QED
        BY <4>1, <4>2, <2>2
    <3>2. CASE ~(i <= n)
      <4>1. 1 \in 1 .. q /\ i + 1 - n \in 1 .. m /\ n + (i + 1 - n) = i + 1
        BY <2>5, <3>2, <1>1, <1>2
      <4>2. all[i + 1] = s[1] /\ all[i + 1] = x[i + 1 - n]
        BY <4>1, <2>1, <1>1
      <4> QED
        BY <4>1, <4>2, <2>2
    <3> QED
      BY <3>1, <3>2
  <2> QED
    BY <2>3, <2>4, <2>5
<1> QED
  BY <1>3, <1>4, <1>5, <1>6 DEF all

(* The uploads there may be.                                                 *)
UploadSet == [number : Nat \ {0}, name : Names]

(* A text shown has its characters in the one that shows it.                 *)
LEMMA NoneInCommon ==
  ASSUME NEW S, NEW s \in Seq(S), NEW x \in Seq(S), s # <<>>, Occurs(s, x)
  PROVE  ToSet(s) \subseteq ToSet(x) /\ ToSet(s) # {}
<1> DEFINE n == Len(s)
           m == Len(x)
<1>1. n \in Nat /\ m \in Nat /\ n # 0 /\ DOMAIN s = 1 .. n /\ DOMAIN x = 1 .. m
  BY EmptySeq
<1>2. PICK i \in 0 .. m - n : \A k \in 1 .. n : x[i + k] = s[k]
  BY DEF Occurs
<1>3. ASSUME NEW k \in 1 .. n PROVE i + k \in 1 .. m
  BY <1>1
<1> HIDE DEF n, m
<1>4. ToSet(s) \subseteq ToSet(x)
  <2> SUFFICES ASSUME NEW k \in 1 .. n PROVE \E l \in 1 .. m : x[l] = s[k]
    BY <1>1 DEF ToSet
  <2> QED
    BY <1>2, <1>3
<1>5. 1 \in 1 .. n
  BY <1>1
<1> QED
  BY <1>1, <1>4, <1>5 DEF ToSet

(* The characters of what uploads put into the text.                         *)
LEMMA UploadTexts ==
  ASSUME NEW u \in UploadSet
  PROVE  /\ Placeholder(u) \in Seq(Chars) /\ Len(Placeholder(u)) = 2
         /\ ToSet(Placeholder(u)) = {<<u.name, u.number, 1>>, <<u.name, u.number, 2>>}
         /\ Marks(Placeholder(u)) = ToSet(Placeholder(u)) /\ Once(Placeholder(u))
         /\ Link(u) \in Seq(Chars) /\ Len(Link(u)) = 3
         /\ \A c \in ToSet(Link(u)) : c[1] = "link"
         /\ Failure(u) \in Seq(Chars) /\ Len(Failure(u)) = 1
         /\ \A c \in ToSet(Failure(u)) : c[1] = "failure"
<1>1. u.name \in Names /\ u.name \in CharKinds /\ u.number \in Nat
      /\ "link" \in CharKinds /\ "failure" \in CharKinds
  BY DEF UploadSet, CharKinds
<1> DEFINE p1 == <<u.name, u.number, 1>>
           p2 == <<u.name, u.number, 2>>
<1>2. p1 \in Chars /\ p2 \in Chars /\ p1 # p2 /\ p1[1] = u.name /\ p2[1] = u.name
  BY <1>1 DEF Chars
<1>3. Placeholder(u) = <<p1, p2>>
  BY DEF Placeholder
<1>4. /\ Placeholder(u) \in Seq(Chars) /\ Len(Placeholder(u)) = 2
      /\ DOMAIN Placeholder(u) = {1, 2}
      /\ Placeholder(u)[1] = p1 /\ Placeholder(u)[2] = p2
  <2> HIDE DEF p1, p2
  <2> QED
    BY <1>2, <1>3
<1> HIDE DEF p1, p2
<1>5. ToSet(Placeholder(u)) = {p1, p2} /\ Once(Placeholder(u))
  BY <1>2, <1>4 DEF ToSet, Once
<1>6. Marks(Placeholder(u)) = ToSet(Placeholder(u))
  BY <1>1, <1>2, <1>5 DEF Marks
<1>7. /\ Link(u) \in Seq(Chars) /\ Len(Link(u)) = 3
      /\ \A c \in ToSet(Link(u)) : c[1] = "link"
  <2>1. \A i \in 1 .. 3 : <<"link", u.number, i>> \in Chars
    BY <1>1 DEF Chars
  <2>2. Link(u) = [i \in 1 .. 3 |-> <<"link", u.number, i>>]
    BY DEF Link
  <2>3. Link(u) \in [1 .. 3 -> Chars] /\ DOMAIN Link(u) = 1 .. 3
        /\ \A i \in 1 .. 3 : Link(u)[i][1] = "link"
    BY <2>1, <2>2
  <2>4. Link(u) \in Seq(Chars) /\ Len(Link(u)) = 3
    BY <2>3, SeqDef
  <2> QED
    BY <2>3, <2>4 DEF ToSet
<1>8. /\ Failure(u) \in Seq(Chars) /\ Len(Failure(u)) = 1
      /\ \A c \in ToSet(Failure(u)) : c[1] = "failure"
  <2>1. <<"failure", u.number, 1>> \in Chars
    BY <1>1 DEF Chars
  <2>2. Failure(u) = <<<<"failure", u.number, 1>>>>
    BY DEF Failure
  <2> QED
    <3> DEFINE c == <<"failure", u.number, 1>>
    <3>1. c \in Chars /\ c[1] = "failure" /\ Failure(u) = <<c>>
      BY <2>1, <2>2
    <3> HIDE DEF c
    <3>2. Failure(u) \in Seq(Chars) /\ Len(Failure(u)) = 1 /\ DOMAIN Failure(u) = {1}
          /\ Failure(u)[1] = c
      BY <3>1
    <3> QED
      BY <3>1, <3>2 DEF ToSet
<1> QED
  BY <1>4, <1>5, <1>6, <1>7, <1>8 DEF p1, p2

(* A text with none of a placeholder's characters shows no placeholder.      *)
LEMMA PlainTexts ==
  ASSUME NEW x \in Seq(Chars), \A c \in ToSet(x) : c[1] \notin Names
  PROVE  Marks(x) = {} /\ Once(x)
<1>1. \A i \in DOMAIN x : x[i][1] \notin Names
  BY DEF ToSet
<1> QED
  BY <1>1 DEF Marks, Once

(* The placeholders of two uploads have no character in common.              *)
LEMMA OtherPlaceholders ==
  ASSUME NEW u \in UploadSet, NEW v \in UploadSet, u.number # v.number
  PROVE  /\ ToSet(Placeholder(u)) \cap ToSet(Placeholder(v)) = {}
         /\ Marks(Placeholder(u)) \cap Marks(Placeholder(v)) = {}
<1>1. <<u.name, u.number, 1>>[2] = u.number /\ <<u.name, u.number, 2>>[2] = u.number
      /\ <<v.name, v.number, 1>>[2] = v.number /\ <<v.name, v.number, 2>>[2] = v.number
  OBVIOUS
<1> DEFINE pu == Placeholder(u)
           pv == Placeholder(v)
<1>2. /\ ToSet(pu) = {<<u.name, u.number, 1>>, <<u.name, u.number, 2>>} /\ Marks(pu) = ToSet(pu)
      /\ ToSet(pv) = {<<v.name, v.number, 1>>, <<v.name, v.number, 2>>} /\ Marks(pv) = ToSet(pv)
  BY UploadTexts
<1> HIDE DEF pu, pv
<1>3. (\A c \in ToSet(pu) : c[2] = u.number) /\ (\A c \in ToSet(pv) : c[2] = v.number)
  BY <1>1, <1>2
<1>4. ToSet(pu) \cap ToSet(pv) = {}
  BY <1>3
<1> QED
  BY <1>2, <1>4 DEF pu, pv

(* A text without characters of placeholders shows no placeholder.           *)
LEMMA PlainShown ==
  ASSUME NEW v \in UploadSet, NEW x \in Seq(Chars), \A c \in ToSet(x) : c[1] \notin Names
  PROVE  ToSet(Placeholder(v)) \cap ToSet(x) = {} /\ ~Occurs(Placeholder(v), x)
<1>1. Marks(Placeholder(v)) = ToSet(Placeholder(v)) /\ Placeholder(v) \in Seq(Chars)
      /\ Len(Placeholder(v)) = 2
  BY UploadTexts
<1>2. Placeholder(v) # <<>>
  BY <1>1, EmptySeq
<1>3. ToSet(Placeholder(v)) \cap ToSet(x) = {}
  BY <1>1 DEF Marks
<1> QED
  BY <1>1, <1>2, <1>3, NoneInCommon

(* The same, for any two places of the text.                                 *)
LEMMA PartedWords ==
  ASSUME NEW words \in Seq(Chars)
  PROVE  \A i, j \in Nat : i <= j /\ j <= Len(words) =>
           /\ Left(words, i) \in Seq(Chars) /\ Len(Left(words, i)) = i
           /\ Between(words, i, j) \in Seq(Chars) /\ Len(Between(words, i, j)) = j - i
           /\ Right(words, j) \in Seq(Chars) /\ Len(Right(words, j)) = Len(words) - j
           /\ \A k \in 1 .. i : Left(words, i)[k] = words[k]
           /\ \A k \in 1 .. j - i : Between(words, i, j)[k] = words[i + k]
           /\ \A k \in 1 .. Len(words) - j : Right(words, j)[k] = words[j + k]
           /\ words = Left(words, i) \o Between(words, i, j) \o Right(words, j)
<1> TAKE i, j \in Nat
<1> HAVE i <= j /\ j <= Len(words)
<1>1. words = Left(words, i) \o Between(words, i, j) \o Right(words, j)
  BY PartedText
<1>2. \A k \in 1 .. j - i : Between(words, i, j)[k] = words[i + k]
  BY PartedText
<1>3. Left(words, i) \in Seq(Chars) /\ Len(Left(words, i)) = i
  BY PartedText
<1>4. Between(words, i, j) \in Seq(Chars) /\ Len(Between(words, i, j)) = j - i
  BY PartedText
<1>5. Right(words, j) \in Seq(Chars)
  BY PartedText
<1>6. Len(Right(words, j)) = Len(words) - j
  BY PartedText
<1>7. \A k \in 1 .. i : Left(words, i)[k] = words[k]
  BY PartedText
<1>8. \A k \in 1 .. Len(words) - j : Right(words, j)[k] = words[j + k]
  BY PartedText
<1> QED
  BY <1>1, <1>2, <1>3, <1>4, <1>5, <1>6, <1>7, <1>8

(* The left part of a text.                                                  *)
LEMMA LeftPart ==
  ASSUME NEW words \in Seq(Chars), NEW i \in Nat, i <= Len(words)
  PROVE  /\ Left(words, i) \in Seq(Chars) /\ Len(Left(words, i)) = i
         /\ \A k \in 1 .. i : Left(words, i)[k] = words[k]
<1>1. i \in Nat /\ i <= i
  OBVIOUS
<1>2. Left(words, i) \in Seq(Chars) /\ Len(Left(words, i)) = i
  BY <1>1, PartedWords
<1>3. \A k \in 1 .. i : Left(words, i)[k] = words[k]
  BY <1>1, PartedWords
<1> QED
  BY <1>2, <1>3

(* The right part of a text.                                                 *)
LEMMA RightPart ==
  ASSUME NEW words \in Seq(Chars), NEW j \in Nat, j <= Len(words)
  PROVE  /\ Right(words, j) \in Seq(Chars) /\ Len(Right(words, j)) = Len(words) - j
         /\ \A k \in 1 .. Len(words) - j : Right(words, j)[k] = words[j + k]
<1>1. j \in Nat /\ j <= j
  OBVIOUS
<1>2. Right(words, j) \in Seq(Chars) /\ Len(Right(words, j)) = Len(words) - j
  BY <1>1, PartedWords
<1>3. \A k \in 1 .. Len(words) - j : Right(words, j)[k] = words[j + k]
  BY <1>1, PartedWords
<1> QED
  BY <1>2, <1>3

(* What replaces a placeholder: the answer, which a name with "$&" puts the  *)
(* placeholder back into.                                                    *)
Inserted(u, answer) ==
  IF u.name = "dollar" /\ answer = Link(u)
    THEN Left(answer, 1) \o Placeholder(u) \o Right(answer, 1)
    ELSE answer

(* An answer is one to three characters long, none of a placeholder; what    *)
(* String.replace makes of it is the answer, but for a name with "$&".       *)
LEMMA InsertedText ==
  ASSUME NEW u \in UploadSet, NEW answer \in {Link(u), Failure(u)}
  PROVE  /\ answer \in Seq(Chars) /\ Len(answer) \in 1 .. 3 /\ answer # <<>>
         /\ \A c \in ToSet(answer) : c[1] \notin Names
         /\ ToSet(answer) \cap ToSet(Placeholder(u)) = {}
         /\ Inserted(u, answer) \in Seq(Chars) /\ Inserted(u, answer) # <<>>
         /\ Len(Inserted(u, answer)) \in Nat /\ Len(answer) <= Len(Inserted(u, answer))
         /\ u.name # "dollar" => Inserted(u, answer) = answer
         /\ Once(Inserted(u, answer))
         /\ Marks(Inserted(u, answer)) \subseteq Marks(Placeholder(u))
         /\ \A c \in ToSet(Inserted(u, answer)) :
              c[1] \in Names => c \in ToSet(Placeholder(u))
<1> DEFINE old == Placeholder(u)
           ins == Inserted(u, answer)
           n == Len(answer)
<1>1. /\ answer \in Seq(Chars) /\ n \in 1 .. 3
      /\ \A c \in ToSet(answer) : c[1] \notin Names
      /\ old \in Seq(Chars) /\ Len(old) = 2 /\ Marks(old) = ToSet(old) /\ Once(old)
      /\ "link" \notin Names /\ "failure" \notin Names
  <2>1. "link" \notin Names /\ "failure" \notin Names
    BY DEF Names
  <2> QED
    BY <2>1, UploadTexts
<1>2. Marks(answer) = {} /\ Once(answer)
  BY <1>1, PlainTexts
<1>3. answer # <<>>
  BY <1>1, EmptySeq
<1>4. ToSet(answer) \cap ToSet(old) = {}
  <2>1. \A c \in ToSet(old) : c[1] \in Names
    BY <1>1 DEF Marks
  <2> QED
    BY <2>1, <1>1
<1>5. CASE u.name = "dollar" /\ answer = Link(u)
  <2> DEFINE a == Left(answer, 1)
             b == Right(answer, 1)
             ao == a \o old
  <2> HIDE DEF old, n
  <2>1. /\ a \in Seq(Chars) /\ Len(a) = 1 /\ b \in Seq(Chars) /\ Len(b) = n - 1
        /\ \A k \in 1 .. 1 : a[k] = answer[k]
        /\ \A k \in 1 .. n - 1 : b[k] = answer[1 + k]
    <3>1. 1 \in Nat /\ 1 <= Len(answer) /\ 1 <= 1
      BY <1>1 DEF n
    <3>2. answer \in Seq(Chars)
      BY <1>1
    <3>3. /\ Left(answer, 1) \in Seq(Chars) /\ Len(Left(answer, 1)) = 1
          /\ Right(answer, 1) \in Seq(Chars) /\ Len(Right(answer, 1)) = Len(answer) - 1
          /\ \A k \in 1 .. 1 : Left(answer, 1)[k] = answer[k]
          /\ \A k \in 1 .. Len(answer) - 1 : Right(answer, 1)[k] = answer[1 + k]
      BY <3>1, <3>2, PartedWords
    <3> QED
      BY <3>3 DEF n
  <2>2. ToSet(a) \subseteq ToSet(answer) /\ ToSet(b) \subseteq ToSet(answer)
    <3>1. DOMAIN a = 1 .. 1 /\ DOMAIN b = 1 .. n - 1 /\ DOMAIN answer = 1 .. n
      <4> HIDE DEF a, b
      <4>1. DOMAIN a = 1 .. Len(a) /\ DOMAIN b = 1 .. Len(b) /\ DOMAIN answer = 1 .. Len(answer)
        BY <2>1, <1>1
      <4> QED
        BY <4>1, <2>1 DEF n
    <3> HIDE DEF a, b
    <3>2. \A k \in 1 .. 1 : k \in 1 .. n
      BY <1>1
    <3>3. \A k \in 1 .. n - 1 : 1 + k \in 1 .. n
      BY <1>1
    <3> QED
      BY <3>1, <3>2, <3>3, <2>1 DEF ToSet
  <2>3. ins = ao \o b
    BY <1>5 DEF Inserted, old
  <2> HIDE DEF a, b
  <2>4. Marks(a) = {} /\ Once(a) /\ Marks(b) = {} /\ Once(b)
    BY <1>1, <2>1, <2>2, PlainTexts
  <2>5. ao \in Seq(Chars) /\ Marks(ao) = Marks(old) /\ Once(ao) /\ ToSet(ao) = ToSet(a) \cup ToSet(old)
    <3>1. ao \in Seq(Chars) /\ ToSet(ao) = ToSet(a) \cup ToSet(old)
      BY <1>1, <2>1, JoinedTexts
    <3>2. /\ Marks(ao) = Marks(a) \cup Marks(old)
          /\ Once(ao) <=> Once(a) /\ Once(old) /\ Marks(a) \cap Marks(old) = {}
      BY <1>1, <2>1, JoinedMarks
    <3> QED
      BY <3>1, <3>2, <2>4, <1>1
  <2> HIDE DEF ao, ins
  <2>6. Marks(ins) = Marks(old) /\ Once(ins)
    <3>1. /\ Marks(ins) = Marks(ao) \cup Marks(b)
          /\ Once(ins) <=> Once(ao) /\ Once(b) /\ Marks(ao) \cap Marks(b) = {}
      BY <2>1, <2>3, <2>5, JoinedMarks
    <3> QED
      BY <3>1, <2>4, <2>5
  <2>7. /\ ins \in Seq(Chars) /\ Len(ins) = n + 2
        /\ ToSet(ins) = ToSet(a) \cup ToSet(old) \cup ToSet(b)
    <3>1. /\ ins \in Seq(Chars) /\ Len(ins) = Len(a) + Len(old) + Len(b)
          /\ ToSet(ins) = ToSet(a) \cup ToSet(old) \cup ToSet(b)
      <4>1. a \in Seq(Chars) /\ old \in Seq(Chars) /\ b \in Seq(Chars) /\ ins = a \o old \o b
        BY <1>1, <2>1, <2>3 DEF ao
      <4>2. /\ a \o old \o b \in Seq(Chars) /\ Len(a \o old \o b) = Len(a) + Len(old) + Len(b)
            /\ ToSet(a \o old \o b) = ToSet(a) \cup ToSet(old) \cup ToSet(b)
        BY <4>1, JoinedThree
      <4> QED
        BY <4>1, <4>2
    <3> QED
      BY <3>1, <2>1, <1>1
  <2>8. \A c \in ToSet(ins) : c[1] \in Names => c \in ToSet(old)
    BY <2>2, <2>7, <1>1
  <2>9. Len(ins) \in Nat /\ n <= Len(ins) /\ ins # <<>>
    <3>1. Len(ins) # 0
      BY <2>7, <1>1
    <3> QED
      BY <3>1, <2>7, <1>1, EmptySeq
  <2>10. Marks(ins) \subseteq Marks(old) /\ u.name = "dollar"
    BY <2>6, <1>5
  <2> QED
    BY <2>6, <2>7, <2>8, <2>9, <2>10, <1>1, <1>3, <1>4 DEF old, ins, n
<1>6. CASE ~(u.name = "dollar" /\ answer = Link(u))
  <2>1. ins = answer
    BY <1>6 DEF Inserted
  <2>2. n \in Nat
    BY <1>1
  <2> HIDE DEF ins
  <2> QED
    BY <2>1, <2>2, <1>1, <1>2, <1>3, <1>4 DEF ins
<1> QED
  BY <1>5, <1>6

(* Where a placeholder is, and what the text is around it.                   *)
LEMMA PlaceholderFound ==
  ASSUME NEW u \in UploadSet, NEW words \in Seq(Chars), Shows(words, Placeholder(u))
  PROVE  LET at == IndexIn(Placeholder(u), words)
         IN  /\ at \in Nat /\ at + 2 <= Len(words)
             /\ Left(words, at) \in Seq(Chars) /\ Len(Left(words, at)) = at
             /\ Right(words, at + 2) \in Seq(Chars)
             /\ Len(Right(words, at + 2)) = Len(words) - (at + 2)
             /\ words = Left(words, at) \o Placeholder(u) \o Right(words, at + 2)
<1> DEFINE old == Placeholder(u)
           at == IndexIn(old, words)
           n == Len(words)
<1>1. old \in Seq(Chars) /\ Len(old) = 2
  BY UploadTexts
<1>2. n \in Nat
  OBVIOUS
<1>3. at \in 0 .. n - Len(old) /\ \A k \in 1 .. Len(old) : words[at + k] = old[k]
  BY <1>1, IndexOf DEF Shows
<1> HIDE DEF at
<1>4. at \in Nat /\ at + 2 <= n /\ at + 2 \in Nat /\ at <= at + 2 /\ at + 2 - at = 2
  <2>1. at \in 0 .. n - 2
    BY <1>1, <1>3
  <2> QED
    BY <2>1, <1>2
<1> DEFINE j0 == at + 2
           old0 == Between(words, at, j0)
<1>5. j0 \in Nat /\ at <= j0 /\ j0 <= Len(words) /\ j0 - at = 2
  BY <1>4
<1> HIDE DEF j0
<1>6. /\ Left(words, at) \in Seq(Chars) /\ Len(Left(words, at)) = at
      /\ old0 \in Seq(Chars) /\ Len(old0) = j0 - at
      /\ Right(words, j0) \in Seq(Chars) /\ Len(Right(words, j0)) = Len(words) - j0
      /\ \A k \in 1 .. j0 - at : old0[k] = words[at + k]
      /\ words = Left(words, at) \o old0 \o Right(words, j0)
  <2> HIDE DEF n, old
  <2>1. at \in Nat /\ j0 \in Nat /\ at <= j0 /\ j0 <= Len(words)
    BY <1>4, <1>5
  <2>2. Left(words, at) \in Seq(Chars) /\ Len(Left(words, at)) = at
    BY <2>1, PartedWords
  <2>3. Between(words, at, j0) \in Seq(Chars) /\ Len(Between(words, at, j0)) = j0 - at
    BY <2>1, PartedWords
  <2>4. Right(words, j0) \in Seq(Chars) /\ Len(Right(words, j0)) = Len(words) - j0
    BY <2>1, PartedWords
  <2>5. \A k \in 1 .. j0 - at : Between(words, at, j0)[k] = words[at + k]
    BY <2>1, PartedWords
  <2>6. words = Left(words, at) \o Between(words, at, j0) \o Right(words, j0)
    BY <2>1, PartedWords
  <2> QED
    BY <2>2, <2>3, <2>4, <2>5, <2>6
<1> HIDE DEF old0, n, old
<1>7. old0 = old
  <2>1. Len(old0) = 2 /\ \A k \in 1 .. 2 : old0[k] = words[at + k]
    BY <1>5, <1>6
  <2>2. \A k \in 1 .. 2 : old[k] = words[at + k]
    BY <1>1, <1>3
  <2> QED
    BY <2>1, <2>2, <1>1, <1>6, SeqEqual
<1> QED
  BY <1>4, <1>6, <1>7 DEF at, n, j0, old

(* What replaces one part of a text with another leaves of the rest.         *)
LEMMA PartReplaced ==
  ASSUME NEW a \in Seq(Chars), NEW old \in Seq(Chars), NEW b \in Seq(Chars),
         NEW new \in Seq(Chars), old # <<>>, new # <<>>,
         Once(a \o old \o b), Once(new), Marks(new) \subseteq Marks(old)
  PROVE  /\ a \o new \o b \in Seq(Chars) /\ Once(a \o new \o b)
         /\ Marks(a \o new \o b) \subseteq Marks(a \o old \o b)
         /\ Marks(a) \cap Marks(old) = {} /\ Marks(b) \cap Marks(old) = {}
         /\ Occurs(new, a \o new \o b)
         /\ \A y \in Seq(Chars) : y # <<>> =>
              /\ ToSet(y) \cap ToSet(old) = {} /\ Occurs(y, a \o old \o b)
                   => Occurs(y, a \o new \o b)
              /\ ToSet(y) \cap ToSet(new) = {} /\ Occurs(y, a \o new \o b)
                   => Occurs(y, a) \/ Occurs(y, b)
              /\ ToSet(y) \cap ToSet(new) = {} /\ Occurs(y, a \o new \o b)
                   => Occurs(y, a \o old \o b)
<1> DEFINE ao == a \o old
           an == a \o new
<1>1. /\ ao \in Seq(Chars) /\ Marks(ao) = Marks(a) \cup Marks(old)
      /\ Once(ao) <=> Once(a) /\ Once(old) /\ Marks(a) \cap Marks(old) = {}
  BY JoinedTexts, JoinedMarks
<1>2. /\ an \in Seq(Chars) /\ Marks(an) = Marks(a) \cup Marks(new)
      /\ Once(an) <=> Once(a) /\ Once(new) /\ Marks(a) \cap Marks(new) = {}
  BY JoinedTexts, JoinedMarks
<1> HIDE DEF ao, an
<1>3. /\ Marks(ao \o b) = Marks(ao) \cup Marks(b)
      /\ Once(ao \o b) <=> Once(ao) /\ Once(b) /\ Marks(ao) \cap Marks(b) = {}
  BY <1>1, JoinedMarks
<1>4. /\ an \o b \in Seq(Chars) /\ Marks(an \o b) = Marks(an) \cup Marks(b)
      /\ Once(an \o b) <=> Once(an) /\ Once(b) /\ Marks(an) \cap Marks(b) = {}
  BY <1>2, JoinedMarks, JoinedTexts
<1>5. /\ Once(a) /\ Once(b) /\ Marks(a) \cap Marks(old) = {}
      /\ Marks(a) \cap Marks(b) = {} /\ Marks(old) \cap Marks(b) = {}
  <2>1. Once(ao \o b)
    BY DEF ao
  <2> QED
    BY <2>1, <1>1, <1>3
<1>6. Once(an \o b) /\ Marks(an \o b) \subseteq Marks(ao \o b)
  BY <1>1, <1>2, <1>3, <1>4, <1>5
<1>7. ASSUME NEW y \in Seq(Chars), y # <<>>
      PROVE  /\ Occurs(y, a) \/ Occurs(y, new) \/ Occurs(y, b) => Occurs(y, an \o b)
             /\ Occurs(y, a) \/ Occurs(y, old) \/ Occurs(y, b) => Occurs(y, ao \o b)
             /\ ToSet(y) \cap ToSet(old) = {} /\ Occurs(y, ao \o b) => Occurs(y, a) \/ Occurs(y, b)
             /\ ToSet(y) \cap ToSet(new) = {} /\ Occurs(y, an \o b) => Occurs(y, a) \/ Occurs(y, b)
  BY <1>7, OccursAround DEF an, ao
<1>8. Occurs(new, new)
  <2> DEFINE n == Len(new)
  <2>1. n \in Nat
    OBVIOUS
  <2>2. 0 \in 0 .. n - n
    BY <2>1
  <2>3. \A k \in 1 .. n : 0 + k = k
    BY <2>1
  <2> HIDE DEF n
  <2>4. \E i \in 0 .. n - n : \A k \in 1 .. n : new[i + k] = new[k]
    BY <2>2, <2>3
  <2> QED
    BY <2>4 DEF Occurs, n
<1>9. Occurs(new, an \o b)
  BY <1>7, <1>8
<1> QED
  BY <1>4, <1>5, <1>6, <1>7, <1>9 DEF an, ao

(* The text field of the editor: the text with the selection.                        *)
PageSound(field) ==
  /\ field.text \in Seq(Chars) /\ Once(field.text)
  /\ field.start \in Nat /\ field.end \in Nat
  /\ field.start <= field.end /\ field.end <= Len(field.text)

(* What an answer makes of the text: it is there in place of the placeholder *)
(* (a name with "$&" is the exception), and whatever else was shown is shown *)
(* as before.                                                                *)
Answers(words, words2, u, answer) ==
  /\ Marks(words2) \subseteq Marks(words)
  /\ u.name # "dollar" => Occurs(answer, words2) /\ ~Occurs(Placeholder(u), words2)
  /\ \A y \in Seq(Chars) :
       y # <<>> /\ ToSet(y) \cap ToSet(Placeholder(u)) = {} =>
         /\ Occurs(y, words) => Occurs(y, words2)
         /\ (\A c \in ToSet(y) : c[1] \in Names) /\ Occurs(y, words2) => Occurs(y, words)

(* Replacing a placeholder leaves a sound text and a selection inside it,    *)
(* and answers the upload, whether the placeholder is there or the user      *)
(* broke it.                                                                 *)
LEMMA ReplacedText ==
  ASSUME NEW u \in UploadSet, NEW answer \in {Link(u), Failure(u)},
         NEW words \in Seq(Chars), Once(words),
         NEW start \in Nat, NEW end \in Nat, start <= end, end <= Len(words)
  PROVE  /\ PageSound(Replaced(words, start, end, u, answer))
         /\ Answers(words, Replaced(words, start, end, u, answer).text, u, answer)
<1> DEFINE old == Placeholder(u)
           ins == Inserted(u, answer)
           at == IndexIn(old, words)
           new == Replaced(words, start, end, u, answer)
           m == Len(words)
           l == Len(answer)
<1>1. /\ answer \in Seq(Chars) /\ l \in 1 .. 3 /\ answer # <<>>
      /\ \A c \in ToSet(answer) : c[1] \notin Names
      /\ ToSet(answer) \cap ToSet(old) = {}
      /\ ins \in Seq(Chars) /\ ins # <<>> /\ Len(ins) \in Nat /\ l <= Len(ins)
      /\ u.name # "dollar" => ins = answer
      /\ Once(ins) /\ Marks(ins) \subseteq Marks(old)
      /\ \A c \in ToSet(ins) : c[1] \in Names => c \in ToSet(old)
  BY InsertedText
<1>2. /\ old \in Seq(Chars) /\ Len(old) = 2 /\ Marks(old) = ToSet(old) /\ old # <<>>
      /\ ToSet(old) # {}
  <2>1. /\ old \in Seq(Chars) /\ Len(old) = 2 /\ Marks(old) = ToSet(old)
        /\ ToSet(old) = {<<u.name, u.number, 1>>, <<u.name, u.number, 2>>}
    BY UploadTexts
  <2>2. old # <<>>
    <3> HIDE DEF old
    <3>1. Len(old) # 0
      BY <2>1
    <3> QED
      BY <3>1, NotEmpty
  <2>3. \A x, y : {x, y} # {}
    OBVIOUS
  <2>4. ToSet(old) # {}
    BY <2>1, <2>3
  <2> HIDE DEF old
  <2> QED
    BY <2>1, <2>2, <2>4
<1>3. m \in Nat /\ l \in Nat
  BY <1>1
<1>4. Shows(words, old) <=> Occurs(old, words)
  BY <1>2, IndexOf
<1>5. CASE Shows(words, old)
  <2> DEFINE a == Left(words, at)
             b == Right(words, at + 2)
             after == a \o ins \o b
  <2>1. /\ at \in Nat /\ at + 2 <= m /\ a \in Seq(Chars) /\ Len(a) = at
        /\ b \in Seq(Chars) /\ Len(b) = m - (at + 2) /\ words = a \o old \o b
    BY <1>5, PlaceholderFound
  <2>2. new.text = after
    BY <1>2, <1>5 DEF Replaced, Inserted, Shows
  <2>3. at # -1
    BY <1>5 DEF Shows
  <2> DEFINE inside == at <= start /\ end <= at + 2
             behind == (inside /\ start = end) \/ (start < at + 2 /\ at < end /\ ~inside)
  <2>4. /\ new.start = IF behind THEN at + l ELSE IF start >= at + 2 THEN start + (l - 2) ELSE start
        /\ new.end = IF behind THEN at + l ELSE IF end >= at + 2 THEN end + (l - 2) ELSE end
    <3>1. new.start = IF behind THEN at + l
                      ELSE IF start >= at + 2 THEN start + (l - 2) ELSE start
      BY <1>2, <2>3 DEF Replaced
    <3>2. new.end = IF behind THEN at + l
                    ELSE IF end >= at + 2 THEN end + (l - 2) ELSE end
      BY <1>2, <2>3 DEF Replaced
    <3> QED
      BY <3>1, <3>2
  <2> HIDE DEF at, a, b, old, new, ins, m, l
  <2>5. Len(after) = at + Len(ins) + (m - (at + 2)) /\ after \in Seq(Chars)
    <3>1. after \in Seq(Chars) /\ Len(after) = Len(a) + Len(ins) + Len(b)
      <4>1. a \in Seq(Chars) /\ ins \in Seq(Chars) /\ b \in Seq(Chars)
        BY <1>1, <2>1
      <4> QED
        BY <4>1, JoinedThree
    <3> HIDE DEF after
    <3> QED
      BY <3>1, <2>1
  <2>6. /\ Once(after) /\ Marks(after) \subseteq Marks(words)
        /\ Marks(a) \cap Marks(old) = {} /\ Marks(b) \cap Marks(old) = {}
        /\ Occurs(ins, after)
        /\ \A y \in Seq(Chars) : y # <<>> =>
              /\ ToSet(y) \cap ToSet(old) = {} /\ Occurs(y, words) => Occurs(y, after)
              /\ ToSet(y) \cap ToSet(ins) = {} /\ Occurs(y, after) => Occurs(y, a) \/ Occurs(y, b)
              /\ ToSet(y) \cap ToSet(ins) = {} /\ Occurs(y, after) => Occurs(y, words)
    <3>1. Once(a \o old \o b)
      BY <2>1
    <3>2. /\ Once(after) /\ Marks(after) \subseteq Marks(a \o old \o b)
          /\ Marks(a) \cap Marks(old) = {} /\ Marks(b) \cap Marks(old) = {}
          /\ Occurs(ins, after)
          /\ \A y \in Seq(Chars) : y # <<>> =>
              /\ ToSet(y) \cap ToSet(old) = {} /\ Occurs(y, a \o old \o b) => Occurs(y, after)
              /\ ToSet(y) \cap ToSet(ins) = {} /\ Occurs(y, after) => Occurs(y, a) \/ Occurs(y, b)
              /\ ToSet(y) \cap ToSet(ins) = {} /\ Occurs(y, after) => Occurs(y, a \o old \o b)
      BY <1>1, <1>2, <2>1, <3>1, PartReplaced
    <3> HIDE DEF after
    <3> QED
      BY <3>2, <2>1
  <2> HIDE DEF after
  <2>7. PageSound(new)
    <3>1. new.start \in Nat /\ new.end \in Nat /\ new.start <= new.end /\ new.end <= Len(after)
      <4>0. Len(after) \in Nat /\ Len(after) >= at + l + (m - (at + 2)) /\ l \in 1 .. 3
            /\ m \in Nat /\ at \in Nat /\ end <= m /\ at + 2 <= m
        BY <2>5, <1>1, <1>3, <2>1 DEF m
      <4> DEFINE k == Len(after)
                 s2 == new.start
                 e2 == new.end
      <4>1. /\ s2 = IF behind THEN at + l ELSE IF start >= at + 2 THEN start + (l - 2) ELSE start
            /\ e2 = IF behind THEN at + l ELSE IF end >= at + 2 THEN end + (l - 2) ELSE end
            /\ k \in Nat /\ k >= at + l + (m - (at + 2))
        BY <2>4, <4>0
      <4> HIDE DEF k, s2, e2
      <4>2. s2 \in Nat /\ e2 \in Nat /\ s2 <= e2 /\ e2 <= k
        BY <4>0, <4>1
      <4> QED
        BY <4>2 DEF k, s2, e2
    <3> QED
      BY <3>1, <2>2, <2>5, <2>6 DEF PageSound
  <2>8. ASSUME u.name # "dollar" PROVE Occurs(answer, after) /\ ~Occurs(old, after)
    <3>1. ins = answer
      BY <2>8, <1>1
    <3>2. Occurs(answer, after)
      BY <3>1, <2>6
    <3>3. ~Occurs(old, a) /\ ~Occurs(old, b)
      <4>1. ASSUME NEW x \in Seq(Chars), Occurs(old, x), Marks(x) \cap Marks(old) = {} PROVE FALSE
        <5>1. ToSet(old) \subseteq ToSet(x)
          BY <4>1, <1>2, NoneInCommon
        <5>2. Marks(old) \subseteq Marks(x)
          BY <5>1 DEF Marks
        <5> QED
          BY <5>2, <4>1, <1>2
      <4> QED
        BY <4>1, <2>1, <2>6
    <3>4. ~Occurs(old, after)
      <4>1. ToSet(old) \cap ToSet(ins) = {}
        BY <3>1, <1>1
      <4> QED
        BY <4>1, <3>3, <2>6, <1>2
    <3> QED
      BY <3>2, <3>4
  <2>9. ASSUME NEW y \in Seq(Chars), y # <<>>, ToSet(y) \cap ToSet(old) = {}
        PROVE  /\ Occurs(y, words) => Occurs(y, after)
               /\ (\A c \in ToSet(y) : c[1] \in Names) /\ Occurs(y, after) => Occurs(y, words)
    <3>1. (\A c \in ToSet(y) : c[1] \in Names) => ToSet(y) \cap ToSet(ins) = {}
      BY <2>9, <1>1
    <3> QED
      BY <3>1, <2>9, <2>6
  <2>10. Answers(words, after, u, answer)
    BY <2>6, <2>8, <2>9 DEF Answers, old
  <2> QED
    BY <2>2, <2>7, <2>10 DEF new
<1>6. CASE ~Shows(words, old)
  <2> DEFINE after == words \o NewLine \o answer
  <2>0. at = -1
    BY <1>6 DEF Shows
  <2>1. new.text = after
    BY <2>0 DEF Replaced
  <2> DEFINE inside == m <= start /\ end <= m + 2
             behind == (inside /\ start = end) \/ (start < m + 2 /\ m < end /\ ~inside)
  <2>2. /\ new.start = IF behind THEN m + l ELSE IF start >= m + 2 THEN start + (l - 2) ELSE start
        /\ new.end = IF behind THEN m + l ELSE IF end >= m + 2 THEN end + (l - 2) ELSE end
    <3>1. new.start = IF behind THEN m + l
                      ELSE IF start >= m + 2 THEN start + (l - 2) ELSE start
      BY <1>2, <2>0 DEF Replaced
    <3>2. new.end = IF behind THEN m + l
                    ELSE IF end >= m + 2 THEN end + (l - 2) ELSE end
      BY <1>2, <2>0 DEF Replaced
    <3> QED
      BY <3>1, <3>2
  <2>3. /\ NewLine \in Seq(Chars) /\ Len(NewLine) = 1 /\ NewLine # <<>>
        /\ \A c \in ToSet(NewLine) : c[1] \notin Names
    <3> DEFINE c0 == <<"newline", 0, 0>>
    <3>1. c0 \in Chars /\ c0[1] \notin Names /\ NewLine = <<c0>>
      BY DEF Chars, CharKinds, Names, NewLine, Char
    <3> HIDE DEF c0
    <3>2. NewLine \in Seq(Chars) /\ Len(NewLine) = 1 /\ DOMAIN NewLine = {1} /\ NewLine[1] = c0
      BY <3>1
    <3>3. NewLine # <<>>
      BY <3>2
    <3> QED
      BY <3>1, <3>2, <3>3 DEF ToSet
  <2> HIDE DEF at, old, new, m, l
  <2>4. after \in Seq(Chars) /\ Len(after) = m + 1 + l
    <3>1. after \in Seq(Chars) /\ Len(after) = Len(words) + Len(NewLine) + Len(answer)
      <4>1. NewLine \in Seq(Chars) /\ answer \in Seq(Chars)
        BY <1>1, <2>3
      <4> QED
        BY <4>1, JoinedThree
    <3> HIDE DEF after
    <3> QED
      BY <3>1, <2>3 DEF m, l
  <2>5. Once(after) /\ Marks(after) = Marks(words)
    <3> DEFINE wn == words \o NewLine
    <3>1. /\ Marks(NewLine) = {} /\ Once(NewLine) /\ Marks(answer) = {} /\ Once(answer)
      BY <1>1, <2>3, PlainTexts
    <3>2. /\ wn \in Seq(Chars) /\ Marks(wn) = Marks(words) \cup Marks(NewLine)
          /\ Once(wn) <=> Once(words) /\ Once(NewLine) /\ Marks(words) \cap Marks(NewLine) = {}
      BY <2>3, JoinedTexts, JoinedMarks
    <3> HIDE DEF wn
    <3>3. /\ Marks(wn \o answer) = Marks(wn) \cup Marks(answer)
          /\ Once(wn \o answer) <=> Once(wn) /\ Once(answer) /\ Marks(wn) \cap Marks(answer) = {}
      BY <1>1, <3>2, JoinedMarks
    <3>4. after = wn \o answer
      BY DEF wn
    <3> QED
      BY <3>1, <3>2, <3>3, <3>4
  <2>6. ASSUME NEW y \in Seq(Chars), y # <<>>
        PROVE  /\ Occurs(y, words) \/ Occurs(y, answer) => Occurs(y, after)
               /\ ToSet(y) \cap ToSet(NewLine) = {} /\ Occurs(y, after)
                    => Occurs(y, words) \/ Occurs(y, answer)
    BY <1>1, <2>3, <2>6, OccursAround
  <2>7. Occurs(answer, answer)
    <3>1. l \in Nat /\ 0 \in 0 .. l - l /\ \A k \in 1 .. l : 0 + k = k
      BY <1>3
    <3>2. \E i \in 0 .. l - l : \A k \in 1 .. l : answer[i + k] = answer[k]
      BY <3>1
    <3> QED
      BY <3>2 DEF Occurs, l
  <2> HIDE DEF after
  <2>8. PageSound(new)
    <3> DEFINE k == Len(after)
               s2 == new.start
               e2 == new.end
    <3>1. /\ s2 = IF behind THEN m + l ELSE IF start >= m + 2 THEN start + (l - 2) ELSE start
          /\ e2 = IF behind THEN m + l ELSE IF end >= m + 2 THEN end + (l - 2) ELSE end
          /\ k = m + 1 + l /\ m \in Nat /\ l \in 1 .. 3 /\ end <= m
      BY <2>2, <2>4, <1>1, <1>3 DEF m
    <3> HIDE DEF k, s2, e2
    <3>2. s2 \in Nat /\ e2 \in Nat /\ s2 <= e2 /\ e2 <= k
      BY <3>1
    <3> QED
      BY <3>2, <2>1, <2>4, <2>5 DEF PageSound, k, s2, e2
  <2>9. Occurs(answer, after) /\ ~Occurs(old, after)
    <3>1. Occurs(answer, after)
      BY <2>6, <2>7, <1>1
    <3>2. ToSet(old) \cap ToSet(NewLine) = {} /\ ~Occurs(old, answer)
      BY <1>1, <2>3, PlainShown DEF old
    <3> QED
      BY <3>1, <3>2, <2>6, <1>2, <1>4, <1>6
  <2>10. ASSUME NEW y \in Seq(Chars), y # <<>>, \A c \in ToSet(y) : c[1] \in Names,
                Occurs(y, after)
         PROVE  Occurs(y, words)
    <3>1. ToSet(y) \cap ToSet(NewLine) = {} /\ ToSet(y) \cap ToSet(answer) = {}
      BY <2>10, <2>3, <1>1
    <3>2. ~Occurs(y, answer)
      BY <3>1, <1>1, <2>10, NoneInCommon
    <3> QED
      BY <3>1, <3>2, <2>6, <2>10
  <2>11. Answers(words, after, u, answer)
    BY <2>5, <2>6, <2>9, <2>10 DEF Answers, old
  <2> QED
    BY <2>1, <2>8, <2>11 DEF new
<1> QED
  BY <1>5, <1>6

(* The texts and selections the field may hold.                              *)
EditorPages == {field \in [text : Seq(Chars), start : Nat, end : Nat] : PageSound(field)}

(* The same of what the field holds.                                         *)
LEMMA ReplacedPage ==
  ASSUME NEW u \in UploadSet, NEW answer \in {Link(u), Failure(u)}, NEW field \in EditorPages
  PROVE  LET after == Replaced(field.text, field.start, field.end, u, answer)
         IN  after \in EditorPages /\ Answers(field.text, after.text, u, answer)
<1> DEFINE after == Replaced(field.text, field.start, field.end, u, answer)
           words == field.text
           s == field.start
           e == field.end
<1>1. /\ words \in Seq(Chars) /\ Once(words) /\ s \in Nat /\ e \in Nat
      /\ s <= e /\ e <= Len(words)
  BY DEF EditorPages, PageSound
<1>2. after = [text |-> after.text, start |-> after.start, end |-> after.end]
  BY DEF Replaced
<1> HIDE DEF words, s, e
<1>3. PageSound(after) /\ Answers(words, after.text, u, answer)
  BY <1>1, ReplacedText DEF words, s, e
<1> HIDE DEF after
<1>4. after.text \in Seq(Chars) /\ after.start \in Nat /\ after.end \in Nat
  BY <1>3 DEF PageSound
<1>5. [text |-> after.text, start |-> after.start, end |-> after.end]
        \in [text : Seq(Chars), start : Nat, end : Nat]
  BY <1>4
<1>6. after \in EditorPages
  BY <1>2, <1>3, <1>5 DEF EditorPages
<1> QED
  BY <1>3, <1>6 DEF after, words

(* The same of an upload that cannot be sent.                                *)
LEMMA FailingPage ==
  ASSUME NEW u \in UploadSet, NEW field \in EditorPages
  PROVE  Failing(field, u) \in EditorPages /\ Answers(field.text, Failing(field, u).text, u, Failure(u))
BY ReplacedPage DEF Failing

(* The turns of the loop of uploadNext.                                      *)
LEMMA FailedLoop ==
  ASSUME NEW q \in Seq(UploadSet), NEW field \in EditorPages
  PROVE  LET after == Failed(q, field)
         IN  /\ after[0] = field
             /\ \A i \in 0 .. Len(q) : after[i] \in EditorPages
             /\ \A i \in 1 .. Len(q) : after[i] = Failing(after[i - 1], q[i])
<1> DEFINE n == Len(q)
           X == EditorPages
           turn == [i \in 1 .. n |-> [at \in X |-> Failing(at, q[i])]]
           IsRun(f) == f = [i \in 0 .. n |-> IF i = 0 THEN field ELSE Failing(f[i - 1], q[i])]
           run == CHOOSE f : IsRun(f)
<1>1. n \in Nat /\ \A i \in 1 .. n : q[i] \in UploadSet
  OBVIOUS
<1>2. ASSUME NEW i \in 1 .. n, NEW at \in X PROVE Failing(at, q[i]) \in X
  BY <1>1, FailingPage
<1>3. IsLoop(turn, n, X)
  BY <1>2 DEF IsLoop
<1>4. PICK f : Runs(f, turn, n, X, field)
  <2>1. n \in Nat /\ field \in X
    BY <1>1
  <2> HIDE DEF turn, n, X
  <2> QED
    BY <2>1, <1>3, Loop, Zenon
<1>5. f \in [0 .. n -> X] /\ f[0] = field /\ \A i \in 1 .. n : f[i] = Failing(f[i - 1], q[i])
  <2>1. f \in [0 .. n -> X] /\ f[0] = field /\ \A i \in 1 .. n : f[i] = turn[i][f[i - 1]]
    BY <1>4 DEF Runs
  <2>2. ASSUME NEW i \in 1 .. n PROVE f[i] = Failing(f[i - 1], q[i])
    <3>1. i - 1 \in 0 .. n
      BY <1>1
    <3>2. f[i - 1] \in X
      BY <3>1, <2>1
    <3> HIDE DEF X
    <3> QED
      BY <3>2, <2>1
  <2> QED
    BY <2>1, <2>2
<1> HIDE DEF X
<1>6. IsRun(f)
  <2>1. \A i \in 0 .. n : f[i] = IF i = 0 THEN field ELSE Failing(f[i - 1], q[i])
    BY <1>1, <1>5
  <2> QED
    BY <2>1, <1>5
<1>7. IsRun(run)
  BY <1>6
<1>8. Failed(q, field) = run
  BY DEF Failed
<1> HIDE DEF run
<1>9. run[0] = field /\ \A i \in 1 .. n : run[i] = Failing(run[i - 1], q[i])
  <2>1. \A i \in 0 .. n : run[i] = IF i = 0 THEN field ELSE Failing(run[i - 1], q[i])
    BY <1>7
  <2> QED
    BY <2>1, <1>1
<1>10. \A i \in 0 .. n : run[i] \in X
  <2> DEFINE Wrong == {i \in 0 .. n : run[i] \notin X}
  <2>1. CASE Wrong # {}
    <3>1. PICK x \in Wrong : \A y \in Wrong : x <= y
      <4>1. Wrong \in SUBSET Nat
        BY <1>1
      <4> HIDE DEF Wrong
      <4> QED
        BY <2>1, <4>1, Smallest
    <3>2. x # 0
      BY <1>9 DEF X
    <3>3. x \in 1 .. n /\ x - 1 \in 0 .. n /\ x - 1 < x
      BY <1>1, <3>1, <3>2
    <3>4. run[x - 1] \in X
      BY <3>1, <3>3
    <3> QED
      BY <3>1, <3>3, <3>4, <1>2, <1>9
  <2> QED
    BY <2>1
<1> QED
  BY <1>8, <1>9, <1>10 DEF X, n

(* The uploads of q that failed so far have left their errors, and whatever  *)
(* is of none of them is shown as before.                                    *)
FailedSoFar(q, n, words, words2) ==
  /\ Marks(words2) \subseteq Marks(words)
  /\ \A i \in 1 .. n : q[i].name # "dollar" =>
       Occurs(Failure(q[i]), words2) /\ ~Occurs(Placeholder(q[i]), words2)
  /\ \A y \in Seq(Chars) :
       y # <<>> /\ (\A i \in 1 .. n : ToSet(y) \cap ToSet(Placeholder(q[i])) = {}) =>
         /\ Occurs(y, words) => Occurs(y, words2)
         /\ (\A c \in ToSet(y) : c[1] \in Names) /\ Occurs(y, words2) => Occurs(y, words)

(* The uploads of the queue are in the order of their numbers.               *)
Ascending(q) == \A i, j \in DOMAIN q : i < j => q[i].number < q[j].number

(* After each turn of the loop of uploadNext, the uploads taken so far have  *)
(* failed, and the others are as they were.                                  *)
LEMMA FailedPages ==
  ASSUME NEW q \in Seq(UploadSet), NEW field \in EditorPages, Ascending(q)
  PROVE  \A n \in 0 .. Len(q) :
           /\ Failed(q, field)[n] \in EditorPages
           /\ FailedSoFar(q, n, field.text, Failed(q, field)[n].text)
<1> DEFINE m == Len(q)
           run == Failed(q, field)
           Good(n) == FailedSoFar(q, n, field.text, run[n].text)
<1>1. /\ m \in Nat /\ \A i \in 1 .. m : q[i] \in UploadSet
      /\ \A i, j \in 1 .. m : i < j => q[i].number < q[j].number
  BY DEF Ascending
<1>2. /\ run[0] = field /\ \A i \in 0 .. m : run[i] \in EditorPages
      /\ \A i \in 1 .. m : run[i] = Failing(run[i - 1], q[i])
  BY FailedLoop
<1> HIDE DEF run, m
<1>3. Good(0)
  BY <1>2 DEF FailedSoFar
<1>4. ASSUME NEW x \in 1 .. m, Good(x - 1) PROVE Good(x)
  <2> DEFINE words == field.text
             words1 == run[x - 1].text
             words2 == run[x].text
             u == q[x]
  <2>1. x - 1 \in 0 .. m /\ 1 .. x = (1 .. x - 1) \cup {x} /\ \A i \in 1 .. x - 1 : i \in 1 .. m /\ i < x
    BY <1>1
  <2>2. u \in UploadSet /\ Answers(words1, words2, u, Failure(u))
    BY <2>1, <1>1, <1>2, FailingPage
  <2>3. FailedSoFar(q, x - 1, words, words1)
    BY <1>4
  <2> HIDE DEF words, words1, words2, u, Good
  <2>4. Marks(words2) \subseteq Marks(words)
    BY <2>2, <2>3 DEF Answers, FailedSoFar
  <2>5. ASSUME NEW i \in 1 .. x, q[i].name # "dollar"
        PROVE  Occurs(Failure(q[i]), words2) /\ ~Occurs(Placeholder(q[i]), words2)
    <3>1. CASE i = x
      BY <3>1, <2>2, <2>5 DEF Answers, u
    <3>2. CASE i # x
      <4>1. i \in 1 .. x - 1 /\ i \in 1 .. m /\ q[i].number < u.number
        BY <3>2, <2>1, <1>1 DEF u
      <4>2. Occurs(Failure(q[i]), words1) /\ ~Occurs(Placeholder(q[i]), words1)
        BY <4>1, <2>3, <2>5 DEF FailedSoFar
      <4>3. q[i] \in UploadSet /\ q[i].number # u.number
        <5>1. q[i] \in UploadSet
          BY <4>1, <1>1
        <5>2. q[i].number \in Nat /\ u.number \in Nat
          BY <5>1, <2>2 DEF UploadSet
        <5> QED
          BY <4>1, <5>1, <5>2
      <4>4. ToSet(Placeholder(q[i])) \cap ToSet(Placeholder(u)) = {}
        BY <4>3, <2>2, OtherPlaceholders
      <4>5. /\ Placeholder(q[i]) \in Seq(Chars) /\ Placeholder(q[i]) # <<>>
            /\ \A c \in ToSet(Placeholder(q[i])) : c[1] \in Names
            /\ Failure(q[i]) \in Seq(Chars) /\ Failure(q[i]) # <<>>
            /\ \A c \in ToSet(Failure(q[i])) : c[1] \notin Names
        <5>1. /\ Placeholder(q[i]) \in Seq(Chars) /\ Len(Placeholder(q[i])) = 2
              /\ Marks(Placeholder(q[i])) = ToSet(Placeholder(q[i]))
              /\ Failure(q[i]) \in Seq(Chars) /\ Len(Failure(q[i])) = 1
              /\ \A c \in ToSet(Failure(q[i])) : c[1] = "failure"
          BY <4>3, UploadTexts
        <5>2. "failure" \notin Names
          BY DEF Names
        <5>3. Placeholder(q[i]) # <<>> /\ Failure(q[i]) # <<>>
          <6>1. Len(Placeholder(q[i])) # 0 /\ Len(Failure(q[i])) # 0
            BY <5>1
          <6> QED
            BY <6>1, NotEmpty
        <5>4. \A c \in ToSet(Placeholder(q[i])) : c[1] \in Names
          BY <5>1 DEF Marks
        <5> QED
          BY <5>1, <5>2, <5>3, <5>4
      <4>6. ToSet(Failure(q[i])) \cap ToSet(Placeholder(u)) = {}
        <5>1. Marks(Placeholder(u)) = ToSet(Placeholder(u))
          BY <2>2, UploadTexts
        <5> QED
          BY <5>1, <4>5 DEF Marks
      <4> QED
        BY <4>2, <4>4, <4>5, <4>6, <2>2 DEF Answers
    <3> QED
      BY <3>1, <3>2
  <2>6. ASSUME NEW y \in Seq(Chars), y # <<>>,
               \A i \in 1 .. x : ToSet(y) \cap ToSet(Placeholder(q[i])) = {}
        PROVE  /\ Occurs(y, words) => Occurs(y, words2)
               /\ (\A c \in ToSet(y) : c[1] \in Names) /\ Occurs(y, words2) => Occurs(y, words)
    <3>1. /\ Occurs(y, words) => Occurs(y, words1)
          /\ (\A c \in ToSet(y) : c[1] \in Names) /\ Occurs(y, words1) => Occurs(y, words)
      BY <2>1, <2>3, <2>6 DEF FailedSoFar
    <3>2. ToSet(y) \cap ToSet(Placeholder(u)) = {}
      BY <2>1, <2>6 DEF u
    <3>3. /\ Occurs(y, words1) => Occurs(y, words2)
          /\ (\A c \in ToSet(y) : c[1] \in Names) /\ Occurs(y, words2) => Occurs(y, words1)
      BY <3>2, <2>2, <2>6 DEF Answers
    <3> QED
      BY <3>1, <3>3
  <2>7. FailedSoFar(q, x, words, words2)
    BY <2>4, <2>5, <2>6 DEF FailedSoFar
  <2> QED
    BY <2>7 DEF Good, words, words2
<1> HIDE DEF Good
<1>5. \A n \in 0 .. m : Good(n)
  <2> DEFINE Wrong == {n \in 0 .. m : ~Good(n)}
  <2>1. CASE Wrong # {}
    <3>1. PICK x \in Wrong : \A y \in Wrong : x <= y
      <4>1. Wrong \in SUBSET Nat
        BY <1>1
      <4> HIDE DEF Wrong
      <4> QED
        BY <2>1, <4>1, Smallest
    <3>2. x # 0
      BY <1>3
    <3>3. x \in 1 .. m /\ x - 1 \in 0 .. m /\ ~(x <= x - 1)
      BY <1>1, <3>1, <3>2
    <3>4. Good(x - 1)
      BY <3>1, <3>3
    <3> QED
      BY <3>1, <3>3, <3>4, <1>4
  <2> QED
    BY <2>1
<1> QED
  BY <1>2, <1>5 DEF Good, m, run

(* The uploads that fail are the first of the queue, up to one that can be   *)
(* sent.                                                                     *)
LEMMA BadUploads ==
  ASSUME NEW q \in Seq(UploadSet)
  PROVE  /\ Bad(q) \in 0 .. Len(q)
         /\ \A i \in 1 .. Bad(q) : q[i].name = "header"
         /\ Bad(q) < Len(q) => q[Bad(q) + 1].name # "header"
<1> DEFINE m == Len(q)
           Good == {n \in 0 .. m : n < m => q[n + 1].name # "header"}
           bad == Bad(q)
<1>1. m \in Nat /\ m \in Good /\ Good \in SUBSET Nat
  OBVIOUS
<1>2. bad = CHOOSE n \in Good : \A k \in Good : n <= k
  BY DEF Bad, Min
<1>3. bad \in Good /\ \A k \in Good : bad <= k
  <2> HIDE DEF Good, bad
  <2>1. \E n \in Good : \A k \in Good : n <= k
    BY <1>1, Smallest
  <2> QED
    BY <1>2, <2>1
<1> HIDE DEF bad
<1>4. ASSUME NEW i \in 1 .. bad PROVE q[i].name = "header"
  <2>1. i - 1 \in 0 .. m /\ i - 1 < m /\ i - 1 + 1 = i /\ ~(bad <= i - 1)
    BY <1>1, <1>3
  <2>2. i - 1 \notin Good
    BY <1>3, <2>1
  <2> QED
    BY <2>1, <2>2
<1> QED
  BY <1>1, <1>3, <1>4 DEF bad

(* What uploads wait, and which is under way, for the files of the page.     *)
IsUpload(u, files) ==
  u \in UploadSet /\ u.number \in DOMAIN files /\ files[u.number] = u.name

(* The queue holds uploads of the page's files, in order.                    *)
QueueSound(q, files) ==
  q \in Seq(UploadSet) /\ Ascending(q) /\ \A i \in DOMAIN q : IsUpload(q[i], files)

(* The upload under way comes before all that wait; none waits without one,  *)
(* and the submit buttons are disabled while there is one.                   *)
UploadsSound(q, u, disabled, files) ==
  /\ QueueSound(q, files)
  /\ u # NoUpload => IsUpload(u, files) /\ \A i \in DOMAIN q : u.number < q[i].number
  /\ u = NoUpload => q = <<>>
  /\ disabled <=> u # NoUpload

(* The uploads that are not over.                                            *)
Waiting(q, u) == {q[i] : i \in DOMAIN q} \cup (IF u = NoUpload THEN {} ELSE {u})

(* What uploadNext does: the first uploads fail, and the next is sent.       *)
LEMMA NextUploads ==
  ASSUME NEW q, NEW files, QueueSound(q, files), NEW field \in EditorPages
  PROVE  LET next == UploadNext(q, field)
         IN  /\ next.page \in EditorPages
             /\ FailedSoFar(q, Bad(q), field.text, next.page.text)
             /\ Bad(q) = 0 => next.page = field
             /\ UploadsSound(next.queue, next.current, next.disabled, files)
             /\ Waiting(next.queue, next.current) = {q[i] : i \in Bad(q) + 1 .. Len(q)}
<1> DEFINE next == UploadNext(q, field)
           n == Bad(q)
           m == Len(q)
           rest == Right(q, n)
<1>1. /\ q \in Seq(UploadSet) /\ m \in Nat /\ n \in 0 .. m
      /\ \A i, j \in 1 .. m : i < j => q[i].number < q[j].number
      /\ \A i \in 1 .. m : IsUpload(q[i], files)
  BY BadUploads DEF QueueSound, Ascending
<1>2. /\ next.page = Failed(q, field)[n]
      /\ next.queue = (IF rest = <<>> THEN <<>> ELSE Tail(rest))
      /\ next.current = (IF rest = <<>> THEN NoUpload ELSE Head(rest))
      /\ next.disabled = (rest # <<>>)
  BY DEF UploadNext
<1>3. /\ next.page \in EditorPages
      /\ FailedSoFar(q, n, field.text, next.page.text)
      /\ n = 0 => next.page = field
  <2>1. QueueSound(q, files) => Ascending(q)
    BY DEF QueueSound
  <2>2. \A k \in 0 .. m : Failed(q, field)[k] \in EditorPages
                          /\ FailedSoFar(q, k, field.text, Failed(q, field)[k].text)
    BY <2>1, <1>1, FailedPages
  <2>3. Failed(q, field)[0] = field
    BY <1>1, FailedLoop
  <2> HIDE DEF next
  <2> QED
    BY <2>2, <2>3, <1>1, <1>2
<1> HIDE DEF next, n
<1>4. rest \in Seq(UploadSet) /\ Len(rest) = m - n /\ \A k \in 1 .. m - n : rest[k] = q[n + k]
  <2>1. rest = SubSeq(q, n + 1, m)
    BY DEF Right
  <2>2. n + 1 \in 1 .. m + 1 /\ m \in 0 .. m /\ n + 1 <= m + 1
    BY <1>1
  <2>3. \A k \in 1 .. m - n : n + 1 + k - 1 = n + k
    BY <1>1
  <2>4. rest \in Seq(UploadSet) /\ Len(rest) = m - n
    BY <2>1, <2>2, <1>1
  <2>5. \A k \in 1 .. m - n : rest[k] = q[n + 1 + k - 1]
    BY <2>1, <2>2, <1>1
  <2> QED
    BY <2>3, <2>4, <2>5
<1>5. NoUpload \notin UploadSet
  BY DEF NoUpload, UploadSet
<1> HIDE DEF rest, m
<1>6. CASE n = m
  <2>1. Len(rest) = 0 /\ rest = <<>>
    BY <1>1, <1>4, <1>6, EmptySeq
  <2>2. next.queue = <<>> /\ next.current = NoUpload /\ next.disabled = FALSE
    BY <2>1, <1>2
  <2>3. n + 1 .. m = {} /\ DOMAIN <<>> = {}
    BY <1>1, <1>6
  <2>4. UploadsSound(<<>>, NoUpload, FALSE, files)
    BY <2>3 DEF UploadsSound, QueueSound, Ascending
  <2>5. Waiting(<<>>, NoUpload) = {q[i] : i \in n + 1 .. m}
    BY <2>3 DEF Waiting
  <2> QED
    BY <2>2, <2>4, <2>5, <1>3 DEF next, n, m
<1>7. CASE n < m
  <2> DEFINE u == q[n + 1]
             tail == Tail(rest)
             l == m - (n + 1)
  <2>1. rest # <<>> /\ Len(rest) # 0 /\ n + 1 \in 1 .. m /\ 1 \in 1 .. m - n
    <3> HIDE DEF rest, n, m
    <3>1. Len(rest) # 0 /\ n + 1 \in 1 .. m /\ 1 \in 1 .. m - n
      BY <1>1, <1>4, <1>7
    <3> QED
      BY <3>1, NotEmpty
  <2>2. next.queue = tail /\ next.current = u /\ next.disabled = TRUE
    <3>1. Head(rest) = rest[1]
      BY <2>1, <1>4
    <3> QED
      BY <3>1, <2>1, <1>2, <1>4
  <2>3. l \in Nat /\ tail \in Seq(UploadSet) /\ DOMAIN tail = 1 .. l
        /\ \A k \in 1 .. l : tail[k] = q[n + 1 + k]
    <3>1. tail \in Seq(UploadSet) /\ Len(tail) = Len(rest) - 1
          /\ \A k \in 1 .. Len(rest) - 1 : tail[k] = rest[k + 1]
      BY <2>1, <1>4, HeadTailProperties
    <3> HIDE DEF tail
    <3>2. Len(rest) - 1 = l /\ l \in Nat
      BY <1>1, <1>4, <1>7
    <3>3. \A k \in 1 .. l : k + 1 \in 1 .. m - n /\ n + (k + 1) = n + 1 + k
      <4>1. n \in Nat /\ m \in Nat /\ n < m
        BY <1>1, <1>7
      <4> HIDE DEF m
      <4> QED
        BY <4>1
    <3>4. DOMAIN tail = 1 .. Len(tail)
      BY <3>1
    <3> HIDE DEF l
    <3> QED
      BY <3>1, <3>2, <3>3, <3>4, <1>4
  <2>4. \A k \in 1 .. l : n + 1 + k \in 1 .. m /\ n + 1 < n + 1 + k
    BY <1>1, <1>7
  <2>5. \A j, k \in 1 .. l : j < k => n + 1 + j < n + 1 + k
    BY <1>1
  <2> HIDE DEF tail, l
  <2>6. /\ \A k \in 1 .. l : IsUpload(tail[k], files) /\ u.number < tail[k].number
        /\ \A j, k \in 1 .. l : j < k => tail[j].number < tail[k].number
        /\ IsUpload(u, files)
    BY <2>1, <2>3, <2>4, <2>5, <1>1
  <2>7. u # NoUpload
    BY <2>1, <1>1, <1>5 DEF IsUpload
  <2>8. UploadsSound(tail, u, TRUE, files)
    <3> HIDE DEF u
    <3> QED
      BY <2>3, <2>6, <2>7 DEF UploadsSound, QueueSound, Ascending
  <2>9. Waiting(tail, u) = {q[i] : i \in n + 1 .. m}
    <3>1. ASSUME NEW i \in n + 1 .. m PROVE i = n + 1 \/ (i - (n + 1) \in 1 .. l /\ n + 1 + (i - (n + 1)) = i)
      BY <1>1 DEF l
    <3>2. ASSUME NEW k \in 1 .. l PROVE n + 1 + k \in n + 1 .. m
      BY <1>1 DEF l
    <3>3. n + 1 \in n + 1 .. m
      BY <1>1, <1>7
    <3>4. Waiting(tail, u) = {tail[k] : k \in 1 .. l} \cup {u}
      BY <2>3, <2>7 DEF Waiting
    <3>5. ASSUME NEW v PROVE v \in {tail[k] : k \in 1 .. l} \cup {u} <=> v \in {q[i] : i \in n + 1 .. m}
      <4>1. ASSUME NEW k \in 1 .. l PROVE tail[k] \in {q[i] : i \in n + 1 .. m}
        BY <3>2, <2>3
      <4>2. u \in {q[i] : i \in n + 1 .. m}
        BY <3>3
      <4>3. ASSUME NEW i \in n + 1 .. m PROVE q[i] \in {tail[k] : k \in 1 .. l} \cup {u}
        BY <3>1, <2>3
      <4> QED
        BY <4>1, <4>2, <4>3
    <3> QED
      BY <3>4, <3>5
  <2> QED
    BY <2>2, <2>8, <2>9, <1>3 DEF next, n, m
<1> QED
  BY <1>1, <1>6, <1>7

(* The parts of a text keep apart.                                           *)
LEMMA TextParts ==
  ASSUME NEW words \in Seq(Chars), Once(words), NEW i \in Nat, NEW j \in Nat,
         i <= j, j <= Len(words)
  PROVE  LET a == Left(words, i)
             b == Between(words, i, j)
             c == Right(words, j)
         IN  /\ a \in Seq(Chars) /\ b \in Seq(Chars) /\ c \in Seq(Chars)
             /\ Len(a) = i /\ Len(b) = j - i /\ Len(c) = Len(words) - j
             /\ Once(a) /\ Once(b) /\ Once(c)
             /\ Marks(a) \cap Marks(b) = {} /\ Marks(a) \cap Marks(c) = {}
             /\ Marks(b) \cap Marks(c) = {}
             /\ Marks(words) = Marks(a) \cup Marks(b) \cup Marks(c)
<1> DEFINE a == Left(words, i)
           b == Between(words, i, j)
           c == Right(words, j)
           ab == a \o b
<1>1. /\ a \in Seq(Chars) /\ b \in Seq(Chars) /\ c \in Seq(Chars)
      /\ Len(a) = i /\ Len(b) = j - i /\ Len(c) = Len(words) - j
      /\ words = ab \o c
  <2>1. a \in Seq(Chars) /\ Len(a) = i
    BY PartedWords
  <2>2. b \in Seq(Chars) /\ Len(b) = j - i
    BY PartedWords
  <2>3. c \in Seq(Chars) /\ Len(c) = Len(words) - j
    BY PartedWords
  <2>4. words = ab \o c
    BY PartedWords
  <2> HIDE DEF a, b, c, ab
  <2> QED
    BY <2>1, <2>2, <2>3, <2>4
<1> HIDE DEF a, b, c
<1>2. /\ ab \in Seq(Chars) /\ Marks(ab) = Marks(a) \cup Marks(b)
      /\ Once(ab) <=> Once(a) /\ Once(b) /\ Marks(a) \cap Marks(b) = {}
  <2>1. ab \in Seq(Chars)
    BY <1>1, JoinedTexts
  <2>2. /\ Marks(a \o b) = Marks(a) \cup Marks(b)
        /\ Once(a \o b) <=> Once(a) /\ Once(b) /\ Marks(a) \cap Marks(b) = {}
    BY <1>1, JoinedMarks
  <2> QED
    BY <2>1, <2>2
<1> HIDE DEF ab
<1>3. /\ Marks(ab \o c) = Marks(ab) \cup Marks(c)
      /\ Once(ab \o c) <=> Once(ab) /\ Once(c) /\ Marks(ab) \cap Marks(c) = {}
  BY <1>1, <1>2, JoinedMarks
<1>4. /\ Once(a) /\ Once(b) /\ Once(c)
      /\ Marks(a) \cap Marks(b) = {} /\ Marks(a) \cap Marks(c) = {} /\ Marks(b) \cap Marks(c) = {}
      /\ Marks(words) = Marks(a) \cup Marks(b) \cup Marks(c)
  BY <1>1, <1>2, <1>3
<1> QED
  BY <1>1, <1>4 DEF a, b, c

(* A text that shows nothing of an upload.                                   *)
Plain(x) == x \in Seq(Chars) /\ Once(x) /\ Marks(x) = {}

(* A sequence of one element.                                                *)
LEMMA OneInSeq ==
  ASSUME NEW S, NEW d \in S, NEW x, x = <<d>>
  PROVE  x \in Seq(S) /\ Len(x) = 1 /\ DOMAIN x = {1} /\ x[1] = d
OBVIOUS

(* The characters that are no upload's are a plain text each.                *)
LEMMA PlainChar ==
  ASSUME NEW kind \in {"newline", "too big", "word", "mark", "](", ")", "](url)"}
  PROVE  Plain(Char(kind)) /\ Len(Char(kind)) = 1
<1> DEFINE c == <<kind, 0, 0>>
           x == Char(kind)
<1>1. c \in Chars /\ c[1] \notin Names /\ x = <<c>>
  BY DEF Chars, CharKinds, Names, Char
<1> HIDE DEF c, x
<1>2. x \in Seq(Chars) /\ Len(x) = 1 /\ DOMAIN x = {1} /\ x[1] = c
  BY <1>1, OneInSeq
<1>3. \A d \in ToSet(x) : d[1] \notin Names
  BY <1>1, <1>2 DEF ToSet
<1> QED
  BY <1>2, <1>3, PlainTexts DEF Plain, x

(* A plain text behind another adds no characters of placeholders.           *)
LEMMA PutPlain ==
  ASSUME NEW a \in Seq(Chars), Once(a), NEW x, Plain(x)
  PROVE  /\ a \o x \in Seq(Chars) /\ Once(a \o x) /\ Marks(a \o x) = Marks(a)
         /\ Len(a \o x) = Len(a) + Len(x)
<1>1. x \in Seq(Chars) /\ Once(x) /\ Marks(x) = {}
  BY DEF Plain
<1>2. a \o x \in Seq(Chars) /\ Len(a \o x) = Len(a) + Len(x)
  BY <1>1, JoinedTexts
<1>3. /\ Marks(a \o x) = Marks(a) \cup Marks(x)
      /\ Once(a \o x) <=> Once(a) /\ Once(x) /\ Marks(a) \cap Marks(x) = {}
  BY <1>1, JoinedMarks
<1> QED
  BY <1>1, <1>2, <1>3

(* Two texts with different placeholders, one after the other.               *)
LEMMA PutPart ==
  ASSUME NEW a \in Seq(Chars), NEW b \in Seq(Chars), Once(a), Once(b),
         Marks(a) \cap Marks(b) = {}
  PROVE  /\ a \o b \in Seq(Chars) /\ Once(a \o b) /\ Marks(a \o b) = Marks(a) \cup Marks(b)
         /\ Len(a \o b) = Len(a) + Len(b)
<1>1. a \o b \in Seq(Chars) /\ Len(a \o b) = Len(a) + Len(b)
  BY JoinedTexts
<1>2. /\ Marks(a \o b) = Marks(a) \cup Marks(b)
      /\ Once(a \o b) <=> Once(a) /\ Once(b) /\ Marks(a) \cap Marks(b) = {}
  BY JoinedMarks
<1> QED
  BY <1>1, <1>2

(* A plain text put between two parts, or in place of what is between them.  *)
LEMMA PutBetween ==
  ASSUME NEW words \in Seq(Chars), Once(words), NEW i \in Nat, NEW j \in Nat,
         i <= j, j <= Len(words), NEW x \in Seq(Chars), Once(x), Marks(x) \cap Marks(words) = {}
  PROVE  LET after == Left(words, i) \o x \o Right(words, j)
         IN  /\ after \in Seq(Chars) /\ Once(after)
             /\ Marks(after) \subseteq Marks(words) \cup Marks(x)
             /\ Len(after) = i + Len(x) + (Len(words) - j)
<1> DEFINE a == Left(words, i)
           c == Right(words, j)
           ax == a \o x
<1>1. /\ a \in Seq(Chars) /\ c \in Seq(Chars) /\ Len(a) = i /\ Len(c) = Len(words) - j
      /\ Once(a) /\ Once(c) /\ Marks(a) \cap Marks(c) = {}
      /\ Marks(a) \subseteq Marks(words) /\ Marks(c) \subseteq Marks(words)
  <2>1. /\ a \in Seq(Chars) /\ c \in Seq(Chars) /\ Len(a) = i /\ Len(c) = Len(words) - j
        /\ Once(a) /\ Once(c) /\ Marks(a) \cap Marks(c) = {}
        /\ Marks(a) \subseteq Marks(words) /\ Marks(c) \subseteq Marks(words)
    <3>1. i \in Nat /\ j \in Nat /\ i <= j /\ j <= Len(words) /\ Once(words) /\ words \in Seq(Chars)
      OBVIOUS
    <3>2. Left(words, i) \in Seq(Chars) /\ Len(Left(words, i)) = i
      <4>1. i <= Len(words)
        BY <3>1
      <4> QED
        BY <3>1, <4>1, LeftPart
    <3>6. Right(words, j) \in Seq(Chars) /\ Len(Right(words, j)) = Len(words) - j
      BY <3>1, RightPart
    <3>3. /\ Once(Left(words, i)) /\ Once(Right(words, j))
          /\ Marks(Left(words, i)) \cap Marks(Right(words, j)) = {}
      BY <3>1, TextParts
    <3>4. Marks(a) \subseteq Marks(words)
      BY <3>1, TextParts
    <3>5. Marks(c) \subseteq Marks(words)
      BY <3>1, TextParts
    <3> QED
      BY <3>2, <3>3, <3>4, <3>5, <3>6
  <2> HIDE DEF a, c
  <2> QED
    BY <2>1
<1> HIDE DEF a, c
<1>2. /\ ax \in Seq(Chars) /\ Once(ax) /\ Marks(ax) = Marks(a) \cup Marks(x)
      /\ Len(ax) = Len(a) + Len(x)
  <2>1. Marks(a) \cap Marks(x) = {}
    BY <1>1
  <2> QED
    BY <1>1, <2>1, PutPart
<1> HIDE DEF ax
<1>3. /\ ax \o c \in Seq(Chars) /\ Once(ax \o c) /\ Marks(ax \o c) = Marks(ax) \cup Marks(c)
      /\ Len(ax \o c) = Len(ax) + Len(c)
  <2>1. Marks(ax) \cap Marks(c) = {}
    BY <1>1, <1>2
  <2> QED
    BY <1>1, <1>2, <2>1, PutPart
<1>4. Marks(ax \o c) \subseteq Marks(words) \cup Marks(x)
  BY <1>1, <1>2, <1>3
<1>5. Len(ax \o c) = i + Len(x) + (Len(words) - j)
  BY <1>1, <1>2, <1>3
<1> QED
  BY <1>3, <1>4, <1>5 DEF ax, a, c

(* What importUserFiles has made of the files so far: the placeholders it    *)
(* will insert carry the numbers after those of the uploads before.          *)
TakenSound(taken) ==
  /\ taken \in [insert : Seq(Chars), uploads : Seq(UploadSet)]
  /\ Once(taken.insert)
  /\ \A c \in Marks(taken.insert) : c[2] \in Len(names) + 1 .. Len(names) + Len(taken.uploads)
  /\ \A i \in DOMAIN taken.uploads : taken.uploads[i].number = Len(names) + i

(* One turn of the loop over the user's files: the placeholder it adds has   *)
(* the next number, so it is a new one.                                      *)
LEMMA TakesFile ==
  ASSUME names \in Seq(Names), NEW taken, TakenSound(taken), NEW f \in Files
  PROVE  TakenSound(TakeFile(taken, f))
<1> DEFINE ins == taken.insert
           ups == taken.uploads
           k == Len(names)
           m == Len(ups)
           u == [number |-> k + m + 1, name |-> f]
<1>1. /\ ins \in Seq(Chars) /\ ups \in Seq(UploadSet) /\ Once(ins) /\ k \in Nat /\ m \in Nat
      /\ \A c \in Marks(ins) : c[2] \in k + 1 .. k + m
      /\ \A i \in 1 .. m : ups[i].number = k + i
  BY DEF TakenSound
<1>2. Plain(NewLine)
  BY PlainChar DEF NewLine
<1>3. CASE f = "too big"
  <2> DEFINE x == Char("too big")
             ix == ins \o x
             new == ix \o NewLine
  <2>1. Plain(x)
    BY PlainChar
  <2> HIDE DEF x, ins
  <2>2. ix \in Seq(Chars) /\ Once(ix) /\ Marks(ix) = Marks(ins)
    BY <1>1, <2>1, PutPlain
  <2> HIDE DEF ix
  <2>3. new \in Seq(Chars) /\ Once(new) /\ Marks(new) = Marks(ins)
    BY <1>2, <2>2, PutPlain
  <2>4. TakeFile(taken, f) = [taken EXCEPT !.insert = @ \o x \o NewLine]
    BY <1>3 DEF TakeFile, x
  <2>5. TakeFile(taken, f) = [insert |-> new, uploads |-> ups]
    BY <2>4 DEF TakenSound, ix, ins
  <2> HIDE DEF new, ups
  <2>6. DOMAIN ups = 1 .. m
    BY <1>1 DEF m
  <2> QED
    BY <1>1, <2>3, <2>5, <2>6 DEF TakenSound
<1>4. CASE f # "too big"
  <2>1. f \in Names
    BY <1>4 DEF Files
  <2>2. u \in UploadSet /\ u.number = k + m + 1 /\ u.number \in Nat
    BY <1>1, <2>1 DEF UploadSet
  <2> DEFINE x == Placeholder(u)
             ix == ins \o x
             new == ix \o NewLine
             more == Append(ups, u)
  <2>3. TakeFile(taken, f) = [insert |-> new, uploads |-> more]
    BY <1>4 DEF TakeFile, NextNumber
  <2> HIDE DEF ins, ups, k, m, u
  <2>4. /\ x \in Seq(Chars) /\ Once(x) /\ Marks(x) = ToSet(x)
        /\ ToSet(x) = {<<u.name, u.number, 1>>, <<u.name, u.number, 2>>}
    BY <2>2, UploadTexts
  <2> HIDE DEF x
  <2>5. \A c \in Marks(x) : c[2] = k + m + 1
    BY <2>2, <2>4
  <2>6. Marks(ins) \cap Marks(x) = {}
    <3>1. k + m + 1 \notin k + 1 .. k + m
      BY <1>1
    <3> QED
      BY <3>1, <1>1, <2>5
  <2>7. ix \in Seq(Chars) /\ Once(ix) /\ Marks(ix) = Marks(ins) \cup Marks(x)
    BY <1>1, <2>4, <2>6, PutPart
  <2> HIDE DEF ix
  <2>8. new \in Seq(Chars) /\ Once(new) /\ Marks(new) = Marks(ins) \cup Marks(x)
    BY <1>2, <2>7, PutPlain
  <2> HIDE DEF new
  <2>9. /\ more \in Seq(UploadSet) /\ Len(more) = m + 1 /\ DOMAIN more = 1 .. m + 1
        /\ \A i \in 1 .. m : more[i] = ups[i]
        /\ more[m + 1] = u
    BY <1>1, <2>2 DEF m
  <2> HIDE DEF more
  <2>10. ASSUME NEW c \in Marks(new) PROVE c[2] \in k + 1 .. k + (m + 1)
    <3>1. \A i \in k + 1 .. k + m : i \in k + 1 .. k + (m + 1)
      BY <1>1
    <3>2. k + m + 1 \in k + 1 .. k + (m + 1)
      BY <1>1
    <3> QED
      BY <3>1, <3>2, <2>5, <2>8, <1>1
  <2>11. ASSUME NEW i \in 1 .. m + 1 PROVE more[i].number = k + i
    <3>1. CASE i \in 1 .. m
      BY <3>1, <1>1, <2>9
    <3>2. CASE i \notin 1 .. m
      <4>1. i = m + 1 /\ k + (m + 1) = k + m + 1
        BY <3>2, <1>1
      <4> QED
        BY <4>1, <2>2, <2>9
    <3> QED
      BY <3>1, <3>2
  <2>12. TakenSound([insert |-> new, uploads |-> more])
    BY <2>8, <2>9, <2>10, <2>11 DEF TakenSound, k
  <2> QED
    BY <2>3, <2>12
<1> QED
  BY <1>3, <1>4

(* What importUserFiles inserts: each placeholder once, numbered on from     *)
(* those of the page.                                                        *)
LEMMA TakenFiles ==
  ASSUME names \in Seq(Names), NEW files \in Seq(Files)
  PROVE  TakenSound(Taken(files))
<1> DEFINE n == Len(files)
           before == Left(text, selStart)
           onALine == before # <<>> /\ Last(before) # NewLine[1]
           base == [insert |-> IF onALine THEN NewLine ELSE <<>>, uploads |-> <<>>]
           X == {taken \in [insert : Seq(Chars), uploads : Seq(UploadSet)] : TakenSound(taken)}
           turn == [i \in 1 .. n |-> [at \in X |-> TakeFile(at, files[i])]]
           IsRun(f) == f = [i \in 0 .. n |-> IF i = 0 THEN base ELSE TakeFile(f[i - 1], files[i])]
           run == CHOOSE f : IsRun(f)
<1>1. n \in Nat /\ \A i \in 1 .. n : files[i] \in Files
  OBVIOUS
<1>2. base \in X
  <2>1. Plain(NewLine)
    BY PlainChar DEF NewLine
  <2>2. Plain(<<>>)
    <3>1. <<>> \in Seq(Chars) /\ \A c \in ToSet(<<>>) : c[1] \notin Names
      BY DEF ToSet
    <3> QED
      BY <3>1, PlainTexts DEF Plain
  <2> DEFINE ins == IF onALine THEN NewLine ELSE <<>>
  <2>3. Plain(ins)
    BY <2>1, <2>2
  <2> HIDE DEF ins
  <2>4. TakenSound([insert |-> ins, uploads |-> <<>>])
    BY <2>3 DEF TakenSound, Plain
  <2>5. TakenSound([insert |-> ins, uploads |-> <<>>])
          => [insert |-> ins, uploads |-> <<>>] \in [insert : Seq(Chars), uploads : Seq(UploadSet)]
    BY <2>3 DEF Plain
  <2> QED
    BY <2>4, <2>5 DEF ins
<1>3. ASSUME NEW i \in 1 .. n, NEW at \in X PROVE TakeFile(at, files[i]) \in X
  <2>1. TakenSound(TakeFile(at, files[i]))
    BY <1>1, TakesFile
  <2> QED
    BY <2>1 DEF TakenSound
<1> HIDE DEF base
<1>4. IsLoop(turn, n, X)
  BY <1>3 DEF IsLoop
<1>5. PICK f : Runs(f, turn, n, X, base)
  <2> HIDE DEF turn, n, X
  <2> QED
    BY <1>1, <1>2, <1>4, Loop, Zenon
<1>6. f \in [0 .. n -> X] /\ f[0] = base /\ \A i \in 1 .. n : f[i] = TakeFile(f[i - 1], files[i])
  <2>1. f \in [0 .. n -> X] /\ f[0] = base /\ \A i \in 1 .. n : f[i] = turn[i][f[i - 1]]
    BY <1>5 DEF Runs
  <2>2. ASSUME NEW i \in 1 .. n PROVE f[i] = TakeFile(f[i - 1], files[i])
    <3>1. i - 1 \in 0 .. n
      BY <1>1
    <3>2. f[i - 1] \in X
      BY <3>1, <2>1
    <3> HIDE DEF X
    <3> QED
      BY <3>2, <2>1
  <2> QED
    BY <2>1, <2>2
<1> HIDE DEF X
<1>7. IsRun(f)
  <2>1. \A i \in 0 .. n : f[i] = IF i = 0 THEN base ELSE TakeFile(f[i - 1], files[i])
    BY <1>1, <1>6
  <2> QED
    BY <2>1, <1>6
<1>8. IsRun(run)
  BY <1>7
<1>9. Taken(files) = run[n]
  BY DEF Taken, base
<1> HIDE DEF run
<1>10. run[0] = base /\ \A i \in 1 .. n : run[i] = TakeFile(run[i - 1], files[i])
  <2>1. \A i \in 0 .. n : run[i] = IF i = 0 THEN base ELSE TakeFile(run[i - 1], files[i])
    BY <1>8
  <2> QED
    BY <2>1, <1>1
<1>11. \A i \in 0 .. n : run[i] \in X
  <2> DEFINE Wrong == {i \in 0 .. n : run[i] \notin X}
  <2>1. CASE Wrong # {}
    <3>1. PICK x \in Wrong : \A y \in Wrong : x <= y
      <4>1. Wrong \in SUBSET Nat
        BY <1>1
      <4> HIDE DEF Wrong
      <4> QED
        BY <2>1, <4>1, Smallest
    <3>2. x # 0
      BY <1>2, <1>10
    <3>3. x \in 1 .. n /\ x - 1 \in 0 .. n /\ ~(x <= x - 1)
      BY <1>1, <3>1, <3>2
    <3>4. run[x - 1] \in X
      BY <3>1, <3>3
    <3> QED
      BY <3>1, <3>3, <3>4, <1>3, <1>10
  <2> QED
    BY <2>1
<1>12. run[n] \in X
  BY <1>1, <1>11
<1> QED
  BY <1>9, <1>12 DEF X

(* The text holds each placeholder's characters once at most, and those of   *)
(* the page's files only; the selection is inside it.                        *)
TextSound ==
  /\ names \in Seq(Names)
  /\ [text |-> text, start |-> selStart, end |-> selEnd] \in EditorPages
  /\ \A c \in Marks(text) : c[2] \in DOMAIN names

(* What holds of the editor between two handlers.                            *)
EditorInv ==
  /\ TextSound
  /\ UploadsSound(uploadQueue, currentUpload, submitDisabled, names)
  /\ posted = text
  /\ submitted => currentUpload = NoUpload

(* A page that opens shows no placeholder and has no upload.                 *)
LEMMA EditorStarts == UploadInit => EditorInv
<1> SUFFICES ASSUME UploadInit PROVE EditorInv
  OBVIOUS
<1>1. /\ text = <<>> \/ text = Char("word")
      /\ posted = text /\ selStart = 0 /\ selEnd = 0 /\ names = <<>> /\ uploadQueue = <<>>
      /\ currentUpload = NoUpload /\ submitDisabled = FALSE /\ submitted = FALSE
  BY DEF UploadInit
<1>2. Plain(text) /\ Len(text) \in Nat
  <2>1. Plain(<<>>) /\ Len(<<>>) \in Nat
    <3>1. <<>> \in Seq(Chars) /\ (\A c \in ToSet(<<>>) : c[1] \notin Names) /\ Len(<<>>) \in Nat
      BY DEF ToSet
    <3> QED
      BY <3>1, PlainTexts DEF Plain
  <2>2. Plain(Char("word")) /\ Len(Char("word")) = 1
    BY PlainChar
  <2> QED
    BY <2>1, <2>2, <1>1
<1>3. TextSound
  <2>1. names \in Seq(Names)
    BY <1>1
  <2> DEFINE field == [text |-> text, start |-> selStart, end |-> selEnd]
  <2>2. field \in [text : Seq(Chars), start : Nat, end : Nat]
    BY <1>1, <1>2 DEF Plain
  <2>3. PageSound(field)
    BY <1>1, <1>2 DEF PageSound, Plain
  <2> QED
    BY <2>1, <2>2, <2>3, <1>2 DEF TextSound, EditorPages, Plain
<1>4. UploadsSound(uploadQueue, currentUpload, submitDisabled, names)
  <2>1. uploadQueue \in Seq(UploadSet) /\ DOMAIN uploadQueue = {}
    BY <1>1
  <2> QED
    BY <2>1, <1>1 DEF UploadsSound, QueueSound, Ascending
<1> QED
  BY <1>1, <1>3, <1>4 DEF EditorInv

(* What EditorInv says of the text and the selection.                        *)
LEMMA EditorText ==
  ASSUME EditorInv
  PROVE  /\ names \in Seq(Names) /\ Len(names) \in Nat /\ DOMAIN names = 1 .. Len(names)
         /\ text \in Seq(Chars) /\ Once(text) /\ Len(text) \in Nat
         /\ selStart \in Nat /\ selEnd \in Nat /\ selStart <= selEnd /\ selEnd <= Len(text)
         /\ [text |-> text, start |-> selStart, end |-> selEnd] \in EditorPages
         /\ \A c \in Marks(text) : c[2] \in 1 .. Len(names)
<1>1. /\ names \in Seq(Names)
      /\ [text |-> text, start |-> selStart, end |-> selEnd] \in EditorPages
      /\ \A c \in Marks(text) : c[2] \in DOMAIN names
  BY DEF EditorInv, TextSound
<1>2. Len(names) \in Nat /\ DOMAIN names = 1 .. Len(names)
  BY <1>1
<1>3. /\ text \in Seq(Chars) /\ Once(text) /\ selStart \in Nat /\ selEnd \in Nat
      /\ selStart <= selEnd /\ selEnd <= Len(text)
  <2> DEFINE field == [text |-> text, start |-> selStart, end |-> selEnd]
  <2>1. field.text = text /\ field.start = selStart /\ field.end = selEnd
    OBVIOUS
  <2>2. PageSound(field) /\ field \in EditorPages
    BY <1>1 DEF EditorPages
  <2> QED
    BY <2>1, <2>2 DEF PageSound
<1>4. Len(text) \in Nat
  BY <1>3
<1> QED
  BY <1>1, <1>2, <1>3, <1>4

(* A text and a selection to which a handler turns the page.                 *)
LEMMA FieldIn ==
  ASSUME NEW words \in Seq(Chars), Once(words), NEW i \in Nat, NEW j \in Nat, i <= j, j <= Len(words)
  PROVE  [text |-> words, start |-> i, end |-> j] \in EditorPages
BY DEF EditorPages, PageSound

(* What the field holds is one of EditorPages, taken apart and put together. *)
LEMMA FieldOf ==
  ASSUME NEW field \in EditorPages
  PROVE  [text |-> field.text, start |-> field.start, end |-> field.end] \in EditorPages
BY DEF EditorPages, PageSound

(* The handlers that end with doMarkdown and uploadNext.                     *)
LEMMA Continued ==
  ASSUME NEW q, NEW field \in EditorPages, names' \in Seq(Names), QueueSound(q, names'),
         \A c \in Marks(field.text) : c[2] \in DOMAIN names', ~submitted', Continue(q, field)
  PROVE  /\ EditorInv'
         /\ FailedSoFar(q, Bad(q), field.text, text')
         /\ Bad(q) = 0 => text' = field.text /\ selStart' = field.start /\ selEnd' = field.end
         /\ Waiting(uploadQueue', currentUpload') = {q[i] : i \in Bad(q) + 1 .. Len(q)}
<1> DEFINE next == UploadNext(q, field)
           n == Bad(q)
<1>1. /\ next.page \in EditorPages
      /\ FailedSoFar(q, n, field.text, next.page.text)
      /\ n = 0 => next.page = field
      /\ UploadsSound(next.queue, next.current, next.disabled, names')
      /\ Waiting(next.queue, next.current) = {q[i] : i \in n + 1 .. Len(q)}
  BY NextUploads
<1>2. /\ text' = next.page.text /\ selStart' = next.page.start /\ selEnd' = next.page.end
      /\ posted' = next.page.text /\ uploadQueue' = next.queue /\ currentUpload' = next.current
      /\ submitDisabled' = next.disabled
  BY DEF Continue
<1> HIDE DEF next, n
<1>3. TextSound'
  <2>1. [text |-> text', start |-> selStart', end |-> selEnd'] \in EditorPages
    BY <1>1, <1>2, FieldOf
  <2>2. Marks(text') \subseteq Marks(field.text)
    BY <1>1, <1>2 DEF FailedSoFar
  <2>3. \A c \in Marks(text') : c[2] \in DOMAIN names'
    BY <2>2
  <2> QED
    BY <2>1, <2>3 DEF TextSound
<1>4. UploadsSound(uploadQueue', currentUpload', submitDisabled', names')
  BY <1>1, <1>2
<1>5. EditorInv'
  BY <1>2, <1>3, <1>4 DEF EditorInv
<1>6. n = 0 => text' = field.text /\ selStart' = field.start /\ selEnd' = field.end
  BY <1>1, <1>2
<1>7. Waiting(uploadQueue', currentUpload') = {q[i] : i \in n + 1 .. Len(q)}
  BY <1>1, <1>2
<1>8. FailedSoFar(q, n, field.text, text')
  BY <1>1, <1>2
<1> QED
  BY <1>5, <1>6, <1>7, <1>8 DEF n

-----------------------------------------------------------------------------
(* The body of UploadsReplaced.                                              *)
EachReplaced ==
  /\ \A n \in DOMAIN names' :
          LET u == [number |-> n, name |-> names'[n]]
          IN  /\ u \notin PendingUploads' /\ (n \notin DOMAIN names \/ u \in PendingUploads)
              /\ u.name # "dollar"
              => /\ ~Shows(text', Placeholder(u))
                 /\ Shows(text', Link(u)) \/ Shows(text', Failure(u))
  /\ \A v \in PendingUploads \cap PendingUploads' :
          currentUpload' # currentUpload /\ Shows(text, Placeholder(v)) =>
            Shows(text', Placeholder(v))
  /\ submitted' => PendingUploads' = {}
  /\ submitDisabled' <=> currentUpload' # NoUpload
  /\ currentUpload' = NoUpload => uploadQueue' = <<>>
  /\ posted' = text'

(* What EditorInv says of the buttons, the form and the preview.             *)
LEMMA SettledPage ==
  ASSUME EditorInv'
  PROVE  /\ submitted' => PendingUploads' = {}
         /\ submitDisabled' <=> currentUpload' # NoUpload
         /\ currentUpload' = NoUpload => uploadQueue' = <<>> /\ PendingUploads' = {}
         /\ posted' = text'
<1>1. /\ submitDisabled' <=> currentUpload' # NoUpload
      /\ currentUpload' = NoUpload => uploadQueue' = <<>>
      /\ posted' = text' /\ (submitted' => currentUpload' = NoUpload)
  BY DEF EditorInv, UploadsSound
<1>2. currentUpload' = NoUpload => PendingUploads' = {}
  <2>1. DOMAIN <<>> = {}
    OBVIOUS
  <2> QED
    BY <1>1, <2>1 DEF PendingUploads
<1> QED
  BY <1>1, <1>2

(* A step that leaves the uploads alone replaces none.                       *)
LEMMA NoneReplaced ==
  ASSUME EditorInv', currentUpload' = currentUpload,
         PendingUploads \subseteq PendingUploads',
         \A n \in DOMAIN names' :
           n \in DOMAIN names \/ [number |-> n, name |-> names'[n]] \in PendingUploads'
  PROVE  EachReplaced
BY SettledPage DEF EachReplaced

(* The selection between two plain texts.                                    *)
LEMMA Wrapped ==
  ASSUME NEW words \in Seq(Chars), Once(words), NEW i \in Nat, NEW j \in Nat,
         i <= j, j <= Len(words), NEW x, Plain(x), NEW y, Plain(y)
  PROVE  LET after == Left(words, i) \o x \o Between(words, i, j) \o y \o Right(words, j)
         IN  /\ after \in Seq(Chars) /\ Once(after) /\ Marks(after) \subseteq Marks(words)
             /\ Len(after) = Len(words) + Len(x) + Len(y)
<1> DEFINE a == Left(words, i)
           b == Between(words, i, j)
           c == Right(words, j)
           ax == a \o x
           axb == ax \o b
           axby == axb \o y
           all == axby \o c
<1>1. /\ a \in Seq(Chars) /\ b \in Seq(Chars) /\ c \in Seq(Chars)
      /\ Len(a) = i /\ Len(b) = j - i /\ Len(c) = Len(words) - j
      /\ Once(a) /\ Once(b) /\ Once(c)
      /\ Marks(a) \cap Marks(b) = {} /\ Marks(a) \cap Marks(c) = {} /\ Marks(b) \cap Marks(c) = {}
      /\ Marks(words) = Marks(a) \cup Marks(b) \cup Marks(c)
  <2>1. /\ a \in Seq(Chars) /\ Len(a) = i /\ b \in Seq(Chars) /\ Len(b) = j - i
    BY PartedText
  <2>2. c \in Seq(Chars)
    BY PartedText
  <2>3. Len(c) = Len(words) - j
    BY PartedText
  <2>4. /\ Once(a) /\ Once(b) /\ Once(c)
        /\ Marks(a) \cap Marks(b) = {} /\ Marks(a) \cap Marks(c) = {} /\ Marks(b) \cap Marks(c) = {}
    BY TextParts
  <2>5. Marks(words) = Marks(a) \cup Marks(b) \cup Marks(c)
    BY TextParts
  <2> HIDE DEF a, b, c
  <2> QED
    BY <2>1, <2>2, <2>3, <2>4, <2>5
<1> HIDE DEF a, b, c
<1>2. ax \in Seq(Chars) /\ Once(ax) /\ Marks(ax) = Marks(a) /\ Len(ax) = i + Len(x)
  BY <1>1, PutPlain
<1> HIDE DEF ax
<1>3. /\ axb \in Seq(Chars) /\ Once(axb) /\ Marks(axb) = Marks(a) \cup Marks(b)
      /\ Len(axb) = i + Len(x) + (j - i)
  <2>1. Marks(ax) \cap Marks(b) = {}
    BY <1>1, <1>2
  <2>2. /\ axb \in Seq(Chars) /\ Once(axb) /\ Marks(axb) = Marks(ax) \cup Marks(b)
        /\ Len(axb) = Len(ax) + Len(b)
    BY <2>1, <1>1, <1>2, PutPart
  <2> HIDE DEF axb
  <2> QED
    BY <2>2, <1>1, <1>2
<1> HIDE DEF axb
<1>4. /\ axby \in Seq(Chars) /\ Once(axby) /\ Marks(axby) = Marks(a) \cup Marks(b)
      /\ Len(axby) = i + Len(x) + (j - i) + Len(y)
  BY <1>3, PutPlain
<1> HIDE DEF axby
<1>5. /\ all \in Seq(Chars) /\ Once(all) /\ Marks(all) = Marks(a) \cup Marks(b) \cup Marks(c)
      /\ Len(all) = i + Len(x) + (j - i) + Len(y) + (Len(words) - j)
  <2>1. Marks(axby) \cap Marks(c) = {}
    BY <1>1, <1>4
  <2> QED
    BY <2>1, <1>1, <1>4, PutPart
<1>6. Len(all) = Len(words) + Len(x) + Len(y)
  <2>1. Len(x) \in Nat /\ Len(y) \in Nat /\ Len(words) \in Nat
    BY DEF Plain
  <2> HIDE DEF all
  <2> QED
    BY <2>1, <1>5
<1> QED
  BY <1>1, <1>5, <1>6 DEF all, axby, axb, ax, a, b, c

(* What the user does to the text leaves the uploads alone.                  *)
LEMMA EditKeeps ==
  ASSUME EditorInv, NEW w \in Seq(Chars), Once(w), Marks(w) \subseteq Marks(text),
         NEW k \in Nat, k <= Len(w), Edited(w, k)
  PROVE  EditorInv' /\ EachReplaced
<1>1. /\ text' = w /\ selStart' = k /\ selEnd' = k /\ posted' = w
      /\ UNCHANGED <<names, uploadQueue, currentUpload, submitDisabled, submitted>>
  BY DEF Edited
<1>2. TextSound'
  <2>1. [text |-> text', start |-> selStart', end |-> selEnd'] \in EditorPages
    BY <1>1, FieldIn
  <2>2. names' \in Seq(Names) /\ \A c \in Marks(text') : c[2] \in DOMAIN names'
    BY <1>1 DEF EditorInv, TextSound
  <2> QED
    BY <2>1, <2>2 DEF TextSound
<1>3. EditorInv'
  <2>1. UploadsSound(uploadQueue', currentUpload', submitDisabled', names')
    BY <1>1 DEF EditorInv
  <2> QED
    BY <2>1, <1>1, <1>2 DEF EditorInv
<1>4. PendingUploads' = PendingUploads /\ names' = names /\ currentUpload' = currentUpload
  BY <1>1 DEF PendingUploads
<1> QED
  BY <1>3, <1>4, NoneReplaced

(* Typing changes no placeholder but those it replaces, and answers none.    *)
LEMMA TypeKeeps ==
  ASSUME EditorInv, Type
  PROVE  EditorInv' /\ EachReplaced
<1> DEFINE x == Char("word")
           w == Left(text, selStart) \o x \o Right(text, selEnd)
           k == selStart + 1
<1>1. /\ text \in Seq(Chars) /\ Once(text) /\ Len(text) \in Nat
      /\ selStart \in Nat /\ selEnd \in Nat /\ selStart <= selEnd /\ selEnd <= Len(text)
  BY EditorText
<1>2. Plain(x) /\ Len(x) = 1
  BY PlainChar
<1>3. Edited(w, k)
  BY DEF Type
<1> HIDE DEF x
<1>4. w \in Seq(Chars) /\ Once(w) /\ Marks(w) \subseteq Marks(text)
      /\ Len(w) = selStart + Len(x) + (Len(text) - selEnd)
  <2>1. x \in Seq(Chars) /\ Once(x) /\ Marks(x) = {} /\ Marks(x) \cap Marks(text) = {}
    BY <1>2 DEF Plain
  <2>2. /\ w \in Seq(Chars) /\ Once(w) /\ Marks(w) \subseteq Marks(text) \cup Marks(x)
        /\ Len(w) = selStart + Len(x) + (Len(text) - selEnd)
    BY <2>1, <1>1, PutBetween
  <2> HIDE DEF w
  <2> QED
    BY <2>1, <2>2
<1> HIDE DEF w
<1>5. k \in Nat /\ k <= Len(w)
  BY <1>1, <1>2, <1>4
<1> HIDE DEF k
<1> QED
  BY <1>3, <1>4, <1>5, EditKeeps

(* Deleting likewise.                                                        *)
LEMMA DeleteKeeps ==
  ASSUME EditorInv, DeleteText
  PROVE  EditorInv' /\ EachReplaced
<1> DEFINE a == Left(text, selStart)
           b == Right(text, selEnd)
           w == a \o b
<1>1. /\ text \in Seq(Chars) /\ Once(text) /\ Len(text) \in Nat
      /\ selStart \in Nat /\ selEnd \in Nat /\ selStart <= selEnd /\ selEnd <= Len(text)
  BY EditorText
<1>2. Edited(w, selStart)
  BY DEF DeleteText
<1>3. /\ a \in Seq(Chars) /\ b \in Seq(Chars) /\ Len(a) = selStart /\ Once(a) /\ Once(b)
      /\ Marks(a) \cap Marks(b) = {} /\ Marks(a) \cup Marks(b) \subseteq Marks(text)
  <2>1. a \in Seq(Chars) /\ Len(a) = selStart
    BY <1>1, PartedText
  <2>2. b \in Seq(Chars)
    BY <1>1, PartedText
  <2>3. Once(a) /\ Once(b) /\ Marks(a) \cap Marks(b) = {}
    BY <1>1, TextParts
  <2>4. Marks(text) = Marks(a) \cup Marks(Between(text, selStart, selEnd)) \cup Marks(b)
    BY <1>1, TextParts
  <2> HIDE DEF a, b
  <2> QED
    BY <2>1, <2>2, <2>3, <2>4
<1> HIDE DEF a, b
<1>4. /\ w \in Seq(Chars) /\ Once(w) /\ Marks(w) \subseteq Marks(text)
      /\ Len(w) = selStart + Len(b) /\ Len(b) \in Nat
  BY <1>3, PutPart
<1> HIDE DEF w
<1>5. selStart <= Len(w)
  BY <1>1, <1>4
<1> QED
  BY <1>1, <1>2, <1>4, <1>5, EditKeeps

(* Ctrl+B, Ctrl+I and Ctrl+K put markers around the selection and keep it.   *)
LEMMA FormatKeeps ==
  ASSUME EditorInv, NEW link \in BOOLEAN, Format(link)
  PROVE  EditorInv' /\ EachReplaced
<1> DEFINE x == Char("mark")
           b == Between(text, selStart, selEnd)
           y == IF link THEN Char("](") \o Char(")") ELSE Char("mark")
           w == Left(text, selStart) \o x \o b \o y \o Right(text, selEnd)
           k == IF link /\ b # <<>> THEN selEnd + 2 ELSE selEnd + 1
<1>1. /\ text \in Seq(Chars) /\ Once(text) /\ Len(text) \in Nat
      /\ selStart \in Nat /\ selEnd \in Nat /\ selStart <= selEnd /\ selEnd <= Len(text)
  BY EditorText
<1>2. Plain(x) /\ Len(x) = 1
  BY PlainChar
<1>3. Plain(y) /\ Len(y) = IF link THEN 2 ELSE 1
  <2> DEFINE y1 == Char("](")
             y2 == Char(")")
  <2>1. Plain(y1) /\ Len(y1) = 1 /\ Plain(y2) /\ Len(y2) = 1
    BY PlainChar
  <2> HIDE DEF y1, y2
  <2>2. Plain(y1 \o y2) /\ Len(y1 \o y2) = 2
    <3>1. y1 \in Seq(Chars) /\ Once(y1) /\ Marks(y1) = {}
      BY <2>1 DEF Plain
    <3>2. y1 \o y2 \in Seq(Chars) /\ Once(y1 \o y2) /\ Marks(y1 \o y2) = {}
          /\ Len(y1 \o y2) = Len(y1) + Len(y2)
      BY <2>1, <3>1, PutPlain
    <3> QED
      BY <2>1, <3>2 DEF Plain
  <2>3. y = IF link THEN y1 \o y2 ELSE x
    BY DEF y1, y2
  <2> HIDE DEF x, y
  <2> QED
    BY <2>2, <2>3, <1>2
<1>4. Edited(w, k)
  BY DEF Format
<1> HIDE DEF x, y
<1>5. /\ w \in Seq(Chars) /\ Once(w) /\ Marks(w) \subseteq Marks(text)
      /\ Len(w) = Len(text) + Len(x) + Len(y)
  <2>1. /\ text \in Seq(Chars) /\ Once(text) /\ selStart \in Nat /\ selEnd \in Nat
        /\ selStart <= selEnd /\ selEnd <= Len(text) /\ Plain(x) /\ Plain(y)
    BY <1>1, <1>2, <1>3
  <2>2. w \in Seq(Chars) /\ Once(w)
    BY <2>1, Wrapped
  <2>3. Marks(w) \subseteq Marks(text)
    BY <2>1, Wrapped
  <2>4. Len(w) = Len(text) + Len(x) + Len(y)
    BY <2>1, Wrapped
  <2> QED
    BY <2>2, <2>3, <2>4
<1> HIDE DEF w
<1>6. k \in Nat /\ k <= Len(w)
  <2> HIDE DEF b
  <2> QED
    BY <1>1, <1>2, <1>3, <1>5
<1> HIDE DEF k
<1> QED
  BY <1>4, <1>5, <1>6, EditKeeps

(* Pasting an address makes a link of the selection and keeps it.            *)
LEMMA PasteKeeps ==
  ASSUME EditorInv, PasteAddress
  PROVE  EditorInv' /\ EachReplaced
<1> DEFINE x == Char("mark")
           y == Char("](url)")
           w == Left(text, selStart) \o x \o Between(text, selStart, selEnd) \o y
                  \o Right(text, selEnd)
           k == selEnd + 2
<1>1. /\ text \in Seq(Chars) /\ Once(text) /\ Len(text) \in Nat
      /\ selStart \in Nat /\ selEnd \in Nat /\ selStart <= selEnd /\ selEnd <= Len(text)
  BY EditorText
<1>2. Plain(x) /\ Len(x) = 1 /\ Plain(y) /\ Len(y) = 1
  BY PlainChar
<1>3. Edited(w, k)
  BY DEF PasteAddress
<1> HIDE DEF x, y
<1>4. /\ w \in Seq(Chars) /\ Once(w) /\ Marks(w) \subseteq Marks(text)
      /\ Len(w) = Len(text) + Len(x) + Len(y)
  <2>1. /\ text \in Seq(Chars) /\ Once(text) /\ selStart \in Nat /\ selEnd \in Nat
        /\ selStart <= selEnd /\ selEnd <= Len(text) /\ Plain(x) /\ Plain(y)
    BY <1>1, <1>2
  <2>2. w \in Seq(Chars) /\ Once(w)
    BY <2>1, Wrapped
  <2>3. Marks(w) \subseteq Marks(text)
    BY <2>1, Wrapped
  <2>4. Len(w) = Len(text) + Len(x) + Len(y)
    BY <2>1, Wrapped
  <2> QED
    BY <2>2, <2>3, <2>4
<1> HIDE DEF w
<1>5. k \in Nat /\ k <= Len(w)
  BY <1>1, <1>2, <1>4
<1> HIDE DEF k
<1> QED
  BY <1>3, <1>4, <1>5, EditKeeps

(* A new selection leaves the text and the uploads alone.                    *)
LEMMA SelectKeeps ==
  ASSUME EditorInv, NEW i \in 0 .. Len(text), NEW j \in 0 .. Len(text), i <= j, Select(i, j)
  PROVE  EditorInv' /\ EachReplaced
<1>1. /\ selStart' = i /\ selEnd' = j
      /\ UNCHANGED <<text, names, uploadQueue, currentUpload, submitDisabled, posted, submitted>>
  BY DEF Select
<1>2. text \in Seq(Chars) /\ Once(text) /\ Len(text) \in Nat
  BY EditorText
<1>3. i \in Nat /\ j \in Nat /\ j <= Len(text)
  BY <1>2
<1>4. [text |-> text', start |-> selStart', end |-> selEnd'] \in EditorPages
  BY <1>1, <1>2, <1>3, FieldIn
<1>5. EditorInv'
  BY <1>1, <1>4 DEF EditorInv, TextSound
<1>6. PendingUploads' = PendingUploads
  BY <1>1 DEF PendingUploads
<1> QED
  BY <1>1, <1>5, <1>6, NoneReplaced

(* The form is sent only while no upload is under way.                       *)
LEMMA SubmitKeeps ==
  ASSUME EditorInv, Submit
  PROVE  EditorInv' /\ EachReplaced
<1>1. /\ UNCHANGED <<text, selStart, selEnd, names, uploadQueue, currentUpload,
                     submitDisabled, posted>>
      /\ ~submitDisabled
  BY DEF Submit
<1>2. EditorInv'
  BY <1>1 DEF EditorInv, TextSound, UploadsSound
<1>3. PendingUploads' = PendingUploads
  BY <1>1 DEF PendingUploads
<1> QED
  BY <1>1, <1>2, <1>3, NoneReplaced

(* Shows, the code's indexOf, says what occurs.                              *)
LEMMA ShowsWhatOccurs ==
  ASSUME NEW words \in Seq(Chars), NEW x \in Seq(Chars)
  PROVE  Shows(words, x) <=> Occurs(x, words)
BY IndexOf

(* What importUserFiles adds to the uploads.                                 *)
LEMMA UploadsAdded ==
  ASSUME EditorInv, NEW taken, TakenSound(taken),
         names' = names \o [i \in DOMAIN taken.uploads |-> taken.uploads[i].name]
  PROVE  LET ups == taken.uploads
             queue == uploadQueue \o ups
             k == Len(names)
         IN  /\ names' \in Seq(Names) /\ QueueSound(queue, names')
             /\ DOMAIN names' = 1 .. k + Len(ups) /\ Len(ups) \in Nat
             /\ \A i \in 1 .. k : names'[i] = names[i]
             /\ \A i \in 1 .. Len(ups) : [number |-> k + i, name |-> names'[k + i]] = ups[i]
             /\ ToSet(queue) = ToSet(uploadQueue) \cup ToSet(ups)
             /\ uploadQueue = <<>> => queue = ups
             /\ \A u : IsUpload(u, names) =>
                  IsUpload(u, names') /\ \A i \in 1 .. Len(ups) : u.number < ups[i].number
<1> DEFINE ups == taken.uploads
           q == uploadQueue
           queue == q \o ups
           k == Len(names)
           m == Len(ups)
           l == Len(q)
           added == [i \in DOMAIN ups |-> ups[i].name]
           now == names \o added
<1>1. names \in Seq(Names) /\ k \in Nat /\ DOMAIN names = 1 .. k
  BY EditorText
<1>2. /\ ups \in Seq(UploadSet) /\ m \in Nat /\ DOMAIN ups = 1 .. m
      /\ \A i \in 1 .. m : ups[i] \in UploadSet /\ ups[i].number = k + i
  <2>1. /\ ups \in Seq(UploadSet) /\ \A i \in DOMAIN ups : ups[i].number = Len(names) + i
    BY DEF TakenSound
  <2>2. m \in Nat /\ DOMAIN ups = 1 .. m /\ \A i \in 1 .. m : ups[i] \in UploadSet
    BY <2>1
  <2> QED
    BY <2>1, <2>2
<1>3. /\ q \in Seq(UploadSet) /\ l \in Nat /\ DOMAIN q = 1 .. l
      /\ \A i, j \in 1 .. l : i < j => q[i].number < q[j].number
      /\ \A i \in 1 .. l : IsUpload(q[i], names)
  <2>1. QueueSound(q, names)
    BY DEF EditorInv, UploadsSound
  <2> QED
    BY <2>1 DEF QueueSound, Ascending
<1> HIDE DEF ups, m, k, l, q
<1>4. added \in Seq(Names) /\ Len(added) = m /\ \A i \in 1 .. m : added[i] = ups[i].name
  <2>1. \A i \in 1 .. m : ups[i].name \in Names
    BY <1>2 DEF UploadSet
  <2>2. added = [i \in 1 .. m |-> ups[i].name]
    BY <1>2
  <2>3. added \in [1 .. m -> Names] /\ DOMAIN added = 1 .. m /\ \A i \in 1 .. m : added[i] = ups[i].name
    BY <2>1, <2>2
  <2> HIDE DEF added
  <2>4. added \in Seq(Names)
    BY <2>3, <1>2, SeqDef
  <2>5. Len(added) = m
    BY <2>3, <2>4, <1>2
  <2> QED
    BY <2>3, <2>4, <2>5
<1> HIDE DEF added
<1>5. /\ now \in Seq(Names) /\ DOMAIN now = 1 .. k + m
      /\ \A i \in 1 .. k : now[i] = names[i]
      /\ \A i \in 1 .. m : now[k + i] = ups[i].name
  <2>1. /\ now \in Seq(Names) /\ DOMAIN now = 1 .. Len(names) + Len(added)
        /\ \A i \in 1 .. Len(names) : now[i] = names[i]
        /\ \A i \in 1 .. Len(added) : now[Len(names) + i] = added[i]
    <3>1. names \in Seq(Names) /\ added \in Seq(Names)
      BY <1>1, <1>4
    <3>2. now \in Seq(Names) /\ DOMAIN now = 1 .. Len(names) + Len(added)
      BY <3>1, JoinedTexts
    <3>3. \A i \in 1 .. Len(names) : now[i] = names[i]
      BY <3>1, JoinedTexts
    <3>4. \A i \in 1 .. Len(added) : now[Len(names) + i] = added[i]
      BY <3>1, JoinedTexts
    <3> QED
      BY <3>2, <3>3, <3>4
  <2> HIDE DEF now
  <2> QED
    BY <2>1, <1>4 DEF k
<1>6. /\ queue \in Seq(UploadSet) /\ DOMAIN queue = 1 .. l + m
      /\ \A i \in 1 .. l : queue[i] = q[i]
      /\ \A i \in 1 .. m : queue[l + i] = ups[i]
      /\ ToSet(queue) = ToSet(q) \cup ToSet(ups)
  <2>1. /\ queue \in Seq(UploadSet) /\ DOMAIN queue = 1 .. Len(q) + Len(ups)
        /\ \A i \in 1 .. Len(q) : queue[i] = q[i]
        /\ \A i \in 1 .. Len(ups) : queue[Len(q) + i] = ups[i]
        /\ ToSet(queue) = ToSet(q) \cup ToSet(ups)
    BY <1>2, <1>3, JoinedTexts
  <2> HIDE DEF queue
  <2> QED
    BY <2>1 DEF l, m
<1>7. names' = now
  BY DEF now, added, ups
<1> HIDE DEF now, queue
<1>8. ASSUME NEW u, IsUpload(u, names)
      PROVE  IsUpload(u, now) /\ \A i \in 1 .. m : u.number < ups[i].number
  <2>1. u \in UploadSet /\ u.number \in 1 .. k /\ names[u.number] = u.name
    BY <1>1, <1>8 DEF IsUpload
  <2>2. u.number \in 1 .. k + m /\ now[u.number] = u.name
    BY <2>1, <1>1, <1>2, <1>5
  <2>3. IsUpload(u, now)
    BY <2>1, <2>2, <1>5 DEF IsUpload
  <2> DEFINE n == u.number
  <2>4. n \in 1 .. k
    BY <2>1
  <2> HIDE DEF n
  <2>5. \A i \in 1 .. m : n < ups[i].number
    <3>1. \A i \in 1 .. m : n < k + i
      BY <2>4, <1>1, <1>2
    <3> QED
      BY <3>1, <1>2
  <2> QED
    BY <2>3, <2>5 DEF n
<1>9. ASSUME NEW i \in 1 .. m
      PROVE  IsUpload(ups[i], now) /\ [number |-> k + i, name |-> now[k + i]] = ups[i]
  <2>1. k + i \in 1 .. k + m
    BY <1>1, <1>2
  <2>2. ups[i] \in UploadSet /\ ups[i].number = k + i /\ now[k + i] = ups[i].name
    BY <1>2, <1>5
  <2>3. \A u \in UploadSet : u = [number |-> u.number, name |-> u.name]
    BY DEF UploadSet
  <2>4. ups[i] = [number |-> ups[i].number, name |-> ups[i].name]
    BY <2>2, <2>3
  <2>5. IsUpload(ups[i], now)
    BY <2>1, <2>2, <1>5 DEF IsUpload
  <2> QED
    BY <2>2, <2>4, <2>5
<1>10. \A i \in 1 .. l + m : i \in 1 .. l \/ (i - l \in 1 .. m /\ l + (i - l) = i)
  BY <1>2, <1>3
<1>11. QueueSound(queue, now)
  <2>1. ASSUME NEW i \in 1 .. l + m PROVE IsUpload(queue[i], now)
    <3>1. CASE i \in 1 .. l
      BY <3>1, <1>3, <1>6, <1>8
    <3>2. CASE i \notin 1 .. l
      <4>1. i - l \in 1 .. m /\ queue[i] = ups[i - l]
        BY <3>2, <1>6, <1>10
      <4> QED
        BY <4>1, <1>9
    <3> QED
      BY <3>1, <3>2
  <2>2. ASSUME NEW i \in 1 .. l + m, NEW j \in 1 .. l + m, i < j
        PROVE  queue[i].number < queue[j].number
    <3>1. CASE j \in 1 .. l
      <4>1. i \in 1 .. l
        BY <3>1, <2>2, <1>3
      <4> QED
        BY <4>1, <3>1, <2>2, <1>3, <1>6
    <3>2. CASE j \notin 1 .. l /\ i \in 1 .. l
      <4>1. j - l \in 1 .. m /\ queue[j] = ups[j - l] /\ queue[i] = q[i]
        BY <3>2, <1>6, <1>10
      <4> QED
        BY <4>1, <3>2, <1>3, <1>8
    <3>3. CASE j \notin 1 .. l /\ i \notin 1 .. l
      <4>1. /\ j - l \in 1 .. m /\ queue[j] = ups[j - l]
            /\ i - l \in 1 .. m /\ queue[i] = ups[i - l]
        BY <3>3, <1>6, <1>10
      <4>2. queue[i].number = k + (i - l) /\ queue[j].number = k + (j - l)
        BY <4>1, <1>2
      <4>3. k + (i - l) < k + (j - l)
        BY <2>2, <1>1, <1>2, <1>3
      <4> QED
        BY <4>2, <4>3
    <3> QED
      BY <3>1, <3>2, <3>3
  <2> QED
    BY <2>1, <2>2, <1>6 DEF QueueSound, Ascending
<1>12. q = <<>> => queue = ups
  <2> SUFFICES ASSUME q = <<>> PROVE queue = ups
    OBVIOUS
  <2>1. ups \in Seq(UploadSet)
    BY <1>2
  <2> QED
    BY <2>1, ConcatEmptySeq DEF queue
<1> QED
  BY <1>2, <1>5, <1>6, <1>7, <1>8, <1>9, <1>11, <1>12 DEF ups, q, queue, k, m

(* Files are taken: their placeholders are in the text, those that cannot be *)
(* sent have failed, and every other upload's placeholder is where it was.   *)
LEMMA ImportKeeps ==
  ASSUME EditorInv, NEW files \in Seq(Files), ImportUserFiles(files)
  PROVE  EditorInv' /\ EachReplaced /\ (currentUpload # NoUpload => currentUpload' = currentUpload)
<1> DEFINE taken == Taken(files)
           ups == taken.uploads
           ins == taken.insert
           caret == selStart + Len(ins)
           words == Left(text, selStart) \o ins \o Right(text, selEnd)
           field == [text |-> words, start |-> caret, end |-> caret]
           queue == uploadQueue \o ups
           k == Len(names)
           m == Len(ups)
<1>1. /\ names' = names \o [i \in DOMAIN ups |-> ups[i].name]
      /\ IF currentUpload = NoUpload
           THEN Continue(queue, field)
           ELSE /\ text' = field.text /\ selStart' = field.start /\ selEnd' = field.end
                /\ posted' = field.text /\ uploadQueue' = queue
                /\ UNCHANGED <<currentUpload, submitDisabled>>
      /\ ~submitted /\ submitted' = submitted
  BY DEF ImportUserFiles
<1>2. /\ names \in Seq(Names) /\ k \in Nat /\ DOMAIN names = 1 .. k
      /\ text \in Seq(Chars) /\ Once(text) /\ Len(text) \in Nat
      /\ selStart \in Nat /\ selEnd \in Nat /\ selStart <= selEnd /\ selEnd <= Len(text)
      /\ \A c \in Marks(text) : c[2] \in 1 .. k
  BY EditorText
<1>3. TakenSound(taken)
  BY <1>2, TakenFiles
<1>4. /\ names' \in Seq(Names) /\ QueueSound(queue, names')
      /\ DOMAIN names' = 1 .. k + m /\ m \in Nat
      /\ \A i \in 1 .. k : names'[i] = names[i]
      /\ \A i \in 1 .. m : [number |-> k + i, name |-> names'[k + i]] = ups[i]
      /\ ToSet(queue) = ToSet(uploadQueue) \cup ToSet(ups)
      /\ uploadQueue = <<>> => queue = ups
      /\ \A u : IsUpload(u, names) =>
           IsUpload(u, names') /\ \A i \in 1 .. m : u.number < ups[i].number
  BY <1>1, <1>3, UploadsAdded
<1>5. /\ ins \in Seq(Chars) /\ Once(ins) /\ Len(ins) \in Nat /\ ups \in Seq(UploadSet)
      /\ \A c \in Marks(ins) : c[2] \in k + 1 .. k + m
  <2>1. ins \in Seq(Chars) /\ Once(ins) /\ ups \in Seq(UploadSet)
    BY <1>3 DEF TakenSound
  <2>2. Len(ins) \in Nat
    BY <2>1
  <2>3. \A c \in Marks(ins) : c[2] \in k + 1 .. k + m
    BY <1>3 DEF TakenSound
  <2> QED
    BY <2>1, <2>2, <2>3
<1> HIDE DEF taken, k, m
<1>6. DOMAIN ups = 1 .. m
  BY <1>5 DEF m
<1> HIDE DEF ups, ins
<1>7. Marks(ins) \cap Marks(text) = {}
  <2>1. \A i \in 1 .. k : i \notin k + 1 .. k + m
    BY <1>2
  <2> QED
    BY <2>1, <1>2, <1>5
<1>8. /\ words \in Seq(Chars) /\ Once(words) /\ Marks(words) \subseteq Marks(text) \cup Marks(ins)
      /\ Len(words) = selStart + Len(ins) + (Len(text) - selEnd)
  <2>1. /\ text \in Seq(Chars) /\ Once(text) /\ selStart \in Nat /\ selEnd \in Nat
        /\ selStart <= selEnd /\ selEnd <= Len(text)
        /\ ins \in Seq(Chars) /\ Once(ins) /\ Marks(ins) \cap Marks(text) = {}
    BY <1>2, <1>5, <1>7
  <2>2. words \in Seq(Chars) /\ Once(words)
    BY <2>1, PutBetween
  <2>3. Marks(words) \subseteq Marks(text) \cup Marks(ins)
    BY <2>1, PutBetween
  <2>4. Len(words) = selStart + Len(ins) + (Len(text) - selEnd)
    BY <2>1, PutBetween
  <2> HIDE DEF words
  <2> QED
    BY <2>2, <2>3, <2>4
<1> HIDE DEF words
<1>9. caret \in Nat /\ caret <= Len(words)
  BY <1>2, <1>5, <1>8
<1> HIDE DEF caret
<1>10. field \in EditorPages
  BY <1>8, <1>9, FieldIn
<1>11. \A c \in Marks(words) : c[2] \in DOMAIN names'
  <2>1. \A i \in 1 .. k : i \in 1 .. k + m
    BY <1>2, <1>4
  <2>2. \A i \in k + 1 .. k + m : i \in 1 .. k + m
    BY <1>2, <1>4
  <2> QED
    BY <2>1, <2>2, <1>2, <1>4, <1>5, <1>8
<1>12. field.text = words
  OBVIOUS
<1>13. ~submitted'
  BY <1>1
<1> HIDE DEF queue
<1>14. CASE currentUpload = NoUpload
  <2> HIDE DEF field
  <2>1. uploadQueue = <<>>
    BY <1>14 DEF EditorInv, UploadsSound
  <2>2. queue = ups
    BY <2>1, <1>4
  <2>3. /\ EditorInv'
        /\ FailedSoFar(queue, Bad(queue), words, text')
        /\ Waiting(uploadQueue', currentUpload') = {queue[i] : i \in Bad(queue) + 1 .. Len(queue)}
    <3>1. Continue(queue, field)
      BY <1>1, <1>14
    <3>2. \A c \in Marks(field.text) : c[2] \in DOMAIN names'
      BY <1>11, <1>12
    <3> QED
      BY <3>1, <3>2, <1>4, <1>10, <1>12, <1>13, Continued
  <2>4. PendingUploads = {}
    <3>1. DOMAIN <<>> = {}
      OBVIOUS
    <3> QED
      BY <3>1, <2>1, <1>14 DEF PendingUploads
  <2>5. PendingUploads' = {ups[i] : i \in Bad(ups) + 1 .. m}
    <3>1. PendingUploads' = Waiting(uploadQueue', currentUpload')
      BY DEF PendingUploads, Waiting
    <3> QED
      BY <3>1, <2>2, <2>3 DEF m
  <2>6. ASSUME NEW n \in DOMAIN names', [number |-> n, name |-> names'[n]] \notin PendingUploads',
               n \notin DOMAIN names, names'[n] # "dollar"
        PROVE  /\ ~Shows(text', Placeholder([number |-> n, name |-> names'[n]]))
               /\ Shows(text', Failure([number |-> n, name |-> names'[n]]))
    <3> DEFINE u == [number |-> n, name |-> names'[n]]
               i == n - k
    <3>0. u.name # "dollar" /\ u \notin PendingUploads'
      BY <2>6
    <3>1. i \in 1 .. m /\ k + i = n
      BY <2>6, <1>2, <1>4
    <3> HIDE DEF i
    <3>2. u = ups[i] /\ u \in UploadSet
      BY <3>1, <1>4, <1>5, <1>6
    <3> HIDE DEF u
    <3>3. Bad(ups) \in 0 .. m
      BY <1>5, BadUploads DEF m
    <3>4. i \in 1 .. Bad(ups)
      <4>1. i \notin Bad(ups) + 1 .. m
        BY <3>0, <3>2, <2>5
      <4> QED
        BY <4>1, <3>1, <3>3, <1>4
    <3>5. Occurs(Failure(u), text') /\ ~Occurs(Placeholder(u), text')
      BY <3>0, <3>2, <3>4, <2>2, <2>3 DEF FailedSoFar
    <3>6. text' \in Seq(Chars)
      <4>1. EditorPages \subseteq [text : Seq(Chars), start : Nat, end : Nat]
        BY DEF EditorPages
      <4>2. [text |-> text', start |-> selStart', end |-> selEnd'] \in EditorPages
        BY <2>3 DEF EditorInv, TextSound
      <4>3. [text |-> text', start |-> selStart', end |-> selEnd'].text \in Seq(Chars)
        BY <4>1, <4>2
      <4> QED
        BY <4>3
    <3>7. Failure(u) \in Seq(Chars) /\ Placeholder(u) \in Seq(Chars)
      BY <3>2, UploadTexts
    <3> QED
      BY <3>5, <3>6, <3>7, ShowsWhatOccurs DEF u
  <2>7. EachReplaced
    <3>1. PendingUploads \cap PendingUploads' = {}
      BY <2>4
    <3>2. \A n \in DOMAIN names' :
          LET u == [number |-> n, name |-> names'[n]]
          IN  /\ u \notin PendingUploads' /\ (n \notin DOMAIN names \/ u \in PendingUploads)
              /\ u.name # "dollar"
              => /\ ~Shows(text', Placeholder(u))
                 /\ Shows(text', Link(u)) \/ Shows(text', Failure(u))
      BY <2>4, <2>6
    <3> QED
      BY <3>1, <3>2, <2>3, SettledPage DEF EachReplaced
  <2> QED
    BY <2>3, <2>7, <1>14
<1>15. CASE currentUpload # NoUpload
  <2>1. /\ text' = words /\ selStart' = caret /\ selEnd' = caret /\ posted' = words
        /\ uploadQueue' = queue /\ currentUpload' = currentUpload
        /\ submitDisabled' = submitDisabled
    BY <1>1, <1>15
  <2> HIDE DEF field
  <2>2. TextSound'
    <3>1. [text |-> text', start |-> selStart', end |-> selEnd'] = field
      BY <2>1 DEF field
    <3>2. [text |-> text', start |-> selStart', end |-> selEnd'] \in EditorPages
      BY <3>1, <1>10
    <3>3. \A c \in Marks(text') : c[2] \in DOMAIN names'
      BY <2>1, <1>11
    <3> QED
      BY <3>2, <3>3, <1>4 DEF TextSound
  <2>3. /\ IsUpload(currentUpload, names)
        /\ submitDisabled <=> currentUpload # NoUpload
        /\ \A i \in DOMAIN uploadQueue : currentUpload.number < uploadQueue[i].number
    <3>1. UploadsSound(uploadQueue, currentUpload, submitDisabled, names)
      BY DEF EditorInv
    <3> QED
      BY <3>1, <1>15 DEF UploadsSound
  <2>4. UploadsSound(queue, currentUpload, submitDisabled, names')
    <3>1. ASSUME NEW u \in ToSet(queue) PROVE currentUpload.number < u.number
      <4>1. CASE u \in ToSet(uploadQueue)
        BY <4>1, <2>3 DEF ToSet
      <4>2. CASE u \in ToSet(ups)
        BY <4>2, <2>3, <1>4, <1>6 DEF ToSet
      <4> QED
        BY <4>1, <4>2, <1>4
    <3>2. \A i \in DOMAIN queue : currentUpload.number < queue[i].number
      BY <3>1 DEF ToSet
    <3>3. IsUpload(currentUpload, names')
      BY <2>3, <1>4
    <3> QED
      BY <3>2, <3>3, <2>3, <1>4, <1>15 DEF UploadsSound
  <2>5. EditorInv'
    <3>1. UploadsSound(uploadQueue', currentUpload', submitDisabled', names')
      BY <2>1, <2>4
    <3> QED
      BY <3>1, <2>1, <2>2, <1>13 DEF EditorInv
  <2>6. PendingUploads' = ToSet(queue) \cup {currentUpload}
        /\ PendingUploads = ToSet(uploadQueue) \cup {currentUpload}
    BY <2>1, <1>15 DEF PendingUploads, ToSet
  <2>7. PendingUploads \subseteq PendingUploads'
    BY <2>6, <1>4
  <2>8. ASSUME NEW n \in DOMAIN names', n \notin DOMAIN names
        PROVE  [number |-> n, name |-> names'[n]] \in PendingUploads'
    <3> DEFINE i == n - k
    <3>1. i \in 1 .. m /\ k + i = n
      BY <2>8, <1>2, <1>4
    <3> HIDE DEF i
    <3>2. [number |-> n, name |-> names'[n]] = ups[i]
      BY <3>1, <1>4
    <3>3. ups[i] \in ToSet(ups)
      BY <3>1, <1>6 DEF ToSet
    <3> QED
      BY <3>2, <3>3, <2>6, <1>4
  <2> QED
    BY <2>1, <2>5, <2>7, <2>8, NoneReplaced
<1> QED
  BY <1>14, <1>15

(* A placeholder's characters are of its upload alone.                       *)
LEMMA PlaceholdersApart ==
  ASSUME NEW u \in UploadSet, NEW v \in UploadSet
  PROVE  /\ Placeholder(u) \in Seq(Chars) /\ Placeholder(u) # <<>>
         /\ \A c \in ToSet(Placeholder(u)) : c[1] \in Names
         /\ u.number # v.number => ToSet(Placeholder(u)) \cap ToSet(Placeholder(v)) = {}
         /\ \A answer \in {Link(u), Failure(u)} :
              /\ answer \in Seq(Chars) /\ answer # <<>>
              /\ ToSet(answer) \cap ToSet(Placeholder(v)) = {}
<1>1. /\ Placeholder(u) \in Seq(Chars) /\ Len(Placeholder(u)) = 2
      /\ Marks(Placeholder(u)) = ToSet(Placeholder(u))
  BY UploadTexts
<1>2. Placeholder(u) # <<>> /\ \A c \in ToSet(Placeholder(u)) : c[1] \in Names
  BY <1>1, EmptySeq DEF Marks
<1>3. \A answer \in {Link(u), Failure(u)} :
        answer \in Seq(Chars) /\ answer # <<>> /\ \A c \in ToSet(answer) : c[1] \notin Names
  BY InsertedText
<1>4. \A c \in ToSet(Placeholder(v)) : c[1] \in Names
  <2>1. Marks(Placeholder(v)) = ToSet(Placeholder(v))
    BY UploadTexts
  <2> QED
    BY <2>1 DEF Marks
<1>5. u.number # v.number => ToSet(Placeholder(u)) \cap ToSet(Placeholder(v)) = {}
  BY OtherPlaceholders
<1> QED
  BY <1>1, <1>2, <1>3, <1>4, <1>5

(* The answer to an upload takes the place of its placeholder, and the       *)
(* uploads after it that cannot be sent fail.                                *)
LEMMA DoneKeeps ==
  ASSUME EditorInv, UploadDone
  PROVE  EditorInv' /\ EachReplaced
<1> DEFINE cur == currentUpload
           q == uploadQueue
           n == Bad(q)
           m == Len(q)
           here == [text |-> text, start |-> selStart, end |-> selEnd]
<1>1. PICK answer \in {Link(cur), Failure(cur)} :
        Continue(q, Replaced(text, selStart, selEnd, cur, answer))
  BY DEF UploadDone
<1> DEFINE field == Replaced(text, selStart, selEnd, cur, answer)
<1>2. ~submitted' /\ names' = names /\ cur # NoUpload
  BY DEF UploadDone
<1>3. /\ IsUpload(cur, names) /\ QueueSound(q, names)
      /\ \A i \in DOMAIN q : cur.number < q[i].number
  <2>1. UploadsSound(q, cur, submitDisabled, names)
    BY DEF EditorInv
  <2> QED
    BY <2>1, <1>2 DEF UploadsSound
<1>4. /\ q \in Seq(UploadSet) /\ m \in Nat /\ n \in 0 .. m /\ DOMAIN q = 1 .. m
      /\ \A i, j \in 1 .. m : i < j => q[i].number < q[j].number
      /\ \A i \in 1 .. m : q[i] \in UploadSet /\ q[i].number \in Nat
  <2>1. q \in Seq(UploadSet) /\ Ascending(q)
    BY <1>3 DEF QueueSound
  <2>2. m \in Nat /\ DOMAIN q = 1 .. m /\ \A i \in 1 .. m : q[i] \in UploadSet
    BY <2>1
  <2>3. n \in 0 .. m
    BY <2>1, BadUploads
  <2>4. \A i, j \in 1 .. m : i < j => q[i].number < q[j].number
    BY <2>1, <2>2 DEF Ascending
  <2>5. \A i \in 1 .. m : q[i].number \in Nat
    BY <2>2 DEF UploadSet
  <2> HIDE DEF q, m, n
  <2> QED
    BY <2>1, <2>2, <2>3, <2>4, <2>5
<1>5. cur \in UploadSet /\ cur.number \in Nat
  BY <1>3 DEF IsUpload, UploadSet
<1>6. /\ text \in Seq(Chars) /\ here \in EditorPages /\ names \in Seq(Names)
      /\ \A c \in Marks(text) : c[2] \in DOMAIN names
  BY EditorText
<1>7. field \in EditorPages /\ Answers(text, field.text, cur, answer)
  <2>1. here.text = text /\ here.start = selStart /\ here.end = selEnd
    OBVIOUS
  <2> HIDE DEF here, cur
  <2>2. LET after == Replaced(here.text, here.start, here.end, cur, answer)
        IN  after \in EditorPages /\ Answers(here.text, after.text, cur, answer)
    BY <1>1, <1>5, <1>6, ReplacedPage
  <2> QED
    BY <2>1, <2>2
<1> HIDE DEF field
<1>8. /\ EditorInv' /\ FailedSoFar(q, n, field.text, text')
      /\ Waiting(uploadQueue', currentUpload') = {q[i] : i \in n + 1 .. m}
  <2>1. Marks(field.text) \subseteq Marks(text)
    BY <1>7 DEF Answers
  <2>2. \A c \in Marks(field.text) : c[2] \in DOMAIN names'
    BY <2>1, <1>2, <1>6
  <2>3. Continue(q, field)
    BY <1>1 DEF field
  <2>4. QueueSound(q, names') /\ names' \in Seq(Names)
    BY <1>2, <1>3, <1>6
  <2> QED
    BY <2>2, <2>3, <2>4, <1>2, <1>7, Continued
<1>9. /\ PendingUploads' = {q[i] : i \in n + 1 .. m}
      /\ PendingUploads = {q[i] : i \in 1 .. m} \cup {cur}
  <2>1. PendingUploads' = Waiting(uploadQueue', currentUpload')
    BY DEF PendingUploads, Waiting
  <2>2. PendingUploads = {q[i] : i \in 1 .. m} \cup {cur}
    BY <1>2, <1>4 DEF PendingUploads
  <2> QED
    BY <2>1, <2>2, <1>8
<1>10. text' \in Seq(Chars) /\ field.text \in Seq(Chars)
  <2>1. EditorPages \subseteq [text : Seq(Chars), start : Nat, end : Nat]
    BY DEF EditorPages
  <2>2. [text |-> text', start |-> selStart', end |-> selEnd'] \in EditorPages
    BY <1>8 DEF EditorInv, TextSound
  <2>3. [text |-> text', start |-> selStart', end |-> selEnd'].text \in Seq(Chars)
    BY <2>1, <2>2
  <2> QED
    BY <2>1, <2>3, <1>7
<1> HIDE DEF cur, q, n, m, here
<1>11. ASSUME NEW u \in PendingUploads, u \notin PendingUploads', u.name # "dollar"
       PROVE  ~Shows(text', Placeholder(u)) /\ (Shows(text', Link(u)) \/ Shows(text', Failure(u)))
  <2>1. CASE u = cur
    <3>1. Occurs(answer, field.text) /\ ~Occurs(Placeholder(u), field.text)
      BY <2>1, <1>7, <1>11 DEF Answers
    <3>2. ASSUME NEW i \in 1 .. n
          PROVE  /\ ToSet(Placeholder(u)) \cap ToSet(Placeholder(q[i])) = {}
                 /\ ToSet(answer) \cap ToSet(Placeholder(q[i])) = {}
      <4>1. i \in 1 .. m
        BY <1>4
      <4>2. q[i] \in UploadSet /\ u.number # q[i].number
        <5>1. u.number < q[i].number
          BY <4>1, <2>1, <1>3, <1>4
        <5> QED
          BY <4>1, <5>1, <2>1, <1>4, <1>5
      <4> QED
        BY <4>2, <2>1, <1>1, <1>5, PlaceholdersApart
    <3>3. /\ Placeholder(u) \in Seq(Chars) /\ Placeholder(u) # <<>>
          /\ \A c \in ToSet(Placeholder(u)) : c[1] \in Names
          /\ answer \in Seq(Chars) /\ answer # <<>>
      BY <2>1, <1>1, <1>5, PlaceholdersApart
    <3>4. Occurs(answer, text')
      BY <3>1, <3>2, <3>3, <1>8 DEF FailedSoFar
    <3>5. ~Occurs(Placeholder(u), text')
      BY <3>1, <3>2, <3>3, <1>8 DEF FailedSoFar
    <3>6. Shows(text', answer) /\ ~Shows(text', Placeholder(u))
      BY <3>3, <3>4, <3>5, <1>10, ShowsWhatOccurs
    <3> QED
      BY <3>6, <2>1, <1>1
  <2>2. CASE u # cur
    <3>1. PICK i \in 1 .. m : u = q[i]
      BY <2>2, <1>9, <1>11
    <3>2. i \in 1 .. n
      <4>1. i \notin n + 1 .. m
        BY <3>1, <1>9, <1>11
      <4> QED
        BY <4>1, <1>4
    <3>3. Occurs(Failure(u), text') /\ ~Occurs(Placeholder(u), text')
      BY <3>1, <3>2, <1>8, <1>11 DEF FailedSoFar
    <3>4. u \in UploadSet
      BY <3>1, <1>4
    <3>5. Failure(u) \in Seq(Chars) /\ Placeholder(u) \in Seq(Chars)
      BY <3>4, UploadTexts
    <3> QED
      BY <3>3, <3>5, <1>10, ShowsWhatOccurs
  <2> QED
    BY <2>1, <2>2
<1>12. ASSUME NEW v \in PendingUploads', Shows(text, Placeholder(v))
       PROVE  Shows(text', Placeholder(v))
  <2>1. PICK i \in n + 1 .. m : v = q[i]
    BY <1>9
  <2>2. i \in 1 .. m /\ \A j \in 1 .. n : j \in 1 .. m /\ j < i
    BY <1>4
  <2>3. v \in UploadSet /\ v.number \in Nat /\ v.number # cur.number
    <3>1. cur.number < v.number
      BY <2>1, <2>2, <1>3, <1>4
    <3> QED
      BY <3>1, <2>1, <2>2, <1>4, <1>5
  <2>4. /\ Placeholder(v) \in Seq(Chars) /\ Placeholder(v) # <<>>
        /\ ToSet(Placeholder(v)) \cap ToSet(Placeholder(cur)) = {}
    BY <2>3, <1>5, PlaceholdersApart
  <2>5. ASSUME NEW j \in 1 .. n PROVE ToSet(Placeholder(v)) \cap ToSet(Placeholder(q[j])) = {}
    <3>1. q[j] \in UploadSet /\ v.number # q[j].number
      <4>1. q[j].number < v.number /\ q[j] \in UploadSet /\ q[j].number \in Nat
        BY <2>1, <2>2, <1>4
      <4> QED
        BY <4>1, <2>3
    <3> QED
      BY <3>1, <2>3, PlaceholdersApart
  <2>6. Occurs(Placeholder(v), text)
    BY <2>4, <1>6, <1>12, ShowsWhatOccurs
  <2>7. Occurs(Placeholder(v), field.text)
    BY <2>4, <2>6, <1>7 DEF Answers
  <2>8. Occurs(Placeholder(v), text')
    BY <2>4, <2>5, <2>7, <1>8 DEF FailedSoFar
  <2> QED
    BY <2>4, <2>8, <1>10, ShowsWhatOccurs
<1>13. EachReplaced
  <2>1. \A u \in DOMAIN names' : u \in DOMAIN names
    BY <1>2
  <2> QED
    BY <2>1, <1>8, <1>11, <1>12, SettledPage DEF EachReplaced
<1> QED
  BY <1>8, <1>13

(* What is to the left of a place behind the answer is what was to the left  *)
(* of the place in the text before, with its placeholder replaced.           *)
LEMMA LeftOfAnswer ==
  ASSUME NEW u \in UploadSet, NEW words \in Seq(Chars), Shows(words, Placeholder(u)),
         NEW answer \in Seq(Chars), NEW p \in Nat, p <= Len(words),
         IndexIn(Placeholder(u), words) + 2 <= p
  PROVE  LET at == IndexIn(Placeholder(u), words)
             after == Left(words, at) \o answer \o Right(words, at + 2)
             head == Left(words, p)
             at2 == IndexIn(Placeholder(u), head)
         IN  /\ at \in Nat /\ at + 2 <= Len(words)
             /\ after \in Seq(Chars) /\ Len(after) = Len(words) + (Len(answer) - 2)
             /\ Left(after, p + (Len(answer) - 2)) = Left(head, at2) \o answer \o Right(head, at2 + 2)
<1> DEFINE old == Placeholder(u)
           at == IndexIn(old, words)
           a == Left(words, at)
           b == Right(words, at + 2)
           after == a \o answer \o b
           head == Left(words, p)
           at2 == IndexIn(old, head)
           l == Len(answer)
           n == Len(words)
           left == Left(after, p + (l - 2))
           c == Left(head, at)
           d == Right(head, at + 2)
           right == c \o answer \o d
<1>0. n \in Nat /\ l \in Nat /\ old \in Seq(Chars) /\ Len(old) = 2
  BY UploadTexts
<1>1. /\ at \in Nat /\ at + 2 <= n
      /\ \A k \in 1 .. 2 : words[at + k] = old[k]
      /\ \A i \in 0 .. n - 2 : (\A k \in 1 .. 2 : words[i + k] = old[k]) => at <= i
  <2>1. /\ at \in 0 .. n - Len(old)
        /\ \A k \in 1 .. Len(old) : words[at + k] = old[k]
        /\ \A i \in 0 .. n - Len(old) : (\A k \in 1 .. Len(old) : words[i + k] = old[k]) => at <= i
    BY <1>0, IndexOf DEF Shows
  <2> HIDE DEF at, old, n
  <2>2. at \in 0 .. n - 2
    BY <2>1, <1>0
  <2> QED
    BY <2>1, <2>2, <1>0
<1> HIDE DEF at, old
<1>2. /\ head \in Seq(Chars) /\ Len(head) = p /\ \A k \in 1 .. p : head[k] = words[k]
  BY PartedWords
<1> HIDE DEF head
<1>3. at + 2 <= p /\ p <= n
  BY DEF at, old
<1>4. at2 = at
  <2>1. Occurs(old, head)
    <3>1. at \in 0 .. p - 2
      BY <1>1, <1>3
    <3>2. ASSUME NEW k \in 1 .. 2 PROVE head[at + k] = old[k]
      <4>1. at + k \in 1 .. p
        BY <1>1, <1>3
      <4> QED
        BY <4>1, <1>1, <1>2
    <3> DEFINE q == Len(head)
               r0 == Len(old)
    <3>3. q = p /\ r0 = 2
      BY <1>0, <1>2
    <3> HIDE DEF q, r0
    <3>4. \E i \in 0 .. q - r0 : \A k \in 1 .. r0 : head[i + k] = old[k]
      BY <3>1, <3>2, <3>3
    <3> QED
      BY <3>4 DEF Occurs, q, r0
  <2>2. /\ Shows(head, old) <=> Occurs(old, head)
        /\ at2 = -1 \/ /\ at2 \in 0 .. Len(head) - Len(old)
                       /\ \A k \in 1 .. Len(old) : head[at2 + k] = old[k]
                       /\ \A i \in 0 .. Len(head) - Len(old) :
                            (\A k \in 1 .. Len(old) : head[i + k] = old[k]) => at2 <= i
    BY <1>0, <1>2, IndexOf
  <2>3. at2 # -1
    BY <2>1, <2>2 DEF Shows
  <2> HIDE DEF at2
  <2>4. /\ at2 \in 0 .. p - 2
        /\ \A k \in 1 .. 2 : head[at2 + k] = old[k]
        /\ \A i \in 0 .. p - 2 : (\A k \in 1 .. 2 : head[i + k] = old[k]) => at2 <= i
    BY <2>2, <2>3, <1>0, <1>2
  <2>5. at <= at2
    <3>1. at2 \in 0 .. n - 2
      BY <2>4, <1>0, <1>3
    <3>2. ASSUME NEW k \in 1 .. 2 PROVE words[at2 + k] = old[k]
      <4>1. at2 + k \in 1 .. p
        BY <2>4
      <4> QED
        BY <4>1, <2>4, <1>2
    <3> QED
      BY <3>1, <3>2, <1>1
  <2>6. at2 <= at
    <3>1. at \in 0 .. p - 2
      BY <1>1, <1>3
    <3>2. ASSUME NEW k \in 1 .. 2 PROVE head[at + k] = old[k]
      <4>1. at + k \in 1 .. p
        BY <1>1, <1>3
      <4> QED
        BY <4>1, <1>1, <1>2
    <3> QED
      BY <3>1, <3>2, <2>4
  <2>7. at2 \in Nat /\ at \in Nat
    BY <2>4, <1>1
  <2> QED
    BY <2>5, <2>6, <2>7
<1> DEFINE j0 == at + 2
<1>5. j0 \in Nat /\ at <= j0 /\ j0 <= n /\ j0 <= p /\ at <= p /\ at <= n
  BY <1>1, <1>3
<1> HIDE DEF j0, n
<1>6. /\ a \in Seq(Chars) /\ Len(a) = at /\ \A k \in 1 .. at : a[k] = words[k]
      /\ b \in Seq(Chars) /\ Len(b) = n - j0 /\ \A k \in 1 .. n - j0 : b[k] = words[j0 + k]
  <2>1. /\ Left(words, at) \in Seq(Chars) /\ Len(Left(words, at)) = at
        /\ \A k \in 1 .. at : Left(words, at)[k] = words[k]
    BY <1>1, <1>5, LeftPart DEF n
  <2>2. /\ Right(words, j0) \in Seq(Chars) /\ Len(Right(words, j0)) = Len(words) - j0
        /\ \A k \in 1 .. Len(words) - j0 : Right(words, j0)[k] = words[j0 + k]
    BY <1>1, <1>5, RightPart DEF n
  <2> QED
    BY <2>1, <2>2 DEF n, j0
<1>7. /\ c \in Seq(Chars) /\ Len(c) = at /\ \A k \in 1 .. at : c[k] = head[k]
      /\ d \in Seq(Chars) /\ Len(d) = p - j0 /\ \A k \in 1 .. p - j0 : d[k] = head[j0 + k]
  <2> DEFINE h == Len(head)
  <2>0. at <= Len(head) /\ j0 <= Len(head) /\ h = p
    BY <1>2, <1>5
  <2>1. /\ Left(head, at) \in Seq(Chars) /\ Len(Left(head, at)) = at
        /\ \A k \in 1 .. at : Left(head, at)[k] = head[k]
    BY <2>0, <1>1, <1>2, LeftPart
  <2>2. /\ Right(head, j0) \in Seq(Chars) /\ Len(Right(head, j0)) = Len(head) - j0
        /\ \A k \in 1 .. Len(head) - j0 : Right(head, j0)[k] = head[j0 + k]
    BY <2>0, <1>2, <1>5, RightPart
  <2>3. Len(head) - j0 = p - j0
    BY <2>0
  <2> HIDE DEF h
  <2> QED
    BY <2>1, <2>2, <2>3 DEF j0
<1> HIDE DEF a, b, c, d, l
<1>8. /\ after \in Seq(Chars) /\ Len(after) = at + l + (n - j0)
      /\ \A k \in 1 .. at : after[k] = a[k]
      /\ \A k \in 1 .. l : after[at + k] = answer[k]
      /\ \A k \in 1 .. n - j0 : after[at + l + k] = b[k]
  <2>1. /\ after \in Seq(Chars) /\ Len(after) = Len(a) + Len(answer) + Len(b)
        /\ \A k \in 1 .. Len(a) : after[k] = a[k]
        /\ \A k \in 1 .. Len(answer) : after[Len(a) + k] = answer[k]
        /\ \A k \in 1 .. Len(b) : after[Len(a) + Len(answer) + k] = b[k]
    <3>1. a \in Seq(Chars) /\ b \in Seq(Chars) /\ answer \in Seq(Chars)
      BY <1>6
    <3>2. after \in Seq(Chars) /\ Len(after) = Len(a) + Len(answer) + Len(b)
      BY <3>1, JoinedThree
    <3>3. \A k \in 1 .. Len(a) : after[k] = a[k]
      BY <3>1, JoinedThree
    <3>4. \A k \in 1 .. Len(answer) : after[Len(a) + k] = answer[k]
      BY <3>1, JoinedThree
    <3>5. \A k \in 1 .. Len(b) : after[Len(a) + Len(answer) + k] = b[k]
      BY <3>1, JoinedThree
    <3> HIDE DEF after
    <3> QED
      BY <3>2, <3>3, <3>4, <3>5
  <2> HIDE DEF after
  <2> QED
    BY <2>1, <1>6 DEF l
<1>9. /\ right \in Seq(Chars) /\ Len(right) = at + l + (p - j0)
      /\ \A k \in 1 .. at : right[k] = c[k]
      /\ \A k \in 1 .. l : right[at + k] = answer[k]
      /\ \A k \in 1 .. p - j0 : right[at + l + k] = d[k]
  <2>1. /\ right \in Seq(Chars) /\ Len(right) = Len(c) + Len(answer) + Len(d)
        /\ \A k \in 1 .. Len(c) : right[k] = c[k]
        /\ \A k \in 1 .. Len(answer) : right[Len(c) + k] = answer[k]
        /\ \A k \in 1 .. Len(d) : right[Len(c) + Len(answer) + k] = d[k]
    <3>1. c \in Seq(Chars) /\ d \in Seq(Chars) /\ answer \in Seq(Chars)
      BY <1>7
    <3>2. right \in Seq(Chars) /\ Len(right) = Len(c) + Len(answer) + Len(d)
      BY <3>1, JoinedThree
    <3>3. \A k \in 1 .. Len(c) : right[k] = c[k]
      BY <3>1, JoinedThree
    <3>4. \A k \in 1 .. Len(answer) : right[Len(c) + k] = answer[k]
      BY <3>1, JoinedThree
    <3>5. \A k \in 1 .. Len(d) : right[Len(c) + Len(answer) + k] = d[k]
      BY <3>1, JoinedThree
    <3> HIDE DEF right
    <3> QED
      BY <3>2, <3>3, <3>4, <3>5
  <2> HIDE DEF right
  <2> QED
    BY <2>1, <1>7 DEF l
<1> HIDE DEF after, right
<1> DEFINE e0 == p + (l - 2)
<1>10. e0 \in Nat /\ e0 = at + l + (p - j0) /\ e0 <= at + l + (n - j0)
  BY <1>0, <1>1, <1>3, <1>5 DEF j0
<1> HIDE DEF e0
<1>11. Left(after, e0) \in Seq(Chars) /\ Len(Left(after, e0)) = e0
       /\ \A k \in 1 .. e0 : Left(after, e0)[k] = after[k]
  <2>1. e0 <= Len(after)
    BY <1>8, <1>10
  <2> QED
    <3>1. \A i, j \in Nat : i <= j /\ j <= Len(after) =>
            /\ Left(after, i) \in Seq(Chars) /\ Len(Left(after, i)) = i
            /\ \A k \in 1 .. i : Left(after, i)[k] = after[k]
      <4>1. after \in Seq(Chars)
        BY <1>8
      <4> QED
        BY <4>1, PartedWords
    <3>2. e0 \in Nat /\ e0 <= e0
      BY <1>10
    <3> QED
      BY <2>1, <3>1, <3>2
<1> DEFINE left0 == Left(after, e0)
<1> HIDE DEF left0
<1>12. ASSUME NEW k \in 1 .. e0 PROVE left0[k] = right[k]
  <2>1. left0[k] = after[k]
    BY <1>11 DEF left0
  <2>2. CASE k <= at
    <3>1. k \in 1 .. at /\ k \in 1 .. p
      BY <2>2, <1>1, <1>5
    <3>2. after[k] = words[k]
      BY <3>1, <1>6, <1>8
    <3>3. right[k] = words[k]
      BY <3>1, <1>2, <1>7, <1>9
    <3> QED
      BY <3>2, <3>3, <2>1
  <2>3. CASE ~(k <= at) /\ k <= at + l
    <3>1. k - at \in 1 .. l /\ at + (k - at) = k
      BY <2>3, <1>0, <1>1
    <3>2. after[at + (k - at)] = answer[k - at] /\ right[at + (k - at)] = answer[k - at]
      BY <3>1, <1>8, <1>9
    <3> QED
      BY <3>1, <3>2, <2>1
  <2>4. CASE ~(k <= at + l)
    <3> DEFINE k0 == k - (at + l)
    <3>1. k0 \in 1 .. p - j0 /\ k0 \in 1 .. n - j0 /\ at + l + k0 = k /\ j0 + k0 \in 1 .. p
      BY <2>4, <1>0, <1>1, <1>3, <1>5, <1>10
    <3> HIDE DEF k0
    <3>2. after[at + l + k0] = words[j0 + k0]
      BY <3>1, <1>6, <1>8
    <3>3. right[at + l + k0] = words[j0 + k0]
      BY <3>1, <1>2, <1>7, <1>9
    <3> QED
      BY <3>1, <3>2, <3>3, <2>1
  <2> QED
    BY <2>2, <2>3, <2>4
<1>13. left0 = right
  <2>1. left0 \in Seq(Chars) /\ Len(left0) = e0 /\ right \in Seq(Chars) /\ Len(right) = e0
    BY <1>9, <1>10, <1>11 DEF left0
  <2> QED
    BY <2>1, <1>12, SeqEqual
<1>14. Len(after) = n + (l - 2)
  <2>1. at + l + (n - j0) = n + (l - 2)
    BY <1>0, <1>1, <1>5 DEF j0
  <2> QED
    BY <2>1, <1>8
<1>15. Left(after, p + (l - 2)) = Left(head, at2) \o answer \o Right(head, at2 + 2)
  BY <1>4, <1>13 DEF left0, e0, right, c, d, j0
<1> QED
  BY <1>1, <1>8, <1>14, <1>15 DEF at, old, after, a, b, head, l, n

(* The body of CaretStays.                                                   *)
CaretKept ==
  LET at == IndexIn(Placeholder(currentUpload), text)
  IN  AnswerStep =>
        /\ (selStart >= at + 2 \/ selEnd <= at) /\ <<selStart, selEnd>> # <<at, at>> =>
             Keeps(selStart, selStart') /\ Keeps(selEnd, selEnd')
        /\ selStart = selEnd /\ selStart \in {at, at + 1} =>
             Keeps(at + 2, selStart') /\ selEnd' = selStart'

(* The answer leaves the caret and the selection where they were in the      *)
(* text.                                                                     *)
LEMMA DoneKeepsCaret ==
  ASSUME EditorInv, UploadDone
  PROVE  CaretKept
<1> SUFFICES ASSUME AnswerStep PROVE CaretKept
  BY DEF CaretKept
<1> DEFINE cur == currentUpload
           q == uploadQueue
           old == Placeholder(cur)
           at == IndexIn(old, text)
<1>1. PICK answer \in {Link(cur), Failure(cur)} :
        Continue(q, Replaced(text, selStart, selEnd, cur, answer))
  BY DEF UploadDone
<1> DEFINE field == Replaced(text, selStart, selEnd, cur, answer)
           l == Len(answer)
           n == Len(text)
<1>2. /\ cur.name # "dollar" /\ Shows(text, old) /\ cur # NoUpload /\ names' = names /\ ~submitted'
      /\ \A i \in DOMAIN q : q[i].name # "header"
  BY DEF AnswerStep, UploadDone
<1>3. QueueSound(q, names) /\ IsUpload(cur, names)
  <2>1. UploadsSound(q, cur, submitDisabled, names)
    BY DEF EditorInv
  <2> QED
    BY <2>1, <1>2 DEF UploadsSound
<1>4. cur \in UploadSet
  BY <1>3 DEF IsUpload
<1>5. Bad(q) = 0
  <2> DEFINE bad == Bad(q)
             m == Len(q)
  <2>1. q \in Seq(UploadSet)
    BY <1>3 DEF QueueSound
  <2>2. bad \in 0 .. m /\ \A i \in 1 .. bad : q[i].name = "header"
    BY <2>1, BadUploads
  <2>3. m \in Nat /\ DOMAIN q = 1 .. m
    BY <2>1
  <2> HIDE DEF bad, m, q
  <2>4. bad # 0 => 1 \in 1 .. bad /\ 1 \in 1 .. m
    BY <2>2, <2>3
  <2>5. bad = 0
    BY <2>2, <2>3, <2>4, <1>2
  <2> QED
    BY <2>5 DEF bad
<1>6. /\ text \in Seq(Chars) /\ n \in Nat /\ selStart \in Nat /\ selEnd \in Nat
      /\ selStart <= selEnd /\ selEnd <= n
  BY EditorText
<1>7. text' = field.text /\ selStart' = field.start /\ selEnd' = field.end
  <2> DEFINE next == UploadNext(q, field)
  <2>1. /\ text' = next.page.text /\ selStart' = next.page.start /\ selEnd' = next.page.end
    BY <1>1 DEF Continue
  <2>2. next.page = Failed(q, field)[0]
    BY <1>5 DEF UploadNext
  <2>3. Failed(q, field)[0] = field
    <3>1. q \in Seq(UploadSet)
      BY <1>3 DEF QueueSound
    <3>2. field \in EditorPages
      <4> DEFINE here == [text |-> text, start |-> selStart, end |-> selEnd]
      <4>1. here \in EditorPages
        BY EditorText
      <4>2. here.text = text /\ here.start = selStart /\ here.end = selEnd
        OBVIOUS
      <4> HIDE DEF here, cur
      <4>3. Replaced(here.text, here.start, here.end, cur, answer) \in EditorPages
        BY <4>1, <1>1, <1>4, ReplacedPage
      <4> QED
        BY <4>2, <4>3
    <3> HIDE DEF field, q
    <3> QED
      BY <3>1, <3>2, FailedLoop
  <2> HIDE DEF next
  <2> QED
    BY <2>1, <2>2, <2>3
<1>8. answer \in Seq(Chars) /\ l \in 1 .. 3
  BY <1>1, <1>4, InsertedText
<1>9. Len(old) = 2 /\ at # -1
  BY <1>2, <1>4, UploadTexts DEF Shows
<1> DEFINE after == Left(text, at) \o answer \o Right(text, at + 2)
           inside == at <= selStart /\ selEnd <= at + 2
           behind == (inside /\ selStart = selEnd) \/ (selStart < at + 2 /\ at < selEnd /\ ~inside)
           Shifted(p) == IF p >= at + 2 THEN p + (l - 2) ELSE p
<1>10. /\ field.text = after
       /\ field.start = IF behind THEN at + l ELSE Shifted(selStart)
       /\ field.end = IF behind THEN at + l ELSE Shifted(selEnd)
  <2>1. field.text = after
    BY <1>2, <1>9 DEF Replaced
  <2>2. field.start = IF behind THEN at + l ELSE Shifted(selStart)
    BY <1>9 DEF Replaced
  <2>3. field.end = IF behind THEN at + l ELSE Shifted(selEnd)
    BY <1>9 DEF Replaced
  <2> QED
    BY <2>1, <2>2, <2>3
<1>11. /\ at \in Nat /\ at + 2 <= n /\ Left(text, at) \in Seq(Chars) /\ Len(Left(text, at)) = at
       /\ Right(text, at + 2) \in Seq(Chars)
  BY <1>2, <1>4, <1>6, PlaceholderFound
<1> HIDE DEF field
<1>12. ASSUME NEW p \in Nat, at + 2 <= p, p <= n PROVE Keeps(p, p + (l - 2))
  <2> DEFINE head == Left(text, p)
             at2 == IndexIn(old, head)
  <2>1. /\ after \in Seq(Chars) /\ Len(after) = n + (l - 2)
        /\ Left(after, p + (l - 2)) = Left(head, at2) \o answer \o Right(head, at2 + 2)
    <3>1. /\ cur \in UploadSet /\ text \in Seq(Chars) /\ Shows(text, old) /\ answer \in Seq(Chars)
          /\ p \in Nat /\ p <= Len(text) /\ at + 2 <= p
      BY <1>2, <1>4, <1>6, <1>8, <1>12
    <3>2. after \in Seq(Chars)
      BY <3>1, LeftOfAnswer
    <3>3. Len(after) = n + (l - 2)
      BY <3>1, LeftOfAnswer
    <3>4. Left(after, p + (l - 2)) = Left(head, at2) \o answer \o Right(head, at2 + 2)
      BY <3>1, LeftOfAnswer
    <3> HIDE DEF after, head, l, n
    <3> QED
      BY <3>2, <3>3, <3>4
  <2>2. text' = after
    BY <1>7, <1>10
  <2> HIDE DEF after, head, l, n
  <2>3. p + (l - 2) <= Len(text')
    BY <2>1, <2>2, <1>6, <1>8, <1>12
  <2>4. ~(p <= at)
    <3> HIDE DEF at
    <3> QED
      BY <1>11, <1>12
  <2>5. Left(text', p + (l - 2)) \in Answered(head)
    BY <2>1, <2>2, <1>1 DEF Answered, l
  <2> QED
    BY <2>3, <2>4, <2>5 DEF Keeps, head
<1>13. ASSUME NEW p \in Nat, p <= at PROVE Keeps(p, p)
  <2> DEFINE a == Left(text, at)
             b == Right(text, at + 2)
  <2>1. after \in Seq(Chars) /\ Len(after) = Len(a) + l + Len(b)
        /\ \A k \in 1 .. Len(a) : after[k] = a[k]
    <3>1. a \in Seq(Chars) /\ b \in Seq(Chars) /\ answer \in Seq(Chars)
      BY <1>8, <1>11
    <3> HIDE DEF a, b
    <3>2. a \o answer \o b \in Seq(Chars) /\ Len(a \o answer \o b) = Len(a) + Len(answer) + Len(b)
          /\ \A k \in 1 .. Len(a) : (a \o answer \o b)[k] = a[k]
      BY <3>1, JoinedThree
    <3> QED
      BY <3>2 DEF a, b
  <2>2. Len(b) \in Nat /\ Len(a) = at /\ \A k \in 1 .. at : a[k] = text[k]
    <3>1. \A k \in 1 .. at : a[k] = text[k]
      <4>1. \A i, j \in Nat : i <= j /\ j <= Len(text) => \A k \in 1 .. i : Left(text, i)[k] = text[k]
        BY <1>6, PartedWords
      <4>2. at \in Nat /\ at <= at /\ at <= Len(text)
        <5> HIDE DEF at
        <5> QED
          BY <1>6, <1>11
      <4> HIDE DEF at
      <4> QED
        BY <4>1, <4>2
    <3> QED
      BY <3>1, <1>11
  <2>3. text' = after
    BY <1>7, <1>10
  <2> HIDE DEF at, a, b, l, n, after
  <2>4. p <= Len(after) /\ p <= Len(text)
    BY <2>1, <2>2, <1>6, <1>8, <1>11, <1>13 DEF n
  <2>5. \A words \in Seq(Chars) : p <= Len(words) =>
          /\ Left(words, p) \in Seq(Chars) /\ Len(Left(words, p)) = p
          /\ \A k \in 1 .. p : Left(words, p)[k] = words[k]
    <3> TAKE words \in Seq(Chars)
    <3> HAVE p <= Len(words)
    <3>1. \A i, j \in Nat : i <= j /\ j <= Len(words) =>
            /\ Left(words, i) \in Seq(Chars) /\ Len(Left(words, i)) = i
            /\ \A k \in 1 .. i : Left(words, i)[k] = words[k]
      BY PartedWords
    <3>2. p \in Nat /\ p <= p
      OBVIOUS
    <3> QED
      BY <3>1, <3>2
  <2> DEFINE left == Left(after, p)
             right == Left(text, p)
  <2>6. /\ left \in Seq(Chars) /\ Len(left) = p /\ \A k \in 1 .. p : left[k] = after[k]
        /\ right \in Seq(Chars) /\ Len(right) = p /\ \A k \in 1 .. p : right[k] = text[k]
    BY <2>1, <2>4, <2>5, <1>6
  <2> HIDE DEF left, right
  <2>7. \A k \in 1 .. p : left[k] = right[k]
    <3>1. \A k \in 1 .. p : k \in 1 .. at
      BY <1>11, <1>13
    <3> QED
      BY <3>1, <2>1, <2>2, <2>6
  <2>8. left = right
    BY <2>6, <2>7, SeqEqual
  <2> QED
    BY <2>3, <2>4, <2>8, <1>13 DEF Keeps, left, right, at, old, cur
<1> HIDE DEF after
<1>14. ASSUME selStart >= at + 2 \/ selEnd <= at, <<selStart, selEnd>> # <<at, at>>
       PROVE  Keeps(selStart, selStart') /\ Keeps(selEnd, selEnd')
  <2> HIDE DEF at, l, n
  <2>1. CASE selStart >= at + 2
    <3>1. /\ selStart' = selStart + (l - 2) /\ selEnd' = selEnd + (l - 2)
          /\ at + 2 <= selStart /\ at + 2 <= selEnd /\ selStart <= n
      <4>1. /\ selStart' = IF behind THEN at + l ELSE Shifted(selStart)
            /\ selEnd' = IF behind THEN at + l ELSE Shifted(selEnd)
        BY <1>7, <1>10
      <4> QED
        BY <4>1, <2>1, <1>6, <1>8, <1>11
    <3> QED
      BY <3>1, <1>6, <1>12
  <2>2. CASE selEnd <= at
    <3>1. selStart' = selStart /\ selEnd' = selEnd /\ selStart <= at
      <4>1. /\ selStart' = IF behind THEN at + l ELSE Shifted(selStart)
            /\ selEnd' = IF behind THEN at + l ELSE Shifted(selEnd)
        BY <1>7, <1>10
      <4>2. ~(selStart = at /\ selEnd = at)
        BY <1>14
      <4> QED
        BY <4>1, <4>2, <2>2, <1>6, <1>8, <1>11
    <3> QED
      BY <3>1, <2>2, <1>6, <1>13
  <2> QED
    BY <2>1, <2>2, <1>14
<1>15. ASSUME selStart = selEnd, selStart \in {at, at + 1}
       PROVE  Keeps(at + 2, selStart') /\ selEnd' = selStart'
  <2> HIDE DEF at, l, n
  <2>1. /\ selStart' = IF behind THEN at + l ELSE Shifted(selStart)
        /\ selEnd' = IF behind THEN at + l ELSE Shifted(selEnd)
    BY <1>7, <1>10
  <2>2. selStart' = at + 2 + (l - 2) /\ selEnd' = selStart'
    BY <2>1, <1>6, <1>8, <1>11, <1>15
  <2>3. at + 2 \in Nat /\ at + 2 <= at + 2
    BY <1>11
  <2> QED
    BY <2>2, <2>3, <1>11, <1>12
<1> QED
  BY <1>14, <1>15 DEF CaretKept

(* The text, the selection and the uploads stay sound under every handler,   *)
(* and each replaces what it answers.                                        *)
LEMMA EditorStep ==
  ASSUME EditorInv, UploadNextStep
  PROVE  EditorInv' /\ EachReplaced /\ CaretKept
<1>1. ASSUME currentUpload # NoUpload => currentUpload' = currentUpload PROVE CaretKept
  BY <1>1 DEF CaretKept, AnswerStep
<1>2. ASSUME NEW f \in Files, ImportUserFiles(<<f>>)
      PROVE  EditorInv' /\ EachReplaced /\ CaretKept
  <2>1. <<f>> \in Seq(Files)
    OBVIOUS
  <2> QED
    BY <2>1, <1>1, <1>2, ImportKeeps
<1>3. ASSUME NEW f \in Files, NEW g \in Files, ImportUserFiles(<<f, g>>)
      PROVE  EditorInv' /\ EachReplaced /\ CaretKept
  <2>1. <<f, g>> \in Seq(Files)
    OBVIOUS
  <2> QED
    BY <2>1, <1>1, <1>3, ImportKeeps
<1>4. CASE UploadDone
  BY <1>4, DoneKeeps, DoneKeepsCaret
<1>5. CASE Type
  BY <1>1, <1>5, TypeKeeps DEF Type, Edited
<1>6. CASE DeleteText
  BY <1>1, <1>6, DeleteKeeps DEF DeleteText, Edited
<1>7. ASSUME NEW link \in BOOLEAN, Format(link)
      PROVE  EditorInv' /\ EachReplaced /\ CaretKept
  BY <1>1, <1>7, FormatKeeps DEF Format, Edited
<1>8. CASE PasteAddress
  BY <1>1, <1>8, PasteKeeps DEF PasteAddress, Edited
<1>9. ASSUME NEW i \in 0 .. Len(text), NEW j \in 0 .. Len(text), i <= j, Select(i, j)
      PROVE  EditorInv' /\ EachReplaced /\ CaretKept
  BY <1>1, <1>9, SelectKeeps DEF Select
<1>10. CASE Submit
  BY <1>1, <1>10, SubmitKeeps DEF Submit
<1> QED
  BY <1>2, <1>3, <1>4, <1>5, <1>6, <1>7, <1>8, <1>9, <1>10 DEF UploadNextStep

(*****************************************************************************)
(* Whatever the user does to the text while files are uploaded, each answer  *)
(* replaces its placeholder and nothing else, no submit goes out meanwhile,  *)
(* and the caret and the selection stay where they were (markdown_upload.ts, *)
(* editor.ts), for any number of files and any length of text.               *)
(*****************************************************************************)
THEOREM EditorKeepsTexts == FrontEndSpec => EditorKeepsText
<1>1. FrontEndInit => EditorInv
  BY EditorStarts DEF FrontEndInit
<1>2. EditorInv /\ [FrontEndNext]_frontEndVars =>
        EditorInv' /\ [EachReplaced]_uploadVars /\ [CaretKept]_uploadVars
  <2> SUFFICES ASSUME EditorInv, [FrontEndNext]_frontEndVars
               PROVE  EditorInv' /\ [EachReplaced]_uploadVars /\ [CaretKept]_uploadVars
    OBVIOUS
  <2>1. UploadNextStep \/ UNCHANGED uploadVars
    BY FrontEndSteps
  <2>2. CASE UploadNextStep
    BY <2>2, EditorStep
  <2>3. CASE UNCHANGED uploadVars
    <3>1. /\ text' = text /\ selStart' = selStart /\ selEnd' = selEnd /\ names' = names
          /\ uploadQueue' = uploadQueue /\ currentUpload' = currentUpload
          /\ submitDisabled' = submitDisabled /\ posted' = posted /\ submitted' = submitted
      BY <2>3 DEF uploadVars
    <3>2. EditorInv'
      BY <3>1 DEF EditorInv, TextSound
    <3> QED
      BY <3>2, <2>3
  <2> QED
    BY <2>1, <2>2, <2>3
<1>3. FrontEndSpec => []EditorInv
  BY <1>1, <1>2, PTL DEF FrontEndSpec
<1>4. EditorInv /\ [FrontEndNext]_frontEndVars => [EachReplaced]_uploadVars
  BY <1>2
<1>5. EditorInv /\ [FrontEndNext]_frontEndVars => [CaretKept]_uploadVars
  BY <1>2
<1>6. FrontEndSpec => UploadsReplaced
  BY <1>3, <1>4, PTL DEF FrontEndSpec, UploadsReplaced, EachReplaced
<1>7. FrontEndSpec => CaretStays
  BY <1>3, <1>5, PTL DEF FrontEndSpec, CaretStays, CaretKept
<1> QED
  BY <1>6, <1>7 DEF EditorKeepsText

-----------------------------------------------------------------------------
(*****************************************************************************)
(* The links.  Every handler keeps the list well formed (ListOf): it begins  *)
(* with the first title, has the second, and nothing in it twice but the     *)
(* placeholders; and all that change it end in ensurePlaceholders, which     *)
(* puts one in each section without rows (Filled).                           *)
(*****************************************************************************)
Elems == Rows \cup {Primary, Secondary, EmptySection, Dummy}

OnlyOnce(s) == \A i, j \in 1 .. Len(s) : s[i] = s[j] /\ s[i] # EmptySection => i = j

ListOf(s) ==
  /\ s \in Seq(Elems) /\ 1 <= Len(s) /\ s[1] = Primary
  /\ Secondary \in ToSet(s)
  /\ OnlyOnce(s)

(* What is in a list.                                                        *)
LEMMA InList ==
  ASSUME NEW S, NEW s \in Seq(S)
  PROVE  /\ Len(s) \in Nat /\ DOMAIN s = 1 .. Len(s)
         /\ \A e : e \in ToSet(s) <=> \E i \in 1 .. Len(s) : s[i] = e
         /\ \A e : Contains(s, e) <=> e \in ToSet(s)
         /\ \A i \in 1 .. Len(s) : s[i] \in S /\ s[i] \in ToSet(s)
<1>1. Len(s) \in Nat /\ DOMAIN s = 1 .. Len(s) /\ \A i \in 1 .. Len(s) : s[i] \in S
  OBVIOUS
<1>2. \A e : e \in ToSet(s) <=> \E i \in 1 .. Len(s) : s[i] = e
  BY <1>1, Zenon DEF ToSet
<1>3. \A e : Contains(s, e) <=> e \in ToSet(s)
  BY <1>2, Zenon DEF Contains
<1> QED
  BY <1>1, <1>2, <1>3

LEMMA AppendOnce ==
  ASSUME NEW S, NEW s \in Seq(S), NEW e \in S, OnlyOnce(s), e = EmptySection \/ e \notin ToSet(s)
  PROVE  /\ Append(s, e) \in Seq(S) /\ Len(Append(s, e)) = Len(s) + 1
         /\ \A i \in 1 .. Len(s) : Append(s, e)[i] = s[i]
         /\ Append(s, e)[Len(s) + 1] = e
         /\ ToSet(Append(s, e)) = ToSet(s) \cup {e}
         /\ OnlyOnce(Append(s, e))
<1> DEFINE new == Append(s, e)
           n == Len(s)
<1>1. n \in Nat /\ new \in Seq(S) /\ Len(new) = n + 1 /\ (\A i \in 1 .. n : new[i] = s[i]) /\ new[n + 1] = e
  OBVIOUS
<1>2. /\ \A x : x \in ToSet(s) <=> \E i \in 1 .. n : s[i] = x
      /\ \A x : x \in ToSet(new) <=> \E i \in 1 .. n + 1 : new[i] = x
  <2>1. \A x : x \in ToSet(s) <=> \E i \in 1 .. n : s[i] = x
    BY InList
  <2> HIDE DEF new, n
  <2>2. \A x : x \in ToSet(new) <=> \E i \in 1 .. Len(new) : new[i] = x
    BY <1>1, InList
  <2> QED
    BY <1>1, <2>1, <2>2
<1> HIDE DEF new, n
<1>3. ToSet(new) = ToSet(s) \cup {e}
  <2>1. ASSUME NEW x PROVE x \in ToSet(new) <=> x \in ToSet(s) \/ x = e
    BY <1>1, <1>2
  <2> QED
    BY <2>1
<1>4. OnlyOnce(new)
  <2> SUFFICES ASSUME NEW i \in 1 .. n + 1, NEW j \in 1 .. n + 1, new[i] = new[j], new[i] # EmptySection
               PROVE  i = j
    BY <1>1 DEF OnlyOnce
  <2>1. CASE i \in 1 .. n /\ j \in 1 .. n
    BY <2>1, <1>1 DEF OnlyOnce, n
  <2>2. CASE i = n + 1 /\ j \in 1 .. n
    BY <2>2, <1>1, <1>2
  <2>3. CASE j = n + 1 /\ i \in 1 .. n
    BY <2>3, <1>1, <1>2
  <2> QED
    BY <2>1, <2>2, <2>3, <1>1
<1> QED
  BY <1>1, <1>3, <1>4 DEF new, n

(* What is kept of a list.                                                   *)
LEMMA KeptIsPushed == \A s, S : Kept(s, S) = Pushed(s, S)
  BY DEF Kept, Pushed

LEMMA KeptOnce ==
  ASSUME NEW T, NEW s \in Seq(T), NEW S, OnlyOnce(s)
  PROVE  /\ Kept(s, S) \in Seq(T)
         /\ ToSet(Kept(s, S)) = ToSet(s) \cap S
         /\ OnlyOnce(Kept(s, S))
         /\ 1 <= Len(s) /\ s[1] \in S => 1 <= Len(Kept(s, S)) /\ Kept(s, S)[1] = s[1]
<1> DEFINE n == Len(s)
<1>1. PICK f \in [0 .. n -> Seq(T)] : Pushing(f, s, S) /\ Pushed(s, S) = f[n]
  BY PushedTurns
<1>2. /\ n \in Nat
      /\ \A i \in 1 .. n : s[i] \in T
      /\ \A e : e \in ToSet(s) <=> \E i \in 1 .. n : s[i] = e
  BY InList
<1> DEFINE Holds(i, new) == \A e : e \in ToSet(new) <=> e \in S /\ \E j \in 1 .. i : s[j] = e
           Starts(i, new) == 1 <= i /\ s[1] \in S => 1 <= Len(new) /\ new[1] = s[1]
           G == {i \in 0 .. n : Holds(i, f[i]) /\ OnlyOnce(f[i]) /\ Starts(i, f[i])}
<1>3. 0 \in G
  <2>1. f[0] = <<>> /\ 0 \in 0 .. n
    BY <1>1, <1>2 DEF Pushing
  <2>2. ToSet(<<>>) = {} /\ OnlyOnce(<<>>)
    BY DEF ToSet, OnlyOnce
  <2> QED
    BY <2>1, <2>2
<1>4. ASSUME NEW i \in 0 .. n - 1, i \in G PROVE i + 1 \in G
  <2>1. i + 1 \in 1 .. n /\ i + 1 - 1 = i /\ i + 1 \in 0 .. n /\ i \in Nat
    BY <1>2
  <2>2. f[i + 1] = IF s[i + 1] \in S THEN Append(f[i], s[i + 1]) ELSE f[i]
    BY <1>1, <2>1 DEF Pushing
  <2>3. f[i] \in Seq(T) /\ Holds(i, f[i]) /\ OnlyOnce(f[i]) /\ Starts(i, f[i])
    BY <1>1, <1>4, <2>1
  <2>4. \A e : (\E j \in 1 .. i + 1 : s[j] = e) <=> (\E j \in 1 .. i : s[j] = e) \/ s[i + 1] = e
    <3>1. \A j : j \in 1 .. i + 1 <=> j \in 1 .. i \/ j = i + 1
      BY <2>1
    <3> QED
      BY <3>1
  <2>5. CASE s[i + 1] \in S
    <3>1. s[i + 1] = EmptySection \/ s[i + 1] \notin ToSet(f[i])
      <4>1. ASSUME NEW j \in 1 .. i, s[j] = s[i + 1], s[j] # EmptySection PROVE FALSE
        <5>1. j \in 1 .. n /\ j # i + 1
          BY <1>2, <2>1
        <5> QED
          BY <4>1, <5>1, <2>1 DEF OnlyOnce
      <4> HIDE DEF n
      <4> QED
        BY <4>1, <2>3
    <3> DEFINE new == Append(f[i], s[i + 1])
    <3>2. /\ f[i] \in Seq(T) /\ s[i + 1] \in T
      BY <2>3, <2>1, <1>2
    <3>3. /\ new \in Seq(T) /\ Len(new) = Len(f[i]) + 1
          /\ \A k \in 1 .. Len(f[i]) : new[k] = f[i][k]
          /\ new[Len(f[i]) + 1] = s[i + 1]
          /\ ToSet(new) = ToSet(f[i]) \cup {s[i + 1]}
          /\ OnlyOnce(new)
      BY <2>3, <3>1, <3>2, AppendOnce
    <3>4. Holds(i + 1, new)
      BY <2>3, <2>4, <2>5, <3>3
    <3>5. Starts(i + 1, new)
      <4>0. Len(f[i]) \in Nat
        BY <3>2
      <4>1. CASE i = 0
        <5>1. f[0] = <<>>
          BY <1>1 DEF Pushing
        <5>2. Len(f[i]) = 0
          BY <4>1, <5>1
        <5>3. Len(new) = 1 /\ new[1] = s[1]
          <6> HIDE DEF new
          <6> QED
            BY <4>1, <5>2, <3>3
        <5> QED
          BY <5>3
      <4>2. CASE i # 0
        BY <4>2, <4>0, <2>1, <2>3, <3>3
      <4> QED
        BY <4>1, <4>2
    <3>6. f[i + 1] = new
      BY <2>2, <2>5
    <3> HIDE DEF new, Holds, Starts
    <3> QED
      BY <2>1, <3>3, <3>4, <3>5, <3>6
  <2>6. CASE s[i + 1] \notin S
    <3>1. f[i + 1] = f[i]
      BY <2>2, <2>6
    <3>2. Holds(i + 1, f[i])
      BY <2>3, <2>4, <2>6
    <3>3. Starts(i + 1, f[i])
      <4>1. CASE i = 0
        BY <4>1, <2>6
      <4>2. CASE i # 0
        BY <4>2, <2>1, <2>3
      <4> QED
        BY <4>1, <4>2
    <3> HIDE DEF Holds, Starts
    <3> QED
      BY <2>1, <2>3, <3>1, <3>2, <3>3
  <2> QED
    BY <2>5, <2>6
<1>5. n \in G
  <2> HIDE DEF n, G
  <2>1. \A i \in 0 .. n : i \in G
    BY <1>2, <1>3, <1>4, UpTo
  <2> QED
    BY <2>1, <1>2
<1>6. Kept(s, S) = f[n]
  BY <1>1, KeptIsPushed
<1>7. /\ Holds(n, f[n]) /\ OnlyOnce(f[n]) /\ Starts(n, f[n]) /\ f[n] \in Seq(T)
  BY <1>5, <1>1, <1>2
<1>8. ToSet(f[n]) = ToSet(s) \cap S
  <2> HIDE DEF n
  <2>1. \A e : e \in ToSet(f[n]) <=> e \in S /\ e \in ToSet(s)
    BY <1>2, <1>7
  <2> QED
    BY <2>1
<1> QED
  BY <1>6, <1>7, <1>8

(* What is put into a list moves what follows it on by one.                  *)
LEMMA PutAt ==
  ASSUME NEW S, NEW s \in Seq(S), NEW p \in 1 .. Len(s) + 1, NEW e \in S
  PROVE  /\ InsertAt(s, p, e) \in Seq(S) /\ Len(InsertAt(s, p, e)) = Len(s) + 1
         /\ \A i \in 1 .. p - 1 : InsertAt(s, p, e)[i] = s[i]
         /\ InsertAt(s, p, e)[p] = e
         /\ \A i \in p .. Len(s) : InsertAt(s, p, e)[i + 1] = s[i]
<1> DEFINE a == SubSeq(s, 1, p - 1)
           b == SubSeq(s, p, Len(s))
           n == Len(s)
<1>1. n \in Nat /\ p \in Nat /\ 1 <= p /\ p <= n + 1
  OBVIOUS
<1>2. a \in Seq(S) /\ Len(a) = p - 1 /\ \A i \in 1 .. p - 1 : a[i] = s[i]
  OBVIOUS
<1>3. b \in Seq(S) /\ Len(b) = n - (p - 1) /\ \A i \in 1 .. n - (p - 1) : b[i] = s[p - 1 + i]
  OBVIOUS
<1> DEFINE x == <<e>>
           new == a \o x \o b
<1>4. x \in Seq(S) /\ Len(x) = 1 /\ x[1] = e
  OBVIOUS
<1> HIDE DEF a, b, x, n
<1>5. /\ new \in Seq(S)
      /\ Len(new) = Len(a) + Len(x) + Len(b)
      /\ \A k \in 1 .. Len(a) : new[k] = a[k]
      /\ \A k \in 1 .. Len(x) : new[Len(a) + k] = x[k]
      /\ \A k \in 1 .. Len(b) : new[Len(a) + Len(x) + k] = b[k]
  <2>1. a \in Seq(S) /\ x \in Seq(S) /\ b \in Seq(S)
    BY <1>2, <1>3, <1>4
  <2> QED
    BY <2>1, JoinedThree
<1> HIDE DEF new
<1>6. Len(new) = n + 1
  BY <1>1, <1>2, <1>3, <1>4, <1>5
<1>7. \A i \in 1 .. p - 1 : new[i] = s[i]
  BY <1>1, <1>2, <1>5
<1>8. new[p] = e
  <2>1. 1 \in 1 .. Len(x) /\ Len(a) + 1 = p
    BY <1>1, <1>2, <1>4
  <2>2. new[Len(a) + 1] = x[1]
    BY <2>1, <1>5
  <2> QED
    BY <2>1, <2>2, <1>4
<1>9. ASSUME NEW i \in p .. n PROVE new[i + 1] = s[i]
  <2> DEFINE k == i - (p - 1)
  <2>1. k \in 1 .. Len(b) /\ Len(a) + Len(x) + k = i + 1 /\ p - 1 + k = i
    <3>1. i \in Nat /\ p <= i /\ i <= n /\ Len(a) = p - 1 /\ Len(x) = 1 /\ Len(b) = n - (p - 1)
      BY <1>1, <1>2, <1>3, <1>4
    <3> QED
      BY <3>1, <1>1
  <2> HIDE DEF k
  <2>2. new[Len(a) + Len(x) + k] = b[k] /\ b[k] = s[p - 1 + k]
    BY <2>1, <1>5, <1>3
  <2> QED
    BY <2>1, <2>2
<1>10. InsertAt(s, p, e) = new
  BY DEF InsertAt, new, a, b, x, n
<1> QED
  BY <1>5, <1>6, <1>7, <1>8, <1>9, <1>10 DEF n

(* The titles, placeholders, the dummy and the rows are told apart.          *)
LEMMA Titles ==
  /\ \A a \in Rows : a # Primary /\ a # Secondary /\ a # EmptySection /\ a # Dummy /\ a # NoRow
  /\ Primary # Secondary /\ Primary # EmptySection /\ Primary # Dummy
  /\ Secondary # EmptySection /\ Secondary # Dummy /\ EmptySection # Dummy
  BY LinksAssumption DEF Primary, Secondary, EmptySection, Dummy, NoRow

(* A list without something that is no title is a list.                      *)
LEMMA TakenOut ==
  ASSUME NEW s, ListOf(s), NEW e, e # Primary, e # Secondary
  PROVE  ListOf(Without(s, e)) /\ ToSet(Without(s, e)) = ToSet(s) \ {e}
<1> DEFINE S == ToSet(s) \ {e}
<1>1. s \in Seq(Elems) /\ OnlyOnce(s) /\ 1 <= Len(s) /\ s[1] = Primary /\ Secondary \in ToSet(s)
  BY DEF ListOf
<1>2. Len(s) \in Nat /\ \A i \in 1 .. Len(s) : s[i] \in ToSet(s)
  BY <1>1, InList
<1>3. 1 \in 1 .. Len(s)
  BY <1>1, <1>2
<1>4. s[1] \in S
  BY <1>1, <1>2, <1>3
<1> DEFINE k == Kept(s, S)
<1>5. k \in Seq(Elems) /\ ToSet(k) = ToSet(s) \cap S /\ OnlyOnce(k) /\ 1 <= Len(k) /\ k[1] = s[1]
  <2> HIDE DEF S
  <2> QED
    BY <1>1, <1>4, KeptOnce
<1>6. Without(s, e) = k
  BY DEF Without
<1> HIDE DEF k
<1>7. ToSet(k) = ToSet(s) \ {e}
  BY <1>5
<1>8. ListOf(k)
  BY <1>1, <1>5, <1>7 DEF ListOf
<1> QED
  BY <1>6, <1>7, <1>8

(* Nor does it stop being one when something new is put after the title.     *)
LEMMA PutIn ==
  ASSUME NEW s, ListOf(s), NEW p \in 2 .. Len(s) + 1, NEW e \in Elems,
         e = EmptySection \/ e \notin ToSet(s)
  PROVE  ListOf(InsertAt(s, p, e)) /\ ToSet(InsertAt(s, p, e)) = ToSet(s) \cup {e}
<1> DEFINE n == Len(s)
           new == InsertAt(s, p, e)
<1>1. s \in Seq(Elems) /\ OnlyOnce(s) /\ 1 <= n /\ s[1] = Primary /\ Secondary \in ToSet(s)
  BY DEF ListOf
<1>2. n \in Nat /\ p \in 1 .. n + 1 /\ p \in Nat /\ 2 <= p /\ p <= n + 1
  BY <1>1
<1>3. /\ new \in Seq(Elems) /\ Len(new) = n + 1
      /\ \A i \in 1 .. p - 1 : new[i] = s[i]
      /\ new[p] = e
      /\ \A i \in p .. n : new[i + 1] = s[i]
  BY <1>1, <1>2, PutAt
<1> HIDE DEF n, new
<1>4. /\ \A x : x \in ToSet(s) <=> \E i \in 1 .. n : s[i] = x
      /\ \A x : x \in ToSet(new) <=> \E i \in 1 .. n + 1 : new[i] = x
  <2>1. \A x : x \in ToSet(s) <=> \E i \in 1 .. Len(s) : s[i] = x
    BY <1>1, InList
  <2>2. \A x : x \in ToSet(new) <=> \E i \in 1 .. Len(new) : new[i] = x
    BY <1>3, InList
  <2> QED
    BY <1>3, <2>1, <2>2 DEF n
<1> DEFINE At(i) == IF i < p THEN i ELSE i + 1
<1>5. \A i \in 1 .. n : At(i) \in 1 .. n + 1 /\ new[At(i)] = s[i]
  BY <1>2, <1>3
<1>6. ASSUME NEW j \in 1 .. n + 1, j # p PROVE \E i \in 1 .. n : At(i) = j
  <2>1. CASE j < p
    BY <2>1, <1>2
  <2>2. CASE p < j
    <3>1. j - 1 \in 1 .. n /\ At(j - 1) = j
      BY <2>2, <1>2
    <3> QED
      BY <3>1
  <2> QED
    BY <2>1, <2>2, <1>2, <1>6
<1>7. \A i, j \in 1 .. n : At(i) = At(j) => i = j
  BY <1>2
<1>8. p \in 1 .. n + 1
  BY <1>2
<1> HIDE DEF At
<1>9. ToSet(new) = ToSet(s) \cup {e}
  <2>1. ASSUME NEW x \in ToSet(new), x # e PROVE x \in ToSet(s)
    <3>1. PICK j \in 1 .. n + 1 : new[j] = x
      BY <1>4, <2>1
    <3>2. PICK i \in 1 .. n : At(i) = j
      BY <3>1, <2>1, <1>3, <1>6
    <3> QED
      BY <3>1, <3>2, <1>4, <1>5
  <2>2. \A x \in ToSet(s) : x \in ToSet(new)
    BY <1>4, <1>5
  <2>3. e \in ToSet(new)
    BY <1>3, <1>4, <1>8
  <2> QED
    BY <2>1, <2>2, <2>3
<1>10. OnlyOnce(new)
  <2> SUFFICES ASSUME NEW i \in 1 .. n + 1, NEW j \in 1 .. n + 1, new[i] = new[j], new[i] # EmptySection
               PROVE  i = j
    BY <1>3 DEF OnlyOnce
  <2>1. \A k \in 1 .. n : s[k] # e \/ e = EmptySection
    BY <1>4
  <2>2. CASE i = p \/ j = p
    BY <2>1, <2>2, <1>3, <1>5, <1>6
  <2>3. CASE i # p /\ j # p
    <3>1. PICK x \in 1 .. n, y \in 1 .. n : At(x) = i /\ At(y) = j
      BY <2>3, <1>6
    <3>2. s[x] = s[y] /\ s[x] # EmptySection
      BY <3>1, <1>5
    <3>3. x = y
      BY <3>2, <1>1 DEF OnlyOnce, n
    <3> QED
      BY <3>1, <3>3
  <2> QED
    BY <2>2, <2>3
<1>11. new[1] = Primary
  <2>1. 1 \in 1 .. p - 1
    BY <1>2
  <2> QED
    BY <2>1, <1>1, <1>3
<1>12. ListOf(new)
  BY <1>1, <1>2, <1>3, <1>9, <1>10, <1>11 DEF ListOf
<1> QED
  BY <1>9, <1>12 DEF new

(* Where something is in a list.                                             *)
LEMMA PositionOf ==
  ASSUME NEW s, ListOf(s), NEW e \in ToSet(s)
  PROVE  /\ Len(s) \in Nat
         /\ Position(e, s) \in 1 .. Len(s) /\ s[Position(e, s)] = e
         /\ e # EmptySection => \A i \in 1 .. Len(s) : s[i] = e => i = Position(e, s)
         /\ e # Primary => 2 <= Position(e, s)
         /\ e = Primary => Position(e, s) = 1
<1>1. s \in Seq(Elems) /\ OnlyOnce(s) /\ 1 <= Len(s) /\ s[1] = Primary
  BY DEF ListOf
<1>2. Len(s) \in Nat /\ DOMAIN s = 1 .. Len(s) /\ \E i \in 1 .. Len(s) : s[i] = e
  BY <1>1, InList
<1> DEFINE at == Position(e, s)
<1>3. at = CHOOSE i \in 1 .. Len(s) : s[i] = e
  BY <1>2 DEF Position
<1> HIDE DEF at
<1>4. at \in 1 .. Len(s) /\ s[at] = e
  BY <1>2, <1>3
<1>5. e # EmptySection => \A i \in 1 .. Len(s) : s[i] = e => i = at
  BY <1>1, <1>4 DEF OnlyOnce
<1>6. 1 \in 1 .. Len(s)
  BY <1>1, <1>2
<1>7. e # Primary => 2 <= at
  BY <1>1, <1>2, <1>4
<1>8. e = Primary => at = 1
  BY <1>1, <1>5, <1>6, Titles
<1> QED
  BY <1>2, <1>4, <1>5, <1>7, <1>8 DEF at

LEMMA PutBefore ==
  ASSUME NEW s, ListOf(s), NEW at \in ToSet(s), at # Primary, NEW e \in Elems, e \notin ToSet(s)
  PROVE  ListOf(Before(s, at, e)) /\ ToSet(Before(s, at, e)) = ToSet(s) \cup {e}
<1>1. Position(at, s) \in 2 .. Len(s) + 1
  BY PositionOf
<1> QED
  BY <1>1, PutIn DEF Before

LEMMA PutAfter ==
  ASSUME NEW s, ListOf(s), NEW at \in ToSet(s), NEW e \in Elems, e = EmptySection \/ e \notin ToSet(s)
  PROVE  ListOf(After(s, at, e)) /\ ToSet(After(s, at, e)) = ToSet(s) \cup {e}
<1>1. Position(at, s) + 1 \in 2 .. Len(s) + 1
  BY PositionOf
<1> QED
  BY <1>1, PutIn DEF After

(* A section has rows or one placeholder; and what was put in at p moved     *)
(* what is there or follows.                                                 *)
OnePlaceholder(s, I) ==
  IF \E i \in I : s[i] \in Rows THEN \A i \in I : s[i] # EmptySection
  ELSE \E i \in I : \A j \in I : s[j] = EmptySection <=> j = i

Filled(s) ==
  /\ OnePlaceholder(s, 1 .. Position(Secondary, s))
  /\ OnePlaceholder(s, Position(Secondary, s) .. Len(s))

MovedOn(i, p) == IF i < p THEN i ELSE i + 1

\* The places J of the list new are those at I in s, and perhaps p.
PutAmong(s, I, new, J, p) ==
  /\ \A i \in I : MovedOn(i, p) \in J /\ new[MovedOn(i, p)] = s[i]
  /\ \A j \in J : j = p \/ \E i \in I : j = MovedOn(i, p)

LEMMA OneKept ==
  ASSUME NEW s, NEW new, NEW p \in Nat, NEW I \in SUBSET Nat, NEW J, PutAmong(s, I, new, J, p),
         p \in J => new[p] \notin Rows \cup {EmptySection},
         OnePlaceholder(s, I)
  PROVE  OnePlaceholder(new, J)
<1>1. \A i, j \in I : MovedOn(i, p) = MovedOn(j, p) => i = j
  BY DEF MovedOn
<1>2. \A j \in J : new[j] \in Rows \cup {EmptySection} => \E i \in I : j = MovedOn(i, p)
  BY DEF PutAmong
<1>3. \A i \in I : MovedOn(i, p) \in J /\ new[MovedOn(i, p)] = s[i]
  BY DEF PutAmong
<1>4. CASE \E i \in I : s[i] \in Rows
  <2>1. \E j \in J : new[j] \in Rows
    BY <1>4, <1>3
  <2>2. \A j \in J : new[j] # EmptySection
    BY <1>4, <1>2, <1>3 DEF OnePlaceholder
  <2> QED
    BY <2>1, <2>2 DEF OnePlaceholder
<1>5. CASE ~ \E i \in I : s[i] \in Rows
  <2>1. ~ \E j \in J : new[j] \in Rows
    BY <1>5, <1>2, <1>3
  <2>2. PICK i \in I : \A j \in I : s[j] = EmptySection <=> j = i
    BY <1>5 DEF OnePlaceholder
  <2> DEFINE at == MovedOn(i, p)
  <2>3. at \in J /\ new[at] = EmptySection
    BY <2>2, <1>3
  <2>4. ASSUME NEW j \in J, new[j] = EmptySection PROVE j = at
    <3>1. PICK x \in I : j = MovedOn(x, p)
      BY <2>4, <1>2
    <3>2. s[x] = EmptySection
      BY <3>1, <2>4, <1>3
    <3> QED
      BY <3>1, <3>2, <2>2
  <2> HIDE DEF at
  <2> QED
    BY <2>1, <2>3, <2>4 DEF OnePlaceholder
<1> QED
  BY <1>4, <1>5

LEMMA OnePut ==
  ASSUME NEW s, NEW new, NEW p, NEW I, NEW J, PutAmong(s, I, new, J, p),
         p \in J, new[p] = EmptySection,
         \A i \in I : s[i] \notin Rows \cup {EmptySection}
  PROVE  OnePlaceholder(new, J)
<1>1. \A j \in J : j # p => new[j] \notin Rows \cup {EmptySection}
  BY DEF PutAmong
<1>2. new[p] \notin Rows
  BY Titles
<1> QED
  BY <1>1, <1>2 DEF OnePlaceholder

(* The two sections of a list into which something is put.                   *)
LEMMA PutSides ==
  ASSUME NEW s, ListOf(s), NEW p \in 2 .. Len(s) + 1, NEW e \in Elems, e # Secondary,
         e = EmptySection \/ e \notin ToSet(s)
  PROVE  LET new == InsertAt(s, p, e)
             sp == Position(Secondary, s)
             sq == Position(Secondary, new)
         IN  /\ Len(s) \in Nat /\ Len(new) = Len(s) + 1
             /\ sp \in 2 .. Len(s) /\ sq = MovedOn(sp, p)
             /\ new[p] = e
             /\ PutAmong(s, 1 .. sp, new, 1 .. sq, p)
             /\ PutAmong(s, sp .. Len(s), new, sq .. Len(new), p)
             /\ p \in 1 .. sq <=> p <= sp
             /\ p \in sq .. Len(new) <=> sp < p
<1> DEFINE new == InsertAt(s, p, e)
           n == Len(s)
           sp == Position(Secondary, s)
           sq == Position(Secondary, new)
<1>0. s \in Seq(Elems) /\ Secondary \in ToSet(s)
  BY DEF ListOf
<1>1. n \in Nat /\ p \in Nat /\ 2 <= p /\ p <= n + 1 /\ p \in 1 .. n + 1
  BY <1>0
<1>2. /\ Len(new) = n + 1 /\ new[p] = e
      /\ \A i \in 1 .. p - 1 : new[i] = s[i]
      /\ \A i \in p .. n : new[i + 1] = s[i]
  BY <1>0, <1>1, PutAt
<1>3. sp \in 1 .. n /\ s[sp] = Secondary /\ 2 <= sp
  BY <1>0, PositionOf, Titles
<1>4. ListOf(new) /\ Secondary \in ToSet(new)
  BY <1>0, PutIn
<1>5. \A i \in 1 .. Len(new) : new[i] = Secondary => i = sq
  <2> HIDE DEF new
  <2> QED
    BY <1>4, PositionOf, Titles
<1> HIDE DEF new, n, sp, sq
<1>6. \A i \in 1 .. n : MovedOn(i, p) \in 1 .. n + 1 /\ new[MovedOn(i, p)] = s[i]
  BY <1>1, <1>2 DEF MovedOn
<1>7. sq = MovedOn(sp, p)
  BY <1>2, <1>3, <1>5, <1>6
<1>8. ASSUME NEW a \in 1 .. n, NEW b \in 1 .. n
      PROVE  /\ \A i \in a .. b : new[MovedOn(i, p)] = s[i] /\ i \in 1 .. n
             /\ \A j \in 1 .. n + 1 : j # p => \E i \in 1 .. n : j = MovedOn(i, p)
  <2>1. \A i \in a .. b : i \in 1 .. n
    BY <1>1
  <2>2. ASSUME NEW j \in 1 .. n + 1, j # p PROVE \E i \in 1 .. n : j = MovedOn(i, p)
    <3>1. CASE j < p
      BY <3>1, <1>1 DEF MovedOn
    <3>2. CASE p < j
      <4>1. j - 1 \in 1 .. n /\ MovedOn(j - 1, p) = j
        BY <3>2, <1>1 DEF MovedOn
      <4> QED
        BY <4>1
    <3> QED
      BY <3>1, <3>2, <2>2, <1>1
  <2> QED
    BY <2>1, <2>2, <1>6
<1>9. PutAmong(s, 1 .. sp, new, 1 .. sq, p)
  <2>0. 1 \in 1 .. n
    BY <1>1, <1>3
  <2>1. \A i \in 1 .. sp : MovedOn(i, p) \in 1 .. sq
    BY <1>1, <1>3, <1>7 DEF MovedOn
  <2>2. \A j \in 1 .. sq : j \in 1 .. n + 1
    BY <1>1, <1>3, <1>7 DEF MovedOn
  <2>3. \A i \in 1 .. n : MovedOn(i, p) \in 1 .. sq => i \in 1 .. sp
    BY <1>1, <1>3, <1>7 DEF MovedOn
  <2> QED
    BY <2>0, <2>1, <2>2, <2>3, <1>3, <1>8 DEF PutAmong
<1>10. PutAmong(s, sp .. n, new, sq .. Len(new), p)
  <2>0. n \in 1 .. n
    BY <1>1, <1>3
  <2>1. \A i \in sp .. n : MovedOn(i, p) \in sq .. n + 1
    BY <1>1, <1>3, <1>7 DEF MovedOn
  <2>2. \A j \in sq .. n + 1 : j \in 1 .. n + 1
    BY <1>1, <1>3, <1>7 DEF MovedOn
  <2>3. \A i \in 1 .. n : MovedOn(i, p) \in sq .. n + 1 => i \in sp .. n
    BY <1>1, <1>3, <1>7 DEF MovedOn
  <2> QED
    BY <2>0, <2>1, <2>2, <2>3, <1>2, <1>3, <1>8 DEF PutAmong
<1>11. (p \in 1 .. sq <=> p <= sp) /\ (p \in sq .. Len(new) <=> sp < p)
  BY <1>1, <1>2, <1>3, <1>7 DEF MovedOn
<1> QED
  BY <1>1, <1>2, <1>3, <1>7, <1>9, <1>10, <1>11 DEF new, n, sp, sq

(* ensurePlaceholders leaves a list as it is but for its placeholders, of    *)
(* which each section then has what it should.                               *)
LEMMA PlaceholdersFit ==
  ASSUME NEW list, ListOf(list)
  PROVE  LET k == EnsurePlaceholders(list)
         IN  /\ ListOf(k) /\ Filled(k)
             /\ ToSet(k) \ {EmptySection} = ToSet(list) \ {EmptySection}
<1> DEFINE s == Without(list, EmptySection)
           split == Position(Secondary, s)
           n == Len(s)
           first == \E i \in 1 .. split : s[i] \in Rows
           second == \E i \in split .. n : s[i] \in Rows
           s1 == IF first THEN s ELSE After(s, Primary, EmptySection)
           k == IF second THEN s1 ELSE After(s1, Secondary, EmptySection)
           sp == Position(Secondary, s1)
           m == Len(s1)
<1>0. EnsurePlaceholders(list) = k
  BY DEF EnsurePlaceholders
<1>1. ListOf(s) /\ ToSet(s) = ToSet(list) \ {EmptySection}
  BY TakenOut, Titles
<1> HIDE DEF s
<1>2. /\ s \in Seq(Elems) /\ Secondary \in ToSet(s) /\ Primary \in ToSet(s)
      /\ n \in Nat /\ split \in 2 .. n
      /\ \A i \in 1 .. n : s[i] # EmptySection
  <2>1. s \in Seq(Elems) /\ Secondary \in ToSet(s) /\ 1 <= n /\ s[1] = Primary
    BY <1>1 DEF ListOf
  <2>2. n \in Nat /\ \A i \in 1 .. n : s[i] \in ToSet(s)
    BY <2>1, InList
  <2>3. 1 \in 1 .. n
    BY <2>1, <2>2
  <2>4. Primary \in ToSet(s)
    BY <2>1, <2>2, <2>3
  <2>5. split \in 2 .. n
    BY <1>1, <2>1, PositionOf, Titles
  <2>6. \A i \in 1 .. n : s[i] # EmptySection
    BY <1>1, <2>2
  <2> QED
    BY <2>1, <2>2, <2>4, <2>5, <2>6
<1> HIDE DEF split, n
<1>3. /\ ListOf(s1) /\ ToSet(s1) \ {EmptySection} = ToSet(s)
      /\ m \in Nat /\ sp \in 2 .. m
      /\ OnePlaceholder(s1, 1 .. sp)
      /\ \A i \in sp .. m : s1[i] # EmptySection
      /\ (\E i \in sp .. m : s1[i] \in Rows) <=> second
  <2>1. CASE first
    <3>1. s1 = s
      BY <2>1
    <3> HIDE DEF first, s1
    <3>2. sp = split /\ m = n
      BY <3>1 DEF split, n
    <3>3. \A i \in 1 .. split : i \in 1 .. n
      BY <1>2
    <3>4. OnePlaceholder(s, 1 .. split)
      BY <2>1, <1>2, <3>3 DEF OnePlaceholder, first
    <3>5. \A i \in split .. n : i \in 1 .. n
      BY <1>2
    <3>6. ToSet(s) \ {EmptySection} = ToSet(s)
      BY <1>1
    <3> HIDE DEF sp, m
    <3> QED
      BY <1>1, <1>2, <3>1, <3>2, <3>4, <3>5, <3>6
  <2>2. CASE ~first
    <3> DEFINE new == InsertAt(s, 2, EmptySection)
    <3>1. s1 = new
      <4>1. Position(Primary, s) = 1
        BY <1>1, <1>2, PositionOf
      <4> QED
        BY <2>2, <4>1 DEF After
    <3>2. 2 \in 2 .. n + 1 /\ EmptySection \in Elems
      BY <1>2 DEF Elems
    <3>3. ListOf(new) /\ ToSet(new) = ToSet(s) \cup {EmptySection}
      BY <1>1, <3>2, PutIn DEF n
    <3> DEFINE sq == Position(Secondary, new)
    <3>4. /\ Len(new) = n + 1
          /\ sq = MovedOn(split, 2)
          /\ new[2] = EmptySection
          /\ PutAmong(s, 1 .. split, new, 1 .. sq, 2)
          /\ PutAmong(s, split .. n, new, sq .. Len(new), 2)
          /\ 2 \in 1 .. sq /\ 2 \notin sq .. Len(new)
      <4>1. /\ Len(new) = Len(s) + 1
            /\ sq = MovedOn(Position(Secondary, s), 2)
            /\ new[2] = EmptySection
            /\ PutAmong(s, 1 .. Position(Secondary, s), new, 1 .. sq, 2)
            /\ PutAmong(s, Position(Secondary, s) .. Len(s), new, sq .. Len(new), 2)
            /\ 2 \in 1 .. sq <=> 2 <= Position(Secondary, s)
            /\ 2 \in sq .. Len(new) <=> Position(Secondary, s) < 2
        BY <1>1, <3>2, Titles, PutSides DEF n
      <4> HIDE DEF new, sq
      <4>2. 2 <= split /\ ~(split < 2)
        BY <1>2
      <4> QED
        BY <4>1, <4>2 DEF n, split
    <3> HIDE DEF new
    <3>5. \A i \in 1 .. split : s[i] \notin Rows \cup {EmptySection}
      <4>1. \A i \in 1 .. split : i \in 1 .. n
        BY <1>2
      <4> QED
        BY <4>1, <1>2, <2>2
    <3>6. OnePlaceholder(new, 1 .. sq)
      <4> HIDE DEF sq
      <4> QED
        BY <3>4, <3>5, OnePut
    <3>7. \A i \in sq .. Len(new) : new[i] # EmptySection
      <4>1. \A i \in split .. n : s[i] # EmptySection
        BY <1>2
      <4> HIDE DEF sq
      <4> QED
        BY <3>4, <4>1 DEF PutAmong
    <3>8. (\E i \in sq .. Len(new) : new[i] \in Rows) <=> second
      <4> HIDE DEF sq
      <4> QED
        BY <3>4 DEF PutAmong
    <3>9. sp = sq /\ m = Len(new)
      BY <3>1
    <3>10. m \in Nat /\ sp \in 2 .. m
      <4> HIDE DEF sp, m, sq
      <4> QED
        BY <1>2, <3>4, <3>9 DEF MovedOn
    <3>11. ToSet(new) \ {EmptySection} = ToSet(s)
      BY <1>1, <3>3
    <3> HIDE DEF sq, sp, m, s1, second
    <3> QED
      BY <3>1, <3>3, <3>6, <3>7, <3>8, <3>9, <3>10, <3>11
  <2> QED
    BY <2>1, <2>2
<1> HIDE DEF s1
<1>4. CASE second
  <2>1. k = s1
    BY <1>4
  <2>2. OnePlaceholder(s1, sp .. m)
    BY <1>3, <1>4 DEF OnePlaceholder
  <2>3. Filled(k)
    BY <2>1, <2>2, <1>3 DEF Filled
  <2> HIDE DEF k, second
  <2> QED
    BY <1>0, <1>1, <1>3, <2>1, <2>3
<1>5. CASE ~second
  <2> DEFINE p == sp + 1
             new == InsertAt(s1, p, EmptySection)
             sq == Position(Secondary, new)
  <2>1. k = new
    BY <1>5 DEF After
  <2>2. p \in 2 .. m + 1 /\ EmptySection \in Elems /\ p \in Nat
    <3> HIDE DEF sp, m
    <3> QED
      BY <1>3 DEF Elems
  <2> HIDE DEF k, p
  <2>3. ListOf(new) /\ ToSet(new) = ToSet(s1) \cup {EmptySection}
    BY <1>3, <2>2, PutIn
  <2>4. /\ Len(new) = m + 1
        /\ new[p] = EmptySection
        /\ PutAmong(s1, 1 .. sp, new, 1 .. sq, p)
        /\ PutAmong(s1, sp .. m, new, sq .. Len(new), p)
        /\ p \in 1 .. sq <=> p <= sp
        /\ p \in sq .. Len(new) <=> sp < p
    BY <1>3, <2>2, Titles, PutSides
  <2> HIDE DEF new, sq, sp, m
  <2>5. p \notin 1 .. sq /\ p \in sq .. Len(new)
    <3>1. ~(p <= sp) /\ sp < p
      BY <1>3 DEF p
    <3> QED
      BY <2>4, <3>1
  <2>6. OnePlaceholder(new, 1 .. sq)
    <3>1. 1 .. sp \in SUBSET Nat
      BY <1>3
    <3> QED
      BY <1>3, <2>2, <2>4, <2>5, <3>1, OneKept
  <2>7. OnePlaceholder(new, sq .. Len(new))
    <3>1. \A i \in sp .. m : s1[i] \notin Rows \cup {EmptySection}
      BY <1>3, <1>5
    <3> QED
      BY <2>4, <2>5, <3>1, OnePut
  <2>8. Filled(new)
    BY <2>6, <2>7 DEF Filled, sq
  <2>9. ToSet(new) \ {EmptySection} = ToSet(s)
    BY <1>3, <2>3
  <2> HIDE DEF second
  <2> QED
    BY <1>0, <1>1, <2>1, <2>3, <2>8, <2>9
<1> QED
  BY <1>4, <1>5

(* getLinkData goes through the list.                                        *)
InFirst(s, i) == \A j \in 1 .. i : s[j] # Secondary
LinkAt(s, i) == [link |-> s[i], primary |-> InFirst(s, i)]

GoesThrough(f, s, filled) ==
  /\ f[0] = <<>>
  /\ \A i \in 1 .. Len(s) :
       f[i] = IF s[i] \in filled THEN Append(f[i - 1], LinkAt(s, i)) ELSE f[i - 1]

LEMMA LinkTurns ==
  ASSUME NEW S, NEW s \in Seq(S), NEW filled
  PROVE  \E f : GoesThrough(f, s, filled) /\ GetLinkData(s, filled) = f[Len(s)]
<1> DEFINE n == Len(s)
           T == {LinkAt(s, i) : i \in 1 .. n}
           Turn(before, i) == IF s[i] \in filled THEN Append(before, LinkAt(s, i)) ELSE before
           turn == [i \in 1 .. n |-> [before \in Seq(T) |-> Turn(before, i)]]
           Is(g) == g = [i \in 0 .. n |-> IF i = 0 THEN <<>>
                          ELSE IF s[i] \in filled THEN Append(g[i - 1], LinkAt(s, i)) ELSE g[i - 1]]
<1>1. n \in Nat /\ <<>> \in Seq(T) /\ \A i \in 1 .. n : LinkAt(s, i) \in T
  OBVIOUS
<1>2. \A i \in 1 .. n, before \in Seq(T) : Turn(before, i) \in Seq(T)
  <2> HIDE DEF T
  <2> QED
    BY <1>1
<1>3. IsLoop(turn, n, Seq(T))
  <2> HIDE DEF n, Turn, T
  <2> QED
    BY <1>2 DEF IsLoop
<1>4. PICK f : Runs(f, turn, n, Seq(T), <<>>)
  <2> HIDE DEF n, turn, T
  <2> QED
    BY <1>1, <1>3, Loop, Zenon
<1> HIDE DEF T
<1>5. f \in [0 .. n -> Seq(T)] /\ f[0] = <<>> /\ \A i \in 1 .. n : f[i] = turn[i][f[i - 1]]
  BY <1>4 DEF Runs
<1>6. ASSUME NEW i \in 1 .. n PROVE f[i] = Turn(f[i - 1], i)
  <2>1. f[i - 1] \in Seq(T)
    BY <1>1, <1>5
  <2> HIDE DEF n, Turn
  <2> QED
    BY <1>5, <2>1
<1>7. Is(f)
  <2>1. \A i \in 0 .. n : f[i] = IF i = 0 THEN <<>>
                          ELSE IF s[i] \in filled THEN Append(f[i - 1], LinkAt(s, i)) ELSE f[i - 1]
    <3> TAKE i \in 0 .. n
    <3>1. CASE i = 0
      BY <3>1, <1>5
    <3>2. CASE i # 0
      <4>1. i \in 1 .. n
        BY <3>2, <1>1
      <4>2. f[i] = Turn(f[i - 1], i)
        BY <4>1, <1>6
      <4> QED
        BY <4>2, <3>2
    <3> QED
      BY <3>1, <3>2
  <2> HIDE DEF n
  <2> QED
    BY <2>1, <1>5
<1> DEFINE g == CHOOSE h : Is(h)
<1>8. Is(g)
  BY <1>7
<1>9. GetLinkData(s, filled) = g[n]
  BY DEF GetLinkData, LinkAt, InFirst
<1> HIDE DEF g
<1>10. \A i \in 0 .. n : g[i] = IF i = 0 THEN <<>>
                          ELSE IF s[i] \in filled THEN Append(g[i - 1], LinkAt(s, i)) ELSE g[i - 1]
  <2> HIDE DEF n
  <2> QED
    BY <1>8
<1>11. g[0] = <<>>
  BY <1>1, <1>10
<1>12. \A i \in 1 .. n : i \in 0 .. n /\ i # 0
  BY <1>1
<1>13. GoesThrough(g, s, filled)
  <2>1. \A i \in 1 .. n : g[i] = IF s[i] \in filled THEN Append(g[i - 1], LinkAt(s, i)) ELSE g[i - 1]
    BY <1>10, <1>12
  <2> QED
    BY <1>11, <2>1 DEF GoesThrough
<1> QED
  BY <1>9, <1>13

(* The dummy in the list changes nothing of what it finds.                   *)
LEMMA DummyIsNoLink ==
  ASSUME NEW s \in Seq(Elems), NEW p \in 1 .. Len(s) + 1, NEW filled, Dummy \notin filled
  PROVE  GetLinkData(InsertAt(s, p, Dummy), filled) = GetLinkData(s, filled)
<1> DEFINE new == InsertAt(s, p, Dummy)
           n == Len(s)
<1>1. n \in Nat /\ p \in 1 .. n + 1 /\ p \in Nat /\ 1 <= p /\ p <= n + 1 /\ Dummy \in Elems
  BY DEF Elems
<1>2. /\ new \in Seq(Elems) /\ Len(new) = n + 1
      /\ \A i \in 1 .. p - 1 : new[i] = s[i]
      /\ new[p] = Dummy
      /\ \A i \in p .. n : new[i + 1] = s[i]
  BY <1>1, PutAt
<1>3. PICK f : GoesThrough(f, s, filled) /\ GetLinkData(s, filled) = f[n]
  BY LinkTurns
<1> HIDE DEF new, n
<1>4. PICK g : GoesThrough(g, new, filled) /\ GetLinkData(new, filled) = g[n + 1]
  BY <1>2, LinkTurns
<1>5. /\ f[0] = <<>> /\ g[0] = <<>>
      /\ \A i \in 1 .. n : f[i] = IF s[i] \in filled THEN Append(f[i - 1], LinkAt(s, i)) ELSE f[i - 1]
      /\ \A i \in 1 .. n + 1 :
           g[i] = IF new[i] \in filled THEN Append(g[i - 1], LinkAt(new, i)) ELSE g[i - 1]
  BY <1>2, <1>3, <1>4 DEF GoesThrough, n
<1>6. ASSUME NEW i \in 1 .. n, i < p PROVE LinkAt(new, i) = LinkAt(s, i)
  <2>1. \A j \in 1 .. i : new[j] = s[j]
    BY <1>1, <1>2, <1>6
  <2>2. InFirst(new, i) = InFirst(s, i)
    BY <2>1, Zenon DEF InFirst
  <2>3. new[i] = s[i]
    BY <1>6, <2>1
  <2> QED
    BY <2>2, <2>3, Zenon DEF LinkAt
<1>7. ASSUME NEW i \in 1 .. n, p <= i PROVE LinkAt(new, i + 1) = LinkAt(s, i)
  <2>1. InFirst(new, i + 1) => InFirst(s, i)
    <3> SUFFICES ASSUME InFirst(new, i + 1), NEW j \in 1 .. i PROVE s[j] # Secondary
      BY DEF InFirst
    <3>1. CASE j < p
      BY <3>1, <1>1, <1>2 DEF InFirst
    <3>2. CASE p <= j
      <4>1. j + 1 \in 1 .. i + 1 /\ new[j + 1] = s[j]
        BY <3>2, <1>1, <1>2
      <4> QED
        BY <4>1 DEF InFirst
    <3> QED
      BY <3>1, <3>2, <1>1
  <2>2. InFirst(s, i) => InFirst(new, i + 1)
    <3> SUFFICES ASSUME InFirst(s, i), NEW j \in 1 .. i + 1 PROVE new[j] # Secondary
      BY DEF InFirst
    <3>1. CASE j < p
      BY <3>1, <1>1, <1>2, <1>7 DEF InFirst
    <3>2. CASE p < j
      <4>1. j - 1 \in 1 .. i /\ j - 1 \in p .. n /\ (j - 1) + 1 = j
        BY <3>2, <1>1
      <4>2. new[j] = s[j - 1]
        BY <4>1, <1>2
      <4> QED
        BY <4>1, <4>2 DEF InFirst
    <3>3. CASE j = p
      BY <3>3, <1>2, Titles
    <3> QED
      BY <3>1, <3>2, <3>3, <1>1
  <2>3. InFirst(new, i + 1) = InFirst(s, i)
    <3>1. InFirst(new, i + 1) \in BOOLEAN /\ InFirst(s, i) \in BOOLEAN
      BY DEF InFirst
    <3> QED
      BY <2>1, <2>2, <3>1
  <2>4. new[i + 1] = s[i]
    BY <1>1, <1>2, <1>7
  <2> QED
    BY <2>3, <2>4, Zenon DEF LinkAt
<1> DEFINE Same(i) == IF i < p THEN g[i] = f[i] ELSE g[i] = f[i - 1]
           G == {i \in Nat : Same(i)}
<1>8. 0 \in G
  BY <1>1, <1>5
<1>9. ASSUME NEW i \in 0 .. n, i \in G PROVE i + 1 \in G
  <2>1. i \in Nat /\ i <= n /\ i + 1 \in 1 .. n + 1 /\ i + 1 - 1 = i /\ (i + 1) - 1 = i
    BY <1>1
  <2>2. g[i + 1] = IF new[i + 1] \in filled THEN Append(g[i], LinkAt(new, i + 1)) ELSE g[i]
    BY <1>5, <2>1
  <2>3. CASE i + 1 < p
    <3>1. i + 1 \in 1 .. n /\ i < p
      BY <2>1, <2>3, <1>1
    <3>2. g[i] = f[i]
      BY <1>9, <3>1
    <3>3. f[i + 1] = IF s[i + 1] \in filled THEN Append(f[i], LinkAt(s, i + 1)) ELSE f[i]
      BY <1>5, <2>1, <3>1
    <3>4. new[i + 1] = s[i + 1] /\ LinkAt(new, i + 1) = LinkAt(s, i + 1)
      BY <1>1, <1>2, <1>6, <2>3, <3>1
    <3>5. g[i + 1] = f[i + 1]
      BY <2>2, <3>2, <3>3, <3>4
    <3> QED
      BY <2>1, <2>3, <3>5
  <2>4. CASE i + 1 = p
    <3>1. i < p /\ new[i + 1] \notin filled
      BY <2>1, <2>4, <1>2
    <3>2. g[i] = f[i]
      BY <1>9, <3>1
    <3>3. g[i + 1] = f[i]
      BY <2>2, <3>1, <3>2
    <3>4. ~(i + 1 < p)
      BY <2>1, <2>4
    <3> QED
      BY <2>1, <3>3, <3>4
  <2>5. CASE p < i + 1
    <3>1. i \in 1 .. n /\ p <= i /\ ~(i < p) /\ ~(i + 1 < p)
      BY <2>1, <2>5, <1>1
    <3>2. g[i] = f[i - 1]
      BY <1>9, <3>1
    <3>3. f[i] = IF s[i] \in filled THEN Append(f[i - 1], LinkAt(s, i)) ELSE f[i - 1]
      BY <1>5, <3>1
    <3>4. new[i + 1] = s[i] /\ LinkAt(new, i + 1) = LinkAt(s, i)
      BY <1>1, <1>2, <1>7, <3>1
    <3>5. g[i + 1] = f[i]
      BY <2>2, <3>2, <3>3, <3>4
    <3> QED
      BY <2>1, <3>1, <3>5
  <2> QED
    BY <2>1, <2>3, <2>4, <2>5, <1>1
<1>10. n + 1 \in G
  <2> HIDE DEF G
  <2>1. \A i \in 0 .. n + 1 : i \in G
    <3> DEFINE m == n + 1
    <3>1. m \in Nat
      BY <1>1
    <3>2. \A i \in 0 .. m - 1 : i \in G => i + 1 \in G
      <4>1. \A i \in 0 .. m - 1 : i \in 0 .. n
        BY <1>1
      <4> HIDE DEF m
      <4> QED
        BY <1>9, <4>1
    <3> HIDE DEF m
    <3>3. \A i \in 0 .. m : i \in G
      BY <1>8, <3>1, <3>2, UpTo
    <3> QED
      BY <3>3 DEF m
  <2> QED
    BY <2>1, <1>1
<1>11. g[n + 1] = f[n]
  <2>1. ~(n + 1 < p) /\ (n + 1) - 1 = n
    BY <1>1
  <2> QED
    BY <1>10, <2>1
<1> QED
  BY <1>3, <1>4, <1>11 DEF new

(* So nothing the list has is lost or comes twice, nor anything comes in     *)
(* (SameRows), what was sent and is shown is the list, and a dummy is in it  *)
(* during a drag.                                                            *)
SameRows ==
  /\ live \subseteq Rows /\ hasUrl \subseteq Rows
  /\ live \subseteq ToSet(kids)
  /\ ToSet(kids) \cap Rows \subseteq live \cup ghosts

DragFollowed ==
  /\ drag = NoRow \/ drag \in Rows \cap (live \cup ghosts)
  /\ Dummy \in ToSet(kids) <=> drag # NoRow

ListIsSent ==
  /\ linksJSON \in {<<>>, GetLinkData(kids, hasUrl)}
  /\ shownLinks = GetLinkData(kids, hasUrl)

LinksInv == ListOf(kids) /\ Filled(kids) /\ SameRows /\ DragFollowed /\ ListIsSent

LEMMA ListFilled ==
  ASSUME NEW s, ListOf(s), ListBecomes(s)
  PROVE  /\ ListOf(kids') /\ Filled(kids') /\ ListIsSent'
         /\ \A e : e # EmptySection => (e \in ToSet(kids') <=> e \in ToSet(s))
<1>1. kids' = EnsurePlaceholders(s) /\ LinksUpdated
  BY DEF ListBecomes
<1>2. ListOf(kids') /\ Filled(kids') /\ ToSet(kids') \ {EmptySection} = ToSet(s) \ {EmptySection}
  BY <1>1, PlaceholdersFit
<1>3. \A e : e # EmptySection => (e \in ToSet(kids') <=> e \in ToSet(s))
  BY <1>2
<1>4. ListIsSent'
  BY <1>1 DEF LinksUpdated, UpdateLinkPreviews, ListIsSent
<1> QED
  BY <1>2, <1>3, <1>4

LEMMA AddLinkStep == ASSUME LinksInv, NEW row \in Rows, AddLink(row) PROVE LinksInv'
<1> USE DEF LinksInv, SameRows, DragFollowed
<1> DEFINE s == Before(kids, Secondary, row)
<1>1. /\ row \notin live \cup ToSet(kids) \cup ghosts
      /\ live' = live \cup {row}
      /\ hasUrl' = hasUrl /\ drag' = drag /\ ghosts' = ghosts
      /\ ListBecomes(s)
  BY DEF AddLink
<1>2. ListOf(s) /\ ToSet(s) = ToSet(kids) \cup {row}
  <2>1. Secondary \in ToSet(kids) /\ Secondary # Primary /\ row \in Elems /\ row \notin ToSet(kids)
    BY <1>1, Titles DEF ListOf, Elems
  <2> QED
    BY <2>1, PutBefore
<1> HIDE DEF s
<1>3. /\ ListOf(kids') /\ Filled(kids') /\ ListIsSent'
      /\ \A e : e # EmptySection => (e \in ToSet(kids') <=> e \in ToSet(s))
  BY <1>1, <1>2, ListFilled
<1>4. \A e \in Rows \cup {Dummy} : e \in ToSet(kids') <=> e \in ToSet(kids) \/ e = row
  BY <1>2, <1>3, Titles
<1>5. SameRows' /\ DragFollowed'
  BY <1>1, <1>4, Titles
<1> QED
  BY <1>3, <1>5

LEMMA DeleteLinkStep == ASSUME LinksInv, NEW row \in Rows, DeleteLink(row) PROVE LinksInv'
<1> USE DEF LinksInv, SameRows, DragFollowed
<1> DEFINE s == Without(kids, row)
<1>1. /\ live' = live \ {row}
      /\ ghosts' = IF row = drag THEN ghosts \cup {row} ELSE ghosts
      /\ hasUrl' = hasUrl /\ drag' = drag
      /\ ListBecomes(s)
  BY DEF DeleteLink
<1>2. ListOf(s) /\ ToSet(s) = ToSet(kids) \ {row}
  BY TakenOut, Titles
<1> HIDE DEF s
<1>3. /\ ListOf(kids') /\ Filled(kids') /\ ListIsSent'
      /\ \A e : e # EmptySection => (e \in ToSet(kids') <=> e \in ToSet(s))
  BY <1>1, <1>2, ListFilled
<1>4. \A e \in Rows \cup {Dummy} : e \in ToSet(kids') <=> e \in ToSet(kids) /\ e # row
  BY <1>2, <1>3, Titles
<1>5. SameRows' /\ DragFollowed'
  BY <1>1, <1>4, Titles
<1> QED
  BY <1>3, <1>5

LEMMA LinkInputStep == ASSUME LinksInv, NEW row \in Rows, LinkInput(row) PROVE LinksInv'
<1>1. /\ hasUrl' \subseteq Rows
      /\ kids' = kids /\ drag' = drag /\ live' = live /\ ghosts' = ghosts
      /\ LinksUpdated
  BY DEF LinkInput, SymDiff, LinksInv, SameRows
<1>2. ListIsSent'
  BY <1>1 DEF LinksUpdated, UpdateLinkPreviews, ListIsSent
<1> QED
  BY <1>1, <1>2 DEF LinksInv, SameRows, DragFollowed

(* The dummy goes in where the row is, without a word to the list.           *)
LEMMA StartDragStep == ASSUME LinksInv, NEW row \in Rows, StartDrag(row) PROVE LinksInv'
<1> USE DEF LinksInv, SameRows, DragFollowed
<1>1. /\ drag = NoRow /\ Contains(kids, row) /\ drag' = row
      /\ kids' = Before(kids, row, Dummy)
      /\ hasUrl' = hasUrl /\ linksJSON' = linksJSON /\ shownLinks' = shownLinks
      /\ live' = live /\ ghosts' = ghosts
  BY DEF StartDrag
<1> DEFINE p == Position(row, kids)
           sp == Position(Secondary, kids)
           sq == Position(Secondary, kids')
<1>2. kids \in Seq(Elems) /\ row \in ToSet(kids) /\ Dummy \notin ToSet(kids) /\ Dummy \in Elems
      /\ row # Primary
  <2>1. kids \in Seq(Elems)
    BY DEF ListOf
  <2>2. row \in ToSet(kids)
    BY <1>1, <2>1, InList
  <2> QED
    BY <1>1, <2>1, <2>2, Titles DEF Elems
<1>3. p \in 2 .. Len(kids) + 1 /\ p \in 1 .. Len(kids) + 1 /\ p \in Nat
  BY <1>2, PositionOf
<1>4. kids' = InsertAt(kids, p, Dummy)
  BY <1>1 DEF Before
<1>5. ListOf(kids') /\ ToSet(kids') = ToSet(kids) \cup {Dummy}
  BY <1>1, <1>2, PutBefore
<1>6. Filled(kids')
  <2>1. /\ kids'[p] = Dummy
        /\ PutAmong(kids, 1 .. sp, kids', 1 .. sq, p)
        /\ PutAmong(kids, sp .. Len(kids), kids', sq .. Len(kids'), p)
        /\ sp \in 2 .. Len(kids) /\ Len(kids) \in Nat
    BY <1>2, <1>3, <1>4, Titles, PutSides
  <2>2. 1 .. sp \in SUBSET Nat /\ sp .. Len(kids) \in SUBSET Nat
    <3> HIDE DEF sp
    <3> QED
      BY <2>1
  <2>3. OnePlaceholder(kids, 1 .. sp) /\ OnePlaceholder(kids, sp .. Len(kids))
    BY DEF Filled
  <2>4. Dummy \notin Rows \cup {EmptySection}
    BY Titles
  <2> HIDE DEF p, sp, sq
  <2>5. OnePlaceholder(kids', 1 .. sq)
    BY <1>3, <2>1, <2>2, <2>3, <2>4, OneKept
  <2>6. OnePlaceholder(kids', sq .. Len(kids'))
    BY <1>3, <2>1, <2>2, <2>3, <2>4, OneKept
  <2> QED
    BY <2>5, <2>6 DEF Filled, sq
<1>7. ListIsSent'
  <2>1. Dummy \notin hasUrl
    BY Titles
  <2>2. GetLinkData(kids', hasUrl) = GetLinkData(kids, hasUrl)
    <3> HIDE DEF p
    <3> QED
      BY <1>2, <1>3, <1>4, <2>1, DummyIsNoLink
  <2> QED
    BY <1>1, <2>2 DEF ListIsSent
<1>8. SameRows' /\ DragFollowed'
  BY <1>1, <1>2, <1>5, Titles
<1> QED
  BY <1>5, <1>6, <1>7, <1>8

(* The row goes with the dummy to another place.                             *)
LEMMA DoDragStep ==
  ASSUME LinksInv, NEW closest \in Items, NEW before \in BOOLEAN, DoDrag(closest, before)
  PROVE  LinksInv'
<1> USE DEF LinksInv, SameRows, DragFollowed
<1> DEFINE rest == Without(Without(kids, Dummy), drag)
           moved == IF before THEN Before(rest, closest, Dummy) ELSE After(rest, closest, Dummy)
           s == Before(moved, Dummy, drag)
<1>1. /\ drag # NoRow /\ closest # drag /\ Contains(kids, closest)
      /\ hasUrl' = hasUrl /\ drag' = drag /\ live' = live /\ ghosts' = ghosts
      /\ ListBecomes(s)
  BY DEF DoDrag
<1>2. drag \in Rows /\ drag \in Elems /\ Dummy \in Elems /\ closest \in Rows \cup {Secondary}
  BY <1>1 DEF Elems, Items
<1>3. ListOf(rest) /\ ToSet(rest) = ToSet(kids) \ {Dummy, drag}
  <2>1. ListOf(Without(kids, Dummy)) /\ ToSet(Without(kids, Dummy)) = ToSet(kids) \ {Dummy}
    BY TakenOut, Titles
  <2>2. ListOf(rest) /\ ToSet(rest) = ToSet(Without(kids, Dummy)) \ {drag}
    BY <1>2, <2>1, TakenOut, Titles
  <2> QED
    BY <2>1, <2>2
<1> HIDE DEF rest
<1>4. closest \in ToSet(rest) /\ closest # Primary /\ Dummy \notin ToSet(rest)
  <2>1. kids \in Seq(Elems)
    BY DEF ListOf
  <2>2. closest \in ToSet(kids)
    BY <1>1, <2>1, InList
  <2> QED
    BY <1>1, <1>2, <1>3, <2>2, Titles
<1>5. ListOf(moved) /\ ToSet(moved) = ToSet(rest) \cup {Dummy}
  <2>1. CASE before
    BY <2>1, <1>2, <1>3, <1>4, PutBefore
  <2>2. CASE ~before
    BY <2>2, <1>2, <1>3, <1>4, PutAfter
  <2> QED
    BY <2>1, <2>2
<1> HIDE DEF moved
<1>6. ListOf(s) /\ ToSet(s) = ToSet(moved) \cup {drag}
  <2>1. Dummy \in ToSet(moved) /\ Dummy # Primary /\ drag \notin ToSet(moved)
    BY <1>2, <1>3, <1>5, Titles
  <2> QED
    BY <1>2, <1>5, <2>1, PutBefore
<1> HIDE DEF s
<1>7. /\ ListOf(kids') /\ Filled(kids') /\ ListIsSent'
      /\ \A e : e # EmptySection => (e \in ToSet(kids') <=> e \in ToSet(s))
  BY <1>1, <1>6, ListFilled
<1>8. \A e \in Rows \cup {Dummy} : e \in ToSet(kids') <=> e \in ToSet(kids) \cup {Dummy, drag}
  BY <1>3, <1>5, <1>6, <1>7, Titles
<1>9. SameRows' /\ DragFollowed'
  BY <1>1, <1>2, <1>8, Titles
<1> QED
  BY <1>7, <1>9

(* The row comes where the dummy is, which goes.                             *)
LEMMA EndDragStep == ASSUME LinksInv, EndDrag PROVE LinksInv'
<1> USE DEF LinksInv, SameRows, DragFollowed
<1> DEFINE rest == Without(kids, drag)
           moved == Before(rest, Dummy, drag)
           s == Without(moved, Dummy)
<1>1. /\ drag # NoRow /\ drag' = NoRow
      /\ hasUrl' = hasUrl /\ live' = live /\ ghosts' = ghosts
      /\ ListBecomes(s)
  BY DEF EndDrag
<1>2. drag \in Rows /\ drag \in Elems
  BY <1>1 DEF Elems
<1>3. ListOf(rest) /\ ToSet(rest) = ToSet(kids) \ {drag}
  BY <1>2, TakenOut, Titles
<1> HIDE DEF rest
<1>4. ListOf(moved) /\ ToSet(moved) = ToSet(rest) \cup {drag}
  <2>1. Dummy \in ToSet(rest) /\ Dummy # Primary /\ drag \notin ToSet(rest)
    BY <1>1, <1>2, <1>3, Titles
  <2> QED
    BY <1>2, <1>3, <2>1, PutBefore
<1> HIDE DEF moved
<1>5. ListOf(s) /\ ToSet(s) = ToSet(moved) \ {Dummy}
  BY <1>4, TakenOut, Titles
<1> HIDE DEF s
<1>6. /\ ListOf(kids') /\ Filled(kids') /\ ListIsSent'
      /\ \A e : e # EmptySection => (e \in ToSet(kids') <=> e \in ToSet(s))
  BY <1>1, <1>5, ListFilled
<1>7. \A e \in Rows \cup {Dummy} : e \in ToSet(kids') <=> e \in (ToSet(kids) \cup {drag}) \ {Dummy}
  BY <1>3, <1>4, <1>5, <1>6, Titles
<1>8. SameRows' /\ DragFollowed'
  BY <1>1, <1>2, <1>7, Titles
<1> QED
  BY <1>6, <1>8

LEMMA LinksStep == LinksInv /\ (LinksNext \/ UNCHANGED linkVars) => LinksInv'
<1> SUFFICES ASSUME LinksInv, LinksNext \/ UNCHANGED linkVars PROVE LinksInv'
  OBVIOUS
<1>1. CASE SubmitLinks
  BY <1>1 DEF SubmitLinks, LinksInv, SameRows, DragFollowed, ListIsSent
<1>2. CASE UNCHANGED linkVars
  BY <1>2 DEF linkVars, LinksInv, SameRows, DragFollowed, ListIsSent
<1> QED
  BY <1>1, <1>2, AddLinkStep, DeleteLinkStep, LinkInputStep, StartDragStep, DoDragStep, EndDragStep
     DEF LinksNext

(* Two lists that share nothing, one after the other.                        *)
LEMMA JoinedOnce ==
  ASSUME NEW S, NEW a \in Seq(S), NEW b \in Seq(S), OnlyOnce(a), OnlyOnce(b),
         ToSet(a) \cap ToSet(b) = {}
  PROVE  OnlyOnce(a \o b)
<1> DEFINE ab == a \o b
           n == Len(a)
           m == Len(b)
<1>1. /\ ab \in Seq(S) /\ Len(ab) = n + m /\ n \in Nat /\ m \in Nat
      /\ \A i \in 1 .. n : ab[i] = a[i]
      /\ \A i \in 1 .. m : ab[n + i] = b[i]
  BY JoinedTexts
<1>2. /\ \A i \in 1 .. n : a[i] \in ToSet(a)
      /\ \A i \in 1 .. m : b[i] \in ToSet(b)
  BY InList
<1> HIDE DEF ab
<1>3. ASSUME NEW j \in n + 1 .. n + m PROVE j - n \in 1 .. m /\ ab[j] = b[j - n]
  <2>1. j - n \in 1 .. m /\ n + (j - n) = j
    BY <1>1
  <2> QED
    BY <2>1, <1>1
<1> SUFFICES ASSUME NEW i \in 1 .. n + m, NEW j \in 1 .. n + m, ab[i] = ab[j], ab[i] # EmptySection
             PROVE  i = j
  BY <1>1 DEF OnlyOnce, ab
<1> USE DEF OnlyOnce
<1>4. \A k \in 1 .. n + m : k \in 1 .. n \/ k \in n + 1 .. n + m
  BY <1>1
<1>5. CASE i \in 1 .. n /\ j \in 1 .. n
  BY <1>5, <1>1
<1>6. CASE i \in n + 1 .. n + m /\ j \in n + 1 .. n + m
  <2>1. i - n = j - n
    BY <1>6, <1>3
  <2> QED
    BY <2>1, <1>1
<1>7. CASE i \in 1 .. n /\ j \in n + 1 .. n + m
  BY <1>7, <1>1, <1>2, <1>3
<1>8. CASE i \in n + 1 .. n + m /\ j \in 1 .. n
  BY <1>8, <1>1, <1>2, <1>3
<1> QED
  BY <1>4, <1>5, <1>6, <1>7, <1>8

LEMMA LinksStart == LinksInit => LinksInv
<1> SUFFICES ASSUME LinksInit PROVE LinksInv
  OBVIOUS
<1> DEFINE Sections == {s \in UNION {[1 .. n -> Rows] : n \in 0 .. MaxLinks} : IsInjective(s)}
<1>1. PICK primaries \in Sections, secondaries \in Sections :
        /\ ToSet(primaries) \cap ToSet(secondaries) = {}
        /\ kids = EnsurePlaceholders(<<Primary>> \o primaries \o <<Secondary>> \o secondaries)
        /\ live = ToSet(primaries) \cup ToSet(secondaries)
        /\ hasUrl = live
        /\ linksJSON = <<>>
        /\ shownLinks = GetLinkData(kids, hasUrl)
        /\ drag = NoRow
        /\ ghosts = {}
  BY DEF LinksInit
<1>2. ASSUME NEW s \in Sections PROVE s \in Seq(Elems) /\ ToSet(s) \subseteq Rows /\ OnlyOnce(s)
  <2>1. PICK n \in 0 .. MaxLinks : s \in [1 .. n -> Rows]
    OBVIOUS
  <2>2. n \in Nat
    BY LinksAssumption
  <2>3. s \in Seq(Rows) /\ IsInjective(s)
    BY <2>1, <2>2
  <2>4. s \in Seq(Elems)
    BY <2>3 DEF Elems
  <2>5. ToSet(s) \subseteq Rows
    BY <2>3, InList
  <2>6. OnlyOnce(s)
    BY <2>3 DEF OnlyOnce, IsInjective
  <2> QED
    BY <2>4, <2>5, <2>6
<1> HIDE DEF Sections
<1> DEFINE a == <<Primary>> \o primaries
           x == <<Secondary>>
           ax == a \o x
           list == ax \o secondaries
<1>3. ASSUME NEW e \in Elems
      PROVE  <<e>> \in Seq(Elems) /\ ToSet(<<e>>) = {e} /\ OnlyOnce(<<e>>) /\ Len(<<e>>) = 1 /\ <<e>>[1] = e
  <2>1. <<e>> \in Seq(Elems) /\ Len(<<e>>) = 1 /\ <<e>>[1] = e
    OBVIOUS
  <2>2. \A i \in 1 .. Len(<<e>>) : i = 1
    BY <2>1
  <2>3. OnlyOnce(<<e>>)
    BY <2>2 DEF OnlyOnce
  <2>4. \A y : y \in ToSet(<<e>>) <=> y = e
    <3>1. 1 \in 1 .. Len(<<e>>)
      BY <2>1
    <3> QED
      BY <2>1, <2>2, <3>1, InList
  <2>5. ToSet(<<e>>) = {e}
    BY <2>4
  <2> QED
    BY <2>1, <2>3, <2>5
<1>4. Primary \in Elems /\ Secondary \in Elems
  BY DEF Elems
<1>5. a \in Seq(Elems) /\ ToSet(a) = {Primary} \cup ToSet(primaries) /\ OnlyOnce(a) /\ 1 <= Len(a)
      /\ a[1] = Primary /\ Len(a) \in Nat
  <2> DEFINE t1 == <<Primary>>
  <2>1. /\ t1 \in Seq(Elems) /\ ToSet(t1) = {Primary} /\ OnlyOnce(t1) /\ Len(t1) = 1 /\ t1[1] = Primary
        /\ primaries \in Seq(Elems) /\ OnlyOnce(primaries) /\ ToSet(t1) \cap ToSet(primaries) = {}
    BY <1>2, <1>3, <1>4, Titles
  <2> HIDE DEF t1
  <2>2. OnlyOnce(t1 \o primaries)
    BY <2>1, JoinedOnce
  <2>3. /\ t1 \o primaries \in Seq(Elems) /\ Len(t1 \o primaries) = Len(t1) + Len(primaries)
        /\ Len(primaries) \in Nat
        /\ \A i \in 1 .. Len(t1) : (t1 \o primaries)[i] = t1[i]
        /\ ToSet(t1 \o primaries) = ToSet(t1) \cup ToSet(primaries)
    BY <2>1, JoinedTexts
  <2>4. (t1 \o primaries)[1] = Primary
    BY <2>1, <2>3
  <2> QED
    BY <2>1, <2>2, <2>3, <2>4 DEF t1
<1> HIDE DEF a
<1>6. ax \in Seq(Elems) /\ ToSet(ax) = ToSet(a) \cup {Secondary} /\ OnlyOnce(ax) /\ 1 <= Len(ax)
      /\ ax[1] = Primary /\ Len(ax) \in Nat
  <2>1. x \in Seq(Elems) /\ ToSet(x) = {Secondary} /\ OnlyOnce(x) /\ Len(x) = 1
    BY <1>3, <1>4
  <2>2. ToSet(a) \cap ToSet(x) = {}
    BY <1>2, <1>5, <2>1, Titles
  <2> HIDE DEF x
  <2>3. OnlyOnce(ax)
    BY <1>5, <2>1, <2>2, JoinedOnce
  <2>4. /\ ax \in Seq(Elems) /\ Len(ax) = Len(a) + Len(x)
        /\ \A i \in 1 .. Len(a) : ax[i] = a[i]
        /\ ToSet(ax) = ToSet(a) \cup ToSet(x)
    BY <1>5, <2>1, JoinedTexts
  <2> HIDE DEF ax
  <2> QED
    BY <1>5, <2>1, <2>3, <2>4
<1> HIDE DEF ax
<1>7. list \in Seq(Elems) /\ ToSet(list) = ToSet(ax) \cup ToSet(secondaries) /\ OnlyOnce(list)
      /\ 1 <= Len(list) /\ list[1] = Primary
  <2>1. secondaries \in Seq(Elems) /\ OnlyOnce(secondaries) /\ ToSet(ax) \cap ToSet(secondaries) = {}
    BY <1>1, <1>2, <1>5, <1>6, Titles
  <2>2. OnlyOnce(list)
    BY <1>6, <2>1, JoinedOnce
  <2>3. /\ list \in Seq(Elems) /\ Len(list) = Len(ax) + Len(secondaries)
        /\ Len(secondaries) \in Nat
        /\ \A i \in 1 .. Len(ax) : list[i] = ax[i]
        /\ ToSet(list) = ToSet(ax) \cup ToSet(secondaries)
    BY <1>6, <2>1, JoinedTexts
  <2> HIDE DEF list
  <2> QED
    BY <1>6, <2>2, <2>3
<1>8. kids = EnsurePlaceholders(list)
  BY <1>1 DEF a, ax
<1> HIDE DEF list
<1>9. ListOf(list)
  BY <1>6, <1>7 DEF ListOf
<1>10. /\ ListOf(kids) /\ Filled(kids)
       /\ ToSet(kids) \ {EmptySection} = ToSet(list) \ {EmptySection}
  BY <1>8, <1>9, PlaceholdersFit
<1>11. live \subseteq Rows
  BY <1>1, <1>2
<1>12. ToSet(list) = live \cup {Primary, Secondary}
  BY <1>1, <1>5, <1>6, <1>7
<1>13. \A e \in Rows \cup {Dummy} : e \in ToSet(kids) <=> e \in live
  BY <1>10, <1>12, Titles
<1>14. SameRows /\ DragFollowed /\ ListIsSent
  BY <1>1, <1>11, <1>13, Titles DEF SameRows, DragFollowed, ListIsSent
<1> QED
  BY <1>10, <1>14 DEF LinksInv

LEMMA LinksAreSound == LinksInv => LinksSound
<1> SUFFICES ASSUME LinksInv PROVE LinksSound
  OBVIOUS
<1> USE DEF LinksInv
<1> DEFINE split == Position(Secondary, kids)
           rowsOf(from, to) == {i \in from .. to : kids[i] \in Rows}
           emptyOf(from, to) == {i \in from .. to : kids[i] = EmptySection}
<1>1. kids \in Seq(Elems) /\ OnlyOnce(kids) /\ kids[1] = Primary
  BY DEF ListOf
<1>2. DOMAIN kids = 1 .. Len(kids) /\ \A e : Contains(kids, e) <=> e \in ToSet(kids)
  BY <1>1, InList
<1>3. \A i, j \in DOMAIN kids : kids[i] = kids[j] /\ kids[i] # EmptySection => i = j
  BY <1>1, <1>2 DEF OnlyOnce
<1>4. ASSUME NEW from, NEW to, OnePlaceholder(kids, from .. to)
      PROVE  Cardinality(emptyOf(from, to)) = IF rowsOf(from, to) = {} THEN 1 ELSE 0
  <2>1. CASE rowsOf(from, to) # {}
    <3>1. emptyOf(from, to) = {}
      BY <2>1, <1>4 DEF OnePlaceholder
    <3> QED
      BY <2>1, <3>1, FS_EmptySet
  <2>2. CASE rowsOf(from, to) = {}
    <3>1. PICK i \in from .. to : \A j \in from .. to : kids[j] = EmptySection <=> j = i
      BY <2>2, <1>4 DEF OnePlaceholder
    <3>2. emptyOf(from, to) = {i}
      BY <3>1
    <3> QED
      BY <2>2, <3>2, FS_Singleton
  <2> QED
    BY <2>1, <2>2
<1>5. \A side \in {<<1, split>>, <<split, Len(kids)>>} :
        Cardinality(emptyOf(side[1], side[2])) = IF rowsOf(side[1], side[2]) = {} THEN 1 ELSE 0
  <2>1. OnePlaceholder(kids, 1 .. split) /\ OnePlaceholder(kids, split .. Len(kids))
    BY DEF Filled
  <2> HIDE DEF split, emptyOf, rowsOf
  <2>2. /\ Cardinality(emptyOf(1, split)) = IF rowsOf(1, split) = {} THEN 1 ELSE 0
        /\ Cardinality(emptyOf(split, Len(kids))) = IF rowsOf(split, Len(kids)) = {} THEN 1 ELSE 0
    BY <1>4, <2>1
  <2> QED
    BY <2>2
<1>6. /\ live \subseteq ToSet(kids)
      /\ ToSet(kids) \cap Rows \subseteq live \cup ghosts
      /\ Contains(kids, Dummy) <=> drag # NoRow
      /\ linksJSON \in {<<>>, GetLinkData(kids, hasUrl)}
      /\ shownLinks = GetLinkData(kids, hasUrl)
  BY <1>2 DEF SameRows, DragFollowed, ListIsSent
<1> QED
  BY <1>1, <1>3, <1>5, <1>6 DEF LinksSound

-----------------------------------------------------------------------------
(*****************************************************************************)
(* The name in the header.  The four characters of three bytes have their    *)
(* bits, one after the other.                                                *)
(*****************************************************************************)
Word(a, b, c) == a * 65536 + b * 256 + c

LEMMA SextetsOf ==
  ASSUME NEW a \in 0 .. 255, NEW b \in 0 .. 255, NEW c \in 0 .. 255
  PROVE  Sextets(Word(a, b, c))
           = <<a \div 4, 16 * (a % 4) + b \div 16, 4 * (b % 16) + c \div 64, c % 64>>
<1> DEFINE w == a * 65536 + b * 256 + c
           a1 == a \div 4  a0 == a % 4
           b1 == b \div 16  b0 == b % 16
           c1 == c \div 64  c0 == c % 64
<1>1. a = 4 * a1 + a0 /\ a1 \in 0 .. 63 /\ a0 \in 0 .. 3
  OBVIOUS
<1>2. b = 16 * b1 + b0 /\ b1 \in 0 .. 15 /\ b0 \in 0 .. 15
  OBVIOUS
<1>3. c = 64 * c1 + c0 /\ c1 \in 0 .. 3 /\ c0 \in 0 .. 63
  OBVIOUS
<1>4. w = 262144 * a1 + 65536 * a0 + 4096 * b1 + 256 * b0 + 64 * c1 + c0
  <2> HIDE DEF a1, a0, b1, b0, c1, c0
  <2> QED
    BY <1>1, <1>2, <1>3
<1> HIDE DEF w, a1, a0, b1, b0, c1, c0
<1>5. w \div 262144 = a1
  BY <1>1, <1>2, <1>3, <1>4
<1>6. (w \div 4096) % 64 = 16 * a0 + b1
  <2>1. w \div 4096 = 64 * a1 + 16 * a0 + b1
    BY <1>1, <1>2, <1>3, <1>4
  <2> QED
    BY <2>1, <1>1, <1>2
<1>7. (w \div 64) % 64 = 4 * b0 + c1
  <2>1. w \div 64 = 4096 * a1 + 1024 * a0 + 64 * b1 + 4 * b0 + c1
    BY <1>1, <1>2, <1>3, <1>4
  <2> QED
    BY <2>1, <1>1, <1>2, <1>3
<1>8. w % 64 = c0
  BY <1>1, <1>2, <1>3, <1>4
<1> QED
  BY <1>5, <1>6, <1>7, <1>8 DEF Sextets, Word, w, a1, a0, b1, b0, c1, c0

(* Bit o of the four is bit o of the three, counted from 0.                  *)
LEMMA SextetBits ==
  ASSUME NEW a \in 0 .. 255, NEW b \in 0 .. 255, NEW c \in 0 .. 255, NEW o \in 0 .. 23
  PROVE  Bit(Sextets(Word(a, b, c))[(o \div 6) + 1], 6, (o % 6) + 1)
           = Bit(<<a, b, c>>[(o \div 8) + 1], 8, (o % 8) + 1)
<1> DEFINE p == 16 * (a % 4) + b \div 16
           q == 4 * (b % 16) + c \div 64
           a1 == a \div 4
           c0 == c % 64
           four == <<a1, p, q, c0>>
           three == <<a, b, c>>
<1>0. Sextets(Word(a, b, c)) = four
  BY SextetsOf
<1>1. /\ four[1] = a1 /\ four[2] = p /\ four[3] = q /\ four[4] = c0
      /\ three[1] = a /\ three[2] = b /\ three[3] = c
      /\ a1 \in Nat /\ p \in Nat /\ q \in Nat /\ c0 \in Nat
      /\ a \in Nat /\ b \in Nat /\ c \in Nat
  OBVIOUS
<1>2. (a1 \div 32) % 2 = (a \div 128) % 2
  OBVIOUS
<1>3. (a1 \div 16) % 2 = (a \div 64) % 2
  OBVIOUS
<1>4. (a1 \div 8) % 2 = (a \div 32) % 2
  OBVIOUS
<1>5. (a1 \div 4) % 2 = (a \div 16) % 2
  OBVIOUS
<1>6. (a1 \div 2) % 2 = (a \div 8) % 2
  OBVIOUS
<1>7. (a1 \div 1) % 2 = (a \div 4) % 2
  OBVIOUS
<1>8. (p \div 32) % 2 = (a \div 2) % 2
  OBVIOUS
<1>9. (p \div 16) % 2 = (a \div 1) % 2
  OBVIOUS
<1>10. (p \div 8) % 2 = (b \div 128) % 2
  OBVIOUS
<1>11. (p \div 4) % 2 = (b \div 64) % 2
  OBVIOUS
<1>12. (p \div 2) % 2 = (b \div 32) % 2
  OBVIOUS
<1>13. (p \div 1) % 2 = (b \div 16) % 2
  OBVIOUS
<1>14. (q \div 32) % 2 = (b \div 8) % 2
  OBVIOUS
<1>15. (q \div 16) % 2 = (b \div 4) % 2
  OBVIOUS
<1>16. (q \div 8) % 2 = (b \div 2) % 2
  OBVIOUS
<1>17. (q \div 4) % 2 = (b \div 1) % 2
  OBVIOUS
<1>18. (q \div 2) % 2 = (c \div 128) % 2
  OBVIOUS
<1>19. (q \div 1) % 2 = (c \div 64) % 2
  OBVIOUS
<1>20. (c0 \div 32) % 2 = (c \div 32) % 2
  OBVIOUS
<1>21. (c0 \div 16) % 2 = (c \div 16) % 2
  OBVIOUS
<1>22. (c0 \div 8) % 2 = (c \div 8) % 2
  OBVIOUS
<1>23. (c0 \div 4) % 2 = (c \div 4) % 2
  OBVIOUS
<1>24. (c0 \div 2) % 2 = (c \div 2) % 2
  OBVIOUS
<1>25. (c0 \div 1) % 2 = (c \div 1) % 2
  OBVIOUS
<1> HIDE DEF four, three, p, q, a1, c0
<1> DEFINE Same(j) == Bit(four[(j \div 6) + 1], 6, (j % 6) + 1) = Bit(three[(j \div 8) + 1], 8, (j % 8) + 1)
<1>26. Same(0)
  <2>1. /\ (0 \div 6) + 1 = 1 /\ (0 % 6) + 1 = 1 /\ 2 ^ (6 - 1) = 32
        /\ (0 \div 8) + 1 = 1 /\ (0 % 8) + 1 = 1 /\ 2 ^ (8 - 1) = 128
    OBVIOUS
  <2> QED
    BY <1>1, <1>2, <2>1 DEF Bit
<1>27. Same(1)
  <2>1. /\ (1 \div 6) + 1 = 1 /\ (1 % 6) + 1 = 2 /\ 2 ^ (6 - 2) = 16
        /\ (1 \div 8) + 1 = 1 /\ (1 % 8) + 1 = 2 /\ 2 ^ (8 - 2) = 64
    OBVIOUS
  <2> QED
    BY <1>1, <1>3, <2>1 DEF Bit
<1>28. Same(2)
  <2>1. /\ (2 \div 6) + 1 = 1 /\ (2 % 6) + 1 = 3 /\ 2 ^ (6 - 3) = 8
        /\ (2 \div 8) + 1 = 1 /\ (2 % 8) + 1 = 3 /\ 2 ^ (8 - 3) = 32
    OBVIOUS
  <2> QED
    BY <1>1, <1>4, <2>1 DEF Bit
<1>29. Same(3)
  <2>1. /\ (3 \div 6) + 1 = 1 /\ (3 % 6) + 1 = 4 /\ 2 ^ (6 - 4) = 4
        /\ (3 \div 8) + 1 = 1 /\ (3 % 8) + 1 = 4 /\ 2 ^ (8 - 4) = 16
    OBVIOUS
  <2> QED
    BY <1>1, <1>5, <2>1 DEF Bit
<1>30. Same(4)
  <2>1. /\ (4 \div 6) + 1 = 1 /\ (4 % 6) + 1 = 5 /\ 2 ^ (6 - 5) = 2
        /\ (4 \div 8) + 1 = 1 /\ (4 % 8) + 1 = 5 /\ 2 ^ (8 - 5) = 8
    OBVIOUS
  <2> QED
    BY <1>1, <1>6, <2>1 DEF Bit
<1>31. Same(5)
  <2>1. /\ (5 \div 6) + 1 = 1 /\ (5 % 6) + 1 = 6 /\ 2 ^ (6 - 6) = 1
        /\ (5 \div 8) + 1 = 1 /\ (5 % 8) + 1 = 6 /\ 2 ^ (8 - 6) = 4
    OBVIOUS
  <2> QED
    BY <1>1, <1>7, <2>1 DEF Bit
<1>32. Same(6)
  <2>1. /\ (6 \div 6) + 1 = 2 /\ (6 % 6) + 1 = 1 /\ 2 ^ (6 - 1) = 32
        /\ (6 \div 8) + 1 = 1 /\ (6 % 8) + 1 = 7 /\ 2 ^ (8 - 7) = 2
    OBVIOUS
  <2> QED
    BY <1>1, <1>8, <2>1 DEF Bit
<1>33. Same(7)
  <2>1. /\ (7 \div 6) + 1 = 2 /\ (7 % 6) + 1 = 2 /\ 2 ^ (6 - 2) = 16
        /\ (7 \div 8) + 1 = 1 /\ (7 % 8) + 1 = 8 /\ 2 ^ (8 - 8) = 1
    OBVIOUS
  <2> QED
    BY <1>1, <1>9, <2>1 DEF Bit
<1>34. Same(8)
  <2>1. /\ (8 \div 6) + 1 = 2 /\ (8 % 6) + 1 = 3 /\ 2 ^ (6 - 3) = 8
        /\ (8 \div 8) + 1 = 2 /\ (8 % 8) + 1 = 1 /\ 2 ^ (8 - 1) = 128
    OBVIOUS
  <2> QED
    BY <1>1, <1>10, <2>1 DEF Bit
<1>35. Same(9)
  <2>1. /\ (9 \div 6) + 1 = 2 /\ (9 % 6) + 1 = 4 /\ 2 ^ (6 - 4) = 4
        /\ (9 \div 8) + 1 = 2 /\ (9 % 8) + 1 = 2 /\ 2 ^ (8 - 2) = 64
    OBVIOUS
  <2> QED
    BY <1>1, <1>11, <2>1 DEF Bit
<1>36. Same(10)
  <2>1. /\ (10 \div 6) + 1 = 2 /\ (10 % 6) + 1 = 5 /\ 2 ^ (6 - 5) = 2
        /\ (10 \div 8) + 1 = 2 /\ (10 % 8) + 1 = 3 /\ 2 ^ (8 - 3) = 32
    OBVIOUS
  <2> QED
    BY <1>1, <1>12, <2>1 DEF Bit
<1>37. Same(11)
  <2>1. /\ (11 \div 6) + 1 = 2 /\ (11 % 6) + 1 = 6 /\ 2 ^ (6 - 6) = 1
        /\ (11 \div 8) + 1 = 2 /\ (11 % 8) + 1 = 4 /\ 2 ^ (8 - 4) = 16
    OBVIOUS
  <2> QED
    BY <1>1, <1>13, <2>1 DEF Bit
<1>38. Same(12)
  <2>1. /\ (12 \div 6) + 1 = 3 /\ (12 % 6) + 1 = 1 /\ 2 ^ (6 - 1) = 32
        /\ (12 \div 8) + 1 = 2 /\ (12 % 8) + 1 = 5 /\ 2 ^ (8 - 5) = 8
    OBVIOUS
  <2> QED
    BY <1>1, <1>14, <2>1 DEF Bit
<1>39. Same(13)
  <2>1. /\ (13 \div 6) + 1 = 3 /\ (13 % 6) + 1 = 2 /\ 2 ^ (6 - 2) = 16
        /\ (13 \div 8) + 1 = 2 /\ (13 % 8) + 1 = 6 /\ 2 ^ (8 - 6) = 4
    OBVIOUS
  <2> QED
    BY <1>1, <1>15, <2>1 DEF Bit
<1>40. Same(14)
  <2>1. /\ (14 \div 6) + 1 = 3 /\ (14 % 6) + 1 = 3 /\ 2 ^ (6 - 3) = 8
        /\ (14 \div 8) + 1 = 2 /\ (14 % 8) + 1 = 7 /\ 2 ^ (8 - 7) = 2
    OBVIOUS
  <2> QED
    BY <1>1, <1>16, <2>1 DEF Bit
<1>41. Same(15)
  <2>1. /\ (15 \div 6) + 1 = 3 /\ (15 % 6) + 1 = 4 /\ 2 ^ (6 - 4) = 4
        /\ (15 \div 8) + 1 = 2 /\ (15 % 8) + 1 = 8 /\ 2 ^ (8 - 8) = 1
    OBVIOUS
  <2> QED
    BY <1>1, <1>17, <2>1 DEF Bit
<1>42. Same(16)
  <2>1. /\ (16 \div 6) + 1 = 3 /\ (16 % 6) + 1 = 5 /\ 2 ^ (6 - 5) = 2
        /\ (16 \div 8) + 1 = 3 /\ (16 % 8) + 1 = 1 /\ 2 ^ (8 - 1) = 128
    OBVIOUS
  <2> QED
    BY <1>1, <1>18, <2>1 DEF Bit
<1>43. Same(17)
  <2>1. /\ (17 \div 6) + 1 = 3 /\ (17 % 6) + 1 = 6 /\ 2 ^ (6 - 6) = 1
        /\ (17 \div 8) + 1 = 3 /\ (17 % 8) + 1 = 2 /\ 2 ^ (8 - 2) = 64
    OBVIOUS
  <2> QED
    BY <1>1, <1>19, <2>1 DEF Bit
<1>44. Same(18)
  <2>1. /\ (18 \div 6) + 1 = 4 /\ (18 % 6) + 1 = 1 /\ 2 ^ (6 - 1) = 32
        /\ (18 \div 8) + 1 = 3 /\ (18 % 8) + 1 = 3 /\ 2 ^ (8 - 3) = 32
    OBVIOUS
  <2> QED
    BY <1>1, <1>20, <2>1 DEF Bit
<1>45. Same(19)
  <2>1. /\ (19 \div 6) + 1 = 4 /\ (19 % 6) + 1 = 2 /\ 2 ^ (6 - 2) = 16
        /\ (19 \div 8) + 1 = 3 /\ (19 % 8) + 1 = 4 /\ 2 ^ (8 - 4) = 16
    OBVIOUS
  <2> QED
    BY <1>1, <1>21, <2>1 DEF Bit
<1>46. Same(20)
  <2>1. /\ (20 \div 6) + 1 = 4 /\ (20 % 6) + 1 = 3 /\ 2 ^ (6 - 3) = 8
        /\ (20 \div 8) + 1 = 3 /\ (20 % 8) + 1 = 5 /\ 2 ^ (8 - 5) = 8
    OBVIOUS
  <2> QED
    BY <1>1, <1>22, <2>1 DEF Bit
<1>47. Same(21)
  <2>1. /\ (21 \div 6) + 1 = 4 /\ (21 % 6) + 1 = 4 /\ 2 ^ (6 - 4) = 4
        /\ (21 \div 8) + 1 = 3 /\ (21 % 8) + 1 = 6 /\ 2 ^ (8 - 6) = 4
    OBVIOUS
  <2> QED
    BY <1>1, <1>23, <2>1 DEF Bit
<1>48. Same(22)
  <2>1. /\ (22 \div 6) + 1 = 4 /\ (22 % 6) + 1 = 5 /\ 2 ^ (6 - 5) = 2
        /\ (22 \div 8) + 1 = 3 /\ (22 % 8) + 1 = 7 /\ 2 ^ (8 - 7) = 2
    OBVIOUS
  <2> QED
    BY <1>1, <1>24, <2>1 DEF Bit
<1>49. Same(23)
  <2>1. /\ (23 \div 6) + 1 = 4 /\ (23 % 6) + 1 = 6 /\ 2 ^ (6 - 6) = 1
        /\ (23 \div 8) + 1 = 3 /\ (23 % 8) + 1 = 8 /\ 2 ^ (8 - 8) = 1
    OBVIOUS
  <2> QED
    BY <1>1, <1>25, <2>1 DEF Bit
<1> HIDE DEF Same
<1>50. Same(o)
  BY <1>26, <1>27, <1>28, <1>29, <1>30, <1>31, <1>32, <1>33, <1>34, <1>35, <1>36, <1>37, <1>38, <1>39, <1>40, <1>41, <1>42, <1>43, <1>44, <1>45, <1>46, <1>47, <1>48, <1>49
<1> QED
  BY <1>0, <1>50 DEF Same, three

(* What encoding writes: the characters of each three bytes, those beyond    *)
(* the last being 0, and a line break after every 76; and how much of it,    *)
(* when m bytes are done.                                                    *)
ByteAt(bytes, i) == IF i \in 1 .. Len(bytes) THEN bytes[i] ELSE 0

GroupOf(bytes, g) ==
  Sextets(Word(ByteAt(bytes, 3 * g + 1), ByteAt(bytes, 3 * g + 2), ByteAt(bytes, 3 * g + 3)))

CharAt(bytes, k) == GroupOf(bytes, (k - 1) \div 4)[((k - 1) % 4) + 1]

TextAt(bytes, p) == IF p % 77 = 0 THEN LineBreak ELSE CharAt(bytes, p - (p \div 77))

GroupsDone(n, m) == IF m = n THEN (n + 2) \div 3 ELSE m \div 3
BreaksDone(m) == IF m = 0 THEN 0 ELSE (m - 1) \div 57

Holding(bytes, m) ==
  IF m = Len(bytes) \/ m % 3 = 0 THEN 0
  ELSE IF m % 3 = 1 THEN ByteAt(bytes, m) * 65536
  ELSE ByteAt(bytes, m - 1) * 65536 + ByteAt(bytes, m) * 256

Written(out, bytes) == out \in Seq(0 .. 65) /\ \A p \in 1 .. Len(out) : out[p] = TextAt(bytes, p)

LEMMA BytesFit ==
  ASSUME NEW bytes \in Seq(0 .. 255), NEW i \in Int
  PROVE  ByteAt(bytes, i) \in 0 .. 255
<1>1. i \in 1 .. Len(bytes) => bytes[i] \in 0 .. 255
  BY ElementOfSeq
<1> QED
  BY <1>1 DEF ByteAt

LEMMA GroupsFit ==
  ASSUME NEW bytes \in Seq(0 .. 255), NEW g \in Nat
  PROVE  GroupOf(bytes, g) \in Seq(0 .. 63) /\ Len(GroupOf(bytes, g)) = 4
<1> DEFINE a == ByteAt(bytes, 3 * g + 1)
           b == ByteAt(bytes, 3 * g + 2)
           c == ByteAt(bytes, 3 * g + 3)
<1>1. a \in 0 .. 255 /\ b \in 0 .. 255 /\ c \in 0 .. 255
  BY BytesFit
<1> HIDE DEF a, b, c
<1>2. GroupOf(bytes, g) = <<a \div 4, 16 * (a % 4) + b \div 16, 4 * (b % 16) + c \div 64, c % 64>>
  BY <1>1, SextetsOf DEF GroupOf, a, b, c
<1>3. a \div 4 \in 0 .. 63 /\ 16 * (a % 4) + b \div 16 \in 0 .. 63
      /\ 4 * (b % 16) + c \div 64 \in 0 .. 63 /\ c % 64 \in 0 .. 63
  BY <1>1
<1> QED
  BY <1>2, <1>3

(* Where the characters and the line breaks go.                              *)
LEMMA CharPlaces ==
  ASSUME NEW g \in Nat, NEW j \in 1 .. 4
  PROVE  LET p == 4 * g + (g \div 19) + j
         IN  /\ p % 77 # 0
             /\ p - (p \div 77) = 4 * g + j
             /\ ((4 * g + j) - 1) \div 4 = g
             /\ (((4 * g + j) - 1) % 4) + 1 = j
<1> DEFINE a == g \div 19
           b == g % 19
           p == 4 * g + (g \div 19) + j
<1>1. g = 19 * a + b /\ a \in Nat /\ b \in 0 .. 18
  OBVIOUS
<1>2. p = 77 * a + (4 * b + j) /\ 4 * b + j \in 1 .. 76
  <2>1. p = 4 * g + a + j
    OBVIOUS
  <2> HIDE DEF a, b, p
  <2> QED
    BY <1>1, <2>1
<1> HIDE DEF a, b, p
<1>3. p \div 77 = a /\ p % 77 = 4 * b + j
  BY <1>1, <1>2
<1>4. p % 77 # 0 /\ p - (p \div 77) = 4 * g + j
  BY <1>1, <1>2, <1>3
<1>5. ((4 * g + j) - 1) \div 4 = g /\ (((4 * g + j) - 1) % 4) + 1 = j
  OBVIOUS
<1> QED
  BY <1>4, <1>5 DEF p

LEMMA BreakPlaces ==
  ASSUME NEW m \in Nat
  PROVE  /\ BreaksDone(m + 1) = (m \div 3) \div 19
         /\ BreaksDone(m + 1) = BreaksDone(m) + (IF m > 0 /\ m % 57 = 0 THEN 1 ELSE 0)
         /\ m > 0 /\ m % 57 = 0 => (4 * (m \div 3) + BreaksDone(m) + 1) % 77 = 0
<1> DEFINE a == m \div 57
           b == m % 57
<1>1. m = 57 * a + b /\ a \in Nat /\ b \in 0 .. 56
  OBVIOUS
<1>2. BreaksDone(m + 1) = a
  BY DEF BreaksDone
<1> HIDE DEF a
<1>3. (m \div 3) \div 19 = a
  <2>1. m \div 3 = 19 * a + b \div 3 /\ b \div 3 \in 0 .. 18
    <3> HIDE DEF b
    <3> QED
      BY <1>1
  <2> HIDE DEF b
  <2> QED
    BY <1>1, <2>1
<1>4. CASE m > 0 /\ b = 0
  <2>1. m = 57 * a /\ a >= 1
    BY <1>1, <1>4
  <2>2. BreaksDone(m) = a - 1
    BY <2>1, <1>1, <1>4 DEF BreaksDone
  <2>3. m \div 3 = 19 * a
    BY <2>1, <1>1
  <2>4. 4 * (m \div 3) + BreaksDone(m) + 1 = 77 * a
    BY <2>2, <2>3, <1>1
  <2>5. (77 * a) % 77 = 0
    BY <1>1
  <2> QED
    BY <1>1, <1>2, <1>3, <1>4, <2>2, <2>4, <2>5
<1>5. CASE ~(m > 0 /\ b = 0)
  <2>1. BreaksDone(m) = a
    <3> HIDE DEF b
    <3> QED
      BY <1>1, <1>5 DEF BreaksDone
  <2> QED
    BY <1>1, <1>2, <1>3, <1>5, <2>1
<1> QED
  BY <1>4, <1>5

(* A line break, and four characters, after what is written.                 *)
LEMMA WritesBreak ==
  ASSUME NEW bytes, NEW out, Written(out, bytes), (Len(out) + 1) % 77 = 0
  PROVE  Written(out \o <<LineBreak>>, bytes) /\ Len(out \o <<LineBreak>>) = Len(out) + 1
<1> DEFINE one == <<LineBreak>>
           new == out \o one
           n == Len(out)
<1>1. out \in Seq(0 .. 65) /\ \A p \in 1 .. n : out[p] = TextAt(bytes, p)
  BY DEF Written
<1>2. one \in Seq(0 .. 65) /\ Len(one) = 1 /\ one[1] = LineBreak
  BY DEF LineBreak
<1> HIDE DEF one
<1>3. /\ new \in Seq(0 .. 65) /\ Len(new) = n + Len(one) /\ n \in Nat
      /\ \A i \in 1 .. n : new[i] = out[i]
      /\ \A i \in 1 .. Len(one) : new[n + i] = one[i]
  BY <1>1, <1>2, JoinedTexts
<1> HIDE DEF new, n
<1>4. new[n + 1] = LineBreak
  BY <1>2, <1>3
<1>5. TextAt(bytes, n + 1) = LineBreak
  BY DEF TextAt, n
<1>6. ASSUME NEW p \in 1 .. n + 1 PROVE new[p] = TextAt(bytes, p)
  <2>1. CASE p \in 1 .. n
    BY <2>1, <1>1, <1>3
  <2>2. CASE p = n + 1
    BY <2>2, <1>4, <1>5
  <2> QED
    BY <2>1, <2>2, <1>3
<1>7. Len(new) = n + 1
  BY <1>2, <1>3
<1> QED
  BY <1>3, <1>6, <1>7 DEF Written, new, n, one

LEMMA WritesGroup ==
  ASSUME NEW bytes \in Seq(0 .. 255), NEW g \in Nat, NEW out, Written(out, bytes),
         Len(out) = 4 * g + (g \div 19)
  PROVE  /\ Written(out \o GroupOf(bytes, g), bytes)
         /\ Len(out \o GroupOf(bytes, g)) = Len(out) + 4
<1> DEFINE four == GroupOf(bytes, g)
           new == out \o four
           n == Len(out)
<1>1. out \in Seq(0 .. 65) /\ \A p \in 1 .. n : out[p] = TextAt(bytes, p)
  BY DEF Written
<1>2. four \in Seq(0 .. 65) /\ Len(four) = 4
  <2>1. four \in Seq(0 .. 63) /\ Len(four) = 4
    BY GroupsFit
  <2> HIDE DEF four
  <2> QED
    BY <2>1
<1> HIDE DEF four
<1>3. /\ new \in Seq(0 .. 65) /\ Len(new) = n + Len(four) /\ n \in Nat
      /\ \A i \in 1 .. n : new[i] = out[i]
      /\ \A i \in 1 .. Len(four) : new[n + i] = four[i]
  <2> DEFINE S == 0 .. 65
  <2>1. out \in Seq(S) /\ four \in Seq(S)
    BY <1>1, <1>2
  <2> HIDE DEF S
  <2>2. new \in Seq(S) /\ Len(new) = n + Len(four) /\ n \in Nat
    BY <2>1, JoinedTexts
  <2>3. \A i \in 1 .. n : new[i] = out[i]
    BY <2>1, JoinedTexts
  <2>4. \A i \in 1 .. Len(four) : new[n + i] = four[i]
    BY <2>1, JoinedTexts
  <2> QED
    BY <2>2, <2>3, <2>4 DEF S
<1> HIDE DEF new
<1>4. ASSUME NEW j \in 1 .. 4 PROVE new[n + j] = TextAt(bytes, n + j)
  <2>1. /\ (4 * g + (g \div 19) + j) % 77 # 0
        /\ (4 * g + (g \div 19) + j) - ((4 * g + (g \div 19) + j) \div 77) = 4 * g + j
        /\ ((4 * g + j) - 1) \div 4 = g
        /\ (((4 * g + j) - 1) % 4) + 1 = j
    BY CharPlaces
  <2> DEFINE p == n + j
  <2>2. p = 4 * g + (g \div 19) + j
    OBVIOUS
  <2> HIDE DEF p
  <2>3. p % 77 # 0 /\ p - (p \div 77) = 4 * g + j
    BY <2>1, <2>2
  <2>4. TextAt(bytes, p) = CharAt(bytes, 4 * g + j)
    BY <2>3 DEF TextAt
  <2>5. CharAt(bytes, 4 * g + j) = four[j]
    BY <2>1 DEF CharAt, four
  <2>6. new[n + j] = four[j]
    BY <1>2, <1>3
  <2> QED
    BY <2>4, <2>5, <2>6 DEF p
<1> HIDE DEF n
<1>5. ASSUME NEW p \in 1 .. n + 4 PROVE new[p] = TextAt(bytes, p)
  <2>1. CASE p \in 1 .. n
    BY <2>1, <1>1, <1>3
  <2>2. CASE p \notin 1 .. n
    <3>1. p - n \in 1 .. 4 /\ n + (p - n) = p
      BY <2>2, <1>3
    <3> DEFINE j == p - n
    <3> HIDE DEF j
    <3>2. j \in 1 .. 4 /\ n + j = p
      BY <3>1 DEF j
    <3> QED
      BY <3>2, <1>4
  <2> QED
    BY <2>1, <2>2
<1>6. Len(new) = n + 4
  BY <1>2, <1>3
<1> QED
  BY <1>3, <1>5, <1>6 DEF Written, new, n, four

(* A turn of the loop writes the next byte's share.                          *)
EncodedTo(bytes, m, held, out) ==
  /\ Written(out, bytes)
  /\ Len(out) = 4 * GroupsDone(Len(bytes), m) + BreaksDone(m)
  /\ held = Holding(bytes, m)

LEMMA ByteSums ==
  ASSUME NEW bytes \in Seq(0 .. 255), NEW m \in Nat, m < Len(bytes), NEW held,
         held = Holding(bytes, m)
  PROVE  LET sum == held + bytes[m + 1] * (CASE m % 3 = 0 -> 65536
                                             [] m % 3 = 1 -> 256
                                             [] m % 3 = 2 -> 1)
             full == m % 3 = 2 \/ m = Len(bytes) - 1
         IN  /\ IF full THEN Sextets(sum) = GroupOf(bytes, m \div 3)
                        ELSE sum = Holding(bytes, m + 1)
             /\ full => Holding(bytes, m + 1) = 0
             /\ GroupsDone(Len(bytes), m + 1) = (m \div 3) + (IF full THEN 1 ELSE 0)
             /\ GroupsDone(Len(bytes), m) = m \div 3
<1> DEFINE n == Len(bytes)
           g == m \div 3
           x == ByteAt(bytes, 3 * g + 1)
           y == ByteAt(bytes, 3 * g + 2)
           z == ByteAt(bytes, 3 * g + 3)
           times == CASE m % 3 = 0 -> 65536 [] m % 3 = 1 -> 256 [] m % 3 = 2 -> 1
           sum == held + bytes[m + 1] * times
           full == m % 3 = 2 \/ m = n - 1
<1>1. n \in Nat /\ g \in Nat /\ m = 3 * g + (m % 3) /\ m % 3 \in 0 .. 2
  OBVIOUS
<1>2. x \in 0 .. 255 /\ y \in 0 .. 255 /\ z \in 0 .. 255
  BY BytesFit
<1>3. bytes[m + 1] = ByteAt(bytes, m + 1)
  BY <1>1 DEF ByteAt
<1>4. GroupsDone(n, m + 1) = g + (IF full THEN 1 ELSE 0) /\ GroupsDone(n, m) = g
  <2> HIDE DEF n
  <2>1. n \in Nat /\ m < n
    BY <1>1 DEF n
  <2> QED
    BY <2>1 DEF GroupsDone
<1>5. \A i \in Int : i > n => ByteAt(bytes, i) = 0
  BY <1>1 DEF ByteAt
<1>6. GroupOf(bytes, g) = Sextets(x * 65536 + y * 256 + z)
  BY DEF GroupOf, Word
<1>7. full => Holding(bytes, m + 1) = 0
  <2>1. CASE m = n - 1
    <3>1. m + 1 = n
      BY <1>1, <2>1
    <3> QED
      BY <3>1 DEF Holding
  <2>2. CASE m % 3 = 2
    <3>1. (m + 1) % 3 = 0
      BY <2>2
    <3> QED
      BY <3>1 DEF Holding
  <2> QED
    BY <2>1, <2>2
<1> DEFINE Done == /\ IF full THEN Sextets(sum) = GroupOf(bytes, g) ELSE sum = Holding(bytes, m + 1)
                   /\ full => Holding(bytes, m + 1) = 0
                   /\ GroupsDone(n, m + 1) = g + (IF full THEN 1 ELSE 0)
                   /\ GroupsDone(n, m) = g
<1> SUFFICES Done
  OBVIOUS
<1> HIDE DEF n, g
<1>8. CASE m % 3 = 0
  <2>1. m = 3 * g /\ m + 1 = 3 * g + 1
    BY <1>1, <1>8
  <2>2. held = 0
    BY <1>8 DEF Holding
  <2>3. sum = x * 65536
    <3>1. times = 65536 /\ bytes[m + 1] = x
      BY <1>3, <1>8, <2>1
    <3> HIDE DEF times, x, y, z
    <3> QED
      BY <1>2, <2>2, <3>1
  <2>4. ASSUME full PROVE Sextets(sum) = GroupOf(bytes, g)
    <3>1. 3 * g + 2 > n /\ 3 * g + 3 > n
      BY <1>1, <1>8, <2>1, <2>4
    <3>2. y = 0 /\ z = 0
      BY <1>1, <1>5, <3>1
    <3>3. sum = x * 65536 + y * 256 + z
      <4> HIDE DEF sum, x, y, z
      <4> QED
        BY <1>2, <2>3, <3>2
    <3> QED
      BY <1>6, <3>3
  <2>5. ASSUME ~full PROVE sum = Holding(bytes, m + 1)
    <3>1. (m + 1) % 3 = 1 /\ m + 1 # n
      BY <1>1, <1>8, <2>5
    <3> QED
      BY <3>1, <2>1, <2>3 DEF Holding, n
  <2> QED
    <3> HIDE DEF sum, full
    <3> QED
      BY <1>4, <1>7, <2>4, <2>5
<1>9. CASE m % 3 = 1
  <2>1. m = 3 * g + 1 /\ m + 1 = 3 * g + 2
    BY <1>1, <1>9
  <2>2. held = x * 65536
    <3>1. m # n
      BY <1>1 DEF n
    <3> QED
      BY <1>9, <2>1, <3>1 DEF Holding, n
  <2>3. sum = x * 65536 + y * 256
    <3>1. times = 256 /\ bytes[m + 1] = y
      BY <1>3, <1>9, <2>1
    <3> HIDE DEF times, x, y, z
    <3> QED
      BY <1>2, <2>2, <3>1
  <2>4. ASSUME full PROVE Sextets(sum) = GroupOf(bytes, g)
    <3>1. 3 * g + 3 > n
      BY <1>1, <1>9, <2>1, <2>4
    <3>2. z = 0
      BY <1>1, <1>5, <3>1
    <3>3. sum = x * 65536 + y * 256 + z
      <4> HIDE DEF sum, x, y, z
      <4> QED
        BY <1>2, <2>3, <3>2
    <3> QED
      BY <1>6, <3>3
  <2>5. ASSUME ~full PROVE sum = Holding(bytes, m + 1)
    <3>1. (m + 1) % 3 = 2 /\ m + 1 # n /\ (m + 1) - 1 = 3 * g + 1
      BY <1>1, <1>9, <2>1, <2>5
    <3> HIDE DEF sum
    <3> QED
      BY <3>1, <2>1, <2>3 DEF Holding, n
  <2> QED
    <3> HIDE DEF sum, full
    <3> QED
      BY <1>4, <1>7, <2>4, <2>5
<1>10. CASE m % 3 = 2
  <2>1. m = 3 * g + 2 /\ m + 1 = 3 * g + 3 /\ m - 1 = 3 * g + 1
    BY <1>1, <1>10
  <2>2. held = x * 65536 + y * 256
    <3>1. m # n
      BY <1>1 DEF n
    <3> QED
      BY <1>10, <2>1, <3>1 DEF Holding, n
  <2>3. sum = x * 65536 + y * 256 + z
    <3>1. times = 1 /\ bytes[m + 1] = z
      BY <1>3, <1>10, <2>1
    <3> HIDE DEF times, x, y, z
    <3> QED
      BY <1>2, <2>2, <3>1
  <2>4. Sextets(sum) = GroupOf(bytes, g)
    BY <1>6, <2>3
  <2> QED
    BY <1>4, <1>7, <1>10, <2>4
<1> QED
  BY <1>1, <1>8, <1>9, <1>10

LEMMA EncodesByte ==
  ASSUME NEW bytes \in Seq(0 .. 255), NEW m \in Nat, m < Len(bytes), NEW held, NEW out,
         EncodedTo(bytes, m, held, out)
  PROVE  LET break == IF m > 0 /\ m % 57 = 0 THEN <<LineBreak>> ELSE <<>>
             sum == held + bytes[m + 1] * (CASE m % 3 = 0 -> 65536
                                             [] m % 3 = 1 -> 256
                                             [] m % 3 = 2 -> 1)
             full == m % 3 = 2 \/ m = Len(bytes) - 1
         IN  EncodedTo(bytes, m + 1, IF full THEN 0 ELSE sum,
                       out \o break \o (IF full THEN Sextets(sum) ELSE <<>>))
<1> DEFINE break == IF m > 0 /\ m % 57 = 0 THEN <<LineBreak>> ELSE <<>>
           sum == held + bytes[m + 1] * (CASE m % 3 = 0 -> 65536
                                           [] m % 3 = 1 -> 256
                                           [] m % 3 = 2 -> 1)
           full == m % 3 = 2 \/ m = Len(bytes) - 1
           n == Len(bytes)
           g == m \div 3
           out1 == out \o break
           new == out1 \o (IF full THEN Sextets(sum) ELSE <<>>)
           held1 == IF full THEN 0 ELSE sum
<1> SUFFICES EncodedTo(bytes, m + 1, held1, new)
  OBVIOUS
<1>1. /\ Written(out, bytes) /\ Len(out) = 4 * GroupsDone(n, m) + BreaksDone(m)
      /\ held = Holding(bytes, m)
  BY DEF EncodedTo
<1>2. /\ IF full THEN Sextets(sum) = GroupOf(bytes, g) ELSE sum = Holding(bytes, m + 1)
      /\ full => Holding(bytes, m + 1) = 0
      /\ GroupsDone(n, m + 1) = g + (IF full THEN 1 ELSE 0)
      /\ GroupsDone(n, m) = g
  BY <1>1, ByteSums
<1>3. /\ BreaksDone(m + 1) = g \div 19
      /\ BreaksDone(m + 1) = BreaksDone(m) + (IF m > 0 /\ m % 57 = 0 THEN 1 ELSE 0)
      /\ m > 0 /\ m % 57 = 0 => (4 * g + BreaksDone(m) + 1) % 77 = 0
  BY BreakPlaces
<1>4. g \in Nat /\ BreaksDone(m) \in Int /\ \A s \in Seq(0 .. 65) : s \o <<>> = s
  BY ConcatEmptySeq DEF BreaksDone
<1> HIDE DEF sum, full, n, g
<1>5. Written(out1, bytes) /\ Len(out1) = 4 * g + (g \div 19)
  <2>1. Len(out) = 4 * g + BreaksDone(m)
    BY <1>1, <1>2
  <2>2. CASE m > 0 /\ m % 57 = 0
    <3>1. out1 = out \o <<LineBreak>>
      BY <2>2
    <3>2. (Len(out) + 1) % 77 = 0
      BY <2>1, <2>2, <1>3
    <3>3. Written(out1, bytes) /\ Len(out1) = Len(out) + 1
      <4> HIDE DEF out1
      <4> QED
        BY <3>1, <3>2, <1>1, WritesBreak
    <3>4. g \div 19 = BreaksDone(m) + 1
      BY <1>3, <2>2
    <3> HIDE DEF out1
    <3>5. Len(out1) = 4 * g + (BreaksDone(m) + 1)
      BY <2>1, <3>3, <1>4
    <3> QED
      BY <3>3, <3>4, <3>5
  <2>3. CASE ~(m > 0 /\ m % 57 = 0)
    <3>1. out1 = out
      BY <2>3, <1>1, <1>4 DEF Written
    <3>2. g \div 19 = BreaksDone(m)
      BY <1>3, <1>4, <2>3
    <3> HIDE DEF out1
    <3> QED
      BY <2>1, <3>1, <3>2, <1>1
  <2> QED
    BY <2>2, <2>3
<1> HIDE DEF out1
<1>6. CASE full
  <2>1. new = out1 \o GroupOf(bytes, g)
    BY <1>2, <1>6
  <2>2. held1 = Holding(bytes, m + 1)
    BY <1>2, <1>6
  <2>3. Written(out1 \o GroupOf(bytes, g), bytes) /\ Len(out1 \o GroupOf(bytes, g)) = Len(out1) + 4
    BY <1>4, <1>5, WritesGroup
  <2>4. Len(new) = 4 * GroupsDone(n, m + 1) + BreaksDone(m + 1)
    <3>1. GroupsDone(n, m + 1) = g + 1 /\ BreaksDone(m + 1) = g \div 19
      BY <1>2, <1>3, <1>6
    <3>2. Len(new) = Len(out1) + 4
      BY <2>1, <2>3
    <3> HIDE DEF new
    <3> QED
      BY <3>1, <3>2, <1>4, <1>5
  <2> QED
    <3> HIDE DEF new, held1
    <3> QED
      BY <2>1, <2>2, <2>3, <2>4 DEF EncodedTo, n
<1>7. CASE ~full
  <2>1. new = out1
    BY <1>4, <1>5, <1>7 DEF Written
  <2>2. held1 = Holding(bytes, m + 1)
    BY <1>2, <1>7
  <2>3. Len(new) = 4 * GroupsDone(n, m + 1) + BreaksDone(m + 1)
    <3>1. GroupsDone(n, m + 1) = g /\ BreaksDone(m + 1) = g \div 19
      BY <1>2, <1>3, <1>4, <1>7
    <3> HIDE DEF new
    <3> QED
      BY <2>1, <3>1, <1>4, <1>5
  <2> QED
    <3> HIDE DEF new, held1
    <3> QED
      BY <2>1, <2>2, <2>3, <1>5 DEF EncodedTo, n
<1> QED
  BY <1>6, <1>7

(* The last turn's padding, and what the text then is.                       *)
LEMMA CharsFit ==
  ASSUME NEW bytes \in Seq(0 .. 255), NEW k \in Nat \ {0}
  PROVE  CharAt(bytes, k) \in 0 .. 63
<1> DEFINE g == (k - 1) \div 4
           four == GroupOf(bytes, g)
           j == ((k - 1) % 4) + 1
<1>1. g \in Nat /\ j \in 1 .. 4
  OBVIOUS
<1> HIDE DEF g, j
<1>2. four \in Seq(0 .. 63) /\ Len(four) = 4
  BY <1>1, GroupsFit
<1> HIDE DEF four
<1>3. four[j] \in 0 .. 63
  BY <1>1, <1>2, ElementOfSeq
<1> QED
  BY <1>3 DEF CharAt, four, g, j

LEMMA NoBits == ASSUME NEW e \in 1 .. 8 PROVE Bit(0, 8, e) = 0
<1>1. 2 ^ (8 - e) \in Nat \ {0}
  <2>1. CASE e = 1
    BY <2>1
  <2>2. CASE e = 2
    BY <2>2
  <2>3. CASE e = 3
    BY <2>3
  <2>4. CASE e = 4
    BY <2>4
  <2>5. CASE e = 5
    BY <2>5
  <2>6. CASE e = 6
    BY <2>6
  <2>7. CASE e = 7
    BY <2>7
  <2>8. CASE e = 8
    BY <2>8
  <2> QED
    BY <2>1, <2>2, <2>3, <2>4, <2>5, <2>6, <2>7, <2>8
<1> DEFINE d == 2 ^ (8 - e)
<1> HIDE DEF d
<1>3. d \in Nat \ {0} => (0 \div d) % 2 = 0
  OBVIOUS
<1> QED
  BY <1>1, <1>3 DEF Bit, d

\* The text, with the last of its characters padding.
Padded(bytes, out) ==
  LET n == Len(bytes)
      pads == (3 - (n % 3)) % 3
  IN  /\ out \in Seq(0 .. 65)
      /\ Len(out) = 4 * ((n + 2) \div 3) + BreaksDone(n)
      /\ \A p \in 1 .. Len(out) : out[p] = IF p <= Len(out) - pads THEN TextAt(bytes, p) ELSE Pad

LEMMA PadsText ==
  ASSUME NEW bytes \in Seq(0 .. 255), NEW held, NEW out, EncodedTo(bytes, Len(bytes), held, out)
  PROVE  LET pads == (3 - (Len(bytes) % 3)) % 3
         IN  Padded(bytes, SubSeq(out, 1, Len(out) - pads) \o [i \in 1 .. pads |-> Pad])
<1> DEFINE n == Len(bytes)
           pads == (3 - (n % 3)) % 3
           groups == (n + 2) \div 3
           m == Len(out)
           a == SubSeq(out, 1, m - pads)
           b == [i \in 1 .. pads |-> Pad]
           new == a \o b
           S == 0 .. 65
<1>1. /\ out \in Seq(S) /\ \A p \in 1 .. m : out[p] = TextAt(bytes, p)
      /\ m = 4 * groups + BreaksDone(n)
  BY DEF EncodedTo, Written, GroupsDone
<1>2. n \in Nat /\ pads \in 0 .. 2 /\ m \in Nat /\ BreaksDone(n) \in Int
  <2>1. n \in Nat /\ m \in Nat
    BY <1>1
  <2> HIDE DEF n, m
  <2> QED
    BY <2>1 DEF BreaksDone
<1>3. pads <= m
  <2>1. CASE n = 0
    <3>1. pads = 0
      BY <2>1
    <3> QED
      BY <3>1, <1>2
  <2>2. CASE n # 0
    <3> HIDE DEF n, m
    <3>1. groups >= 1 /\ BreaksDone(n) >= 0 /\ groups \in Nat
      BY <2>2, <1>2 DEF BreaksDone
    <3> HIDE DEF groups, pads
    <3> QED
      BY <3>1, <1>1, <1>2
  <2> QED
    BY <2>1, <2>2
<1> HIDE DEF n, m, pads, groups, S
<1>4. a \in Seq(S) /\ Len(a) = m - pads /\ \A p \in 1 .. m - pads : a[p] = out[p]
  <2>1. m - pads \in 0 .. m
    BY <1>2, <1>3
  <2> QED
    BY <2>1, <1>1 DEF m
<1>5. b \in Seq(S) /\ Len(b) = pads /\ \A i \in 1 .. pads : b[i] = Pad
  <2>1. Pad \in S /\ pads \in Nat
    BY <1>2 DEF Pad, S
  <2> QED
    BY <2>1
<1> HIDE DEF a, b
<1>6. new \in Seq(S) /\ Len(new) = Len(a) + Len(b)
  BY <1>4, <1>5, JoinedTexts
<1>7. \A i \in 1 .. Len(a) : new[i] = a[i]
  BY <1>4, <1>5, JoinedTexts
<1>8. \A i \in 1 .. Len(b) : new[Len(a) + i] = b[i]
  BY <1>4, <1>5, JoinedTexts
<1> HIDE DEF new
<1>9. Len(new) = m
  BY <1>2, <1>4, <1>5, <1>6
<1>10. ASSUME NEW p \in 1 .. m PROVE new[p] = IF p <= m - pads THEN TextAt(bytes, p) ELSE Pad
  <2>1. CASE p <= m - pads
    <3>1. p \in 1 .. m - pads
      BY <2>1, <1>2
    <3>2. new[p] = a[p] /\ a[p] = out[p] /\ out[p] = TextAt(bytes, p)
      BY <3>1, <1>1, <1>4, <1>7
    <3> QED
      BY <2>1, <3>2
  <2>2. CASE ~(p <= m - pads)
    <3> DEFINE i == p - (m - pads)
    <3>1. i \in 1 .. pads /\ (m - pads) + i = p
      BY <2>2, <1>2
    <3> HIDE DEF i
    <3>2. new[(m - pads) + i] = Pad
      BY <3>1, <1>4, <1>5, <1>8
    <3> QED
      BY <2>2, <3>1, <3>2
  <2> QED
    BY <2>1, <2>2
<1>11. Padded(bytes, new)
  BY <1>1, <1>6, <1>9, <1>10 DEF Padded, n, pads, groups, S
<1> QED
  BY <1>11 DEF new, a, b, m, pads, n

(* Where a character is, among the line breaks.                              *)
LEMMA PlaceOf ==
  ASSUME NEW n \in Nat, NEW k \in Nat \ {0}, k <= 4 * ((n + 2) \div 3)
  PROVE  LET p == k + ((k - 1) \div 76)
             m == 4 * ((n + 2) \div 3) + BreaksDone(n)
             pads == (3 - (n % 3)) % 3
         IN  /\ p \in 1 .. m
             /\ p % 77 # 0 /\ p - (p \div 77) = k
             /\ p <= m - pads <=> k <= (8 * n + 5) \div 6
<1> DEFINE p == k + ((k - 1) \div 76)
           g == (n + 2) \div 3
           u == BreaksDone(n)
           m == 4 * g + u
           pads == (3 - (n % 3)) % 3
           full == (8 * n + 5) \div 6
           a == (k - 1) \div 76
           b == (k - 1) % 76
<1>1. k = 76 * a + b + 1 /\ a \in Nat /\ b \in 0 .. 75 /\ p = k + a
  OBVIOUS
<1> HIDE DEF a, b, p
<1>2. p = 77 * a + (b + 1) /\ b + 1 \in 1 .. 76
  BY <1>1
<1>3. p \div 77 = a /\ p % 77 = b + 1
  BY <1>1, <1>2
<1>4. p % 77 # 0 /\ p - (p \div 77) = k
  BY <1>1, <1>2, <1>3
<1>5. n # 0 /\ g \in Nat /\ g >= 1 /\ k <= 4 * g
  OBVIOUS
<1>6. full = 4 * g - pads /\ pads \in 0 .. 2 /\ u = (g - 1) \div 19
  <2>1. full = 4 * g - pads /\ pads \in 0 .. 2
    <3>1. PICK q \in Nat, e \in 0 .. 2 : n = 3 * q + e
      <4>1. n \div 3 \in Nat /\ n % 3 \in 0 .. 2 /\ n = 3 * (n \div 3) + (n % 3)
        OBVIOUS
      <4> QED
        BY <4>1
    <3>2. CASE e = 0
      BY <3>1, <3>2
    <3>3. CASE e = 1
      BY <3>1, <3>3
    <3>4. CASE e = 2
      BY <3>1, <3>4
    <3> QED
      BY <3>2, <3>3, <3>4
  <2>2. u = (g - 1) \div 19
    <3>1. u = (n - 1) \div 57
      BY <1>5 DEF BreaksDone
    <3>2. g - 1 = (n - 1) \div 3
      BY <1>5
    <3>3. (n - 1) \div 57 = ((n - 1) \div 3) \div 19
      <4> DEFINE c == (n - 1) \div 57
                 d == (n - 1) % 57
      <4>1. n - 1 = 57 * c + d /\ c \in Nat /\ d \in 0 .. 56
        BY <1>5
      <4> HIDE DEF c, d
      <4>2. (n - 1) \div 3 = 19 * c + d \div 3 /\ d \div 3 \in 0 .. 18
        BY <4>1
      <4> DEFINE f == d \div 3
      <4> HIDE DEF f
      <4>3. (19 * c + f) \div 19 = c
        BY <4>1, <4>2 DEF f
      <4> QED
        BY <4>2, <4>3 DEF c, f
    <3> QED
      BY <3>1, <3>2, <3>3
  <2> QED
    BY <2>1, <2>2
<1> HIDE DEF u, g, full, pads
<1>7. u \in Nat /\ 19 * u <= g - 1 /\ g - 1 <= 19 * u + 18
  BY <1>5, <1>6
<1>8. p \in 1 .. m
  <2>1. a <= u
    BY <1>1, <1>5, <1>7
  <2> QED
    BY <1>1, <1>5, <1>7, <2>1
<1>9. p <= m - pads <=> k <= full
  <2>1. CASE a = u
    BY <2>1, <1>1, <1>5, <1>6, <1>7
  <2>2. CASE a < u
    <3>1. k <= 76 * u
      BY <2>2, <1>1, <1>7
    <3>2. k <= full
      BY <3>1, <1>1, <1>5, <1>6, <1>7
    <3>3. p <= m - pads
      BY <2>2, <3>1, <1>1, <1>5, <1>6, <1>7
    <3> QED
      BY <3>2, <3>3
  <2>3. a <= u
    BY <1>1, <1>5, <1>7
  <2> QED
    BY <2>1, <2>2, <2>3, <1>1, <1>7
<1> QED
  BY <1>4, <1>8, <1>9 DEF p, m, pads, full, g, u

(* That text is base64 of the bytes.                                         *)
LEMMA TextIsBase64 ==
  ASSUME NEW bytes \in Seq(0 .. 255), NEW out, Padded(bytes, out)
  PROVE  IsBase64Of(out, bytes) /\ (Contains(out, LineBreak) <=> Len(bytes) > 57)
<1> DEFINE n == Len(bytes)
           full == (8 * n + 5) \div 6
           padded == 4 * ((n + 2) \div 3)
           breaks == IF n = 0 THEN 0 ELSE (n - 1) \div 57
           pads == (3 - (n % 3)) % 3
           m == Len(out)
           CharPut(k) == out[k + ((k - 1) \div 76)]
<1>1. /\ out \in Seq(0 .. 65) /\ m = padded + breaks
      /\ \A p \in 1 .. m : out[p] = IF p <= m - pads THEN TextAt(bytes, p) ELSE Pad
  BY DEF Padded, BreaksDone
<1>2. n \in Nat /\ m \in Nat /\ padded \in Nat /\ full \in Nat /\ full <= padded /\ pads \in 0 .. 2
  <2>1. n \in Nat
    OBVIOUS
  <2>2. m \in Nat
    <3>1. out \in Seq(0 .. 65)
      BY <1>1
    <3> QED
      BY <3>1
  <2> HIDE DEF n, m
  <2> QED
    BY <2>1, <2>2
<1>3. breaks \in Nat /\ (breaks >= 1 <=> n > 57) /\ \A j \in 1 .. breaks : 77 * j \in 1 .. m - pads
  <2> HIDE DEF n
  <2>1. breaks \in Nat /\ (breaks >= 1 <=> n > 57)
    BY <1>2
  <2>2. ASSUME NEW j \in 1 .. breaks PROVE 77 * j \in 1 .. m - pads
    <3>1. n >= 1 /\ 57 * breaks <= n - 1
      BY <1>2, <2>2
    <3>2. 76 * breaks <= padded - 4
      <4>1. 19 * breaks <= (n + 2) \div 3 - 1
        <5> HIDE DEF breaks
        <5> QED
          BY <1>2, <2>1, <3>1
      <4> DEFINE g == (n + 2) \div 3
      <4>2. g \in Nat /\ padded = 4 * g
        BY <1>2
      <4> HIDE DEF g, breaks, padded
      <4>3. 19 * breaks <= g - 1
        BY <4>1 DEF g
      <4> QED
        BY <2>1, <4>2, <4>3
    <3> HIDE DEF breaks, padded, pads, m
    <3> QED
      BY <1>1, <1>2, <2>1, <3>2
  <2> QED
    BY <2>1, <2>2
<1>4. \A j \in 1 .. breaks : out[77 * j] = LineBreak
  <2> TAKE j \in 1 .. breaks
  <2>1. 77 * j \in 1 .. m - pads /\ j \in Nat
    BY <1>3
  <2> HIDE DEF n, m, pads, breaks
  <2>2. (77 * j) % 77 = 0 /\ 77 * j \in 1 .. m /\ 77 * j <= m - pads
    BY <2>1, <1>2
  <2> QED
    BY <1>1, <2>2 DEF TextAt
<1>5. ASSUME NEW k \in 1 .. padded
      PROVE  CharPut(k) = (IF k <= full THEN CharAt(bytes, k) ELSE Pad)
  <2> DEFINE p == k + ((k - 1) \div 76)
  <2>1. /\ p \in 1 .. padded + BreaksDone(n)
        /\ p % 77 # 0 /\ p - (p \div 77) = k
        /\ p <= (padded + BreaksDone(n)) - pads <=> k <= full
    <3>1. k \in Nat \ {0} /\ k <= 4 * ((n + 2) \div 3)
      BY <1>2
    <3> HIDE DEF n
    <3> QED
      BY <1>2, <3>1, PlaceOf
  <2>2. padded + BreaksDone(n) = m
    BY <1>1 DEF BreaksDone
  <2> HIDE DEF p, n, padded, pads, m, full
  <2>3. CharPut(k) = out[p]
    BY DEF p
  <2>4. p \in 1 .. m /\ (p <= m - pads <=> k <= full)
    BY <2>1, <2>2
  <2>5. TextAt(bytes, p) = CharAt(bytes, k)
    BY <2>1 DEF TextAt
  <2> HIDE DEF CharPut
  <2> QED
    BY <1>1, <2>3, <2>4, <2>5
<1>6. \A k \in 1 .. padded : IF k <= full THEN CharPut(k) \in 0 .. 63 ELSE CharPut(k) = Pad
  <2> TAKE k \in 1 .. padded
  <2>1. k \in Nat \ {0}
    BY <1>2
  <2>2. CharAt(bytes, k) \in 0 .. 63
    BY <2>1, CharsFit
  <2> HIDE DEF CharPut, padded, full, n
  <2> QED
    BY <1>5, <2>2
<1>7. ASSUME NEW i \in 1 .. 6 * full
      PROVE  Bit(CharPut(((i - 1) \div 6) + 1), 6, ((i - 1) % 6) + 1)
               = IF i <= 8 * n THEN Bit(bytes[((i - 1) \div 8) + 1], 8, ((i - 1) % 8) + 1) ELSE 0
  <2> DEFINE k == ((i - 1) \div 6) + 1
             g == (i - 1) \div 24
             o == (i - 1) % 24
             a == ByteAt(bytes, 3 * g + 1)
             b == ByteAt(bytes, 3 * g + 2)
             c == ByteAt(bytes, 3 * g + 3)
             y == ((i - 1) \div 8) + 1
             e == ((i - 1) % 8) + 1
  <2>1. i \in Nat /\ i >= 1 /\ i <= 6 * full
    <3> HIDE DEF full
    <3> QED
      BY <1>2
  <2>2. k \in 1 .. full
    <3> HIDE DEF full
    <3> QED
      BY <1>2, <2>1
  <2>3. /\ g \in Nat /\ o \in 0 .. 23 /\ i - 1 = 24 * g + o
    <3> HIDE DEF full
    <3> QED
      BY <2>1
  <2>4. /\ (k - 1) \div 4 = g /\ (k - 1) % 4 = o \div 6 /\ (i - 1) % 6 = o % 6
        /\ y = 3 * g + (o \div 8) + 1 /\ e = (o % 8) + 1
    <3> HIDE DEF g, o, full
    <3>1. k - 1 = 4 * g + (o \div 6) /\ o \div 6 \in 0 .. 3
      BY <2>1, <2>3
    <3>2. (i - 1) % 6 = o % 6
      BY <2>1, <2>3
    <3>3. y = 3 * g + (o \div 8) + 1 /\ e = (o % 8) + 1
      BY <2>1, <2>3
    <3> HIDE DEF k, y, e
    <3>4. (k - 1) \div 4 = g /\ (k - 1) % 4 = o \div 6
      <4> DEFINE w == o \div 6
                 j == k - 1
      <4>1. j = 4 * g + w /\ w \in 0 .. 3 /\ g \in Nat
        BY <3>1, <2>3
      <4> HIDE DEF w, j
      <4>2. j \div 4 = g /\ j % 4 = w
        BY <4>1
      <4> QED
        BY <4>2 DEF w, j
    <3> QED
      BY <3>2, <3>3, <3>4
  <2> HIDE DEF k, g, o, full, y, e
  <2>5. CharPut(k) = CharAt(bytes, k)
    <3>1. k \in 1 .. padded /\ k <= full
      <4> HIDE DEF padded
      <4> QED
        BY <1>2, <2>2
    <3> HIDE DEF CharPut, padded
    <3> QED
      BY <1>5, <3>1
  <2>6. CharAt(bytes, k) = Sextets(Word(a, b, c))[(o \div 6) + 1]
    BY <2>4 DEF CharAt, GroupOf
  <2>7. a \in 0 .. 255 /\ b \in 0 .. 255 /\ c \in 0 .. 255
    BY <2>3, BytesFit
  <2>8. <<a, b, c>>[(o \div 8) + 1] = ByteAt(bytes, y)
    <3>1. o \div 8 = 0 \/ o \div 8 = 1 \/ o \div 8 = 2
      BY <2>3
    <3> DEFINE three == <<a, b, c>>
    <3>2. three[1] = a /\ three[2] = b /\ three[3] = c
      OBVIOUS
    <3> HIDE DEF three
    <3>3. CASE o \div 8 = 0
      <4>1. (o \div 8) + 1 = 1 /\ y = 3 * g + 1
        BY <3>3, <2>3, <2>4
      <4> QED
        BY <4>1, <3>2 DEF three
    <3>4. CASE o \div 8 = 1
      <4>1. (o \div 8) + 1 = 2 /\ y = 3 * g + 2
        BY <3>4, <2>3, <2>4
      <4> QED
        BY <4>1, <3>2 DEF three
    <3>5. CASE o \div 8 = 2
      <4>1. (o \div 8) + 1 = 3 /\ y = 3 * g + 3
        BY <3>5, <2>3, <2>4
      <4> QED
        BY <4>1, <3>2 DEF three
    <3> QED
      BY <3>1, <3>3, <3>4, <3>5
  <2> HIDE DEF a, b, c, CharPut
  <2>9. Bit(CharPut(k), 6, (o % 6) + 1) = Bit(ByteAt(bytes, y), 8, e)
    <3>1. Bit(Sextets(Word(a, b, c))[(o \div 6) + 1], 6, (o % 6) + 1)
            = Bit(<<a, b, c>>[(o \div 8) + 1], 8, (o % 8) + 1)
      BY <2>3, <2>7, SextetBits
    <3> QED
      BY <3>1, <2>4, <2>5, <2>6, <2>8
  <2>10. CASE i <= 8 * n
    <3>1. y \in 1 .. n
      <4> HIDE DEF n
      <4> QED
        BY <2>10, <2>1, <1>2 DEF y
    <3>2. ByteAt(bytes, y) = bytes[y]
      BY <3>1 DEF ByteAt
    <3> HIDE DEF n
    <3> QED
      BY <2>4, <2>9, <2>10, <3>2 DEF k, y, e
  <2>11. CASE ~(i <= 8 * n)
    <3>1. y \notin 1 .. n
      <4> HIDE DEF n
      <4> QED
        BY <2>11, <2>1, <1>2 DEF y
    <3>2. ByteAt(bytes, y) = 0
      BY <3>1 DEF ByteAt
    <3>3. e \in 1 .. 8
      BY <2>1 DEF e
    <3>4. Bit(ByteAt(bytes, y), 8, e) = 0
      BY <3>2, <3>3, NoBits
    <3> HIDE DEF n
    <3> QED
      BY <2>4, <2>9, <2>11, <3>4 DEF k
  <2> QED
    BY <2>10, <2>11
<1>8. IsBase64Of(out, bytes)
  <2>1. m = padded + breaks
    BY <1>1
  <2> HIDE DEF n, full, padded, breaks, m, CharPut, pads
  <2> QED
    BY <2>1, <1>4, <1>6, <1>7 DEF IsBase64Of, n, full, padded, breaks, m, CharPut
<1>9. n > 57 => Contains(out, LineBreak)
  <2> SUFFICES ASSUME n > 57 PROVE Contains(out, LineBreak)
    OBVIOUS
  <2> HIDE DEF n, full, padded, breaks, m, pads
  <2>1. 1 \in 1 .. breaks
    BY <1>3
  <2>2. PICK j \in 1 .. breaks : out[77 * j] = LineBreak /\ 77 * j \in 1 .. m - pads
    BY <2>1, <1>3, <1>4, Zenon
  <2>3. 77 * j \in 1 .. m
    BY <2>2, <1>2
  <2> QED
    BY <2>2, <2>3 DEF Contains, m
<1>10. Contains(out, LineBreak) => n > 57
  <2> SUFFICES ASSUME ~(n > 57), NEW p \in 1 .. m PROVE out[p] # LineBreak
    BY DEF Contains
  <2>1. breaks = 0 /\ m <= 76
    <3>1. breaks = 0 /\ padded <= 76
      <4> HIDE DEF n
      <4> QED
        BY <1>2
    <3> HIDE DEF breaks, padded, m
    <3> QED
      BY <3>1, <1>1, <1>2
  <2> HIDE DEF n, full, padded, breaks, m, pads
  <2>2. p % 77 # 0 /\ p - (p \div 77) = p /\ p \in Nat \ {0}
    BY <2>1, <1>2
  <2>3. TextAt(bytes, p) = CharAt(bytes, p)
    BY <2>2 DEF TextAt
  <2>4. CharAt(bytes, p) \in 0 .. 63
    BY <2>2, CharsFit
  <2>5. out[p] = CharAt(bytes, p) \/ out[p] = Pad
    BY <1>1, <2>3
  <2>6. Pad # LineBreak
    BY DEF Pad, LineBreak
  <2>7. CharAt(bytes, p) # LineBreak
    <3>1. \A x \in 0 .. 63 : x # 65
      OBVIOUS
    <3> QED
      BY <2>4, <3>1 DEF LineBreak
  <2> QED
    BY <2>5, <2>6, <2>7
<1> QED
  BY <1>8, <1>9, <1>10

(* The loop has written what belongs to the bytes it has read (EncodedTo),   *)
(* and the text it returns is base64 of them all.                            *)
HeaderInv ==
  /\ aBytes \in Seq(0 .. 255) /\ nIdx \in 0 .. Len(aBytes) /\ encoded \in BOOLEAN
  /\ ~encoded => EncodedTo(aBytes, nIdx, nUint24, sB64Enc)
  /\ encoded => nIdx = Len(aBytes) /\ Padded(aBytes, sB64Enc)

LEMMA HeaderStart == FilenameInit => HeaderInv
<1> SUFFICES ASSUME FilenameInit PROVE HeaderInv
  OBVIOUS
<1>1. /\ aBytes = FlattenSeq([i \in DOMAIN fileName |-> UnitBytes(fileName[i])])
      /\ nIdx = 0 /\ nUint24 = 0 /\ sB64Enc = <<>> /\ encoded = FALSE
  BY DEF FilenameInit, StrToUTF8Arr
<1>2. fileName \in Seq(Units)
  <2>1. fileName \in AnyNames \cup EvenNames
    BY DEF FilenameInit
  <2>2. fileName \in AnyNames => fileName \in Seq(Units)
    <3> SUFFICES ASSUME fileName \in AnyNames PROVE fileName \in Seq(Units)
      OBVIOUS
    <3>1. PICK n \in 0 .. ShortNames : fileName \in [1 .. n -> Units]
      BY DEF AnyNames
    <3>2. n \in Nat
      BY FilenameAssumption
    <3> QED
      BY <3>1, <3>2
  <2>3. fileName \in EvenNames => fileName \in Seq(Units)
    <3> SUFFICES ASSUME fileName \in EvenNames PROVE fileName \in Seq(Units)
      OBVIOUS
    <3>1. PICK n \in LongNames, u \in Units : fileName = [i \in 1 .. n |-> u]
      BY DEF EvenNames
    <3>2. n \in Nat
      BY FilenameAssumption
    <3> QED
      BY <3>1, <3>2
  <2> QED
    BY <2>1, <2>2, <2>3
<1> DEFINE S == 0 .. 255
           parts == [i \in DOMAIN fileName |-> UnitBytes(fileName[i])]
<1>3. \A x \in Units : UnitBytes(x) \in Seq(S)
  <2> TAKE x \in Units
  <2>1. x \in Nat /\ x < 65536
    BY FilenameAssumption
  <2>2. CASE x < 128
    <3>1. UnitBytes(x) = <<x>>
      BY <2>1, <2>2 DEF UnitBytes
    <3>2. x \in S
      BY <2>1, <2>2
    <3> QED
      BY <3>1, <3>2
  <2>3. CASE x >= 128 /\ x < 2048
    <3>1. UnitBytes(x) = <<192 + (x \div 64), 128 + (x % 64)>>
      BY <2>1, <2>3 DEF UnitBytes
    <3>2. 192 + (x \div 64) \in S /\ 128 + (x % 64) \in S
      BY <2>1, <2>3
    <3> QED
      BY <3>1, <3>2
  <2>4. CASE x >= 2048
    <3>1. UnitBytes(x) = <<224 + (x \div 4096), 128 + ((x \div 64) % 64), 128 + (x % 64)>>
      BY <2>1, <2>4 DEF UnitBytes
    <3>2. 224 + (x \div 4096) \in S /\ 128 + ((x \div 64) % 64) \in S /\ 128 + (x % 64) \in S
      BY <2>1, <2>4
    <3> QED
      BY <3>1, <3>2
  <2> QED
    BY <2>1, <2>2, <2>3, <2>4
<1>4. parts \in Seq(Seq(S))
  <2>1. DOMAIN fileName = 1 .. Len(fileName) /\ Len(fileName) \in Nat
        /\ \A i \in 1 .. Len(fileName) : fileName[i] \in Units
    BY <1>2
  <2>2. parts \in [1 .. Len(fileName) -> Seq(S)]
    <3> HIDE DEF S
    <3> QED
      BY <1>3, <2>1
  <2> HIDE DEF parts, S
  <2> QED
    BY <2>1, <2>2
<1>5. aBytes \in Seq(S)
  <2> HIDE DEF S, parts
  <2>1. <<>> \in Seq(S)
    OBVIOUS
  <2>2. FlattenSeq(parts) \in Seq(S)
    BY <1>4, <2>1, Flattened
  <2> QED
    BY <1>1, <2>2 DEF parts
<1>6. EncodedTo(aBytes, 0, 0, <<>>)
  <2> DEFINE n == Len(aBytes)
  <2>1. n \in Nat
    BY <1>5
  <2> HIDE DEF n
  <2>2. GroupsDone(n, 0) = 0 /\ BreaksDone(0) = 0
    BY <2>1 DEF GroupsDone, BreaksDone
  <2>3. Holding(aBytes, 0) = 0
    BY DEF Holding
  <2>4. Written(<<>>, aBytes)
    BY DEF Written
  <2> QED
    BY <2>2, <2>3, <2>4 DEF EncodedTo, n
<1> HIDE DEF S, parts
<1>7. nIdx \in 0 .. Len(aBytes)
  BY <1>1, <1>5
<1>8. EncodedTo(aBytes, nIdx, nUint24, sB64Enc)
  BY <1>1, <1>6
<1>9. aBytes \in Seq(0 .. 255)
  BY <1>5 DEF S
<1> QED
  BY <1>1, <1>7, <1>8, <1>9 DEF HeaderInv

LEMMA HeaderStep == HeaderInv /\ (FilenameNext \/ UNCHANGED headerVars) => HeaderInv'
<1> SUFFICES ASSUME HeaderInv, FilenameNext \/ UNCHANGED headerVars PROVE HeaderInv'
  OBVIOUS
<1>1. CASE EncodeByte
  <2>1. nIdx < Len(aBytes) /\ nIdx \in Nat /\ ~encoded /\ aBytes \in Seq(0 .. 255)
    <3>1. Len(aBytes) \in Nat
      BY DEF HeaderInv
    <3> QED
      BY <1>1, <3>1 DEF EncodeByte, HeaderInv
  <2> DEFINE break == IF nIdx > 0 /\ nIdx % 57 = 0 THEN <<LineBreak>> ELSE <<>>
             sum == nUint24 + aBytes[nIdx + 1] * (CASE nIdx % 3 = 0 -> 65536
                                                    [] nIdx % 3 = 1 -> 256
                                                    [] nIdx % 3 = 2 -> 1)
             full == nIdx % 3 = 2 \/ nIdx = Len(aBytes) - 1
  <2>2. /\ sB64Enc' = sB64Enc \o break \o (IF full THEN Sextets(sum) ELSE <<>>)
        /\ nUint24' = IF full THEN 0 ELSE sum
        /\ nIdx' = nIdx + 1 /\ aBytes' = aBytes /\ encoded' = encoded
    BY <1>1 DEF EncodeByte
  <2>3. EncodedTo(aBytes, nIdx, nUint24, sB64Enc)
    BY <2>1 DEF HeaderInv
  <2>4. EncodedTo(aBytes, nIdx + 1, IF full THEN 0 ELSE sum,
                  sB64Enc \o break \o (IF full THEN Sextets(sum) ELSE <<>>))
    BY <2>1, <2>3, EncodesByte
  <2> HIDE DEF break, sum, full
  <2>5. EncodedTo(aBytes', nIdx', nUint24', sB64Enc')
    BY <2>2, <2>4
  <2>6. nIdx' \in 0 .. Len(aBytes')
    <3>1. Len(aBytes) \in Nat
      BY <2>1
    <3> QED
      BY <2>1, <2>2, <3>1
  <2> QED
    BY <2>1, <2>2, <2>5, <2>6 DEF HeaderInv
<1>2. CASE FinishEncoding
  <2>1. /\ nIdx = Len(aBytes) /\ ~encoded /\ encoded' = TRUE
        /\ sB64Enc' = LET pads == (3 - (nIdx % 3)) % 3
                      IN  SubSeq(sB64Enc, 1, Len(sB64Enc) - pads) \o [i \in 1 .. pads |-> Pad]
        /\ aBytes' = aBytes /\ nIdx' = nIdx
    BY <1>2 DEF FinishEncoding
  <2>2. EncodedTo(aBytes, Len(aBytes), nUint24, sB64Enc) /\ aBytes \in Seq(0 .. 255)
    BY <2>1 DEF HeaderInv
  <2>3. Padded(aBytes, sB64Enc')
    BY <2>1, <2>2, PadsText
  <2> QED
    BY <2>1, <2>3 DEF HeaderInv
<1>3. CASE UNCHANGED headerVars
  BY <1>3 DEF headerVars, HeaderInv
<1> QED
  BY <1>1, <1>2, <1>3 DEF FilenameNext

LEMMA HeaderHolds == HeaderInv => HeaderHoldsName
  BY TextIsBase64 DEF HeaderInv, HeaderHoldsName

-----------------------------------------------------------------------------
(*****************************************************************************)
(* What the forms of the site send is what they show: the list of links that *)
(* a form sends is the one on the page, with every row once and no section   *)
(* without something in it (reorderable.js, link_editor.ts); the picture     *)
(* that an image selector shows is the one the site then has                 *)
(* (image_selector.ts); what Save sends of a snippet is what its form shows  *)
(* (snippetedit.js); and the header of an upload holds the base64 of the     *)
(* file's name (base64.ts).  The invariants of the four scripts are in the   *)
(* sections above.                                                           *)
(*****************************************************************************)
THEOREM FormsAreSound == FrontEndSpec => []FormsSendWhatTheyShow
<1>1. FrontEndInit => LinksInv /\ HeaderInv
  BY LinksStart, HeaderStart DEF FrontEndInit
<1>2. LinksInv /\ HeaderInv /\ [FrontEndNext]_frontEndVars => LinksInv' /\ HeaderInv'
  BY FrontEndSteps, LinksStep, HeaderStep
<1>3. LinksInv /\ HeaderInv => LinksSound /\ HeaderHoldsName
  BY LinksAreSound, HeaderHolds
<1>4. FrontEndSpec => [](LinksSound /\ HeaderHoldsName)
  BY <1>1, <1>2, <1>3, PTL DEF FrontEndSpec
<1>5. FrontEndSpec => []ShownIsSaved
  BY ShownPictureIsSaved
<1>6. FrontEndSpec => []SaveSendsShown
  BY SaveIsWhatIsShown
<1> QED
  BY <1>4, <1>5, <1>6, PTL DEF FormsSendWhatTheyShow
================================================================================
