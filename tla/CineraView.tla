------------------------------ MODULE CineraView ------------------------------
(***************************************************************************)
(* The size of an annotated episode's page: the regular, theatre and full  *)
(* screen views the user switches between, remembered in localStorage, and *)
(* the layout for small windows (cinera_player_pre.js and _post.js).       *)
(***************************************************************************)
EXTENDS Integers

CONSTANT MaxControls   \* the bound of the buttons that failed layouts leave

VARIABLES
  \* the page: it has a marker of the next or the last episode; its script got
  \* past the player's construction; YouTube's player is there
  rightmost, constructed, answered,
  \* cineraProps: the view, the device, and the styles to go back to
  V, D, savedStyle,
  style,         \* of the element cinera
  dataId,        \* of the button for the theatre: what a click on it does
  viewsShown,    \* the list of views hangs open
  storage,       \* localStorage: cineraView
  titles,        \* the menus' titles
  menuTop,       \* where the menus hang: "100%", or measured in some style
  prevControls, nextControls,   \* the buttons to the previous and next marker
  markersHeight, \* of the list of markers: "auto", or the height of the video
  \* the browser
  window,        \* "large" or "small"
  resized,       \* the event resize is under way
  fullScreen,
  requested,     \* full screen was asked for, and not yet entered
  overtaken      \* full screen was entered after its mode had been left

propVars == <<V, D, savedStyle, style, dataId, storage>>
layoutVars == <<titles, menuTop, prevControls, nextControls, markersHeight>>
browserVars == <<window, resized, fullScreen, requested, overtaken>>
episodeVars == <<rightmost, constructed, answered>>
viewVars == <<episodeVars, propVars, viewsShown, layoutVars, browserVars>>

REGULAR == 0
THEATRE == 1
SUPERTHEATRE == 2
Views == {REGULAR, THEATRE, SUPERTHEATRE}
NoStyle == "null"

-----------------------------------------------------------------------------
\* In the style given: the menus' place is measured when the layout changes.
\* Without a marker to put it before, the button to the next one is not put in
\* and the function throws: it does not reach its end.
SwitchToMobileView(st) ==
  /\ prevControls < MaxControls
  /\ titles' = "icons" /\ menuTop' = st
  /\ markersHeight' = "auto"
  /\ prevControls' = prevControls + 1
  /\ IF rightmost THEN nextControls' = nextControls + 1 /\ D' = "mobile"
     ELSE UNCHANGED <<nextControls, D>>

\* The buttons stay on the page.
SwitchToDesktopOnly ==
  /\ D' = "desktop" /\ titles' = "original" /\ menuTop' = "100%"
  /\ markersHeight' = "video"
  /\ UNCHANGED <<prevControls, nextControls>>

SwitchToDesktopView ==
  /\ D' = "desktop" /\ titles' = "original" /\ menuTop' = "100%"
  /\ prevControls' = prevControls - 1 /\ nextControls' = nextControls - 1
  /\ markersHeight' = "video"

UpdateSize(st) ==
  \/ window = "large" /\ D = "mobile" /\ SwitchToDesktopView
  \/ window = "small" /\ D = "desktop" /\ SwitchToMobileView(st)
  \/ /\ window = "large" /\ D = "desktop" /\ markersHeight' = "video"
     /\ UNCHANGED <<D, titles, menuTop, prevControls, nextControls>>
  \/ window = "small" /\ D = "mobile" /\ UNCHANGED <<D, layoutVars>>

\* player.updateSize() throws where no player was constructed, too.
PlayerUpdateSize(st) == IF constructed THEN UpdateSize(st) ELSE UNCHANGED <<D, layoutVars>>

UpdateThrows == ~constructed \/ (window = "small" /\ ~rightmost)

EnterTheatre(st) ==
  /\ savedStyle' = st /\ style' = "theatre"
  /\ dataId' = "regular"

LeaveTheatre ==
  /\ style' = savedStyle
  /\ dataId' = "theatre"
  /\ UNCHANGED savedStyle

LeaveFullScreen ==
  /\ fullScreen' = FALSE
  /\ resized' = (resized \/ fullScreen)
  /\ overtaken' = requested

\* The key of localStorage has its name only after the construction.
SetView(v) == V' = v /\ storage' = (IF constructed THEN v ELSE storage)

\* The key t, and a click on the theatre.
ToggleTheatreMode ==
  /\ IF V = REGULAR
     THEN /\ EnterTheatre(style)
          /\ SetView(THEATRE)
          /\ UNCHANGED <<fullScreen, resized, overtaken>>
     ELSE /\ IF V = SUPERTHEATRE THEN LeaveFullScreen
             ELSE UNCHANGED <<fullScreen, resized, overtaken>>
          /\ LeaveTheatre
          /\ SetView(REGULAR)
  /\ PlayerUpdateSize(style')
  /\ UNCHANGED <<episodeVars, viewsShown, window, requested>>

\* The key T, and a click on the full screen.  From the regular view it is
\* toggleTheatreMode first, and nothing more where that throws.
ToggleSuperTheatreMode ==
  /\ IF V = SUPERTHEATRE
     THEN /\ LeaveFullScreen
          /\ LeaveTheatre
          /\ SetView(REGULAR)
          /\ UNCHANGED requested
     ELSE /\ IF V = REGULAR THEN EnterTheatre(style)
             ELSE UNCHANGED <<savedStyle, style, dataId>>
          /\ IF V = REGULAR /\ UpdateThrows
             THEN SetView(THEATRE) /\ UNCHANGED requested
             ELSE SetView(SUPERTHEATRE) /\ requested' = TRUE
          /\ UNCHANGED <<fullScreen, resized, overtaken>>
  /\ PlayerUpdateSize(style')
  /\ UNCHANGED <<episodeVars, viewsShown, window>>

\* handleMouseOverViewsMenu
MouseEnterViews ==
  /\ viewsShown' = (V # SUPERTHEATRE)
  /\ UNCHANGED <<episodeVars, propVars, layoutVars, browserVars>>

MouseLeaveViews ==
  /\ viewsShown' = FALSE
  /\ UNCHANGED <<episodeVars, propVars, layoutVars, browserVars>>

OnResize ==
  /\ resized
  /\ resized' = FALSE
  /\ PlayerUpdateSize(style)
  /\ UNCHANGED <<episodeVars, V, savedStyle, style, dataId, storage, viewsShown, window,
                 fullScreen, requested, overtaken>>

\* onYoutubePlayerReady, of the object that was to be the player.
YoutubeAnswers ==
  /\ ~answered
  /\ answered' = TRUE
  /\ UpdateSize(style)
  /\ UNCHANGED <<rightmost, constructed, V, savedStyle, style, dataId, storage, viewsShown,
                 browserVars>>

\* The page is loaded again: the player's constructor lays it out, and a view
\* stored, whichever it is, is the theatre.  Where the layout throws the script
\* ends before that, and of the handlers only those set earlier are there.
LoadPage ==
  LET small == window = "small"
      fails == small /\ ~rightmost
  IN /\ constructed' = ~fails /\ answered' = FALSE
     /\ V' = (IF fails \/ storage = REGULAR THEN REGULAR ELSE THEATRE)
     /\ storage' = (IF fails THEN storage ELSE V')
     /\ style' = (IF V' = REGULAR THEN "regular" ELSE "theatre")
     /\ savedStyle' = (IF V' = REGULAR THEN NoStyle ELSE "regular")
     /\ dataId' = (IF V' = REGULAR THEN "theatre" ELSE "regular")
     /\ viewsShown' = FALSE
     /\ D' = (IF small /\ rightmost THEN "mobile" ELSE "desktop")
     /\ titles' = (IF small THEN "icons" ELSE "original")
     /\ menuTop' = (IF small THEN "regular" ELSE "100%")
     /\ prevControls' = (IF small THEN 1 ELSE 0)
     /\ nextControls' = (IF small /\ rightmost THEN 1 ELSE 0)
     /\ markersHeight' = (IF small THEN "auto" ELSE "video")
     /\ resized' = FALSE /\ fullScreen' = FALSE /\ requested' = FALSE /\ overtaken' = FALSE
     /\ UNCHANGED <<rightmost, window>>

-----------------------------------------------------------------------------
\* The browser: the user resizes the window, full screen is entered or refused
\* after the call, and Esc leaves it without telling the page.
ResizeWindow ==
  /\ ~fullScreen
  /\ window' = (IF window = "large" THEN "small" ELSE "large")
  /\ resized' = TRUE
  /\ UNCHANGED <<episodeVars, propVars, viewsShown, layoutVars, fullScreen, requested, overtaken>>

AnswerRequest ==
  /\ requested
  /\ requested' = FALSE
  /\ \/ fullScreen' = TRUE /\ resized' = TRUE /\ UNCHANGED overtaken
     \/ overtaken' = FALSE /\ UNCHANGED <<fullScreen, resized>>
  /\ UNCHANGED <<episodeVars, propVars, viewsShown, layoutVars, window>>

PressEsc ==
  /\ fullScreen
  /\ fullScreen' = FALSE /\ resized' = TRUE
  /\ overtaken' = requested
  /\ UNCHANGED <<episodeVars, propVars, viewsShown, layoutVars, window, requested>>

\* A first visit: nothing is stored.
ViewInit ==
  /\ rightmost \in BOOLEAN /\ constructed = TRUE /\ answered = FALSE
  /\ V = REGULAR /\ storage = REGULAR
  /\ savedStyle = NoStyle /\ style = "regular" /\ dataId = "theatre"
  /\ viewsShown = FALSE
  /\ D = "desktop" /\ titles = "original" /\ menuTop = "100%"
  /\ prevControls = 0 /\ nextControls = 0
  /\ markersHeight = "video"
  /\ window = "large" /\ resized = FALSE
  /\ fullScreen = FALSE /\ requested = FALSE /\ overtaken = FALSE

ViewNext ==
  \/ ToggleTheatreMode
  \/ ToggleSuperTheatreMode
  \/ MouseEnterViews \/ MouseLeaveViews
  \/ OnResize
  \/ YoutubeAnswers
  \/ LoadPage
  \/ ResizeWindow \/ AnswerRequest \/ PressEsc

ViewSpec == ViewInit /\ [][ViewNext]_viewVars

-----------------------------------------------------------------------------
(***************************************************************************)
(* However the views, the window's sizes and reloads follow each other,    *)
(* the regular view has the page's own styles again, what is stored and    *)
(* what the button does fit the view, and a page in full screen is in that *)
(* view; unless the user left the view before the browser had entered full *)
(* screen.  The small layout's buttons are there once and only there, on a *)
(* page with a marker to put them before; on the others the layout stays   *)
(* half done, its titles and menus as long as there is one of the buttons, *)
(* and a view is only forgotten where the script ended with the layout.    *)
(***************************************************************************)
LayoutFits ==
  /\ titles = "icons" <=> prevControls > 0
  /\ menuTop = "100%" <=> prevControls = 0
  /\ IF rightmost
     THEN /\ prevControls = (IF D = "mobile" THEN 1 ELSE 0) /\ nextControls = prevControls
          /\ markersHeight = (IF D = "mobile" THEN "auto" ELSE "video")
     ELSE D = "desktop" /\ nextControls = 0

ViewSound ==
  /\ constructed => storage = V
  /\ rightmost => constructed
  /\ ~constructed => prevControls > 0
  /\ style = (IF V = REGULAR THEN "regular" ELSE "theatre")
  /\ V # REGULAR => savedStyle = "regular"
  /\ dataId = (IF V = REGULAR THEN "theatre" ELSE "regular")
  /\ LayoutFits
  /\ constructed /\ ~resized => (markersHeight = "video" <=> window = "large")
  /\ rightmost /\ ~resized => (D = "mobile" <=> window = "small")
  /\ fullScreen => V = SUPERTHEATRE \/ overtaken
=============================================================================
