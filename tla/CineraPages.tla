------------------------------- MODULE CineraPages -------------------------------
(***************************************************************************)
(* The pages of the episode guide, together: an annotated episode, which   *)
(* has a player with a filter, menus that act on the same filter, and      *)
(* views; and the search over all episodes.  Their scripts share no state  *)
(* but the filter, so the behaviours of each are taken on their own.       *)
(***************************************************************************)
EXTENDS CineraPlayer, CineraMenus, CineraView, CineraSearch

VARIABLE script

\* The script's initial states, or one of them when it is not the one that runs.
ScriptLoaded(p, idle) == script = p \/ (script # p /\ idle)

CineraInit ==
  /\ script \in {"player", "menus", "view", "search"}
  /\ ScriptLoaded("menus", initState = {} /\ present = (CHOOSE bar \in MenuBars : TRUE))
  /\ PlayerInit /\ MenusInit
  /\ ViewInit /\ ScriptLoaded("view", rightmost)
  /\ ScriptLoaded("search", queryBox = NoQuery) /\ SearchInit

\* The script that runs takes a step, and the others none.
ScriptRuns(p) ==
  /\ script = p /\ UNCHANGED script
  /\ p # "player" => UNCHANGED <<frameVars, youtubePlayerReady, playVars, markVars, frames>>
  /\ p # "menus" => UNCHANGED <<shownVars, focusVars, pointed, linkAnnotation>>
  /\ p # "view" => UNCHANGED viewVars
  /\ p # "search" => UNCHANGED searchVars
  /\ p \in {"view", "search"} => UNCHANGED filterVars

CineraNext ==
  \/ script = "player" /\ PlayerNext /\ ScriptRuns("player")
  \/ script = "menus" /\ MenusNext /\ ScriptRuns("menus")
  \/ script = "view" /\ ViewNext /\ ScriptRuns("view")
  \/ script = "search" /\ SearchNext /\ ScriptRuns("search")

cineraVars == <<script, playerVars, menuVars, viewVars, searchVars>>

CineraSpec == CineraInit /\ [][CineraNext]_cineraVars
=============================================================================
