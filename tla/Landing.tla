------------------------------- MODULE Landing -------------------------------
(***************************************************************************)
(* Tabs that follow the URL's hash (lib/tabs.ts) and the news of the       *)
(* landing page (landing.ts).  A click selects a tab and changes the hash; *)
(* the browser reports every change of the hash later, in order.           *)
(***************************************************************************)
EXTENDS Integers, Sequences, SequencesExt

CONSTANTS
  TabNames,     \* the tabs of the page, in order
  Hashes,       \* hashes a URL may have: tabs, unknown names, NoHash
  Featured,     \* the tab shown when nobody is followed
  NewsPosts,    \* posts that may be the latest news
  MaxChanges    \* a bound on the changes of the hash not yet reported

NoHash == "no hash"
NoPost == "no post"

ASSUME LandingAssumption ==
  /\ TabNames # <<>>
  /\ NoHash \in Hashes /\ NoHash \notin ToSet(TabNames)
  /\ Featured \in ToSet(TabNames)

VARIABLES
  tab,          \* the tab that is not hidden
  activeButton, \* the button with tab-button-active
  hash,         \* document.location.hash
  hashEvents,   \* hashchange events to come: the new hashes
  latestNews,   \* the latest news post
  newsRead,     \* it has no data-unread
  newsHidden,   \* latestNews.hidden
  closedNews    \* localStorage's latest_news_closed

tabVars == <<tab, activeButton, hash, hashEvents>>
newsVars == <<latestNews, newsRead, newsHidden, closedNews>>
landingVars == <<tabVars, newsVars>>

FirstTab == TabNames[1]
Known(name) == name \in ToSet(TabNames)

\* selectTab: the tab, and the one it falls back on.
Resolve(name) == IF Known(name) THEN name ELSE FirstTab

SelectTab(name) == tab' = Resolve(name) /\ activeButton' = Resolve(name)

\* hideLatestNewsIfClosedOrRead
HiddenNews(post, read, closed) == read \/ closed = post

\* The initial tab: without a hash, Featured when the followed tab is empty.
InitialTabs(h) == IF h # NoHash THEN {Resolve(h)} ELSE {FirstTab, Featured}

\* initHashTabs
LandingInit ==
  /\ hash \in Hashes
  /\ tab \in InitialTabs(hash)
  /\ activeButton = tab
  /\ hashEvents = <<>>
  /\ latestNews \in NewsPosts
  /\ newsRead \in BOOLEAN
  /\ closedNews = NoPost
  /\ newsHidden = HiddenNews(latestNews, newsRead, closedNews)

ChangeHash(new) ==
  /\ hash' = new
  /\ hashEvents' = IF new = hash THEN hashEvents ELSE Append(hashEvents, new)

\* The hash stays as it is.
ClickTabOnly(name) ==
  /\ Len(hashEvents) < MaxChanges
  /\ SelectTab(name)
  /\ UNCHANGED <<hash, hashEvents, newsVars>>

ClickTab(name) ==
  /\ Len(hashEvents) < MaxChanges
  /\ SelectTab(name)
  /\ ChangeHash(name)
  /\ UNCHANGED newsVars

\* The user goes back, follows a link in the page, or edits the URL.
Navigate(new) ==
  /\ Len(hashEvents) < MaxChanges
  /\ new # hash
  /\ ChangeHash(new)
  /\ UNCHANGED <<tab, activeButton, newsVars>>

HashChange ==
  /\ hashEvents # <<>>
  /\ hashEvents' = Tail(hashEvents)
  /\ IF Head(hashEvents) = NoHash
     THEN UNCHANGED <<tab, activeButton>>
     ELSE SelectTab(Head(hashEvents))
  /\ UNCHANGED <<hash, newsVars>>

CloseNews ==
  /\ ~newsHidden
  /\ closedNews' = latestNews
  /\ newsHidden' = HiddenNews(latestNews, newsRead, latestNews)
  /\ UNCHANGED <<latestNews, newsRead, tabVars>>

\* The page is loaded again, perhaps after another post became the latest.
Reload(post, read) ==
  /\ <<post, read>> # <<latestNews, newsRead>>
  /\ latestNews' = post /\ newsRead' = read
  /\ newsHidden' = HiddenNews(post, read, closedNews)
  /\ tab' \in InitialTabs(hash)
  /\ activeButton' = tab'
  /\ hashEvents' = <<>>
  /\ UNCHANGED <<hash, closedNews>>

LandingNext ==
  \/ \E name \in ToSet(TabNames) : ClickTab(name)
  \/ \E new \in Hashes : Navigate(new)
  \/ HashChange
  \/ CloseNews
  \/ \E post \in NewsPosts, read \in BOOLEAN : Reload(post, read)

LandingSpec == LandingInit /\ [][LandingNext]_landingVars

-----------------------------------------------------------------------------
(***************************************************************************)
(* Once every change of the hash is reported the tab shown is the one the  *)
(* URL names, whatever clicks and navigations were in between: a link to   *)
(* the page as it is leads to the same tab.  The news that was closed last *)
(* is not shown, on any load of the page.                                  *)
(***************************************************************************)
TabFollowsHash ==
  /\ hashEvents = <<>> /\ hash # NoHash => tab = Resolve(hash)
  /\ activeButton = tab
  /\ ~newsHidden => latestNews # closedNews /\ ~newsRead
=============================================================================
