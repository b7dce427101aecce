------------------------------- MODULE Perfmon -------------------------------
(***************************************************************************)
(* The page that shows how long requests took: perfmon.js, on the records  *)
(* website/perfmon.go makes of the requests' blocks.  A block starts and   *)
(* ends; its parent is the innermost block it ended in.                    *)
(***************************************************************************)
EXTENDS Integers, Sequences, FiniteSets, SequencesExt

CONSTANTS
  Routes,      \* names of routes, none of them empty
  Durations,   \* durations of requests
  MaxData,     \* requests the collector holds
  MaxRecent,   \* 100
  MaxEnd,      \* a block starts and ends between 0 and MaxEnd
  MaxBlocks    \* blocks of one request

NoRoute == "no route"

ASSUME PerfmonAssumption ==
  /\ NoRoute \notin Routes
  /\ MaxRecent \in Nat \ {0}
  /\ Durations \subseteq Nat
  /\ MaxData \in Nat /\ MaxEnd \in Nat /\ MaxBlocks \in Nat

VARIABLES
  records,     \* the requests, oldest first: records of route and duration
  blocks,      \* of the request whose flame graph is drawn, in the order they started
  activeRoute,
  shown,       \* the records shown: indices
  marked       \* routes with the class bg4

perfmonVars == <<records, blocks, activeRoute, shown, marked>>

-----------------------------------------------------------------------------
\* The flame graph.  Of the open blocks o, outermost first, a block that ends
\* then is put into the innermost that does not end before; 0 is the request.
Innermost(bs, o, end) ==
  CHOOSE k \in 0 .. Len(o) :
    /\ k # 0 => end <= bs[o[k]].end
    /\ \A m \in k + 1 .. Len(o) : end > bs[o[m]].end

\* The blocks that are open when a block has started, itself the last.
Open(bs) ==
  LET open[i \in 0 .. Len(bs)] ==
        IF i = 0 THEN <<>>
        ELSE Append(SubSeq(open[i - 1], 1, Innermost(bs, open[i - 1], bs[i].end)), i)
  IN open

Parents(bs) ==
  LET open == Open(bs)
  IN [i \in DOMAIN bs |-> IF Len(open[i]) = 1 THEN 0 ELSE open[i][Len(open[i]) - 1]]

\* placeFlameItems: the row of a block is its depth.
Depths(bs) ==
  LET open == Open(bs) IN [i \in DOMAIN bs |-> Len(open[i]) - 1]

\* Blocks a request can have: started in order, each ended before the ones
\* that were open when it started.
WellNested(bs) ==
  \A i, j \in DOMAIN bs : i < j =>
    /\ bs[i].start <= bs[j].start
    /\ bs[j].start < bs[i].end => bs[j].end <= bs[i].end

Blocks == [start : 0 .. MaxEnd, end : 0 .. MaxEnd]

-----------------------------------------------------------------------------
\* The newest requests first.
Newest == [k \in DOMAIN records |-> Len(records) + 1 - k]

Recents == SubSeq(Newest, 1, IF Len(Newest) < MaxRecent THEN Len(Newest) ELSE MaxRecent)

\* A route's requests, the slowest first; of two as slow, the newest.
Precedes(m, n) ==
  \/ records[m].duration > records[n].duration
  \/ records[m].duration = records[n].duration /\ m > n

RouteRecords(r) ==
  LET found == {n \in DOMAIN records : records[n].route = r}
  IN [k \in 1 .. Cardinality(found) |->
        CHOOSE n \in found : Cardinality({m \in found : Precedes(m, n)}) = k - 1]

PerfmonInit ==
  /\ records \in UNION {[1 .. n -> [route : Routes, duration : Durations]] :
                          n \in 1 .. MaxData}
  /\ blocks \in UNION {[1 .. n -> Blocks] : n \in 0 .. MaxBlocks}
  /\ \A i \in DOMAIN blocks : blocks[i].start <= blocks[i].end
  /\ WellNested(blocks)
  /\ activeRoute = NoRoute
  /\ shown = Recents
  /\ marked = {}

ClickRoute(r) ==
  /\ \E k \in DOMAIN records : records[k].route = r
  /\ IF r = activeRoute
     THEN /\ activeRoute' = NoRoute
          /\ marked' = marked \ {r}
          /\ shown' = Recents
     ELSE /\ activeRoute' = r
          /\ marked' = {r}
          /\ shown' = RouteRecords(r)
  /\ UNCHANGED <<records, blocks>>

PerfmonNext == \E r \in Routes : ClickRoute(r)

PerfmonSpec == PerfmonInit /\ [][PerfmonNext]_perfmonVars

-----------------------------------------------------------------------------
(***************************************************************************)
(* In the flame graph a block is drawn below the block it ran in, and no   *)
(* two blocks of one row overlap; the requests shown are those of the      *)
(* route marked, all of them, whatever was clicked before.                 *)
(***************************************************************************)
FlamesNest ==
  /\ IF marked = {}
     THEN shown = Recents
     ELSE /\ marked = {activeRoute}
          /\ ToSet(shown) = {n \in DOMAIN records : records[n].route = activeRoute}
  /\ \A i, j \in DOMAIN blocks :
       /\ LET p == Parents(blocks)[i]
          IN p # 0 => blocks[p].start <= blocks[i].start /\ blocks[i].end <= blocks[p].end
       /\ i < j /\ Depths(blocks)[i] = Depths(blocks)[j]
            => blocks[i].end <= blocks[j].start
=============================================================================
