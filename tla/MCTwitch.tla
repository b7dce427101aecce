-------------------------------- MODULE MCTwitch --------------------------------
(* Bounds of Twitch that a configuration cannot write. *)
EXTENDS Twitch

Limit(first, who, n, m) ==
  [configured |-> TRUE, tracked |-> first, streamers |-> who, timers |-> {"t"},
   streams |-> n, events |-> m]
Off == [Limit({}, {}, 0, 0) EXCEPT !.configured = FALSE, !.timers = {}]

\* One streamer with two streams, or with more that happens; one that is added; and two
\* whose rows synchronisations fight about.
SomeLimits ==
  {Off, Limit({"a"}, {"a"}, 2, 1), Limit({"a"}, {"a"}, 1, 2),
   Limit({"a"}, {"a", "b"}, 1, 1), Limit({"a", "b"}, {"a", "b"}, 0, 2)}

Bound(who, busy, n, m, k) ==
  [broadcasters |-> who, jobs |-> busy, past |-> n, news |-> m, mishaps |-> k]
Both == {"loop", "t"}

\* The list and the posts together, and each alone, with more of it.
SomeBounds ==
  {Bound({}, {}, 0, 0, 0),
   Bound({"a"}, Both, 1, 2, 1), Bound({"a"}, {"loop"}, 2, 3, 1),
   Bound({"a", "b"}, Both, 0, 3, 0), Bound({"a", "b"}, Both, 0, 2, 2),
   Bound({}, Both, 1, 3, 0), Bound({}, Both, 2, 2, 1)}
=============================================================================
