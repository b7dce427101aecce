----------------------------- MODULE RateLimiter -----------------------------
(***************************************************************************)
(* Client-side rate limiting of Discord's REST API: doWithRateLimiting and *)
(* the limiter and refiller of each bucket                                 *)
(* (src/src/discord/ratelimiting.go).                                      *)
(*                                                                         *)
(* Every request on a route whose bucket is known takes a token from the   *)
(* bucket's channel.  A goroutine per bucket refills it: it waits for a    *)
(* request to tell it when the window ends, sleeps until then, drains the  *)
(* channel and fills it again.  Both channels are Go channels: the one to  *)
(* the refiller is unbuffered and a request offers its news only if the    *)
(* refiller is waiting at that moment.                                     *)
(*                                                                         *)
(* Durations are left out: a sleep ends at some time.  A pause because of  *)
(* the global rate limit is a long stay at the head of the loop.           *)
(***************************************************************************)
EXTENDS Integers, FiniteSets

CONSTANTS
  Request,    \* the goroutines that call doWithRateLimiting
  Route,      \* names of routes
  Bucket,     \* names of buckets
  NoBucket,   \* a route, or a response, without a bucket
  Limit       \* X-RateLimit-Limit, below the capacity of the channel (1000)

ASSUME RateLimiterAssumption ==
  /\ IsFiniteSet(Request) /\ NoBucket \notin Bucket
  /\ Limit \in Nat \ {0}

VARIABLES
  buckets,    \* the bucket of each route, as far as it is known
  tokens,     \* what is in the channel `requests' of each bucket's limiter
  refiller,   \* what the bucket's refiller does; "none": there is no limiter
  granted,    \* tokens put into the channel since it was last drained
  lost,       \* history: granted tokens whose request told the refiller nothing
  req         \* the state of each call

vars == <<buckets, tokens, refiller, granted, lost, req>>

(* The local variables of a call: `bucket' is read once, `told' is what    *)
(* the response says.  `fresh': it holds a token of the current filling.   *)
Idle(rt) == [at |-> "idle", route |-> rt, bucket |-> NoBucket, told |-> NoBucket,
             refused |-> FALSE, fresh |-> FALSE]

TypeOK ==
  /\ buckets \in [Route -> Bucket \cup {NoBucket}]
  /\ tokens \in [Bucket -> 0 .. Limit]
  /\ refiller \in [Bucket -> {"none", "listening", "asleep", "filling"}]
  /\ granted \in [Bucket -> 0 .. Limit]
  /\ lost \in [Bucket -> 0 .. Limit]
  /\ req \in [Request ->
       [at : {"idle", "loop", "take", "send", "create", "tell"}, route : Route,
        bucket : Bucket \cup {NoBucket}, told : Bucket \cup {NoBucket},
        refused : BOOLEAN, fresh : BOOLEAN]]

Init ==
  /\ buckets = [rt \in Route |-> NoBucket]
  /\ tokens = [b \in Bucket |-> 0]
  /\ refiller = [b \in Bucket |-> "none"]
  /\ granted = [b \in Bucket |-> 0] /\ lost = [b \in Bucket |-> 0]
  /\ \E rt \in Route : req = [r \in Request |-> Idle(rt)]

limiters == <<tokens, refiller, granted, lost>>
-----------------------------------------------------------------------------
(* doWithRateLimiting *)

(* The bucket of the route is looked up once, before the loop. *)
Start(r, rt) ==
  /\ req[r].at = "idle"
  /\ req' = [req EXCEPT ![r] = [Idle(rt) EXCEPT !.at = "loop", !.bucket = buckets[rt]]]
  /\ UNCHANGED <<buckets, limiters>>

(* The head of the loop: with a limiter, wait for a token.  A retry goes   *)
(* on with the bucket it started with.                                     *)
Go(r) ==
  /\ req[r].at = "loop"
  /\ req' = [req EXCEPT ![r].at = IF req[r].bucket = NoBucket THEN "send" ELSE "take"]
  /\ UNCHANGED <<buckets, limiters>>

Take(r) ==
  LET b == req[r].bucket IN
  /\ req[r].at = "take" /\ tokens[b] > 0
  /\ tokens' = [tokens EXCEPT ![b] = @ - 1]
  /\ req' = [req EXCEPT ![r].at = "send", ![r].fresh = refiller[b] # "asleep"]
  /\ UNCHANGED <<buckets, refiller, granted, lost>>

(* The context is canceled while the call sleeps or waits for a token. *)
Interrupt(r) ==
  /\ req[r].at \in {"loop", "take"}
  /\ req' = [req EXCEPT ![r] = Idle(@.route)]
  /\ UNCHANGED <<buckets, limiters>>

(* The token of call r, if it has a fresh one, has told the refiller       *)
(* nothing.                                                                *)
LoseToken(r) ==
  lost' = IF req[r].fresh THEN [lost EXCEPT ![req[r].bucket] = @ + 1] ELSE lost

(* httpClient.Do returns an error: so does the call. *)
SendFails(r) ==
  /\ req[r].at = "send"
  /\ LoseToken(r)
  /\ req' = [req EXCEPT ![r] = Idle(@.route)]
  /\ UNCHANGED <<buckets, tokens, refiller, granted>>

(* A refused call (429) sleeps and tries again. *)
AfterResponse(w, refused) ==
  IF refused THEN [Idle(w.route) EXCEPT !.at = "loop", !.bucket = w.bucket]
  ELSE Idle(w.route)

(* The tokens of bucket b are no longer fresh. *)
Outdate(b, calls) ==
  [r \in Request |-> [calls[r] EXCEPT !.fresh = @ /\ calls[r].bucket # b]]

(* Mutant: only a request that was not refused has news for the refiller. *)
UpdateAccepted(r, refused) ==
  LET b == req[r].bucket
      calls == [req EXCEPT ![r] = AfterResponse(req[r], refused)] IN
  /\ refiller' = [refiller EXCEPT ![b] =
                    IF @ = "listening" /\ ~refused THEN "asleep" ELSE @]
  /\ req' = calls
  /\ UNCHANGED lost

(* update: the news are taken only by a refiller that is waiting for them. *)
Update(r, refused) ==
  LET b == req[r].bucket
      calls == [req EXCEPT ![r] = AfterResponse(req[r], refused)] IN
  IF refiller[b] = "listening"
  THEN /\ refiller' = [refiller EXCEPT ![b] = "asleep"]
       /\ req' = Outdate(b, calls)
       /\ UNCHANGED lost
  ELSE /\ LoseToken(r)
       /\ req' = calls
       /\ UNCHANGED refiller

(* A response for the limiter the call went through. *)
Respond(r, refused) ==
  /\ req[r].at = "send" /\ req[r].bucket # NoBucket
  /\ Update(r, refused)
  /\ UNCHANGED <<buckets, tokens, granted>>

(* A response that names another bucket than the call went through, or no  *)
(* bucket at all.                                                          *)
RespondOther(r, b, refused) ==
  /\ req[r].at = "send"
  /\ b # req[r].bucket \/ b = NoBucket
  /\ LoseToken(r)
  /\ req' = [req EXCEPT ![r].at = "create", ![r].told = b,
                        ![r].refused = refused, ![r].fresh = FALSE]
  /\ UNCHANGED <<buckets, tokens, refiller, granted>>

(* Headers that cannot be parsed tell nobody anything. *)
RespondGarbled(r, refused) ==
  /\ req[r].at = "send"
  /\ LoseToken(r)
  /\ req' = [req EXCEPT ![r] = AfterResponse(req[r], refused)]
  /\ UNCHANGED <<buckets, tokens, refiller, granted>>
-----------------------------------------------------------------------------
(* createLimiter holds limiterInitMutex until it has told the refiller. *)
MutexFree == \A r \in Request : req[r].at # "tell"

KnownBucket(r) ==
  /\ req[r].at = "create" /\ MutexFree
  /\ req[r].told # NoBucket => refiller[req[r].told] # "none"
  /\ buckets' = [buckets EXCEPT ![req[r].route] = req[r].told]
  /\ req' = [req EXCEPT ![r] = AfterResponse(req[r], req[r].refused)]
  /\ UNCHANGED limiters

(* A new limiter, pre-filled with what the response says remains. *)
NewLimiter(r, remaining) ==
  LET b == req[r].told IN
  /\ req[r].at = "create" /\ MutexFree
  /\ b # NoBucket /\ refiller[b] = "none"
  /\ buckets' = [buckets EXCEPT ![req[r].route] = b]
  /\ tokens' = [tokens EXCEPT ![b] = remaining]
  /\ granted' = [granted EXCEPT ![b] = remaining]
  /\ refiller' = [refiller EXCEPT ![b] = "listening"]
  /\ req' = [req EXCEPT ![r].at = "tell"]
  /\ UNCHANGED lost

(* Mutant: a limiter with tokens left is not told. *)
TellIfEmpty(r) ==
  LET b == req[r].told IN
  /\ req[r].at = "tell" /\ refiller[b] = "listening"
  /\ refiller' = [refiller EXCEPT ![b] = IF tokens[b] = 0 THEN "asleep" ELSE @]
  /\ req' = [req EXCEPT ![r] = AfterResponse(req[r], req[r].refused)]
  /\ UNCHANGED <<buckets, tokens, granted, lost>>

(* "Tell the refiller about its first refill", waiting until it listens. *)
TellRefiller(r) ==
  LET b == req[r].told IN
  /\ req[r].at = "tell" /\ refiller[b] = "listening"
  /\ refiller' = [refiller EXCEPT ![b] = "asleep"]
  /\ req' = Outdate(b, [req EXCEPT ![r] = AfterResponse(req[r], req[r].refused)])
  /\ UNCHANGED <<buckets, tokens, granted, lost>>
-----------------------------------------------------------------------------
(* Mutant: the channel is not drained. *)
WakeOnly(b) ==
  /\ refiller[b] = "asleep"
  /\ refiller' = [refiller EXCEPT ![b] = "filling"]
  /\ granted' = [granted EXCEPT ![b] = 0]
  /\ lost' = [lost EXCEPT ![b] = 0]
  /\ UNCHANGED <<buckets, tokens, req>>

(* The refiller of bucket b: it sleeps, drains the channel... *)
Wake(b) ==
  /\ refiller[b] = "asleep"
  /\ refiller' = [refiller EXCEPT ![b] = "filling"]
  /\ tokens' = [tokens EXCEPT ![b] = 0]
  /\ granted' = [granted EXCEPT ![b] = 0]
  /\ lost' = [lost EXCEPT ![b] = 0]
  /\ UNCHANGED <<buckets, req>>

(* ... fills it with maxRequests tokens, while requests take them... *)
Fill(b) ==
  /\ refiller[b] = "filling" /\ granted[b] < Limit
  /\ tokens' = [tokens EXCEPT ![b] = @ + 1]
  /\ granted' = [granted EXCEPT ![b] = @ + 1]
  /\ UNCHANGED <<buckets, refiller, lost, req>>

(* ... and waits for the first request of the next window. *)
Listen(b) ==
  /\ refiller[b] = "filling" /\ granted[b] = Limit
  /\ refiller' = [refiller EXCEPT ![b] = "listening"]
  /\ UNCHANGED <<buckets, tokens, granted, lost, req>>
-----------------------------------------------------------------------------
Ends(r) ==
  \/ SendFails(r)
  \/ \E refused \in BOOLEAN :
       \/ Respond(r, refused) \/ RespondGarbled(r, refused)
       \/ \E b \in Bucket \cup {NoBucket} : RespondOther(r, b, refused)

Creates(r) ==
  \/ KnownBucket(r)
  \/ \E remaining \in 0 .. Limit - 1 : NewLimiter(r, remaining)

Next ==
  \/ \E r \in Request :
       \/ \E rt \in Route : Start(r, rt)
       \/ Go(r) \/ Take(r) \/ Interrupt(r)
       \/ Ends(r) \/ Creates(r) \/ TellRefiller(r)
  \/ \E b \in Bucket : Wake(b) \/ Fill(b) \/ Listen(b)

Spec == Init /\ [][Next]_vars
-----------------------------------------------------------------------------
(* Properties *)

Holders(b) == {r \in Request : req[r].fresh /\ req[r].bucket = b}

(* While a refiller fills its channel and waits for news, every token it   *)
(* has granted is in the channel, with a request that has not ended, or    *)
(* lost: no request goes out on a token that was drained and counted       *)
(* again, and none takes two (ratelimiting.go:159).                        *)
TokensAccounted ==
  \A b \in Bucket : refiller[b] \in {"filling", "listening"} =>
    tokens[b] + Cardinality(Holders(b)) + lost[b] = granted[b]

(* Nobody is left to wake the refiller of b: its channel is empty and      *)
(* every later request of its routes waits for a token.                    *)
Drought(b) ==
  /\ refiller[b] = "listening" /\ tokens[b] = 0
  /\ \A r \in Request : /\ ~(req[r].at = "send" /\ req[r].bucket = b)
                        /\ ~(req[r].at = "tell" /\ req[r].told = b)

(* A bucket stays empty forever only if every one of its Limit tokens went *)
(* to a request that failed or was not heard: "Wake up on the first        *)
(* request after refilling" (ratelimiting.go:141).                         *)
DroughtNeedsLosses == \A b \in Bucket : Drought(b) => lost[b] = Limit
-----------------------------------------------------------------------------
(* Liveness.  A request ends, a sleep ends, and the channel serves those   *)
(* who wait in turn, as the mutex does.                                    *)
Fairness ==
  /\ \A r \in Request : WF_vars(Go(r)) /\ SF_vars(Take(r)) /\ WF_vars(Ends(r))
                          /\ SF_vars(Creates(r)) /\ SF_vars(TellRefiller(r))
  /\ \A b \in Bucket : WF_vars(Wake(b)) /\ WF_vars(Fill(b)) /\ WF_vars(Listen(b))

FairSpec == Spec /\ Fairness

(* A request that waits for a token gets one, unless its context is        *)
(* canceled (ratelimiting.go:227) or the whole filling was lost.           *)
WaiterServed ==
  \A r \in Request, b \in Bucket :
    req[r].at = "take" /\ req[r].bucket = b
      ~> req[r].at # "take" \/ lost[b] = Limit
=============================================================================
