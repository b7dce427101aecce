---------------------------- MODULE ThreadsProofs ----------------------------
(***************************************************************************)
(* Proofs about Threads, for any number of requests and posts.             *)
(*                                                                         *)
(* OpeningPostShown says nothing of the requests under way, which hold     *)
(* what they selected and the post they were given.  The invariant does:   *)
(* unless the thread is deleted, whatever a request is about to write has  *)
(* the opening post in it, and it is not the opening post that it deletes  *)
(* (RequestsSpareOpening).  For a request that runs alone it adds that     *)
(* what it selected is still what there is (AloneIsCurrent).               *)
(***************************************************************************)
EXTENDS Threads, TLAPS

Transactions ==
  [pc : {"idle", "insert", "selectReply", "updateReply", "commitReply",
         "info", "drop", "select", "update", "commitDrop",
         "dropThread", "dropPosts", "dropWait", "commitThread"},
   post : Post \cup {0}, seen : SUBSET Post]

RowsOK ==
  /\ live \subseteq posts /\ posts \subseteq Post
  /\ inserted \in Post
  /\ overlapped \subseteq Request
  /\ req \in [Request -> Transactions]
  /\ \A r \in Request :
       req[r].pc \in {"selectReply", "updateReply", "commitReply"} => req[r].post \in Post
  /\ thread = [first |-> thread.first, last |-> thread.last, deleted |-> thread.deleted]
  /\ thread.deleted \in BOOLEAN /\ panicked \in BOOLEAN

RequestsSpareOpening ==
  \A r \in Request :
    /\ req[r].pc \in {"updateReply", "commitReply", "update", "commitDrop"} =>
         1 \in req[r].seen
    /\ req[r].pc \in {"drop", "select", "update", "commitDrop"} => req[r].post # 1

OpeningOK == OpeningPostShown /\ (thread.deleted \/ RequestsSpareOpening)

AloneIsCurrent ==
  \A r \in Request : req[r].pc # "idle" /\ r \notin overlapped =>
    /\ \A s \in Request : s # r => req[s].pc = "idle"
    /\ req[r].pc \in {"updateReply", "commitReply"} => req[r].seen = live \cup {req[r].post}
    /\ req[r].pc \in {"update", "commitDrop"} =>
         req[r].seen = live \ {req[r].post} /\ req[r].seen # {}
    /\ req[r].pc \in {"dropWait", "commitThread"} => req[r].seen = posts

ThreadsInv == RowsOK /\ OpeningOK /\ AloneIsCurrent
-----------------------------------------------------------------------------
(* The smallest post of a set with the opening post is the opening post.   *)
LEMMA OpeningIsSmallest ==
  ASSUME NEW S \in SUBSET Post, 1 \in S
  PROVE  Min(S) = 1
<1>1. \A y \in S : 1 <= y /\ y \in Int
  BY ThreadsAssumption DEF Post
<1>2. Min(S) \in S /\ \A y \in S : Min(S) <= y
  BY <1>1 DEF Min
<1> QED
  BY <1>1, <1>2

LEMMA ThreadsInit == Init => ThreadsInv
<1> SUFFICES ASSUME Init PROVE ThreadsInv
  OBVIOUS
<1> USE ThreadsAssumption DEF Init, Idle, Post
<1>1. RowsOK
  <2>1. req \in [Request -> Transactions]
    BY DEF Transactions
  <2>2. live \subseteq posts /\ posts \subseteq Post /\ inserted \in Post /\ 1 \in Post
    OBVIOUS
  <2>3. overlapped \subseteq Request /\ thread.deleted = FALSE /\ panicked = FALSE
    OBVIOUS
  <2>4. thread = [first |-> thread.first, last |-> thread.last, deleted |-> thread.deleted]
    OBVIOUS
  <2>5. \A r \in Request : req[r].pc = "idle"
    OBVIOUS
  <2> QED
    BY <2>1, <2>2, <2>3, <2>4, <2>5 DEF RowsOK
<1>2. OpeningOK
  BY DEF OpeningOK, OpeningPostShown, RequestsSpareOpening
<1>3. AloneIsCurrent
  BY DEF AloneIsCurrent
<1> QED
  BY <1>1, <1>2, <1>3 DEF ThreadsInv

(* A request begins. *)
LEMMA Beginnings ==
  ASSUME ThreadsInv, NEW r \in Request, BeginReply(r) \/ \E p \in Post : BeginDelete(r, p)
  PROVE  ThreadsInv'
<1> USE ThreadsAssumption DEF ThreadsInv, Begin, Idle
<1>1. PICK pc \in {"insert", "info"}, p \in Post \cup {0} :
        /\ req[r].pc = "idle"
        /\ req' = [req EXCEPT ![r] = [pc |-> pc, post |-> p, seen |-> {}]]
        /\ overlapped' = IF Active = {} THEN overlapped \ {r}
                         ELSE overlapped \cup Active \cup {r}
        /\ UNCHANGED <<posts, live, thread, inserted, panicked>>
  BY DEF BeginReply, BeginDelete
<1>2. RowsOK'
  BY <1>1 DEF RowsOK, Transactions, Active
<1>3. OpeningOK'
  BY <1>1 DEF OpeningOK, OpeningPostShown, RequestsSpareOpening, RowsOK
<1>4. AloneIsCurrent'
  <2> SUFFICES ASSUME NEW s \in Request, req'[s].pc # "idle", s \notin overlapped'
               PROVE  /\ s = r
                      /\ \A t \in Request : t # s => req'[t].pc = "idle"
    BY <1>1 DEF AloneIsCurrent, RowsOK
  <2>1. Active = {}
    BY <1>1 DEF Active, RowsOK
  <2> QED
    BY <2>1, <1>1 DEF Active, RowsOK
<1> QED
  BY <1>2, <1>3, <1>4

(* A request takes a step before its commit: it moves on, and may fill in  *)
(* its post and what it has seen.                                          *)
LEMMA Moves ==
  ASSUME ThreadsInv, NEW r \in Request,
         req' \in [Request -> Transactions], \A s \in Request : s # r => req'[s] = req[s],
         UNCHANGED <<posts, live, thread, overlapped, panicked>>,
         req[r].pc # "idle",
         \/ req'[r].pc \in {"selectReply", "dropThread", "dropPosts"}
         \/ /\ req'[r].pc = "updateReply" /\ req'[r].seen = live \cup {req'[r].post}
         \/ req[r].pc = "updateReply" /\ req'[r] = [req[r] EXCEPT !.pc = "commitReply"]
         \/ req'[r].pc = "drop" /\ (req'[r].post # 1 \/ thread.deleted)
         \/ req[r].pc = "drop" /\ req'[r] = [req[r] EXCEPT !.pc = "select"]
         \/ /\ req[r].pc = "select" /\ req'[r].pc = "update" /\ req'[r].post = req[r].post
            /\ req'[r].seen = live \ {req[r].post} /\ req'[r].seen # {}
         \/ req[r].pc = "update" /\ req'[r] = [req[r] EXCEPT !.pc = "commitDrop"]
         \/ req'[r].pc = "dropWait" /\ req'[r].seen = posts
         \/ req[r].pc = "dropWait" /\ req'[r] = [req[r] EXCEPT !.pc = "commitThread"]
  PROVE  OpeningOK' /\ AloneIsCurrent'
<1>0. req \in [Request -> Transactions]
  BY DEF ThreadsInv, RowsOK
<1>1. ASSUME thread.deleted PROVE OpeningOK'
  BY <1>1 DEF ThreadsInv, OpeningOK, OpeningPostShown
<1>2. ASSUME ~thread.deleted PROVE OpeningOK'
  <2>1. 1 \in live /\ RequestsSpareOpening
    BY <1>2 DEF ThreadsInv, OpeningOK, OpeningPostShown
  <2>2. OpeningPostShown'
    BY DEF ThreadsInv, OpeningOK, OpeningPostShown
  <2>3. /\ req'[r].pc \in {"updateReply", "commitReply", "update", "commitDrop"} =>
             1 \in req'[r].seen
        /\ req'[r].pc \in {"drop", "select", "update", "commitDrop"} => req'[r].post # 1
    BY <1>0, <1>2, <2>1 DEF RequestsSpareOpening, Transactions
  <2>4. RequestsSpareOpening'
    BY <2>1, <2>3 DEF RequestsSpareOpening
  <2> QED
    BY <2>2, <2>4 DEF OpeningOK
<1>3. OpeningOK'
  BY <1>1, <1>2
<1>4. ASSUME NEW s \in Request, req'[s].pc # "idle", s \notin overlapped
      PROVE  /\ s = r
             /\ \A t \in Request : t # s => req'[t].pc = "idle"
             /\ req'[s].pc \in {"updateReply", "commitReply"} =>
                  req'[s].seen = live \cup {req'[s].post}
             /\ req'[s].pc \in {"update", "commitDrop"} =>
                  req'[s].seen = live \ {req'[s].post} /\ req'[s].seen # {}
             /\ req'[s].pc \in {"dropWait", "commitThread"} => req'[s].seen = posts
  <2>1. s = r
    BY <1>4 DEF ThreadsInv, AloneIsCurrent
  <2>2. /\ \A t \in Request : t # r => req[t].pc = "idle"
        /\ req[r].pc \in {"updateReply", "commitReply"} =>
             req[r].seen = live \cup {req[r].post}
        /\ req[r].pc \in {"update", "commitDrop"} =>
             req[r].seen = live \ {req[r].post} /\ req[r].seen # {}
        /\ req[r].pc \in {"dropWait", "commitThread"} => req[r].seen = posts
    BY <2>1, <1>4 DEF ThreadsInv, AloneIsCurrent
  <2> QED
    BY <1>0, <2>1, <2>2 DEF Transactions
<1>5. AloneIsCurrent'
  BY <1>4 DEF AloneIsCurrent
<1> QED
  BY <1>3, <1>5

LEMMA ReplyMoves ==
  ASSUME ThreadsInv, NEW r \in Request, InsertPost(r) \/ SelectForReply(r) \/ UpdateForReply(r)
  PROVE  ThreadsInv'
<1> USE ThreadsAssumption DEF ThreadsInv, InsertPost, SelectForReply, UpdateForReply, NextId,
        SelectPosts, LockThread, Goto
<1>1. RowsOK'
  BY DEF RowsOK, Transactions, Post
<1>2. req \in [Request -> Transactions] /\ req' \in [Request -> Transactions]
  BY <1>1 DEF RowsOK
<1>3. /\ \A s \in Request : s # r => req'[s] = req[s]
      /\ req[r].pc # "idle" /\ UNCHANGED <<posts, live, thread, overlapped, panicked>>
      /\ \/ req'[r].pc = "selectReply"
         \/ req'[r].pc = "updateReply" /\ req'[r].seen = live \cup {req'[r].post}
         \/ req[r].pc = "updateReply" /\ req'[r] = [req[r] EXCEPT !.pc = "commitReply"]
  BY <1>2 DEF Transactions
<1> HIDE DEF ThreadsInv, InsertPost, SelectForReply, UpdateForReply
<1>4. OpeningOK' /\ AloneIsCurrent'
  BY <1>2, <1>3, Moves
<1> QED
  BY <1>1, <1>4 DEF ThreadsInv

LEMMA DeleteMoves ==
  ASSUME ThreadsInv, NEW r \in Request,
         MarkPostDeleted(r) \/ UpdateForDelete(r) \/ MarkThreadDeleted(r)
           \/ StartMarkingPosts(r) \/ MarkPostsDeleted(r)
  PROVE  ThreadsInv'
<1> USE DEF ThreadsInv, MarkPostDeleted, UpdateForDelete, MarkThreadDeleted,
        StartMarkingPosts, MarkPostsDeleted, LockThread, Goto
<1>1. RowsOK'
  BY DEF RowsOK, Transactions
<1>2. req \in [Request -> Transactions] /\ req' \in [Request -> Transactions]
  BY <1>1 DEF RowsOK
<1>3. /\ \A s \in Request : s # r => req'[s] = req[s]
      /\ req[r].pc # "idle" /\ UNCHANGED <<posts, live, thread, overlapped, panicked>>
      /\ \/ req'[r].pc = "dropPosts"
         \/ req[r].pc = "drop" /\ req'[r] = [req[r] EXCEPT !.pc = "select"]
         \/ req[r].pc = "update" /\ req'[r] = [req[r] EXCEPT !.pc = "commitDrop"]
         \/ req'[r].pc = "dropWait" /\ req'[r].seen = posts
         \/ req[r].pc = "dropWait" /\ req'[r] = [req[r] EXCEPT !.pc = "commitThread"]
  BY <1>2 DEF Transactions
<1> HIDE DEF ThreadsInv, MarkPostDeleted, UpdateForDelete, MarkThreadDeleted, StartMarkingPosts,
             MarkPostsDeleted
<1>4. OpeningOK' /\ AloneIsCurrent'
  BY <1>2, <1>3, Moves
<1> QED
  BY <1>1, <1>4 DEF ThreadsInv

(* A request ends and leaves the rows as they are. *)
LEMMA EndsWithoutEffect ==
  ASSUME ThreadsInv, NEW r \in Request, End(r),
         panicked' = panicked \/ (panicked' = TRUE /\ thread.deleted),
         UNCHANGED <<posts, live, thread, inserted, overlapped>>
  PROVE  ThreadsInv'
<1> USE DEF ThreadsInv, End, Idle
<1>1. RowsOK'
  BY DEF RowsOK, Transactions, Post
<1>2. OpeningOK'
  BY DEF OpeningOK, OpeningPostShown, RequestsSpareOpening, RowsOK
<1>3. AloneIsCurrent'
  BY DEF AloneIsCurrent, RowsOK
<1> QED
  BY <1>1, <1>2, <1>3

LEMMA DeleteLooks ==
  ASSUME ThreadsInv, NEW r \in Request, FetchThreadInfo(r) \/ SelectForDelete(r)
  PROVE  ThreadsInv'
<1>1. CASE FetchThreadInfo(r) /\ thread.deleted
  BY <1>1, EndsWithoutEffect DEF FetchThreadInfo
<1>2. CASE FetchThreadInfo(r) /\ ~thread.deleted
  <2>1. /\ req[r].pc = "info" /\ UNCHANGED <<posts, live, thread, inserted, overlapped, panicked>>
        /\ \/ thread.first = req[r].post /\ req' = [req EXCEPT ![r].pc = "dropThread"]
           \/ thread.first # req[r].post /\ req' = [req EXCEPT ![r].pc = "drop"]
    BY <1>2 DEF FetchThreadInfo, IsFirstPost, Goto
  <2>2. thread.first = 1
    BY <1>2 DEF ThreadsInv, OpeningOK, OpeningPostShown
  <2>3. RowsOK'
    BY <2>1 DEF ThreadsInv, RowsOK, Transactions
  <2>4. req \in [Request -> Transactions] /\ req' \in [Request -> Transactions]
    BY <2>3 DEF ThreadsInv, RowsOK
  <2>5. /\ \A s \in Request : s # r => req'[s] = req[s]
        /\ req'[r].pc = "dropThread" \/ (req'[r].pc = "drop" /\ req'[r].post # 1)
    BY <2>1, <2>2, <2>4 DEF Transactions
  <2>6. OpeningOK' /\ AloneIsCurrent'
    BY <2>1, <2>4, <2>5, Moves
  <2> QED
    BY <2>3, <2>6 DEF ThreadsInv
<1>3. CASE SelectForDelete(r) /\ live \ {req[r].post} = {}
  <2>1. req[r].pc = "select" /\ End(r) /\ panicked' = TRUE
        /\ UNCHANGED <<posts, live, thread, inserted, overlapped>>
    BY <1>3 DEF SelectForDelete
  <2>2. thread.deleted
    BY <1>3, <2>1 DEF ThreadsInv, OpeningOK, OpeningPostShown, RequestsSpareOpening
  <2> QED
    BY <2>1, <2>2, EndsWithoutEffect
<1>4. CASE SelectForDelete(r) /\ live \ {req[r].post} # {}
  <2>1. /\ req[r].pc = "select" /\ UNCHANGED <<posts, live, thread, inserted, overlapped, panicked>>
        /\ req' = [req EXCEPT ![r].seen = live \ {req[r].post}, ![r].pc = "update"]
    BY <1>4 DEF SelectForDelete, SelectPosts
  <2>2. RowsOK'
    BY <2>1 DEF ThreadsInv, RowsOK, Transactions
  <2>3. req \in [Request -> Transactions] /\ req' \in [Request -> Transactions]
    BY <2>2 DEF ThreadsInv, RowsOK
  <2>4. /\ \A s \in Request : s # r => req'[s] = req[s]
        /\ req'[r].pc = "update" /\ req'[r].post = req[r].post
        /\ req'[r].seen = live \ {req[r].post} /\ req'[r].seen # {}
    BY <1>4, <2>1, <2>3 DEF Transactions
  <2>5. OpeningOK' /\ AloneIsCurrent'
    BY <2>1, <2>3, <2>4, Moves
  <2> QED
    BY <2>2, <2>5 DEF ThreadsInv
<1> QED
  BY <1>1, <1>2, <1>3, <1>4

(* What commits do to the rows; every other request is as it was. *)
LEMMA Commits ==
  ASSUME ThreadsInv, NEW r \in Request,
         CommitReply(r) \/ CommitDelete(r) \/ CommitThreadDeleted(r)
  PROVE  ThreadsInv'
<1> USE ThreadsAssumption DEF ThreadsInv, CommitReply, CommitDelete, CommitThreadDeleted, End,
        Idle, Fixed, DeletedThread
<1>1. RowsOK'
  <2>1. /\ req' \in [Request -> Transactions]
        /\ \A s \in Request : req'[s].pc \in {"selectReply", "updateReply", "commitReply"} =>
                                req'[s].post \in Post
    BY DEF RowsOK, Transactions
  <2>2. live' \subseteq posts' /\ posts' \subseteq Post
    BY DEF RowsOK
  <2>3. /\ thread' = [first |-> thread'.first, last |-> thread'.last,
                      deleted |-> thread'.deleted]
        /\ thread'.deleted \in BOOLEAN
    <3>1. CASE CommitReply(r) \/ CommitDelete(r)
      <4>1. thread' = [first |-> Min(req[r].seen), last |-> Max(req[r].seen),
                       deleted |-> thread.deleted]
        BY <3>1 DEF RowsOK
      <4> QED
        BY <4>1 DEF RowsOK
    <3>2. CASE CommitThreadDeleted(r)
      <4>1. thread' = [first |-> thread.first, last |-> thread.last, deleted |-> TRUE]
        BY <3>2 DEF RowsOK
      <4> QED
        BY <4>1
    <3> QED
      BY <3>1, <3>2
  <2> QED
    BY <2>1, <2>2, <2>3 DEF RowsOK
<1>2. OpeningOK'
  <2>1. CASE thread.deleted
    BY <2>1 DEF OpeningOK, OpeningPostShown, RowsOK
  <2>2. CASE CommitThreadDeleted(r)
    BY <2>2 DEF OpeningOK, OpeningPostShown, RowsOK
  <2>3. CASE ~thread.deleted /\ (CommitReply(r) \/ CommitDelete(r))
    <3>1. req[r].seen \subseteq Post /\ 1 \in req[r].seen
      BY <2>3 DEF OpeningOK, RequestsSpareOpening, RowsOK, Transactions
    <3>2. Min(req[r].seen) = 1
      BY <3>1, OpeningIsSmallest
    <3>3. thread'.first = 1 /\ thread'.deleted = thread.deleted
      BY <2>3, <3>2 DEF RowsOK
    <3>4. 1 \in live'
      BY <2>3 DEF OpeningOK, OpeningPostShown, RequestsSpareOpening
    <3>5. RequestsSpareOpening'
      BY <2>3 DEF OpeningOK, RequestsSpareOpening, RowsOK
    <3> QED
      BY <2>3, <3>3, <3>4, <3>5 DEF OpeningOK, OpeningPostShown
  <2> QED
    BY <2>1, <2>2, <2>3
<1>3. AloneIsCurrent'
  BY DEF AloneIsCurrent, RowsOK
<1> QED
  BY <1>1, <1>2, <1>3

LEMMA ThreadsStep == ThreadsInv /\ [Next]_vars => ThreadsInv'
<1> SUFFICES ASSUME ThreadsInv, [Next]_vars PROVE ThreadsInv'
  OBVIOUS
<1>1. ASSUME NEW r \in Request, Reply(r) PROVE ThreadsInv'
  BY <1>1, Beginnings, ReplyMoves, Commits DEF Reply
<1>2. ASSUME NEW r \in Request, Delete(r) PROVE ThreadsInv'
  BY <1>2, Beginnings, DeleteLooks, DeleteMoves, Commits DEF Delete
<1>3. ASSUME NEW r \in Request, Rollback(r) PROVE ThreadsInv'
  BY <1>3, EndsWithoutEffect DEF Rollback
<1>4. CASE UNCHANGED vars
  BY <1>4 DEF vars, locks, ThreadsInv, RowsOK, OpeningOK, OpeningPostShown,
              RequestsSpareOpening, AloneIsCurrent
<1> QED
  BY <1>1, <1>2, <1>3, <1>4 DEF Next

(* What a request that ran alone wrote. *)
LEMMA RepairsAlone ==
  ASSUME ThreadsInv, NEW r \in Request, r \notin overlapped
  PROVE  /\ CommitReply(r) \/ CommitDelete(r) => Good(live', thread')
         /\ CommitThreadDeleted(r) => live' = {}
<1> USE DEF ThreadsInv
<1>1. ASSUME CommitReply(r) \/ CommitDelete(r) PROVE Good(live', thread')
  <2>1. live' = req[r].seen /\ req[r].seen # {}
    BY <1>1 DEF CommitReply, CommitDelete, AloneIsCurrent
  <2>2. thread'.first = Min(req[r].seen) /\ thread'.last = Max(req[r].seen)
    BY <1>1 DEF CommitReply, CommitDelete, Fixed, RowsOK
  <2> QED
    BY <2>1, <2>2 DEF Good
<1>2. ASSUME CommitThreadDeleted(r) PROVE live' = {}
  BY <1>2 DEF CommitThreadDeleted, AloneIsCurrent, RowsOK
<1> QED
  BY <1>1, <1>2
-----------------------------------------------------------------------------
(***************************************************************************)
(* As long as a thread is shown its opening post is, and first_id names    *)
(* it; the panic of DeletePost happens only in a deleted thread.           *)
(***************************************************************************)
THEOREM OpeningStays == Spec => []OpeningPostShown
<1>1. ThreadsInv => OpeningPostShown
  BY DEF ThreadsInv, OpeningOK
<1> QED
  BY ThreadsInit, ThreadsStep, <1>1, PTL DEF Spec

(***************************************************************************)
(* A request that runs alone leaves first_id and last_id right whatever    *)
(* concurrent ones did to them (FixThreadPostIds), and deletes a thread    *)
(* with all its posts.                                                     *)
(***************************************************************************)
THEOREM AloneRepairsThreads == Spec => AloneRepairs
<1>1. ThreadsInv =>
        [\A r \in Request : r \notin overlapped =>
           /\ CommitReply(r) \/ CommitDelete(r) => Good(live', thread')
           /\ CommitThreadDeleted(r) => live' = {}]_vars
  BY RepairsAlone
<1> QED
  BY ThreadsInit, ThreadsStep, <1>1, PTL DEF Spec, AloneRepairs
=============================================================================
