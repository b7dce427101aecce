------------------------------- MODULE Threads -------------------------------
(***************************************************************************)
(* A forum or blog thread: replying to it and deleting its posts           *)
(* (src/src/hmndata/threads_and_posts_helper.go, called from the handlers  *)
(* of src/src/website/forums.go and blogs.go).                             *)
(*                                                                         *)
(* A request is one transaction at READ COMMITTED: every statement sees    *)
(* what is committed when it starts and what its own transaction wrote;    *)
(* rows are locked by UPDATE until the end of the transaction.  Posts are  *)
(* numbered in the order of their dates, which are taken just before the   *)
(* INSERT; post 1 opens the thread.  A deleted row keeps its place with    *)
(* deleted = TRUE.                                                         *)
(***************************************************************************)
EXTENDS Integers, FiniteSetsExt

CONSTANTS
  Request,    \* the goroutines serving reply and delete requests
  MaxPosts,   \* bound: posts ever inserted
  Nobody      \* the holder of a lock nobody holds

ASSUME ThreadsAssumption == MaxPosts \in Nat \ {0} /\ Nobody \notin Request

Post == 1 .. MaxPosts

VARIABLES
  posts,      \* committed posts, deleted or not
  live,       \* committed posts with deleted = FALSE
  thread,     \* the committed row of the thread
  inserted,   \* the last id drawn
  threadLock, \* who holds the lock of the thread's row
  postLock,   \* who holds the lock of each post's row
  req,        \* the request's transaction
  overlapped, \* requests that were not alone from begin to end
  panicked    \* history: DeletePost found the thread empty

locks == <<threadLock, postLock>>
vars == <<posts, live, thread, inserted, locks, req, overlapped, panicked>>

Idle == [pc |-> "idle", post |-> 0, seen |-> {}]

Init ==
  /\ posts = {1} /\ live = {1} /\ inserted = 1
  /\ thread = [first |-> 1, last |-> 1, deleted |-> FALSE]
  /\ threadLock = Nobody /\ postLock = [p \in Post |-> Nobody]
  /\ req = [r \in Request |-> Idle]
  /\ overlapped = {} /\ panicked = FALSE

Active == {r \in Request : req[r].pc # "idle"}

Goto(r, pc) == req' = [req EXCEPT ![r].pc = pc]

Begin(r, pc, p) ==
  /\ req[r].pc = "idle"
  /\ req' = [req EXCEPT ![r] = [Idle EXCEPT !.pc = pc, !.post = p]]
  /\ overlapped' = IF Active = {} THEN overlapped \ {r}
                   ELSE overlapped \cup Active \cup {r}

(* Commit or rollback: the locks are released. *)
End(r) ==
  /\ req' = [req EXCEPT ![r] = Idle]
  /\ threadLock' = IF threadLock = r THEN Nobody ELSE threadLock
  /\ postLock' = [p \in Post |-> IF postLock[p] = r THEN Nobody ELSE postLock[p]]

Free(holder, r) == holder \in {Nobody, r}
-----------------------------------------------------------------------------
(* FixThreadPostIds: first the SELECT, then the UPDATE of the thread.      *)

SelectPosts(r, S, pc) == req' = [req EXCEPT ![r].seen = S, ![r].pc = pc]

LockThread(r, pc) ==
  /\ Free(threadLock, r)
  /\ threadLock' = r
  /\ Goto(r, pc)

KeepLast(t, S) == [t EXCEPT !.first = Min(S)]   \* mutant: last_id is not set

(* The row a committed FixThreadPostIds leaves. *)
Fixed(t, S) == [t EXCEPT !.first = Min(S), !.last = Max(S)]
-----------------------------------------------------------------------------
(* ForumPostReplySubmit, BlogPostReplySubmit *)

(* FetchThreadPost finds a visible post of the thread. *)
BeginReply(r) ==
  /\ live # {} /\ ~thread.deleted
  /\ Begin(r, "insert", 0)
  /\ UNCHANGED <<posts, live, thread, inserted, locks, panicked>>

NextId == inserted + 1

InsertPost(r) ==
  /\ req[r].pc = "insert" /\ inserted < MaxPosts
  /\ inserted' = NextId
  /\ req' = [req EXCEPT ![r].pc = "selectReply", ![r].post = NextId]
  /\ UNCHANGED <<posts, live, thread, locks, overlapped, panicked>>

SelectForReply(r) ==
  /\ req[r].pc = "selectReply"
  /\ SelectPosts(r, live \cup {req[r].post}, "updateReply")
  /\ UNCHANGED <<posts, live, thread, inserted, locks, overlapped, panicked>>

UpdateForReply(r) ==
  /\ req[r].pc = "updateReply"
  /\ LockThread(r, "commitReply")
  /\ UNCHANGED <<posts, live, thread, inserted, postLock, overlapped, panicked>>

CommitReply(r) ==
  /\ req[r].pc = "commitReply"
  /\ posts' = posts \cup {req[r].post}
  /\ live' = live \cup {req[r].post}
  /\ thread' = Fixed(thread, req[r].seen)
  /\ End(r)
  /\ UNCHANGED <<inserted, overlapped, panicked>>
-----------------------------------------------------------------------------
(* ForumPostDeleteSubmit, BlogPostDeleteSubmit: UserCanEditPost, DeletePost *)

(* The site links the posts it shows.  For staff UserCanEditPost does not  *)
(* look at the post, so the post may have been deleted since.              *)
BeginDelete(r, p) ==
  /\ p \in posts
  /\ Begin(r, "info", p)
  /\ UNCHANGED <<posts, live, thread, inserted, locks, panicked>>

NeverFirst(r) == FALSE       \* mutant: the opening post is like any other
IsFirstPost(r) == thread.first = req[r].post

FetchThreadInfo(r) ==
  /\ req[r].pc = "info"
  /\ IF thread.deleted THEN End(r)
     ELSE /\ Goto(r, IF IsFirstPost(r) THEN "dropThread" ELSE "drop")
          /\ UNCHANGED locks
  /\ UNCHANGED <<posts, live, thread, inserted, overlapped, panicked>>

MarkPostDeleted(r) ==
  /\ req[r].pc = "drop"
  /\ Free(postLock[req[r].post], r)
  /\ postLock' = [postLock EXCEPT ![req[r].post] = r]
  /\ Goto(r, "select")
  /\ UNCHANGED <<posts, live, thread, inserted, threadLock, overlapped, panicked>>

(* errThreadEmpty is a panic: the transaction is rolled back. *)
SelectForDelete(r) ==
  LET rest == live \ {req[r].post} IN
  /\ req[r].pc = "select"
  /\ IF rest = {} THEN End(r) /\ panicked' = TRUE
     ELSE SelectPosts(r, rest, "update") /\ UNCHANGED <<locks, panicked>>
  /\ UNCHANGED <<posts, live, thread, inserted, overlapped>>

UpdateForDelete(r) ==
  /\ req[r].pc = "update"
  /\ LockThread(r, "commitDrop")
  /\ UNCHANGED <<posts, live, thread, inserted, postLock, overlapped, panicked>>

CommitDelete(r) ==
  /\ req[r].pc = "commitDrop"
  /\ live' = live \ {req[r].post}
  /\ thread' = Fixed(thread, req[r].seen)
  /\ End(r)
  /\ UNCHANGED <<posts, inserted, overlapped, panicked>>

(* The opening post: the whole thread. *)
MarkThreadDeleted(r) ==
  /\ req[r].pc = "dropThread"
  /\ LockThread(r, "dropPosts")
  /\ UNCHANGED <<posts, live, thread, inserted, postLock, overlapped, panicked>>

StartMarkingPosts(r) ==
  /\ req[r].pc = "dropPosts"
  /\ req' = [req EXCEPT ![r].pc = "dropWait", ![r].seen = posts]
  /\ UNCHANGED <<posts, live, thread, inserted, locks, overlapped, panicked>>

MarkPostsDeleted(r) ==
  /\ req[r].pc = "dropWait"
  /\ \A p \in req[r].seen : Free(postLock[p], r)
  /\ postLock' = [p \in Post |-> IF p \in req[r].seen THEN r ELSE postLock[p]]
  /\ Goto(r, "commitThread")
  /\ UNCHANGED <<posts, live, thread, inserted, threadLock, overlapped, panicked>>

DeletedThread == [thread EXCEPT !.deleted = TRUE]

CommitThreadDeleted(r) ==
  /\ req[r].pc = "commitThread"
  /\ live' = live \ req[r].seen
  /\ thread' = DeletedThread
  /\ End(r)
  /\ UNCHANGED <<posts, inserted, overlapped, panicked>>
-----------------------------------------------------------------------------
(* The transaction ends without effect: an error, a client that goes away, *)
(* or PostgreSQL resolving a deadlock.                                     *)
Rollback(r) ==
  /\ r \in Active
  /\ End(r)
  /\ UNCHANGED <<posts, live, thread, inserted, overlapped, panicked>>

Reply(r) ==
  \/ BeginReply(r) \/ InsertPost(r) \/ SelectForReply(r) \/ UpdateForReply(r)
  \/ CommitReply(r)

Delete(r) ==
  \/ \E p \in Post : BeginDelete(r, p)
  \/ FetchThreadInfo(r) \/ MarkPostDeleted(r) \/ SelectForDelete(r)
  \/ UpdateForDelete(r) \/ CommitDelete(r)
  \/ MarkThreadDeleted(r) \/ StartMarkingPosts(r) \/ MarkPostsDeleted(r)
  \/ CommitThreadDeleted(r)

Next == \E r \in Request : Reply(r) \/ Delete(r) \/ Rollback(r)

Spec == Init /\ [][Next]_vars
-----------------------------------------------------------------------------
(* Properties *)

Good(S, t) ==
  t.deleted \/ (S # {} /\ t.first = Min(S) /\ t.last = Max(S))

(* The opening post of a thread is shown as long as the thread is, and     *)
(* first_id names it: FetchThreads joins them (threads_and_posts_helper.go:*)
(* 77) and deleting it must delete the thread.  The panic of DeletePost,   *)
(* that "it shouldn't be possible" to find the thread empty                *)
(* (threads_and_posts_helper.go:811), happens only to a request that lost  *)
(* against the deletion of the whole thread.                               *)
OpeningPostShown ==
  /\ thread.deleted \/ (thread.first = 1 /\ 1 \in live)
  /\ panicked => thread.deleted

(* Whatever concurrent requests did to first_id and last_id, a request     *)
(* that runs alone puts them right (threads_and_posts_helper.go:808), and  *)
(* a deletion of the thread that runs alone leaves no post behind          *)
(* (threads_and_posts_helper.go:771).                                      *)
AloneRepairs ==
  [][\A r \in Request : r \notin overlapped =>
       /\ CommitReply(r) \/ CommitDelete(r) => Good(live', thread')
       /\ CommitThreadDeleted(r) => live' = {}]_vars
=============================================================================
