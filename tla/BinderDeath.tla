---------------------------- MODULE BinderDeath -----------------------------
(***************************************************************************)
(* Death notifications, binder/binder.c, seen from the process that asks   *)
(* for them.  A binder_ref of the process may carry one binder_ref_death,  *)
(* whose single work item stands in turn for the death of the node, for    *)
(* the answer to BC_CLEAR_DEATH_NOTIFICATION, and for both.  The item      *)
(* moves between the todo lists of the process and of its threads and      *)
(* proc->delivered_death, while the owner of the node dies, references go  *)
(* away, threads exit and the process itself is released.                  *)
(*                                                                         *)
(* Locks.  The outer lock of the process is held over a request or a       *)
(* clear; the node's lock keeps binder_node_release() out meanwhile; the   *)
(* lists change under the inner lock.  Sections that no other step can     *)
(* divide are single steps; binder_cleanup_ref_olocked() drops the node's  *)
(* lock before it takes the inner lock and is two.  Lists are kept as      *)
(* sets: which item is next is left open.                                  *)
(***************************************************************************)
EXTENDS Naturals

CONSTANTS
  Refs,      \* binder_ref slots of the process, each with its own node
  Threads,
  Loopers,   \* threads with BINDER_LOOPER_STATE_REGISTERED or _ENTERED
  Deaths,    \* binder_ref_death objects kzalloc() can hand out
  Cookies,
  None

Lists == {"none", "todo", "delivered_death"}

ASSUME DeathAssumption ==
  /\ Loopers \subseteq Threads
  /\ Threads \cap Lists = {}
  /\ None \notin Deaths \cup Refs \cup Threads

VARIABLES
  life,       \* the process: "open", "releasing", "released"
  ref,        \* per slot: "absent", "live", "erased"
  outer,      \* the ref whose clean-up holds the outer lock
  node_dead,  \* per slot: ref->node->proc == NULL
  ref_death,  \* per slot: ref->death
  mem,        \* per object: "unused", "held" by a request, "live", "freed"
  type, cookie, on,  \* per object: work.type, cookie, the list work.entry is on
  pc, req,    \* per thread: place, arguments of its request
  asked,      \* per object: a clear was accepted (history)
  deads, clears  \* per object: BR_DEAD_BINDER, BR_CLEAR_..._DONE read (history)

refVars == <<ref, outer, node_dead>>
threadVars == <<pc, req>>
vars == <<life, refVars, ref_death, mem, type, cookie, on, threadVars, asked, deads, clears>>

NoReq == [ref |-> None, cookie |-> None, death |-> None]
Types == {"none", "DEAD_BINDER", "DEAD_BINDER_AND_CLEAR", "CLEAR_DEATH_NOTIFICATION"}

Init ==
  /\ life = "open"
  /\ ref = [r \in Refs |-> "absent"] /\ outer = None
  /\ node_dead = [r \in Refs |-> FALSE]
  /\ ref_death = [r \in Refs |-> None]
  /\ mem = [d \in Deaths |-> "unused"] /\ type = [d \in Deaths |-> "none"]
  /\ cookie = [d \in Deaths |-> None] /\ on = [d \in Deaths |-> "none"]
  /\ pc = [t \in Threads |-> "run"] /\ req = [t \in Threads |-> NoReq]
  /\ asked = [d \in Deaths |-> FALSE]
  /\ deads = [d \in Deaths |-> 0] /\ clears = [d \in Deaths |-> 0]

-----------------------------------------------------------------------------
(* References and nodes.                                                   *)

\* binder_inc_ref_for_node(), called by the sender of a transaction to the process:
\* also for a node whose owner died, and while the process is being released.
GetRef(r) ==
  /\ life # "released" /\ outer = None /\ ref[r] = "absent"
  /\ ref' = [ref EXCEPT ![r] = "live"]
  /\ UNCHANGED <<life, outer, node_dead, ref_death, mem, type, cookie, on, threadVars,
                 asked, deads, clears>>

\* The last count goes, by a command, by a buffer that is released or by the
\* release of the process: off both trees and off node->refs, outer lock held.
EraseRef(r) ==
  /\ life # "released" /\ outer = None /\ ref[r] = "live"
  /\ ref' = [ref EXCEPT ![r] = "erased"] /\ outer' = r
  /\ UNCHANGED <<life, node_dead, ref_death, mem, type, cookie, on, threadVars,
                 asked, deads, clears>>

\* Mutant: the work item is not taken off its list.
CleanupRef_linked(r) ==
  /\ outer = r
  /\ mem' = [d \in Deaths |-> IF d = ref_death[r] THEN "freed" ELSE mem[d]]
  /\ ref' = [ref EXCEPT ![r] = "absent"] /\ outer' = None
  /\ ref_death' = [ref_death EXCEPT ![r] = None]
  /\ UNCHANGED <<life, node_dead, type, cookie, on, threadVars, asked, deads, clears>>

\* binder_dequeue_work() from whatever list, then binder_free_ref().
CleanupRef(r) ==
  /\ outer = r
  /\ on' = [d \in Deaths |-> IF d = ref_death[r] THEN "none" ELSE on[d]]
  /\ mem' = [d \in Deaths |-> IF d = ref_death[r] THEN "freed" ELSE mem[d]]
  /\ ref' = [ref EXCEPT ![r] = "absent"] /\ outer' = None
  /\ ref_death' = [ref_death EXCEPT ![r] = None]
  /\ UNCHANGED <<life, node_dead, type, cookie, threadVars, asked, deads, clears>>

\* The notification of a ref that is still on node->refs.
Notified(r) == IF ref[r] = "live" THEN {ref_death[r]} \ {None} ELSE {}

\* binder_node_release(), by the worker that also releases processes.
NodeRelease(r) ==
  /\ life # "releasing" /\ ~node_dead[r]
  /\ node_dead' = [node_dead EXCEPT ![r] = TRUE]
  /\ type' = [d \in Deaths |-> IF d \in Notified(r) THEN "DEAD_BINDER" ELSE type[d]]
  /\ on' = [d \in Deaths |-> IF d \in Notified(r) THEN "todo" ELSE on[d]]
  /\ UNCHANGED <<life, ref, outer, ref_death, mem, cookie, threadVars, asked, deads, clears>>

-----------------------------------------------------------------------------
(* Commands of the threads.                                                *)

Running(t) == life = "open" /\ pc[t] = "run"

\* The answer to a clear goes to the thread that asked if it is a looper.
AnswerList(t) == IF t \in Loopers THEN t ELSE "todo"

\* BC_REQUEST_DEATH_NOTIFICATION allocates before it takes the locks.
RequestAlloc(t, r, c, d) ==
  /\ Running(t) /\ mem[d] = "unused"
  /\ mem' = [mem EXCEPT ![d] = "held"]
  /\ pc' = [pc EXCEPT ![t] = "request"]
  /\ req' = [req EXCEPT ![t] = [ref |-> r, cookie |-> c, death |-> d]]
  /\ UNCHANGED <<life, refVars, ref_death, type, cookie, on, asked, deads, clears>>

\* The handle is valid and no notification is set.
FreeSlot(r) == ref[r] = "live" /\ ref_death[r] = None

RequestRefused(t) ==
  /\ pc[t] = "request" /\ outer = None /\ ~FreeSlot(req[t].ref)
  /\ mem' = [mem EXCEPT ![req[t].death] = "freed"]
  /\ pc' = [pc EXCEPT ![t] = "run"] /\ req' = [req EXCEPT ![t] = NoReq]
  /\ UNCHANGED <<life, refVars, ref_death, type, cookie, on, asked, deads, clears>>

\* Mutant: the death of the node before the request is not noticed.
AlreadyDead_never(r) == FALSE
\* Mutant: the notification is queued although the node lives.
AlreadyDead_always(r) == TRUE
AlreadyDead(r) == node_dead[r]

Request(t) ==
  /\ pc[t] = "request" /\ outer = None /\ FreeSlot(req[t].ref)
  /\ LET r == req[t].ref
         d == req[t].death
     IN  /\ ref_death' = [ref_death EXCEPT ![r] = d]
         /\ mem' = [mem EXCEPT ![d] = "live"]
         /\ cookie' = [cookie EXCEPT ![d] = req[t].cookie]
         /\ type' = [type EXCEPT ![d] = IF AlreadyDead(r) THEN "DEAD_BINDER" ELSE @]
         /\ on' = [on EXCEPT ![d] = IF AlreadyDead(r) THEN "todo" ELSE @]
  /\ pc' = [pc EXCEPT ![t] = "run"] /\ req' = [req EXCEPT ![t] = NoReq]
  /\ UNCHANGED <<life, refVars, asked, deads, clears>>

\* A linked item keeps its place and is cleared after the death is acknowledged.
ClearWork(t, d) ==
  \/ /\ on[d] = "none"
     /\ type' = [type EXCEPT ![d] = "CLEAR_DEATH_NOTIFICATION"]
     /\ on' = [on EXCEPT ![d] = AnswerList(t)]
  \/ /\ on[d] # "none"
     /\ type' = [type EXCEPT ![d] = "DEAD_BINDER_AND_CLEAR"]
     /\ on' = on

\* BC_CLEAR_DEATH_NOTIFICATION; a wrong handle or cookie changes nothing.
Clear(t, r, c) ==
  /\ Running(t) /\ outer = None
  /\ ref[r] = "live" /\ ref_death[r] # None /\ cookie[ref_death[r]] = c
  /\ ref_death' = [ref_death EXCEPT ![r] = None]
  /\ ClearWork(t, ref_death[r])
  /\ asked' = [asked EXCEPT ![ref_death[r]] = TRUE]
  /\ UNCHANGED <<life, refVars, mem, cookie, threadVars, deads, clears>>

\* Mutant: the item is queued again as it is.
DoneWork_keeps_type(t, d) ==
  /\ type' = type
  /\ on' = [on EXCEPT ![d] = IF type[d] = "DEAD_BINDER_AND_CLEAR" THEN AnswerList(t) ELSE "none"]

\* The pending clear is answered; without one the item is just unlinked.
DoneWork(t, d) ==
  IF type[d] = "DEAD_BINDER_AND_CLEAR"
    THEN /\ type' = [type EXCEPT ![d] = "CLEAR_DEATH_NOTIFICATION"]
         /\ on' = [on EXCEPT ![d] = AnswerList(t)]
    ELSE /\ type' = type /\ on' = [on EXCEPT ![d] = "none"]

\* BC_DEAD_BINDER_DONE for an item with the cookie; if there is none, nothing.
DeadBinderDone(t, c, d) ==
  /\ Running(t)
  /\ on[d] = "delivered_death" /\ cookie[d] = c
  /\ DoneWork(t, d)
  /\ UNCHANGED <<life, refVars, ref_death, mem, cookie, threadVars, asked, deads, clears>>

\* Mutant: a looper never takes the work of its process.
CanRead_own(t, d) == on[d] = t

\* binder_thread_read() takes its own work first, and work of the process only
\* as a looper without any.
CanRead(t, d) ==
  \/ on[d] = t
  \/ on[d] = "todo" /\ t \in Loopers /\ \A e \in Deaths : on[e] # t

ReadDead(d) ==
  /\ on' = [on EXCEPT ![d] = "delivered_death"] /\ mem' = mem
  /\ deads' = [deads EXCEPT ![d] = @ + 1] /\ UNCHANGED clears
ReadClear(d) ==
  /\ on' = [on EXCEPT ![d] = "none"] /\ mem' = [mem EXCEPT ![d] = "freed"]
  /\ clears' = [clears EXCEPT ![d] = @ + 1] /\ UNCHANGED deads

\* put_user() comes after all of this and its failure undoes none of it.
Read(t, d) ==
  /\ Running(t) /\ CanRead(t, d)
  /\ IF type[d] = "CLEAR_DEATH_NOTIFICATION" THEN ReadClear(d) ELSE ReadDead(d)
  /\ UNCHANGED <<life, refVars, ref_death, type, cookie, threadVars, asked>>

-----------------------------------------------------------------------------
(* Threads and the process go away.                                        *)

\* binder_release_work(): other types of death work are "unexpected", not freed.
Freeable(d) == type[d] \in {"DEAD_BINDER_AND_CLEAR", "CLEAR_DEATH_NOTIFICATION"}
ReleaseWork(lists) ==
  /\ mem' = [d \in Deaths |-> IF on[d] \in lists /\ Freeable(d) THEN "freed" ELSE mem[d]]
  /\ on' = [d \in Deaths |-> IF on[d] \in lists THEN "none" ELSE on[d]]

\* BINDER_THREAD_EXIT, or the release of the process.
ThreadRelease(t) ==
  /\ life \in {"open", "releasing"} /\ pc[t] = "run"
  /\ pc' = [pc EXCEPT ![t] = "exited"]
  /\ ReleaseWork({t})
  /\ UNCHANGED <<life, refVars, ref_death, type, cookie, req, asked, deads, clears>>

\* The last reference to the file goes, so no command runs; the worker follows.
Close ==
  /\ life = "open" /\ outer = None /\ \A t \in Threads : pc[t] # "request"
  /\ life' = "releasing"
  /\ UNCHANGED <<refVars, ref_death, mem, type, cookie, on, threadVars, asked, deads, clears>>

\* Mutant: the delivered deaths are forgotten.
ReleasedLists_todo_only == {"todo"}
ReleasedLists == {"todo", "delivered_death"}

\* The end of binder_deferred_release().
DeferredRelease ==
  /\ life = "releasing" /\ outer = None
  /\ \A t \in Threads : pc[t] = "exited"
  /\ \A r \in Refs : ref[r] = "absent"
  /\ life' = "released"
  /\ ReleaseWork(ReleasedLists)
  /\ UNCHANGED <<refVars, ref_death, type, cookie, threadVars, asked, deads, clears>>

-----------------------------------------------------------------------------
Next ==
  \/ \E r \in Refs : GetRef(r) \/ EraseRef(r) \/ CleanupRef(r) \/ NodeRelease(r)
  \/ \E t \in Threads :
       \/ \E r \in Refs, c \in Cookies, d \in Deaths : RequestAlloc(t, r, c, d)
       \/ RequestRefused(t) \/ Request(t)
       \/ \E r \in Refs, c \in Cookies : Clear(t, r, c)
       \/ \E c \in Cookies, d \in Deaths : DeadBinderDone(t, c, d)
       \/ \E d \in Deaths : Read(t, d)
       \/ ThreadRelease(t)
  \/ Close \/ DeferredRelease

Spec == Init /\ [][Next]_vars

\* Calls in progress and the worker run on, the kernel's queued spin locks let
\* every waiter in, loopers keep reading, and a death that was read is
\* acknowledged, as libbinder does.
Fairness ==
  /\ \A t \in Threads : SF_vars(Request(t) \/ RequestRefused(t))
  /\ \A r \in Refs : WF_vars(CleanupRef(r)) /\ WF_vars(life = "releasing" /\ EraseRef(r))
  /\ \A t \in Threads : WF_vars(life = "releasing" /\ ThreadRelease(t))
  /\ WF_vars(DeferredRelease)
  /\ \A d \in Deaths :
       /\ WF_vars(\E t \in Threads : Read(t, d))
       /\ WF_vars(\E t \in Threads, c \in Cookies : DeadBinderDone(t, c, d))

FairSpec == Spec /\ Fairness

-----------------------------------------------------------------------------
(* Properties.                                                             *)

TypeOK ==
  /\ life \in {"open", "releasing", "released"}
  /\ ref \in [Refs -> {"absent", "live", "erased"}] /\ outer \in Refs \cup {None}
  /\ node_dead \in [Refs -> BOOLEAN]
  /\ ref_death \in [Refs -> Deaths \cup {None}]
  /\ mem \in [Deaths -> {"unused", "held", "live", "freed"}]
  /\ type \in [Deaths -> Types] /\ cookie \in [Deaths -> Cookies \cup {None}]
  /\ on \in [Deaths -> Lists \cup Threads]
  /\ pc \in [Threads -> {"run", "request", "exited"}]
  /\ req \in [Threads -> [ref : Refs \cup {None}, cookie : Cookies \cup {None},
                          death : Deaths \cup {None}]]
  /\ asked \in [Deaths -> BOOLEAN]
  /\ deads \in [Deaths -> Nat] /\ clears \in [Deaths -> Nat]

Owned(d) == on[d] # "none" \/ \E r \in Refs : ref_death[r] = d

\* No list and no ref ever points to a freed binder_ref_death, two refs never
\* share one, and one that is neither listed nor set in a ref has been freed:
\* kfree() in binder_thread_read(), binder_free_ref(), binder_release_work() and
\* BC_REQUEST_DEATH_NOTIFICATION together free each object exactly when its last
\* owner lets go.
OwnedIffLive ==
  /\ \A d \in Deaths : Owned(d) <=> mem[d] = "live"
  /\ \A r, s \in Refs : ref_death[r] = ref_death[s] /\ ref_death[r] # None => r = s

\* The assertions: binder_node_release() finds the item of every ref unlinked
\* (BUG_ON(!list_empty(&ref->death->work.entry))), BC_CLEAR_DEATH_NOTIFICATION
\* finds a linked item to be BINDER_WORK_DEAD_BINDER (BUG_ON), and
\* binder_release_work() meets no "unexpected work type", neither on the list of a
\* thread nor, once binder_deferred_release() has erased the refs, on another.
AssertionsHold ==
  /\ \A r \in Refs : ref_death[r] # None =>
       /\ ~node_dead[r] => on[ref_death[r]] = "none"
       /\ on[ref_death[r]] # "none" => type[ref_death[r]] = "DEAD_BINDER"
  /\ \A d \in Deaths :
       /\ on[d] \in Threads => Freeable(d)
       /\ on[d] # "none" => Freeable(d) \/ \E r \in Refs : ref_death[r] = d

\* A death is never missed, whichever of BC_REQUEST_DEATH_NOTIFICATION and
\* binder_node_release() comes first: while the notification is set and the node
\* is dead, BR_DEAD_BINDER has been read or waits in the todo list of the process.
DeathNotMissed ==
  \A r \in Refs :
    ref[r] = "live" /\ node_dead[r] /\ ref_death[r] # None
      => on[ref_death[r]] = "todo" \/ deads[ref_death[r]] > 0

\* A clear that was accepted is never forgotten: until its object is freed, the
\* item is linked and of a type that ends in BR_CLEAR_DEATH_NOTIFICATION_DONE.
ClearNotForgotten ==
  \A d \in Deaths : asked[d] /\ mem[d] # "freed" => on[d] # "none" /\ Freeable(d)

\* What user space reads for one request: BR_DEAD_BINDER at most once and never
\* after BR_CLEAR_DEATH_NOTIFICATION_DONE, which comes at most once and only for a
\* clear that was asked for; libbinder drops its proxy on the latter.
AnswersInOrder ==
  [][\A d \in Deaths :
       /\ deads'[d] # deads[d] => deads[d] = 0 /\ clears[d] = 0
       /\ clears'[d] # clears[d] => clears[d] = 0 /\ asked[d]]_vars

\* A released process leaves no binder_ref_death behind, wherever its items were
\* when the file was closed.
NothingLeaks == life = "released" => \A d \in Deaths : mem[d] \in {"unused", "freed"}

-----------------------------------------------------------------------------
(* The inductive invariant.                                                *)

\* Where a death may be found by what it is: a ref that is gone carries none, only
\* an answer waits for one thread, and that thread has not exited.
PlacesExact ==
  /\ \A r \in Refs :
       /\ ref_death[r] # None => ref[r] # "absent"
       /\ ref[r] = "erased" <=> outer = r
  /\ \A d \in Deaths :
       /\ on[d] \in Threads => type[d] = "CLEAR_DEATH_NOTIFICATION" /\ pc[on[d]] # "exited"
       /\ on[d] = "delivered_death" => type[d] # "CLEAR_DEATH_NOTIFICATION"

\* A request holds an object of its own until the outer lock lets it through.
RequestsExact ==
  /\ \A t \in Threads : pc[t] = "request" =>
       /\ life = "open" /\ req[t].ref \in Refs /\ req[t].cookie \in Cookies
       /\ req[t].death \in Deaths /\ mem[req[t].death] = "held"
  /\ \A t, u \in Threads :
       pc[t] = "request" /\ pc[u] = "request" /\ req[t].death = req[u].death => t = u
  /\ \A d \in Deaths :
       mem[d] = "held" => \E t \in Threads : pc[t] = "request" /\ req[t].death = d

\* What was read and asked for, by where the object is now.
HistoryExact ==
  \A d \in Deaths :
    /\ mem[d] \in {"unused", "held"} => ~asked[d] /\ deads[d] = 0
    /\ mem[d] # "freed" => clears[d] = 0
    /\ on[d] # "none" /\ Freeable(d) => asked[d]
    /\ on[d] = "todo" /\ type[d] # "CLEAR_DEATH_NOTIFICATION" => deads[d] = 0
    /\ \A r \in Refs : ref_death[r] = d => ~asked[d] /\ (deads[d] > 0 => node_dead[r])

\* The release leaves no ref, no thread and no list behind.
ReleasedEmpty ==
  life = "released" =>
    /\ \A r \in Refs : ref[r] = "absent"
    /\ \A t \in Threads : pc[t] = "exited"
    /\ \A d \in Deaths : on[d] = "none"

\* All of the above together with the properties that need no other: what each
\* section of binder.c that changes a death finds and leaves.
DeathInv ==
  /\ TypeOK /\ OwnedIffLive /\ AssertionsHold /\ DeathNotMissed /\ ClearNotForgotten
  /\ PlacesExact /\ RequestsExact /\ HistoryExact /\ ReleasedEmpty

-----------------------------------------------------------------------------
LoopersGone == \A t \in Loopers : pc[t] = "exited"

\* With loopers that read and acknowledge, a cleared notification is answered and
\* freed, although the item may have to pass through delivered_death first.
ClearAnswered == \A d \in Deaths : asked[d] ~> mem[d] = "freed" \/ LoopersGone
=============================================================================
