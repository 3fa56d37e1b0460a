----------------------------- MODULE BinderRef ------------------------------
(***************************************************************************)
(* Nodes and references, binder/binder.c.  A server process owns nodes;    *)
(* clients hold references to them, each with a strong and a weak count.   *)
(* The module follows the counts of a node (from references, from buffers  *)
(* and announcements of the owner, from threads in the middle of a call),  *)
(* the one work item through which the owner is told BR_INCREFS,           *)
(* BR_ACQUIRE, BR_RELEASE and BR_DECREFS, and the end of a node: by the    *)
(* last count, by the owner's read, or on binder_dead_nodes.               *)
(*                                                                         *)
(* Locks.  Steps are the sections under node->lock and the inner lock;     *)
(* olock is the client's outer lock where it spans two of them.  The one   *)
(* section that another lock divides is the end of a dead node: it is      *)
(* decided under node->lock (mem = "reap") and confirmed under             *)
(* binder_dead_nodes_lock, and a reader of the state file takes only the   *)
(* second.  All nodes of the model have one owner and Mgr is its context   *)
(* manager's ptr.                                                          *)
(***************************************************************************)
EXTENDS Integers, FiniteSets

CONSTANTS
  Ptrs,      \* binder_node.ptr values the server uses
  Mgr,       \* the ptr BINDER_SET_CONTEXT_MGR is called with (None: never)
  Nodes,     \* binder_node objects kzalloc() can hand out
  Server, Clients,
  Locals,    \* threads of the server, each with a todo list
  Senders, Home,  \* threads of the clients and the client of each
  Worker,    \* the worker of binder_deferred_work
  Reader,    \* a task in binder_state_show()
  MaxCount,  \* bound: counts of a reference, buffers held by the server
  Mortal,    \* bound: processes that may die
  MaxCalls,  \* bound: calls that add or drop a count
  None

Procs == Clients \cup {Server}
Tasks == Locals \cup Senders \cup {Worker, Reader}

ASSUME RefAssumption ==
  /\ Home \in [Senders -> Clients] /\ Mortal \subseteq Clients \cup {Server}
  /\ Server \notin Clients /\ Locals \cap Senders = {} /\ Worker # Reader
  /\ {Worker, Reader} \cap (Locals \cup Senders) = {}
  /\ None \notin Nodes \cup Procs \cup Tasks /\ {"none", "todo"} \cap Locals = {}
  /\ MaxCount \in Nat /\ MaxCalls \in Nat
  /\ IsFiniteSet(Nodes) /\ IsFiniteSet(Procs) /\ IsFiniteSet(Tasks)

VARIABLES
  life,    \* per process: "open", "releasing", "released"
  node,    \* per node: the fields of struct binder_node
  ref,     \* per process and node: its binder_ref, or NoRef
  olock,   \* per process: the task that keeps its outer lock over several steps
  job,     \* per task: where it is and what it works on
  held,    \* per node: local counts owned by buffers in the server
  lost,    \* per node: its work item went down with a todo list (history)
  calls    \* number of calls begun, for the bound

vars == <<life, node, ref, olock, job, held, lost, calls>>

NoRef == [desc |-> -1, strong |-> 0, weak |-> 0]
NoNode == [mem |-> "unused", ptr |-> None, proc |-> FALSE, tree |-> FALSE, mgr |-> FALSE,
           internal |-> 0, strong |-> 0, weak |-> 0, tmp |-> 0, work |-> "none",
           has_s |-> FALSE, has_w |-> FALSE, pend_s |-> FALSE, pend_w |-> FALSE]
NoHeld == [target |-> 0, strong |-> 0, weak |-> 0]
Idle == [pc |-> "idle", node |-> None, proc |-> None, ptr |-> None, strong |-> FALSE,
         list |-> "none", next |-> "idle"]

Init ==
  /\ life = [p \in Procs |-> "open"]
  /\ node = [n \in Nodes |-> NoNode]
  /\ ref = [c \in Procs |-> [n \in Nodes |-> NoRef]]
  /\ olock = [c \in Procs |-> None]
  /\ job = [a \in Tasks |-> Idle]
  /\ held = [n \in Nodes |-> NoHeld]
  /\ lost = [n \in Nodes |-> FALSE] /\ calls = 0

-----------------------------------------------------------------------------
(* The counts of a node, as functions of its record.                       *)

Refs(n) == {c \in Procs : ref[c][n] # NoRef}

\* binder_inc_node_nilocked() returns -EINVAL.
IncFails(d, strong, internal, list) ==
  /\ list = "none"
  /\ IF strong THEN internal /\ d.internal = 0 /\ ~(d.proc /\ d.mgr /\ d.has_s)
               ELSE ~d.has_w /\ d.work = "none"

\* The node it leaves: a failed weak increment has raised local_weak_refs, a strong
\* one has not.
IncNode(d, strong, internal, list) ==
  LET e == CASE strong /\ internal -> [d EXCEPT !.internal = @ + 1]
             [] strong /\ ~internal -> [d EXCEPT !.strong = @ + 1]
             [] ~strong /\ internal -> d
             [] OTHER -> [d EXCEPT !.weak = @ + 1]
  IN  CASE IncFails(d, strong, internal, list) -> IF strong THEN d ELSE e
        [] list # "none" /\ strong /\ ~d.has_s -> [e EXCEPT !.work = list]
        [] list # "none" /\ ~strong /\ ~d.has_w /\ d.work = "none" -> [e EXCEPT !.work = list]
        [] OTHER -> e

\* No count is left.
Unused(d, refs) == refs = {} /\ d.strong = 0 /\ d.weak = 0 /\ d.tmp = 0

\* A node that still has an owner is erased from its tree, any other is reaped.
Delete(d) ==
  IF d.proc THEN [d EXCEPT !.mem = IF d.tree THEN "freed" ELSE "bug", !.work = "none", !.tree = FALSE]
            ELSE [d EXCEPT !.mem = IF d.work = "none" THEN "reap" ELSE "bug"]

\* Mutant: the owner is not told that the last reference went.
Settle_silent(d, strong, refs) ==
  IF (IF strong THEN d.strong # 0 \/ d.internal # 0 ELSE d.weak # 0 \/ d.tmp # 0 \/ refs # {})
    THEN d
    ELSE IF d.proc /\ (d.has_s \/ d.has_w) THEN d
    ELSE IF Unused(d, refs) THEN Delete(d) ELSE d

\* The rest of binder_dec_node_nilocked(): what is left keeps the node as it is; an
\* owner that knows of references is told; otherwise an unused node ends.
Settle(d, strong, refs) ==
  IF (IF strong THEN d.strong # 0 \/ d.internal # 0 ELSE d.weak # 0 \/ d.tmp # 0 \/ refs # {})
    THEN d
    ELSE IF d.proc /\ (d.has_s \/ d.has_w)
           THEN [d EXCEPT !.work = IF @ = "none" THEN "todo" ELSE @]
           ELSE IF Unused(d, refs) THEN Delete(d) ELSE d

DecNode(d, strong, internal, refs) ==
  Settle(CASE strong /\ internal -> [d EXCEPT !.internal = @ - 1]
           [] strong /\ ~internal -> [d EXCEPT !.strong = @ - 1]
           [] ~strong /\ internal -> d
           [] OTHER -> [d EXCEPT !.weak = @ - 1],
         strong, refs)

\* binder_dec_node_tmpref(), also binder_put_node().
PutNode(d, refs) == DecNode([d EXCEPT !.tmp = @ - 1], FALSE, TRUE, refs)

\* Nobody holds node->lock.
Unlocked(n) == node[n].mem = "live"

\* A call of user space begins.
Call == calls < MaxCalls /\ calls' = calls + 1

Become(a, j) == job' = [job EXCEPT ![a] = j]
Set(n, d) == node' = [node EXCEPT ![n] = d]

-----------------------------------------------------------------------------
(* References.                                                             *)

\* The first free handle; 0 is for the context manager.
NewDesc(c, n) ==
  LET used == {ref[c][m].desc : m \in {m \in Nodes : ref[c][m] # NoRef}}
      free == (IF node[n].mgr /\ life[Server] = "open" THEN 0 ELSE 1)
                .. (Cardinality(Nodes) + 1) \ used
  IN  CHOOSE d \in free : \A e \in free : d <= e

Count(r, strong) == IF strong THEN r.strong ELSE r.weak
Add(r, strong, k) == IF strong THEN [r EXCEPT !.strong = @ + k] ELSE [r EXCEPT !.weak = @ + k]

\* binder_inc_ref_olocked(): only the first count of a kind reaches the node.
IncRef(c, n, r, strong, list) ==
  LET first == Count(r, strong) = 0
      fails == first /\ IncFails(node[n], strong, TRUE, list)
  IN  /\ ref' = [ref EXCEPT ![c][n] = IF fails THEN r ELSE Add(r, strong, 1)]
      /\ Set(n, IF first THEN IncNode(node[n], strong, TRUE, list) ELSE node[n])

IncRefFails(n, r, strong, list) == Count(r, strong) = 0 /\ IncFails(node[n], strong, TRUE, list)

\* The caller gives its temporary reference back; with context_mgr_node_lock it has none.
AfterInc(j, fails) ==
  CASE j.next = "mgr" -> Idle
    [] j.next # "mgr" /\ fails -> [j EXCEPT !.pc = "put", !.next = "idle"]
    [] OTHER -> [j EXCEPT !.pc = "put"]

\* binder_inc_ref_for_node(), up to the first release of the outer lock: with the
\* reference there it is all of it.
IncRefForNode(a) ==
  LET j == job[a] IN
  /\ j.pc = "ref" /\ olock[j.proc] = None /\ Unlocked(j.node)
  /\ LET r == ref[j.proc][j.node] IN
     \/ /\ r = NoRef
        /\ Become(a, [j EXCEPT !.pc = "alloc"]) /\ UNCHANGED <<node, ref>>
     \/ /\ r # NoRef /\ Count(r, j.strong) < MaxCount
        /\ IncRef(j.proc, j.node, r, j.strong, j.list)
        /\ Become(a, AfterInc(j, IncRefFails(j.node, r, j.strong, j.list)))
  /\ UNCHANGED <<life, olock, held, lost, calls>>

\* Mutant: the second look-up is forgotten.
OldOrNew_new(c, n) == [desc |-> NewDesc(c, n), strong |-> 0, weak |-> 0]
\* binder_get_ref_for_node_olocked() with an allocated ref: another thread may have
\* come first.
OldOrNew(c, n) ==
  IF ref[c][n] # NoRef THEN ref[c][n] ELSE [desc |-> NewDesc(c, n), strong |-> 0, weak |-> 0]

\* The lock is taken again; a failed increment leaves the new ref without a count.
\* The allocation may fail as well.
IncRefForNodeNew(a) ==
  LET j == job[a] IN
  /\ j.pc = "alloc"
  /\ \/ Become(a, AfterInc(j, TRUE)) /\ UNCHANGED <<node, ref>>
     \/ /\ olock[j.proc] = None /\ Unlocked(j.node)
        /\ LET r == OldOrNew(j.proc, j.node) IN
           /\ Count(r, j.strong) < MaxCount
           /\ IncRef(j.proc, j.node, r, j.strong, j.list)
           /\ Become(a, AfterInc(j, IncRefFails(j.node, r, j.strong, j.list)))
  /\ UNCHANGED <<life, olock, held, lost, calls>>

\* The reference leaves the trees and node->refs, the node loses what it held; a
\* node that ends here is freed by binder_free_ref().
Cleanup(c, n) ==
  LET r == ref[c][n]
      d == IF r.strong > 0 THEN DecNode(node[n], TRUE, TRUE, Refs(n)) ELSE node[n]
  IN  /\ ref' = [ref EXCEPT ![c][n] = NoRef]
      /\ Set(n, DecNode(d, FALSE, TRUE, Refs(n) \ {c}))

\* binder_dec_ref_olocked() for a handle, then on to binder_cleanup_ref_olocked()
\* with the outer lock kept if no count is left.  A handle without such a count is
\* an error that changes nothing.
DecRef(a, c, n, strong) ==
  LET r == Add(ref[c][n], strong, -1) IN
  /\ olock[c] = None /\ Unlocked(n) /\ Count(ref[c][n], strong) > 0
  /\ ref' = [ref EXCEPT ![c][n] = r]
  /\ Set(n, IF strong /\ r.strong = 0 THEN DecNode(node[n], TRUE, TRUE, Refs(n)) ELSE node[n])
  /\ IF r.strong = 0 /\ r.weak = 0
       THEN /\ olock' = [olock EXCEPT ![c] = a]
            /\ Become(a, [Idle EXCEPT !.pc = "cleanup", !.proc = c, !.node = n])
       ELSE Become(a, Idle) /\ UNCHANGED olock

CleanupRef(a) ==
  LET j == job[a] IN
  /\ j.pc = "cleanup" /\ Unlocked(j.node)
  /\ Cleanup(j.proc, j.node)
  /\ olock' = [olock EXCEPT ![j.proc] = None]
  /\ Become(a, Idle)
  /\ UNCHANGED <<life, held, lost, calls>>

-----------------------------------------------------------------------------
(* Temporary references.                                                   *)

\* binder_put_node() at the end of a call, and with it the call or its next part.
Put(a) ==
  LET j == job[a] IN
  /\ j.pc = "put" /\ Unlocked(j.node)
  /\ Set(j.node, PutNode(node[j.node], Refs(j.node)))
  /\ Become(a, IF j.next \in {"idle", "mgr"} THEN Idle ELSE [j EXCEPT !.pc = j.next])
  /\ UNCHANGED <<life, ref, olock, held, lost, calls>>

\* Mutant: the second look at tmp_refs is left out.
Reap_blind(n) ==
  /\ node[n].mem = "reap"
  /\ Set(n, [node[n] EXCEPT !.mem = "freed"])
  /\ UNCHANGED <<life, ref, olock, job, held, lost, calls>>

\* The end of a dead node, under binder_dead_nodes_lock.
Reap(n) ==
  /\ node[n].mem = "reap"
  /\ Set(n, [node[n] EXCEPT !.mem = IF node[n].tmp # 0 THEN "live" ELSE "freed"])
  /\ UNCHANGED <<life, ref, olock, job, held, lost, calls>>

\* binder_state_show() on its way along binder_dead_nodes; it does not take node->lock.
ShowDeadNode(n) ==
  /\ job[Reader].pc = "idle"
  /\ node[n].mem \in {"live", "reap"} /\ ~node[n].proc
  /\ Set(n, [node[n] EXCEPT !.tmp = @ + 1])
  /\ Become(Reader, [Idle EXCEPT !.pc = "put", !.node = n])
  /\ UNCHANGED <<life, ref, olock, held, lost, calls>>

-----------------------------------------------------------------------------
(* The server sends its nodes, becomes context manager and reads its work. *)

Ready(a) == life[Server] = "open" /\ a \in Locals /\ job[a].pc = "idle"
InTree(p) == {n \in Nodes : node[n].tree /\ node[n].ptr = p}

\* A BINDER or WEAK_BINDER object in a transaction to client c: binder_get_node()
\* finds the node or not.
TranslateBinder(a, p, c, strong) ==
  /\ Ready(a) /\ life[c] = "open"
  /\ LET j == [Idle EXCEPT !.proc = c, !.ptr = p, !.strong = strong, !.list = a, !.next = "sent"] IN
     \/ /\ InTree(p) = {} /\ Become(a, [j EXCEPT !.pc = "new"]) /\ UNCHANGED node
     \/ \E n \in InTree(p) :
          /\ Set(n, [node[n] EXCEPT !.tmp = @ + 1])
          /\ Become(a, [j EXCEPT !.pc = "ref", !.node = n])
  /\ Call
  /\ UNCHANGED <<life, ref, olock, held, lost>>

NewNodeOf(p) == [NoNode EXCEPT !.mem = "live", !.ptr = p, !.proc = TRUE, !.tree = TRUE, !.tmp = 1]

\* Mutant: a node that another thread has added meanwhile is not noticed.
InitNode_twice(p, n) == node[n].mem = "unused" /\ Set(n, NewNodeOf(p))
\* binder_init_node_ilocked() with an allocated node.
InitNode(p, n) ==
  \/ InTree(p) = {} /\ node[n].mem = "unused" /\ Set(n, NewNodeOf(p))
  \/ n \in InTree(p) /\ Set(n, [node[n] EXCEPT !.tmp = @ + 1])

NewNode(a, n) ==
  /\ job[a].pc = "new" /\ InitNode(job[a].ptr, n)
  /\ Become(a, [job[a] EXCEPT !.pc = "ref", !.node = n])
  /\ UNCHANGED <<life, ref, olock, held, lost, calls>>

\* Nobody holds context_mgr_node_lock.
MgrUnlocked == \A a \in Tasks : job[a].next # "mgr"

\* BINDER_SET_CONTEXT_MGR: the node's local counts are never given back.
SetContextMgr(a, n) ==
  /\ Ready(a) /\ MgrUnlocked /\ Mgr # None /\ \A m \in Nodes : ~node[m].mgr
  /\ (InTree(Mgr) = {} /\ node[n].mem = "unused") \/ n \in InTree(Mgr)
  /\ LET d == IF n \in InTree(Mgr) THEN [node[n] EXCEPT !.tmp = @ + 1] ELSE NewNodeOf(Mgr)
     IN  Set(n, [d EXCEPT !.weak = @ + 1, !.strong = @ + 1, !.has_s = TRUE, !.has_w = TRUE,
                          !.mgr = TRUE])
  /\ Become(a, [Idle EXCEPT !.pc = "put", !.node = n, !.next = "mgr"])
  /\ Call
  /\ UNCHANGED <<life, ref, olock, held, lost>>

HasStrong(d) == d.internal # 0 \/ d.strong # 0
\* Mutant: a strong count does not make the node weakly used.
HasWeak_no_strong(d, refs) == refs # {} \/ d.weak # 0 \/ d.tmp # 0
HasWeak(d, refs) == refs # {} \/ d.weak # 0 \/ d.tmp # 0 \/ HasStrong(d)

\* BINDER_WORK_NODE in binder_thread_read(), from the thread's list or the process's.
\* A changed announcement is written to user space after this.
ReadNode(a, n) ==
  /\ Ready(a) /\ node[n].work \in {a, "todo"} /\ Unlocked(n)
  /\ LET d == node[n]
         strong == HasStrong(d)
         weak == HasWeak(d, Refs(n))
         e == [d EXCEPT !.work = "none", !.has_s = strong, !.has_w = weak,
                !.pend_w = IF weak /\ ~d.has_w THEN TRUE ELSE @,
                !.weak = IF weak /\ ~d.has_w THEN @ + 1 ELSE @,
                !.pend_s = IF strong /\ ~d.has_s THEN TRUE ELSE @,
                !.strong = IF strong /\ ~d.has_s THEN @ + 1 ELSE @]
     IN  Set(n, IF weak \/ strong THEN e ELSE [e EXCEPT !.tree = FALSE, !.mem = "freed"])
  /\ UNCHANGED <<life, ref, olock, job, held, lost, calls>>

\* BC_ACQUIRE_DONE (strong) and BC_INCREFS_DONE.
Done(a, n, strong) ==
  /\ Ready(a) /\ node[n].tree
  /\ Set(n, [node[n] EXCEPT !.tmp = @ + 1])
  /\ Become(a, [Idle EXCEPT !.pc = "done", !.node = n, !.strong = strong])
  /\ UNCHANGED <<life, ref, olock, held, lost, calls>>

DoneDec(d, strong, refs) ==
  IF (strong /\ ~d.pend_s) \/ (~strong /\ ~d.pend_w)
    THEN d
    ELSE DecNode(IF strong THEN [d EXCEPT !.pend_s = FALSE] ELSE [d EXCEPT !.pend_w = FALSE],
                 strong, FALSE, refs)

\* WARN_ON(free_node): the temporary reference must have kept it.
DoneCount(a) ==
  LET n == job[a].node
      d == DoneDec(node[n], job[a].strong, Refs(n)) IN
  /\ job[a].pc = "done" /\ Unlocked(n)
  /\ Set(n, IF d.mem = "live" THEN d ELSE [d EXCEPT !.mem = "bug"])
  /\ Become(a, [job[a] EXCEPT !.pc = "put"])
  /\ UNCHANGED <<life, ref, olock, held, lost, calls>>

-----------------------------------------------------------------------------
(* Clients send handles, call nodes and change their counts.               *)

Free(a, c) == a \in Senders /\ Home[a] = c /\ life[c] = "open" /\ job[a].pc = "idle"

\* BC_INCREFS and BC_ACQUIRE; the second only where there is a strong count already.
BcInc(a, c, n, strong) ==
  /\ Free(a, c) /\ olock[c] = None /\ Unlocked(n) /\ ref[c][n] # NoRef
  /\ (strong => ref[c][n].strong > 0) /\ Count(ref[c][n], strong) < MaxCount
  /\ IncRef(c, n, ref[c][n], strong, "none")
  /\ Call
  /\ UNCHANGED <<life, olock, job, held, lost>>

\* The same for handle 0, under context_mgr_node_lock.
BcIncMgr(a, c, n, strong) ==
  /\ Free(a, c) /\ MgrUnlocked /\ life[Server] = "open" /\ node[n].mgr
  /\ Become(a, [Idle EXCEPT !.pc = "ref", !.node = n, !.proc = c, !.strong = strong, !.next = "mgr"])
  /\ Call
  /\ UNCHANGED <<life, node, ref, olock, held, lost>>

\* BC_RELEASE and BC_DECREFS, and a handle in a buffer of the client that is freed.
BcDec(a, c, n, strong) ==
  /\ Free(a, c) /\ DecRef(a, c, n, strong)
  /\ Call
  /\ UNCHANGED <<life, held, lost>>

\* A HANDLE or WEAK_HANDLE object in a transaction to another process:
\* binder_get_node_from_ref().
TranslateHandle(a, c, n, to, strong) ==
  /\ Free(a, c) /\ to # c /\ life[to] = "open"
  /\ olock[c] = None /\ Unlocked(n) /\ ref[c][n] # NoRef /\ (strong => ref[c][n].strong > 0)
  /\ Set(n, [node[n] EXCEPT !.tmp = @ + 1])
  /\ Become(a, [Idle EXCEPT !.pc = "handle", !.node = n, !.proc = to, !.strong = strong])
  /\ Call
  /\ UNCHANGED <<life, ref, olock, held, lost>>

\* The owner gets its node back as a local count, anybody else a reference.
HandleTarget(a) ==
  LET j == job[a]
      d == node[j.node] IN
  /\ j.pc = "handle" /\ Unlocked(j.node)
  /\ \/ /\ d.proc /\ j.proc = Server
        /\ Set(j.node, IncNode(d, j.strong, FALSE, "none"))
        /\ Become(a, [j EXCEPT !.pc = "put", !.next = "sent_binder"])
     \/ /\ ~(d.proc /\ j.proc = Server)
        /\ Become(a, [j EXCEPT !.pc = "ref", !.next = "sent"]) /\ UNCHANGED node
  /\ UNCHANGED <<life, ref, olock, held, lost, calls>>

\* The transaction is queued and its buffer owns the counts, or it fails later, at
\* the latest because the target is dead, and binder_transaction_buffer_release()
\* gives them back.
Deliver(a) ==
  LET j == job[a] IN
  /\ j.pc \in {"sent", "sent_binder"} /\ life[j.proc] = "open"
  /\ IF j.pc = "sent" THEN UNCHANGED held
     ELSE IF j.strong
       THEN held[j.node].strong < MaxCount /\ held' = [held EXCEPT ![j.node].strong = @ + 1]
       ELSE held[j.node].weak < MaxCount /\ held' = [held EXCEPT ![j.node].weak = @ + 1]
  /\ Become(a, Idle)
  /\ UNCHANGED <<life, node, ref, olock, lost, calls>>

UndoHandle(a) ==
  LET j == job[a] IN
  /\ j.pc = "sent"
  /\ \/ DecRef(a, j.proc, j.node, j.strong)
     \/ /\ Count(ref[j.proc][j.node], j.strong) = 0 /\ olock[j.proc] = None
        /\ Become(a, Idle) /\ UNCHANGED <<node, ref, olock>>
  /\ UNCHANGED <<life, held, lost, calls>>

\* A BINDER object is looked up by its ptr again; a node that died is not found.
ReleaseBinder(a, n, strong) ==
  IF node[n].tree
    THEN /\ Set(n, [node[n] EXCEPT !.tmp = @ + 1])
         /\ Become(a, [Idle EXCEPT !.pc = "drop", !.node = n, !.strong = strong])
    ELSE Become(a, Idle) /\ UNCHANGED node

UndoBinder(a) ==
  /\ job[a].pc = "sent_binder" /\ ReleaseBinder(a, job[a].node, job[a].strong)
  /\ UNCHANGED <<life, ref, olock, held, lost, calls>>

Drop(a) ==
  LET j == job[a] IN
  /\ j.pc = "drop" /\ Unlocked(j.node)
  /\ Set(j.node, DecNode(node[j.node], j.strong, FALSE, Refs(j.node)))
  /\ Become(a, [j EXCEPT !.pc = "put"])
  /\ UNCHANGED <<life, ref, olock, held, lost, calls>>

GetNodeRefsForTxn(d) == [IncNode(d, TRUE, FALSE, "none") EXCEPT !.tmp = @ + 1]

\* BC_TRANSACTION finds its target node, through a strong reference or handle 0.
Transaction(a, c, n) ==
  /\ Free(a, c) /\ Unlocked(n) /\ node[n].proc
  /\ \/ olock[c] = None /\ ref[c][n].strong > 0
     \/ MgrUnlocked /\ life[Server] = "open" /\ node[n].mgr
  /\ Set(n, GetNodeRefsForTxn(node[n]))
  /\ Become(a, [Idle EXCEPT !.pc = "txn", !.node = n])
  /\ Call
  /\ UNCHANGED <<life, ref, olock, held, lost>>

TransactionSent(a) ==
  LET n == job[a].node IN
  /\ job[a].pc = "txn" /\ life[Server] = "open" /\ held[n].target < MaxCount
  /\ held' = [held EXCEPT ![n].target = @ + 1]
  /\ Become(a, [job[a] EXCEPT !.pc = "put"])
  /\ UNCHANGED <<life, node, ref, olock, lost, calls>>

\* Also when binder_node_release() has set local_strong_refs to 0 meanwhile.
TransactionFailed(a) ==
  LET n == job[a].node IN
  /\ job[a].pc = "txn" /\ Unlocked(n)
  /\ Set(n, DecNode(node[n], TRUE, FALSE, Refs(n)))
  /\ Become(a, [job[a] EXCEPT !.pc = "put"])
  /\ UNCHANGED <<life, ref, olock, held, lost, calls>>

\* BC_FREE_BUFFER in the server.
FreeTarget(a, n) ==
  /\ Ready(a) /\ held[n].target > 0 /\ Unlocked(n)
  /\ held' = [held EXCEPT ![n].target = @ - 1]
  /\ Set(n, DecNode(node[n], TRUE, FALSE, Refs(n)))
  /\ UNCHANGED <<life, ref, olock, job, lost, calls>>

FreeObject(a, n, strong) ==
  /\ Ready(a)
  /\ IF strong THEN held[n].strong > 0 /\ held' = [held EXCEPT ![n].strong = @ - 1]
               ELSE held[n].weak > 0 /\ held' = [held EXCEPT ![n].weak = @ - 1]
  /\ ReleaseBinder(a, n, strong)
  /\ UNCHANGED <<life, ref, olock, lost, calls>>

-----------------------------------------------------------------------------
(* Threads and processes go away.                                          *)

\* binder_release_work() drops node work without a trace.
DropWork(lists) ==
  /\ node' = [n \in Nodes |-> IF node[n].work \in lists THEN [node[n] EXCEPT !.work = "none"]
                                                        ELSE node[n]]
  /\ lost' = [n \in Nodes |-> lost[n] \/ node[n].work \in lists]

ThreadExit(a) ==
  /\ Ready(a) /\ \E n \in Nodes : node[n].work = a
  /\ DropWork({a})
  /\ UNCHANGED <<life, ref, olock, job, held, calls>>

Releasing == {p \in Procs : life[p] = "releasing"}
ThreadsOf(p) == IF p = Server THEN Locals ELSE {a \in Senders : Home[a] = p}

\* The file is closed, so no call of the process is under way; the worker takes the
\* context manager away under its lock and releases the threads.
StartRelease(p) ==
  /\ p \in Mortal /\ life[p] = "open" /\ Releasing = {} /\ job[Worker].pc = "idle"
  /\ \A a \in ThreadsOf(p) : job[a].pc = "idle"
  /\ p = Server => MgrUnlocked
  /\ life' = [life EXCEPT ![p] = "releasing"]
  /\ IF p = Server THEN DropWork(Locals) ELSE UNCHANGED <<node, lost>>
  /\ UNCHANGED <<ref, olock, job, held, calls>>

\* Off the tree with a temporary reference.
EraseNode(n) ==
  /\ life[Server] = "releasing" /\ job[Worker].pc = "idle" /\ node[n].tree
  /\ Set(n, [node[n] EXCEPT !.tmp = @ + 1, !.tree = FALSE])
  /\ Become(Worker, [Idle EXCEPT !.pc = "release", !.node = n])
  /\ UNCHANGED <<life, ref, olock, held, lost, calls>>

Dequeued(d) == [d EXCEPT !.work = "none"]

\* binder_node_release(): freed at once, or on to binder_dead_nodes.
NodeRelease ==
  LET n == job[Worker].node
      d == Dequeued(node[n]) IN
  /\ job[Worker].pc = "release" /\ Unlocked(n)
  /\ held' = [held EXCEPT ![n] = NoHeld]
  /\ IF Refs(n) = {} /\ d.tmp = 1
       THEN Set(n, [d EXCEPT !.mem = "freed"]) /\ Become(Worker, Idle)
       ELSE /\ Set(n, [d EXCEPT !.proc = FALSE, !.strong = 0, !.weak = 0])
            /\ Become(Worker, [job[Worker] EXCEPT !.pc = "put"])
  /\ UNCHANGED <<life, ref, olock, lost, calls>>

NodesGone(p) == p = Server => \A n \in Nodes : ~node[n].tree

\* The references of the process, in one section each.
ReleaseRef(p, n) ==
  /\ life[p] = "releasing" /\ job[Worker].pc = "idle" /\ NodesGone(p)
  /\ olock[p] = None /\ Unlocked(n) /\ ref[p][n] # NoRef
  /\ Cleanup(p, n)
  /\ UNCHANGED <<life, olock, job, held, lost, calls>>

EndRelease(p) ==
  /\ life[p] = "releasing" /\ job[Worker].pc = "idle" /\ NodesGone(p)
  /\ olock[p] = None /\ \A n \in Nodes : ref[p][n] = NoRef
  /\ life' = [life EXCEPT ![p] = "released"]
  /\ UNCHANGED <<node, ref, olock, job, held, lost, calls>>

-----------------------------------------------------------------------------
Next ==
  \/ \E a \in Tasks : \/ IncRefForNode(a) \/ IncRefForNodeNew(a) \/ CleanupRef(a) \/ Put(a)
                      \/ DoneCount(a) \/ HandleTarget(a) \/ Deliver(a) \/ UndoHandle(a)
                      \/ UndoBinder(a) \/ Drop(a) \/ TransactionSent(a) \/ TransactionFailed(a)
  \/ \E n \in Nodes : Reap(n) \/ ShowDeadNode(n) \/ EraseNode(n)
  \/ \E a \in Locals, n \in Nodes :
       \/ NewNode(a, n) \/ SetContextMgr(a, n) \/ ReadNode(a, n) \/ FreeTarget(a, n)
       \/ \E strong \in BOOLEAN : Done(a, n, strong) \/ FreeObject(a, n, strong)
  \/ \E a \in Locals, p \in Ptrs, c \in Clients, strong \in BOOLEAN : TranslateBinder(a, p, c, strong)
  \/ \E a \in Locals : ThreadExit(a)
  \/ \E a \in Senders, c \in Clients, n \in Nodes :
       \/ Transaction(a, c, n)
       \/ \E strong \in BOOLEAN :
            \/ BcInc(a, c, n, strong) \/ BcIncMgr(a, c, n, strong) \/ BcDec(a, c, n, strong)
            \/ \E to \in Procs : TranslateHandle(a, c, n, to, strong)
  \/ NodeRelease
  \/ \E p \in Procs : StartRelease(p) \/ EndRelease(p) \/ \E n \in Nodes : ReleaseRef(p, n)

Spec == Init /\ [][Next]_vars

-----------------------------------------------------------------------------
(* Properties.                                                             *)

TypeOK ==
  /\ life \in [Procs -> {"open", "releasing", "released"}]
  /\ node \in [Nodes -> [mem : {"unused", "live", "reap", "freed"}, ptr : Ptrs \cup {Mgr, None},
                         proc : BOOLEAN, tree : BOOLEAN, mgr : BOOLEAN,
                         internal : Nat, strong : Int, weak : Int, tmp : Nat,
                         work : {"none", "todo"} \cup Locals,
                         has_s : BOOLEAN, has_w : BOOLEAN, pend_s : BOOLEAN, pend_w : BOOLEAN]]
  /\ ref \in [Procs -> [Nodes -> [desc : {-1} \cup Nat, strong : Nat, weak : Nat]]]
  /\ olock \in [Procs -> Tasks \cup {None}]
  /\ \A a \in Tasks : job[a].node \in Nodes \cup {None}
  /\ lost \in [Nodes -> BOOLEAN]

\* Tasks whose local variable points to the node.
Users(n) == {a \in Tasks : job[a].node = n /\ job[a].pc # "idle"}

\* No reference, no task in the middle of a call, no list and no buffer of the owner
\* points to a node after binder_free_node(): the strong, weak, local and temporary
\* counts together keep it, and the owner's read, the last decrement, the release of
\* the owner and the dead list agree on who frees it.  (A task that has only the
\* object it translated keeps a handle or a ptr, which it looks up again.)
NoUseAfterFree ==
  \A n \in Nodes : node[n].mem \notin {"live", "reap"} =>
    /\ Refs(n) = {} /\ held[n] = NoHeld
    /\ \A a \in Users(n) : job[a].pc \in {"sent", "sent_binder"}
    /\ ~node[n].tree /\ node[n].work = "none"

\* The assertions: rb_erase() and BUG_ON(!list_empty(&node->work.entry)) in
\* binder_dec_node_nilocked(), WARN_ON(free_node) for BC_ACQUIRE_DONE, and
\* BUG_ON(proc != node->proc) in binder_thread_read().
NoAssertionFails ==
  \A n \in Nodes : node[n].mem # "bug" /\ (node[n].work # "none" => node[n].proc /\ node[n].mem = "live")

\* Every node is freed once, off all lists, and not used afterwards.
NodesSound == TypeOK /\ NoUseAfterFree /\ NoAssertionFails

\* Local counts that tasks will pass on to a buffer or give back.
Carried(n, strong) ==
  {a \in Users(n) : job[a].strong = strong
                    /\ (job[a].pc \in {"sent_binder", "drop"} \/ job[a].next = "sent_binder")}
Calling(n) == {a \in Users(n) : job[a].pc = "txn"}
Temporary(n) ==
  {a \in Users(n) : job[a].pc \in {"ref", "alloc", "put", "done", "handle", "drop", "txn", "release"}
                    /\ (job[a].next # "mgr" \/ job[a].pc = "put")}
One(b) == IF b THEN 1 ELSE 0

\* Every count of a node is owned by somebody: internal_strong_refs by the
\* references with a strong count, tmp_refs by the tasks in a call, and, while the
\* owner has it in its tree, the local counts by its buffers, its unanswered announcements, the
\* context manager and senders that have not finished.
CountsOwned ==
  \A n \in Nodes : node[n].mem \in {"live", "reap"} =>
    LET d == node[n] IN
    /\ d.internal = Cardinality({p \in Procs : ref[p][n].strong > 0})
    /\ d.tmp = Cardinality(Temporary(n))
    /\ d.tree => /\ d.strong = held[n].target + held[n].strong + One(d.pend_s) + One(d.mgr)
                                + Cardinality(Calling(n)) + Cardinality(Carried(n, TRUE))
                 /\ d.weak = held[n].weak + One(d.pend_w) + One(d.mgr)
                              + Cardinality(Carried(n, FALSE))

\* A node without any count is freed, or its owner is about to read BR_DECREFS: the
\* last binder_dec_ref_olocked(), binder_put_node() or BC_ACQUIRE_DONE, whichever it
\* is, queues the work or deletes the node.  Only a todo list that went away with
\* its thread breaks this.
NothingLeaks ==
  \A n \in Nodes : node[n].mem = "live" /\ Unused(node[n], Refs(n)) =>
    node[n].proc /\ (node[n].work # "none" \/ lost[n])

\* The owner of a node with references knows of them or has the announcement in a
\* todo list: binder_inc_node_nilocked() refuses an increment that would have to be
\* announced and has no list for it.
OwnerIsTold ==
  \A n \in Nodes : node[n].mem = "live" /\ node[n].proc /\ node[n].work = "none" /\ ~lost[n] =>
    /\ node[n].internal > 0 => node[n].has_s
    /\ \A p \in Refs(n) : ref[p][n].strong + ref[p][n].weak > 0 => node[n].has_w

\* The owner of a node hears of every change it has to know of, the last one included.
OwnerInformed == NothingLeaks /\ OwnerIsTold

\* What the owner reads is well nested: BR_ACQUIRE only inside BR_INCREFS, and no
\* BR_RELEASE or BR_DECREFS before the announcement it takes back was answered.
AnnouncementsNest ==
  [][\A n \in Nodes :
       /\ node'[n].has_s => node'[n].has_w
       /\ node[n].has_s /\ ~node'[n].has_s => ~node[n].pend_s
       /\ node[n].has_w /\ ~node'[n].has_w => ~node[n].pend_w /\ ~node'[n].has_s]_vars

\* A process has one handle per node and one node per handle, the owner one node
\* per ptr, whichever of two threads allocated first; handle 0 is the context
\* manager's.
HandlesUnique ==
  /\ \A p \in Procs : \A m, n \in Nodes :
       ref[p][m].desc = ref[p][n].desc /\ ref[p][m] # NoRef => m = n
  /\ \A p \in Procs : \A n \in Nodes : ref[p][n].desc = 0 => node[n].mgr
  /\ \A m, n \in Nodes : node[m].tree /\ node[n].tree /\ node[m].ptr = node[n].ptr => m = n
=============================================================================
