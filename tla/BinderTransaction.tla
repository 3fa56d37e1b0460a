------------------------- MODULE BinderTransaction --------------------------
(***************************************************************************)
(* Transactions between threads, binder/binder.c: synchronous calls with   *)
(* their transaction stacks, replies and failed replies, one-way           *)
(* transactions that take turns at a node, and the pool of looper threads, *)
(* while threads exit and processes die.  Every process owns one node, the *)
(* target of its calls.                                                    *)
(*                                                                         *)
(* Locks.  A step is a section under an inner lock or a transaction's      *)
(* lock; a call of a thread into the driver is the sequence of steps its   *)
(* job goes through, and other tasks run in between.  A section that walks *)
(* a stack lock by lock is several steps and keeps the inner lock, see     *)
(* Inner.  What a task does to its own counts after its last change of     *)
(* shared state is part of that step, and so is the request for another    *)
(* looper at the end of a read.                                            *)
(*                                                                         *)
(* Of the work on the todo lists there are transactions,                   *)
(* BINDER_WORK_TRANSACTION_COMPLETE and the two errors of a thread; node   *)
(* and death work are in BinderRef and BinderDeath.  Which of the          *)
(* waiting_threads is woken is left open, max_threads is constant, and a   *)
(* task whose binder_thread is gone does not come back with a new one.     *)
(***************************************************************************)
EXTENDS Naturals, Sequences, FiniteSets

CONSTANTS
  Procs, Threads,
  ProcOf,     \* the process of each thread
  Worker,     \* the worker of binder_deferred_work
  Txns,       \* binder_transaction objects: bound on those alive at a time
  MaxThreads, \* proc->max_threads
  Pool,       \* threads that may call BC_REGISTER_LOOPER; the others entered the loop
  Kinds,      \* the transactions that are sent: "call", "async"
  Sleepers,   \* bound: threads that may block in a read without work
  MaxCalls,   \* bound: BC_TRANSACTION commands
  Faults,     \* bound: failed allocations, copies, translations, fd fixups; commands refused
  Mortal,     \* bound: processes that may die, threads that may exit
  None

Tasks == Threads \cup {Worker}

ASSUME TxnAssumption ==
  /\ ProcOf \in [Threads -> Procs] /\ Pool \subseteq Threads
  /\ Kinds \subseteq {"call", "async"} /\ Sleepers \subseteq Threads
  /\ Worker \notin Threads /\ Procs \cap Threads = {} /\ IsFiniteSet(Threads) /\ IsFiniteSet(Txns)
  /\ None \notin Procs \cup Threads \cup Txns
  /\ {"complete", "return_error", "reply_error"} \cap Txns = {}
  /\ MaxThreads \in Nat /\ MaxCalls \in Nat /\ Faults \in Nat

VARIABLES
  prc,    \* per process: struct binder_proc with its node
  thr,    \* per thread: struct binder_thread
  txn,    \* per object: struct binder_transaction
  job,    \* per task: its place in the driver
  calls, faults   \* used up, for the bounds

vars == <<prc, thr, txn, job, calls, faults>>

NoTxn == [kind |-> "free", from |-> None, to_proc |-> None, to_thread |-> None,
          from_parent |-> None, to_parent |-> None]
Idle == [pc |-> "idle", t |-> None, re |-> None, target |-> None, proc |-> None,
         dying |-> None, next |-> "idle"]
OpenProc == [life |-> "open", tmp |-> 0, todo |-> <<>>, async_todo |-> <<>>, has_async |-> FALSE,
             buffers |-> 0, stuck |-> 0, requested |-> 0, started |-> 0]
NewThread(h) == [mem |-> "live", dead |-> FALSE, tmp |-> 0, stack |-> None, todo |-> <<>>,
                 process_todo |-> FALSE, waiting |-> FALSE, looper |-> h \notin Pool,
                 return_error |-> FALSE, reply_error |-> FALSE]
\* Of the memory of a freed thread only the list matters, which must be empty.
FreedThread(h, todo) == [NewThread(h) EXCEPT !.mem = "freed", !.dead = TRUE, !.todo = todo]

Init ==
  /\ prc = [p \in Procs |-> OpenProc] /\ thr = [h \in Threads |-> NewThread(h)]
  /\ txn = [t \in Txns |-> NoTxn] /\ job = [x \in Tasks |-> Idle]
  /\ calls = 0 /\ faults = 0

-----------------------------------------------------------------------------
(* Counts that keep threads and processes, and lists.                      *)

ThreadsOf(p) == {h \in Threads : ProcOf[h] = p}

\* The inner lock of p is free: no task is inside a walk under it.
Inner(p) == \A x \in Tasks : job[x].pc = "walk" => ProcOf[job[x].dying] # p

\* binder_proc_dec_tmpref(): T says which threads are still in proc->threads.
DecProc(P, T, p) ==
  [P EXCEPT ![p].tmp = @ - 1,
            ![p].life = IF @ # "open" /\ P[p].tmp = 1 /\ \A h \in ThreadsOf(p) : T[h].dead
                          THEN "freed" ELSE @]

\* binder_thread_dec_tmpref() as changes of thr and of prc.
ThreadFreed(h) == h # None /\ thr[h].dead /\ thr[h].tmp = 1
DecThread(T, h) ==
  IF h = None THEN T
  ELSE [T EXCEPT ![h] = IF ThreadFreed(h) THEN FreedThread(h, T[h].todo)
                        ELSE [T[h] EXCEPT !.tmp = @ - 1]]
DecThreadProc(P, T, h) == IF ThreadFreed(h) THEN DecProc(P, T, ProcOf[h]) ELSE P

\* binder_enqueue_thread_work_ilocked() and its deferred form.
Enqueue(T, h, w) == [T EXCEPT ![h].todo = Append(@, w), ![h].process_todo = TRUE]
EnqueueDeferred(T, h, w) == [T EXCEPT ![h].todo = Append(@, w)]

\* binder_dequeue_work() of a task's TRANSACTION_COMPLETE, the one queued last.
TakeBack(T, h) ==
  LET s == T[h].todo
      k == CHOOSE i \in 1 .. Len(s) : s[i] = "complete" /\ \A j \in i + 1 .. Len(s) : s[j] # "complete"
  IN  [T EXCEPT ![h].todo = SubSeq(s, 1, k - 1) \o SubSeq(s, k + 1, Len(s))]

\* binder_pop_transaction_ilocked()
PopStack(T, h, t) == [T EXCEPT ![h].stack = txn[t].from_parent]

\* binder_free_transaction(): it takes the inner lock of to_proc.
MayFree(t) == txn[t].to_proc # None => Inner(txn[t].to_proc)

\* thread->return_error: no further command is taken until it has been read.
ReturnError(T, h) == [Enqueue(T, h, "return_error") EXCEPT ![h].return_error = TRUE]

Become(x, j) == job' = [job EXCEPT ![x] = j]
\* The thread enters the driver, or goes on there with the next command.
Ready(h) == /\ prc[ProcOf[h]].life = "open" /\ ~thr[h].dead /\ ~thr[h].waiting
            /\ job[h].pc = "idle" /\ Inner(ProcOf[h])
\* A command of binder_thread_write().
Writing(h) == Ready(h) /\ ~thr[h].return_error
Fault == faults < Faults /\ faults' = faults + 1

-----------------------------------------------------------------------------
(* BC_TRANSACTION.                                                         *)

\* The transaction k callers behind t, along from_parent.
Behind(t) ==
  LET at[k \in 0 .. Cardinality(Txns)] ==
        IF k = 0 THEN t ELSE IF at[k - 1] = None THEN None ELSE txn[at[k - 1]].from_parent
  IN  at

\* A call back into a process that waits in the chain goes to the thread that waits.
CallBack(h, p) ==
  LET at == Behind(thr[h].stack)
      hits == {k \in DOMAIN at : /\ at[k] # None /\ txn[at[k]].from # None
                                 /\ ProcOf[txn[at[k]].from] = p}
  IN  IF hits = {} THEN None
      ELSE txn[at[CHOOSE k \in hits : \A l \in hits : k <= l]].from

\* Mutant: a second call is allowed while the first one is not answered.
MayCall_twice(h) == Len(thr[h].todo) > 0 => Head(thr[h].todo) \notin Txns
\* A call is refused with a transaction at the head of the thread's todo list and
\* while an earlier one is not answered.
MayCall(h) ==
  /\ Len(thr[h].todo) > 0 => Head(thr[h].todo) \notin Txns
  /\ thr[h].stack # None => txn[thr[h].stack].to_thread = h

\* binder_get_node_refs_for_txn(): the node still has its process.
Alive(p) == prc[p].life \in {"open", "dead"} /\ Inner(p)

\* The target is looked up and kept, the transaction allocated and built.
Call(h, p, kind, t) ==
  /\ Writing(h) /\ p # ProcOf[h] /\ Alive(p) /\ calls < MaxCalls
  /\ (kind = "call" => MayCall(h))
  /\ txn[t].kind = "free"
  /\ LET back == IF kind = "call" THEN CallBack(h, p) ELSE None IN
     /\ txn' = [txn EXCEPT ![t] = [NoTxn EXCEPT !.kind = kind, !.to_proc = p, !.to_thread = back,
                                     !.from = IF kind = "call" THEN h ELSE None]]
     /\ prc' = [prc EXCEPT ![p].tmp = @ + 1]
     /\ thr' = IF back = None THEN thr ELSE [thr EXCEPT ![back].tmp = @ + 1]
     /\ Become(h, [Idle EXCEPT !.pc = "built", !.t = t, !.target = back, !.proc = p])
  /\ calls' = calls + 1 /\ UNCHANGED faults

\* No such node any more, or the thread is not allowed to call now.
CallRefused(h, p) ==
  /\ Writing(h) /\ p # ProcOf[h] /\ Fault
  /\ MayCall(h) => prc[p].life \in {"gone", "freed"}
  /\ thr' = ReturnError(thr, h)
  /\ UNCHANGED <<prc, txn, job, calls>>

\* The end of a transaction in error: its memory and the temporary references go, the
\* sender is told, and with a reply the caller as well.
Abandon(h, P, T) ==
  LET j == job[h] IN
  /\ thr' = DecThread(ReturnError(T, h), j.target)
  /\ prc' = DecProc(DecThreadProc(P, thr', j.target), thr', j.proc)
  /\ txn' = [txn EXCEPT ![j.t] = NoTxn]
  /\ Become(h, IF j.re = None THEN Idle ELSE [Idle EXCEPT !.pc = "fail1", !.t = j.re])

\* An allocation, a copy or the translation of an object fails.
CallFails(h) ==
  /\ job[h].pc \in {"built", "rbuilt"} /\ Inner(ProcOf[h]) /\ Inner(job[h].proc)
  /\ Fault /\ Abandon(h, prc, thr) /\ UNCHANGED calls

\* TRANSACTION_COMPLETE, deferred for a call, and the call on the sender's stack.
Push(h) ==
  LET j == job[h] IN
  /\ j.pc = "built" /\ Inner(ProcOf[h]) /\ Become(h, [j EXCEPT !.pc = "queue"])
  /\ IF txn[j.t].kind = "call"
       THEN /\ thr' = [EnqueueDeferred(thr, h, "complete") EXCEPT ![h].stack = j.t]
            /\ txn' = [txn EXCEPT ![j.t].from_parent = thr[h].stack]
       ELSE thr' = Enqueue(thr, h, "complete") /\ txn' = txn
  /\ UNCHANGED <<prc, calls, faults>>

Waiting(p) == {h \in ThreadsOf(p) : thr[h].waiting}
TargetDead(h) == prc[job[h].proc].life # "open" \/ (job[h].target # None /\ thr[job[h].target].dead)

\* Another one-way transaction of the node has its turn.
Pending(h) == txn[job[h].t].kind = "async" /\ prc[job[h].proc].has_async

\* binder_select_thread_ilocked(): a waiting thread leaves waiting_threads.
Select(p) == IF Waiting(p) = {} THEN {None} ELSE Waiting(p)
Wake(T, d) == IF d = None THEN T ELSE [T EXCEPT ![d].waiting = FALSE]

\* The thread whose todo list gets the transaction, None for a list of the process.
QueueAt(h) ==
  IF job[h].target # None THEN {job[h].target}
  ELSE IF Pending(h) THEN {None} ELSE Select(job[h].proc)

\* binder_proc_transaction() to the thread that waits for it, to a waiting looper, to
\* the process, or behind another one-way transaction.
Queue(h) ==
  LET j == job[h]
      p == j.proc IN
  /\ j.pc = "queue" /\ Inner(p) /\ ~TargetDead(h)
  /\ \E d \in QueueAt(h) :
       LET T == IF d = None THEN thr ELSE Wake(Enqueue(thr, d, j.t), d)
           P == [prc EXCEPT
                   ![p].has_async = @ \/ txn[j.t].kind = "async",
                   ![p].async_todo = IF Pending(h) THEN Append(@, j.t) ELSE @,
                   ![p].todo = IF d = None /\ ~Pending(h) THEN Append(@, j.t) ELSE @]
       IN  /\ thr' = DecThread(T, j.target)
           /\ prc' = DecProc(DecThreadProc(P, thr', j.target), thr', p)
  /\ Become(h, Idle)
  /\ UNCHANGED <<txn, calls, faults>>

\* The target died: off the stack again, and nothing is complete.  A one-way
\* transaction leaves has_async_transaction set, at a node nobody can call any more.
QueueDead(h) ==
  LET j == job[h]
      call == txn[j.t].kind = "call" IN
  /\ j.pc = "queue" /\ Inner(j.proc) /\ Inner(ProcOf[h]) /\ TargetDead(h)
  /\ Abandon(h, [prc EXCEPT ![j.proc].has_async = @ \/ ~call],
             TakeBack(IF call THEN PopStack(thr, h, j.t) ELSE thr, h))
  /\ UNCHANGED <<calls, faults>>

-----------------------------------------------------------------------------
(* BC_REPLY.                                                               *)

\* The call being answered leaves the stack of the thread.
Reply(h) ==
  LET t == thr[h].stack IN
  /\ Writing(h) /\ t # None /\ txn[t].to_thread = h
  /\ thr' = [thr EXCEPT ![h].stack = txn[t].to_parent]
  /\ Become(h, [Idle EXCEPT !.pc = "reply0", !.re = t])
  /\ UNCHANGED <<prc, txn, calls, faults>>

\* A reply without a call on top of the stack is refused.
ReplyRefused(h) ==
  /\ Writing(h) /\ (thr[h].stack # None => txn[thr[h].stack].to_thread # h)
  /\ Fault /\ thr' = ReturnError(thr, h)
  /\ UNCHANGED <<prc, txn, job, calls>>

\* The caller is gone: whoever waits behind it gets the error.
CallerGone(h) ==
  /\ thr' = DecThread(ReturnError(thr, h), job[h].target)
  /\ prc' = DecThreadProc(prc, thr', job[h].target)
  /\ Become(h, [Idle EXCEPT !.pc = "fail1", !.t = job[h].re])

\* atomic_inc(&from->tmp_ref)
Hold(T, h) == [T EXCEPT ![h].tmp = @ + 1]

\* binder_get_txn_from(), under the lock of the transaction.
ReplyFrom(h) ==
  LET j == job[h]
      from == txn[j.re].from IN
  /\ j.pc = "reply0"
  /\ IF from = None THEN Inner(ProcOf[h]) /\ CallerGone(h)
     ELSE /\ thr' = Hold(thr, from) /\ prc' = prc
          /\ Become(h, [j EXCEPT !.pc = "reply1", !.target = from])
  /\ UNCHANGED <<txn, calls, faults>>

\* The second look at t->from, now under the caller's inner lock; the reply is built.
ReplyLock(h, t) ==
  LET j == job[h]
      p == ProcOf[j.target] IN
  /\ j.pc = "reply1" /\ Inner(p) /\ txn[j.re].from # None /\ txn[t].kind = "free"
  /\ prc' = [prc EXCEPT ![p].tmp = @ + 1]
  /\ txn' = [txn EXCEPT ![t] = [NoTxn EXCEPT !.kind = "reply", !.to_proc = p, !.to_thread = j.target]]
  /\ Become(h, [j EXCEPT !.pc = "rbuilt", !.t = t, !.proc = p])
  /\ UNCHANGED <<thr, calls, faults>>

ReplyTooLate(h) ==
  /\ job[h].pc = "reply1" /\ Inner(ProcOf[job[h].target]) /\ Inner(ProcOf[h])
  /\ txn[job[h].re].from = None /\ CallerGone(h)
  /\ UNCHANGED <<txn, calls, faults>>

ReplyComplete(h) ==
  /\ job[h].pc = "rbuilt" /\ Inner(ProcOf[h])
  /\ thr' = Enqueue(thr, h, "complete") /\ Become(h, [job[h] EXCEPT !.pc = "rsend"])
  /\ UNCHANGED <<prc, txn, calls, faults>>

\* The call leaves the caller's stack and the reply goes to the caller's todo list.
ReplySend(h) ==
  LET j == job[h] IN
  /\ j.pc = "rsend" /\ Inner(j.proc) /\ ~thr[j.target].dead
  /\ thr' = DecThread(Enqueue(PopStack(thr, j.target, j.re), j.target, j.t), j.target)
  /\ prc' = DecProc(DecThreadProc(prc, thr', j.target), thr', j.proc)
  /\ txn' = [txn EXCEPT ![j.re].from = None]
  /\ Become(h, [Idle EXCEPT !.pc = "free", !.t = j.re]) /\ UNCHANGED <<calls, faults>>

ReplyDead(h) ==
  /\ job[h].pc = "rsend" /\ Inner(job[h].proc) /\ Inner(ProcOf[h]) /\ thr[job[h].target].dead
  /\ Abandon(h, prc, TakeBack(thr, h)) /\ UNCHANGED <<calls, faults>>

-----------------------------------------------------------------------------
(* binder_send_failed_reply(): up the chain to the first caller that lives. *)

\* binder_get_txn_from(); a transaction without a caller is freed.
Fail1(x) ==
  LET j == job[x]
      t == j.t
      from == txn[t].from IN
  /\ j.pc = "fail1"
  /\ IF from = None
       THEN /\ MayFree(t) /\ txn' = [txn EXCEPT ![t] = NoTxn] /\ thr' = thr
            /\ Become(x, [j EXCEPT !.pc = IF txn[t].from_parent = None THEN j.next ELSE @,
                                   !.t = txn[t].from_parent])
       ELSE /\ thr' = Hold(thr, from) /\ txn' = txn
            /\ Become(x, [j EXCEPT !.pc = "fail2", !.target = from])
  /\ UNCHANGED <<prc, calls, faults>>

\* Mutant: the error does not wake the thread.
ReplyError_deferred(T, h) == [EnqueueDeferred(T, h, "reply_error") EXCEPT ![h].reply_error = TRUE]
\* thread->reply_error of the caller; a second error in a row is dropped.
ReplyError(T, h) ==
  IF T[h].reply_error THEN T
  ELSE [Enqueue(T, h, "reply_error") EXCEPT ![h].reply_error = TRUE]

\* The second look under the inner lock: the caller gets the error, or is gone by now.
Fail2(x) ==
  LET j == job[x]
      h == j.target IN
  /\ j.pc = "fail2" /\ Inner(ProcOf[h])
  /\ IF txn[j.t].from = None
       THEN /\ thr' = DecThread(thr, h) /\ txn' = txn
            /\ Become(x, [j EXCEPT !.pc = "fail1", !.target = None])
       ELSE /\ txn' = [txn EXCEPT ![j.t].from = None]
            /\ thr' = DecThread(ReplyError(PopStack(thr, h, j.t), h), h)
            /\ Become(x, [j EXCEPT !.pc = "free", !.target = None])
  /\ prc' = DecThreadProc(prc, thr', h)
  /\ UNCHANGED <<calls, faults>>

Free(x) ==
  LET j == job[x] IN
  /\ j.pc = "free" /\ MayFree(j.t) /\ txn' = [txn EXCEPT ![j.t] = NoTxn]
  /\ Become(x, [j EXCEPT !.pc = j.next, !.t = None])
  /\ UNCHANGED <<prc, thr, calls, faults>>

-----------------------------------------------------------------------------
(* binder_thread_read(), BC_FREE_BUFFER and the looper pool.               *)

\* binder_wait_for_work(): a looper with nothing to do joins waiting_threads; any wake-up
\* or signal takes it off again.
Idling(h) == thr[h].looper /\ thr[h].stack = None /\ Len(thr[h].todo) = 0
Wait(h) ==
  /\ h \in Sleepers /\ Ready(h) /\ Idling(h) /\ ~thr[h].process_todo /\ Len(prc[ProcOf[h]].todo) = 0
  /\ thr' = [thr EXCEPT ![h].waiting = TRUE]
  /\ UNCHANGED <<prc, txn, job, calls, faults>>
Signal(h) ==
  /\ thr[h].waiting /\ Inner(ProcOf[h]) /\ thr' = [thr EXCEPT ![h].waiting = FALSE]
  /\ UNCHANGED <<prc, txn, job, calls, faults>>

\* Mutant: a thread is requested although one is requested already.
MaySpawn_again(h) == Waiting(ProcOf[h]) = {} /\ prc[ProcOf[h]].started < MaxThreads /\ thr[h].looper
\* BR_SPAWN_LOOPER
MaySpawn(h) ==
  LET p == prc[ProcOf[h]] IN
  p.requested = 0 /\ Waiting(ProcOf[h]) = {} /\ p.started < MaxThreads /\ thr[h].looper

\* The end of a read.
EndRead(P, h) == [P EXCEPT ![ProcOf[h]].requested = IF MaySpawn(h) THEN @ + 1 ELSE @]

\* What the thread does with the work item w it took off a list; a transaction keeps its
\* sender until it is delivered.
Take(h, P, T, w) ==
  LET item == w \in Txns
      from == IF item THEN txn[w].from ELSE None IN
  /\ thr' = IF item THEN IF from = None THEN T ELSE Hold(T, from)
            ELSE [T EXCEPT ![h].return_error = @ /\ w # "return_error",
                           ![h].reply_error = @ /\ w # "reply_error"]
  /\ prc' = IF item THEN P ELSE EndRead(P, h)
  /\ Become(h, IF item THEN [Idle EXCEPT !.pc = "deliver", !.t = w, !.target = from] ELSE Idle)
  /\ UNCHANGED <<txn, calls, faults>>

ReadOwn(h) ==
  /\ Ready(h) /\ Len(thr[h].todo) > 0
  /\ Take(h, prc, [thr EXCEPT ![h].todo = Tail(@), ![h].process_todo = @ /\ Len(thr[h].todo) > 1],
          Head(thr[h].todo))

ReadProc(h) ==
  LET p == ProcOf[h] IN
  /\ Ready(h) /\ Idling(h) /\ Len(prc[p].todo) > 0
  /\ Take(h, [prc EXCEPT ![p].todo = Tail(@)], [thr EXCEPT ![h].process_todo = FALSE],
          Head(prc[p].todo))

\* A call goes on the thread's stack; of a one-way transaction the buffer stays, which
\* user space frees.
Deliver(h) ==
  LET j == job[h]
      p == ProcOf[h]
      P == EndRead(DecThreadProc(prc, DecThread(thr, j.target), j.target), h) IN
  /\ j.pc = "deliver" /\ Become(h, Idle)
  /\ Inner(p) /\ (j.target # None => Inner(ProcOf[j.target]))
  /\ IF txn[j.t].kind = "call"
       THEN /\ thr' = [DecThread(thr, j.target) EXCEPT ![h].stack = j.t] /\ prc' = P
            /\ txn' = [txn EXCEPT ![j.t].to_parent = thr[h].stack, ![j.t].to_thread = h]
       ELSE /\ thr' = DecThread(thr, j.target) /\ txn' = [txn EXCEPT ![j.t] = NoTxn]
            /\ prc' = [P EXCEPT ![p].buffers = IF txn[j.t].kind = "async" THEN @ + 1 ELSE @]
  /\ UNCHANGED <<calls, faults>>

\* Mutant: the turn is given up although the next transaction is started.
NextAsync_off(P, p) ==
  IF Len(P[p].async_todo) = 0 THEN [P EXCEPT ![p].has_async = FALSE]
  ELSE [P EXCEPT ![p].todo = Append(@, Head(P[p].async_todo)), ![p].async_todo = Tail(@),
                 ![p].has_async = FALSE]
\* binder_free_buf(): the next one-way transaction of the node has its turn.
NextAsync(P, p) ==
  IF Len(P[p].async_todo) = 0 THEN [P EXCEPT ![p].has_async = FALSE]
  ELSE [P EXCEPT ![p].todo = Append(@, Head(P[p].async_todo)), ![p].async_todo = Tail(@)]
WakeNext(T, p, d) == IF Len(prc[p].async_todo) = 0 THEN T ELSE Wake(T, d)

\* binder_cleanup_transaction() of what cannot be delivered, at the end of a call of the
\* driver or, in a release, before the next item of a list.
Cleanup(x, t, next) ==
  IF txn[t].kind = "call"
    THEN /\ Become(x, [job[x] EXCEPT !.pc = "fail1", !.t = t, !.target = None, !.next = next])
         /\ txn' = txn
    ELSE /\ Become(x, [job[x] EXCEPT !.pc = next, !.t = None, !.target = None])
         /\ txn' = [txn EXCEPT ![t] = NoTxn]

\* The file descriptors cannot be installed: the buffer is freed like one of user space.
FixupsFail(h) ==
  LET j == job[h]
      p == ProcOf[h]
      P == DecThreadProc(prc, DecThread(thr, j.target), j.target)
      async == txn[j.t].kind = "async" IN
  /\ j.pc = "deliver" /\ Inner(p) /\ (j.target # None => Inner(ProcOf[j.target]))
  /\ Fault /\ Cleanup(h, j.t, "idle")
  /\ \E d \in Select(p) :
       thr' = IF async THEN WakeNext(DecThread(thr, j.target), p, d) ELSE DecThread(thr, j.target)
  /\ prc' = IF async THEN NextAsync(P, p) ELSE P
  /\ UNCHANGED calls

\* The reader's memory cannot be written: nobody frees the buffer any more.
CopyFails(h) ==
  LET j == job[h]
      p == ProcOf[h] IN
  /\ j.pc = "deliver" /\ Inner(p) /\ (j.target # None => Inner(ProcOf[j.target]))
  /\ Fault /\ Cleanup(h, j.t, "idle")
  /\ thr' = DecThread(thr, j.target)
  /\ prc' = [DecThreadProc(prc, thr', j.target) EXCEPT
               ![p].stuck = IF txn[j.t].kind = "async" THEN @ + 1 ELSE @]
  /\ UNCHANGED calls

\* BC_FREE_BUFFER of a one-way transaction.
FreeBuffer(h) ==
  LET p == ProcOf[h] IN
  /\ Writing(h) /\ prc[p].buffers > 0
  /\ \E d \in Select(p) : thr' = WakeNext(thr, p, d)
  /\ prc' = NextAsync([prc EXCEPT ![p].buffers = @ - 1], p)
  /\ UNCHANGED <<txn, job, calls, faults>>

\* BC_REGISTER_LOOPER, with or without a request.
RegisterLooper(h) ==
  LET r == IF prc[ProcOf[h]].requested = 0 THEN 0 ELSE 1 IN
  /\ Writing(h) /\ h \in Pool /\ ~thr[h].looper
  /\ prc' = [prc EXCEPT ![ProcOf[h]].requested = @ - r, ![ProcOf[h]].started = @ + r]
  /\ thr' = [thr EXCEPT ![h].looper = TRUE]
  /\ UNCHANGED <<txn, job, calls, faults>>

-----------------------------------------------------------------------------
(* Release of a thread, by itself or with its process.                     *)

\* Mutant: nobody answers the call.
SendReply_none(t, h) == None
\* send_reply: the call the thread handles, if that is on top of its stack.
SendReply(t, h) == IF t # None /\ txn[t].to_thread = h THEN t ELSE None

\* The thread is dead; under its inner lock the walk over its stack begins.
Release(x, h) ==
  LET t == thr[h].stack IN
  /\ Inner(ProcOf[h])
  /\ thr' = [thr EXCEPT ![h].dead = TRUE, ![h].tmp = @ + 1]
  /\ prc' = [prc EXCEPT ![ProcOf[h]].tmp = @ + 1]
  /\ Become(x, [job[x] EXCEPT !.pc = IF t = None THEN "drain" ELSE "walk", !.t = t, !.dying = h,
                              !.re = SendReply(t, h)])
  /\ UNCHANGED <<txn, calls, faults>>

Exit(h) == Ready(h) /\ h \in Mortal /\ Release(h, h)

\* Mutant: the transactions the thread has sent keep it as their sender.
Unlink_in(t, h) ==
  IF txn[t].to_thread = h THEN [txn EXCEPT ![t].to_proc = None, ![t].to_thread = None] ELSE txn
\* One transaction of the stack, under its lock.
Unlink(t, h) ==
  IF txn[t].to_thread = h THEN [txn EXCEPT ![t].to_proc = None, ![t].to_thread = None]
  ELSE [txn EXCEPT ![t].from = None]
\* The one below it on the stack.
Below(t, h) == IF txn[t].to_thread = h THEN txn[t].to_parent ELSE txn[t].from_parent

Walk(x) ==
  LET j == job[x]
      next == Below(j.t, j.dying) IN
  /\ j.pc = "walk" /\ txn' = Unlink(j.t, j.dying)
  /\ Become(x, IF next # None THEN [j EXCEPT !.t = next]
               ELSE [j EXCEPT !.pc = IF j.re = None THEN "drain" ELSE "fail1", !.t = j.re,
                              !.re = None, !.next = "drain"])
  /\ UNCHANGED <<prc, thr, calls, faults>>

\* binder_release_work() of the thread's list, then binder_thread_dec_tmpref().
Drain(x) ==
  LET j == job[x]
      h == j.dying
      s == thr[h].todo
      w == Head(s) IN
  /\ j.pc = "drain" /\ Inner(ProcOf[h]) /\ Len(s) > 0
  /\ thr' = [thr EXCEPT ![h].todo = Tail(s)]
  /\ IF w \in Txns THEN Cleanup(x, w, "drain") ELSE UNCHANGED <<job, txn>>
  /\ prc' = IF w \in Txns /\ txn[w].kind = "async" THEN [prc EXCEPT ![ProcOf[h]].stuck = @ + 1]
            ELSE prc
  /\ UNCHANGED <<calls, faults>>

Drained(x) ==
  LET j == job[x]
      h == j.dying IN
  /\ j.pc = "drain" /\ Inner(ProcOf[h]) /\ Len(thr[h].todo) = 0
  /\ thr' = DecThread(thr, h) /\ prc' = DecThreadProc(prc, thr', h)
  /\ Become(x, IF x = Worker THEN [j EXCEPT !.pc = "threads", !.dying = None] ELSE Idle)
  /\ UNCHANGED <<txn, calls, faults>>

\* binder_deferred_release(): no thread of the process is in the driver any more.
Close(p) ==
  /\ p \in Mortal /\ prc[p].life = "open" /\ job[Worker].pc = "idle" /\ Inner(p)
  /\ \A h \in ThreadsOf(p) : job[h].pc = "idle" /\ ~thr[h].waiting
  /\ prc' = [prc EXCEPT ![p].life = "dead", ![p].tmp = @ + 1]
  /\ Become(Worker, [Idle EXCEPT !.pc = "threads", !.proc = p])
  /\ UNCHANGED <<thr, txn, calls, faults>>

CloseThread(h) ==
  /\ job[Worker].pc = "threads" /\ ProcOf[h] = job[Worker].proc /\ ~thr[h].dead
  /\ Release(Worker, h)

\* binder_node_release(): async_todo is emptied, then the node loses its process.
CloseNode ==
  LET p == job[Worker].proc
      s == prc[p].async_todo IN
  /\ job[Worker].pc = "threads" /\ Inner(p) /\ \A h \in ThreadsOf(p) : thr[h].dead
  /\ IF Len(s) > 0
       THEN /\ prc' = [prc EXCEPT ![p].async_todo = Tail(s)]
            /\ txn' = [txn EXCEPT ![Head(s)] = NoTxn] /\ job' = job
       ELSE /\ prc' = [prc EXCEPT ![p].life = "gone"] /\ txn' = txn
            /\ Become(Worker, [job[Worker] EXCEPT !.pc = "todo"])
  /\ UNCHANGED <<thr, calls, faults>>

\* binder_release_work() of proc->todo, then binder_proc_dec_tmpref().
CloseTodo ==
  LET p == job[Worker].proc
      s == prc[p].todo IN
  /\ job[Worker].pc = "todo" /\ Inner(p)
  /\ IF Len(s) > 0
       THEN prc' = [prc EXCEPT ![p].todo = Tail(s)] /\ Cleanup(Worker, Head(s), "todo")
       ELSE prc' = DecProc(prc, thr, p) /\ Become(Worker, Idle) /\ txn' = txn
  /\ UNCHANGED <<thr, calls, faults>>

-----------------------------------------------------------------------------
Driver(x) ==
  \/ x \in Threads /\
       \/ \E t \in Txns : ReplyLock(x, t)
       \/ Push(x) \/ Queue(x) \/ QueueDead(x) \/ ReplyFrom(x) \/ ReplyTooLate(x)
       \/ ReplyComplete(x) \/ ReplySend(x) \/ ReplyDead(x) \/ Deliver(x)
  \/ Fail1(x) \/ Fail2(x) \/ Free(x) \/ Walk(x) \/ Drain(x) \/ Drained(x)
  \/ x = Worker /\ (CloseNode \/ CloseTodo \/ \E h \in Threads : CloseThread(h))

User(h) ==
  \/ \E p \in Procs : CallRefused(h, p) \/ \E k \in Kinds, t \in Txns : Call(h, p, k, t)
  \/ Reply(h) \/ ReplyRefused(h) \/ Wait(h) \/ Signal(h) \/ ReadOwn(h) \/ ReadProc(h) \/ FreeBuffer(h)
  \/ RegisterLooper(h) \/ Exit(h) \/ CallFails(h) \/ FixupsFail(h) \/ CopyFails(h)

Next ==
  \/ \E x \in Tasks : Driver(x)
  \/ \E h \in Threads : User(h)
  \/ \E p \in Procs : Close(p)

Spec == Init /\ [][Next]_vars

-----------------------------------------------------------------------------
(* What makes it correct.                                                  *)

Lists(t) == \/ \E h \in Threads : \E i \in DOMAIN thr[h].todo : thr[h].todo[i] = t
            \/ \E p \in Procs : \/ \E i \in DOMAIN prc[p].todo : prc[p].todo[i] = t
                                \/ \E i \in DOMAIN prc[p].async_todo : prc[p].async_todo[i] = t
Jobs(t) == \E x \in Tasks : t \in {job[x].t, job[x].re}

TypeOK ==
  /\ prc \in [Procs -> [life : {"open", "dead", "gone", "freed"}, tmp : Nat,
                        todo : Seq(Txns), async_todo : Seq(Txns), has_async : BOOLEAN,
                        buffers : Nat, stuck : Nat, requested : Nat, started : Nat]]
  /\ thr \in [Threads -> [mem : {"live", "freed"}, dead : BOOLEAN, tmp : Nat,
                          stack : Txns \cup {None},
                          todo : Seq(Txns \cup {"complete", "return_error", "reply_error"}),
                          process_todo : BOOLEAN, waiting : BOOLEAN, looper : BOOLEAN,
                          return_error : BOOLEAN, reply_error : BOOLEAN]]
  /\ txn \in [Txns -> [kind : {"free", "call", "async", "reply"}, from : Threads \cup {None},
                       to_proc : Procs \cup {None}, to_thread : Threads \cup {None},
                       from_parent : Txns \cup {None}, to_parent : Txns \cup {None}]]
  /\ \A x \in Tasks : /\ {job[x].t, job[x].re} \subseteq Txns \cup {None}
                      /\ {job[x].target, job[x].dying} \subseteq Threads \cup {None}
  /\ calls \in 0 .. MaxCalls /\ faults \in 0 .. Faults

\* The assertions of the driver hold when it gets there: the transaction a reply or a failed
\* reply takes off a caller's stack is on top of it and was sent by that thread, a released
\* thread's stack holds only its own transactions, and what is freed has empty lists.
AssertionsHold ==
  /\ \A x \in Tasks :
       LET j == job[x]
           OnTop(h, t) == Inner(ProcOf[h]) => thr[h].stack = t /\ txn[t].from = h IN
       /\ j.pc = "fail2" /\ txn[j.t].from # None => OnTop(j.target, j.t)
       /\ j.pc = "reply1" /\ txn[j.re].from # None => OnTop(j.target, j.re)
       /\ j.pc = "rsend" /\ ~thr[j.target].dead => OnTop(j.target, j.re)
       /\ j.pc = "queue" /\ txn[j.t].kind = "call" /\ TargetDead(x) => OnTop(x, j.t)
       /\ j.pc = "walk" => j.dying \in {txn[j.t].from, txn[j.t].to_thread}
  /\ \A h \in Threads : thr[h].mem = "freed" => Len(thr[h].todo) = 0
  /\ \A p \in Procs : /\ prc[p].life = "freed" => Len(prc[p].todo) = 0
                      /\ prc[p].life = "open" /\ prc[p].buffers > 0 => prc[p].has_async

\* Nothing that the driver will follow points to freed memory, and every transaction has one
\* owner at most that will free it.
PointersLive ==
  /\ \A h \in Threads : thr[h].mem = "live" /\ ~thr[h].dead /\ thr[h].stack # None
                          => txn[thr[h].stack].kind = "call"
  /\ \A t \in Txns :
       /\ Lists(t) \/ Jobs(t) => txn[t].kind # "free"
       /\ (\A x \in Tasks : job[x].pc = "free" => job[x].t # t) =>
            \A u \in {txn[t].from_parent} \ {None} : txn[u].kind = "call"
       /\ \A h \in {txn[t].from, txn[t].to_thread} \ {None} : thr[h].mem = "live"
       /\ \A p \in {txn[t].to_proc} \ {None} : prc[p].life # "freed"
       /\ \A x, y \in Tasks : x # y /\ t \in {job[x].t, job[x].re} /\ t \in {job[y].t, job[y].re}
            => "walk" \in {job[x].pc, job[y].pc}
  /\ \A x \in Tasks : /\ \A h \in {job[x].target, job[x].dying} \ {None} : thr[h].mem = "live"
                      /\ \A p \in {job[x].proc} \ {None} : prc[p].life # "freed"

\* The temporary references are exactly those of the tasks inside the driver and of the dead
\* threads that are not freed yet, so that a released thread or process is freed when the
\* last of them is done, neither earlier nor never.
TmpRefsExact ==
  /\ \A h \in Threads : thr[h].mem = "live" =>
       /\ thr[h].tmp = Cardinality({x \in Tasks : job[x].target = h})
                       + Cardinality({x \in Tasks : job[x].dying = h})
       /\ thr[h].dead => thr[h].tmp > 0
  /\ \A p \in Procs : prc[p].life # "freed" =>
       /\ prc[p].tmp = Cardinality({x \in Tasks : job[x].proc = p})
                       + Cardinality({h \in ThreadsOf(p) : thr[h].dead /\ thr[h].mem = "live"})
       /\ prc[p].life # "open" => prc[p].tmp > 0

\* Threads, processes and transactions live exactly as long as something needs them,
\* through exits and failed replies that go up and down the same chain.
ThreadsSound == TypeOK /\ PointersLive /\ TmpRefsExact

\* A caller is not forgotten: the call a live thread waits for is on a list, with a task, or
\* on the stack of a live thread; and when its handler exited, it is behind a call of which
\* that is true, whose end will fail all calls behind it.
Handled(t) == Lists(t) \/ Jobs(t) \/ (txn[t].to_thread # None /\ ~thr[txn[t].to_thread].dead)
CallerNotForgotten ==
  \A h \in Threads :
    LET t == thr[h].stack IN
    ~thr[h].dead /\ t # None /\ txn[t].to_thread # h =>
      \E u \in Txns : txn[u].kind = "call" /\ Handled(u) /\ \E k \in DOMAIN Behind(u) : Behind(u)[k] = t

\* One-way transactions of a node take turns: while its process lives, one of them is outside
\* async_todo, or its buffer not yet freed, exactly when has_async_transaction says so.
AsyncTurnExact ==
  \A p \in Procs : prc[p].life = "open" =>
    LET out == {t \in Txns : /\ txn[t].kind = "async" /\ txn[t].to_proc = p
                             /\ \A i \in DOMAIN prc[p].async_todo : prc[p].async_todo[i] # t
                             /\ \A x \in Tasks : job[x].t = t => job[x].pc = "deliver"}
    IN  /\ Cardinality(out) + prc[p].buffers + prc[p].stuck = IF prc[p].has_async THEN 1 ELSE 0
        /\ Len(prc[p].async_todo) > 0 => prc[p].has_async

\* "nothing is queued to the todo list while the thread is on waiting_threads", and a thread
\* there handles no call.
WaitersIdle == \A h \in Threads : thr[h].waiting => thr[h].stack = None /\ Len(thr[h].todo) = 0

\* A thread does not sleep over work: only a deferred TRANSACTION_COMPLETE may be on its list
\* without process_todo, and never behind something that should wake it.
NoSleepOverWork ==
  \A h \in Threads : ~thr[h].dead /\ ~thr[h].process_todo =>
    \A i \in DOMAIN thr[h].todo : thr[h].todo[i] = "complete"

\* A process never has more pool threads, started or on order, than it allows.
PoolBound == \A p \in Procs : prc[p].requested + prc[p].started <= MaxThreads

\* The pool of a process stays within its limit, and a thread that waits in it has neither
\* work of its own nor a call to answer, so that any of them can be chosen.
PoolSound == PoolBound /\ WaitersIdle
=============================================================================
