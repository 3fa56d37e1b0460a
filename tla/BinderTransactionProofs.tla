---------------------- MODULE BinderTransactionProofs -----------------------
(***************************************************************************)
(* For any numbers of processes, threads and transactions: threads,        *)
(* processes and transactions live as long as something needs them, the    *)
(* assertions of the driver hold, no caller is forgotten, one-way          *)
(* transactions take turns, nobody sleeps over work and the pool keeps its *)
(* limit.  All of it follows from TxnInv, which is defined, and kept by    *)
(* half of the steps, in BinderTransactionLemmas.  Here are the steps that *)
(* queue, deliver, answer and unwind nested calls and those that release   *)
(* threads and processes.                                                  *)
(***************************************************************************)
EXTENDS BinderTransactionLemmas

-----------------------------------------------------------------------------
(* binder_proc_transaction()                                               *)

\* The lists of process p when thread h queues t for the thread e, or for none.
QueueProc(h, p, t, e) ==
  [prc EXCEPT ![p].has_async = @ \/ txn[t].kind = "async",
              ![p].async_todo = IF Pending(h) THEN Append(@, t) ELSE @,
              ![p].todo = IF e = None /\ ~Pending(h) THEN Append(@, t) ELSE @]
QueueThread(t, e) == IF e = None THEN thr ELSE Wake(Enqueue(thr, e, t), e)

\* Where the transaction goes.
LEMMA QueueProcIs ==
  ASSUME prc \in [Procs -> ProcType], NEW h, NEW p \in Procs, NEW t \in Txns, NEW e, NEW P, P = QueueProc(h, p, t, e)
  PROVE  /\ P \in [Procs -> ProcType] /\ (\A q \in Procs : q # p => P[q] = prc[q])
         /\ P[p].life = prc[p].life /\ P[p].tmp = prc[p].tmp /\ P[p].requested = prc[p].requested /\ P[p].started = prc[p].started
         /\ P[p].buffers = prc[p].buffers /\ P[p].stuck = prc[p].stuck
         /\ (P[p].has_async <=> prc[p].has_async \/ txn[t].kind = "async")
         /\ P[p].async_todo = IF Pending(h) THEN Append(prc[p].async_todo, t) ELSE prc[p].async_todo
         /\ P[p].todo = IF e = None /\ ~Pending(h) THEN Append(prc[p].todo, t) ELSE prc[p].todo
<1>1. PICK K : K = IF Pending(h) THEN Append(prc[p].async_todo, t) ELSE prc[p].async_todo
  OBVIOUS
<1>2. PICK L : L = IF e = None /\ ~Pending(h) THEN Append(prc[p].todo, t) ELSE prc[p].todo
  OBVIOUS
<1>3. PICK b : b = (prc[p].has_async \/ txn[t].kind = "async")
  OBVIOUS
<1>4. prc[p].async_todo \in Seq(Txns) /\ prc[p].todo \in Seq(Txns)
  BY DEF ProcType
<1>5. K \in Seq(Txns) /\ L \in Seq(Txns)
  BY <1>1, <1>2, <1>4
<1>6. b \in BOOLEAN
  BY <1>3
<1>7. P = [prc EXCEPT ![p].has_async = b, ![p].async_todo = K, ![p].todo = L]
  BY <1>1, <1>2, <1>3 DEF QueueProc
<1>8. /\ P \in [Procs -> ProcType] /\ (\A q \in Procs : q # p => P[q] = prc[q])
      /\ P[p].life = prc[p].life /\ P[p].tmp = prc[p].tmp /\ P[p].requested = prc[p].requested /\ P[p].started = prc[p].started
      /\ P[p].buffers = prc[p].buffers /\ P[p].stuck = prc[p].stuck
      /\ P[p].has_async = b /\ P[p].async_todo = K /\ P[p].todo = L
  <2>1. PICK R : R = [prc[p] EXCEPT !.has_async = b, !.async_todo = K, !.todo = L]
    OBVIOUS
  <2>2. prc[p] \in ProcType
    OBVIOUS
  <2>3. /\ R.life = prc[p].life /\ R.tmp = prc[p].tmp /\ R.requested = prc[p].requested /\ R.started = prc[p].started
        /\ R.buffers = prc[p].buffers /\ R.stuck = prc[p].stuck /\ R.async_todo = K /\ R.todo = L
    BY <2>1, <2>2 DEF ProcType
  <2>4. R.has_async = b
    BY <2>1, <2>2 DEF ProcType
  <2>5. R \in ProcType
    BY <1>5, <1>6, <2>1, <2>2 DEF ProcType
  <2>6. P = [prc EXCEPT ![p] = R]
    BY <1>7, <2>1
  <2>7. P \in [Procs -> ProcType] /\ (\A q \in Procs : q # p => P[q] = prc[q]) /\ P[p] = R
    BY <2>5, <2>6
  <2> QED BY <2>3, <2>4, <2>7
<1> QED BY <1>1, <1>2, <1>3, <1>8

\* The threads.
LEMMA QueueThreadIs ==
  ASSUME thr \in [Threads -> ThreadType], NEW t \in Txns, NEW e \in Threads \cup {None}, NEW T, T = QueueThread(t, e)
  PROVE  /\ Soft(T) /\ (\A g \in Threads : g # e => T[g] = thr[g])
         /\ (\A g \in Threads : T[g].stack = thr[g].stack)
         /\ e # None => T[e].todo = Append(thr[e].todo, t) /\ T[e].process_todo /\ ~T[e].waiting
<1>1. CASE e = None
  BY <1>1, Marks DEF QueueThread, Soft
<1>2. CASE e # None
  <2>0. e \in Threads
    BY <1>2
  <2>1. PICK E : E = Enqueue(thr, e, t)
    OBVIOUS
  <2>2. /\ E \in [Threads -> ThreadType] /\ \A g \in Threads : g # e => E[g] = thr[g]
        /\ SameLife(E[e], thr[e]) /\ E[e].stack = thr[e].stack
        /\ E[e].todo = Append(thr[e].todo, t) /\ E[e].process_todo
    BY <2>0, <2>1, EnqueueIs
  <2>3. T = Awake(E, e)
    BY <1>2, <2>1 DEF QueueThread, Wake, Awake
  <2>4. /\ T \in [Threads -> ThreadType] /\ \A g \in Threads : g # e => T[g] = E[g]
        /\ SameLife(T[e], E[e]) /\ T[e].todo = E[e].todo /\ T[e].stack = E[e].stack
        /\ T[e].process_todo = E[e].process_todo /\ ~T[e].waiting
    <3>1. E \in [Threads -> ThreadType]
      BY <2>2
    <3> QED BY ONLY <2>0, <2>3, <3>1, FieldIs
  <2>5. \A g \in Threads : T[g].mem = thr[g].mem /\ T[g].dead = thr[g].dead /\ T[g].tmp = thr[g].tmp /\ T[g].stack = thr[g].stack
    BY <2>2, <2>4 DEF SameLife
  <2> QED BY <2>0, <2>2, <2>4, <2>5 DEF Soft
<1> QED BY <1>1, <1>2

\* What thread h has when it queues, and for whom.
LEMMA QueueHas ==
  ASSUME NEW a, NEW o, NEW r, NEW c, NEW d, Core(a, o, r, c, d), NEW h \in Threads, job[h].pc = "queue", ~TargetDead(h),
         NEW t, t = job[h].t, NEW p, p = job[h].proc, NEW u, u = job[h].target, NEW e \in QueueAt(h)
  PROVE  /\ t \in Txns /\ p \in Procs /\ u \in Threads \cup {None} /\ e \in Threads \cup {None} /\ a[t] = "queue" /\ o[t] = h /\ r[t] = None
         /\ txn[t].to_proc = p /\ txn[t].to_thread = u /\ txn[t].kind \in {"call", "async"} /\ (txn[t].kind = "async" => txn[t].from = None)
         /\ prc[p].life = "open" /\ (\A w \in Txns : With(w, job[h]) => w = t) /\ job[h].dying = None
         /\ (u # None => e = u /\ ~thr[u].dead /\ ProcOf[u] = p)
         /\ (Pending(h) => e = None /\ u = None /\ txn[t].kind = "async")
         /\ e # None => /\ ~thr[e].dead /\ ProcOf[e] = p
                        /\ u = None => e # h /\ job[e].pc = "idle" /\ thr[e].stack = None /\ Len(thr[e].todo) = 0
<1>1. /\ Types /\ PlaceType(a, o, r) /\ Lives /\ (\A w \in Txns : Fits(a, o, r, w)) /\ h \in Tasks
      /\ job[h] \in JobType /\ Carries(job[h]) /\ ForThread(h, job[h]) /\ Holds(a, o, h, job[h])
  BY CoreIs, TaskHolds, Marks
<1>2. /\ t \in Txns /\ p \in Procs /\ u \in Threads \cup {None} /\ a[t] = "queue" /\ o[t] = h /\ job[h].re = None /\ job[h].dying = None
  <2>1. t \in Txns /\ t # None /\ p \in Procs /\ u \in Threads \cup {None} /\ job[h].re = None
    BY <1>1 DEF JobType, Carries, Parents
  <2>2. job[h].dying = None
    BY <1>1 DEF Carries
  <2> QED BY <1>1, <2>1, <2>2 DEF Holds
<1>3. Fits(a, o, r, t)
  BY <1>1, <1>2
<1>4. /\ r[t] = None /\ txn[t].to_proc = p /\ txn[t].to_thread = u /\ txn[t].kind # "free" /\ txn[t].kind # "reply"
      /\ (txn[t].kind = "async" => txn[t].from = None /\ txn[t].to_thread = None)
      /\ (txn[t].to_thread # None => txn[t].to_proc = ProcOf[txn[t].to_thread])
  BY <1>2, <1>3 DEF Fits
<1>5. txn[t].kind \in {"call", "async"}
  BY <1>1, <1>2, <1>4 DEF Types, TxnType
<1>6. prc[p].life = "open" /\ (u # None => ~thr[u].dead)
  BY DEF TargetDead
<1>7. u # None => e = u
  BY DEF QueueAt
<1>8. Pending(h) => txn[t].kind = "async" /\ u = None
  BY <1>4 DEF Pending
<1>9. u = None /\ Pending(h) => e = None
  BY DEF QueueAt
<1>10. u = None /\ e # None => e \in Threads /\ ProcOf[e] = p /\ thr[e].waiting
  BY DEF QueueAt, Select, Waiting, ThreadsOf
<1>11. e \in Threads \cup {None}
  BY <1>2, <1>7, <1>10
<1>12. ASSUME u = None, e # None
       PROVE  ~thr[e].dead /\ ProcOf[e] = p /\ e # h /\ job[e].pc = "idle" /\ thr[e].stack = None /\ Len(thr[e].todo) = 0
  <2>1. e \in Threads /\ ProcOf[e] = p /\ thr[e].waiting
    BY <1>10, <1>12
  <2>2. ~thr[e].dead /\ thr[e].stack = None /\ Len(thr[e].todo) = 0
    BY <1>1, <2>1 DEF Lives
  <2>3. job[e].pc = "idle"
    <3>1. ForThread(e, job[e])
      BY <2>1, TaskHolds, Marks
    <3> QED BY <2>1, <3>1 DEF ForThread
  <2> QED BY <2>1, <2>2, <2>3
<1>13. \A w \in Txns : With(w, job[h]) => w = t
  BY <1>2, Marks DEF With
<1>14. u # None => ProcOf[u] = p
  BY <1>4
<1> QED BY <1>2, <1>4, <1>5, <1>6, <1>7, <1>8, <1>9, <1>11, <1>12, <1>13, <1>14

\* What queueing keeps of threads and processes.
LEMMA QueueBase ==
  ASSUME NEW a, NEW o, NEW r, NEW c, NEW d, Core(a, o, r, c, d), NEW h \in Threads, job[h].pc = "queue", ~TargetDead(h),
         NEW t, t = job[h].t, NEW p, p = job[h].proc, NEW u, u = job[h].target, NEW e \in QueueAt(h),
         NEW T, T = QueueThread(t, e), NEW P, P = QueueProc(h, p, t, e),
         thr' = DecThread(T, u), prc' = DecProc(DecThreadProc(P, thr', u), thr', p), Become(h, Idle),
         txn' = txn, calls' = calls, faults' = faults
  PROVE  /\ Base' /\ Types' /\ LifeStep /\ SameStacks /\ (\A g \in Threads : thr'[g].todo = T[g].todo) /\ \A q \in Procs : SameWork(prc'[q], P[q])
<1>1. /\ Base /\ Types /\ Counted /\ PoolBound /\ thr \in [Threads -> ThreadType] /\ prc \in [Procs -> ProcType] /\ job \in [Tasks -> JobType]
      /\ h \in Tasks /\ h # Worker
      /\ job[h] \in JobType /\ Carries(job[h]) /\ ForThread(h, job[h])
  BY CoreIs, TaskHolds, Marks DEF Types
<1>2. /\ t \in Txns /\ p \in Procs /\ u \in Threads \cup {None} /\ e \in Threads \cup {None} /\ prc[p].life = "open" /\ job[h].dying = None
      /\ (e # None => ~thr[e].dead)
  BY QueueHas
<1>3. /\ Soft(T) /\ (\A g \in Threads : g # e => T[g] = thr[g])
      /\ (\A g \in Threads : T[g].stack = thr[g].stack)
      /\ e # None => T[e].todo = Append(thr[e].todo, t) /\ T[e].process_todo /\ ~T[e].waiting
  BY ONLY <1>1, <1>2, QueueThreadIs, T = QueueThread(t, e)
<1>4. /\ P \in [Procs -> ProcType] /\ (\A q \in Procs : q # p => P[q] = prc[q])
      /\ P[p].life = prc[p].life /\ P[p].tmp = prc[p].tmp /\ P[p].requested = prc[p].requested /\ P[p].started = prc[p].started
  <2>1. prc \in [Procs -> ProcType] /\ p \in Procs /\ t \in Txns
    BY <1>1, <1>2
  <2>2. /\ P \in [Procs -> ProcType] /\ (\A q \in Procs : q # p => P[q] = prc[q])
        /\ P[p].life = prc[p].life /\ P[p].tmp = prc[p].tmp /\ P[p].requested = prc[p].requested /\ P[p].started = prc[p].started
        /\ P[p].buffers = prc[p].buffers /\ P[p].stuck = prc[p].stuck
        /\ (P[p].has_async <=> prc[p].has_async \/ txn[t].kind = "async")
        /\ P[p].async_todo = IF Pending(h) THEN Append(prc[p].async_todo, t) ELSE prc[p].async_todo
        /\ P[p].todo = IF e = None /\ ~Pending(h) THEN Append(prc[p].todo, t) ELSE prc[p].todo
    BY ONLY <2>1, QueueProcIs, P = QueueProc(h, p, t, e)
  <2> QED BY ONLY <2>2
<1>5. SoftProc(P)
  BY <1>4 DEF SoftProc
<1>6. PICK D, E : D = thr' /\ E = prc'
  OBVIOUS
<1>7. D = DecThread(T, u) /\ E = Dropped(P, D, u, p)
  <2>1. p # None
    BY <1>2, Marks
  <2> QED BY <1>6, <2>1 DEF Dropped
<1>8. Owns(h, u, p) /\ Gives(h, Idle, u, p)
  BY <1>2 DEF Owns, Gives, Idle
<1>9. p \in Procs \cup {None}
  BY <1>2
<1>10. /\ D \in [Threads -> ThreadType]
       /\ \A g \in Threads : /\ D[g].dead = thr[g].dead /\ D[g].todo = T[g].todo
                             /\ ~thr[g].dead => SameRun(D[g], T[g])
                             /\ D[g].waiting => SameRun(D[g], T[g])
       /\ E \in [Procs -> ProcType] /\ \A q \in Procs : SameWork(E[q], P[q])
  BY ONLY <1>1, <1>2, <1>3, <1>5, <1>7, <1>8, <1>9, DropIs
<1>11. Types'
  <2>1. Idle \in JobType
    BY DEF Idle, JobType, Parents
  <2>2. job' \in [Tasks -> JobType]
    BY <1>1, <2>1 DEF Become
  <2> QED BY <1>1, <1>6, <1>10, <2>2 DEF Types
<1>12. Agree(D, E)
  BY <1>6 DEF Agree
<1>13. Follows(T)
  <2>1. \A g \in Threads : thr'[g].waiting => SameRun(thr'[g], T[g])
    BY <1>6, <1>10
  <2>2. \A g \in Threads : thr'[g].todo = T[g].todo /\ (~thr[g].dead => SameRun(thr'[g], T[g]))
    BY <1>6, <1>10
  <2> QED BY <2>1, <2>2 DEF Follows, SameRun
<1>14. RunsIn(T, h, Idle)
  <2>1. ASSUME NEW g \in Threads
        PROVE  /\ T[g].waiting => thr[g].waiting /\ T[g].stack = thr[g].stack /\ T[g].todo = thr[g].todo
               /\ ~thr[g].dead => GrowsIn(T, g) \/ (g = h /\ T[g].process_todo)
               /\ thr[g].dead /\ Len(T[g].todo) > 0 => Len(thr[g].todo) > 0 /\ (job[h].dying = g => Idle.dying = g)
    <3>1. CASE g # e
      <4>1. T[g] = thr[g] /\ job[h].dying # g
        BY <1>2, <1>3, <3>1, Marks
      <4> QED BY <4>1 DEF GrowsIn
    <3>2. CASE g = e
      <4>1. e # None /\ ~thr[g].dead
        BY <1>2, <3>2, Marks
      <4>2. GrowsIn(T, g)
        BY <1>2, <1>3, <3>2, <4>1 DEF GrowsIn
      <4> QED BY <1>3, <3>2, <4>1, <4>2
    <3> QED BY <3>1, <3>2
  <2> QED BY <2>1 DEF RunsIn
<1>15. ProcsStep
  <2>1. \A q \in Procs : SameWork(prc'[q], P[q])
    BY <1>6, <1>10
  <2>2. ASSUME NEW q \in Procs
        PROVE  /\ prc[q].life # "open" /\ Len(prc'[q].todo) > 0 => Len(prc[q].todo) > 0
               /\ prc[q].life \in {"gone", "freed"} /\ Len(prc'[q].async_todo) > 0 => Len(prc[q].async_todo) > 0
               /\ prc'[q].requested + prc'[q].started <= MaxThreads
    <3>1. prc'[q].requested = prc[q].requested /\ prc'[q].started = prc[q].started
      BY ONLY <1>4, <2>1, <2>2 DEF SameWork
    <3>2. q # p => prc'[q].todo = prc[q].todo /\ prc'[q].async_todo = prc[q].async_todo
      BY ONLY <1>4, <2>1, <2>2 DEF SameWork
    <3> QED BY <1>1, <1>2, <3>1, <3>2 DEF PoolBound
  <2> QED BY <2>2 DEF ProcsStep
<1>16. ForThread(h, Idle) /\ Carries(Idle) /\ Idle \in JobType /\ Idle.pc \notin {"queue", "rsend"}
  <2>1. ForThread(h, Idle) /\ Carries(Idle) /\ Idle \in JobType
    BY <1>1, ThreadGoesOn
  <2> QED BY <2>1 DEF Idle
<1>17. Base' /\ LifeStep /\ \A g \in Threads : thr'[g].dead = thr[g].dead
  <2>1. (h \in Threads => ForThread(h, Idle)) /\ (h = Worker => ForWorker(Idle) /\ Idle.proc = job[h].proc) /\ job' = [job EXCEPT ![h] = Idle]
    BY <1>1, <1>16 DEF Become
  <2> QED BY ONLY <1>1, <1>2, <1>3, <1>5, <1>7, <1>8, <1>9, <1>11, <1>12, <1>13, <1>14, <1>15, <1>16, <2>1, DropStep
<1>18. SameStacks
  <2>1. \A g \in Threads : ~thr[g].dead => SameRun(thr'[g], T[g])
    BY <1>6, <1>10
  <2> QED BY <1>3, <1>17, <2>1 DEF SameStacks, SameRun
<1>19. (\A g \in Threads : thr'[g].todo = T[g].todo) /\ \A q \in Procs : SameWork(prc'[q], P[q])
  BY <1>6, <1>10
<1> QED BY <1>11, <1>17, <1>18, <1>19

\* Where the transaction is then.
QueuedAt(h, e) == IF e # None THEN "todo" ELSE IF Pending(h) THEN "async" ELSE "ptodo"

\* The transactions after that.
LEMMA QueuePlaced ==
  ASSUME NEW a, NEW o, NEW r, NEW c, NEW d, Core(a, o, r, c, d), NEW h \in Threads, job[h].pc = "queue", ~TargetDead(h),
         NEW t, t = job[h].t, NEW p, p = job[h].proc, NEW u, u = job[h].target, NEW e \in QueueAt(h),
         NEW T, T = QueueThread(t, e), NEW P, P = QueueProc(h, p, t, e), Become(h, Idle), txn' = txn, Types', SameStacks,
         \A g \in Threads : thr'[g].todo = T[g].todo, \A q \in Procs : SameWork(prc'[q], P[q]),
         NEW a2, a2 = Put(a, t, QueuedAt(h, e)), NEW o2, o2 = Put(o, t, IF e # None THEN e ELSE p)
  PROVE  GhostType(a2, o2, r, c, d) /\ Placed(a2, o2, r)' /\ Linked(a2, o2, r, c, d)'
<1>1. /\ Base /\ Types /\ PlaceType(a, o, r) /\ thr \in [Threads -> ThreadType] /\ prc \in [Procs -> ProcType] /\ job \in [Tasks -> JobType]
      /\ Listed(a, o) /\ (\A w \in Txns : Fits(a, o, r, w)) /\ h \in Tasks /\ h # Worker
      /\ (\A w \in Txns : a[w] \in Taken /\ o[w] = h => With(w, job[h]))
  BY CoreIs, TaskHolds, Marks DEF Types
<1>2. /\ t \in Txns /\ p \in Procs /\ u \in Threads \cup {None} /\ e \in Threads \cup {None} /\ a[t] = "queue" /\ o[t] = h /\ r[t] = None
      /\ txn[t].to_proc = p /\ txn[t].to_thread = u /\ txn[t].kind \in {"call", "async"} /\ (txn[t].kind = "async" => txn[t].from = None)
      /\ (\A w \in Txns : With(w, job[h]) => w = t)
      /\ (u # None => e = u /\ ~thr[u].dead /\ ProcOf[u] = p)
      /\ (Pending(h) => e = None /\ u = None /\ txn[t].kind = "async")
      /\ e # None => /\ ~thr[e].dead /\ ProcOf[e] = p
                     /\ u = None => e # h /\ job[e].pc = "idle" /\ thr[e].stack = None /\ Len(thr[e].todo) = 0
  BY QueueHas
<1>3. /\ (\A g \in Threads : g # e => T[g] = thr[g])
      /\ e # None => T[e].todo = Append(thr[e].todo, t)
  BY ONLY <1>1, <1>2, QueueThreadIs, T = QueueThread(t, e)
<1>4. /\ (\A q \in Procs : q # p => P[q] = prc[q])
      /\ P[p].async_todo = IF Pending(h) THEN Append(prc[p].async_todo, t) ELSE prc[p].async_todo
      /\ P[p].todo = IF e = None /\ ~Pending(h) THEN Append(prc[p].todo, t) ELSE prc[p].todo
  BY ONLY <1>1, <1>2, QueueProcIs, P = QueueProc(h, p, t, e)
<1>5. /\ a2[t] = QueuedAt(h, e) /\ o2[t] = (IF e # None THEN e ELSE p) /\ (\A w \in Txns : w # t => a2[w] = a[w] /\ o2[w] = o[w])
      /\ a2[t] \in {"todo", "ptodo", "async"}
  <2>1. a2[t] = QueuedAt(h, e) /\ o2[t] = (IF e # None THEN e ELSE p) /\ (\A w \in Txns : w # t => a2[w] = a[w] /\ o2[w] = o[w])
    BY <1>1, <1>2 DEF Put, PlaceType
  <2> QED BY <2>1 DEF QueuedAt
<1>6. PlaceType(a2, o2, r)
  <2>1. QueuedAt(h, e) \in Places
    BY DEF QueuedAt, Places
  <2>2. (IF e # None THEN e ELSE p) \in Owners
    BY <1>2 DEF Owners, Tasks
  <2> QED BY <1>1, <2>1, <2>2 DEF PlaceType, Put
<1>7. job'[h] = Idle /\ \A y \in Tasks : y # h => job'[y] = job[y]
  BY <1>1 DEF Become
<1>8. /\ (a2[t] = "todo" => e # None /\ o2[t] = e /\ ~Pending(h)) /\ (a2[t] = "ptodo" => e = None /\ o2[t] = p /\ ~Pending(h))
      /\ (a2[t] = "async" => e = None /\ o2[t] = p /\ Pending(h))
      /\ (e # None => a2[t] = "todo" /\ o2[t] = e) /\ (e = None => o2[t] = p)
  BY <1>2, <1>5 DEF QueuedAt
<1>9. Fits(a2, o2, r, t)'
  <2>1. Fits(a, o, r, t)
    BY <1>1, <1>2
  <2>2. a2[t] \in {"todo", "ptodo", "async"} /\ txn'[t] = txn[t]
    BY <1>5
  <2>3. /\ (a2[t] = "todo" => o2[t] \in Threads /\ txn[t].to_proc = ProcOf[o2[t]] /\ txn[t].to_thread \in {None, o2[t]})
        /\ (a2[t] = "ptodo" => txn[t].to_proc = o2[t] /\ txn[t].to_thread = None)
        /\ (a2[t] = "async" => txn[t].to_proc = o2[t] /\ txn[t].kind = "async")
    BY <1>2, <1>8
  <2> QED BY <1>2, <2>1, <2>2, <2>3 DEF Fits
<1>10. \A w \in Txns : Moves(w, h, t, a, o, r, a2, o2)
  <2>1. \A w \in Txns : w # t => txn'[w] = txn[w] /\ a2[w] = a[w] /\ o2[w] = o[w]
    BY <1>5
  <2>2. Shifts(t, h, t, a, o, r, a2, o2)
    <3>1. a[t] \in {"queue", "todo", "deliver"} /\ a[t] \in Movers /\ a2[t] \notin Taken /\ txn'[t] = txn[t]
      BY <1>2, <1>5 DEF Movers, Taken
    <3>2. a2[t] \in Movers \/ (txn[t].kind # "call" /\ txn[t].from = None)
      BY <1>2, <1>5, <1>8 DEF Movers
    <3> QED BY <1>2, <3>1, <3>2 DEF Shifts
  <2> QED BY <1>9, <2>1, <2>2 DEF Moves
<1>11. HasNow(h, a2, o2, r)
  <2>1. Holds(a2, o2, h, job'[h])
    BY <1>7 DEF Holds, Idle
  <2>2. \A w \in Txns : ~(a2[w] \in Taken /\ o2[w] = h)
    <3>1. a2[t] \notin Taken
      BY <1>5 DEF Taken
    <3> QED BY <1>1, <1>2, <1>5, <3>1
  <2> QED BY <2>1, <2>2 DEF HasNow
<1>12. ListsGo(t, a, o, a2, o2)
  <2>1. ASSUME NEW g \in Threads PROVE Goes(thr[g].todo, thr'[g].todo, "todo", g, t, a, o, a2, o2)
    <3>1. CASE g # e
      <4>1. thr'[g].todo = thr[g].todo /\ ~(a2[t] = "todo" /\ o2[t] = g) /\ a[t] # "todo"
        BY <1>2, <1>3, <1>8, <3>1
      <4> QED BY <4>1 DEF Goes, Stay
    <3>2. CASE g = e
      <4>1. thr'[g].todo = Append(thr[g].todo, t) /\ a2[t] = "todo" /\ o2[t] = g /\ a[t] # "todo"
        BY <1>2, <1>3, <1>8, <3>2, Marks
      <4> QED BY <1>2, <4>1 DEF Goes
    <3> QED BY <3>1, <3>2
  <2>2. ASSUME NEW q \in Procs PROVE Goes(prc[q].todo, prc'[q].todo, "ptodo", q, t, a, o, a2, o2)
    <3>0. prc'[q].todo = P[q].todo
      BY DEF SameWork
    <3>1. CASE q = p /\ a2[t] = "ptodo"
      <4>1. prc'[q].todo = Append(prc[q].todo, t) /\ o2[t] = q /\ a[t] # "ptodo"
        BY <1>2, <1>4, <1>8, <3>0, <3>1
      <4> QED BY <1>2, <3>1, <4>1 DEF Goes
    <3>2. CASE ~(q = p /\ a2[t] = "ptodo")
      <4>1. prc'[q].todo = prc[q].todo /\ ~(a2[t] = "ptodo" /\ o2[t] = q) /\ a[t] # "ptodo"
        BY <1>2, <1>4, <1>5, <1>8, <3>0, <3>2 DEF QueuedAt
      <4> QED BY <4>1 DEF Goes, Stay
    <3> QED BY <3>1, <3>2
  <2>3. ASSUME NEW q \in Procs PROVE Goes(prc[q].async_todo, prc'[q].async_todo, "async", q, t, a, o, a2, o2)
    <3>0. prc'[q].async_todo = P[q].async_todo
      BY DEF SameWork
    <3>1. CASE q = p /\ a2[t] = "async"
      <4>1. prc'[q].async_todo = Append(prc[q].async_todo, t) /\ o2[t] = q /\ a[t] # "async"
        BY <1>2, <1>4, <1>8, <3>0, <3>1
      <4> QED BY <1>2, <3>1, <4>1 DEF Goes
    <3>2. CASE ~(q = p /\ a2[t] = "async")
      <4>1. prc'[q].async_todo = prc[q].async_todo /\ ~(a2[t] = "async" /\ o2[t] = q) /\ a[t] # "async"
        BY <1>2, <1>4, <1>5, <1>8, <3>0, <3>2 DEF QueuedAt
      <4> QED BY <4>1 DEF Goes, Stay
    <3> QED BY <3>1, <3>2
  <2> QED BY <2>1, <2>2, <2>3 DEF ListsGo
<1>13. FreshStep(h, a, o, a2, o2)
  <2>1. ASSUME NEW g \in Threads, ~thr[g].dead, NEW w \in Txns, Fresh(w, g, a2, o2)'
        PROVE  FreshOk(w, g, h, a, o)
    <3>0. a2[w] = "todo" /\ o2[w] = g /\ txn[w].kind = "call" /\ txn[w].to_thread = None
      BY <2>1 DEF Fresh
    <3>1. CASE w # t
      <4>1. Fresh(w, g, a, o)
        BY <1>5, <3>0, <3>1 DEF Fresh
      <4>2. thr[g].todo \in Seq(Txns \cup Words) /\ w \in In(thr[g].todo)
        BY <1>1, <1>5, <3>0, <3>1, ListedIs DEF ListIs
      <4>3. Len(thr[g].todo) > 0
        BY <4>2, InLen
      <4>4. thr'[g].todo[1] = thr[g].todo[1]
        <5>1. CASE g # e
          BY <1>3, <5>1
        <5>2. CASE g = e
          <6>1. thr'[g].todo = Append(thr[g].todo, t)
            BY <1>3, <5>2, Marks
          <6> QED BY <1>2, <4>2, <4>3, <6>1, HeadKept
        <5> QED BY <5>1, <5>2
      <4>5. job'[h].pc \notin {"built", "deliver"}
        BY <1>7 DEF Idle
      <4> QED BY <4>1, <4>4, <4>5 DEF FreshOk
    <3>2. CASE w = t
      <4>1. u = None /\ e # None /\ g = e
        BY <1>2, <1>8, <3>0, <3>2
      <4>2. thr[g].stack = None /\ Len(thr[g].todo) = 0 /\ job[g].pc = "idle" /\ g # h /\ thr[g].todo \in Seq(Txns \cup Words)
        BY <1>1, <1>2, <4>1 DEF ThreadType
      <4>3. thr'[g].todo[1] = t
        <5>1. thr'[g].todo = Append(thr[g].todo, t)
          BY <1>3, <4>1
        <5> QED BY <1>2, <4>2, <5>1, AppendIn
      <4>4. job'[g].pc = "idle"
        BY <1>7, <4>2, Marks
      <4> QED BY <3>2, <4>2, <4>3, <4>4 DEF FreshOk
    <3> QED BY <3>1, <3>2
  <2> QED BY <2>1 DEF FreshStep
<1>14. /\ (job'[h].pc = "walk" \/ job[h].pc = "walk" => job'[h] = job[h])
       /\ (h \in Threads => Starts(h, a, r, c) /\ (job'[h].pc \in {"built", "deliver"} => ~thr[h].dead))
  BY <1>7 DEF Starts, Idle
<1> QED BY ONLY <1>1, <1>6, <1>7, <1>10, <1>11, <1>12, <1>13, <1>14, MoveStep, Core(a, o, r, c, d), Types', SameStacks

\* A transaction is queued for its process.
LEMMA QueueStep ==
  ASSUME TxnInv, NEW h \in Threads, Queue(h)
  PROVE  TxnInv'
<1>0. PICK a, o, r, c, d : Core(a, o, r, c, d)
  BY DEF TxnInv
<1>p. PICK t, p, u : t = job[h].t /\ p = job[h].proc /\ u = job[h].target
  OBVIOUS
<1>1. job[h].pc = "queue" /\ ~TargetDead(h) /\ Become(h, Idle) /\ txn' = txn /\ calls' = calls /\ faults' = faults
  BY DEF Queue
<1>e. PICK e \in QueueAt(h) : /\ thr' = DecThread(QueueThread(t, e), u)
                              /\ prc' = DecProc(DecThreadProc(QueueProc(h, p, t, e), thr', u), thr', p)
  BY <1>p DEF Queue, QueueThread, QueueProc
<1>T. PICK T, P : T = QueueThread(t, e) /\ P = QueueProc(h, p, t, e)
  OBVIOUS
<1>g. PICK a2, o2 : a2 = Put(a, t, QueuedAt(h, e)) /\ o2 = Put(o, t, IF e # None THEN e ELSE p)
  OBVIOUS
<1>2. thr' = DecThread(T, u) /\ prc' = DecProc(DecThreadProc(P, thr', u), thr', p)
  BY <1>e, <1>T
<1>3. /\ Types /\ PlaceType(a, o, r) /\ Turns(a) /\ prc \in [Procs -> ProcType]
  BY <1>0, CoreIs DEF Types
<1>4. /\ t \in Txns /\ p \in Procs /\ a[t] = "queue" /\ txn[t].to_proc = p /\ txn[t].kind \in {"call", "async"} /\ prc[p].life = "open"
      /\ (Pending(h) => e = None /\ txn[t].kind = "async")
  BY ONLY <1>0, <1>1, <1>p, <1>e, QueueHas, h \in Threads
<1>5. /\ Base' /\ Types' /\ LifeStep /\ SameStacks /\ (\A g \in Threads : thr'[g].todo = T[g].todo) /\ \A q \in Procs : SameWork(prc'[q], P[q])
  BY ONLY <1>0, <1>1, <1>2, <1>p, <1>e, <1>T, QueueBase, h \in Threads
<1>6. GhostType(a2, o2, r, c, d) /\ Placed(a2, o2, r)' /\ Linked(a2, o2, r, c, d)'
  BY ONLY <1>0, <1>1, <1>5, <1>p, <1>e, <1>T, <1>g, QueuePlaced, h \in Threads
<1>7. /\ (\A q \in Procs : q # p => P[q] = prc[q])
      /\ P[p].buffers = prc[p].buffers /\ P[p].stuck = prc[p].stuck
      /\ (P[p].has_async <=> prc[p].has_async \/ txn[t].kind = "async")
      /\ P[p].async_todo = IF Pending(h) THEN Append(prc[p].async_todo, t) ELSE prc[p].async_todo
  <2>1. /\ P \in [Procs -> ProcType] /\ (\A q \in Procs : q # p => P[q] = prc[q])
        /\ P[p].life = prc[p].life /\ P[p].tmp = prc[p].tmp /\ P[p].requested = prc[p].requested /\ P[p].started = prc[p].started
        /\ P[p].buffers = prc[p].buffers /\ P[p].stuck = prc[p].stuck
        /\ (P[p].has_async <=> prc[p].has_async \/ txn[t].kind = "async")
        /\ P[p].async_todo = IF Pending(h) THEN Append(prc[p].async_todo, t) ELSE prc[p].async_todo
        /\ P[p].todo = IF e = None /\ ~Pending(h) THEN Append(prc[p].todo, t) ELSE prc[p].todo
    BY ONLY <1>3, <1>4, <1>T, QueueProcIs
  <2> QED BY ONLY <2>1
<1>8. Turns(a2)'
  <2>0. a2[t] = QueuedAt(h, e) /\ \A w \in Txns : w # t => a2[w] = a[w]
    BY <1>3, <1>4, <1>g DEF Put, PlaceType
  <2>p. Pending(h) <=> txn[t].kind = "async" /\ prc[p].has_async
    BY <1>p DEF Pending
  <2>1. ASSUME NEW q \in Procs, prc'[q].life = "open"
        PROVE  /\ Cardinality(Turn(q, a2))' + prc'[q].buffers + prc'[q].stuck = IF prc'[q].has_async THEN 1 ELSE 0
               /\ Len(prc'[q].async_todo) > 0 => prc'[q].has_async
    <3>1. prc[q].life = "open"
      BY <1>5, <2>1 DEF LifeStep
    <3>2. \A w \in Txns : w # t => (w \in Turn(q, a2)' <=> w \in Turn(q, a))
      BY <1>1, <2>0 DEF Turn
    <3>3. t \notin Turn(q, a) /\ (t \in Turn(q, a2)' <=> q = p /\ txn[t].kind = "async" /\ ~prc[p].has_async)
      BY <1>1, <1>4, <2>0, <2>p DEF Turn, QueuedAt
    <3>4. /\ Cardinality(Turn(q, a2))' \in Nat /\ Cardinality(Turn(q, a)) \in Nat
          /\ Cardinality(Turn(q, a2))' = Cardinality(Turn(q, a)) + One(t \in Turn(q, a2)') - One(t \in Turn(q, a))
      BY <3>2, TurnStep
    <3>5. One(t \in Turn(q, a)) = 0
      BY <3>3 DEF One
    <3>6. prc'[q].buffers = prc[q].buffers /\ prc'[q].stuck = prc[q].stuck /\ prc[q].buffers \in Nat /\ prc[q].stuck \in Nat
      BY <1>3, <1>5, <1>7 DEF SameWork, ProcType
    <3>7. /\ Cardinality(Turn(q, a)) + prc[q].buffers + prc[q].stuck = IF prc[q].has_async THEN 1 ELSE 0
          /\ Len(prc[q].async_todo) > 0 => prc[q].has_async
      BY <1>3, <3>1 DEF Turns
    <3>8. (prc'[q].has_async <=> P[q].has_async) /\ prc'[q].async_todo = P[q].async_todo
      BY <1>5 DEF SameWork
    <3>9. CASE q = p /\ txn[t].kind = "async" /\ ~prc[p].has_async
      <4>1. One(t \in Turn(q, a2)') = 1
        BY <3>3, <3>9 DEF One
      <4>2. prc'[q].has_async
        BY <1>7, <3>8, <3>9
      <4>3. Cardinality(Turn(q, a)) + prc[q].buffers + prc[q].stuck = 0
        BY <3>7, <3>9
      <4>4. Cardinality(Turn(q, a2))' + prc'[q].buffers + prc'[q].stuck = 1
        BY ONLY <3>4, <3>5, <3>6, <4>1, <4>3
      <4> QED BY <4>2, <4>4
    <3>10. CASE ~(q = p /\ txn[t].kind = "async" /\ ~prc[p].has_async)
      <4>1. One(t \in Turn(q, a2)') = 0
        BY <3>3, <3>10 DEF One
      <4>2. prc'[q].has_async <=> prc[q].has_async
        <5>1. CASE q # p
          BY <1>7, <3>8, <5>1
        <5>2. CASE q = p
          BY <1>7, <3>8, <3>10, <5>2
        <5> QED BY <5>1, <5>2
      <4>3. Cardinality(Turn(q, a2))' + prc'[q].buffers + prc'[q].stuck = Cardinality(Turn(q, a)) + prc[q].buffers + prc[q].stuck
        BY ONLY <3>4, <3>5, <3>6, <4>1
      <4>4. Len(prc'[q].async_todo) > 0 => prc[q].has_async
        <5>1. CASE q = p /\ Pending(h)
          BY <2>p, <5>1
        <5>2. CASE ~(q = p /\ Pending(h))
          <6>1. prc'[q].async_todo = prc[q].async_todo
            BY <1>7, <3>8, <5>2
          <6> QED BY <3>7, <6>1
        <5> QED BY <5>1, <5>2
      <4> QED BY <3>7, <4>2, <4>3, <4>4
    <3> QED BY <3>9, <3>10
  <2> QED BY <2>1 DEF Turns
<1> QED BY <1>5, <1>6, <1>8, CoreStep

-----------------------------------------------------------------------------
(* A transaction is read.                                                  *)

\* T is thr but for the list and process_todo of the thread h, which has nothing left or is awake.
Reads(T, h) ==
  /\ T \in [Threads -> ThreadType] /\ (\A g \in Threads : g # h => T[g] = thr[g]) /\ SameLife(T[h], thr[h])
  /\ T[h].stack = thr[h].stack /\ T[h].waiting = thr[h].waiting
  /\ T[h].process_todo \/ \A i \in DOMAIN T[h].todo : T[h].todo[i] = "complete"

\* The sender, if there is one, is held.
LEMMA HeldIs ==
  ASSUME NEW h \in Threads, NEW T, Reads(T, h), NEW f \in Threads \cup {None}, NEW E, E = IF f = None THEN T ELSE Hold(T, f)
  PROVE  /\ E \in [Threads -> ThreadType]
         /\ \A g \in Threads : /\ E[g].dead = T[g].dead /\ E[g].mem = T[g].mem /\ E[g].tmp = T[g].tmp + One(g = f)
                               /\ E[g].stack = T[g].stack /\ E[g].waiting = T[g].waiting /\ E[g].todo = T[g].todo
                               /\ E[g].process_todo = T[g].process_todo
<1>0. T \in [Threads -> ThreadType] /\ \A g \in Threads : T[g].tmp \in Nat
  BY DEF Reads, ThreadType
<1>1. CASE f = None
  <2>1. \A g \in Threads : One(g = f) = 0 /\ T[g].tmp + One(g = f) = T[g].tmp
    BY <1>0, <1>1, Marks DEF One
  <2> QED BY <1>0, <1>1, <2>1
<1>2. CASE f # None
  <2>0. f \in Threads /\ E = Hold(T, f)
    BY <1>2
  <2>1. /\ E \in [Threads -> ThreadType] /\ \A g \in Threads : g # f => E[g] = T[g]
        /\ SameFlags(E[f], T[f]) /\ E[f].todo = T[f].todo /\ E[f].stack = T[f].stack
        /\ E[f].process_todo = T[f].process_todo
        /\ E[f].mem = T[f].mem /\ E[f].dead = T[f].dead /\ E[f].tmp = T[f].tmp + 1
    BY ONLY <1>0, <2>0, FieldIs
  <2>2. ASSUME NEW g \in Threads
        PROVE  /\ E[g].dead = T[g].dead /\ E[g].mem = T[g].mem /\ E[g].tmp = T[g].tmp + One(g = f)
               /\ E[g].stack = T[g].stack /\ E[g].waiting = T[g].waiting /\ E[g].todo = T[g].todo
               /\ E[g].process_todo = T[g].process_todo
    <3>1. CASE g = f
      <4>1. One(g = f) = 1
        BY <3>1 DEF One
      <4> QED BY <2>1, <3>1, <4>1 DEF SameFlags
    <3>2. CASE g # f
      <4>1. One(g = f) = 0 /\ E[g] = T[g] /\ T[g].tmp \in Nat
        BY <1>0, <2>1, <3>2 DEF One
      <4> QED BY <4>1
    <3> QED BY <3>1, <3>2
  <2> QED BY <2>1, <2>2
<1> QED BY <1>1, <1>2

Delivers(w, f) == [Idle EXCEPT !.pc = "deliver", !.t = w, !.target = f]

\* Thread h takes transaction w off its list or off that of its process.
LEMMA ReadStep ==
  ASSUME NEW a, NEW o, NEW r, NEW c, NEW d, Core(a, o, r, c, d), NEW h \in Threads, job[h].pc = "idle", ~thr[h].dead, ~thr[h].waiting,
         prc[ProcOf[h]].life = "open", NEW w \in Txns, NEW f, f = txn[w].from,
         (a[w] = "todo" /\ o[w] = h) \/ (a[w] = "ptodo" /\ o[w] = ProcOf[h]),
         txn[w].kind = "call" /\ txn[w].to_thread = None => thr[h].stack = None,
         \A v \in Txns : Fresh(v, h, a, o) => v = w,
         NEW T, Reads(T, h), thr' = IF f = None THEN T ELSE Hold(T, f), Become(h, Delivers(w, f)), txn' = txn, calls' = calls, faults' = faults,
         prc' \in [Procs -> ProcType], Shrinks,
         \A q \in Procs : prc'[q].buffers = prc[q].buffers /\ prc'[q].stuck = prc[q].stuck /\ prc'[q].has_async = prc[q].has_async,
         NEW a2, a2 = Put(a, w, "deliver"), NEW o2, o2 = Put(o, w, h),
         \A g \in Threads : Goes(thr[g].todo, T[g].todo, "todo", g, w, a, o, a2, o2),
         \A q \in Procs : /\ Goes(prc[q].todo, prc'[q].todo, "ptodo", q, w, a, o, a2, o2)
                          /\ Goes(prc[q].async_todo, prc'[q].async_todo, "async", q, w, a, o, a2, o2)
  PROVE  TxnInv'
<1>j. PICK j : j = Delivers(w, f)
  OBVIOUS
<1>1. /\ Base /\ Types /\ PlaceType(a, o, r) /\ Turns(a) /\ PoolBound /\ thr \in [Threads -> ThreadType] /\ prc \in [Procs -> ProcType]
      /\ job \in [Tasks -> JobType] /\ Fits(a, o, r, w) /\ h \in Tasks /\ h # Worker
      /\ (\A q \in Procs : prc[q].tmp \in Nat) /\ txn[w] \in TxnType
  BY CoreIs, Marks DEF Types, ProcType
<1>2. /\ job[h] = Idle /\ (\A t \in Txns : ~(a[t] \in Taken /\ o[t] = h)) /\ ForThread(h, job[h])
  <2>1. job[h] = Idle /\ (\A t \in Txns : ~(a[t] \in Taken /\ o[t] = h))
    BY ONLY IdleHolds, Core(a, o, r, c, d), h \in Threads, job[h].pc = "idle"
  <2>2. ForThread(h, job[h])
    BY ONLY <1>1, TaskHolds, Core(a, o, r, c, d), h \in Threads
  <2> QED BY <2>1, <2>2
<1>3. /\ f \in Threads \cup {None} /\ txn[w].kind \in {"call", "async", "reply"} /\ (f # None => txn[w].kind = "call")
      /\ r[w] = None /\ txn[w].to_proc = ProcOf[h] /\ txn[w].to_thread \in {None, h}
      /\ (txn[w].kind # "call" => txn[w].from = None)
  <2>1. txn[w].kind \in {"call", "async", "reply"}
    BY <1>1 DEF Fits, TxnType
  <2>2. a[w] = "ptodo" => txn[w].to_proc = ProcOf[h] /\ txn[w].to_thread = None
    BY <1>1 DEF Fits
  <2>3. a[w] = "todo" => txn[w].to_proc = ProcOf[h] /\ txn[w].to_thread \in {None, h}
    BY <1>1 DEF Fits
  <2>4. r[w] = None
    BY <1>1 DEF Fits
  <2>5. txn[w].kind \in {"async", "reply"} => txn[w].from = None
    BY <1>1 DEF Fits
  <2> QED BY <1>1, <2>1, <2>2, <2>3, <2>4, <2>5 DEF TxnType
<1>4. f # None => thr[f].mem = "live"
  <2>1. f # None => w \in Active(txn, a)
    BY <1>3 DEF Active
  <2> QED BY <2>1, FromLive
<1>5. /\ thr' \in [Threads -> ThreadType]
      /\ \A g \in Threads : /\ thr'[g].dead = T[g].dead /\ thr'[g].mem = T[g].mem /\ thr'[g].tmp = T[g].tmp + One(g = f)
                            /\ thr'[g].stack = T[g].stack /\ thr'[g].waiting = T[g].waiting /\ thr'[g].todo = T[g].todo
                            /\ thr'[g].process_todo = T[g].process_todo
  BY ONLY <1>3, HeldIs, h \in Threads, Reads(T, h), thr' = IF f = None THEN T ELSE Hold(T, f)
<1>6. \A g \in Threads : /\ T[g].dead = thr[g].dead /\ T[g].mem = thr[g].mem /\ T[g].tmp = thr[g].tmp /\ T[g].stack = thr[g].stack
                         /\ T[g].waiting = thr[g].waiting /\ (g # h => T[g] = thr[g])
  BY DEF Reads, SameLife
<1>7. /\ j \in JobType /\ j.pc = "deliver" /\ j.t = w /\ j.re = None /\ j.target = f /\ j.proc = None /\ j.dying = None /\ j.next = "idle"
  BY <1>3, <1>j DEF Delivers, Idle, JobType, Parents
<1>8. Carries(j) /\ ForThread(h, j)
  BY <1>2, <1>7, Marks DEF Carries, ForThread, Idle
<1>9. Become(h, j) /\ Types' /\ job'[h] = j /\ \A y \in Tasks : y # h => job'[y] = job[y]
  BY <1>1, <1>5, <1>7, <1>j DEF Types, Become
<1>10. ProcsStep
  BY <1>1 DEF ProcsStep, PoolBound, Shrinks
<1>11. ThreadsStep(h, j)
  <2>1. ASSUME NEW g \in Threads, g # h
        PROVE  /\ thr'[g].dead = thr[g].dead
               /\ thr'[g].waiting => thr[g].waiting /\ thr'[g].stack = thr[g].stack /\ thr'[g].todo = thr[g].todo
               /\ thr[g].dead /\ Len(thr'[g].todo) > 0 => Len(thr[g].todo) > 0 /\ (job[h].dying = g => j.dying = g)
               /\ Grows(g)
    <3>1. /\ thr'[g].todo = thr[g].todo /\ thr'[g].process_todo = thr[g].process_todo /\ thr'[g].waiting = thr[g].waiting /\ thr'[g].stack = thr[g].stack
      BY <1>5, <1>6, <2>1
    <3>2. thr'[g].dead = thr[g].dead
      BY <1>5, <1>6
    <3>3. job[h].dying = j.dying
      BY <1>2, <1>7 DEF Idle
    <3> QED BY <3>1, <3>2, <3>3 DEF Grows
  <2>2. /\ thr'[h].dead = thr[h].dead /\ ~thr'[h].waiting
        /\ thr'[h].process_todo \/ \A i \in DOMAIN thr'[h].todo : thr'[h].todo[i] = "complete"
    <3>1. thr'[h].dead = thr[h].dead /\ thr'[h].waiting = thr[h].waiting
      BY <1>5, <1>6
    <3>2. thr'[h].process_todo = T[h].process_todo /\ thr'[h].todo = T[h].todo
      BY <1>5
    <3> QED BY <3>1, <3>2 DEF Reads
  <2> QED BY <2>1, <2>2 DEF ThreadsStep
<1>12. Gains(h, j, f, None)
  <2>1. \A g \in Threads : thr'[g].dead = thr[g].dead /\ thr'[g].mem = thr[g].mem /\ thr'[g].tmp = thr[g].tmp + One(g = f)
    BY <1>5, <1>6
  <2>2. \A q \in Procs : prc'[q].life = prc[q].life /\ prc'[q].tmp = prc[q].tmp + One(q = None)
    BY <1>1, Marks DEF Shrinks, One
  <2> QED BY <1>2, <1>4, <1>7, <2>1, <2>2 DEF Gains, Idle
<1>13. Base'
  <2>1. (h \in Threads => ForThread(h, j)) /\ (h = Worker => ForWorker(j) /\ j.proc = job[h].proc) /\ None \in Procs \cup {None}
        /\ (j.pc \in {"queue", "rsend"} => \E i \in DOMAIN thr'[h].todo : thr'[h].todo[i] = "complete")
    BY <1>1, <1>7, <1>8
  <2> QED BY ONLY <1>1, <1>3, <1>7, <1>8, <1>9, <1>10, <1>11, <1>12, <2>1, GainStep
<1>14. a2[w] = "deliver" /\ o2[w] = h /\ (\A t \in Txns : t # w => a2[t] = a[t] /\ o2[t] = o[t])
  BY <1>1 DEF Put, PlaceType
<1>15. PlaceType(a2, o2, r)
  BY <1>1 DEF PlaceType, Put, Places, Owners
<1>16. Fits(a2, o2, r, w)'
  <2>1. txn'[w] = txn[w] /\ job'[h].target = f /\ txn[w].from \in {None, f}
    BY <1>7, <1>9
  <2> QED BY <1>1, <1>3, <1>14, <2>1 DEF Fits
<1>17. \A t \in Txns : Moves(t, h, w, a, o, r, a2, o2)
  <2>1. \A t \in Txns : t # w => txn'[t] = txn[t] /\ a2[t] = a[t] /\ o2[t] = o[t]
    BY <1>14
  <2>2. Shifts(w, h, w, a, o, r, a2, o2)
    <3>1. a[w] \in Movers /\ a[w] \notin Taken /\ a2[w] \in Movers /\ txn'[w] = txn[w]
      BY <1>14 DEF Movers, Taken
    <3>2. txn[w].to_thread # None => a[w] = "todo"
      BY <1>1 DEF Fits
    <3> QED BY <1>14, <3>1, <3>2 DEF Shifts
  <2> QED BY <1>16, <2>1, <2>2 DEF Moves
<1>18. HasNow(h, a2, o2, r)
  <2>1. Holds(a2, o2, h, job'[h])
    BY <1>7, <1>9, <1>14 DEF Holds
  <2>2. \A t \in Txns : a2[t] \in Taken /\ o2[t] = h => t = w
    BY <1>2, <1>14
  <2>3. With(w, job'[h])
    BY <1>7, <1>9 DEF With
  <2> QED BY <1>16, <2>1, <2>2, <2>3 DEF HasNow
<1>19. ListsGo(w, a, o, a2, o2)
  <2>1. \A g \in Threads : Goes(thr[g].todo, thr'[g].todo, "todo", g, w, a, o, a2, o2)
    BY <1>5
  <2> QED BY <2>1 DEF ListsGo
<1>20. SameStacks
  BY <1>5, <1>6 DEF SameStacks
<1>21. FreshStep(h, a, o, a2, o2)
  <2>1. ASSUME NEW g \in Threads, ~thr[g].dead, NEW v \in Txns, Fresh(v, g, a2, o2)'
        PROVE  FreshOk(v, g, h, a, o)
    <3>1. v # w
      BY <1>14, <2>1 DEF Fresh
    <3>2. Fresh(v, g, a, o)
      BY <1>14, <2>1, <3>1 DEF Fresh
    <3>3. g # h
      BY <3>1, <3>2
    <3>4. thr'[g].todo = thr[g].todo
      BY <1>5, <1>6, <3>3
    <3> QED BY <3>2, <3>3, <3>4 DEF FreshOk
  <2> QED BY <2>1 DEF FreshStep
<1>22. GhostType(a2, o2, r, c, d) /\ Placed(a2, o2, r)' /\ Linked(a2, o2, r, c, d)'
  <2>1. /\ (job'[h].pc = "walk" \/ job[h].pc = "walk" => job'[h] = job[h])
        /\ (h \in Threads => Starts(h, a, r, c) /\ (job'[h].pc \in {"built", "deliver"} => ~thr[h].dead))
    BY <1>7, <1>9 DEF Starts
  <2> QED BY ONLY <1>1, <1>9, <1>15, <1>17, <1>18, <1>19, <1>20, <1>21, <2>1, MoveStep, Core(a, o, r, c, d)
<1>23. Turns(a2)'
  <2>1. \A q \in Procs : Turn(q, a2)' = Turn(q, a)
    <3>1. ASSUME NEW q \in Procs PROVE \A t \in Txns : t \in Turn(q, a2)' <=> t \in Turn(q, a)
      BY <1>14 DEF Turn
    <3>2. ASSUME NEW q \in Procs PROVE Turn(q, a2)' \subseteq Txns /\ Turn(q, a) \subseteq Txns
      BY DEF Turn
    <3> QED BY <3>1, <3>2
  <2> QED BY <1>1, <2>1, TurnsSame DEF Shrinks
<1> QED BY <1>13, <1>22, <1>23, CoreStep

\* A transaction on the thread's own list is read.
LEMMA ReadOwnStep ==
  ASSUME TxnInv, NEW h \in Threads, ReadOwn(h), Head(thr[h].todo) \in Txns
  PROVE  TxnInv'
<1>0. PICK a, o, r, c, d : Core(a, o, r, c, d)
  BY DEF TxnInv
<1>p. PICK L, w : L = thr[h].todo /\ w = Head(L)
  OBVIOUS
<1>f. PICK f, b : f = txn[w].from /\ b \in BOOLEAN /\ (b <=> thr[h].process_todo /\ Len(L) > 1)
  OBVIOUS
<1>T. PICK T, K : T = [thr EXCEPT ![h].todo = Tail(@), ![h].process_todo = @ /\ Len(thr[h].todo) > 1] /\ K = Tail(L)
  OBVIOUS
<1>g. PICK a2, o2 : a2 = Put(a, w, "deliver") /\ o2 = Put(o, w, h)
  OBVIOUS
<1>1. /\ Types /\ PlaceType(a, o, r) /\ NoSleepOverWork /\ Listed(a, o) /\ Flights(a, o, r, c) /\ thr \in [Threads -> ThreadType] /\ prc \in [Procs -> ProcType]
  BY <1>0, CoreIs DEF Types
<1>2. /\ job[h].pc = "idle" /\ ~thr[h].dead /\ ~thr[h].waiting /\ prc[ProcOf[h]].life = "open" /\ Len(L) > 0 /\ w \in Txns
      /\ (thr' = IF f = None THEN T ELSE Hold(T, f)) /\ Become(h, Delivers(w, f)) /\ prc' = prc
      /\ txn' = txn /\ calls' = calls /\ faults' = faults
  BY <1>p, <1>f, <1>T DEF ReadOwn, Ready, Take, Delivers
<1>3. L \in Seq(Txns \cup Words) /\ ListIs(L, "todo", h, a, o)
  BY <1>1, <1>p, ListedIs
<1>4. K \in Seq(Txns \cup Words) /\ Len(K) = Len(L) - 1 /\ w = L[1] /\ w \in In(L) /\ Len(L) \in Nat
  BY <1>2, <1>3, <1>p, <1>T, TailIn
<1>5. a[w] = "todo" /\ o[w] = h
  BY <1>2, <1>3, <1>4 DEF ListIs
<1>6. thr[h].process_todo
  <2>1. w # "complete"
    BY <1>2, Marks DEF Words
  <2>2. 1 \in DOMAIN thr[h].todo /\ thr[h].todo[1] # "complete"
    BY <1>2, <1>3, <1>4, <1>p, <2>1
  <2> QED BY <1>1, <1>2, <2>2 DEF NoSleepOverWork
<1>7. Reads(T, h) /\ T[h].todo = K /\ \A g \in Threads : g # h => T[g] = thr[g]
  <2>0. thr[h] \in ThreadType
    BY <1>1
  <2>1. PICK R : R = [thr[h] EXCEPT !.todo = K, !.process_todo = b]
    OBVIOUS
  <2>2. R \in ThreadType /\ SameLife(R, thr[h]) /\ R.stack = thr[h].stack /\ R.waiting = thr[h].waiting /\ R.todo = K
    BY <1>4, <1>f, <2>0, <2>1 DEF ThreadType, SameLife
  <2>3. R.process_todo = b
    BY <1>4, <1>f, <2>0, <2>1 DEF ThreadType
  <2>4. T = [thr EXCEPT ![h] = R]
    <3>1. T = [thr EXCEPT ![h].todo = K, ![h].process_todo = thr[h].process_todo /\ Len(L) > 1]
      BY <1>T, <1>p
    <3>2. (thr[h].process_todo /\ Len(L) > 1) = b
      BY <1>f
    <3>3. T = [thr EXCEPT ![h].todo = K, ![h].process_todo = b]
      BY ONLY <3>1, <3>2
    <3> QED BY <2>1, <3>3
  <2>5. T \in [Threads -> ThreadType] /\ T[h] = R /\ \A g \in Threads : g # h => T[g] = thr[g]
    BY <1>1, <2>2, <2>4
  <2>6. T[h].process_todo \/ \A i \in DOMAIN T[h].todo : T[h].todo[i] = "complete"
    <3>1. CASE Len(L) > 1
      <4>1. b
        BY <1>6, <1>f, <3>1
      <4> QED BY <2>3, <2>5, <4>1
    <3>2. CASE ~(Len(L) > 1)
      <4>1. Len(K) = 0
        BY <1>2, <1>4, <3>2
      <4>2. DOMAIN K = {}
        BY <1>4, <4>1
      <4> QED BY <2>2, <2>5, <4>2
    <3> QED BY <3>1, <3>2
  <2> QED BY <2>2, <2>5, <2>6 DEF Reads
<1>8. txn[w].kind = "call" /\ txn[w].to_thread = None => thr[h].stack = None
  <2>1. txn[w].kind = "call" /\ txn[w].to_thread = None => Fresh(w, h, a, o)
    BY <1>5 DEF Fresh
  <2> QED BY <1>1, <1>2, <2>1 DEF Flights
<1>9. \A v \in Txns : Fresh(v, h, a, o) => v = w
  <2>1. \A v \in Txns : Fresh(v, h, a, o) => thr[h].todo[1] = v
    BY <1>1, <1>2 DEF Flights
  <2> QED BY <1>4, <1>p, <2>1
<1>10. /\ prc' \in [Procs -> ProcType] /\ Shrinks
       /\ \A q \in Procs : prc'[q].buffers = prc[q].buffers /\ prc'[q].stuck = prc[q].stuck /\ prc'[q].has_async = prc[q].has_async
  BY <1>1, <1>2 DEF Shrinks
<1>11. a2[w] = "deliver"
  BY <1>1, <1>2, <1>g DEF Put, PlaceType
<1>12. \A g \in Threads : Goes(thr[g].todo, T[g].todo, "todo", g, w, a, o, a2, o2)
  BY <1>2, <1>5, <1>7, <1>11, <1>p, <1>T DEF Goes, Stay
<1>13. \A q \in Procs : /\ Goes(prc[q].todo, prc'[q].todo, "ptodo", q, w, a, o, a2, o2)
                        /\ Goes(prc[q].async_todo, prc'[q].async_todo, "async", q, w, a, o, a2, o2)
  BY <1>2, <1>5, <1>11 DEF Goes, Stay
<1>14. (a[w] = "todo" /\ o[w] = h) \/ (a[w] = "ptodo" /\ o[w] = ProcOf[h])
  BY <1>5
<1>15. f = txn[w].from
  BY <1>f
<1> QED BY ONLY <1>0, <1>2, <1>7, <1>8, <1>9, <1>10, <1>12, <1>13, <1>14, <1>15, <1>g, ReadStep, h \in Threads

\* A transaction on the list of the process is read.
LEMMA ReadProcStep ==
  ASSUME TxnInv, NEW h \in Threads, ReadProc(h)
  PROVE  TxnInv'
<1>0. PICK a, o, r, c, d : Core(a, o, r, c, d)
  BY DEF TxnInv
<1>p. PICK p, L, w : p = ProcOf[h] /\ L = prc[p].todo /\ w = Head(L)
  OBVIOUS
<1>f. PICK f, b : f = txn[w].from /\ b \in BOOLEAN /\ ~b
  OBVIOUS
<1>T. PICK T : T = [thr EXCEPT ![h].process_todo = FALSE]
  OBVIOUS
<1>g. PICK a2, o2 : a2 = Put(a, w, "deliver") /\ o2 = Put(o, w, h)
  OBVIOUS
<1>1. /\ Types /\ PlaceType(a, o, r) /\ Listed(a, o) /\ thr \in [Threads -> ThreadType] /\ prc \in [Procs -> ProcType] /\ p \in Procs
  BY <1>0, <1>p, CoreIs, Marks DEF Types
<1>2. L \in Seq(Txns \cup Words) /\ ListIs(L, "ptodo", p, a, o) /\ L \in Seq(Txns)
  BY <1>1, <1>p, ListedIs
<1>3. Len(L) > 0 /\ w \in Txns
  <2>1. Len(L) > 0
    BY <1>p DEF ReadProc
  <2> QED BY <1>2, <1>p, <2>1
<1>4. /\ job[h].pc = "idle" /\ ~thr[h].dead /\ ~thr[h].waiting /\ prc[ProcOf[h]].life = "open" /\ thr[h].stack = None /\ Len(thr[h].todo) = 0
      /\ (thr' = IF f = None THEN T ELSE Hold(T, f)) /\ Become(h, Delivers(w, f)) /\ prc' = SetPTodo(prc, p, Tail(L))
      /\ txn' = txn /\ calls' = calls /\ faults' = faults
  BY <1>3, <1>p, <1>f, <1>T DEF ReadProc, Ready, Idling, Take, Delivers, SetPTodo
<1>5. a[w] = "ptodo" /\ o[w] = p
  BY <1>2, <1>3, <1>p, TailIn DEF ListIs
<1>6. thr[h].todo \in Seq(Txns \cup Words) /\ In(thr[h].todo) = {}
  BY <1>1, <1>4, EmptyIn DEF ThreadType
<1>7. Reads(T, h) /\ (\A g \in Threads : T[g].todo = thr[g].todo)
  <2>0. thr[h] \in ThreadType
    BY <1>1
  <2>1. PICK R : R = [thr[h] EXCEPT !.process_todo = FALSE]
    OBVIOUS
  <2>2. R \in ThreadType /\ SameLife(R, thr[h]) /\ R.stack = thr[h].stack /\ R.waiting = thr[h].waiting /\ R.todo = thr[h].todo
    BY <2>0, <2>1 DEF ThreadType, SameLife
  <2>4. T = [thr EXCEPT ![h] = R]
    BY <1>T, <2>1
  <2>5. T \in [Threads -> ThreadType] /\ T[h] = R /\ \A g \in Threads : g # h => T[g] = thr[g]
    BY <1>1, <2>2, <2>4
  <2>6. \A i \in DOMAIN T[h].todo : T[h].todo[i] = "complete"
    <3>1. DOMAIN thr[h].todo = {}
      BY <1>4, <1>6
    <3> QED BY <2>2, <2>5, <3>1
  <2> QED BY <2>2, <2>5, <2>6 DEF Reads
<1>8. txn[w].kind = "call" /\ txn[w].to_thread = None => thr[h].stack = None
  BY <1>4
<1>9. \A v \in Txns : Fresh(v, h, a, o) => v = w
  <2>1. \A v \in Txns : Fresh(v, h, a, o) => v \in In(thr[h].todo)
    BY <1>1 DEF Fresh, Listed
  <2> QED BY <1>6, <2>1
<1>10. /\ prc' \in [Procs -> ProcType] /\ Shrinks /\ (\A q \in Procs : q # p => prc'[q] = prc[q])
       /\ prc'[p].todo = Tail(L) /\ prc'[p].async_todo = prc[p].async_todo
  BY ONLY <1>1, <1>3, <1>4, <1>p, ShorterIs
<1>11. \A q \in Procs : prc'[q].buffers = prc[q].buffers /\ prc'[q].stuck = prc[q].stuck /\ prc'[q].has_async = prc[q].has_async
  <2>1. prc[p] \in ProcType
    BY <1>1
  <2>2. prc'[p].buffers = prc[p].buffers /\ prc'[p].stuck = prc[p].stuck /\ prc'[p].has_async = prc[p].has_async
    BY <1>1, <1>4, <2>1 DEF SetPTodo, ProcType
  <2> QED BY <1>10, <2>2
<1>12. a2[w] = "deliver"
  BY <1>1, <1>3, <1>g DEF Put, PlaceType
<1>13. \A g \in Threads : Goes(thr[g].todo, T[g].todo, "todo", g, w, a, o, a2, o2)
  BY <1>3, <1>5, <1>7, <1>12 DEF Goes, Stay
<1>14. \A q \in Procs : /\ Goes(prc[q].todo, prc'[q].todo, "ptodo", q, w, a, o, a2, o2)
                        /\ Goes(prc[q].async_todo, prc'[q].async_todo, "async", q, w, a, o, a2, o2)
  <2>1. \A q \in Procs : Goes(prc[q].todo, prc'[q].todo, "ptodo", q, w, a, o, a2, o2)
    BY <1>3, <1>5, <1>10, <1>12, <1>p DEF Goes, Stay
  <2>2. \A q \in Procs : Goes(prc[q].async_todo, prc'[q].async_todo, "async", q, w, a, o, a2, o2)
    BY <1>3, <1>5, <1>10, <1>12, <1>p DEF Goes, Stay
  <2> QED BY <2>1, <2>2
<1>15. (a[w] = "todo" /\ o[w] = h) \/ (a[w] = "ptodo" /\ o[w] = ProcOf[h])
  BY <1>5, <1>p
<1>16. f = txn[w].from
  BY <1>f
<1> QED BY ONLY <1>0, <1>3, <1>4, <1>7, <1>8, <1>9, <1>10, <1>11, <1>13, <1>14, <1>15, <1>16, <1>g, ReadStep, h \in Threads

-----------------------------------------------------------------------------
(* Steps that change a chain or a stack.                                   *)

\* Transaction t, with its place or its fields, is given or taken by task x.
Handed(t, x, s, a, o, a2, o2) ==
  \/ a2[t] = a[t] /\ o2[t] = o[t]
  \/ /\ (a[t] \in Taken => o[t] = x) /\ (a2[t] \in Taken => o2[t] = x)
     /\ t = s \/ {a2[t], a[t]} \cap {"todo", "ptodo", "async"} = {}
     /\ \A y \in Tasks : y # x /\ job[y].pc = "walk" => job[y].re # t
\* It stays as it is, or it is handed and its fields fit.
Placing(t, x, s, a, o, r, a2, o2, r2) ==
  \/ txn'[t] = txn[t] /\ a2[t] = a[t] /\ o2[t] = o[t] /\ r2[t] = r[t]
  \/ Handed(t, x, s, a, o, a2, o2) /\ Fits(a2, o2, r2, t)'

\* The places after a step of task x, whatever it does to the stacks.
LEMMA PlacedStep ==
  ASSUME NEW a, NEW o, NEW r, NEW c, NEW d, Core(a, o, r, c, d), NEW a2, NEW o2, NEW r2,
         NEW x \in Tasks, \A y \in Tasks : y # x => job'[y] = job[y], NEW s, Types',
         \A t \in Txns : Placing(t, x, s, a, o, r, a2, o2, r2),
         HasNow(x, a2, o2, r2), ListsGo(s, a, o, a2, o2), \A g \in Threads : thr[g].dead => thr'[g].dead
  PROVE  Placed(a2, o2, r2)'
<1> USE DEF HasNow, ListsGo
<1>0. /\ Types /\ JobsOk /\ PlaceType(a, o, r) /\ Listed(a, o) /\ Held(a, o) /\ (\A t \in Txns : Fits(a, o, r, t))
  BY CoreIs
<1>1. Listed(a2, o2)'
  <2>1. \A t \in Txns : t # s => \/ a2[t] = a[t] /\ o2[t] = o[t]
                                 \/ {a2[t], a[t]} \cap {"todo", "ptodo", "async"} = {}
    BY DEF Placing, Handed
  <2> QED BY <1>0, <2>1, ListedStep
<1>2. Held(a2, o2)'
  <2>1. \A t \in Txns : \/ a2[t] = a[t] /\ o2[t] = o[t]
                        \/ /\ a[t] \in Taken => o[t] = x
                           /\ a2[t] \in Taken => o2[t] = x
                           /\ \A y \in Tasks : y # x /\ job[y].pc = "walk" => job[y].re # t
    BY DEF Placing, Handed
  <2>2. (\A t \in Txns : a2[t] \in Taken /\ o2[t] = x => With(t, job'[x])) /\ Holds(a2, o2, x, job'[x])
    OBVIOUS
  <2> QED BY <1>0, <2>1, <2>2, HeldStep
<1>3. ASSUME NEW t \in Txns PROVE Fits(a2, o2, r2, t)'
  <2>1. CASE (a2[t] \in Taken /\ o2[t] = x) \/ Fits(a2, o2, r2, t)'
    BY <2>1
  <2>2. CASE ~(a2[t] \in Taken /\ o2[t] = x) /\ txn'[t] = txn[t] /\ a2[t] = a[t] /\ o2[t] = o[t] /\ r2[t] = r[t]
    <3>1. a[t] \in Taken => o[t] \in Tasks /\ job'[o[t]] = job[o[t]]
      BY <1>0, <2>2 DEF Held
    <3> QED BY <1>0, <2>2, <3>1, FitsKept
  <2> QED BY <2>1, <2>2 DEF Placing
<1> QED BY <1>1, <1>2, <1>3 DEF Placed

\* Only the stack of thread h changes.
Others(h, a, r, a2, r2) ==
  \A g \in Threads : g # h =>
    /\ On(g, txn', a2, r2) = On(g, txn, a, r) /\ thr'[g].dead = thr[g].dead /\ (~thr[g].dead => thr'[g].stack = thr[g].stack)
Beneath(h, a, r, c, d, c2, d2) ==
  \A g \in Threads : g # h => \A t \in On(g, txn, a, r) : Under(txn', t, g) = Under(txn, t, g) /\ c2[t] = c[t] /\ d2[t] = d[t]

\* The stacks after that.
LEMMA StacksStep ==
  ASSUME NEW a, NEW o, NEW r, NEW c, NEW d, Core(a, o, r, c, d), NEW a2, NEW r2, NEW c2, NEW d2, NEW h, Types',
         Others(h, a, r, a2, r2), Beneath(h, a, r, c, d, c2, d2),
         \A y \in Tasks : job'[y].pc = "walk" \/ job[y].pc = "walk" => job'[y] = job[y] \/ (h \in Threads /\ job'[y].dying = h /\ job[y].dying \in {h, None}),
         h \in Threads =>
           /\ ~thr'[h].dead => Stack(h, thr'[h].stack, On(h, txn', a2, r2), txn', c2, d2)
           /\ \A y \in Tasks : job'[y].pc = "walk" /\ job'[y].dying = h => Stack(h, job'[y].t, On(h, txn', a2, r2), txn', c2, d2)
           /\ thr'[h].dead /\ On(h, txn', a2, r2) # {} => \E y \in Tasks : job'[y].pc = "walk" /\ job'[y].dying = h
  PROVE  Stacks(a2, r2, c2, d2)'
<1>0. Types /\ JobsOk /\ Stacks(a, r, c, d)
  BY CoreIs
<1>1. ASSUME NEW g \in Threads, ~thr'[g].dead PROVE Stack(g, thr'[g].stack, On(g, txn', a2, r2), txn', c2, d2)
  <2>1. CASE g = h
    BY <1>1, <2>1
  <2>2. CASE g # h
    <3>1. /\ Stack(g, thr[g].stack, On(g, txn, a, r), txn, c, d) /\ thr'[g].stack = thr[g].stack /\ On(g, txn', a2, r2) = On(g, txn, a, r)
          /\ \A t \in On(g, txn, a, r) : Under(txn', t, g) = Under(txn, t, g) /\ c2[t] = c[t] /\ d2[t] = d[t]
      BY <1>0, <1>1, <2>2 DEF Stacks, Others, Beneath
    <3>2. Stack(g, thr[g].stack, On(g, txn, a, r), txn', c2, d2)
      BY ONLY <3>1, StackSame
    <3> QED BY <3>1, <3>2
  <2> QED BY <2>1, <2>2
<1>2. ASSUME NEW y \in Tasks, job'[y].pc = "walk" PROVE Stack(job'[y].dying, job'[y].t, On(job'[y].dying, txn', a2, r2), txn', c2, d2)
  <2>p. PICK g : g = job'[y].dying
    OBVIOUS
  <2>0. g \in Threads
    <3>1. Carries(job[y]) /\ job[y] \in JobType
      BY <1>0 DEF JobsOk, Types
    <3>2. job'[y] \in JobType
      BY DEF Types
    <3>3. job'[y] = job[y] => job[y].dying # None
      BY <1>2, <3>1 DEF Carries
    <3> QED BY <1>2, <2>p, <3>2, <3>3 DEF JobType, Carries
  <2>1. CASE g = h
    BY <1>2, <2>0, <2>1, <2>p
  <2>2. CASE g # h
    <3>0. job'[y] = job[y]
      BY <1>2, <2>2, <2>p
    <3>1. /\ Stack(g, job[y].t, On(g, txn, a, r), txn, c, d) /\ On(g, txn', a2, r2) = On(g, txn, a, r)
          /\ \A t \in On(g, txn, a, r) : Under(txn', t, g) = Under(txn, t, g) /\ c2[t] = c[t] /\ d2[t] = d[t]
      BY <1>0, <1>2, <2>0, <2>2, <2>p, <3>0 DEF Stacks, Others, Beneath
    <3>2. Stack(g, job[y].t, On(g, txn, a, r), txn', c2, d2)
      BY ONLY <3>1, StackSame
    <3> QED BY <2>p, <3>0, <3>1, <3>2
  <2> QED BY <2>1, <2>2
<1>3. ASSUME NEW g \in Threads, thr'[g].dead, On(g, txn', a2, r2) # {} PROVE \E y \in Tasks : job'[y].pc = "walk" /\ job'[y].dying = g
  <2>1. CASE g = h
    BY <1>3, <2>1
  <2>2. CASE g # h
    <3>1. PICK y \in Tasks : job[y].pc = "walk" /\ job[y].dying = g
      BY <1>0, <1>3, <2>2 DEF Stacks, Others
    <3>2. job'[y] = job[y]
      <4>1. g # None
        BY Marks
      <4> QED BY <2>2, <3>1, <4>1
    <3> QED BY <3>1, <3>2
  <2> QED BY <2>1, <2>2
<1> QED BY <1>1, <1>2, <1>3 DEF Stacks

\* A call on its way to thread h, and a thread that is about to send one there.
Flying(w, h, a) == txn[w].kind = "call" /\ a[w] \in {"queue", "todo", "deliver"} /\ txn[w].to_thread = h
Calling(y, h) == job[y].pc = "built" /\ txn[job[y].t].kind = "call" /\ job[y].target = h

\* The stack of a thread that is called back does not change: the call on its way is the last of
\* the chain, and so would be the call that the thread sends, answers or is answered.
LEMMA InFlight ==
  ASSUME NEW a, NEW o, NEW r, NEW c, NEW d, Core(a, o, r, c, d), NEW h \in Threads, ~thr[h].dead,
         NEW z \in Active(txn, a), Leaf(z, Active(txn, a), txn), \A y \in On(h, txn, a, r) : c[y] = c[z]
  PROVE  /\ \A w \in Txns : Flying(w, h, a) => w = z
         /\ \A y \in Threads : Calling(y, h) => thr[y].stack = z
<1>0. /\ Types /\ JobsOk /\ (\A t \in Txns : Fits(a, o, r, t)) /\ PlaceType(a, o, r) /\ Chained(Active(txn, a), txn, c, d)
      /\ Ends(a, o, Active(txn, a)) /\ Flights(a, o, r, c) /\ d \in [Txns -> Nat] /\ h # None /\ Active(txn, a) \subseteq Txns
  <2>1. Active(txn, a) \subseteq Txns
    BY DEF Active
  <2> QED BY <2>1, CoreIs, Marks
<1>1. ASSUME NEW u \in Active(txn, a), Leaf(u, Active(txn, a), txn), Meets(h, u, a, r, c) PROVE u = z
  <2>1. PICK y \in On(h, txn, a, r) : c[y] = c[u]
    BY <1>1 DEF Meets
  <2>2. c[u] = c[z]
    BY <2>1
  <2>3. d[u] <= d[z] /\ (u # z => d[u] < d[z])
    BY ONLY <1>0, <2>2, LeafDeepest, z \in Active(txn, a), Leaf(z, Active(txn, a), txn), u \in Active(txn, a)
  <2>4. d[z] <= d[u] /\ (z # u => d[z] < d[u])
    BY ONLY <1>0, <1>1, <2>2, LeafDeepest, z \in Active(txn, a)
  <2>5. d[u] \in Nat /\ d[z] \in Nat
    BY <1>0
  <2> QED BY <2>3, <2>4, <2>5
<1>2. ASSUME NEW w \in Txns, Flying(w, h, a) PROVE w = z
  <2>1. w \in Active(txn, a) /\ Meets(h, w, a, r, c)
    BY <1>0, <1>2 DEF Flying, Active, Flights
  <2>2. Leaf(w, Active(txn, a), txn)
    BY <1>0, <1>2, <2>1 DEF Flying, Ends
  <2> QED BY <1>1, <2>1, <2>2
<1>3. ASSUME NEW y \in Threads, Calling(y, h) PROVE thr[y].stack = z
  <2>p. PICK v : v = thr[y].stack
    OBVIOUS
  <2>1. v # None /\ r[v] = y /\ Meets(h, v, a, r, c)
    BY <1>0, <1>3, <2>p DEF Calling, Flights
  <2>2. ~thr[y].dead /\ v \in Parents
    <3>1. ThreadJob(y) /\ Carries(job[y]) /\ y \in Tasks /\ thr[y] \in ThreadType
      BY <1>0, Marks DEF JobsOk, Types
    <3> QED BY <1>3, <2>p, <3>1, Marks DEF ThreadJob, Carries, Calling, ThreadType
  <2>3. v \in Txns /\ Fits(a, o, r, v) /\ r[v] # None
    BY <1>0, <2>1, <2>2, Marks DEF Parents
  <2>4. txn[v].to_thread = y
    BY <2>1, <2>3 DEF Fits
  <2>5. v \in Active(txn, a) /\ Leaf(v, Active(txn, a), txn)
    BY <2>1, <2>2, <2>4, <2>p, TopLeaf
  <2> QED BY <1>1, <2>1, <2>5, <2>p
<1> QED BY <1>2, <1>3

\* Nor is a thread without a stack called back.
LEMMA NoneFlies ==
  ASSUME NEW a, NEW o, NEW r, NEW c, NEW d, Core(a, o, r, c, d), NEW h \in Threads, ~thr[h].dead, On(h, txn, a, r) = {}
  PROVE  (\A w \in Txns : ~Flying(w, h, a)) /\ (\A y \in Threads : ~Calling(y, h))
<1>0. Flights(a, o, r, c) /\ h # None
  BY CoreIs, Marks
<1>1. ASSUME NEW v PROVE ~Meets(h, v, a, r, c)
  BY DEF Meets
<1> QED BY <1>0, <1>1 DEF Flights, Flying, Calling

\* A transaction that is first on a list stays first.
First(L, K) == Len(L) > 0 /\ L[1] \in Txns => Len(K) > 0 /\ K[1] = L[1]

\* Thread h is not called back by anyone but with z, has no work that only a thread without a
\* stack can have, and starts nothing unless it is task x.
Quiet(h, z, x, a, o) ==
  /\ \A w \in Txns : (Flying(w, h, a) => w = z) /\ ~Fresh(w, h, a, o)
  /\ \A y \in Threads : ~Calling(y, h) \/ y = x
  /\ h # x => /\ job[h].pc = "built" => txn[job[h].t].kind # "call"
              /\ job[h].pc = "deliver" /\ txn[job[h].t].kind = "call" => txn[job[h].t].to_thread # None
\* The calls on their way, besides z, which may be sent now.
Flown(z, a, r, a2, r2, c2) ==
  \A w \in Txns : txn'[w].kind = "call" /\ a2[w] \in {"queue", "todo", "deliver"} /\ txn'[w].to_thread # None =>
    \/ w # z /\ txn[w].kind = "call" /\ a[w] \in {"queue", "todo", "deliver"} /\ txn'[w].to_thread = txn[w].to_thread
    \/ w = z /\ Meets(txn[w].to_thread, w, a2, r2, c2)'

\* Calls on their way after a step of task x that changes the stack of thread h only.
LEMMA FlightsStack ==
  ASSUME NEW a, NEW o, NEW r, NEW c, NEW d, Core(a, o, r, c, d), NEW a2, NEW o2, NEW r2, NEW c2, NEW x \in Tasks, Types', JobsOk',
         \A y \in Tasks : y # x => job'[y] = job[y], job'[x].pc \notin {"built", "deliver"}, NEW h, Others(h, a, r, a2, r2),
         \A t \in Active(txn, a) : c2[t] = c[t],
         \A t \in Txns : r[t] \in Threads /\ r[t] # h => r2[t] = r[t],
         \A y \in Threads : y # x /\ job[y].pc \in {"built", "deliver"} =>
            txn'[job[y].t].kind = txn[job[y].t].kind /\ txn'[job[y].t].to_thread = txn[job[y].t].to_thread,
         \A g \in Threads : (~thr'[g].dead => ~thr[g].dead) /\ First(thr[g].todo, thr'[g].todo),
         \A t \in Txns, g \in Threads : Fresh(t, g, a2, o2)' => Fresh(t, g, a, o),
         NEW z, Flown(z, a, r, a2, r2, c2), h \in Threads => thr'[h].dead \/ Quiet(h, z, x, a, o)
  PROVE  Flights(a2, o2, r2, c2)'
<1>0. Types /\ JobsOk /\ PlaceType(a, o, r) /\ (\A t \in Txns : Fits(a, o, r, t)) /\ Flights(a, o, r, c) /\ Listed(a, o)
  BY CoreIs
<1>1. /\ \A t \in Txns : txn[t].to_thread \in Threads \cup {None} /\ txn'[t].to_thread \in Threads \cup {None}
      /\ \A y \in Threads : job[y].target \in Threads \cup {None}
  BY <1>0, Marks DEF Types, TxnType, JobType
<1>2. ASSUME NEW g \in Threads, NEW v \in Active(txn, a), Meets(g, v, a, r, c), g # h \/ thr'[g].dead PROVE Meets(g, v, a2, r2, c2)'
  <2>1. SUFFICES ASSUME ~thr'[g].dead PROVE On(g, txn', a2, r2) # {} /\ \A z1 \in On(g, txn', a2, r2) : c2[z1] = c2[v]
    BY DEF Meets
  <2>2. ~thr[g].dead /\ On(g, txn', a2, r2) = On(g, txn, a, r)
    BY <1>2, <2>1 DEF Others
  <2>3. On(g, txn, a, r) \subseteq Active(txn, a)
    BY <2>2, StackIs
  <2> QED BY <1>2, <2>2, <2>3 DEF Meets
<1>3. ASSUME NEW w \in Txns, txn'[w].kind = "call", a2[w] \in {"queue", "todo", "deliver"}, txn'[w].to_thread # None
      PROVE  Meets(txn[w].to_thread, w, a2, r2, c2)'
  <2>1. SUFFICES ASSUME w # z, txn[w].kind = "call", a[w] \in {"queue", "todo", "deliver"}, txn'[w].to_thread = txn[w].to_thread
                 PROVE Meets(txn[w].to_thread, w, a2, r2, c2)'
    BY <1>3 DEF Flown
  <2>p. PICK g : g = txn[w].to_thread
    OBVIOUS
  <2>2. g \in Threads /\ w \in Active(txn, a) /\ Meets(g, w, a, r, c)
    BY <1>0, <1>1, <1>3, <2>1, <2>p DEF Flights, Active
  <2>3. g # h \/ thr'[g].dead
    BY <2>1, <2>2, <2>p DEF Quiet, Flying
  <2>4. Meets(g, w, a2, r2, c2)'
    BY <1>2, <2>2, <2>3
  <2> QED BY <2>1, <2>4, <2>p DEF Meets
<1>4. ASSUME NEW y \in Threads, job'[y].pc \in {"built", "deliver"}
      PROVE  y # x /\ job'[y] = job[y] /\ ~thr[y].dead /\ ~thr'[y].dead /\ y \in Tasks
  <2>1. y # x /\ y \in Tasks /\ job'[y] = job[y]
    BY <1>4, Marks
  <2>2. ThreadJob(y)' /\ Carries(job'[y])
    BY <2>1 DEF JobsOk
  <2>3. ~thr'[y].dead
    BY <1>4, <2>1, <2>2, Marks DEF ThreadJob, Carries
  <2> QED BY <2>1, <2>3
<1>5. ASSUME NEW y \in Threads, job'[y].pc = "built", txn'[job'[y].t].kind = "call"
      PROVE  /\ thr'[y].stack # None => r2[thr'[y].stack] = y
             /\ job'[y].target # None => thr'[y].stack # None /\ Meets(job[y].target, thr[y].stack, a2, r2, c2)'
  <2>1. y # x /\ job'[y] = job[y] /\ ~thr[y].dead /\ ~thr'[y].dead
    BY <1>4, <1>5
  <2>2. job[y].pc = "built" /\ txn[job[y].t].kind = "call"
    BY <1>5, <2>1
  <2>3. y # h
    BY <2>1, <2>2 DEF Quiet
  <2>4. /\ thr'[y].stack = thr[y].stack /\ thr[y].stack \in Parents
        /\ thr[y].stack # None => r[thr[y].stack] = y /\ thr[y].stack \in Active(txn, a) /\ thr[y].stack \in Txns
        /\ job[y].target # None => thr[y].stack # None /\ Meets(job[y].target, thr[y].stack, a, r, c)
    <3>1. thr'[y].stack = thr[y].stack
      BY <2>1, <2>3 DEF Others
    <3>2. /\ thr[y].stack # None => r[thr[y].stack] = y
          /\ job[y].target # None => thr[y].stack # None /\ Meets(job[y].target, thr[y].stack, a, r, c)
      BY <1>0, <2>2 DEF Flights
    <3>3. thr[y].stack \in Parents /\ (thr[y].stack # None => thr[y].stack \in Active(txn, a))
      BY <2>1, StackIs
    <3> QED BY <3>1, <3>2, <3>3 DEF Active
  <2>5. thr'[y].stack # None => r2[thr'[y].stack] = y
    BY <2>3, <2>4
  <2>6. ASSUME job'[y].target # None PROVE thr'[y].stack # None /\ Meets(job[y].target, thr[y].stack, a2, r2, c2)'
    <3>p. PICK g, v : g = job[y].target /\ v = thr[y].stack
      OBVIOUS
    <3>1. g \in Threads /\ v \in Active(txn, a) /\ Meets(g, v, a, r, c) /\ v # None
      BY <1>1, <2>1, <2>4, <2>6, <3>p
    <3>2. g # h \/ thr'[g].dead
      BY <2>1, <2>2, <3>1, <3>p DEF Quiet, Calling
    <3>3. Meets(g, v, a2, r2, c2)'
      BY <1>2, <3>1, <3>2
    <3>4. g = job'[y].target /\ v = thr'[y].stack
      BY <2>1, <2>4, <3>p
    <3> QED BY <3>1, <3>3, <3>4 DEF Meets
  <2> QED BY <2>5, <2>6
<1>6. ASSUME NEW g \in Threads, ~thr'[g].dead, NEW t \in Txns, Fresh(t, g, a2, o2)'
      PROVE  /\ ~thr[g].dead /\ Fresh(t, g, a, o) /\ thr'[g].stack = thr[g].stack /\ thr'[g].todo[1] = thr[g].todo[1]
             /\ job'[g].pc \in {"built", "deliver"} /\ txn'[job'[g].t].kind = "call" =>
                  job[g].pc \in {"built", "deliver"} /\ txn[job[g].t].kind = "call"
  <2>1. ~thr[g].dead /\ Fresh(t, g, a, o) /\ First(thr[g].todo, thr'[g].todo)
    BY <1>6
  <2>2. g # h
    BY <1>6, <2>1 DEF Quiet
  <2>3. thr'[g].stack = thr[g].stack
    BY <2>1, <2>2 DEF Others
  <2>4. t \in In(thr[g].todo) /\ thr[g].todo[1] = t
    BY <1>0, <2>1 DEF Listed, Fresh, Flights
  <2>5. Len(thr[g].todo) > 0
    <3>1. thr[g].todo \in Seq(Txns \cup Words)
      BY <1>0 DEF Types, ThreadType
    <3> QED BY <2>4, <3>1, InLen
  <2>6. thr'[g].todo[1] = thr[g].todo[1]
    BY <1>0, <2>1, <2>4, <2>5 DEF First
  <2>7. job'[g].pc \in {"built", "deliver"} /\ txn'[job'[g].t].kind = "call" =>
                  job[g].pc \in {"built", "deliver"} /\ txn[job[g].t].kind = "call"
    BY <1>4
  <2> QED BY <2>1, <2>3, <2>6, <2>7
<1>7. ASSUME NEW g \in Threads, job'[g].pc = "deliver", txn'[job'[g].t].to_thread = None, txn'[job'[g].t].kind = "call"
      PROVE  /\ job[g].pc = "deliver" /\ txn[job[g].t].to_thread = None /\ txn[job[g].t].kind = "call"
             /\ thr'[g].stack = thr[g].stack
  <2>1. g # x /\ job'[g] = job[g] /\ ~thr[g].dead /\ ~thr'[g].dead
    BY <1>4, <1>7
  <2>2. job[g].pc = "deliver" /\ txn[job[g].t].to_thread = None /\ txn[job[g].t].kind = "call"
    BY <1>7, <2>1
  <2>3. g # h
    BY <2>1, <2>2 DEF Quiet
  <2> QED BY <2>1, <2>2, <2>3 DEF Others
<1> QED BY <1>0, <1>3, <1>5, <1>6, <1>7, FlightsStep

\* Lists that no transaction joins or leaves.
LEMMA ListsGoNone ==
  ASSUME NEW a, NEW o, NEW a2, NEW o2, ListsStay
  PROVE  ListsGo(None, a, o, a2, o2)
<1>1. None \notin Txns
  BY Marks
<1>2. ASSUME NEW L, NEW K, Stay(L, K), NEW pl, NEW ow PROVE Goes(L, K, pl, ow, None, a, o, a2, o2)
  BY <1>1, <1>2, GoesStay
<1>3. \A g \in Threads : Goes(thr[g].todo, thr'[g].todo, "todo", g, None, a, o, a2, o2)
  BY <1>2 DEF ListsStay, Kept
<1>4. \A p \in Procs : Stay(prc[p].todo, prc'[p].todo) /\ Stay(prc[p].async_todo, prc'[p].async_todo)
  BY DEF ListsStay, Stay
<1> QED BY <1>2, <1>3, <1>4 DEF ListsGo

\* A thread that takes the last call of a chain off its stack, or whose last call is answered, is
\* called back by nobody.
LEMMA QuietPop ==
  ASSUME NEW a, NEW o, NEW r, NEW c, NEW d, Core(a, o, r, c, d), NEW h \in Threads, ~thr[h].dead, NEW z, z = thr[h].stack, z # None,
         Leaf(z, Active(txn, a), txn), NEW x, a[z] # "stack" \/ (r[z] = h /\ x = h)
  PROVE  Quiet(h, z, x, a, o)
<1>0. /\ Types /\ JobsOk /\ (\A t \in Txns : Fits(a, o, r, t)) /\ PlaceType(a, o, r) /\ Flights(a, o, r, c) /\ h # None
  BY CoreIs, Marks
<1>1. /\ Stack(h, z, On(h, txn, a, r), txn, c, d) /\ z \in Active(txn, a)
  BY StackIs
<1>2. \A y \in On(h, txn, a, r) : c[y] = c[z]
  BY <1>1 DEF Stack
<1>3. /\ \A w \in Txns : Flying(w, h, a) => w = z
      /\ \A y \in Threads : Calling(y, h) => thr[y].stack = z
  BY <1>1, <1>2, InFlight
<1>4. z \in Txns /\ Fits(a, o, r, z) /\ r[z] \in Threads \cup {None}
  BY <1>0, <1>1 DEF Active, PlaceType
<1>5. ASSUME NEW y \in Threads, job[y].pc = "built", txn[job[y].t].kind = "call", thr[y].stack = z PROVE y = x
  <2>1. r[z] = y
    BY <1>0, <1>5 DEF Flights
  <2>2. ~thr[y].dead
    <3>1. ThreadJob(y) /\ Carries(job[y])
      BY <1>0, Marks DEF JobsOk
    <3> QED BY <1>5, <3>1, Marks DEF ThreadJob, Carries
  <2>3. y # None
    BY Marks
  <2>4. a[z] = "stack"
    BY <1>4, <2>1, <2>2, <2>3 DEF Fits
  <2> QED BY <2>1, <2>4
<1>6. \A w \in Txns : ~Fresh(w, h, a, o)
  BY <1>0 DEF Flights
<1>7. \A y \in Threads : ~Calling(y, h) \/ y = x
  BY <1>3, <1>5 DEF Calling
<1>8. h # x => /\ job[h].pc = "built" => txn[job[h].t].kind # "call"
               /\ job[h].pc = "deliver" /\ txn[job[h].t].kind = "call" => txn[job[h].t].to_thread # None
  <2>1. h # x /\ job[h].pc = "built" => txn[job[h].t].kind # "call"
    BY <1>5
  <2>2. job[h].pc = "deliver" /\ txn[job[h].t].kind = "call" => txn[job[h].t].to_thread # None
    BY <1>0 DEF Flights
  <2> QED BY <2>1, <2>2
<1> QED BY <1>3, <1>6, <1>7, <1>8 DEF Quiet

\* The last call z of a chain, sent by h, is answered or taken back: it leaves the stack of h.
Ended(z, h, a, r, a2) ==
  /\ a[z] \in {"queue", "job"} /\ txn[z].from = h /\ txn'[z].from = None
  /\ txn'[z].kind # "call" \/ a2[z] = "done"
  /\ r[z] = None \/ (txn'[z].to_thread = txn[z].to_thread /\ txn'[z].to_parent = txn[z].to_parent)
\* What happens to the others: nothing, or they are no calls.
Aside(w, a, o, r, a2, o2) ==
  /\ txn'[w] = txn[w]
  /\ (a2[w] = a[w] /\ o2[w] = o[w]) \/ (txn[w].kind # "call" /\ txn[w].from = None /\ r[w] = None)

\* Chains, stacks and flights after that.
LEMMA EndedLinks ==
  ASSUME NEW a, NEW o, NEW r, NEW c, NEW d, Core(a, o, r, c, d), NEW a2, NEW o2, PlaceType(a2, o2, r), NEW x \in Tasks, Types', JobsOk',
         \A y \in Tasks : y # x => job'[y] = job[y], job'[x].pc \notin {"built", "deliver", "walk"}, job[x].pc # "walk",
         NEW h \in Threads, ~thr[h].dead, NEW z \in Active(txn, a), Leaf(z, Active(txn, a), txn), Ended(z, h, a, r, a2),
         \A w \in Txns : w # z => Aside(w, a, o, r, a2, o2),
         \A g \in Threads : /\ thr'[g].dead = thr[g].dead /\ (~thr[g].dead /\ g # h => thr'[g].stack = thr[g].stack),
         thr'[h].stack = txn[z].from_parent, \A g \in Threads : First(thr[g].todo, thr'[g].todo),
         \A y \in Threads : y # x /\ job[y].pc \in {"built", "deliver"} => job[y].t # z
  PROVE  Linked(a2, o2, r, c, d)'
<1>0. /\ Types /\ JobsOk /\ (\A t \in Txns : Fits(a, o, r, t)) /\ PlaceType(a, o, r) /\ c \in [Txns -> Txns] /\ d \in [Txns -> Nat]
      /\ Chained(Active(txn, a), txn, c, d) /\ Ends(a, o, Active(txn, a)) /\ (\A w \in Txns : a[w] = "stack" => o[w] \in Threads)
  BY CoreIs
<1>z. z \in Txns /\ txn[z].kind = "call" /\ h # None
  BY Marks DEF Active
<1>p. PICK A, B : A = Active(txn, a) /\ B = Active(txn', a2)
  OBVIOUS
<1>1. B = A \ {z} /\ A \subseteq Txns /\ z \in A
  <2>1. z \notin B
    BY <1>p DEF Active, Ended
  <2>2. ASSUME NEW w \in Txns, w # z PROVE w \in B <=> w \in A
    BY <1>p, <2>2 DEF Active, Aside
  <2> QED BY <1>p, <2>1, <2>2 DEF Active
<1>2. Chained(B, txn', c, d)
  <2>1. \A u \in A \ {z} : txn'[u].from_parent = txn[u].from_parent
    BY <1>1 DEF Aside
  <2>2. Chained(A, txn, c, d) /\ Leaf(z, A, txn)
    BY <1>0, <1>p
  <2>3. Chained(A \ {z}, txn', c, d)
    BY ONLY <1>0, <1>1, <2>1, <2>2, ChainDrop
  <2> QED BY <1>1, <2>3
<1>s. thr[h].stack = z /\ Under(txn, z, h) = txn[z].from_parent
  BY OnTopIs DEF Ended
<1>3. Ends(a2, o2, B)'
  <2>1. Ends(a, o, A)
    BY <1>0, <1>p
  <2>2. \A w \in B : w \in A /\ w # z /\ txn'[w] = txn[w] /\ a2[w] = a[w] /\ o2[w] = o[w] /\ w \in Txns
    BY <1>1, <1>p DEF Aside, Active
  <2>3. ASSUME NEW t \in B, Leaf(t, B, txn'), ~Leaf(t, A, txn) PROVE txn[z].from_parent = t
    BY <1>1, <2>2, <2>3 DEF Leaf
  <2>4. ASSUME NEW t \in B, Leaf(t, A, txn) PROVE Leaf(t, B, txn')
    BY <1>1, <2>2, <2>4 DEF Leaf
  <2>5. ASSUME NEW t \in B
        PROVE  /\ a2[t] \in {"queue", "todo", "ptodo", "deliver", "job"} => Leaf(t, B, txn')
               /\ a2[t] = "orphan" => ~Leaf(t, B, txn')
    <3>1. a2[t] \in {"queue", "todo", "ptodo", "deliver", "job"} => Leaf(t, B, txn')
      BY <2>1, <2>2, <2>4, <2>5 DEF Ends
    <3>2. ASSUME a2[t] = "orphan", Leaf(t, B, txn') PROVE FALSE
      <4>1. a[t] = "orphan" /\ t \in A /\ ~Leaf(t, A, txn)
        BY <2>1, <2>2, <2>5, <3>2 DEF Ends
      <4>2. txn[z].from_parent = t
        BY <2>3, <2>5, <3>2, <4>1
      <4>3. txn[z].from = None
        BY <1>1, <2>1, <4>1, <4>2 DEF Ends
      <4> QED BY <1>z, <4>3 DEF Ended
    <3> QED BY <3>1, <3>2
  <2>6. ASSUME NEW t \in B, NEW w \in B, txn'[w].from_parent = t
        PROVE  /\ a2[t] = "stack" => \/ txn'[w].from = o2[t]
                                     \/ thr'[o2[t]].dead /\ txn'[w].from = None
               /\ a2[t] = "orphan" => txn'[w].from = None
    <3>1. t \in A /\ w \in A /\ txn[w].from_parent = t /\ txn'[w] = txn[w] /\ a2[t] = a[t] /\ o2[t] = o[t] /\ t \in Txns
      BY <2>2, <2>6
    <3>2. a[t] = "stack" => o[t] \in Threads /\ thr'[o[t]].dead = thr[o[t]].dead
      BY <1>0, <3>1
    <3> QED BY <2>1, <3>1, <3>2 DEF Ends
  <2>7. ASSUME NEW y \in Tasks, job'[y].pc = "walk", NEW t \in B, a2[t] = "stack", o2[t] = job'[y].dying
        PROVE  Leaf(t, B, txn') <=> t = job'[y].re
    <3>1. job'[y] = job[y] /\ t \in A /\ a[t] = "stack" /\ o[t] = job[y].dying /\ t \in Txns /\ job[y].pc = "walk"
      BY <2>2, <2>7
    <3>2. Leaf(t, A, txn) <=> t = job[y].re
      BY <2>1, <3>1 DEF Ends
    <3>3. ASSUME Leaf(t, B, txn'), ~Leaf(t, A, txn) PROVE FALSE
      <4>1. txn[z].from_parent = t
        BY <2>3, <2>7, <3>3
      <4>2. txn[z].from = o[t] \/ txn[z].from = None
        BY <1>1, <2>1, <3>1, <4>1 DEF Ends
      <4>3. o[t] = h
        BY <1>z, <4>2 DEF Ended
      <4>4. thr[h].dead
        <5>1. job[y].dying = h /\ (y # Worker => ThreadJob(y)) /\ (y = Worker => WorkerJob) /\ Carries(job[y])
          BY <1>0, <3>1, <4>3, Marks DEF JobsOk
        <5> QED BY <1>z, <3>1, <5>1 DEF ThreadJob, WorkerJob
      <4> QED BY <4>4
    <3>4. Leaf(t, A, txn) => Leaf(t, B, txn')
      BY <2>4, <2>7
    <3> QED BY <3>1, <3>2, <3>3, <3>4
  <2> QED BY <2>5, <2>6, <2>7 DEF Ends
<1>o. Others(h, a, r, a2, r) /\ On(h, txn', a2, r) = On(h, txn, a, r) \ {z} /\ On(h, txn, a, r) \subseteq Txns
  <2>1. ASSUME NEW g \in Threads, NEW w \in Txns, w # z PROVE w \in On(g, txn', a2, r) <=> w \in On(g, txn, a, r)
    <3>1. g # None
      BY Marks
    <3> QED BY <2>1, <3>1 DEF Aside, On
  <2>2. ASSUME NEW g \in Threads, g # h PROVE z \in On(g, txn', a2, r) <=> z \in On(g, txn, a, r)
    <3>1. g # None
      BY Marks
    <3> QED BY <1>z, <2>2, <3>1 DEF Ended, On
  <2>3. z \notin On(h, txn', a2, r)
    <3>1. z \in On(h, txn, a, r)
      BY <1>z DEF Ended, On
    <3>2. r[z] # h
      BY <1>0, <1>z, <3>1, OnActive DEF Ended
    <3> QED BY <1>z, <3>2 DEF Ended, On
  <2>4. ASSUME NEW g \in Threads, g # h PROVE On(g, txn', a2, r) = On(g, txn, a, r)
    BY <2>1, <2>2, <2>4 DEF On
  <2>5. On(h, txn', a2, r) = On(h, txn, a, r) \ {z}
    BY <2>1, <2>3 DEF On
  <2>6. On(h, txn, a, r) \subseteq Txns
    BY DEF On
  <2> QED BY <2>4, <2>5, <2>6 DEF Others
<1>b. Beneath(h, a, r, c, d, c, d)
  <2>1. SUFFICES ASSUME NEW g \in Threads, g # h, NEW w \in On(g, txn, a, r) PROVE Under(txn', w, g) = Under(txn, w, g)
    BY DEF Beneath
  <2>2. CASE w # z
    BY <2>1, <2>2 DEF Under, Aside, On
  <2>3. CASE w = z
    <3>1. r[z] = g /\ g # None
      BY <2>1, <2>3, Marks DEF On, Ended
    <3>2. txn[z].to_thread = g
      BY <1>0, <1>z, <3>1 DEF Fits
    <3> QED BY <2>3, <3>1, <3>2 DEF Under, Ended
  <2> QED BY <2>2, <2>3
<1>4. Stacks(a2, r, c, d)'
  <2>1. Stack(h, thr'[h].stack, On(h, txn', a2, r), txn', c, d)
    <3>1. Stack(h, z, On(h, txn, a, r), txn, c, d)
      BY <1>s, StackIs
    <3>2. z # None
      BY <1>z, Marks
    <3>3. \A u \in On(h, txn, a, r) \ {z} : Under(txn', u, h) = Under(txn, u, h)
      BY <1>o DEF Under, Aside
    <3>4. Stack(h, Under(txn, z, h), On(h, txn, a, r) \ {z}, txn', c, d)
      BY ONLY <1>0, <1>o, <3>1, <3>2, <3>3, StackPop
    <3> QED BY <1>o, <1>s, <3>4
  <2>2. ~thr'[h].dead
    OBVIOUS
  <2>3. \A y \in Tasks : job'[y].pc = "walk" \/ job[y].pc = "walk" => job'[y] = job[y]
    OBVIOUS
  <2>4. \A y \in Tasks : job'[y].pc = "walk" => job'[y].dying # h
    <3>1. SUFFICES ASSUME NEW y \in Tasks, job[y].pc = "walk", job[y].dying = h PROVE FALSE
      BY <2>3
    <3>2. (y # Worker => ThreadJob(y)) /\ (y = Worker => WorkerJob)
      BY <1>0, Marks DEF JobsOk
    <3> QED BY <1>z, <3>1, <3>2 DEF ThreadJob, WorkerJob
  <2>5. h \in Threads =>
           /\ ~thr'[h].dead => Stack(h, thr'[h].stack, On(h, txn', a2, r), txn', c, d)
           /\ \A y \in Tasks : job'[y].pc = "walk" /\ job'[y].dying = h => Stack(h, job'[y].t, On(h, txn', a2, r), txn', c, d)
           /\ thr'[h].dead /\ On(h, txn', a2, r) # {} => \E y \in Tasks : job'[y].pc = "walk" /\ job'[y].dying = h
    BY <2>1, <2>2, <2>4
  <2>6. \A y \in Tasks : job'[y].pc = "walk" \/ job[y].pc = "walk" => job'[y] = job[y] \/ (h \in Threads /\ job'[y].dying = h /\ job[y].dying \in {h, None})
    BY <2>3
  <2> QED BY ONLY <1>o, <1>b, <2>5, <2>6, StacksStep, Core(a, o, r, c, d), Types'
<1>5. Flights(a2, o2, r, c)'
  <2>1. Quiet(h, z, x, a, o)
    <3>1. z = thr[h].stack /\ z # None /\ a[z] # "stack"
      BY <1>s, <1>z, Marks DEF Ended
    <3> QED BY <3>1, QuietPop
  <2>2. Flown(z, a, r, a2, r, c)
    <3>1. ~(txn'[z].kind = "call" /\ a2[z] \in {"queue", "todo", "deliver"})
      BY DEF Ended
    <3>2. \A w \in Txns : w # z /\ txn'[w].kind = "call" => txn[w] = txn'[w] /\ a2[w] = a[w]
      BY DEF Aside
    <3> QED BY <3>1, <3>2 DEF Flown
  <2>3. \A y \in Threads : y # x /\ job[y].pc \in {"built", "deliver"} =>
            txn'[job[y].t].kind = txn[job[y].t].kind /\ txn'[job[y].t].to_thread = txn[job[y].t].to_thread
    <3>1. SUFFICES ASSUME NEW y \in Threads, y # x, job[y].pc \in {"built", "deliver"} PROVE txn'[job[y].t] = txn[job[y].t]
      OBVIOUS
    <3>2. job[y].t \in Txns
      <4>1. job[y] \in JobType /\ Carries(job[y])
        BY <1>0, Marks DEF Types, JobsOk
      <4> QED BY <3>1, <4>1 DEF Carries, JobType, Parents
    <3> QED BY <3>1, <3>2 DEF Aside
  <2>4. \A t \in Txns, g \in Threads : Fresh(t, g, a2, o2)' => Fresh(t, g, a, o)
    <3>1. \A g \in Threads : ~Fresh(z, g, a2, o2)'
      BY DEF Fresh, Ended
    <3>2. \A w \in Txns, g \in Threads : w # z => (Fresh(w, g, a2, o2)' => Fresh(w, g, a, o))
      BY DEF Fresh, Aside
    <3> QED BY <3>1, <3>2
  <2>5. /\ (\A t \in Active(txn, a) : c[t] = c[t]) /\ (\A t \in Txns : r[t] \in Threads /\ r[t] # h => r[t] = r[t])
        /\ job'[x].pc \notin {"built", "deliver"} /\ (h \in Threads => thr'[h].dead \/ Quiet(h, z, x, a, o))
        /\ \A g \in Threads : (~thr'[g].dead => ~thr[g].dead) /\ First(thr[g].todo, thr'[g].todo)
    BY <2>1
  <2> QED BY ONLY <1>o, <2>2, <2>3, <2>4, <2>5, FlightsStack, Core(a, o, r, c, d), Types', JobsOk', x \in Tasks, \A y \in Tasks : y # x => job'[y] = job[y]
<1> QED BY <1>2, <1>3, <1>4, <1>5, <1>p DEF Linked

\* The list without its last word, and with the error at its end, has the transaction first that was.
LEMMA KeptFirst ==
  ASSUME ListsStay
  PROVE  \A g \in Threads : First(thr[g].todo, thr'[g].todo)
BY DEF ListsStay, Kept, First

\* The target died before a call was queued: it is taken back.
LEMMA QueueDeadCall ==
  ASSUME TxnInv, NEW h \in Threads, QueueDead(h), txn[job[h].t].kind = "call"
  PROVE  TxnInv'
<1>0. PICK a, o, r, c, d : Core(a, o, r, c, d)
  BY DEF TxnInv
<1>p. PICK t : t = job[h].t
  OBVIOUS
<1>g. PICK a2, o2 : a2 = Put(a, t, "none") /\ o2 = Put(o, t, None)
  OBVIOUS
<1>1. /\ Types /\ ForThread(h, job[h]) /\ Carries(job[h]) /\ Completes /\ job[h] \in JobType /\ PlaceType(a, o, r) /\ Turns(a)
      /\ Holds(a, o, h, job[h]) /\ (\A w \in Txns : Fits(a, o, r, w)) /\ Ends(a, o, Active(txn, a)) /\ h \in Tasks /\ Held(a, o)
      /\ GhostType(a, o, r, c, d)
  BY <1>0, CoreIs, TaskHolds, Marks
<1>2. job[h].pc = "queue" /\ faults' = faults /\ calls' = calls
  BY DEF QueueDead
<1>3. /\ t \in Txns /\ a[t] = "queue" /\ o[t] = h /\ job[h].re = None /\ ~thr[h].waiting /\ ~thr[h].dead /\ t # None
  <2>1. t \in Txns /\ t # None /\ job[h].re = None
    BY <1>1, <1>2, <1>p, Marks DEF Carries, JobType, Parents
  <2>2. ~thr[h].waiting /\ ~thr[h].dead
    BY <1>1, <1>2, ThreadGoesOn
  <2> QED BY <1>1, <1>2, <1>p, <2>1, <2>2 DEF Holds
<1>4. /\ txn[t].kind = "call" /\ txn[t].from = h /\ r[t] = None /\ t \in Active(txn, a) /\ Leaf(t, Active(txn, a), txn)
  <2>1. txn[t].kind = "call" /\ txn[t].from = h /\ r[t] = None
    BY <1>1, <1>3, <1>p DEF Fits
  <2>2. t \in Active(txn, a)
    BY <1>3, <2>1 DEF Active
  <2>3. Leaf(t, Active(txn, a), txn)
    BY <1>1, <1>3, <2>2 DEF Ends
  <2> QED BY <2>1, <2>2, <2>3
<1>5. PICK P : P = [prc EXCEPT ![job[h].proc].has_async = @ \/ FALSE]
  OBVIOUS
<1>6. PICK T, S : S = PopStack(thr, h, t) /\ T = TakeBack(S, h)
  OBVIOUS
<1>7. Abandon(h, P, T)
  <2>1. PICK b \in BOOLEAN : b = (txn[job[h].t].kind = "call")
    OBVIOUS
  <2>2. Abandon(h, [prc EXCEPT ![job[h].proc].has_async = @ \/ ~b], TakeBack(IF b THEN PopStack(thr, h, t) ELSE thr, h))
    BY <1>p, <2>1 DEF QueueDead
  <2>3. b
    BY <2>1
  <2>4. [prc EXCEPT ![job[h].proc].has_async = @ \/ ~b] = P
    BY <1>5, <2>3
  <2> QED BY <1>6, <2>2, <2>3, <2>4
<1>8. SoftProc(P) /\ \A k \in Procs : SameWork(P[k], prc[k])
  <2>1. prc \in [Procs -> ProcType] /\ job[h].proc \in Procs
    BY <1>1, <1>2, Marks DEF Types, JobType, Carries
  <2>2. PICK q : q = job[h].proc
    OBVIOUS
  <2>3. (prc[q].has_async \/ FALSE) = prc[q].has_async
    BY Zenon, <2>1, <2>2 DEF ProcType
  <2>4. P = [prc EXCEPT ![q].has_async = prc[q].has_async]
    BY Zenon, <1>5, <2>2, <2>3
  <2>5. P = prc
    BY <2>1, <2>2, <2>4 DEF ProcType
  <2> QED BY <2>1, <2>5 DEF SoftProc, SameWork
<1>9. /\ Soft(S) /\ (\A g \in Threads : g # h => S[g] = thr[g]) /\ S[h].todo = thr[h].todo /\ S[h].waiting = thr[h].waiting
      /\ S[h].stack = txn[t].from_parent
  <2>1. thr \in [Threads -> ThreadType] /\ txn[t].from_parent \in Parents
    BY <1>1, <1>3 DEF Types, TxnType
  <2>2. S = SetStack(thr, h, txn[t].from_parent)
    BY <1>6 DEF PopStack, SetStack
  <2>3. /\ S \in [Threads -> ThreadType] /\ (\A g \in Threads : g # h => S[g] = thr[g])
        /\ SameLife(S[h], thr[h]) /\ SameFlags(S[h], thr[h]) /\ S[h].todo = thr[h].todo
        /\ S[h].process_todo = thr[h].process_todo /\ S[h].stack = txn[t].from_parent
    BY <2>1, <2>2, FieldIs
  <2> QED BY <2>3 DEF Soft, SameLife, SameFlags
<1>10. /\ Soft(T) /\ (\A g \in Threads : g # h => T[g] = thr[g])
       /\ T[h].waiting = thr[h].waiting /\ T[h].stack = txn[t].from_parent
       /\ Kept(thr[h].todo, T[h].todo)
  <2>1. job[h].pc \in {"queue", "rsend"}
    BY <1>2
  <2> QED BY <1>1, <1>6, <1>9, <2>1, TakenBack
<1>11. /\ Base' /\ LifeStep
       /\ (\A g \in Threads : /\ thr'[g].dead = thr[g].dead /\ (~thr[g].dead => thr'[g].stack = T[g].stack)
                              /\ thr'[g].todo = IF g = h THEN Append(T[h].todo, "return_error") ELSE thr[g].todo)
       /\ (\A p \in Procs : SameWork(prc'[p], P[p]))
       /\ txn' = [txn EXCEPT ![job[h].t] = NoTxn]
       /\ job' = [job EXCEPT ![h] = IF job[h].re = None THEN Idle ELSE [Idle EXCEPT !.pc = "fail1", !.t = job[h].re]]
  <2>1. /\ job[h].pc \in {"built", "rbuilt", "queue", "rsend"} /\ ~T[h].waiting /\ calls' \in 0 .. MaxCalls /\ faults' \in 0 .. Faults
    BY <1>1, <1>2, <1>3, <1>10 DEF Types
  <2>2. \A p \in Procs : /\ P[p].todo = prc[p].todo /\ P[p].async_todo = prc[p].async_todo
                         /\ P[p].requested = prc[p].requested /\ P[p].started = prc[p].started
    BY <1>8 DEF SameWork
  <2> QED BY ONLY <1>0, <1>7, <1>8, <1>10, <2>1, <2>2, AbandonBase, h \in Threads
<1>12. /\ txn'[t] = NoTxn /\ (\A w \in Txns : w # t => txn'[w] = txn[w]) /\ job'[h] = Idle /\ (\A y \in Tasks : y # h => job'[y] = job[y])
       /\ Types' /\ JobsOk'
  BY <1>1, <1>3, <1>11, <1>p DEF Types, Base
<1>13. ListsStay
  <2>1. T[h].todo \in Seq(Txns \cup Words) /\ "return_error" \in Words
    BY <1>10 DEF Soft, ThreadType, Words
  <2>2. Kept(thr[h].todo, thr'[h].todo)
    <3>1. thr'[h].todo = Append(T[h].todo, "return_error")
      BY <1>11
    <3> QED BY <1>10, <2>1, <3>1, KeptAppend
  <2>3. \A g \in Threads : g # h => Kept(thr[g].todo, thr'[g].todo)
    BY <1>11, KeptSame
  <2>4. \A p \in Procs : prc'[p].todo = prc[p].todo /\ prc'[p].async_todo = prc[p].async_todo
    BY <1>8, <1>11 DEF SameWork
  <2> QED BY <2>2, <2>3, <2>4 DEF ListsStay
<1>q. /\ PlaceType(a2, o2, r) /\ a2[t] = "none" /\ \A w \in Txns : w # t => a2[w] = a[w] /\ o2[w] = o[w]
  BY <1>1, <1>g, <1>3 DEF PlaceType, Places, Owners, Put
<1>14. Placed(a2, o2, r)'
  <2>1. ASSUME NEW w \in Txns PROVE Placing(w, h, None, a, o, r, a2, o2, r)
    <3>1. CASE w # t
      BY <1>12, <1>q, <3>1 DEF Placing
    <3>2. CASE w = t
      <4>1. Fits(a2, o2, r, t)'
        BY <1>12, <1>q, <1>4, FitsNone
      <4>2. \A y \in Tasks : y # h /\ job[y].pc = "walk" => job[y].re # t
        <5>1. SUFFICES ASSUME NEW y \in Tasks, y # h, job[y].pc = "walk", job[y].re = t PROVE FALSE
          OBVIOUS
        <5>2. Holds(a, o, y, job[y])
          BY <1>1 DEF Held
        <5> QED BY <1>3, <5>1, <5>2 DEF Holds
      <4>3. Handed(t, h, None, a, o, a2, o2)
        BY <1>3, <1>q, <4>2 DEF Handed, Taken
      <4> QED BY <3>2, <4>1, <4>3 DEF Placing
    <3> QED BY <3>1, <3>2
  <2>2. HasNow(h, a2, o2, r)
    <3>1. Holds(a2, o2, h, job'[h])
      BY <1>12 DEF Holds, Idle
    <3>2. ASSUME NEW w \in Txns, a2[w] \in Taken, o2[w] = h PROVE FALSE
      <4>1. w # t /\ a[w] \in Taken /\ o[w] = h
        BY <1>q, <3>2 DEF Taken
      <4>2. With(w, job[h])
        BY <1>1, <4>1 DEF Held
      <4> QED BY <1>3, <1>p, <4>1, <4>2, Marks DEF With
    <3> QED BY <3>1, <3>2 DEF HasNow
  <2>3. ListsGo(None, a, o, a2, o2)
    BY <1>13, ListsGoNone
  <2>4. \A g \in Threads : thr[g].dead => thr'[g].dead
    BY <1>11
  <2> QED BY <1>0, <1>1, <1>12, <2>1, <2>2, <2>3, <2>4, PlacedStep
<1>15. Linked(a2, o2, r, c, d)'
  <2>1. Ended(t, h, a, r, a2)
    BY <1>3, <1>4, <1>12 DEF Ended, NoTxn
  <2>2. \A w \in Txns : w # t => Aside(w, a, o, r, a2, o2)
    BY <1>12, <1>q DEF Aside
  <2>3. /\ (\A g \in Threads : /\ thr'[g].dead = thr[g].dead /\ (~thr[g].dead /\ g # h => thr'[g].stack = thr[g].stack))
        /\ thr'[h].stack = txn[t].from_parent
    BY <1>3, <1>10, <1>11
  <2>4. \A y \in Threads : y # h /\ job[y].pc \in {"built", "deliver"} => job[y].t # t
    <3>1. SUFFICES ASSUME NEW y \in Threads, y # h, job[y].pc \in {"built", "deliver"}, job[y].t = t PROVE FALSE
      OBVIOUS
    <3>2. Holds(a, o, y, job[y])
      BY <1>1, Marks DEF Held
    <3> QED BY <1>3, <3>1, <3>2 DEF Holds
  <2>5. /\ job'[h].pc \notin {"built", "deliver", "walk"} /\ job[h].pc # "walk"
    BY <1>2, <1>12 DEF Idle
  <2>6. \A g \in Threads : First(thr[g].todo, thr'[g].todo)
    BY <1>13, KeptFirst
  <2> QED BY ONLY <1>0, <1>1, <1>3, <1>4, <1>12, <1>q, <2>1, <2>2, <2>3, <2>4, <2>5, <2>6, EndedLinks, h \in Threads
<1>16. Turns(a2)'
  <2>1. \A p \in Procs : Turn(p, a2)' = Turn(p, a)
    <3>1. \A p \in Procs : t \notin Turn(p, a) /\ t \notin Turn(p, a2)'
      BY <1>4, <1>12 DEF Turn, NoTxn
    <3>2. \A p \in Procs, w \in Txns : w # t => (w \in Turn(p, a2)' <=> w \in Turn(p, a))
      BY <1>12, <1>q DEF Turn
    <3> QED BY <3>1, <3>2 DEF Turn
  <2>2. \A p \in Procs : prc'[p].life = "open" => prc[p].life = "open" /\ SameWork(prc'[p], prc[p])
    BY <1>8, <1>11 DEF LifeStep, SameWork
  <2> QED BY <1>1, <2>1, <2>2, TurnsHand
<1>17. GhostType(a2, o2, r, c, d)
  BY <1>1, <1>q DEF GhostType
<1> QED BY <1>11, <1>14, <1>15, <1>16, <1>17, CoreStep

Clears(z) == txn' = [txn EXCEPT ![z].from = None]

\* Task x has answered the call z, or failed it: it leaves the stack of its sender h, whose list has
\* become that of S, and x puts down h and the process q.
LEMMA AnsweredBase ==
  ASSUME NEW a, NEW o, NEW r, NEW c, NEW d, Core(a, o, r, c, d), NEW x \in Tasks, NEW z \in Txns, a[z] = "job", o[z] = x,
         NEW h \in Threads, h = txn[z].from, ~thr[h].dead, NEW q \in Procs \cup {None}, NEW j \in JobType, Become(x, j), Carries(j),
         x \in Threads => ForThread(x, j), x = Worker => ForWorker(j) /\ j.proc = job[x].proc, Gives(x, j, h, q),
         j.pc = "free", j.dying = job[x].dying,
         NEW S, Soft(S), \A g \in Threads : g # h => S[g] = thr[g], S[h].waiting = thr[h].waiting, GrowsIn(S, h),
         thr' = DecThread(S, h), prc' = Dropped(prc, thr', h, q), Clears(z), calls' = calls, faults' = faults
  PROVE  /\ Base' /\ LifeStep /\ Types' /\ JobsOk' /\ z \in Active(txn, a) /\ Leaf(z, Active(txn, a), txn) /\ ~thr[h].waiting
         /\ \A g \in Threads : /\ thr'[g].dead = thr[g].dead /\ thr'[g].todo = S[g].todo
                               /\ (~thr[g].dead => thr'[g].stack = S[g].stack)
         /\ \A p \in Procs : SameWork(prc'[p], prc[p])
<1>1. /\ Base /\ Types /\ JobsOk /\ Counted /\ Lives /\ PoolBound /\ PlaceType(a, o, r) /\ Ends(a, o, Active(txn, a)) /\ Fits(a, o, r, z)
  BY CoreIs
<1>2. txn[z].kind = "call"
  <2>1. txn[z] \in TxnType /\ h # None
    BY <1>1, Marks DEF Types
  <2> QED BY <1>1, <2>1 DEF Fits, TxnType
<1>3. z \in Active(txn, a)
  BY <1>2 DEF Active
<1>4. Leaf(z, Active(txn, a), txn)
  BY <1>1, <1>3 DEF Ends
<1>5. thr[h].stack = z
  BY <1>3, <1>4, OnTopIs
<1>6. ~thr[h].waiting
  BY <1>1, <1>5, Marks DEF Lives
<1>7. SoftProc(prc) /\ Owns(x, h, q)
  BY <1>1 DEF SoftProc, Types, Owns, Gives
<1>8. /\ thr' \in [Threads -> ThreadType]
      /\ \A g \in Threads : /\ thr'[g].dead = thr[g].dead /\ thr'[g].todo = S[g].todo
                            /\ ~thr[g].dead => SameRun(thr'[g], S[g])
                            /\ thr'[g].waiting => SameRun(thr'[g], S[g])
      /\ prc' \in [Procs -> ProcType] /\ \A p \in Procs : SameWork(prc'[p], prc[p])
  BY ONLY <1>1, <1>7, thr' = DecThread(S, h), h \in Threads, q \in Procs \cup {None}, x \in Tasks, Soft(S), prc' = Dropped(prc, thr', h, q), DropIs
<1>9. Types' /\ job' = [job EXCEPT ![x] = j]
  <2>1. txn' \in [Txns -> TxnType]
    BY <1>1 DEF Types, TxnType, Clears
  <2> QED BY <1>1, <1>8, <2>1 DEF Types, Become
<1>10. Follows(S) /\ Agree(thr', prc')
  BY <1>8 DEF Follows, SameRun, Agree
<1>11. ProcsStep
  BY <1>1, <1>8 DEF ProcsStep, SameWork, PoolBound
<1>12. RunsIn(S, x, j)
  <2>1. ASSUME NEW g \in Threads, g # h
        PROVE  /\ S[g].waiting => thr[g].waiting /\ S[g].stack = thr[g].stack /\ S[g].todo = thr[g].todo
               /\ ~thr[g].dead => GrowsIn(S, g) \/ (g = x /\ S[g].process_todo)
               /\ thr[g].dead /\ Len(S[g].todo) > 0 => Len(thr[g].todo) > 0 /\ (job[x].dying = g => j.dying = g)
    BY <2>1 DEF GrowsIn
  <2> QED BY <1>6, <2>1 DEF RunsIn
<1>13. Base' /\ LifeStep
  <2>1. j.pc \notin {"queue", "rsend"} /\ h \in Threads \cup {None}
    OBVIOUS
  <2> QED BY ONLY <1>1, <1>7, <1>9, <1>10, <1>11, <1>12, <2>1, thr' = DecThread(S, h), q \in Procs \cup {None}, x \in Tasks, Soft(S),
             prc' = Dropped(prc, thr', h, q), Gives(x, j, h, q), j \in JobType, Carries(j), x \in Threads => ForThread(x, j),
             x = Worker => ForWorker(j) /\ j.proc = job[x].proc, DropStep
<1> QED BY <1>3, <1>4, <1>6, <1>8, <1>9, <1>13 DEF Base, SameRun

\* The transactions after that, and the next turns.
LEMMA AnsweredLinks ==
  ASSUME NEW a, NEW o, NEW r, NEW c, NEW d, Core(a, o, r, c, d), NEW x \in Tasks, NEW z \in Txns, a[z] = "job", o[z] = x,
         NEW h \in Threads, h = txn[z].from, ~thr[h].dead, NEW j \in JobType, Become(x, j), job[x].pc # "walk",
         j.pc = "free", j.t = z, j.re = None, j.dying = job[x].dying, x = Worker => j.proc = job[x].proc,
         Clears(z), Types', JobsOk', z \in Active(txn, a), Leaf(z, Active(txn, a), txn),
         \A g \in Threads : /\ thr'[g].dead = thr[g].dead /\ (~thr[g].dead /\ g # h => thr'[g].stack = thr[g].stack)
                            /\ First(thr[g].todo, thr'[g].todo),
         thr'[h].stack = txn[z].from_parent,
         NEW s, NEW a2, NEW o2, PlaceType(a2, o2, r), a2[z] = "done", o2[z] = x,
         \A w \in Txns : w # z => Placing(w, x, s, a, o, r, a2, o2, r) /\ Aside(w, a, o, r, a2, o2) /\ ~(a2[w] \in Taken /\ o2[w] = x),
         ListsGo(s, a, o, a2, o2)
  PROVE  GhostType(a2, o2, r, c, d) /\ Placed(a2, o2, r)' /\ Linked(a2, o2, r, c, d)'
<1>1. /\ Types /\ PlaceType(a, o, r) /\ Held(a, o) /\ Fits(a, o, r, z) /\ c \in [Txns -> Txns] /\ d \in [Txns -> Nat]
  BY CoreIs
<1>2. /\ job'[x] = j /\ (\A y \in Tasks : y # x => job'[y] = job[y])
      /\ txn'[z] = [txn[z] EXCEPT !.from = None] /\ \A w \in Txns : w # z => txn'[w] = txn[w]
  BY <1>1 DEF Types, Become, Clears
<1>3. \A y \in Tasks : y # x => Holds(a, o, y, job[y])
  BY <1>1 DEF Held
<1>4. /\ txn'[z].from = None /\ txn'[z].kind = txn[z].kind /\ txn'[z].to_proc = txn[z].to_proc /\ txn'[z].to_thread = txn[z].to_thread
      /\ txn'[z].from_parent = txn[z].from_parent /\ txn'[z].to_parent = txn[z].to_parent /\ txn[z].kind = "call"
  <2>1. txn[z] \in TxnType
    BY <1>1 DEF Types
  <2> QED BY <1>2, <2>1 DEF Active, TxnType
<1>5. Fits(a2, o2, r, z)'
  <2>1. Home(x)' = Home(x) /\ job'[x].dying = job[x].dying
    BY <1>2 DEF Home
  <2>2. \A g \in Threads : thr[g].dead => thr'[g].dead
    OBVIOUS
  <2>3. r[z] \in Threads \cup {None}
    BY <1>1 DEF PlaceType
  <2> QED BY <1>1, <1>4, <2>1, <2>2, <2>3 DEF Fits
<1>6. \A y \in Tasks : y # x /\ job[y].pc = "walk" => job[y].re # z
  <2>1. z # None
    BY Marks
  <2> QED BY <1>3, <2>1 DEF Holds
<1>7. Placed(a2, o2, r)'
  <2>1. ASSUME NEW w \in Txns PROVE Placing(w, x, s, a, o, r, a2, o2, r)
    <3>1. CASE w = z
      BY <1>5, <1>6, <3>1 DEF Placing, Handed, Taken
    <3> QED BY <3>1
  <2>2. HasNow(x, a2, o2, r)
    <3>1. Holds(a2, o2, x, job'[x])
      BY <1>2, Marks DEF Holds
    <3>2. ASSUME NEW w \in Txns, a2[w] \in Taken, o2[w] = x PROVE With(w, job'[x]) /\ Fits(a2, o2, r, w)'
      <4>1. w = z
        BY <3>2
      <4> QED BY <1>2, <1>5, <4>1 DEF With
    <3> QED BY <3>1, <3>2 DEF HasNow
  <2>4. \A g \in Threads : thr[g].dead => thr'[g].dead
    OBVIOUS
  <2> QED BY ONLY <1>2, <2>1, <2>2, <2>4, Core(a, o, r, c, d), Types', x \in Tasks, ListsGo(s, a, o, a2, o2), PlacedStep
<1>8. Linked(a2, o2, r, c, d)'
  <2>1. Ended(z, h, a, r, a2)
    BY <1>4 DEF Ended
  <2>2. /\ \A w \in Txns : w # z => Aside(w, a, o, r, a2, o2)
        /\ \A g \in Threads : thr'[g].dead = thr[g].dead /\ (~thr[g].dead /\ g # h => thr'[g].stack = thr[g].stack)
        /\ \A g \in Threads : First(thr[g].todo, thr'[g].todo)
    OBVIOUS
  <2>4. \A y \in Threads : y # x /\ job[y].pc \in {"built", "deliver"} => job[y].t # z
    <3>1. SUFFICES ASSUME NEW y \in Threads, y # x, job[y].pc \in {"built", "deliver"}, job[y].t = z PROVE FALSE
      OBVIOUS
    <3>2. Holds(a, o, y, job[y])
      BY <1>3, <3>1, Marks
    <3> QED BY <3>1, <3>2, Marks DEF Holds
  <2>5. job'[x].pc \notin {"built", "deliver", "walk"}
    BY <1>2
  <2> QED BY ONLY <1>2, <2>1, <2>2, <2>4, <2>5, Core(a, o, r, c, d), PlaceType(a2, o2, r), x \in Tasks, Types', JobsOk', job[x].pc # "walk",
             h \in Threads, ~thr[h].dead, z \in Active(txn, a), Leaf(z, Active(txn, a), txn), thr'[h].stack = txn[z].from_parent, EndedLinks
<1> QED BY <1>1, <1>7, <1>8 DEF GhostType

\* A caller that lives gets the error of a failed reply.
LEMMA FailReplyStep ==
  ASSUME TxnInv, NEW x \in Tasks, Fail2(x), txn[job[x].t].from # None
  PROVE  TxnInv'
<1>0. PICK a, o, r, c, d : Core(a, o, r, c, d)
  BY DEF TxnInv
<1>p. PICK z, h : z = job[x].t /\ h = job[x].target
  OBVIOUS
<1>g. PICK a2 : a2 = Put(a, z, "done")
  OBVIOUS
<1>1. /\ Types /\ Carries(job[x]) /\ job[x] \in JobType /\ PlaceType(a, o, r) /\ Turns(a) /\ Holds(a, o, x, job[x])
      /\ (\A w \in Txns : Fits(a, o, r, w)) /\ (\A w \in Txns : a[w] \in Taken /\ o[w] = x => With(w, job[x]))
      /\ (x \in Threads => ForThread(x, job[x]) /\ x # Worker) /\ (x = Worker /\ job[x].pc # "idle" => ForWorker(job[x]))
  BY <1>0, CoreIs, TaskHolds
<1>2. /\ job[x].pc = "fail2" /\ Inner(ProcOf[h]) /\ faults' = faults /\ calls' = calls /\ Clears(z)
      /\ thr' = DecThread(ReplyError(PopStack(thr, h, z), h), h) /\ prc' = DecThreadProc(prc, thr', h)
      /\ Become(x, [job[x] EXCEPT !.pc = "free", !.target = None])
  BY <1>p DEF Fail2, Clears
<1>3. /\ z \in Txns /\ z # None /\ a[z] = "job" /\ o[z] = x /\ job[x].re = None /\ h \in Threads /\ h = txn[z].from
  <2>1. z \in Txns /\ z # None /\ job[x].re = None /\ h \in Threads
    BY <1>1, <1>2, <1>p, Marks DEF Carries, JobType, Parents
  <2>2. a[z] = "job" /\ o[z] = x
    BY <1>1, <1>2, <1>p, <2>1 DEF Holds
  <2> QED BY <1>1, <1>2, <1>p, <2>1, <2>2 DEF Fits
<1>4. ~thr[h].dead
  <2>1. txn[z].kind = "call"
    <3>1. txn[z] \in TxnType /\ Fits(a, o, r, z) /\ h # None
      BY <1>1, <1>3, Marks DEF Types
    <3> QED BY <1>3, <3>1 DEF Fits, TxnType
  <2>2. z \in Active(txn, a)
    BY <1>3, <2>1 DEF Active
  <2> QED BY ONLY <1>0, <1>2, <1>3, <2>2, SenderLives
<1>5. PICK j : j = [job[x] EXCEPT !.pc = "free", !.target = None]
  OBVIOUS
<1>6. /\ j \in JobType /\ j.pc = "free" /\ j.t = z /\ j.re = None /\ j.target = None /\ j.proc = job[x].proc /\ j.dying = job[x].dying
      /\ j.next = job[x].next
  BY <1>1, <1>3, <1>5, <1>p DEF JobType
<1>7. Carries(j) /\ (x \in Threads => ForThread(x, j)) /\ (x = Worker => ForWorker(j) /\ j.proc = job[x].proc)
  <2>1. Carries(j)
    BY <1>1, <1>2, <1>3, <1>6 DEF Carries
  <2>2. ASSUME x \in Threads PROVE ForThread(x, j)
    BY <1>1, <1>2, <1>6, <2>2 DEF ForThread
  <2>3. ASSUME x = Worker PROVE ForWorker(j)
    <3>1. ForWorker(job[x])
      BY <1>1, <1>2, <2>3
    <3> QED BY <1>2, <1>6, <3>1 DEF ForWorker
  <2> QED BY <1>6, <2>1, <2>2, <2>3
<1>8. PICK T, S : T = PopStack(thr, h, z) /\ S = ReplyError(T, h)
  OBVIOUS
<1>9. /\ Soft(S) /\ (\A g \in Threads : g # h => S[g] = thr[g]) /\ S[h].waiting = thr[h].waiting
      /\ S[h].stack = txn[z].from_parent /\ GrowsIn(S, h) /\ (S[h].todo = thr[h].todo \/ S[h].todo = Append(thr[h].todo, "reply_error"))
  <2>1. thr \in [Threads -> ThreadType] /\ txn[z].from_parent \in Parents /\ T = SetStack(thr, h, txn[z].from_parent)
    BY <1>1, <1>3, <1>8 DEF Types, TxnType, PopStack, SetStack
  <2>2. /\ T \in [Threads -> ThreadType] /\ (\A g \in Threads : g # h => T[g] = thr[g])
        /\ SameLife(T[h], thr[h]) /\ SameFlags(T[h], thr[h]) /\ T[h].todo = thr[h].todo
        /\ T[h].process_todo = thr[h].process_todo /\ T[h].stack = txn[z].from_parent
    BY <1>3, <2>1, FieldIs
  <2>3. /\ S \in [Threads -> ThreadType] /\ (\A g \in Threads : g # h => S[g] = T[g])
        /\ SameLife(S[h], T[h]) /\ S[h].stack = T[h].stack /\ S[h].waiting = T[h].waiting
        /\ \/ S[h].todo = T[h].todo /\ S[h].process_todo = T[h].process_todo
           \/ S[h].todo = Append(T[h].todo, "reply_error") /\ S[h].process_todo
    <3>1. T \in [Threads -> ThreadType] /\ h \in Threads /\ S = ReplyError(T, h)
      BY <1>3, <1>8, <2>2
    <3> QED BY ONLY <3>1, ReplyErrorIs
  <2>4. Soft(S) /\ (\A g \in Threads : g # h => S[g] = thr[g]) /\ S[h].waiting = thr[h].waiting /\ S[h].stack = txn[z].from_parent
    BY <2>2, <2>3 DEF Soft, SameLife, SameFlags
  <2>5. GrowsIn(S, h)
    BY <2>2, <2>3 DEF GrowsIn, Words
  <2> QED BY <2>2, <2>3, <2>4, <2>5
<1>10. thr' = DecThread(S, h) /\ prc' = Dropped(prc, thr', h, None) /\ Become(x, j) /\ Gives(x, j, h, None)
  BY <1>2, <1>5, <1>6, <1>8, <1>p DEF Dropped, Gives
<1>11. /\ Base' /\ LifeStep /\ Types' /\ JobsOk' /\ z \in Active(txn, a) /\ Leaf(z, Active(txn, a), txn) /\ ~thr[h].waiting
       /\ \A g \in Threads : /\ thr'[g].dead = thr[g].dead /\ thr'[g].todo = S[g].todo
                             /\ (~thr[g].dead => thr'[g].stack = S[g].stack)
       /\ \A p \in Procs : SameWork(prc'[p], prc[p])
  <2>1. None \in Procs \cup {None}
    OBVIOUS
  <2>2. z \in Txns /\ a[z] = "job" /\ o[z] = x /\ h \in Threads /\ h = txn[z].from
    BY <1>3
  <2>3. Clears(z) /\ calls' = calls /\ faults' = faults
    BY <1>2
  <2>4. j \in JobType /\ j.pc = "free" /\ j.dying = job[x].dying
    BY <1>6
  <2>5. Soft(S) /\ (\A g \in Threads : g # h => S[g] = thr[g]) /\ S[h].waiting = thr[h].waiting /\ GrowsIn(S, h)
    BY <1>9
  <2> QED BY ONLY <1>0, <1>4, <1>7, <1>10, <2>1, <2>2, <2>3, <2>4, <2>5, x \in Tasks, AnsweredBase
<1>12. PlaceType(a2, o, r) /\ a2[z] = "done" /\ \A w \in Txns : w # z => a2[w] = a[w]
  BY <1>1, <1>3, <1>g DEF PlaceType, Places, Put
<1>13. \A g \in Threads : Kept(thr[g].todo, thr'[g].todo)
  <2>1. ASSUME NEW g \in Threads PROVE Kept(thr[g].todo, thr'[g].todo)
    <3>1. thr[g].todo \in Seq(Txns \cup Words) /\ "reply_error" \in Words
      BY <1>1 DEF Types, ThreadType, Words
    <3>2. thr'[g].todo = thr[g].todo \/ thr'[g].todo = Append(thr[g].todo, "reply_error")
      BY <1>9, <1>11
    <3> QED BY <3>1, <3>2, KeptSame, KeptAppend
  <2> QED BY <2>1
<1>14. ListsStay
  BY <1>11, <1>13 DEF ListsStay, SameWork
<1>15. GhostType(a2, o, r, c, d) /\ Placed(a2, o, r)' /\ Linked(a2, o, r, c, d)'
  <2>1. \A g \in Threads : /\ thr'[g].dead = thr[g].dead /\ (~thr[g].dead /\ g # h => thr'[g].stack = thr[g].stack)
                           /\ First(thr[g].todo, thr'[g].todo)
    BY <1>9, <1>11, <1>14, KeptFirst
  <2>2. thr'[h].stack = txn[z].from_parent
    BY <1>3, <1>4, <1>9, <1>11
  <2>3. \A w \in Txns : w # z => txn'[w] = txn[w]
    BY <1>1, <1>2 DEF Types, Clears
  <2>4. \A w \in Txns : w # z => Placing(w, x, None, a, o, r, a2, o, r) /\ Aside(w, a, o, r, a2, o) /\ ~(a2[w] \in Taken /\ o[w] = x)
    <3>1. \A w \in Txns : w # z => ~(a[w] \in Taken /\ o[w] = x)
      BY <1>1, <1>3, <1>p, Marks DEF With
    <3> QED BY <1>12, <2>3, <3>1 DEF Placing, Aside
  <2>5. ListsGo(None, a, o, a2, o)
    BY <1>14, ListsGoNone
  <2>6. job[x].pc # "walk" /\ o[z] = x /\ (x = Worker => j.proc = job[x].proc)
    BY <1>2, <1>3, <1>6
  <2> QED BY ONLY <1>0, <1>2, <1>3, <1>4, <1>6, <1>10, <1>11, <1>12, <2>1, <2>2, <2>4, <2>5, <2>6, x \in Tasks, AnsweredLinks
<1>16. Turns(a2)'
  <2>1. \A p \in Procs : Turn(p, a2)' = Turn(p, a)
    <3>1. \A p \in Procs : z \notin Turn(p, a) /\ z \notin Turn(p, a2)'
      BY <1>3, <1>12 DEF Turn
    <3>2. \A w \in Txns : w # z => txn'[w] = txn[w]
      BY <1>1, <1>2 DEF Types, Clears
    <3>3. \A p \in Procs, w \in Txns : w # z => (w \in Turn(p, a2)' <=> w \in Turn(p, a))
      BY <1>12, <3>2 DEF Turn
    <3> QED BY <3>1, <3>3 DEF Turn
  <2>2. \A p \in Procs : prc'[p].life = "open" => prc[p].life = "open" /\ SameWork(prc'[p], prc[p])
    BY <1>11 DEF LifeStep
  <2> QED BY <1>1, <2>1, <2>2, TurnsHand
<1> QED BY <1>11, <1>15, <1>16, CoreStep

\* The reply goes to the caller, and the call is answered.
LEMMA ReplySendStep ==
  ASSUME TxnInv, NEW x \in Threads, ReplySend(x)
  PROVE  TxnInv'
<1>0. PICK a, o, r, c, d : Core(a, o, r, c, d)
  BY DEF TxnInv
<1>p. PICK z, h, t, q : z = job[x].re /\ h = job[x].target /\ t = job[x].t /\ q = job[x].proc
  OBVIOUS
<1>g. PICK a2, o2 : a2 = Put(Put(a, z, "done"), t, "todo") /\ o2 = Put(o, t, h)
  OBVIOUS
<1>1. /\ Types /\ Carries(job[x]) /\ job[x] \in JobType /\ PlaceType(a, o, r) /\ Turns(a) /\ Holds(a, o, x, job[x]) /\ Listed(a, o)
      /\ (\A w \in Txns : Fits(a, o, r, w)) /\ (\A w \in Txns : a[w] \in Taken /\ o[w] = x => With(w, job[x]))
      /\ ForThread(x, job[x]) /\ x # Worker /\ x \in Tasks
  BY <1>0, CoreIs, TaskHolds, Marks
<1>2. /\ job[x].pc = "rsend" /\ ~thr[h].dead /\ faults' = faults /\ calls' = calls /\ Clears(z)
      /\ thr' = DecThread(Enqueue(PopStack(thr, h, z), h, t), h) /\ prc' = DecProc(DecThreadProc(prc, thr', h), thr', q)
      /\ Become(x, [Idle EXCEPT !.pc = "free", !.t = z])
  BY <1>p DEF ReplySend, Clears
<1>3. /\ z \in Txns /\ z # None /\ a[z] = "job" /\ o[z] = x /\ h \in Threads /\ h = txn[z].from /\ t \in Txns /\ t # z
      /\ a[t] = "built" /\ o[t] = x /\ q \in Procs /\ q # None /\ txn[t].kind = "reply" /\ r[t] = None /\ txn[t].to_thread = h /\ txn[t].to_proc = q
      /\ txn[t].from = None /\ q = ProcOf[h] /\ job[x].dying = None
  <2>1. /\ z \in Txns /\ z # None /\ h \in Threads /\ t \in Txns /\ t # None /\ q = ProcOf[h]
    BY <1>1, <1>2, <1>p, Marks DEF Carries, JobType, Parents
  <2>2. q \in Procs /\ q # None
    BY <2>1, Marks
  <2>3. a[z] = "job" /\ o[z] = x /\ a[t] = "built" /\ o[t] = x
    BY <1>1, <1>2, <1>p, <2>1 DEF Holds
  <2>4. h = txn[z].from
    <3>1. Fits(a, o, r, z)
      BY <1>1, <2>1
    <3> QED BY <1>2, <1>p, <2>1, <2>3, <3>1 DEF Fits
  <2>5. txn[t].kind = "reply" /\ r[t] = None /\ txn[t].to_thread = h /\ txn[t].to_proc = q /\ txn[t].from = None
    <3>1. Fits(a, o, r, t)
      BY <1>1, <2>1
    <3> QED BY <1>2, <1>p, <2>1, <2>3, <3>1 DEF Fits
  <2>6. job[x].dying = None
    BY <1>1, <1>2 DEF Carries
  <2> QED BY <2>1, <2>2, <2>3, <2>4, <2>5, <2>6
<1>5. PICK j : j = [Idle EXCEPT !.pc = "free", !.t = z]
  OBVIOUS
<1>6. /\ j \in JobType /\ j.pc = "free" /\ j.t = z /\ j.re = None /\ j.target = None /\ j.proc = None /\ j.dying = None
      /\ j.next = "idle"
  BY <1>3, <1>5 DEF JobType, Idle, Parents
<1>7. Carries(j) /\ ForThread(x, j)
  <2>1. Carries(j)
    BY <1>3, <1>6 DEF Carries
  <2>2. ForThread(x, j)
    <3>1. ForThread(x, job[x]) /\ x # None
      BY <1>1, Marks
    <3> QED BY <1>2, <1>3, <1>6, <3>1 DEF ForThread
  <2> QED BY <2>1, <2>2
<1>8. PICK T, S : T = PopStack(thr, h, z) /\ S = Enqueue(T, h, t)
  OBVIOUS
<1>9. /\ Soft(S) /\ (\A g \in Threads : g # h => S[g] = thr[g]) /\ S[h].waiting = thr[h].waiting
      /\ S[h].stack = txn[z].from_parent /\ GrowsIn(S, h) /\ S[h].todo = Append(thr[h].todo, t)
  <2>1. thr \in [Threads -> ThreadType] /\ txn[z].from_parent \in Parents /\ T = SetStack(thr, h, txn[z].from_parent)
    BY <1>1, <1>3, <1>8 DEF Types, TxnType, PopStack, SetStack
  <2>2. /\ T \in [Threads -> ThreadType] /\ (\A g \in Threads : g # h => T[g] = thr[g])
        /\ SameLife(T[h], thr[h]) /\ SameFlags(T[h], thr[h]) /\ T[h].todo = thr[h].todo
        /\ T[h].process_todo = thr[h].process_todo /\ T[h].stack = txn[z].from_parent
    BY <1>3, <2>1, FieldIs
  <2>3. /\ S \in [Threads -> ThreadType] /\ (\A g \in Threads : g # h => S[g] = T[g])
        /\ SameLife(S[h], T[h]) /\ SameFlags(S[h], T[h]) /\ S[h].stack = T[h].stack
        /\ S[h].todo = Append(T[h].todo, t) /\ S[h].process_todo
    <3>1. t \in Txns \cup Words /\ S = Enqueue(T, h, t) /\ T \in [Threads -> ThreadType] /\ h \in Threads
      BY <1>3, <1>8, <2>2
    <3> QED BY ONLY <3>1, EnqueueIs
  <2>4. Soft(S) /\ (\A g \in Threads : g # h => S[g] = thr[g]) /\ S[h].waiting = thr[h].waiting /\ S[h].stack = txn[z].from_parent
    BY <2>2, <2>3 DEF Soft, SameLife, SameFlags
  <2>5. GrowsIn(S, h)
    BY <1>3, <2>2, <2>3 DEF GrowsIn
  <2> QED BY <2>2, <2>3, <2>4, <2>5
<1>10. thr' = DecThread(S, h) /\ prc' = Dropped(prc, thr', h, q) /\ Become(x, j) /\ Gives(x, j, h, q) /\ j.dying = job[x].dying
  BY <1>2, <1>3, <1>5, <1>6, <1>8, <1>p DEF Dropped, Gives
<1>11. /\ Base' /\ LifeStep /\ Types' /\ JobsOk' /\ z \in Active(txn, a) /\ Leaf(z, Active(txn, a), txn) /\ ~thr[h].waiting
       /\ \A g \in Threads : /\ thr'[g].dead = thr[g].dead /\ thr'[g].todo = S[g].todo
                             /\ (~thr[g].dead => thr'[g].stack = S[g].stack)
       /\ \A p \in Procs : SameWork(prc'[p], prc[p])
  <2>1. q \in Procs \cup {None} /\ (x = Worker => ForWorker(j) /\ j.proc = job[x].proc) /\ (x \in Threads => ForThread(x, j))
    BY <1>1, <1>3, <1>7
  <2>2. z \in Txns /\ a[z] = "job" /\ o[z] = x /\ h \in Threads /\ h = txn[z].from /\ ~thr[h].dead /\ x \in Tasks
    BY <1>1, <1>2, <1>3
  <2>3. Clears(z) /\ calls' = calls /\ faults' = faults
    BY <1>2
  <2>4. j \in JobType /\ j.pc = "free" /\ j.dying = job[x].dying
    BY <1>6, <1>10
  <2>5. Soft(S) /\ (\A g \in Threads : g # h => S[g] = thr[g]) /\ S[h].waiting = thr[h].waiting /\ GrowsIn(S, h)
    BY <1>9
  <2> QED BY ONLY <1>0, <1>7, <1>10, <2>1, <2>2, <2>3, <2>4, <2>5, AnsweredBase
<1>12. /\ PlaceType(a2, o2, r) /\ a2[z] = "done" /\ o2[z] = x /\ a2[t] = "todo" /\ o2[t] = h
       /\ \A w \in Txns : w # z /\ w # t => a2[w] = a[w] /\ o2[w] = o[w]
  <2>1. h \in Owners
    BY <1>3, Marks DEF Owners
  <2> QED BY <1>1, <1>3, <1>g, <2>1 DEF PlaceType, Places, Put
<1>13. \A w \in Txns : w # z => txn'[w] = txn[w]
  BY <1>1, <1>2 DEF Types, Clears
<1>14. ListsGo(t, a, o, a2, o2)
  <2>1. ASSUME NEW g \in Threads PROVE Goes(thr[g].todo, thr'[g].todo, "todo", g, t, a, o, a2, o2)
    <3>1. CASE g = h
      BY <1>3, <1>9, <1>11, <1>12, <3>1 DEF Goes
    <3>2. CASE g # h
      <4>1. thr'[g].todo = thr[g].todo
        BY <1>9, <1>11, <3>2
      <4> QED BY <1>3, <1>12, <3>2, <4>1 DEF Goes, Stay
    <3> QED BY <3>1, <3>2
  <2>2. ASSUME NEW p \in Procs PROVE /\ Goes(prc[p].todo, prc'[p].todo, "ptodo", p, t, a, o, a2, o2)
                                     /\ Goes(prc[p].async_todo, prc'[p].async_todo, "async", p, t, a, o, a2, o2)
    <3>1. prc'[p].todo = prc[p].todo /\ prc'[p].async_todo = prc[p].async_todo
      BY <1>11 DEF SameWork
    <3> QED BY <1>3, <1>12, <3>1 DEF Goes, Stay
  <2> QED BY <2>1, <2>2 DEF ListsGo
<1>15. GhostType(a2, o2, r, c, d) /\ Placed(a2, o2, r)' /\ Linked(a2, o2, r, c, d)'
  <2>1. \A g \in Threads : /\ thr'[g].dead = thr[g].dead /\ (~thr[g].dead /\ g # h => thr'[g].stack = thr[g].stack)
                           /\ First(thr[g].todo, thr'[g].todo)
    <3>1. ASSUME NEW g \in Threads PROVE First(thr[g].todo, thr'[g].todo)
      <4>1. thr[g].todo \in Seq(Txns \cup Words) /\ t \in Txns \cup Words
        BY <1>1, <1>3 DEF Types, ThreadType
      <4>2. CASE g = h
        <5>1. thr'[g].todo = Append(thr[g].todo, t)
          BY <1>9, <1>11, <4>2
        <5> QED BY <4>1, <5>1, HeadKept DEF First
      <4>3. CASE g # h
        BY <1>9, <1>11, <4>3 DEF First
      <4> QED BY <4>2, <4>3
    <3> QED BY <1>9, <1>11, <3>1
  <2>2. thr'[h].stack = txn[z].from_parent
    BY <1>2, <1>3, <1>9, <1>11
  <2>3. Fits(a2, o2, r, t)'
    <3>1. txn'[t] = txn[t] /\ Fits(a, o, r, t) /\ h # None
      BY <1>1, <1>3, <1>13, Marks
    <3> QED BY <1>3, <1>12, <3>1 DEF Fits
  <2>4. \A w \in Txns : w # z => Placing(w, x, t, a, o, r, a2, o2, r) /\ Aside(w, a, o, r, a2, o2) /\ ~(a2[w] \in Taken /\ o2[w] = x)
    <3>1. \A w \in Txns : w # z /\ w # t => ~(a[w] \in Taken /\ o[w] = x)
      BY <1>1, <1>3, <1>p, Marks DEF With
    <3>2. \A w \in Txns : w # z /\ w # t => Placing(w, x, t, a, o, r, a2, o2, r) /\ Aside(w, a, o, r, a2, o2) /\ ~(a2[w] \in Taken /\ o2[w] = x)
      BY <1>12, <1>13, <3>1 DEF Placing, Aside
    <3>3. \A y \in Tasks : y # x /\ job[y].pc = "walk" => job[y].re # t
      <4>1. \A y \in Tasks : Holds(a, o, y, job[y])
        BY <1>0, TaskHolds
      <4> QED BY <1>3, <4>1, Marks DEF Holds
    <3>4. Placing(t, x, t, a, o, r, a2, o2, r) /\ ~(a2[t] \in Taken /\ o2[t] = x)
      BY <1>3, <1>12, <2>3, <3>3 DEF Placing, Handed, Taken
    <3>5. Aside(t, a, o, r, a2, o2)
      BY <1>3, <1>13 DEF Aside
    <3> QED BY <3>2, <3>4, <3>5
  <2>6. job[x].pc # "walk" /\ (x = Worker => j.proc = job[x].proc)
    BY <1>1, <1>2
  <2>7. z \in Txns /\ a[z] = "job" /\ o[z] = x /\ h \in Threads /\ h = txn[z].from /\ ~thr[h].dead /\ x \in Tasks /\ Clears(z)
    BY <1>1, <1>2, <1>3
  <2>8. Types' /\ JobsOk' /\ z \in Active(txn, a) /\ Leaf(z, Active(txn, a), txn)
    BY <1>11
  <2>9. j \in JobType /\ j.pc = "free" /\ j.t = z /\ j.re = None /\ j.dying = job[x].dying /\ Become(x, j)
    BY <1>6, <1>10
  <2> QED BY ONLY <1>0, <1>12, <1>14, <2>1, <2>2, <2>4, <2>6, <2>7, <2>8, <2>9, AnsweredLinks
<1>16. Turns(a2)'
  <2>1. \A p \in Procs : Turn(p, a2)' = Turn(p, a)
    <3>1. \A p \in Procs : z \notin Turn(p, a) /\ z \notin Turn(p, a2)'
      BY <1>3, <1>12 DEF Turn
    <3>2. \A p \in Procs : t \notin Turn(p, a) /\ t \notin Turn(p, a2)'
      BY <1>3, <1>13 DEF Turn
    <3>3. \A p \in Procs, w \in Txns : w # z /\ w # t => (w \in Turn(p, a2)' <=> w \in Turn(p, a))
      BY <1>12, <1>13 DEF Turn
    <3> QED BY <3>1, <3>2, <3>3 DEF Turn
  <2>2. \A p \in Procs : prc'[p].life = "open" => prc[p].life = "open" /\ SameWork(prc'[p], prc[p])
    BY <1>11 DEF LifeStep
  <2> QED BY <1>1, <2>1, <2>2, TurnsHand
<1> QED BY <1>11, <1>15, <1>16, CoreStep

\* A call without a caller is freed, and the one behind it fails.
LEMMA FailFreeStep ==
  ASSUME TxnInv, NEW x \in Tasks, Fail1(x), txn[job[x].t].from = None
  PROVE  TxnInv'
<1>0. PICK a, o, r, c, d : Core(a, o, r, c, d)
  BY DEF TxnInv
<1>p. PICK t, u : t = job[x].t /\ u = txn[t].from_parent
  OBVIOUS
<1>A. PICK A : A = Active(txn, a)
  OBVIOUS
<1>1. /\ Types /\ Carries(job[x]) /\ job[x] \in JobType /\ PlaceType(a, o, r) /\ Turns(a) /\ Holds(a, o, x, job[x])
      /\ (\A w \in Txns : Fits(a, o, r, w)) /\ (\A w \in Txns : a[w] \in Taken /\ o[w] = x => With(w, job[x]))
      /\ (x \in Threads => ForThread(x, job[x]) /\ x # Worker) /\ (x = Worker /\ job[x].pc # "idle" => ForWorker(job[x]))
      /\ c \in [Txns -> Txns] /\ d \in [Txns -> Nat]
  BY <1>0, CoreIs, TaskHolds
<1>h. \A y \in Tasks : Holds(a, o, y, job[y])
  BY <1>0, TaskHolds
<1>a. Chained(A, txn, c, d) /\ Ends(a, o, A)
  BY <1>0, <1>A, CoreIs
<1>2. /\ job[x].pc = "fail1" /\ MayFree(t) /\ faults' = faults /\ calls' = calls /\ Frees(t) /\ thr' = thr /\ prc' = prc
      /\ Become(x, [job[x] EXCEPT !.pc = IF u = None THEN job[x].next ELSE @, !.t = u])
  BY <1>p DEF Fail1, Frees
<1>3. /\ t \in Txns /\ t # None /\ a[t] = "job" /\ o[t] = x /\ job[x].re = None /\ txn[t].from = None /\ txn[t] \in TxnType /\ u \in Parents
      /\ job[x].target = None
  <2>1. t \in Txns /\ t # None /\ job[x].re = None /\ job[x].target = None
    BY <1>1, <1>2, <1>p, Marks DEF Carries, JobType, Parents
  <2>2. a[t] = "job" /\ o[t] = x
    BY <1>1, <1>2, <1>p, <2>1 DEF Holds
  <2>3. txn[t] \in TxnType
    BY <1>1, <2>1 DEF Types
  <2> QED BY <1>p, <2>1, <2>2, <2>3 DEF TxnType
<1>4. txn[t].kind = "call" /\ r[t] = None
  <2>1. txn[t].kind = "call"
    BY <1>1, <1>3 DEF Fits, TxnType
  <2>2. a[t] \in {"job", "done"}
    BY <1>3
  <2>3. r[t] = None
    BY ONLY <1>0, <1>2, <1>3, <2>2, NotOnStack
  <2> QED BY <2>1, <2>3
<1>5. t \in A /\ A \subseteq Txns /\ (\A w \in A : txn[w].kind = "call" /\ a[w] \notin {"none", "built", "done"})
      /\ \A w \in Txns : w \in A <=> txn[w].kind = "call" /\ a[w] \notin {"none", "built", "done"}
  BY <1>3, <1>4, <1>A DEF Active
<1>6. Leaf(t, A, txn)
  BY <1>3, <1>5, <1>a DEF Ends
<1>7. u # None => u \in A /\ u # t /\ \A w \in A : txn[w].from_parent = u => w = t
  <2>1. ASSUME u # None PROVE u \in A /\ c[u] = c[t] /\ d[t] = d[u] + 1
    BY <1>5, <1>a, <1>p, <2>1 DEF Chained
  <2>2. ASSUME u # None PROVE u # t
    BY <1>6, <1>5, <1>p, <2>2 DEF Leaf
  <2>3. ASSUME u # None, NEW w \in A, txn[w].from_parent = u PROVE w = t
    <3>1. c[u] = c[w] /\ d[w] = d[u] + 1
      BY <1>a, <2>3 DEF Chained
    <3> QED BY <1>a, <1>5, <2>1, <2>3, <3>1 DEF Chained
  <2> QED BY <2>1, <2>2, <2>3
<1>8. u # None => /\ ~Leaf(u, A, txn) /\ u \in Txns /\ a[u] \in {"stack", "orphan"} /\ txn[u].kind = "call"
                  /\ a[u] = "stack" => o[u] \in Threads /\ thr[o[u]].dead /\ r[u] = o[u]
  <2> SUFFICES ASSUME u # None PROVE /\ ~Leaf(u, A, txn) /\ u \in Txns /\ a[u] \in {"stack", "orphan"} /\ txn[u].kind = "call"
                                     /\ a[u] = "stack" => o[u] \in Threads /\ thr[o[u]].dead /\ r[u] = o[u]
    OBVIOUS
  <2>1. ~Leaf(u, A, txn)
    BY <1>5, <1>p DEF Leaf
  <2>2. u \in Txns /\ u \in A /\ txn[u].kind = "call" /\ a[u] \notin {"none", "built", "done"}
    BY <1>5, <1>7
  <2>3. a[u] \in Places /\ Fits(a, o, r, u)
    BY <1>1, <2>2 DEF PlaceType
  <2>4. a[u] \notin {"queue", "todo", "ptodo", "deliver", "job"}
    BY <1>a, <2>1, <2>2 DEF Ends
  <2>5. a[u] # "async"
    BY <2>2, <2>3 DEF Fits
  <2>6. a[u] \in {"stack", "orphan"}
    BY <2>2, <2>3, <2>4, <2>5 DEF Places
  <2>7. a[u] = "stack" => o[u] \in Threads /\ r[u] = o[u]
    BY <2>3 DEF Fits
  <2>8. a[u] = "stack" => thr[o[u]].dead
    <3>1. a[u] = "stack" => txn[t].from = o[u] \/ (thr[o[u]].dead /\ txn[t].from = None)
      BY <1>5, <1>a, <1>p, <2>2 DEF Ends
    <3> QED BY <1>3, <2>7, <3>1, Marks
  <2> QED BY <2>1, <2>2, <2>6, <2>7, <2>8
<1>w. \A y \in Tasks : y # x /\ job[y].pc = "walk" => job[y].re # t /\ (u # None => job[y].re # u)
  <2> SUFFICES ASSUME NEW y \in Tasks, y # x, job[y].pc = "walk" PROVE job[y].re # t /\ (u # None => job[y].re # u)
    OBVIOUS
  <2>1. job[y].re # t
    BY <1>h, <1>3 DEF Holds
  <2>2. ASSUME u # None, job[y].re = u PROVE FALSE
    <3>1. a[u] = "stack" /\ o[u] = job[y].dying
      BY <1>h, <1>8, <2>2 DEF Holds
    <3>2. Leaf(u, A, txn) <=> u = job[y].re
      BY <1>a, <1>7, <2>2, <3>1 DEF Ends
    <3> QED BY <1>8, <2>2, <3>2
  <2> QED BY <2>1, <2>2
<1>g. PICK a2, o2 : /\ a2 = IF u = None THEN Put(a, t, "none") ELSE Put(Put(a, t, "none"), u, "job")
                    /\ o2 = IF u = None THEN Put(o, t, None) ELSE Put(Put(o, t, None), u, x)
  OBVIOUS
<1>q. /\ PlaceType(a2, o2, r) /\ a2[t] = "none" /\ (u # None => a2[u] = "job" /\ o2[u] = x)
      /\ \A w \in Txns : w # t /\ w # u => a2[w] = a[w] /\ o2[w] = o[w]
  <2>1. x \in Owners /\ None \in Owners
    BY DEF Owners
  <2>2. CASE u = None
    BY <1>1, <1>3, <1>g, <2>1, <2>2 DEF PlaceType, Places, Put
  <2>3. CASE u # None
    BY <1>1, <1>3, <1>7, <1>8, <1>g, <2>1, <2>3 DEF PlaceType, Places, Put
  <2> QED BY <2>2, <2>3
<1>j. PICK j : j = IF u = None THEN [job[x] EXCEPT !.pc = job[x].next, !.t = None] ELSE [job[x] EXCEPT !.t = u]
  OBVIOUS
<1>9. /\ j \in JobType /\ Carries(j) /\ (x \in Threads => ForThread(x, j)) /\ (x = Worker => ForWorker(j))
      /\ j.t = u /\ j.re = None /\ j.target = job[x].target /\ j.proc = job[x].proc /\ j.dying = job[x].dying
      /\ (u = None => j.pc \in {"idle", "drain", "todo"}) /\ (u # None => j.pc = "fail1")
  <2>1. CASE u = None
    <3>1. j = [job[x] EXCEPT !.pc = job[x].next, !.t = None] /\ job[x].pc \in {"free", "fail1"}
      BY <1>2, <1>j, <2>1
    <3>2. /\ j \in JobType /\ Carries(j) /\ (x \in Threads => ForThread(x, j)) /\ (x = Worker => ForWorker(j))
          /\ j.t = None /\ j.re = None /\ j.target = job[x].target /\ j.proc = job[x].proc /\ j.dying = job[x].dying
          /\ j.pc \in {"idle", "drain", "todo"}
      BY ONLY <1>0, <3>1, x \in Tasks, JobNext
    <3> QED BY <2>1, <3>2
  <2>2. CASE u # None
    <3>1. j = [job[x] EXCEPT !.t = u] /\ u \in Parents
      BY <1>3, <1>j, <2>2
    <3>2. /\ j \in JobType /\ j.t = u /\ j.pc = "fail1" /\ j.re = None /\ j.target = job[x].target /\ j.proc = job[x].proc
          /\ j.dying = job[x].dying /\ j.next = job[x].next
      BY <1>1, <1>2, <1>3, <3>1 DEF JobType
    <3>3. Carries(j)
      BY <1>1, <1>2, <1>3, <2>2, <3>2 DEF Carries
    <3>4. ASSUME x \in Threads PROVE ForThread(x, j)
      BY <1>1, <1>2, <3>2, <3>4 DEF ForThread
    <3>5. ASSUME x = Worker PROVE ForWorker(j)
      <4>1. ForWorker(job[x])
        BY <1>1, <1>2, <3>5
      <4> QED BY <1>2, <3>2, <4>1 DEF ForWorker
    <3> QED BY <2>2, <3>2, <3>3, <3>4, <3>5
  <2> QED BY <2>1, <2>2
<1>10. Become(x, j)
  <2>1. CASE u = None
    <3>1. j = [job[x] EXCEPT !.pc = IF u = None THEN job[x].next ELSE @, !.t = u]
      BY <1>j, <2>1
    <3> QED BY <1>2, <3>1
  <2>2. CASE u # None
    <3>1. j = [job[x] EXCEPT !.pc = IF u = None THEN job[x].next ELSE @, !.t = u]
      BY <1>1, <1>j, <2>2 DEF JobType
    <3> QED BY <1>2, <3>1
  <2> QED BY <2>1, <2>2
<1>11. /\ job'[x] = j /\ (\A y \in Tasks : y # x => job'[y] = job[y])
       /\ txn'[t] = NoTxn /\ (\A w \in Txns : w # t => txn'[w] = txn[w]) /\ txn' \in [Txns -> TxnType]
  <2>1. NoTxn \in TxnType
    BY DEF NoTxn, TxnType, Parents
  <2> QED BY <1>1, <1>2, <1>3, <1>10, <2>1 DEF Types, Become, Frees
<1>12. prc' \in [Procs -> ProcType] /\ Shrinks /\ ListsStay /\ \A p \in Procs : SameWork(prc'[p], prc[p])
  BY ONLY <1>1, <1>2, StillProcs
<1>13. Base' /\ Types' /\ SameStacks
  <2>1. j.pc \notin {"queue", "rsend"}
    BY <1>9
  <2> QED BY ONLY <1>0, <1>2, <1>9, <1>10, <1>11, <1>12, <2>1, x \in Tasks, StillBase
<1>14. Placed(a2, o2, r)'
  <2>1. ASSUME NEW w \in Txns PROVE Placing(w, x, None, a, o, r, a2, o2, r)
    <3>1. CASE w # t /\ w # u
      BY <1>11, <1>q, <3>1 DEF Placing
    <3>2. CASE w = t
      <4>1. Fits(a2, o2, r, t)'
        BY <1>11, <1>q, <1>4, FitsNone
      <4>2. Handed(t, x, None, a, o, a2, o2)
        BY <1>3, <1>q, <1>w DEF Handed, Taken
      <4> QED BY <3>2, <4>1, <4>2 DEF Placing
    <3>3. CASE w = u
      <4>1. u # None /\ u \in Txns
        BY <3>3, Marks
      <4>2. Handed(u, x, None, a, o, a2, o2)
        BY <1>8, <1>q, <1>w, <4>1 DEF Handed, Taken
      <4>3. Fits(a2, o2, r, u)'
        <5>1. Fits(a, o, r, u) /\ txn'[u] = txn[u] /\ txn[u].kind = "call"
          BY <1>1, <1>7, <1>8, <1>11, <4>1
        <5>2. txn[u] \in TxnType
          BY <1>1, <4>1 DEF Types
        <5>3. job'[x].pc = "fail1" /\ a2[u] = "job" /\ o2[u] = x
          BY <1>9, <1>11, <1>q, <4>1
        <5>4. a[u] = "stack" => r[u] \in Threads /\ thr'[r[u]].dead /\ r[u] # None
          BY <1>2, <1>8, <4>1, Marks
        <5>5. a[u] = "orphan" => txn[u].to_proc = None /\ txn[u].to_thread = None /\ r[u] = None
          <6>1. txn[u].to_thread \in Threads => ProcOf[txn[u].to_thread] # None
            BY Marks
          <6> QED BY <5>1, <5>2, <6>1 DEF Fits, TxnType
        <5> QED BY <1>8, <4>1, <5>1, <5>3, <5>4, <5>5 DEF Fits
      <4> QED BY <3>3, <4>2, <4>3 DEF Placing
    <3> QED BY <3>1, <3>2, <3>3
  <2>2. HasNow(x, a2, o2, r)
    <3>1. Holds(a2, o2, x, job'[x])
      BY <1>9, <1>11, <1>q DEF Holds
    <3>2. ASSUME NEW w \in Txns, a2[w] \in Taken, o2[w] = x PROVE With(w, job'[x]) /\ Fits(a2, o2, r, w)'
      <4>1. w # t
        BY <1>q, <3>2 DEF Taken
      <4>2. w = u
        BY <1>1, <1>3, <1>p, <1>q, <3>2, <4>1, Marks DEF With
      <4>3. With(w, job'[x])
        BY <1>9, <1>11, <4>2, Marks DEF With
      <4>4. Fits(a2, o2, r, w)'
        <5>1. Placing(w, x, None, a, o, r, a2, o2, r)
          BY <2>1
        <5>2. a2[u] # a[u]
          BY <1>8, <1>q, <4>2, Marks
        <5> QED BY <4>2, <5>1, <5>2 DEF Placing
      <4> QED BY <4>3, <4>4
    <3> QED BY <3>1, <3>2 DEF HasNow
  <2>3. ListsGo(None, a, o, a2, o2)
    BY <1>12, ListsGoNone
  <2>4. \A g \in Threads : thr[g].dead => thr'[g].dead
    BY <1>2
  <2> QED BY ONLY <1>0, <1>11, <1>13, <2>1, <2>2, <2>3, <2>4, x \in Tasks, PlacedStep
<1>B. PICK B : B = Active(txn', a2)
  OBVIOUS
<1>15. B = A \ {t}
  <2>1. \A w \in Txns : w \in B <=> txn'[w].kind = "call" /\ a2[w] \notin {"none", "built", "done"}
    BY <1>B DEF Active
  <2>2. B \subseteq Txns
    BY <1>B DEF Active
  <2>3. \A w \in Txns : w \in B <=> w \in A /\ w # t
    <3>1. t \notin B /\ txn'[t].kind = "free"
      BY <1>3, <1>11, <2>1 DEF NoTxn
    <3>2. u # None => u \in B
      BY <1>7, <1>8, <1>11, <1>q, <2>1
    <3>3. \A w \in Txns : w # t /\ w # u => (w \in B <=> w \in A)
      BY <1>5, <1>11, <1>q, <2>1
    <3> QED BY <1>7, <3>1, <3>2, <3>3, Marks
  <2> QED BY <1>5, <2>2, <2>3
<1>16. Chained(B, txn', c, d)
  <2>1. \A w \in A \ {t} : txn'[w].from_parent = txn[w].from_parent
    BY <1>5, <1>11
  <2> QED BY ONLY <1>1, <1>5, <1>6, <1>a, <1>15, <2>1, ChainDrop
<1>17. \A w \in B : w # u => (Leaf(w, B, txn') <=> Leaf(w, A, txn))
  <2>1. ASSUME NEW w \in B, w # u PROVE Leaf(w, B, txn') <=> Leaf(w, A, txn)
    <3>1. \A v \in A : v # t => txn'[v].from_parent = txn[v].from_parent /\ v \in B
      BY <1>5, <1>11, <1>15
    <3>2. txn[t].from_parent # w
      BY <1>p, <2>1
    <3> QED BY <1>15, <3>1, <3>2 DEF Leaf
  <2> QED BY <2>1
<1>18. Ends(a2, o2, B)'
  <2>1. \A w \in B : w \in Txns /\ w \in A /\ w # t /\ txn'[w] = txn[w]
    BY <1>5, <1>11, <1>15
  <2>2. ASSUME NEW w \in B PROVE /\ a2[w] \in {"queue", "todo", "ptodo", "deliver", "job"} => Leaf(w, B, txn')
                                 /\ a2[w] = "orphan" => ~Leaf(w, B, txn')
    <3>1. CASE w = u
      <4>1. \A v \in B : txn'[v].from_parent # u
        BY <1>7, <2>1, <3>1, Marks
      <4> QED BY <1>q, <2>1, <3>1, <4>1, Marks DEF Leaf
    <3>2. CASE w # u
      BY <1>17, <1>a, <1>q, <2>1, <3>2 DEF Ends
    <3> QED BY <3>1, <3>2
  <2>3. ASSUME NEW w \in B, NEW v \in B, txn'[v].from_parent = w
        PROVE  /\ a2[w] = "stack" => \/ txn'[v].from = o2[w]
                                     \/ thr'[o2[w]].dead /\ txn'[v].from = None
               /\ a2[w] = "orphan" => txn'[v].from = None
    <3>1. w # u
      BY <1>7, <2>1, <2>3, Marks
    <3>2. a2[w] = a[w] /\ o2[w] = o[w] /\ txn[v].from_parent = w /\ txn'[v] = txn[v]
      BY <1>q, <2>1, <2>3, <3>1
    <3> QED BY <1>2, <1>a, <2>1, <3>2 DEF Ends
  <2>4. ASSUME NEW y \in Tasks, job'[y].pc = "walk", NEW w \in B, a2[w] = "stack", o2[w] = job'[y].dying
        PROVE  Leaf(w, B, txn') <=> w = job'[y].re
    <3>1. y # x
      BY <1>9, <1>11, <2>4
    <3>2. job'[y] = job[y]
      BY <1>11, <3>1
    <3>3. w # u
      BY <1>q, <2>1, <2>4, Marks
    <3>4. a[w] = "stack" /\ o[w] = job[y].dying /\ w \in A
      BY <1>q, <2>1, <2>4, <3>2, <3>3
    <3>5. Leaf(w, A, txn) <=> w = job[y].re
      BY <1>a, <2>4, <3>2, <3>4 DEF Ends
    <3> QED BY <1>17, <3>2, <3>3, <3>5
  <2> QED BY <2>2, <2>3, <2>4 DEF Ends
<1>19. \A g \in Threads : On(g, txn', a2, r) = On(g, txn, a, r) /\ t \notin On(g, txn, a, r)
  <2>1. ASSUME NEW g \in Threads PROVE On(g, txn', a2, r) = On(g, txn, a, r) /\ t \notin On(g, txn, a, r)
    <3>1. g # None
      BY Marks
    <3>2. t \notin On(g, txn, a, r) /\ t \notin On(g, txn', a2, r)
      BY <1>3, <1>4, <1>11, <3>1 DEF On, NoTxn
    <3>3. \A w \in Txns : w # t => (a2[w] # "built" <=> a[w] # "built")
      BY <1>8, <1>q, Marks
    <3>4. \A w \in Txns : w # t => (w \in On(g, txn', a2, r) <=> w \in On(g, txn, a, r))
      BY <1>11, <3>3 DEF On
    <3> QED BY <3>2, <3>4 DEF On
  <2> QED BY <2>1
<1>20. Others(None, a, r, a2, r)
  BY <1>2, <1>19 DEF Others
<1>21. Stacks(a2, r, c, d)'
  <2>1. Beneath(None, a, r, c, d, c, d)
    <3>1. ASSUME NEW g \in Threads, NEW w \in On(g, txn, a, r) PROVE Under(txn', w, g) = Under(txn, w, g)
      <4>1. w \in Txns /\ w # t
        BY <1>19, <3>1 DEF On
      <4> QED BY <1>11, <4>1 DEF Under
    <3> QED BY <3>1 DEF Beneath
  <2>2. \A y \in Tasks : job'[y].pc = "walk" \/ job[y].pc = "walk" => job'[y] = job[y] \/ (None \in Threads /\ job'[y].dying = None /\ job[y].dying \in {None, None})
    BY <1>2, <1>9, <1>11
  <2>3. None \notin Threads
    BY Marks
  <2> QED BY ONLY <1>0, <1>13, <1>20, <2>1, <2>2, <2>3, StacksStep
<1>22. Flights(a2, o2, r, c)'
  <2>1. JobsOk' /\ None \notin Threads
    BY <1>13, Marks DEF Base
  <2>2. job'[x].pc \notin {"built", "deliver"}
    BY <1>9, <1>11
  <2>3. \A y \in Threads : y # x /\ job[y].pc \in {"built", "deliver"} =>
            txn'[job[y].t].kind = txn[job[y].t].kind /\ txn'[job[y].t].to_thread = txn[job[y].t].to_thread
    <3>1. SUFFICES ASSUME NEW y \in Threads, y # x, job[y].pc \in {"built", "deliver"} PROVE job[y].t # t /\ job[y].t \in Txns
      BY <1>11
    <3>2. Holds(a, o, y, job[y]) /\ job[y] \in JobType /\ Carries(job[y])
      BY <1>0, <3>1, TaskHolds, Marks
    <3> QED BY <1>3, <3>1, <3>2 DEF Holds, Carries, JobType, Parents
  <2>4. \A g \in Threads : (~thr'[g].dead => ~thr[g].dead) /\ First(thr[g].todo, thr'[g].todo)
    BY <1>2 DEF First
  <2>5. \A w \in Txns, g \in Threads : Fresh(w, g, a2, o2)' => Fresh(w, g, a, o)
    <3>1. ASSUME NEW w \in Txns, NEW g \in Threads, Fresh(w, g, a2, o2)' PROVE Fresh(w, g, a, o)
      <4>1. w # t /\ w # u
        BY <1>q, <3>1, Marks DEF Fresh
      <4> QED BY <1>11, <1>q, <3>1, <4>1 DEF Fresh
    <3> QED BY <3>1
  <2>6. Flown(None, a, r, a2, r, c)
    <3>1. ASSUME NEW w \in Txns, txn'[w].kind = "call", a2[w] \in {"queue", "todo", "deliver"}
          PROVE  w # None /\ txn[w].kind = "call" /\ a[w] \in {"queue", "todo", "deliver"} /\ txn'[w].to_thread = txn[w].to_thread
      <4>1. w # t /\ w # u
        BY <1>q, <3>1, Marks
      <4> QED BY <1>11, <1>q, <3>1, <4>1, Marks
    <3> QED BY <3>1 DEF Flown
  <2>7. /\ \A w \in Active(txn, a) : c[w] = c[w]
        /\ \A w \in Txns : r[w] \in Threads /\ r[w] # None => r[w] = r[w]
    OBVIOUS
  <2> QED BY ONLY <1>0, <1>11, <1>13, <1>20, <2>1, <2>2, <2>3, <2>4, <2>5, <2>6, <2>7, x \in Tasks, FlightsStack
<1>23. Linked(a2, o2, r, c, d)'
  BY <1>16, <1>18, <1>21, <1>22, <1>B DEF Linked
<1>24. Turns(a2)'
  <2>1. \A p \in Procs : Turn(p, a2)' = Turn(p, a)
    <3>1. \A p \in Procs : t \notin Turn(p, a) /\ t \notin Turn(p, a2)'
      BY <1>4, <1>11 DEF Turn, NoTxn
    <3>2. ASSUME NEW p \in Procs, NEW w \in Txns, w # t PROVE w \in Turn(p, a2)' <=> w \in Turn(p, a)
      <4>1. CASE w = u
        BY <1>8, <1>11, <3>2, <4>1, Marks DEF Turn
      <4>2. CASE w # u
        BY <1>11, <1>q, <3>2, <4>2 DEF Turn
      <4> QED BY <4>1, <4>2
    <3> QED BY <3>1, <3>2 DEF Turn
  <2>2. \A p \in Procs : prc'[p].life = "open" => prc[p].life = "open" /\ SameWork(prc'[p], prc[p])
    BY <1>2, <1>12
  <2> QED BY <1>1, <2>1, <2>2, TurnsHand
<1>25. GhostType(a2, o2, r, c, d)
  BY <1>1, <1>q DEF GhostType
<1> QED BY <1>13, <1>14, <1>23, <1>24, <1>25, CoreStep

\* Nobody walks over the stack of a live thread.
LEMMA WalksDead ==
  ASSUME Types, JobsOk, NEW y \in Tasks, job[y].pc = "walk"
  PROVE  job[y].dying \in Threads /\ thr[job[y].dying].dead
<1>1. Carries(job[y]) /\ job[y] \in JobType
  BY DEF JobsOk, Types
<1>2. job[y].dying \in Threads /\ job[y].dying # None
  BY <1>1 DEF Carries, JobType
<1>3. CASE y = Worker
  BY <1>2, <1>3 DEF JobsOk, WorkerJob
<1>4. CASE y \in Threads
  <2>1. ThreadJob(y)
    BY <1>4 DEF JobsOk
  <2> QED BY <1>2, <1>4, <2>1 DEF ThreadJob
<1> QED BY <1>2, <1>3, <1>4, Marks

\* Thread h, outside a release, puts another call on top of its stack or takes one off, and its
\* list may get a "complete".
LEMMA TopBase ==
  ASSUME Base, NEW h \in Threads, ~thr[h].dead, ~thr[h].waiting, NEW j \in JobType, Become(h, j), Carries(j), ForThread(h, j),
         j.dying = job[h].dying, j.target = job[h].target, j.proc = job[h].proc,
         thr' \in [Threads -> ThreadType], txn' \in [Txns -> TxnType], prc' = prc, calls' = calls, faults' = faults,
         \A g \in Threads : g # h => thr'[g] = thr[g], SameLife(thr'[h], thr[h]), thr'[h].waiting = thr[h].waiting, Grows(h),
         j.pc \in {"queue", "rsend"} => \E i \in DOMAIN thr'[h].todo : thr'[h].todo[i] = "complete"
  PROVE  Base' /\ Types' /\ JobsOk'
<1>1. Types /\ PoolBound /\ h # Worker /\ h \in Tasks
  BY Marks DEF Base
<1>2. Types'
  BY <1>1 DEF Types, Become
<1>3. Gains(h, j, None, None)
  <2>1. \A g \in Threads : thr'[g].dead = thr[g].dead /\ thr'[g].mem = thr[g].mem /\ thr'[g].tmp = thr[g].tmp + One(g = None)
    <3>1. \A g \in Threads : thr[g].tmp \in Nat /\ One(g = None) = 0
      BY <1>1, Marks DEF Types, ThreadType, One
    <3> QED BY <3>1 DEF SameLife
  <2>2. \A p \in Procs : prc'[p].life = prc[p].life /\ prc'[p].tmp = prc[p].tmp + One(p = None)
    <3>1. \A p \in Procs : prc[p].tmp \in Nat /\ One(p = None) = 0
      BY <1>1, Marks DEF Types, ProcType, One
    <3> QED BY <3>1
  <2> QED BY <2>1, <2>2 DEF Gains
<1>4. ThreadsStep(h, j)
  <2>1. \A g \in Threads : g # h => Grows(g)
    BY DEF Grows
  <2> QED BY <2>1 DEF ThreadsStep, SameLife
<1>5. ProcsStep
  BY <1>1 DEF ProcsStep, PoolBound
<1>6. (h \in Threads => ForThread(h, j)) /\ (h = Worker => ForWorker(j) /\ j.proc = job[h].proc) /\ None \in Threads \cup {None} /\ None \in Procs \cup {None}
  BY <1>1
<1>7. Base'
  BY ONLY <1>1, <1>2, <1>3, <1>4, <1>5, <1>6, Base, j \in JobType, Become(h, j), Carries(j),
     j.pc \in {"queue", "rsend"} => \E i \in DOMAIN thr'[h].todo : thr'[h].todo[i] = "complete", GainStep
<1> QED BY <1>2, <1>7 DEF Base

\* The call being answered leaves the stack of the thread.
LEMMA ReplyStep ==
  ASSUME TxnInv, NEW h \in Threads, Reply(h)
  PROVE  TxnInv'
<1>0. PICK a, o, r, c, d : Core(a, o, r, c, d)
  BY DEF TxnInv
<1>p. PICK t : t = thr[h].stack
  OBVIOUS
<1>A. PICK A : A = Active(txn, a)
  OBVIOUS
<1>1. /\ Base /\ Types /\ JobsOk /\ PlaceType(a, o, r) /\ Turns(a) /\ (\A w \in Txns : Fits(a, o, r, w)) /\ h \in Tasks
      /\ c \in [Txns -> Txns] /\ d \in [Txns -> Nat]
  BY <1>0, CoreIs, Marks
<1>a. Chained(A, txn, c, d) /\ Ends(a, o, A)
  BY <1>0, <1>A, CoreIs
<1>h. \A y \in Tasks : Holds(a, o, y, job[y])
  BY <1>0, TaskHolds
<1>2. /\ job[h].pc = "idle" /\ ~thr[h].dead /\ ~thr[h].waiting /\ prc[ProcOf[h]].life = "open" /\ t # None /\ txn[t].to_thread = h
      /\ thr' = SetStack(thr, h, txn[t].to_parent) /\ Become(h, [Idle EXCEPT !.pc = "reply0", !.re = t])
      /\ prc' = prc /\ txn' = txn /\ calls' = calls /\ faults' = faults
  BY <1>p DEF Reply, Writing, Ready, SetStack
<1>3. /\ job[h] = Idle /\ (\A w \in Txns : ~(a[w] \in Taken /\ o[w] = h))
  BY <1>0, <1>2, IdleHolds
<1>4. t \in A /\ Leaf(t, A, txn) /\ r[t] = h /\ a[t] = "stack" /\ o[t] = h /\ Under(txn, t, h) = txn[t].to_parent
  BY ONLY <1>0, <1>2, <1>p, <1>A, h \in Threads, TopLeaf
<1>5. t \in Txns /\ txn[t] \in TxnType /\ txn[t].to_parent \in Parents /\ txn[t].kind = "call" /\ A \subseteq Txns
  <2>1. t \in Txns /\ txn[t].kind = "call" /\ A \subseteq Txns
    BY <1>4, <1>A DEF Active
  <2> QED BY <1>1, <2>1 DEF Types, TxnType
<1>g. PICK a2, o2, r2 : a2 = Put(a, t, "job") /\ o2 = Put(o, t, h) /\ r2 = Put(r, t, None)
  OBVIOUS
<1>q. /\ PlaceType(a2, o2, r2) /\ a2[t] = "job" /\ o2[t] = h /\ r2[t] = None
      /\ \A w \in Txns : w # t => a2[w] = a[w] /\ o2[w] = o[w] /\ r2[w] = r[w]
  <2>1. h \in Owners
    BY <1>1 DEF Owners
  <2> QED BY <1>1, <1>5, <1>g, <2>1 DEF PlaceType, Places, Put
<1>j. PICK j : j = [Idle EXCEPT !.pc = "reply0", !.re = t]
  OBVIOUS
<1>6. /\ j \in JobType /\ j.pc = "reply0" /\ j.t = None /\ j.re = t /\ j.target = None /\ j.proc = None /\ j.dying = None /\ j.next = "idle"
  BY <1>5, <1>j DEF JobType, Idle, Parents
<1>7. Carries(j) /\ ForThread(h, j) /\ Become(h, j) /\ j.dying = job[h].dying /\ j.target = job[h].target /\ j.proc = job[h].proc
  <2>1. Carries(j)
    BY <1>2, <1>6 DEF Carries
  <2>2. ForThread(h, j)
    BY <1>2, <1>6, Marks DEF ForThread
  <2> QED BY <1>2, <1>3, <1>6, <1>j, <2>1, <2>2 DEF Idle
<1>8. /\ thr' \in [Threads -> ThreadType] /\ (\A g \in Threads : g # h => thr'[g] = thr[g])
      /\ SameLife(thr'[h], thr[h]) /\ SameFlags(thr'[h], thr[h]) /\ thr'[h].todo = thr[h].todo
      /\ thr'[h].process_todo = thr[h].process_todo /\ thr'[h].stack = txn[t].to_parent
  <2>1. thr \in [Threads -> ThreadType] /\ txn[t].to_parent \in Parents /\ thr' = SetStack(thr, h, txn[t].to_parent)
    BY <1>1, <1>2, <1>5 DEF Types
  <2> QED BY ONLY <2>1, h \in Threads, FieldIs
<1>9. Base' /\ Types' /\ JobsOk'
  <2>1. txn' \in [Txns -> TxnType] /\ thr'[h].waiting = thr[h].waiting /\ Grows(h)
    BY <1>1, <1>2, <1>8 DEF Types, SameFlags, Grows
  <2>2. j.pc \in {"queue", "rsend"} => \E i \in DOMAIN thr'[h].todo : thr'[h].todo[i] = "complete"
    BY <1>6
  <2> QED BY ONLY <1>1, <1>2, <1>6, <1>7, <1>8, <2>1, <2>2, h \in Threads, TopBase
<1>10. job'[h] = j /\ (\A y \in Tasks : y # h => job'[y] = job[y]) /\ \A g \in Threads : thr'[g].dead = thr[g].dead
  BY <1>1, <1>7, <1>8 DEF Types, Become, SameLife
<1>w. \A y \in Tasks : job[y].pc = "walk" => job[y].dying # h /\ job[y].dying \in Threads /\ job[y].re # t
  <2>1. ASSUME NEW y \in Tasks, job[y].pc = "walk" PROVE job[y].dying # h /\ job[y].dying \in Threads /\ job[y].re # t
    <3>1. job[y].dying \in Threads /\ thr[job[y].dying].dead
      BY ONLY <1>1, <2>1, WalksDead
    <3>2. job[y].dying # h
      BY <1>2, <3>1
    <3>3. Holds(a, o, y, job[y])
      BY <1>h
    <3> QED BY <1>2, <1>4, <3>1, <3>2, <3>3 DEF Holds
  <2> QED BY <2>1
<1>11. ListsStay
  BY <1>2, <1>8, KeptSame DEF ListsStay
<1>12. Placed(a2, o2, r2)'
  <2>1. Fits(a2, o2, r2, t)'
    <3>1. Fits(a, o, r, t) /\ txn'[t] = txn[t] /\ job'[h].pc = "reply0" /\ ProcOf[h] # None /\ h # None
      BY <1>1, <1>2, <1>5, <1>6, <1>10, Marks
    <3>2. Home(h)' = ProcOf[h]
      BY Marks DEF Home
    <3> QED BY <1>2, <1>4, <1>5, <1>q, <3>1, <3>2 DEF Fits
  <2>2. ASSUME NEW w \in Txns PROVE Placing(w, h, None, a, o, r, a2, o2, r2)
    <3>1. CASE w # t
      BY <1>2, <1>q, <3>1 DEF Placing
    <3>2. CASE w = t
      <4>1. Handed(t, h, None, a, o, a2, o2)
        BY <1>4, <1>q, <1>w DEF Handed, Taken
      <4> QED BY <2>1, <3>2, <4>1 DEF Placing
    <3> QED BY <3>1, <3>2
  <2>3. HasNow(h, a2, o2, r2)
    <3>1. Holds(a2, o2, h, job'[h])
      BY <1>6, <1>10, <1>q DEF Holds
    <3>2. ASSUME NEW w \in Txns, a2[w] \in Taken, o2[w] = h PROVE With(w, job'[h]) /\ Fits(a2, o2, r2, w)'
      <4>1. w = t
        BY <1>3, <1>q, <3>2
      <4> QED BY <1>6, <1>10, <2>1, <4>1 DEF With
    <3> QED BY <3>1, <3>2 DEF HasNow
  <2>4. ListsGo(None, a, o, a2, o2)
    BY <1>11, ListsGoNone
  <2>5. \A g \in Threads : thr[g].dead => thr'[g].dead
    BY <1>10
  <2> QED BY ONLY <1>0, <1>1, <1>9, <1>10, <2>2, <2>3, <2>4, <2>5, PlacedStep
<1>B. PICK B : B = Active(txn', a2)
  OBVIOUS
<1>13. B = A
  <2>1. \A w \in Txns : w \in B <=> w \in A
    BY <1>2, <1>4, <1>5, <1>A, <1>B, <1>q DEF Active
  <2>2. B \subseteq Txns
    BY <1>B DEF Active
  <2> QED BY <1>5, <2>1, <2>2
<1>14. Chained(B, txn', c, d)
  BY <1>2, <1>13, <1>a
<1>15. Ends(a2, o2, B)'
  <2>1. ASSUME NEW w \in A PROVE /\ a2[w] \in {"queue", "todo", "ptodo", "deliver", "job"} => Leaf(w, A, txn)
                                 /\ a2[w] = "orphan" => ~Leaf(w, A, txn)
    <3>1. w \in Txns
      BY <1>5
    <3>2. CASE w = t
      BY <1>4, <1>q, <3>2
    <3>3. CASE w # t
      BY <1>a, <1>q, <3>1, <3>3 DEF Ends
    <3> QED BY <3>2, <3>3
  <2>2. ASSUME NEW w \in A, NEW v \in A, txn[v].from_parent = w
        PROVE  /\ a2[w] = "stack" => \/ txn[v].from = o2[w]
                                     \/ thr'[o2[w]].dead /\ txn[v].from = None
               /\ a2[w] = "orphan" => txn[v].from = None
    <3>1. w # t
      BY <1>4, <2>2 DEF Leaf
    <3>2. a2[w] = a[w] /\ o2[w] = o[w] /\ (a[w] = "stack" => o[w] \in Threads)
      <4>1. Fits(a, o, r, w)
        BY <1>1, <1>5
      <4> QED BY <1>5, <1>q, <3>1, <4>1 DEF Fits
    <3> QED BY <1>10, <1>a, <2>2, <3>2 DEF Ends
  <2>3. ASSUME NEW y \in Tasks, job'[y].pc = "walk", NEW w \in A, a2[w] = "stack", o2[w] = job'[y].dying
        PROVE  Leaf(w, A, txn) <=> w = job'[y].re
    <3>1. job'[y] = job[y]
      BY <1>6, <1>10, <2>3
    <3>2. a[w] = "stack" /\ o[w] = job[y].dying
      BY <1>5, <1>q, <2>3, <3>1
    <3> QED BY <1>a, <2>3, <3>1, <3>2 DEF Ends
  <2> QED BY <1>2, <1>13, <2>1, <2>2, <2>3 DEF Ends
<1>16. /\ (\A g \in Threads : g # h => On(g, txn', a2, r2) = On(g, txn, a, r)) /\ On(h, txn', a2, r2) = On(h, txn, a, r) \ {t}
       /\ t \in On(h, txn, a, r)
  <2>1. t \in On(h, txn, a, r)
    BY <1>4, <1>5 DEF On
  <2>2. txn[t].from # h
    BY ONLY <1>1, <1>4, <2>1, h \in Threads, OnActive
  <2>3. ASSUME NEW g \in Threads, NEW w \in Txns, w # t \/ g # h PROVE w \in On(g, txn', a2, r2) <=> w \in On(g, txn, a, r)
    BY <1>2, <1>4, <1>q, <2>3, Marks DEF On
  <2>4. t \notin On(h, txn', a2, r2)
    BY <1>2, <1>q, <2>2, Marks DEF On
  <2> QED BY <2>1, <2>3, <2>4 DEF On
<1>17. Others(h, a, r, a2, r2)
  BY <1>8, <1>16 DEF Others
<1>18. Stacks(a2, r2, c, d)'
  <2>1. Beneath(h, a, r, c, d, c, d)
    BY <1>2 DEF Beneath
  <2>2. \A y \in Tasks : job'[y].pc = "walk" \/ job[y].pc = "walk" => job'[y] = job[y] \/ (h \in Threads /\ job'[y].dying = h /\ job[y].dying \in {h, None})
    BY <1>2, <1>6, <1>10
  <2>3. Stack(h, thr'[h].stack, On(h, txn', a2, r2), txn', c, d)
    <3>1. Stack(h, t, On(h, txn, a, r), txn, c, d) /\ On(h, txn, a, r) \subseteq Txns
      BY ONLY <1>0, <1>2, <1>p, h \in Threads, StackIs
    <3>2. Stack(h, Under(txn, t, h), On(h, txn, a, r) \ {t}, txn, c, d)
      BY ONLY <1>1, <1>2, <3>1, StackPop
    <3> QED BY <1>2, <1>4, <1>8, <1>16, <3>2
  <2>4. \A y \in Tasks : job'[y].pc = "walk" => job'[y].dying # h
    BY <1>6, <1>10, <1>w
  <2>5. h \in Threads =>
           /\ ~thr'[h].dead => Stack(h, thr'[h].stack, On(h, txn', a2, r2), txn', c, d)
           /\ \A y \in Tasks : job'[y].pc = "walk" /\ job'[y].dying = h => Stack(h, job'[y].t, On(h, txn', a2, r2), txn', c, d)
           /\ thr'[h].dead /\ On(h, txn', a2, r2) # {} => \E y \in Tasks : job'[y].pc = "walk" /\ job'[y].dying = h
    BY <1>2, <1>10, <2>3, <2>4
  <2> QED BY ONLY <1>0, <1>9, <1>17, <2>1, <2>2, <2>5, StacksStep
<1>19. Flights(a2, o2, r2, c)'
  <2>1. job'[h].pc \notin {"built", "deliver"}
    BY <1>6, <1>10
  <2>2. /\ (\A w \in Active(txn, a) : c[w] = c[w])
        /\ \A w \in Txns : r[w] \in Threads /\ r[w] # h => r2[w] = r[w]
    BY <1>4, <1>q
  <2>3. \A y \in Threads : y # h /\ job[y].pc \in {"built", "deliver"} =>
            txn'[job[y].t].kind = txn[job[y].t].kind /\ txn'[job[y].t].to_thread = txn[job[y].t].to_thread
    BY <1>2
  <2>4. \A g \in Threads : (~thr'[g].dead => ~thr[g].dead) /\ First(thr[g].todo, thr'[g].todo)
    BY <1>10, <1>11, KeptFirst
  <2>5. \A w \in Txns, g \in Threads : Fresh(w, g, a2, o2)' => Fresh(w, g, a, o)
    <3>1. ASSUME NEW w \in Txns, NEW g \in Threads, Fresh(w, g, a2, o2)' PROVE Fresh(w, g, a, o)
      <4>1. w # t
        BY <1>q, <3>1 DEF Fresh
      <4> QED BY <1>2, <1>q, <3>1, <4>1 DEF Fresh
    <3> QED BY <3>1
  <2>6. Flown(t, a, r, a2, r2, c)
    <3>1. ASSUME NEW w \in Txns, txn'[w].kind = "call", a2[w] \in {"queue", "todo", "deliver"}
          PROVE  w # t /\ txn[w].kind = "call" /\ a[w] \in {"queue", "todo", "deliver"} /\ txn'[w].to_thread = txn[w].to_thread
      <4>1. w # t
        BY <1>q, <3>1
      <4> QED BY <1>2, <1>q, <3>1, <4>1
    <3> QED BY <3>1 DEF Flown
  <2>7. Quiet(h, t, h, a, o)
    <3>1. Leaf(t, Active(txn, a), txn) /\ (a[t] # "stack" \/ (r[t] = h /\ h = h))
      BY <1>4, <1>A
    <3> QED BY ONLY <1>0, <1>2, <1>p, <3>1, h \in Threads, QuietPop
  <2>8. h \in Threads => thr'[h].dead \/ Quiet(h, t, h, a, o)
    BY <2>7
  <2> QED BY ONLY <1>0, <1>1, <1>9, <1>10, <1>17, <2>1, <2>2, <2>3, <2>4, <2>5, <2>6, <2>8, FlightsStack
<1>20. Linked(a2, o2, r2, c, d)'
  BY <1>14, <1>15, <1>18, <1>19, <1>B DEF Linked
<1>21. Turns(a2)'
  <2>1. \A p \in Procs : Turn(p, a2)' = Turn(p, a)
    <3>1. \A p \in Procs, w \in Txns : (w \in Turn(p, a2)' <=> w \in Turn(p, a))
      BY <1>2, <1>4, <1>q DEF Turn
    <3> QED BY <3>1 DEF Turn
  <2>2. \A p \in Procs : prc'[p].life = "open" => prc[p].life = "open" /\ SameWork(prc'[p], prc[p])
    BY <1>2 DEF SameWork
  <2> QED BY <1>1, <2>1, <2>2, TurnsHand
<1>22. GhostType(a2, o2, r2, c, d)
  BY <1>1, <1>q DEF GhostType
<1> QED BY <1>9, <1>12, <1>20, <1>21, <1>22, CoreStep

SetParent(t, v) == txn' = [txn EXCEPT ![t].from_parent = v]

\* The call goes on the sender's stack, on top of the call that the sender handles.
LEMMA PushCall ==
  ASSUME TxnInv, NEW h \in Threads, Push(h), txn[job[h].t].kind = "call"
  PROVE  TxnInv'
<1>0. PICK a, o, r, c, d : Core(a, o, r, c, d)
  BY DEF TxnInv
<1>p. PICK t, v, u : t = job[h].t /\ v = thr[h].stack /\ u = job[h].target
  OBVIOUS
<1>A. PICK A : A = Active(txn, a)
  OBVIOUS
<1>1. /\ Base /\ Types /\ JobsOk /\ PlaceType(a, o, r) /\ Turns(a) /\ (\A w \in Txns : Fits(a, o, r, w)) /\ h \in Tasks
      /\ c \in [Txns -> Txns] /\ d \in [Txns -> Nat] /\ Flights(a, o, r, c)
  BY <1>0, CoreIs, Marks
<1>a. Chained(A, txn, c, d) /\ Ends(a, o, A) /\ A \subseteq Txns
  BY <1>0, <1>A, CoreIs DEF Active
<1>h. \A y \in Tasks : Holds(a, o, y, job[y]) /\ job[y] \in JobType /\ Carries(job[y])
  BY <1>0, TaskHolds
<1>b. ForThread(h, job[h]) /\ Carries(job[h]) /\ job[h] \in JobType /\ \A w \in Txns : a[w] \in Taken /\ o[w] = h => With(w, job[h])
  BY <1>0, TaskHolds, Marks
<1>2. /\ job[h].pc = "built" /\ thr' = SetStack(EnqueueDeferred(thr, h, "complete"), h, t) /\ Become(h, [job[h] EXCEPT !.pc = "queue"])
      /\ prc' = prc /\ SetParent(t, v) /\ calls' = calls /\ faults' = faults /\ txn[t].kind = "call"
  BY <1>p DEF Push, SetStack, SetParent
<1>3. /\ t \in Txns /\ t # None /\ a[t] = "built" /\ o[t] = h /\ job[h].re = None /\ job[h].proc # None /\ ~thr[h].dead /\ ~thr[h].waiting
      /\ u \in Threads \cup {None}
  <2>1. t \in Txns /\ t # None /\ job[h].re = None /\ job[h].proc # None /\ u \in Threads \cup {None}
    BY <1>b, <1>2, <1>p, Marks DEF Carries, JobType, Parents
  <2>2. a[t] = "built" /\ o[t] = h
    BY <1>1, <1>h, <1>2, <1>p, <2>1 DEF Holds
  <2>3. ~thr[h].dead /\ ~thr[h].waiting
    BY <1>b, <1>2, ThreadGoesOn
  <2> QED BY <2>1, <2>2, <2>3
<1>4. /\ txn[t].from = h /\ r[t] = None /\ txn[t].to_thread = u /\ t \notin A /\ u # h /\ txn[t] \in TxnType
  <2>1. Fits(a, o, r, t) /\ txn[t] \in TxnType /\ h # None
    BY <1>1, <1>3, Marks DEF Types
  <2>2. txn[t].from = h /\ r[t] = None /\ txn[t].to_thread = u /\ txn[t].to_proc # None
    BY <1>2, <1>3, <1>p, <2>1 DEF Fits
  <2>3. t \notin A
    BY <1>3, <1>A DEF Active
  <2>4. u # h
    BY <2>1, <2>2 DEF Fits
  <2> QED BY <2>1, <2>2, <2>3, <2>4
<1>5. v # None => v \in A /\ Leaf(v, A, txn) /\ r[v] = h /\ a[v] = "stack" /\ o[v] = h /\ v # t
  <2> SUFFICES ASSUME v # None PROVE v \in A /\ Leaf(v, A, txn) /\ r[v] = h /\ a[v] = "stack" /\ o[v] = h /\ v # t
    OBVIOUS
  <2>1. r[v] = h
    BY <1>1, <1>2, <1>p DEF Flights
  <2>2. v \in Txns
    BY <1>1, <1>p DEF Types, ThreadType, Parents
  <2>3. txn[v].to_thread = h
    <3>1. Fits(a, o, r, v)
      BY <1>1, <2>2
    <3> QED BY <2>1, <3>1, Marks DEF Fits
  <2>4. v \in Active(txn, a) /\ Leaf(v, Active(txn, a), txn) /\ r[v] = h /\ a[v] = "stack" /\ o[v] = h
    BY ONLY <1>0, <1>3, <1>p, <2>3, h \in Threads, v # None, TopLeaf
  <2> QED BY <1>4, <1>A, <2>4
<1>v. v \in Parents
  BY <1>1, <1>p DEF Types, ThreadType
<1>g. PICK a2, c2, d2 : /\ a2 = Put(a, t, "queue") /\ c2 = [c EXCEPT ![t] = IF v = None THEN t ELSE c[v]]
                        /\ d2 = [d EXCEPT ![t] = IF v = None THEN 0 ELSE d[v] + 1]
  OBVIOUS
<1>q. /\ PlaceType(a2, o, r) /\ a2[t] = "queue" /\ (\A w \in Txns : w # t => a2[w] = a[w])
      /\ c2 \in [Txns -> Txns] /\ d2 \in [Txns -> Nat] /\ (\A w \in Txns : w # t => c2[w] = c[w] /\ d2[w] = d[w])
      /\ (v # None => c2[t] = c[v] /\ d2[t] = d[v] + 1)
  <2>1. PlaceType(a2, o, r) /\ a2[t] = "queue" /\ (\A w \in Txns : w # t => a2[w] = a[w])
    BY <1>1, <1>3, <1>g DEF PlaceType, Places, Put
  <2>2. v # None => v \in Txns
    BY <1>v DEF Parents
  <2>3. c2 \in [Txns -> Txns] /\ d2 \in [Txns -> Nat]
    BY <1>1, <1>3, <1>g, <2>2
  <2>4. (\A w \in Txns : w # t => c2[w] = c[w] /\ d2[w] = d[w]) /\ (v # None => c2[t] = c[v] /\ d2[t] = d[v] + 1)
    BY <1>1, <1>3, <1>g, <2>2
  <2> QED BY <2>1, <2>3, <2>4
<1>j. PICK j : j = [job[h] EXCEPT !.pc = "queue"]
  OBVIOUS
<1>6. /\ j \in JobType /\ j.pc = "queue" /\ j.t = t /\ j.re = None /\ j.target = job[h].target /\ j.proc = job[h].proc /\ j.dying = job[h].dying
      /\ j.next = job[h].next
  BY <1>b, <1>3, <1>j, <1>p DEF JobType
<1>7. Carries(j) /\ ForThread(h, j) /\ Become(h, j)
  <2>1. Carries(j)
    BY <1>b, <1>2, <1>3, <1>6 DEF Carries
  <2>2. ForThread(h, j)
    BY <1>b, <1>2, <1>6 DEF ForThread
  <2> QED BY <1>2, <1>j, <2>1, <2>2
<1>8. /\ thr' \in [Threads -> ThreadType] /\ (\A g \in Threads : g # h => thr'[g] = thr[g])
      /\ SameLife(thr'[h], thr[h]) /\ SameFlags(thr'[h], thr[h]) /\ thr'[h].todo = Append(thr[h].todo, "complete")
      /\ thr'[h].process_todo = thr[h].process_todo /\ thr'[h].stack = t
  <2>1. PICK E : E = EnqueueDeferred(thr, h, "complete")
    OBVIOUS
  <2>2. thr \in [Threads -> ThreadType] /\ "complete" \in Txns \cup Words
    BY <1>1 DEF Types, Words
  <2>3. /\ E \in [Threads -> ThreadType] /\ (\A g \in Threads : g # h => E[g] = thr[g])
        /\ SameLife(E[h], thr[h]) /\ SameFlags(E[h], thr[h]) /\ E[h].stack = thr[h].stack
        /\ E[h].todo = Append(thr[h].todo, "complete") /\ E[h].process_todo = thr[h].process_todo
    BY ONLY <2>1, <2>2, h \in Threads, EnqueueDeferredIs
  <2>4. t \in Parents /\ thr' = SetStack(E, h, t)
    BY <1>2, <1>3, <2>1 DEF Parents
  <2>5. /\ thr' \in [Threads -> ThreadType] /\ (\A g \in Threads : g # h => thr'[g] = E[g])
        /\ SameLife(thr'[h], E[h]) /\ SameFlags(thr'[h], E[h]) /\ thr'[h].todo = E[h].todo
        /\ thr'[h].process_todo = E[h].process_todo /\ thr'[h].stack = t
    <3>1. E \in [Threads -> ThreadType]
      BY <2>3
    <3> QED BY ONLY <3>1, <2>4, h \in Threads, FieldIs
  <2> QED BY <2>3, <2>5 DEF SameLife, SameFlags
<1>9. /\ txn' \in [Txns -> TxnType] /\ (\A w \in Txns : w # t => txn'[w] = txn[w])
      /\ txn'[t].from_parent = v /\ txn'[t].kind = txn[t].kind /\ txn'[t].from = txn[t].from /\ txn'[t].to_proc = txn[t].to_proc
      /\ txn'[t].to_thread = txn[t].to_thread /\ txn'[t].to_parent = txn[t].to_parent
  <2>1. PICK R : R = [txn[t] EXCEPT !.from_parent = v]
    OBVIOUS
  <2>2. /\ R \in TxnType /\ R.from_parent = v /\ R.kind = txn[t].kind /\ R.from = txn[t].from /\ R.to_proc = txn[t].to_proc
        /\ R.to_thread = txn[t].to_thread /\ R.to_parent = txn[t].to_parent
    BY <1>4, <1>v, <2>1 DEF TxnType
  <2>3. txn' = [txn EXCEPT ![t] = R] /\ txn \in [Txns -> TxnType]
    BY <1>1, <1>2, <2>1 DEF SetParent, Types
  <2>4. txn' \in [Txns -> TxnType] /\ (\A w \in Txns : w # t => txn'[w] = txn[w]) /\ txn'[t] = R
    BY <1>3, <2>2, <2>3
  <2> QED BY <2>2, <2>4
<1>c. thr[h].todo \in Seq(Txns \cup Words) /\ "complete" \in Words
  BY <1>1 DEF Types, ThreadType, Words
<1>10. Base' /\ Types' /\ JobsOk'
  <2>1. thr'[h].waiting = thr[h].waiting /\ Grows(h)
    BY <1>8, <1>c DEF SameFlags, Grows
  <2>2. j.pc \in {"queue", "rsend"} => \E i \in DOMAIN thr'[h].todo : thr'[h].todo[i] = "complete"
    <3>1. Len(thr[h].todo) \in Nat /\ Len(thr[h].todo) + 1 \in DOMAIN thr'[h].todo /\ thr'[h].todo[Len(thr[h].todo) + 1] = "complete"
      BY <1>8, <1>c, AppendIn
    <3> QED BY <3>1
  <2> QED BY ONLY <1>1, <1>2, <1>3, <1>6, <1>7, <1>8, <1>9, <2>1, <2>2, h \in Threads, TopBase
<1>11. job'[h] = j /\ (\A y \in Tasks : y # h => job'[y] = job[y]) /\ \A g \in Threads : thr'[g].dead = thr[g].dead
  BY <1>1, <1>7, <1>8 DEF Types, Become, SameLife
<1>w. \A y \in Tasks : job[y].pc = "walk" => job[y].dying # h /\ job[y].dying \in Threads /\ job[y].re # t
  <2>1. ASSUME NEW y \in Tasks, job[y].pc = "walk" PROVE job[y].dying # h /\ job[y].dying \in Threads /\ job[y].re # t
    <3>1. job[y].dying \in Threads /\ thr[job[y].dying].dead
      BY ONLY <1>1, <2>1, WalksDead
    <3>2. Holds(a, o, y, job[y])
      BY <1>h
    <3> QED BY <1>3, <3>1, <3>2 DEF Holds
  <2> QED BY <2>1
<1>12. ListsStay
  <2>1. Kept(thr[h].todo, thr'[h].todo)
    BY <1>8, <1>c, KeptSame, KeptAppend
  <2> QED BY <1>2, <1>8, <2>1, KeptSame DEF ListsStay
<1>13. Placed(a2, o, r)'
  <2>1. Fits(a2, o, r, t)'
    <3>1. Fits(a, o, r, t) /\ job'[h].pc = "queue" /\ h # None /\ job'[h].proc = job[h].proc /\ job'[h].target = job[h].target
      BY <1>1, <1>3, <1>6, <1>11, Marks
    <3> QED BY <1>2, <1>3, <1>4, <1>9, <1>q, <3>1 DEF Fits
  <2>2. ASSUME NEW w \in Txns PROVE Placing(w, h, None, a, o, r, a2, o, r)
    <3>1. CASE w # t
      BY <1>9, <1>q, <3>1 DEF Placing
    <3>2. CASE w = t
      <4>1. Handed(t, h, None, a, o, a2, o)
        BY <1>3, <1>q, <1>w DEF Handed, Taken
      <4> QED BY <2>1, <3>2, <4>1 DEF Placing
    <3> QED BY <3>1, <3>2
  <2>3. HasNow(h, a2, o, r)
    <3>1. Holds(a2, o, h, job'[h])
      BY <1>3, <1>6, <1>11, <1>q DEF Holds
    <3>2. ASSUME NEW w \in Txns, a2[w] \in Taken, o[w] = h PROVE With(w, job'[h]) /\ Fits(a2, o, r, w)'
      <4>1. w = t
        BY <1>b, <1>3, <1>p, <1>q, <3>2, Marks DEF With
      <4> QED BY <1>6, <1>11, <2>1, <4>1 DEF With
    <3> QED BY <3>1, <3>2 DEF HasNow
  <2>4. ListsGo(None, a, o, a2, o)
    BY <1>12, ListsGoNone
  <2>5. \A g \in Threads : thr[g].dead => thr'[g].dead
    BY <1>11
  <2> QED BY ONLY <1>0, <1>1, <1>10, <1>11, <2>2, <2>3, <2>4, <2>5, PlacedStep
<1>B. PICK B : B = Active(txn', a2)
  OBVIOUS
<1>14. B = A \cup {t}
  <2>1. \A w \in Txns : w # t => (w \in B <=> w \in A)
    BY <1>9, <1>A, <1>B, <1>q DEF Active
  <2>2. B \subseteq Txns
    BY <1>B DEF Active
  <2>3. t \in B
    BY <1>2, <1>3, <1>9, <1>B, <1>q DEF Active
  <2> QED BY <1>3, <1>a, <2>1, <2>2, <2>3
<1>f. \A w \in A : w # t /\ w \in Txns /\ txn'[w] = txn[w]
  BY <1>4, <1>9, <1>a
<1>15. Chained(B, txn', c2, d2)
  <2>1. /\ t \in Txns \ A /\ (v = None \/ (v \in A /\ Leaf(v, A, txn))) /\ (\A w \in A : txn'[w].from_parent = txn[w].from_parent) /\ txn'[t].from_parent = v
        /\ c2 = [c EXCEPT ![t] = IF v = None THEN t ELSE c[v]] /\ d2 = [d EXCEPT ![t] = IF v = None THEN 0 ELSE d[v] + 1]
    BY <1>3, <1>4, <1>5, <1>9, <1>f, <1>g
  <2>2. Chained(A \cup {t}, txn', c2, d2)
    BY ONLY <1>1, <1>a, <2>1, ChainAdd
  <2> QED BY <1>14, <2>2
<1>16. Leaf(t, B, txn') /\ \A w \in A : w # v => (Leaf(w, B, txn') <=> Leaf(w, A, txn))
  <2>1. \A w \in A : txn[w].from_parent # t
    <3>1. ASSUME NEW w \in A, txn[w].from_parent = t PROVE t \in A
      BY <1>3, <1>a, <3>1 DEF Chained
    <3> QED BY <1>4, <3>1
  <2>2. v # t
    BY <1>3, <1>5
  <2>3. Leaf(t, B, txn')
    BY <1>9, <1>14, <1>f, <2>1, <2>2 DEF Leaf
  <2>4. ASSUME NEW w \in A, w # v PROVE Leaf(w, B, txn') <=> Leaf(w, A, txn)
    BY <1>9, <1>14, <1>f, <2>4 DEF Leaf
  <2> QED BY <2>3, <2>4
<1>17. Ends(a2, o, B)'
  <2>1. ASSUME NEW w \in B PROVE /\ a2[w] \in {"queue", "todo", "ptodo", "deliver", "job"} => Leaf(w, B, txn')
                                 /\ a2[w] = "orphan" => ~Leaf(w, B, txn')
    <3>1. CASE w = t
      BY <1>16, <1>q, <3>1
    <3>2. CASE w # t
      <4>1. w \in A /\ a2[w] = a[w]
        BY <1>14, <1>f, <1>q, <3>2
      <4>2. CASE w = v
        BY <1>3, <1>5, <1>f, <4>1, <4>2, Marks
      <4>3. CASE w # v
        BY <1>16, <1>a, <4>1, <4>3 DEF Ends
      <4> QED BY <4>2, <4>3
    <3> QED BY <3>1, <3>2
  <2>2. ASSUME NEW w \in B, NEW s \in B, txn'[s].from_parent = w
        PROVE  /\ a2[w] = "stack" => \/ txn'[s].from = o[w]
                                     \/ thr'[o[w]].dead /\ txn'[s].from = None
               /\ a2[w] = "orphan" => txn'[s].from = None
    <3>1. w # t
      BY <1>16, <2>2 DEF Leaf
    <3>2. w \in A /\ a2[w] = a[w]
      BY <1>14, <1>f, <1>q, <3>1
    <3>3. CASE s = t
      <4>1. w = v /\ v # None
        BY <1>9, <1>f, <2>2, <3>2, <3>3, Marks
      <4> QED BY <1>4, <1>5, <1>9, <3>2, <3>3, <4>1
    <3>4. CASE s # t
      <4>1. s \in A /\ txn'[s] = txn[s] /\ txn[s].from_parent = w
        BY <1>14, <1>f, <2>2, <3>4
      <4>2. a[w] = "stack" => o[w] \in Threads
        <5>1. Fits(a, o, r, w)
          BY <1>1, <1>f, <3>2
        <5> QED BY <5>1 DEF Fits
      <4> QED BY <1>11, <1>a, <3>2, <4>1, <4>2 DEF Ends
    <3> QED BY <3>3, <3>4
  <2>3. ASSUME NEW y \in Tasks, job'[y].pc = "walk", NEW w \in B, a2[w] = "stack", o[w] = job'[y].dying
        PROVE  Leaf(w, B, txn') <=> w = job'[y].re
    <3>1. job'[y] = job[y]
      BY <1>6, <1>11, <2>3
    <3>2. w # t
      BY <1>q, <2>3
    <3>3. w \in A /\ a[w] = "stack" /\ o[w] = job[y].dying
      BY <1>14, <1>f, <1>q, <2>3, <3>1, <3>2
    <3>4. w # v
      BY <1>5, <1>f, <1>w, <2>3, <3>1, <3>3, Marks
    <3>5. Leaf(w, A, txn) <=> w = job[y].re
      BY <1>a, <2>3, <3>1, <3>3 DEF Ends
    <3> QED BY <1>16, <3>1, <3>3, <3>4, <3>5
  <2> QED BY <2>1, <2>2, <2>3 DEF Ends
<1>18. /\ (\A g \in Threads : g # h => On(g, txn', a2, r) = On(g, txn, a, r)) /\ On(h, txn', a2, r) = On(h, txn, a, r) \cup {t}
       /\ (\A g \in Threads : t \notin On(g, txn, a, r))
  <2>1. ASSUME NEW g \in Threads, NEW w \in Txns, w # t PROVE w \in On(g, txn', a2, r) <=> w \in On(g, txn, a, r)
    BY <1>9, <1>q, <2>1 DEF On
  <2>2. t \in On(h, txn', a2, r)
    BY <1>3, <1>4, <1>9, <1>q DEF On
  <2>3. ASSUME NEW g \in Threads, g # h PROVE t \notin On(g, txn', a2, r)
    BY <1>4, <1>9, <2>3, Marks DEF On
  <2>4. \A g \in Threads : t \notin On(g, txn, a, r)
    BY <1>3, <1>4, Marks DEF On
  <2>5. \A g \in Threads : On(g, txn', a2, r) \subseteq Txns /\ On(g, txn, a, r) \subseteq Txns
    BY DEF On
  <2> QED BY <1>3, <2>1, <2>2, <2>3, <2>4, <2>5
<1>19. Others(h, a, r, a2, r)
  BY <1>8, <1>18 DEF Others
<1>S. Stack(h, v, On(h, txn, a, r), txn, c, d) /\ On(h, txn, a, r) \subseteq Txns
  BY ONLY <1>0, <1>3, <1>p, h \in Threads, StackIs
<1>20. Stacks(a2, r, c2, d2)'
  <2>1. Beneath(h, a, r, c, d, c2, d2)
    <3>1. ASSUME NEW g \in Threads, NEW w \in On(g, txn, a, r) PROVE Under(txn', w, g) = Under(txn, w, g) /\ c2[w] = c[w] /\ d2[w] = d[w]
      <4>1. w \in Txns /\ w # t
        BY <1>18, <3>1 DEF On
      <4> QED BY <1>9, <1>q, <4>1 DEF Under
    <3> QED BY <3>1 DEF Beneath
  <2>2. \A y \in Tasks : job'[y].pc = "walk" \/ job[y].pc = "walk" => job'[y] = job[y] \/ (h \in Threads /\ job'[y].dying = h /\ job[y].dying \in {h, None})
    BY <1>2, <1>6, <1>11
  <2>3. Stack(h, thr'[h].stack, On(h, txn', a2, r), txn', c2, d2)
    <3>1. \A w \in On(h, txn, a, r) : Under(txn', w, h) = Under(txn, w, h) /\ c2[w] = c[w] /\ d2[w] = d[w]
      <4>1. \A w \in On(h, txn, a, r) : w \in Txns /\ w # t
        BY <1>18, <1>S
      <4> QED BY <1>9, <1>q, <4>1 DEF Under
    <3>2. Under(txn', t, h) = v
      BY <1>4, <1>9 DEF Under
    <3>3. v # None => c2[t] = c[v] /\ d[v] < d2[t]
      <4>1. v # None => d[v] \in Nat
        BY <1>1, <1>v DEF Parents
      <4> QED BY <1>q, <4>1
    <3>4. t \in Txns \ On(h, txn, a, r) /\ d2 \in [Txns -> Nat]
      BY <1>3, <1>18, <1>q
    <3>5. Stack(h, t, On(h, txn, a, r) \cup {t}, txn', c2, d2)
      BY ONLY <1>S, <3>1, <3>2, <3>3, <3>4, StackPush
    <3> QED BY <1>8, <1>18, <3>5
  <2>4. \A y \in Tasks : job'[y].pc = "walk" => job'[y].dying # h
    BY <1>6, <1>11, <1>w
  <2>5. h \in Threads =>
           /\ ~thr'[h].dead => Stack(h, thr'[h].stack, On(h, txn', a2, r), txn', c2, d2)
           /\ \A y \in Tasks : job'[y].pc = "walk" /\ job'[y].dying = h => Stack(h, job'[y].t, On(h, txn', a2, r), txn', c2, d2)
           /\ thr'[h].dead /\ On(h, txn', a2, r) # {} => \E y \in Tasks : job'[y].pc = "walk" /\ job'[y].dying = h
    BY <1>3, <1>11, <2>3, <2>4
  <2> QED BY ONLY <1>0, <1>10, <1>19, <2>1, <2>2, <2>5, StacksStep
<1>21. Flights(a2, o, r, c2)'
  <2>1. job'[h].pc \notin {"built", "deliver"}
    BY <1>6, <1>11
  <2>2. /\ (\A w \in Active(txn, a) : c2[w] = c[w])
        /\ \A w \in Txns : r[w] \in Threads /\ r[w] # h => r[w] = r[w]
    BY <1>A, <1>f, <1>q
  <2>3. \A y \in Threads : y # h /\ job[y].pc \in {"built", "deliver"} =>
            txn'[job[y].t].kind = txn[job[y].t].kind /\ txn'[job[y].t].to_thread = txn[job[y].t].to_thread
    <3>1. SUFFICES ASSUME NEW y \in Threads, y # h, job[y].pc \in {"built", "deliver"} PROVE job[y].t # t /\ job[y].t \in Txns
      BY <1>9
    <3>2. Holds(a, o, y, job[y]) /\ job[y] \in JobType /\ Carries(job[y])
      BY <1>h, <3>1, Marks
    <3> QED BY <1>3, <3>1, <3>2 DEF Holds, Carries, JobType, Parents
  <2>4. \A g \in Threads : (~thr'[g].dead => ~thr[g].dead) /\ First(thr[g].todo, thr'[g].todo)
    BY <1>11, <1>12, KeptFirst
  <2>5. \A w \in Txns, g \in Threads : Fresh(w, g, a2, o)' => Fresh(w, g, a, o)
    <3>1. ASSUME NEW w \in Txns, NEW g \in Threads, Fresh(w, g, a2, o)' PROVE Fresh(w, g, a, o)
      <4>1. w # t
        BY <1>q, <3>1 DEF Fresh
      <4> QED BY <1>9, <1>q, <3>1, <4>1 DEF Fresh
    <3> QED BY <3>1
  <2>6. Flown(t, a, r, a2, r, c2)
    <3>1. ASSUME NEW w \in Txns, w # t, txn'[w].kind = "call", a2[w] \in {"queue", "todo", "deliver"}
          PROVE  txn[w].kind = "call" /\ a[w] \in {"queue", "todo", "deliver"} /\ txn'[w].to_thread = txn[w].to_thread
      BY <1>9, <1>q, <3>1
    <3>2. ASSUME u # None PROVE Meets(txn[t].to_thread, t, a2, r, c2)'
      <4>1. v # None /\ Meets(u, v, a, r, c) /\ u \in Threads
        BY <1>1, <1>2, <1>3, <1>p, <3>2 DEF Flights
      <4>2. On(u, txn', a2, r) = On(u, txn, a, r) /\ t \notin On(u, txn, a, r) /\ thr'[u].dead = thr[u].dead
        BY <1>4, <1>11, <1>18, <4>1
      <4>3. \A s \in On(u, txn, a, r) : c2[s] = c[s]
        <5>1. On(u, txn, a, r) \subseteq Txns
          BY DEF On
        <5> QED BY <1>q, <4>2, <5>1
      <4>4. c2[t] = c[v] /\ txn'[t].to_thread = u
        BY <1>4, <1>9, <1>q, <4>1
      <4> QED BY <4>1, <4>2, <4>3, <4>4 DEF Meets
    <3> QED BY <1>4, <1>9, <3>1, <3>2 DEF Flown
  <2>7. Quiet(h, t, h, a, o)
    <3>1. CASE v = None
      <4>1. On(h, txn, a, r) = {}
        BY <1>S, <3>1 DEF Stack
      <4>2. (\A w \in Txns : ~Flying(w, h, a)) /\ (\A y \in Threads : ~Calling(y, h))
        BY ONLY <1>0, <1>3, <4>1, h \in Threads, NoneFlies
      <4>3. \A w \in Txns : ~Fresh(w, h, a, o)
        BY <1>1, <1>2, <1>3, <1>p DEF Flights
      <4> QED BY <4>2, <4>3 DEF Quiet
    <3>2. CASE v # None
      <4>1. Leaf(v, Active(txn, a), txn) /\ (a[v] # "stack" \/ (r[v] = h /\ h = h))
        BY <1>5, <1>A, <3>2
      <4>2. Quiet(h, v, h, a, o)
        BY ONLY <1>0, <1>3, <1>p, <3>2, <4>1, h \in Threads, QuietPop
      <4>3. ~Flying(v, h, a)
        BY <1>5, <3>2 DEF Flying
      <4> QED BY <4>2, <4>3 DEF Quiet
    <3> QED BY <3>1, <3>2
  <2>8. h \in Threads => thr'[h].dead \/ Quiet(h, t, h, a, o)
    BY <2>7
  <2> QED BY ONLY <1>0, <1>1, <1>10, <1>11, <1>19, <2>1, <2>2, <2>3, <2>4, <2>5, <2>6, <2>8, FlightsStack
<1>22. Linked(a2, o, r, c2, d2)'
  BY <1>15, <1>17, <1>20, <1>21, <1>B DEF Linked
<1>23. Turns(a2)'
  <2>1. \A p \in Procs : Turn(p, a2)' = Turn(p, a)
    <3>1. \A p \in Procs, w \in Txns : (w \in Turn(p, a2)' <=> w \in Turn(p, a))
      BY <1>2, <1>3, <1>9, <1>q DEF Turn
    <3> QED BY <3>1 DEF Turn
  <2>2. \A p \in Procs : prc'[p].life = "open" => prc[p].life = "open" /\ SameWork(prc'[p], prc[p])
    BY <1>2 DEF SameWork
  <2> QED BY <1>1, <2>1, <2>2, TurnsHand
<1>24. GhostType(a2, o, r, c2, d2)
  BY <1>1, <1>q DEF GhostType
<1> QED BY <1>10, <1>13, <1>22, <1>23, <1>24, CoreStep

SetHandler(t, v, h) == txn' = [txn EXCEPT ![t].to_parent = v, ![t].to_thread = h]

\* A call is delivered: it goes on the stack of the thread that will handle it.
LEMMA DeliverCall ==
  ASSUME TxnInv, NEW h \in Threads, Deliver(h), txn[job[h].t].kind = "call"
  PROVE  TxnInv'
<1>0. PICK a, o, r, c, d : Core(a, o, r, c, d)
  BY DEF TxnInv
<1>p. PICK t, v, u : t = job[h].t /\ v = thr[h].stack /\ u = job[h].target
  OBVIOUS
<1>d. PICK D : D = DecThread(thr, u)
  OBVIOUS
<1>e. PICK E : E = DecThreadProc(prc, D, u)
  OBVIOUS
<1>A. PICK A : A = Active(txn, a)
  OBVIOUS
<1>1. /\ Base /\ Types /\ JobsOk /\ PoolBound /\ PlaceType(a, o, r) /\ Turns(a) /\ (\A w \in Txns : Fits(a, o, r, w)) /\ h \in Tasks
      /\ c \in [Txns -> Txns] /\ d \in [Txns -> Nat] /\ Flights(a, o, r, c) /\ h # None
  BY <1>0, CoreIs, Marks
<1>a. Chained(A, txn, c, d) /\ Ends(a, o, A) /\ A \subseteq Txns
  BY <1>0, <1>A, CoreIs DEF Active
<1>h. \A y \in Tasks : Holds(a, o, y, job[y]) /\ job[y] \in JobType /\ Carries(job[y])
  BY <1>0, TaskHolds
<1>b. ForThread(h, job[h]) /\ Carries(job[h]) /\ job[h] \in JobType /\ \A w \in Txns : a[w] \in Taken /\ o[w] = h => With(w, job[h])
  BY <1>0, TaskHolds, Marks
<1>2. /\ job[h].pc = "deliver" /\ thr' = SetStack(D, h, t) /\ Become(h, Idle) /\ prc' = EndRead(E, h)
      /\ SetHandler(t, v, h) /\ calls' = calls /\ faults' = faults /\ txn[t].kind = "call"
  BY <1>p, <1>d, <1>e DEF Deliver, SetStack, SetHandler
<1>3. /\ t \in Txns /\ a[t] = "deliver" /\ o[t] = h /\ r[t] = None /\ txn[t].to_proc = ProcOf[h] /\ txn[t].to_thread \in {None, h}
      /\ \A w \in Txns : With(w, job[h]) => w = t
  BY ONLY <1>0, <1>2, <1>p, h \in Threads, DeliverHas
<1>4. /\ D \in [Threads -> ThreadType]
      /\ \A g \in Threads : /\ D[g].dead = thr[g].dead /\ D[g].todo = thr[g].todo
                            /\ ~thr[g].dead => SameRun(D[g], thr[g])
                            /\ D[g].waiting => SameRun(D[g], thr[g])
      /\ E \in [Procs -> ProcType] /\ (\A p \in Procs : SameWork(E[p], prc[p]))
      /\ ~thr[h].dead /\ ~thr[h].waiting
  BY ONLY <1>0, <1>2, <1>p, <1>d, <1>e, h \in Threads, DeliverDrops
<1>5. t \in A /\ Leaf(t, A, txn) /\ txn[t] \in TxnType /\ txn[t].from # h /\ t # None
  <2>1. t \in A
    BY <1>2, <1>3, <1>A DEF Active
  <2>2. Leaf(t, A, txn)
    BY <1>3, <1>a, <2>1 DEF Ends
  <2>3. txn[t] \in TxnType /\ Fits(a, o, r, t)
    BY <1>1, <1>3 DEF Types
  <2>4. ProcOf[h] # None
    BY Marks
  <2>5. txn[t].from # h
    BY <1>1, <1>3, <2>3, <2>4 DEF Fits
  <2> QED BY <1>3, <2>1, <2>2, <2>3, <2>5, Marks
<1>v. v \in Parents
  BY <1>1, <1>p DEF Types, ThreadType
<1>S. /\ Stack(h, v, On(h, txn, a, r), txn, c, d) /\ On(h, txn, a, r) \subseteq A /\ On(h, txn, a, r) \subseteq Txns
      /\ (v # None => v \in On(h, txn, a, r) /\ v \in A)
  BY ONLY <1>0, <1>4, <1>p, <1>A, h \in Threads, StackIs
<1>6. /\ (txn[t].to_thread = None => v = None)
      /\ (txn[t].to_thread = h => On(h, txn, a, r) # {} /\ \A z \in On(h, txn, a, r) : c[z] = c[t])
  BY <1>1, <1>2, <1>3, <1>4, <1>p DEF Flights, Meets
<1>n. t \notin On(h, txn, a, r)
  BY <1>1, <1>3, <1>5 DEF On
<1>7. v # None => c[t] = c[v] /\ d[v] < d[t] /\ v # t
  <2> SUFFICES ASSUME v # None PROVE c[t] = c[v] /\ d[v] < d[t] /\ v # t
    OBVIOUS
  <2>1. c[v] = c[t] /\ v # t /\ v \in A
    BY <1>3, <1>6, <1>S, <1>n
  <2>2. d[v] <= d[t] /\ (v # t => d[v] < d[t])
    BY ONLY <1>1, <1>5, <1>a, <2>1, LeafDeepest
  <2> QED BY <2>1, <2>2
<1>g. PICK a2, r2 : a2 = Put(a, t, "stack") /\ r2 = Put(r, t, h)
  OBVIOUS
<1>q. /\ PlaceType(a2, o, r2) /\ a2[t] = "stack" /\ r2[t] = h /\ (\A w \in Txns : w # t => a2[w] = a[w] /\ r2[w] = r[w])
  BY <1>1, <1>3, <1>g DEF PlaceType, Places, Put
<1>8. /\ thr' \in [Threads -> ThreadType] /\ (\A g \in Threads : g # h => thr'[g] = D[g])
      /\ SameLife(thr'[h], D[h]) /\ SameFlags(thr'[h], D[h]) /\ thr'[h].todo = D[h].todo
      /\ thr'[h].process_todo = D[h].process_todo /\ thr'[h].stack = t
  <2>1. t \in Parents /\ thr' = SetStack(D, h, t)
    BY <1>2, <1>3 DEF Parents
  <2>2. D \in [Threads -> ThreadType]
    BY <1>4
  <2> QED BY ONLY <2>1, <2>2, h \in Threads, FieldIs
<1>9. /\ txn' \in [Txns -> TxnType] /\ (\A w \in Txns : w # t => txn'[w] = txn[w])
      /\ txn'[t].to_parent = v /\ txn'[t].to_thread = h /\ txn'[t].kind = txn[t].kind /\ txn'[t].from = txn[t].from
      /\ txn'[t].to_proc = txn[t].to_proc /\ txn'[t].from_parent = txn[t].from_parent
  <2>1. PICK R : R = [txn[t] EXCEPT !.to_parent = v, !.to_thread = h]
    OBVIOUS
  <2>2. /\ R \in TxnType /\ R.to_parent = v /\ R.to_thread = h /\ R.kind = txn[t].kind /\ R.from = txn[t].from /\ R.to_proc = txn[t].to_proc
        /\ R.from_parent = txn[t].from_parent
    BY <1>5, <1>v, <2>1 DEF TxnType
  <2>3. txn' = [txn EXCEPT ![t] = R] /\ txn \in [Txns -> TxnType]
    BY <1>1, <1>2, <2>1 DEF SetHandler, Types
  <2>4. txn' \in [Txns -> TxnType] /\ (\A w \in Txns : w # t => txn'[w] = txn[w]) /\ txn'[t] = R
    BY <1>3, <2>2, <2>3
  <2> QED BY <2>2, <2>4
<1>f. /\ prc' \in [Procs -> ProcType] /\ \A q \in Procs : SameProc(prc'[q], E[q]) /\ prc'[q].requested + prc'[q].started <= MaxThreads
  <2>1. \A q \in Procs : E[q].requested = prc[q].requested /\ E[q].started = prc[q].started
    BY <1>4 DEF SameWork
  <2> QED BY <1>1, <1>2, <1>4, <2>1, EndReadIs
<1>i. Idle \in JobType /\ Carries(Idle) /\ ForThread(h, Idle) /\ Idle.target = None /\ Idle.proc = None /\ Idle.dying = None /\ Idle.pc = "idle"
      /\ Idle.t = None /\ Idle.re = None
  <2>1. Idle \in JobType /\ Carries(Idle) /\ ForThread(h, Idle)
    BY <1>b, <1>2, ThreadGoesOn
  <2> QED BY <2>1 DEF Idle
<1>j. PICK j : j = Idle
  OBVIOUS
<1>10. Base' /\ LifeStep /\ (\A g \in Threads : thr'[g].dead = thr[g].dead) /\ Types' /\ JobsOk'
  <2>1. Types'
    <3>1. job' \in [Tasks -> JobType]
      BY <1>1, <1>2, <1>i DEF Types, Become
    <3> QED BY <1>1, <1>2, <1>8, <1>9, <1>f, <3>1 DEF Types
  <2>2. ProcsStep
    BY <1>4, <1>f DEF ProcsStep, SameWork, SameProc
  <2>3. /\ j \in JobType /\ Become(h, j) /\ Carries(j) /\ ForThread(h, j) /\ j.target = None /\ j.proc = None /\ j.dying = None
        /\ j.pc \notin {"queue", "rsend"}
    BY <1>2, <1>i, <1>j
  <2>4. \A g \in Threads : /\ SameLife(thr'[g], D[g]) /\ thr'[g].todo = D[g].todo /\ thr'[g].process_todo = D[g].process_todo
                           /\ thr'[g].waiting => D[g].waiting /\ thr'[g].stack = D[g].stack
    <3>1. ~D[h].waiting
      BY <1>4 DEF SameRun
    <3> QED BY <1>8, <3>1 DEF SameLife, SameFlags
  <2>5. \A p \in Procs : prc'[p].life = E[p].life /\ prc'[p].tmp = E[p].tmp
    BY <1>f DEF SameProc
  <2>6. Base' /\ LifeStep /\ \A g \in Threads : thr'[g].dead = thr[g].dead
    BY ONLY <1>0, <1>2, <1>p, <1>d, <1>e, <2>1, <2>2, <2>3, <2>4, <2>5, h \in Threads, DeliverBase
  <2>7. JobsOk'
    BY <2>6 DEF Base
  <2> QED BY <2>1, <2>6, <2>7
<1>11. job'[h] = Idle /\ (\A y \in Tasks : y # h => job'[y] = job[y])
  BY <1>1, <1>2 DEF Types, Become
<1>w. \A y \in Tasks : job[y].pc = "walk" => job[y].dying # h /\ job[y].dying \in Threads /\ job[y].re # t
  <2>1. ASSUME NEW y \in Tasks, job[y].pc = "walk" PROVE job[y].dying # h /\ job[y].dying \in Threads /\ job[y].re # t
    <3>1. job[y].dying \in Threads /\ thr[job[y].dying].dead
      BY ONLY <1>1, <2>1, WalksDead
    <3>2. Holds(a, o, y, job[y])
      BY <1>h
    <3> QED BY <1>3, <1>4, <1>5, <3>1, <3>2 DEF Holds
  <2> QED BY <2>1
<1>12. ListsStay
  <2>1. \A g \in Threads : thr'[g].todo = thr[g].todo
    BY <1>4, <1>8
  <2>2. \A p \in Procs : prc'[p].todo = prc[p].todo /\ prc'[p].async_todo = prc[p].async_todo
    BY <1>4, <1>f DEF SameWork, SameProc
  <2> QED BY <2>1, <2>2, KeptSame DEF ListsStay
<1>13. Placed(a2, o, r2)'
  <2>1. Fits(a2, o, r2, t)'
    <3>1. Fits(a, o, r, t)
      BY <1>1, <1>3
    <3> QED BY <1>1, <1>2, <1>3, <1>5, <1>9, <1>q, <3>1 DEF Fits
  <2>2. ASSUME NEW w \in Txns PROVE Placing(w, h, None, a, o, r, a2, o, r2)
    <3>1. CASE w # t
      BY <1>9, <1>q, <3>1 DEF Placing
    <3>2. CASE w = t
      <4>1. Handed(t, h, None, a, o, a2, o)
        BY <1>3, <1>q, <1>w DEF Handed, Taken
      <4> QED BY <2>1, <3>2, <4>1 DEF Placing
    <3> QED BY <3>1, <3>2
  <2>3. HasNow(h, a2, o, r2)
    <3>1. Holds(a2, o, h, job'[h])
      BY <1>11, <1>i DEF Holds
    <3>2. ASSUME NEW w \in Txns, a2[w] \in Taken, o[w] = h PROVE FALSE
      <4>1. w # t
        BY <1>q, <3>2 DEF Taken
      <4>2. With(w, job[h])
        BY <1>b, <1>q, <3>2, <4>1
      <4> QED BY <1>3, <4>1, <4>2
    <3> QED BY <3>1, <3>2 DEF HasNow
  <2>4. ListsGo(None, a, o, a2, o)
    BY <1>12, ListsGoNone
  <2>5. \A g \in Threads : thr[g].dead => thr'[g].dead
    BY <1>10
  <2> QED BY ONLY <1>0, <1>1, <1>10, <1>11, <2>2, <2>3, <2>4, <2>5, PlacedStep
<1>B. PICK B : B = Active(txn', a2)
  OBVIOUS
<1>14. B = A
  <2>1. \A w \in Txns : w # t => (w \in B <=> w \in A)
    BY <1>9, <1>A, <1>B, <1>q DEF Active
  <2>2. B \subseteq Txns
    BY <1>B DEF Active
  <2>3. t \in B
    BY <1>2, <1>3, <1>9, <1>B, <1>q DEF Active
  <2> QED BY <1>5, <1>a, <2>1, <2>2, <2>3
<1>15. Chained(B, txn', c, d) /\ \A w : Leaf(w, B, txn') <=> Leaf(w, A, txn)
  <2>1. \A w \in A : txn'[w].from_parent = txn[w].from_parent
    BY <1>9, <1>a
  <2>2. Chained(A, txn', c, d) /\ \A w : Leaf(w, A, txn') <=> Leaf(w, A, txn)
    BY ONLY <1>a, <2>1, ChainSame
  <2> QED BY <1>14, <2>2
<1>17. Ends(a2, o, B)'
  <2>1. ASSUME NEW w \in B PROVE /\ a2[w] \in {"queue", "todo", "ptodo", "deliver", "job"} => Leaf(w, B, txn')
                                 /\ a2[w] = "orphan" => ~Leaf(w, B, txn')
    <3>1. CASE w = t
      BY <1>q, <3>1
    <3>2. CASE w # t
      <4>1. w \in A /\ a2[w] = a[w]
        BY <1>14, <1>a, <1>q, <3>2
      <4> QED BY <1>15, <1>a, <4>1 DEF Ends
    <3> QED BY <3>1, <3>2
  <2>2. ASSUME NEW w \in B, NEW s \in B, txn'[s].from_parent = w
        PROVE  /\ a2[w] = "stack" => \/ txn'[s].from = o[w]
                                     \/ thr'[o[w]].dead /\ txn'[s].from = None
               /\ a2[w] = "orphan" => txn'[s].from = None
    <3>1. w # t
      BY <1>5, <1>15, <2>2 DEF Leaf
    <3>2. w \in A /\ a2[w] = a[w] /\ s \in A
      BY <1>14, <1>a, <1>q, <3>1
    <3>3. txn'[s].from = txn[s].from /\ txn[s].from_parent = w
      BY <1>9, <1>a, <2>2, <3>2
    <3>4. a[w] = "stack" => o[w] \in Threads
      <4>1. Fits(a, o, r, w)
        BY <1>1, <1>a, <3>2
      <4> QED BY <4>1 DEF Fits
    <3> QED BY <1>10, <1>a, <3>2, <3>3, <3>4 DEF Ends
  <2>3. ASSUME NEW y \in Tasks, job'[y].pc = "walk", NEW w \in B, a2[w] = "stack", o[w] = job'[y].dying
        PROVE  Leaf(w, B, txn') <=> w = job'[y].re
    <3>1. job'[y] = job[y]
      BY <1>11, <1>i, <2>3
    <3>2. w # t
      BY <1>3, <1>w, <2>3, <3>1
    <3>3. w \in A /\ a[w] = "stack" /\ o[w] = job[y].dying
      BY <1>14, <1>a, <1>q, <2>3, <3>1, <3>2
    <3>4. Leaf(w, A, txn) <=> w = job[y].re
      BY <1>a, <2>3, <3>1, <3>3 DEF Ends
    <3> QED BY <1>15, <3>1, <3>4
  <2> QED BY <2>1, <2>2, <2>3 DEF Ends
<1>18. (\A g \in Threads : g # h => On(g, txn', a2, r2) = On(g, txn, a, r)) /\ On(h, txn', a2, r2) = On(h, txn, a, r) \cup {t}
  <2>1. ASSUME NEW g \in Threads, NEW w \in Txns, w # t PROVE w \in On(g, txn', a2, r2) <=> w \in On(g, txn, a, r)
    BY <1>9, <1>q, <2>1 DEF On
  <2>2. t \in On(h, txn', a2, r2)
    BY <1>3, <1>q DEF On
  <2>3. ASSUME NEW g \in Threads, g # h PROVE t \in On(g, txn', a2, r2) <=> t \in On(g, txn, a, r)
    BY <1>3, <1>9, <1>q, <2>3, Marks DEF On
  <2>5. \A g \in Threads : On(g, txn', a2, r2) \subseteq Txns /\ On(g, txn, a, r) \subseteq Txns
    BY DEF On
  <2> QED BY <1>3, <2>1, <2>2, <2>3, <2>5
<1>19. Others(h, a, r, a2, r2)
  BY <1>4, <1>8, <1>10, <1>18 DEF Others, SameRun
<1>20. Stacks(a2, r2, c, d)'
  <2>1. Beneath(h, a, r, c, d, c, d)
    <3>1. ASSUME NEW g \in Threads, g # h, NEW w \in On(g, txn, a, r) PROVE Under(txn', w, g) = Under(txn, w, g)
      <4>1. w \in Txns
        BY <3>1 DEF On
      <4>2. g # None
        BY <3>1, Marks
      <4> QED BY <1>3, <1>9, <3>1, <4>1, <4>2 DEF Under
    <3> QED BY <3>1 DEF Beneath
  <2>2. \A y \in Tasks : job'[y].pc = "walk" \/ job[y].pc = "walk" => job'[y] = job[y] \/ (h \in Threads /\ job'[y].dying = h /\ job[y].dying \in {h, None})
    BY <1>2, <1>i, <1>11
  <2>3. Stack(h, thr'[h].stack, On(h, txn', a2, r2), txn', c, d)
    <3>1. \A w \in On(h, txn, a, r) : Under(txn', w, h) = Under(txn, w, h) /\ c[w] = c[w] /\ d[w] = d[w]
      <4>1. \A w \in On(h, txn, a, r) : w \in Txns /\ w # t
        BY <1>S, <1>n
      <4> QED BY <1>9, <4>1 DEF Under
    <3>2. Under(txn', t, h) = v
      BY <1>9 DEF Under
    <3>3. v # None => c[t] = c[v] /\ d[v] < d[t]
      BY <1>7
    <3>4. t \in Txns \ On(h, txn, a, r) /\ d \in [Txns -> Nat]
      BY <1>1, <1>3, <1>n
    <3>5. Stack(h, t, On(h, txn, a, r) \cup {t}, txn', c, d)
      BY ONLY <1>S, <3>1, <3>2, <3>3, <3>4, StackPush
    <3> QED BY <1>8, <1>18, <3>5
  <2>4. \A y \in Tasks : job'[y].pc = "walk" => job'[y].dying # h
    BY <1>i, <1>11, <1>w
  <2>5. h \in Threads =>
           /\ ~thr'[h].dead => Stack(h, thr'[h].stack, On(h, txn', a2, r2), txn', c, d)
           /\ \A y \in Tasks : job'[y].pc = "walk" /\ job'[y].dying = h => Stack(h, job'[y].t, On(h, txn', a2, r2), txn', c, d)
           /\ thr'[h].dead /\ On(h, txn', a2, r2) # {} => \E y \in Tasks : job'[y].pc = "walk" /\ job'[y].dying = h
    BY <1>4, <1>10, <2>3, <2>4
  <2> QED BY ONLY <1>0, <1>10, <1>19, <2>1, <2>2, <2>5, StacksStep
<1>21. Flights(a2, o, r2, c)'
  <2>1. job'[h].pc \notin {"built", "deliver"}
    BY <1>i, <1>11
  <2>2. /\ (\A w \in Active(txn, a) : c[w] = c[w])
        /\ \A w \in Txns : r[w] \in Threads /\ r[w] # h => r2[w] = r[w]
    BY <1>3, <1>q, Marks
  <2>3. \A y \in Threads : y # h /\ job[y].pc \in {"built", "deliver"} =>
            txn'[job[y].t].kind = txn[job[y].t].kind /\ txn'[job[y].t].to_thread = txn[job[y].t].to_thread
    <3>1. SUFFICES ASSUME NEW y \in Threads, y # h, job[y].pc \in {"built", "deliver"} PROVE job[y].t # t /\ job[y].t \in Txns
      BY <1>9
    <3>2. Holds(a, o, y, job[y]) /\ job[y] \in JobType /\ Carries(job[y])
      BY <1>h, <3>1, Marks
    <3> QED BY <1>3, <3>1, <3>2 DEF Holds, Carries, JobType, Parents
  <2>4. \A g \in Threads : (~thr'[g].dead => ~thr[g].dead) /\ First(thr[g].todo, thr'[g].todo)
    BY <1>10, <1>12, KeptFirst
  <2>5. \A w \in Txns, g \in Threads : Fresh(w, g, a2, o)' => Fresh(w, g, a, o)
    <3>1. ASSUME NEW w \in Txns, NEW g \in Threads, Fresh(w, g, a2, o)' PROVE Fresh(w, g, a, o)
      <4>1. w # t
        BY <1>q, <3>1 DEF Fresh
      <4> QED BY <1>9, <1>q, <3>1, <4>1 DEF Fresh
    <3> QED BY <3>1
  <2>6. Flown(t, a, r, a2, r2, c)
    <3>1. ASSUME NEW w \in Txns, a2[w] \in {"queue", "todo", "deliver"} PROVE w # t /\ txn'[w] = txn[w] /\ a2[w] = a[w]
      BY <1>9, <1>q, <3>1
    <3> QED BY <3>1 DEF Flown
  <2>7. Quiet(h, t, h, a, o)
    <3>1. \A w \in Txns : ~Fresh(w, h, a, o)
      BY <1>1, <1>2, <1>4, <1>p DEF Flights
    <3>2. CASE txn[t].to_thread = None
      <4>1. On(h, txn, a, r) = {}
        BY <1>6, <1>S, <3>2 DEF Stack
      <4>2. (\A w \in Txns : ~Flying(w, h, a)) /\ (\A y \in Threads : ~Calling(y, h))
        BY ONLY <1>0, <1>4, <4>1, h \in Threads, NoneFlies
      <4> QED BY <3>1, <4>2 DEF Quiet
    <3>3. CASE txn[t].to_thread = h
      <4>1. t \in Active(txn, a) /\ Leaf(t, Active(txn, a), txn) /\ \A y \in On(h, txn, a, r) : c[y] = c[t]
        BY <1>5, <1>6, <1>A, <3>3
      <4>2. (\A w \in Txns : Flying(w, h, a) => w = t) /\ (\A y \in Threads : Calling(y, h) => thr[y].stack = t)
        BY ONLY <1>0, <1>4, <4>1, h \in Threads, InFlight
      <4>3. \A y \in Threads : ~Calling(y, h)
        <5>1. ASSUME NEW y \in Threads, Calling(y, h) PROVE FALSE
          <6>1. thr[y].stack = t
            BY <4>2, <5>1
          <6>2. r[t] = y
            BY <1>1, <1>5, <5>1, <6>1 DEF Flights, Calling
          <6> QED BY <1>3, <5>1, <6>2, Marks
        <5> QED BY <5>1
      <4> QED BY <3>1, <4>2, <4>3 DEF Quiet
    <3> QED BY <1>3, <3>2, <3>3
  <2>8. h \in Threads => thr'[h].dead \/ Quiet(h, t, h, a, o)
    BY <2>7
  <2> QED BY ONLY <1>0, <1>1, <1>10, <1>11, <1>19, <2>1, <2>2, <2>3, <2>4, <2>5, <2>6, <2>8, FlightsStack
<1>22. Linked(a2, o, r2, c, d)'
  BY <1>15, <1>17, <1>20, <1>21, <1>B DEF Linked
<1>23. Turns(a2)'
  <2>1. \A p \in Procs : Turn(p, a2)' = Turn(p, a)
    <3>1. \A p \in Procs, w \in Txns : (w \in Turn(p, a2)' <=> w \in Turn(p, a))
      BY <1>2, <1>3, <1>9, <1>q DEF Turn
    <3> QED BY <3>1 DEF Turn
  <2>2. \A p \in Procs : prc'[p].life = "open" =>
           /\ prc[p].life = "open" /\ Turn(p, a2)' = Turn(p, a) /\ prc'[p].buffers = prc[p].buffers
           /\ prc'[p].stuck = prc[p].stuck /\ prc'[p].has_async = prc[p].has_async
           /\ Len(prc'[p].async_todo) > 0 => Len(prc[p].async_todo) > 0
    <3>1. ASSUME NEW p \in Procs PROVE /\ prc'[p].buffers = prc[p].buffers /\ prc'[p].stuck = prc[p].stuck
                                       /\ prc'[p].has_async = prc[p].has_async /\ prc'[p].async_todo = prc[p].async_todo
      BY <1>4, <1>f DEF SameWork, SameProc
    <3>2. \A p \in Procs : prc'[p].life = "open" => prc[p].life = "open"
      BY <1>10 DEF LifeStep
    <3> QED BY <2>1, <3>1, <3>2
  <2> QED BY ONLY <1>1, <2>2, TurnsSame
<1>24. GhostType(a2, o, r2, c, d)
  BY <1>1, <1>q DEF GhostType
<1> QED BY <1>10, <1>13, <1>22, <1>23, <1>24, CoreStep

-----------------------------------------------------------------------------
(* The walk over the stack of a released thread.                           *)

\* Only one task releases a thread.
LEMMA OneReleases ==
  ASSUME Types, JobsOk, Lives, NEW x \in Tasks, NEW y \in Tasks, job[x].dying # None, job[y].dying = job[x].dying
  PROVE  x = y
<1>p. PICK h : h = job[x].dying
  OBVIOUS
<1>1. h \in Threads /\ job[x].pc # "idle" /\ job[y].pc # "idle" /\ job[x].pc \notin {"threads", "todo"} /\ job[y].pc \notin {"threads", "todo"}
  <2>1. job[x] \in JobType /\ Carries(job[x]) /\ job[y] \in JobType /\ Carries(job[y])
    BY DEF Types, JobsOk
  <2> QED BY <1>p, <2>1 DEF JobType, Carries
<1>2. \A g \in Threads : ThreadJob(g)
  BY DEF JobsOk
<1>3. x \in Threads => x = h /\ prc[ProcOf[h]].life = "open"
  BY <1>1, <1>2, <1>p, Marks DEF ThreadJob
<1>4. y \in Threads => y = h /\ prc[ProcOf[h]].life = "open"
  BY <1>1, <1>2, <1>p, Marks DEF ThreadJob
<1>5. x = Worker \/ y = Worker => prc[ProcOf[h]].life # "open"
  BY <1>1, <1>p DEF JobsOk, WorkerJob
<1> QED BY <1>3, <1>4, <1>5, Marks

\* What the walk of task x has before it: transaction t on top of the stack of h, or what is left of it.
LEMMA WalkHas ==
  ASSUME NEW a, NEW o, NEW r, NEW c, NEW d, Core(a, o, r, c, d), NEW x \in Tasks, job[x].pc = "walk",
         NEW t, t = job[x].t, NEW h, h = job[x].dying
  PROVE  /\ h \in Threads /\ thr[h].dead /\ t \in Txns /\ txn[t].kind = "call" /\ t \in On(h, txn, a, r) /\ h # None
         /\ Stack(h, t, On(h, txn, a, r), txn, c, d) /\ On(h, txn, a, r) \subseteq Txns
         /\ (\A y \in Tasks : y # x /\ job[y].pc = "walk" => job[y].dying # h)
         /\ (txn[t].to_thread = h => r[t] = h /\ txn[t].from # h /\ a[t] \in {"stack", "job", "done"} /\ (a[t] = "stack" => o[t] = h))
         /\ (txn[t].to_thread # h => txn[t].from = h /\ r[t] # h /\ t \in Active(txn, a) /\ a[t] \notin {"queue", "built", "done"}
                                     /\ (a[t] = "stack" => o[t] # h))
         /\ (job[x].re # None => (a[job[x].re] = "job" /\ o[job[x].re] = x) \/ (job[x].re = t /\ a[t] = "stack" /\ o[t] = h))
<1>1. /\ Types /\ JobsOk /\ Lives /\ PlaceType(a, o, r) /\ Stacks(a, r, c, d) /\ (\A w \in Txns : Fits(a, o, r, w))
  BY CoreIs
<1>2. h \in Threads /\ thr[h].dead
  BY ONLY <1>1, x \in Tasks, job[x].pc = "walk", h = job[x].dying, WalksDead
<1>3. job[x] \in JobType /\ Carries(job[x]) /\ Holds(a, o, x, job[x])
  BY TaskHolds
<1>4. t \in Txns /\ t # None /\ h # None
  BY <1>2, <1>3, Marks DEF Carries, JobType, Parents
<1>5. Stack(h, t, On(h, txn, a, r), txn, c, d) /\ On(h, txn, a, r) \subseteq Txns
  BY <1>1 DEF Stacks, On
<1>6. t \in On(h, txn, a, r)
  BY <1>4, <1>5 DEF Stack
<1>7. /\ txn[t].kind = "call" /\ (txn[t].from = h => t \in Active(txn, a) /\ r[t] # h /\ txn[t].to_thread # h)
      /\ (r[t] = h => txn[t].to_thread = h)
  BY ONLY <1>1, <1>2, <1>6, OnActive
<1>8. \A y \in Tasks : y # x /\ job[y].pc = "walk" => job[y].dying # h
  BY <1>1, <1>4, OneReleases
<1>9. (txn[t].from = h /\ a[t] # "built") \/ r[t] = h
  BY <1>6 DEF On
<1>10. Fits(a, o, r, t)
  BY <1>1, <1>4
<1>11. txn[t].to_thread = h => r[t] = h /\ txn[t].from # h /\ a[t] \in {"stack", "job", "done"} /\ (a[t] = "stack" => o[t] = h)
  BY <1>2, <1>4, <1>7, <1>9, <1>10 DEF Fits
<1>12. a[t] = "queue" /\ txn[t].from = h => FALSE
  <2> SUFFICES ASSUME a[t] = "queue", txn[t].from = h PROVE FALSE
    OBVIOUS
  <2>1. o[t] = h
    BY <1>7, <1>10 DEF Fits
  <2>2. h \in Tasks /\ With(t, job[h]) /\ Holds(a, o, h, job[h]) /\ Carries(job[h]) /\ ForThread(h, job[h])
    <3>1. h \in Tasks
      BY <1>2, Marks
    <3>2. a[t] \in Taken
      BY DEF Taken
    <3> QED BY <1>2, <1>4, <2>1, <3>1, <3>2, TaskHolds
  <2>3. job[h].t = t /\ job[h].pc # "walk"
    <3>1. t # job[h].re
      BY <1>4, <2>2 DEF Holds
    <3> QED BY <2>2, <3>1 DEF With
  <2>4. job[h].pc = "queue"
    <3>1. job[h].pc \in {"idle", "built", "queue", "reply0", "reply1", "rbuilt", "rsend", "fail1", "fail2", "free", "deliver", "walk", "drain", "threads", "todo"}
      <4>1. job[h] \in JobType
        BY <1>1, <2>2 DEF Types
      <4> QED BY <4>1 DEF JobType
    <3>2. job[h].pc \notin {"built", "rbuilt", "rsend", "deliver", "fail1", "fail2", "free"}
      BY <1>4, <2>2, <2>3 DEF Holds
    <3>3. job[h].pc \notin {"idle", "reply0", "reply1", "drain", "threads", "todo"}
      BY <1>4, <2>2, <2>3 DEF Carries, Idle
    <3> QED BY <2>3, <3>1, <3>2, <3>3
  <2>5. job[h].dying = None
    BY <2>2, <2>4 DEF Carries
  <2> QED BY <1>2, <1>4, <2>2, <2>4, <2>5 DEF ForThread
<1>13. txn[t].to_thread # h => txn[t].from = h /\ r[t] # h /\ t \in Active(txn, a) /\ a[t] \notin {"queue", "built", "done"} /\ (a[t] = "stack" => o[t] # h)
  <2> SUFFICES ASSUME txn[t].to_thread # h
               PROVE  txn[t].from = h /\ r[t] # h /\ t \in Active(txn, a) /\ a[t] \notin {"queue", "built", "done"} /\ (a[t] = "stack" => o[t] # h)
    OBVIOUS
  <2>1. txn[t].from = h /\ r[t] # h /\ t \in Active(txn, a) /\ a[t] # "built"
    BY <1>7, <1>9
  <2>2. a[t] # "done"
    BY <1>4, <1>10, <2>1 DEF Fits
  <2>3. a[t] = "stack" => o[t] # h
    BY <1>10, <2>1 DEF Fits
  <2> QED BY <1>12, <2>1, <2>2, <2>3
<1>14. job[x].re # None => (a[job[x].re] = "job" /\ o[job[x].re] = x) \/ (job[x].re = t /\ a[t] = "stack" /\ o[t] = h)
  BY <1>3 DEF Holds
<1> QED BY <1>2, <1>4, <1>5, <1>6, <1>7, <1>8, <1>11, <1>13, <1>14

\* Transaction t leaves the stack of h, over which task x walks: the call to be answered at the end
\* of the walk goes to x, another one that h handled is behind a call that is not answered.
Leaves(t, h, x, a, o, r, a2, o2, r2) ==
  /\ \A w \in Txns : w # t => txn'[w] = txn[w] /\ a2[w] = a[w] /\ o2[w] = o[w] /\ r2[w] = r[w]
  /\ txn'[t].kind = txn[t].kind /\ txn'[t].from_parent = txn[t].from_parent /\ txn'[t].to_parent = txn[t].to_parent
  /\ \/ /\ txn[t].to_thread = h /\ txn'[t].to_thread = None /\ txn'[t].to_proc = None /\ txn'[t].from = txn[t].from /\ r2[t] = None
        /\ \/ a[t] = "stack" /\ job[x].re = t /\ a2[t] = "job" /\ o2[t] = x
           \/ a[t] = "stack" /\ job[x].re # t /\ a2[t] = "orphan" /\ o2[t] = o[t]
           \/ a[t] # "stack" /\ a2[t] = a[t] /\ o2[t] = o[t]
     \/ /\ txn[t].to_thread # h /\ txn'[t].to_thread = txn[t].to_thread /\ txn'[t].to_proc = txn[t].to_proc
        /\ txn'[t].from = None /\ r2[t] = r[t] /\ a2[t] = a[t] /\ o2[t] = o[t]

\* Such places exist.
LEMMA UnlinkIs ==
  ASSUME NEW a, NEW o, NEW r, Types, PlaceType(a, o, r), NEW x \in Tasks, NEW t \in Txns, NEW h, txn' = Unlink(t, h)
  PROVE  txn' \in [Txns -> TxnType] /\ \E a2, o2, r2 : PlaceType(a2, o2, r2) /\ Leaves(t, h, x, a, o, r, a2, o2, r2)
<1>1. txn \in [Txns -> TxnType] /\ txn[t] \in TxnType
  BY DEF Types
<1>2. x \in Owners
  BY DEF Owners
<1>3. CASE txn[t].to_thread = h
  <2>1. PICK R : R = [txn[t] EXCEPT !.to_proc = None, !.to_thread = None]
    OBVIOUS
  <2>2. /\ R \in TxnType /\ R.to_parent = txn[t].to_parent /\ R.to_thread = None /\ R.kind = txn[t].kind /\ R.from = txn[t].from
        /\ R.to_proc = None /\ R.from_parent = txn[t].from_parent
    BY <1>1, <2>1 DEF TxnType
  <2>3. txn' = [txn EXCEPT ![t] = R]
    BY <1>1, <1>3, <2>1 DEF Unlink
  <2>4. txn' \in [Txns -> TxnType] /\ (\A w \in Txns : w # t => txn'[w] = txn[w]) /\ txn'[t] = R
    BY <1>1, <2>2, <2>3
  <2>5. PICK r2 : r2 = Put(r, t, None)
    OBVIOUS
  <2>6. CASE a[t] = "stack" /\ job[x].re = t
    <3>1. PICK a2, o2 : a2 = Put(a, t, "job") /\ o2 = Put(o, t, x)
      OBVIOUS
    <3>2. PlaceType(a2, o2, r2) /\ a2[t] = "job" /\ o2[t] = x /\ r2[t] = None /\ \A w \in Txns : w # t => a2[w] = a[w] /\ o2[w] = o[w] /\ r2[w] = r[w]
      BY <1>2, <2>5, <3>1 DEF PlaceType, Places, Put
    <3>3. Leaves(t, h, x, a, o, r, a2, o2, r2)
      BY <1>3, <2>2, <2>4, <2>6, <3>2 DEF Leaves
    <3> QED BY <2>4, <3>2, <3>3
  <2>7. CASE a[t] = "stack" /\ job[x].re # t
    <3>1. PICK a2 : a2 = Put(a, t, "orphan")
      OBVIOUS
    <3>2. PlaceType(a2, o, r2) /\ a2[t] = "orphan" /\ r2[t] = None /\ \A w \in Txns : w # t => a2[w] = a[w] /\ r2[w] = r[w]
      BY <2>5, <3>1 DEF PlaceType, Places, Put
    <3>3. Leaves(t, h, x, a, o, r, a2, o, r2)
      BY <1>3, <2>2, <2>4, <2>7, <3>2 DEF Leaves
    <3> QED BY <2>4, <3>2, <3>3
  <2>8. CASE a[t] # "stack"
    <3>2. PlaceType(a, o, r2) /\ r2[t] = None /\ \A w \in Txns : w # t => r2[w] = r[w]
      BY <2>5 DEF PlaceType, Put
    <3>3. Leaves(t, h, x, a, o, r, a, o, r2)
      BY <1>3, <2>2, <2>4, <2>8, <3>2 DEF Leaves
    <3> QED BY <2>4, <3>2, <3>3
  <2> QED BY <2>6, <2>7, <2>8
<1>4. CASE txn[t].to_thread # h
  <2>1. PICK R : R = [txn[t] EXCEPT !.from = None]
    OBVIOUS
  <2>2. /\ R \in TxnType /\ R.to_parent = txn[t].to_parent /\ R.to_thread = txn[t].to_thread /\ R.kind = txn[t].kind /\ R.from = None
        /\ R.to_proc = txn[t].to_proc /\ R.from_parent = txn[t].from_parent
    BY <1>1, <2>1 DEF TxnType
  <2>3. txn' = [txn EXCEPT ![t] = R]
    BY <1>1, <1>4, <2>1 DEF Unlink
  <2>4. txn' \in [Txns -> TxnType] /\ (\A w \in Txns : w # t => txn'[w] = txn[w]) /\ txn'[t] = R
    BY <1>1, <2>2, <2>3
  <2>5. Leaves(t, h, x, a, o, r, a, o, r)
    BY <1>4, <2>2, <2>4 DEF Leaves
  <2> QED BY <2>4, <2>5
<1> QED BY <1>3, <1>4

\* The job of the task after that: the next transaction of the stack is n.
Walked(j, k, n) ==
  /\ j.target = k.target /\ j.proc = k.proc /\ j.dying = k.dying
  /\ \/ n # None /\ j.pc = "walk" /\ j.t = n /\ j.re = k.re
     \/ n = None /\ k.re # None /\ j.pc = "fail1" /\ j.t = k.re /\ j.re = None
     \/ n = None /\ k.re = None /\ j.pc = "drain" /\ j.t = None /\ j.re = None

\* The task goes on with it.
LEMMA WalkedIs ==
  ASSUME NEW a, NEW o, NEW r, NEW c, NEW d, Core(a, o, r, c, d), NEW x \in Tasks, job[x].pc = "walk", NEW n \in Parents,
         NEW j, j = IF n # None THEN [job[x] EXCEPT !.t = n]
                    ELSE [job[x] EXCEPT !.pc = IF job[x].re = None THEN "drain" ELSE "fail1", !.t = job[x].re, !.re = None, !.next = "drain"]
  PROVE  j \in JobType /\ Walked(j, job[x], n) /\ Carries(j) /\ (x \in Threads => ForThread(x, j)) /\ (x = Worker => ForWorker(j))
<1>1. /\ job[x] \in JobType /\ Carries(job[x]) /\ (x \in Threads => ForThread(x, job[x])) /\ (x = Worker => ForWorker(job[x]))
  BY TaskHolds
<1>2. job[x].re \in Parents /\ job[x].dying # None /\ job[x].target = None /\ None \in Parents
  BY <1>1 DEF JobType, Carries, Parents
<1>3. CASE n # None
  <2>1. /\ j \in JobType /\ j.pc = "walk" /\ j.t = n /\ j.re = job[x].re /\ j.target = job[x].target /\ j.proc = job[x].proc
        /\ j.dying = job[x].dying /\ j.next = job[x].next
    <3>1. j = [job[x] EXCEPT !.t = n]
      BY <1>3
    <3> QED BY <1>1, <3>1 DEF JobType
  <2>2. Walked(j, job[x], n)
    BY <1>3, <2>1 DEF Walked
  <2>3. Carries(j)
    BY <1>1, <1>3, <2>1 DEF Carries
  <2>4. x \in Threads => ForThread(x, j)
    BY <1>1, <2>1 DEF ForThread
  <2>5. x = Worker => ForWorker(j)
    BY <1>1, <2>1 DEF ForWorker
  <2> QED BY <2>1, <2>2, <2>3, <2>4, <2>5
<1>4. CASE n = None
  <2>1. /\ j \in JobType /\ j.pc = (IF job[x].re = None THEN "drain" ELSE "fail1") /\ j.t = job[x].re /\ j.re = None /\ j.target = job[x].target
        /\ j.proc = job[x].proc /\ j.dying = job[x].dying /\ j.next = "drain"
    <3>1. j = [job[x] EXCEPT !.pc = IF job[x].re = None THEN "drain" ELSE "fail1", !.t = job[x].re, !.re = None, !.next = "drain"]
      BY <1>4
    <3> QED BY <1>1, <1>2, <3>1 DEF JobType
  <2>2. Walked(j, job[x], n)
    BY <1>4, <2>1 DEF Walked
  <2>3. Carries(j)
    BY <1>2, <2>1 DEF Carries
  <2>4. x \in Threads => ForThread(x, j)
    BY <1>1, <2>1 DEF ForThread
  <2>5. x = Worker => ForWorker(j)
    BY <1>1, <2>1 DEF ForWorker
  <2> QED BY <2>1, <2>2, <2>3, <2>4, <2>5
<1> QED BY <1>3, <1>4

\* The places after a step of the walk.
LEMMA WalkPlaced ==
  ASSUME NEW a, NEW o, NEW r, NEW c, NEW d, Core(a, o, r, c, d), NEW x \in Tasks, job[x].pc = "walk",
         NEW t, t = job[x].t, NEW h, h = job[x].dying, NEW a2, NEW o2, NEW r2, PlaceType(a2, o2, r2), Leaves(t, h, x, a, o, r, a2, o2, r2),
         NEW n, NEW j \in JobType, Become(x, j), Walked(j, job[x], n), Types', thr' = thr, ListsStay
  PROVE  Placed(a2, o2, r2)'
<1>1. /\ Types /\ JobsOk /\ PlaceType(a, o, r) /\ (\A w \in Txns : Fits(a, o, r, w))
  BY CoreIs
<1>2. /\ h \in Threads /\ thr[h].dead /\ t \in Txns /\ txn[t].kind = "call" /\ h # None
      /\ (\A y \in Tasks : y # x /\ job[y].pc = "walk" => job[y].dying # h)
      /\ (txn[t].to_thread = h => r[t] = h /\ txn[t].from # h /\ a[t] \in {"stack", "job", "done"} /\ (a[t] = "stack" => o[t] = h))
      /\ (txn[t].to_thread # h => txn[t].from = h /\ r[t] # h /\ t \in Active(txn, a) /\ a[t] \notin {"queue", "built", "done"}
                                  /\ (a[t] = "stack" => o[t] # h))
      /\ (job[x].re # None => (a[job[x].re] = "job" /\ o[job[x].re] = x) \/ (job[x].re = t /\ a[t] = "stack" /\ o[t] = h))
  BY ONLY Core(a, o, r, c, d), x \in Tasks, job[x].pc = "walk", t = job[x].t, h = job[x].dying, WalkHas
<1>3. job'[x] = j /\ (\A y \in Tasks : y # x => job'[y] = job[y])
  BY <1>1 DEF Types, Become
<1>h. /\ \A y \in Tasks : Holds(a, o, y, job[y]) /\ job[y] \in JobType /\ Carries(job[y])
      /\ \A y \in Tasks, w \in Txns : a[w] \in Taken /\ o[w] = y => With(w, job[y])
  BY TaskHolds
<1>T. \A w \in Txns : a[w] \in Taken => o[w] \in Tasks
  BY CoreIs DEF Held
<1>4. j.pc \in {"walk", "fail1", "drain"} /\ j.dying = h /\ j.proc = job[x].proc /\ (job[x].re # None => With(job[x].re, j))
  BY DEF Walked, With
<1>5. job[x].re # None => a2[job[x].re] = "job" /\ o2[job[x].re] = x
  <2> SUFFICES ASSUME job[x].re # None PROVE a2[job[x].re] = "job" /\ o2[job[x].re] = x
    OBVIOUS
  <2>1. job[x].re \in Txns
    BY <1>h DEF JobType, Parents
  <2>2. CASE job[x].re # t
    BY <1>2, <2>1, <2>2 DEF Leaves
  <2>3. CASE job[x].re = t
    BY <1>2, <2>3 DEF Leaves
  <2> QED BY <2>2, <2>3
<1>6. Fits(a2, o2, r2, t)'
  <2>1. Fits(a, o, r, t)
    BY <1>1, <1>2
  <2>2. CASE txn[t].to_thread = h
    <3>1. /\ txn'[t].kind = "call" /\ txn'[t].to_thread = None /\ txn'[t].to_proc = None /\ txn'[t].from = txn[t].from /\ r2[t] = None
          /\ a2[t] \in {"job", "orphan", "done"} /\ (a2[t] = "orphan" \/ a2[t] = a[t] \/ (a2[t] = "job" /\ o2[t] = x)) /\ (a2[t] = a[t] => o2[t] = o[t])
      BY <1>2, <2>2 DEF Leaves
    <3>2. a2[t] = "job" => /\ txn[t].from # None /\ job'[o2[t]].pc \in {"reply1", "rbuilt", "rsend", "fail2"} => txn[t].from = job'[o2[t]].target
                           /\ txn[t].from = None /\ job'[o2[t]].pc \in {"reply1", "rbuilt", "rsend"} => thr'[job'[o2[t]].target].dead
      <4>1. CASE o2[t] = x
        BY <1>3, <1>4, <4>1
      <4>2. CASE o2[t] # x /\ a2[t] = "job"
        <5>1. a[t] = "job" /\ o2[t] = o[t]
          BY <3>1, <4>2
        <5>2. o[t] \in Tasks
          BY <1>T, <1>2, <5>1 DEF Taken
        <5>3. job'[o2[t]] = job[o[t]]
          BY <1>3, <4>2, <5>1, <5>2
        <5> QED BY <2>1, <5>1, <5>3 DEF Fits
      <4> QED BY <4>1, <4>2
    <3>3. a2[t] = "done" => txn'[t].from = None
      BY <2>1, <3>1 DEF Fits
    <3> QED BY <3>1, <3>2, <3>3, Marks DEF Fits
  <2>3. CASE txn[t].to_thread # h
    <3>1. /\ txn'[t].kind = "call" /\ txn'[t].to_thread = txn[t].to_thread /\ txn'[t].to_proc = txn[t].to_proc /\ txn'[t].from = None
          /\ r2[t] = r[t] /\ a2[t] = a[t] /\ o2[t] = o[t] /\ txn'[t].from_parent = txn[t].from_parent
          /\ txn[t].from = h /\ a[t] \notin {"queue", "built", "done"}
      BY <1>2, <2>3 DEF Leaves
    <3>2. a[t] \notin {"none", "async"}
      BY <1>2, <2>1 DEF Fits
    <3>3. a[t] = "job" => /\ job'[o[t]].pc \in {"reply1", "rbuilt", "rsend"} => thr'[job'[o[t]].target].dead
                          /\ r[t] = None => /\ txn[t].to_thread \in {None, o[t], job'[o[t]].dying}
                                            /\ txn[t].to_proc \in {None, Home(o[t])'}
      <4> SUFFICES ASSUME a[t] = "job" PROVE /\ job'[o[t]].pc \in {"reply1", "rbuilt", "rsend"} => thr'[job'[o[t]].target].dead
                                             /\ r[t] = None => /\ txn[t].to_thread \in {None, o[t], job'[o[t]].dying}
                                                               /\ txn[t].to_proc \in {None, Home(o[t])'}
        OBVIOUS
      <4>1. o[t] \in Tasks
        BY <1>T, <1>2 DEF Taken
      <4>2. job'[o[t]].dying = job[o[t]].dying /\ Home(o[t])' = Home(o[t])
        BY <1>3, <1>4, <4>1 DEF Home
      <4>3. job'[o[t]].pc \in {"reply1", "rbuilt", "rsend"} => thr'[job'[o[t]].target].dead
        <5>1. CASE o[t] = x
          BY <1>3, <1>4, <5>1
        <5>2. CASE o[t] # x
          <6>1. job'[o[t]] = job[o[t]]
            BY <1>3, <4>1, <5>2
          <6> QED BY <1>2, <2>1, <3>1, <6>1 DEF Fits
        <5> QED BY <5>1, <5>2
      <4> QED BY <2>1, <4>2, <4>3 DEF Fits
    <3>4. a[t] = "deliver" => o[t] \in Threads /\ txn[t].to_proc = ProcOf[o[t]] /\ txn[t].to_thread \in {None, o[t]}
      BY <2>1 DEF Fits
    <3> QED BY <1>2, <2>1, <3>1, <3>2, <3>3, <3>4 DEF Fits
  <2> QED BY <2>2, <2>3
<1>7. \A w \in Txns : Placing(w, x, None, a, o, r, a2, o2, r2)
  <2>1. ASSUME NEW w \in Txns, w # t PROVE Placing(w, x, None, a, o, r, a2, o2, r2)
    BY <2>1 DEF Leaves, Placing
  <2>2. Handed(t, x, None, a, o, a2, o2)
    <3>1. CASE a2[t] = a[t] /\ o2[t] = o[t]
      BY <3>1 DEF Handed
    <3>2. CASE ~(a2[t] = a[t] /\ o2[t] = o[t])
      <4>1. a[t] = "stack" /\ (a2[t] = "orphan" \/ (a2[t] = "job" /\ o2[t] = x)) /\ o[t] = h
        BY <1>2, <3>2 DEF Leaves
      <4>2. \A y \in Tasks : y # x /\ job[y].pc = "walk" => job[y].re # t
        <5>1. SUFFICES ASSUME NEW y \in Tasks, y # x, job[y].pc = "walk", job[y].re = t PROVE FALSE
          OBVIOUS
        <5>2. Holds(a, o, y, job[y]) /\ job[y].dying # h /\ t # None
          BY <1>2, <1>h, <5>1, Marks
        <5> QED BY <4>1, <5>1, <5>2 DEF Holds
      <4> QED BY <4>1, <4>2 DEF Handed, Taken
    <3> QED BY <3>1, <3>2
  <2> QED BY <1>6, <2>1, <2>2 DEF Placing
<1>8. HasNow(x, a2, o2, r2)
  <2>1. Holds(a2, o2, x, j)
    BY <1>5 DEF Holds, Walked
  <2>2. ASSUME NEW w \in Txns, a2[w] \in Taken, o2[w] = x PROVE With(w, j) /\ Fits(a2, o2, r2, w)'
    <3>1. CASE w = t
      <4>1. w = job[x].re
        <5>1. CASE a2[t] = a[t] /\ o2[t] = o[t]
          <6>1. With(w, job[x])
            BY <1>h, <2>2, <3>1, <5>1
          <6> QED BY <6>1 DEF With
        <5>2. CASE ~(a2[t] = a[t] /\ o2[t] = o[t])
          BY <2>2, <3>1, <5>2 DEF Leaves, Taken
        <5> QED BY <5>1, <5>2
      <4> QED BY <1>2, <1>4, <1>6, <3>1, <4>1, Marks
    <3>2. CASE w # t
      <4>0. Types /\ PlaceType(a, o, r)
        BY <1>1
      <4>1. txn'[w] = txn[w] /\ a2[w] = a[w] /\ o2[w] = o[w] /\ r2[w] = r[w]
        BY <3>2 DEF Leaves
      <4>2. With(w, job[x])
        BY <1>h, <2>2, <4>1
      <4>3. w = job[x].re /\ w # None
        BY <4>2, Marks DEF With
      <4>4. a[w] = "job" /\ o[w] = x
        BY <1>2, <3>2, <4>3
      <4>5. Fits(a, o, r, w) /\ a[w] \in {"job", "done"} /\ a2[w] \in {"job", "done"} /\ o2[w] = x
        BY <1>1, <4>1, <4>4
      <4>6. job'[x].dying = job[x].dying /\ (x = Worker => job'[x].proc = job[x].proc) /\ \A g \in Threads : thr[g].dead => thr'[g].dead
        BY <1>3, <1>4
      <4>7. a2[w] = "done" => txn[w].from = None
        BY <4>1, <4>4
      <4>8. a2[w] = "job" =>
           /\ txn[w].from # None /\ job'[x].pc \in {"reply1", "rbuilt", "rsend", "fail2"} => txn[w].from = job'[x].target
           /\ txn[w].from = None /\ job'[x].pc \in {"reply1", "rbuilt", "rsend"} => thr'[job'[x].target].dead
        BY <1>3, <1>4
      <4>9. Fits(a2, o2, r2, w)'
        BY ONLY <4>0, <4>1, <4>4, <4>5, <4>6, <4>7, <4>8, w \in Txns, x \in Tasks, FitsJob, SMTT(60)
      <4> QED BY <1>4, <4>3, <4>9
    <3> QED BY <3>1, <3>2
  <2> QED BY <1>3, <2>1, <2>2 DEF HasNow
<1>9. ListsGo(None, a, o, a2, o2)
  BY ListsGoNone
<1>10. \A g \in Threads : thr[g].dead => thr'[g].dead
  OBVIOUS
<1> QED BY ONLY Core(a, o, r, c, d), x \in Tasks, <1>3, Types', <1>7, <1>8, <1>9, <1>10, PlacedStep

\* Chains, stacks and flights after a step of the walk.
LEMMA WalkLinks ==
  ASSUME NEW a, NEW o, NEW r, NEW c, NEW d, Core(a, o, r, c, d), NEW x \in Tasks, job[x].pc = "walk",
         NEW t, t = job[x].t, NEW h, h = job[x].dying, NEW a2, NEW o2, NEW r2, Leaves(t, h, x, a, o, r, a2, o2, r2),
         NEW n, n = Under(txn, t, h), NEW j \in JobType, Become(x, j), Walked(j, job[x], n), Types', JobsOk', thr' = thr
  PROVE  Linked(a2, o2, r2, c, d)'
<1>A. PICK A : A = Active(txn, a)
  OBVIOUS
<1>B. PICK B : B = Active(txn', a2)
  OBVIOUS
<1>1. /\ Types /\ JobsOk /\ PlaceType(a, o, r) /\ (\A w \in Txns : Fits(a, o, r, w)) /\ Flights(a, o, r, c) /\ d \in [Txns -> Nat]
  BY CoreIs
<1>a. Chained(A, txn, c, d) /\ Ends(a, o, A) /\ A \subseteq Txns
  BY <1>A, CoreIs DEF Active
<1>2. /\ h \in Threads /\ thr[h].dead /\ t \in Txns /\ txn[t].kind = "call" /\ t \in On(h, txn, a, r) /\ h # None
      /\ Stack(h, t, On(h, txn, a, r), txn, c, d) /\ On(h, txn, a, r) \subseteq Txns
      /\ (\A y \in Tasks : y # x /\ job[y].pc = "walk" => job[y].dying # h)
      /\ (txn[t].to_thread = h => r[t] = h /\ txn[t].from # h /\ a[t] \in {"stack", "job", "done"} /\ (a[t] = "stack" => o[t] = h))
      /\ (txn[t].to_thread # h => txn[t].from = h /\ r[t] # h /\ t \in Active(txn, a) /\ a[t] \notin {"queue", "built", "done"}
                                  /\ (a[t] = "stack" => o[t] # h))
  BY ONLY Core(a, o, r, c, d), x \in Tasks, job[x].pc = "walk", t = job[x].t, h = job[x].dying, WalkHas
<1>3. job'[x] = j /\ (\A y \in Tasks : y # x => job'[y] = job[y])
  BY <1>1 DEF Types, Become
<1>h. \A y \in Tasks : Holds(a, o, y, job[y]) /\ job[y] \in JobType /\ Carries(job[y])
  BY TaskHolds
<1>4. j.pc \in {"walk", "fail1", "drain"} /\ j.dying = h /\ (j.pc = "walk" <=> n # None) /\ (j.pc = "walk" => j.t = n /\ j.re = job[x].re)
  BY DEF Walked
<1>w. \A w \in Txns : w # t => txn'[w] = txn[w] /\ a2[w] = a[w] /\ o2[w] = o[w] /\ r2[w] = r[w]
  BY DEF Leaves
<1>k. txn'[t].kind = "call" /\ txn'[t].from_parent = txn[t].from_parent /\ txn'[t].to_parent = txn[t].to_parent
  BY <1>2 DEF Leaves
\* The two ways in which the transaction leaves the stack.
<1>i. txn[t].to_thread = h =>
        /\ txn'[t].to_thread = None /\ txn'[t].from = txn[t].from /\ r2[t] = None /\ a2[t] \in {"job", "orphan", "done"}
        /\ \/ a[t] = "stack" /\ job[x].re = t /\ a2[t] = "job" /\ o2[t] = x
           \/ a[t] = "stack" /\ job[x].re # t /\ a2[t] = "orphan" /\ o2[t] = o[t]
           \/ a[t] # "stack" /\ a2[t] = a[t] /\ o2[t] = o[t]
  BY <1>2 DEF Leaves
<1>o. txn[t].to_thread # h =>
        txn'[t].to_thread = txn[t].to_thread /\ txn'[t].from = None /\ r2[t] = r[t] /\ a2[t] = a[t] /\ o2[t] = o[t]
  BY DEF Leaves
<1>5. B = A
  <2>1. \A w \in Txns : w # t => (w \in B <=> w \in A)
    BY <1>w, <1>A, <1>B DEF Active
  <2>2. B \subseteq Txns
    BY <1>B DEF Active
  <2>3. t \in B <=> t \in A
    <3>1. a2[t] \in {"none", "built", "done"} <=> a[t] \in {"none", "built", "done"}
      BY <1>2, <1>i, <1>o
    <3> QED BY <1>2, <1>k, <1>A, <1>B, <3>1 DEF Active
  <2> QED BY <1>a, <2>1, <2>2, <2>3
<1>p. \A w \in Txns : txn'[w].from_parent = txn[w].from_parent
  BY <1>w, <1>k
<1>6. Chained(B, txn', c, d) /\ \A w : Leaf(w, B, txn') <=> Leaf(w, A, txn)
  <2>1. \A w \in A : txn'[w].from_parent = txn[w].from_parent
    BY <1>p, <1>a
  <2>2. Chained(A, txn', c, d) /\ \A w : Leaf(w, A, txn') <=> Leaf(w, A, txn)
    BY ONLY <1>a, <2>1, ChainSame
  <2> QED BY <1>5, <2>2
<1>7. Ends(a2, o2, B)'
  <2>0. t \in A /\ a[t] = "stack" /\ o[t] = h => (Leaf(t, A, txn) <=> t = job[x].re)
    BY <1>a DEF Ends
  <2>1. ASSUME NEW w \in B PROVE /\ a2[w] \in {"queue", "todo", "ptodo", "deliver", "job"} => Leaf(w, B, txn')
                                 /\ a2[w] = "orphan" => ~Leaf(w, B, txn')
    <3>1. CASE a2[w] = a[w]
      BY <1>5, <1>6, <1>a, <3>1 DEF Ends
    <3>2. CASE a2[w] # a[w]
      <4>1. w = t /\ t \in A
        BY <1>5, <1>a, <1>w, <3>2
      <4>2. txn[t].to_thread = h /\ a[t] = "stack"
        BY <1>i, <1>o, <3>2, <4>1
      <4> QED BY <1>2, <1>6, <1>i, <2>0, <4>1, <4>2
    <3> QED BY <3>1, <3>2
  <2>2. ASSUME NEW w \in B, NEW s \in B, txn'[s].from_parent = w
        PROVE  /\ a2[w] = "stack" => \/ txn'[s].from = o2[w]
                                     \/ thr'[o2[w]].dead /\ txn'[s].from = None
               /\ a2[w] = "orphan" => txn'[s].from = None
    <3>1. w \in A /\ s \in A /\ w \in Txns /\ s \in Txns /\ txn[s].from_parent = w
      BY <1>5, <1>a, <1>p, <2>2
    <3>2. txn'[s].from = txn[s].from \/ (txn'[s].from = None /\ txn[s].from = h)
      BY <1>2, <1>i, <1>o, <1>w, <3>1
    <3>3. CASE a2[w] = a[w]
      <4>1. o2[w] = o[w] \/ a[w] \notin {"stack", "orphan"}
        BY <1>i, <1>o, <1>w, <3>1, <3>3
      <4>2. /\ a[w] = "stack" => txn[s].from = o[w] \/ (thr[o[w]].dead /\ txn[s].from = None)
            /\ a[w] = "orphan" => txn[s].from = None
        BY <1>a, <3>1 DEF Ends
      <4> QED BY <1>2, <3>2, <3>3, <4>1, <4>2
    <3>4. CASE a2[w] # a[w]
      <4>1. w = t
        BY <1>w, <3>1, <3>4
      <4>2. txn[t].to_thread = h /\ a[t] = "stack" /\ o[t] = h /\ a2[t] \in {"job", "orphan"}
        BY <1>2, <1>i, <1>o, <3>4, <4>1
      <4>3. txn[s].from = h \/ txn[s].from = None
        BY <1>a, <3>1, <4>1, <4>2 DEF Ends
      <4>4. txn[s].from # h
        <5>1. SUFFICES ASSUME txn[s].from = h PROVE FALSE
          OBVIOUS
        <5>2. s \in On(h, txn, a, r)
          BY ONLY <1>A, <3>1, <5>1, SentOn
        <5>3. d[s] <= d[t]
          BY <1>2, <5>2, Marks DEF Stack
        <5>4. d[s] = d[t] + 1
          BY <1>2, <1>a, <3>1, <4>1, Marks DEF Chained
        <5>5. d[t] \in Nat /\ d[s] \in Nat
          BY <1>1, <1>2, <3>1
        <5> QED BY ONLY <5>3, <5>4, <5>5
      <4> QED BY <3>2, <4>1, <4>2, <4>3, <4>4
    <3> QED BY <3>3, <3>4
  <2>3. ASSUME NEW y \in Tasks, job'[y].pc = "walk", NEW w \in B, a2[w] = "stack", o2[w] = job'[y].dying
        PROVE  Leaf(w, B, txn') <=> w = job'[y].re
    <3>1. job[y].pc = "walk" /\ job'[y].dying = job[y].dying /\ job'[y].re = job[y].re
      BY <1>3, <1>4, <2>3
    <3>2. w \in A /\ w \in Txns /\ a[w] = "stack" /\ o[w] = o2[w]
      BY <1>5, <1>a, <1>w, <1>i, <1>o, <2>3
    <3>3. Leaf(w, A, txn) <=> w = job[y].re
      BY <1>a, <2>3, <3>1, <3>2 DEF Ends
    <3> QED BY <1>6, <3>1, <3>3
  <2> QED BY <2>1, <2>2, <2>3 DEF Ends
<1>8. (\A g \in Threads : g # h => On(g, txn', a2, r2) = On(g, txn, a, r)) /\ On(h, txn', a2, r2) = On(h, txn, a, r) \ {t}
  <2>1. ASSUME NEW g \in Threads, NEW w \in Txns, w # t PROVE w \in On(g, txn', a2, r2) <=> w \in On(g, txn, a, r)
    BY <1>w, <2>1 DEF On
  <2>2. t \notin On(h, txn', a2, r2)
    BY <1>2, <1>i, <1>o DEF On
  <2>3. ASSUME NEW g \in Threads, g # h PROVE t \in On(g, txn', a2, r2) <=> t \in On(g, txn, a, r)
    <3>0. g # None
      BY <2>3, Marks
    <3>1. CASE txn[t].to_thread = h
      BY <1>2, <1>i, <2>3, <3>0, <3>1 DEF On
    <3>2. CASE txn[t].to_thread # h
      BY <1>2, <1>o, <2>3, <3>0, <3>2 DEF On
    <3> QED BY <3>1, <3>2
  <2>4. \A g \in Threads : On(g, txn', a2, r2) \subseteq Txns /\ On(g, txn, a, r) \subseteq Txns
    BY DEF On
  <2> QED BY <1>2, <2>1, <2>2, <2>3, <2>4
<1>9. Others(h, a, r, a2, r2)
  BY <1>8 DEF Others
<1>10. Stacks(a2, r2, c, d)'
  <2>1. Beneath(h, a, r, c, d, c, d)
    <3>1. ASSUME NEW g \in Threads, g # h, NEW w \in On(g, txn, a, r) PROVE Under(txn', w, g) = Under(txn, w, g)
      <4>1. w \in Txns
        BY <3>1 DEF On
      <4>2. g # None
        BY <3>1, Marks
      <4> QED BY <1>w, <1>i, <1>o, <1>k, <3>1, <4>1, <4>2 DEF Under
    <3> QED BY <3>1 DEF Beneath
  <2>2. \A y \in Tasks : job'[y].pc = "walk" \/ job[y].pc = "walk" => job'[y] = job[y] \/ (h \in Threads /\ job'[y].dying = h /\ job[y].dying \in {h, None})
    BY <1>2, <1>3, <1>4
  <2>3. Stack(h, n, On(h, txn', a2, r2), txn', c, d)
    <3>1. \A w \in On(h, txn, a, r) \ {t} : Under(txn', w, h) = Under(txn, w, h)
      BY <1>2, <1>w DEF Under
    <3>2. t # None
      BY <1>2, Marks
    <3>3. Stack(h, Under(txn, t, h), On(h, txn, a, r) \ {t}, txn', c, d)
      BY ONLY <1>1, <1>2, <3>1, <3>2, StackPop
    <3> QED BY <1>8, <3>3
  <2>4. \A y \in Tasks : job'[y].pc = "walk" /\ job'[y].dying = h => y = x
    BY <1>2, <1>3
  <2>5. h \in Threads =>
           /\ ~thr'[h].dead => Stack(h, thr'[h].stack, On(h, txn', a2, r2), txn', c, d)
           /\ \A y \in Tasks : job'[y].pc = "walk" /\ job'[y].dying = h => Stack(h, job'[y].t, On(h, txn', a2, r2), txn', c, d)
           /\ thr'[h].dead /\ On(h, txn', a2, r2) # {} => \E y \in Tasks : job'[y].pc = "walk" /\ job'[y].dying = h
    <3>1. \A y \in Tasks : job'[y].pc = "walk" /\ job'[y].dying = h => Stack(h, job'[y].t, On(h, txn', a2, r2), txn', c, d)
      BY <1>3, <1>4, <2>3, <2>4
    <3>2. ASSUME On(h, txn', a2, r2) # {} PROVE \E y \in Tasks : job'[y].pc = "walk" /\ job'[y].dying = h
      <4>1. n # None
        BY <2>3, <3>2 DEF Stack
      <4> QED BY <1>3, <1>4, <4>1
    <3> QED BY <1>2, <3>1, <3>2
  <2> QED BY ONLY Core(a, o, r, c, d), Types', <1>9, <2>1, <2>2, <2>5, StacksStep
<1>11. Flights(a2, o2, r2, c)'
  <2>1. job'[x].pc \notin {"built", "deliver"}
    BY <1>3, <1>4
  <2>2. /\ (\A w \in Active(txn, a) : c[w] = c[w])
        /\ \A w \in Txns : r[w] \in Threads /\ r[w] # h => r2[w] = r[w]
    BY <1>2, <1>w, <1>i, <1>o
  <2>3. \A y \in Threads : y # x /\ job[y].pc \in {"built", "deliver"} =>
            txn'[job[y].t].kind = txn[job[y].t].kind /\ txn'[job[y].t].to_thread = txn[job[y].t].to_thread
    <3>1. SUFFICES ASSUME NEW y \in Threads, y # x, job[y].pc \in {"built", "deliver"}
                   PROVE  txn'[job[y].t].kind = txn[job[y].t].kind /\ txn'[job[y].t].to_thread = txn[job[y].t].to_thread
      OBVIOUS
    <3>2. Holds(a, o, y, job[y]) /\ job[y] \in JobType /\ Carries(job[y])
      BY <1>h, <3>1, Marks
    <3>3. job[y].t \in Txns /\ a[job[y].t] \in {"built", "deliver"}
      BY <3>1, <3>2 DEF Holds, Carries, JobType, Parents
    <3> QED BY <1>2, <1>w, <1>o, <1>k, <3>3
  <2>4. \A g \in Threads : (~thr'[g].dead => ~thr[g].dead) /\ First(thr[g].todo, thr'[g].todo)
    BY DEF First
  <2>5. \A w \in Txns, g \in Threads : Fresh(w, g, a2, o2)' => Fresh(w, g, a, o)
    <3>1. ASSUME NEW w \in Txns, NEW g \in Threads, Fresh(w, g, a2, o2)' PROVE Fresh(w, g, a, o)
      <4>1. CASE w # t
        BY <1>w, <3>1, <4>1 DEF Fresh
      <4>2. CASE w = t
        <5>1. txn[t].to_thread # h
          BY <1>i, <3>1, <4>2 DEF Fresh
        <5> QED BY <1>2, <1>o, <3>1, <4>2, <5>1 DEF Fresh
      <4> QED BY <4>1, <4>2
    <3> QED BY <3>1
  <2>6. Flown(None, a, r, a2, r2, c)
    <3>1. ASSUME NEW w \in Txns, txn'[w].kind = "call", a2[w] \in {"queue", "todo", "deliver"}
          PROVE  w # None /\ txn[w].kind = "call" /\ a[w] \in {"queue", "todo", "deliver"} /\ txn'[w].to_thread = txn[w].to_thread
      <4>1. CASE w # t
        BY <1>w, <3>1, <4>1, Marks
      <4>2. CASE w = t
        <5>1. txn[t].to_thread # h
          BY <1>i, <3>1, <4>2
        <5> QED BY <1>2, <1>o, <3>1, <4>2, <5>1, Marks
      <4> QED BY <4>1, <4>2
    <3> QED BY <3>1 DEF Flown
  <2>7. h \in Threads => thr'[h].dead \/ Quiet(h, None, x, a, o)
    BY <1>2
  <2> QED BY ONLY Core(a, o, r, c, d), x \in Tasks, Types', JobsOk', <1>3, <1>9, <2>1, <2>2, <2>3, <2>4, <2>5, <2>6, <2>7, FlightsStack
<1> QED BY <1>6, <1>7, <1>10, <1>11, <1>B DEF Linked

\* One transaction of the stack of a released thread.
LEMMA WalkStep ==
  ASSUME TxnInv, NEW x \in Tasks, Walk(x)
  PROVE  TxnInv'
<1>0. PICK a, o, r, c, d : Core(a, o, r, c, d)
  BY DEF TxnInv
<1>p. PICK t, h : t = job[x].t /\ h = job[x].dying
  OBVIOUS
<1>n. PICK n : n = Under(txn, t, h)
  OBVIOUS
<1>j. PICK j : j = IF n # None THEN [job[x] EXCEPT !.t = n]
                   ELSE [job[x] EXCEPT !.pc = IF job[x].re = None THEN "drain" ELSE "fail1", !.t = job[x].re, !.re = None, !.next = "drain"]
  OBVIOUS
<1>1. Types /\ PlaceType(a, o, r) /\ Turns(a) /\ GhostType(a, o, r, c, d)
  BY <1>0, CoreIs
<1>2. job[x].pc = "walk" /\ txn' = Unlink(t, h) /\ Become(x, j) /\ prc' = prc /\ thr' = thr /\ calls' = calls /\ faults' = faults
  BY <1>p, <1>n, <1>j DEF Walk, Below, Under
<1>3. h \in Threads /\ t \in Txns /\ txn[t].kind = "call"
  BY ONLY <1>0, <1>2, <1>p, x \in Tasks, WalkHas
<1>4. n \in Parents
  <2>1. txn[t] \in TxnType
    BY <1>1, <1>3 DEF Types
  <2> QED BY <1>n, <2>1 DEF TxnType, Under
<1>5. j \in JobType /\ Walked(j, job[x], n) /\ Carries(j) /\ (x \in Threads => ForThread(x, j)) /\ (x = Worker => ForWorker(j))
  BY ONLY <1>0, <1>2, <1>4, <1>j, x \in Tasks, WalkedIs
<1>6. txn' \in [Txns -> TxnType] /\ \E a2, o2, r2 : PlaceType(a2, o2, r2) /\ Leaves(t, h, x, a, o, r, a2, o2, r2)
  BY ONLY <1>1, <1>2, <1>3, x \in Tasks, UnlinkIs
<1>7. PICK a2, o2, r2 : PlaceType(a2, o2, r2) /\ Leaves(t, h, x, a, o, r, a2, o2, r2)
  BY <1>6
<1>8. prc' \in [Procs -> ProcType] /\ Shrinks /\ ListsStay /\ \A q \in Procs : SameWork(prc'[q], prc[q])
  BY <1>1, <1>2, StillProcs
<1>9. Base' /\ Types' /\ JobsOk'
  <2>1. j.target = job[x].target /\ j.proc = job[x].proc /\ j.dying = job[x].dying /\ j.pc \notin {"queue", "rsend"}
    BY <1>5 DEF Walked
  <2>2. Base' /\ Types' /\ SameStacks
    BY ONLY <1>0, <1>2, <1>5, <1>6, <1>8, <2>1, x \in Tasks, StillBase
  <2> QED BY <2>2 DEF Base
<1>10. Placed(a2, o2, r2)'
  BY ONLY <1>0, <1>2, <1>p, <1>5, <1>7, <1>8, <1>9, x \in Tasks, WalkPlaced
<1>11. Linked(a2, o2, r2, c, d)'
  BY ONLY <1>0, <1>2, <1>p, <1>n, <1>5, <1>7, <1>9, x \in Tasks, WalkLinks
<1>12. Turns(a2)'
  <2>1. \A p \in Procs, w \in Txns : (w \in Turn(p, a2)' <=> w \in Turn(p, a))
    <3>1. txn'[t].kind = "call" /\ \A w \in Txns : w # t => txn'[w] = txn[w] /\ a2[w] = a[w]
      BY <1>3, <1>7 DEF Leaves
    <3> QED BY <1>3, <3>1 DEF Turn
  <2>2. \A p \in Procs : Turn(p, a2)' = Turn(p, a)
    BY <2>1 DEF Turn
  <2>3. \A p \in Procs : prc'[p].life = "open" => prc[p].life = "open" /\ SameWork(prc'[p], prc[p])
    BY <1>2, <1>8
  <2> QED BY <1>1, <2>2, <2>3, TurnsHand
<1>13. GhostType(a2, o2, r2, c, d)
  BY <1>1, <1>7 DEF GhostType
<1> QED BY <1>9, <1>10, <1>11, <1>12, <1>13, CoreStep

-----------------------------------------------------------------------------
(* A release begins.                                                       *)
Kills(h) == thr' = [thr EXCEPT ![h].dead = TRUE, ![h].tmp = @ + 1]
Dying(j, t, h) == [j EXCEPT !.pc = IF t = None THEN "drain" ELSE "walk", !.t = t, !.dying = h, !.re = SendReply(t, h)]
\* Thread h exits by itself, or task x, the worker, releases it with its process.
Ending(x, h) ==
  /\ ~thr[h].dead /\ Inner(ProcOf[h]) /\ job[x].pc \in {"idle", "threads"} /\ job[x].dying = None
  /\ \/ x = h /\ job[x].pc = "idle" /\ prc[ProcOf[h]].life = "open" /\ ~thr[h].waiting
     \/ x = Worker /\ job[x].pc = "threads" /\ ProcOf[h] = job[x].proc /\ prc[ProcOf[h]].life = "dead" /\ job[h].pc = "idle" /\ ~thr[h].waiting
\* The job of the task that releases it.
LEMMA DyingIs ==
  ASSUME NEW a, NEW o, NEW r, NEW c, NEW d, Core(a, o, r, c, d), NEW x \in Tasks, NEW h \in Threads, Ending(x, h),
         NEW t, t = thr[h].stack, NEW j, j = Dying(job[x], t, h)
  PROVE  /\ j \in JobType /\ j.pc = (IF t = None THEN "drain" ELSE "walk") /\ j.t = t /\ j.dying = h /\ j.target = job[x].target
         /\ j.proc = job[x].proc /\ j.re = SendReply(t, h) /\ j.target = None /\ Carries(j) /\ job[x].t = None /\ job[x].re = None
         /\ (x # Worker => j.proc = None)
<1>1. job[x] \in JobType /\ Carries(job[x]) /\ t \in Parents /\ h # None /\ (x \in Threads => ForThread(x, job[x]))
  <2>1. job[x] \in JobType /\ Carries(job[x]) /\ (x \in Threads => ForThread(x, job[x]))
    BY TaskHolds
  <2>2. t \in Parents
    BY CoreIs DEF Types, ThreadType
  <2> QED BY <2>1, <2>2, Marks
<1>2. job[x].target = None /\ job[x].t = None /\ job[x].re = None
  <2>1. CASE job[x].pc = "idle"
    BY <1>1, <2>1 DEF Carries, Idle
  <2>2. CASE job[x].pc = "threads"
    BY <1>1, <2>2 DEF Carries
  <2> QED BY <2>1, <2>2 DEF Ending
<1>3. SendReply(t, h) \in Parents /\ (t = None => SendReply(t, h) = None)
  BY <1>1 DEF SendReply, Parents
<1>4. /\ j \in JobType /\ j.pc = (IF t = None THEN "drain" ELSE "walk") /\ j.t = t /\ j.dying = h /\ j.target = job[x].target
      /\ j.proc = job[x].proc /\ j.re = SendReply(t, h)
  BY <1>1, <1>3 DEF JobType, Dying
<1>5. Carries(j)
  BY <1>1, <1>2, <1>3, <1>4 DEF Carries
<1>6. x # Worker => j.proc = None
  <2>1. SUFFICES ASSUME x # Worker PROVE job[x].proc = None
    BY <1>4
  <2>2. x \in Threads /\ job[x].pc = "idle"
    BY <2>1, Marks DEF Ending
  <2> QED BY <1>1, <2>2 DEF ForThread
<1> QED BY <1>2, <1>4, <1>5, <1>6

\* Threads and processes when that begins.
LEMMA ReleaseBase ==
  ASSUME NEW a, NEW o, NEW r, NEW c, NEW d, Core(a, o, r, c, d), NEW x \in Tasks, NEW h \in Threads, Ending(x, h),
         NEW t, t = thr[h].stack, NEW j, j = Dying(job[x], t, h), Become(x, j), Kills(h), prc' = HoldProc(prc, ProcOf[h]),
         txn' = txn, calls' = calls, faults' = faults
  PROVE  /\ Base' /\ Types' /\ JobsOk' /\ (\A g \in Threads : g # h => thr'[g] = thr[g])
         /\ thr'[h].dead /\ thr'[h].todo = thr[h].todo /\ thr'[h].stack = thr[h].stack
         /\ \A p \in Procs : prc'[p].life = prc[p].life /\ SameWork(prc'[p], prc[p])
<1>1. Base /\ Types /\ JobsOk /\ Counted /\ Lives /\ Completes /\ NoSleepOverWork /\ PoolBound
  BY CoreIs
<1>j. /\ j \in JobType /\ j.pc = (IF t = None THEN "drain" ELSE "walk") /\ j.t = t /\ j.dying = h /\ j.target = job[x].target
      /\ j.proc = job[x].proc /\ j.re = SendReply(t, h) /\ j.target = None /\ Carries(j) /\ job[x].t = None /\ job[x].re = None
      /\ (x # Worker => j.proc = None)
  BY ONLY Core(a, o, r, c, d), x \in Tasks, h \in Threads, Ending(x, h), t = thr[h].stack, j = Dying(job[x], t, h), DyingIs
<1>e. /\ ~thr[h].dead /\ ~thr[h].waiting /\ job[x].dying = None /\ prc[ProcOf[h]].life \in {"open", "dead"} /\ h # Worker /\ h # None
      /\ ProcOf[h] \in Procs /\ Worker \notin Threads /\ h \in Tasks
      /\ (x = Worker \/ x = h)
      /\ (x = h => prc[ProcOf[h]].life = "open")
      /\ (x = Worker => ProcOf[h] = job[x].proc /\ prc[ProcOf[h]].life = "dead" /\ job[h].pc = "idle")
  BY Marks DEF Ending
<1>3. /\ thr' \in [Threads -> ThreadType] /\ (\A g \in Threads : g # h => thr'[g] = thr[g])
      /\ thr'[h].dead /\ thr'[h].tmp = thr[h].tmp + 1 /\ thr'[h].mem = thr[h].mem /\ thr'[h].todo = thr[h].todo /\ thr'[h].stack = thr[h].stack
      /\ SameFlags(thr'[h], thr[h]) /\ thr'[h].process_todo = thr[h].process_todo
  <2>1. thr \in [Threads -> ThreadType] /\ thr[h] \in ThreadType
    BY <1>1 DEF Types
  <2>2. thr[h].tmp + 1 \in Nat
    BY <2>1 DEF ThreadType
  <2>3. [thr[h] EXCEPT !.dead = TRUE, !.tmp = @ + 1] \in ThreadType
    BY <2>1, <2>2 DEF ThreadType
  <2> QED BY <2>1, <2>2, <2>3 DEF Kills, ThreadType, SameFlags
<1>4. /\ prc' \in [Procs -> ProcType]
      /\ \A p \in Procs : prc'[p].life = prc[p].life /\ SameWork(prc'[p], prc[p]) /\ prc'[p].tmp = prc[p].tmp + One(p = ProcOf[h])
  <2>1. prc \in [Procs -> ProcType] /\ ProcOf[h] \in Procs
    BY <1>1, <1>e DEF Types
  <2> QED BY ONLY <2>1, prc' = HoldProc(prc, ProcOf[h]), HoldProcIs
<1>5. job'[x] = j /\ (\A y \in Tasks : y # x => job'[y] = job[y])
  BY <1>1 DEF Types, Become
<1>6. Types'
  BY <1>1, <1>3, <1>4, <1>j DEF Types, Become
<1>7. Counted'
  <2>0. /\ \A g : /\ Count(g) \in Nat /\ Count(g)' \in Nat
                  /\ Count(g)' = Count(g) + One(job'[x].target = g) - One(job[x].target = g)
                                          + One(job'[x].dying = g) - One(job[x].dying = g)
        /\ \A p : /\ Users(p) \in Nat /\ Users(p)' \in Nat
                  /\ Users(p)' = Users(p) + One(job'[x].proc = p) - One(job[x].proc = p)
    BY ONLY <1>5, x \in Tasks, Tally
  <2>1. ASSUME NEW g \in Threads PROVE thr'[g].tmp = Count(g)' /\ (thr'[g].mem = "freed" <=> thr'[g].dead /\ thr'[g].tmp = 0)
    <3>1. thr[g].tmp = Count(g) /\ (thr[g].mem = "freed" <=> thr[g].dead /\ thr[g].tmp = 0) /\ thr[g].tmp \in Nat
      BY <1>1, <2>1 DEF Counted, Types, ThreadType
    <3>2. g # None
      BY <2>1, Marks
    <3>3. CASE g = h
      <4>1. One(job'[x].target = g) = 0 /\ One(job[x].target = g) = 0 /\ One(job'[x].dying = g) = 1 /\ One(job[x].dying = g) = 0
        BY <1>5, <1>j, <1>e, <3>2, <3>3 DEF One
      <4>2. Count(g)' = Count(g) + One(job'[x].target = g) - One(job[x].target = g) + One(job'[x].dying = g) - One(job[x].dying = g)
        BY <2>0
      <4>3. thr'[g].tmp = thr[g].tmp + 1 /\ thr'[g].mem = thr[g].mem /\ ~thr[g].dead
        BY <1>3, <1>e, <3>3
      <4>4. Count(g)' = Count(g) + 1
        BY ONLY <4>1, <4>2, <3>1
      <4> QED BY ONLY <3>1, <4>3, <4>4
    <3>4. CASE g # h
      <4>1. One(job'[x].target = g) = 0 /\ One(job[x].target = g) = 0 /\ One(job'[x].dying = g) = 0 /\ One(job[x].dying = g) = 0
        BY <1>5, <1>j, <1>e, <3>2, <3>4 DEF One
      <4>2. Count(g)' = Count(g) + One(job'[x].target = g) - One(job[x].target = g) + One(job'[x].dying = g) - One(job[x].dying = g)
        BY <2>0
      <4>3. thr'[g] = thr[g]
        BY <1>3, <2>1, <3>4
      <4>4. Count(g)' = Count(g)
        BY ONLY <4>1, <4>2, <3>1
      <4> QED BY ONLY <3>1, <4>3, <4>4
    <3> QED BY <3>3, <3>4
  <2>2. ASSUME NEW p \in Procs
        PROVE  /\ prc'[p].tmp = Users(p)' + Cardinality(Corpses(p))'
               /\ prc'[p].life = "freed" => prc'[p].tmp = 0
               /\ prc'[p].life \in {"dead", "gone"} => prc'[p].tmp > 0
    <3>1. /\ prc[p].tmp = Users(p) + Cardinality(Corpses(p)) /\ prc[p].tmp \in Nat
          /\ prc[p].life = "freed" => prc[p].tmp = 0
          /\ prc[p].life \in {"dead", "gone"} => prc[p].tmp > 0
      BY <1>1, <2>2 DEF Counted, Types, ProcType
    <3>2. Users(p)' = Users(p) /\ Users(p) \in Nat
      <4>1. Users(p)' = Users(p) + One(job'[x].proc = p) - One(job[x].proc = p) /\ Users(p) \in Nat
        BY <2>0
      <4>2. job'[x].proc = job[x].proc
        BY <1>5, <1>j
      <4>3. One(job[x].proc = p) \in Nat
        BY DEF One
      <4> QED BY ONLY <4>1, <4>2, <4>3
    <3>s. PICK S, U : S = Corpses(p) /\ U = Corpses(p)'
      OBVIOUS
    <3>3. IsFiniteSet(S)
      <4>1. S \subseteq Threads
        BY <3>s DEF Corpses, ThreadsOf
      <4> QED BY <4>1, Marks, FS_Subset
    <3>4. \A b : b # h => (b \in U <=> b \in S)
      BY <1>3, <3>s DEF Corpses, ThreadsOf
    <3>5. Cardinality(U) = Cardinality(S) + One(h \in U) - One(h \in S) /\ Cardinality(S) \in Nat
      BY ONLY <3>3, <3>4, OneChanges
    <3>6. h \notin S /\ (h \in U <=> ProcOf[h] = p)
      <4>1. thr[h].mem = "live"
        <5>1. thr[h].mem \in {"live", "freed"}
          BY <1>1 DEF Types, ThreadType
        <5> QED BY <1>1, <1>e, <5>1 DEF Counted
      <4> QED BY <1>3, <1>e, <3>s, <4>1 DEF Corpses, ThreadsOf
    <3>7. One(h \in S) = 0 /\ One(h \in U) = One(p = ProcOf[h])
      BY <3>6 DEF One
    <3>8. One(p = ProcOf[h]) \in Nat /\ (prc[p].life = "freed" => One(p = ProcOf[h]) = 0)
      BY <1>e DEF One
    <3>9. prc'[p].tmp = prc[p].tmp + One(p = ProcOf[h]) /\ prc'[p].life = prc[p].life
      BY <1>4, <2>2
    <3>10. prc'[p].tmp = Users(p)' + Cardinality(U)
      BY ONLY <3>1, <3>2, <3>5, <3>7, <3>8, <3>9, <3>s
    <3> QED BY <3>1, <3>8, <3>9, <3>10, <3>s
  <2> QED BY <2>1, <2>2 DEF Counted
<1>8. JobsOk'
  <2>1. ASSUME NEW y \in Tasks PROVE Carries(job'[y])
    BY <1>1, <1>5, <1>j, <2>1 DEF JobsOk
  <2>2. ASSUME NEW g \in Threads PROVE ThreadJob(g)'
    <3>1. ThreadJob(g) /\ ProcOf[g] \in Procs /\ g \in Tasks /\ g # Worker
      BY <1>1, <2>2, Marks DEF JobsOk
    <3>2. prc'[ProcOf[g]].life = prc[ProcOf[g]].life
      BY <1>4, <3>1
    <3>3. CASE g # h
      <4>1. thr'[g] = thr[g] /\ job'[g] = job[g]
        BY <1>3, <1>5, <1>e, <3>1, <3>3
      <4> QED BY <3>1, <3>2, <4>1 DEF ThreadJob
    <3>4. CASE g = h /\ x = h
      <4>1. job'[g] = j /\ ~thr'[g].waiting /\ thr'[g].dead /\ prc'[ProcOf[g]].life = "open" /\ j.proc = None /\ j.pc \in {"drain", "walk"} /\ j.dying = g
        BY <1>3, <1>5, <1>e, <1>j, <3>2, <3>4 DEF SameFlags
      <4> QED BY <4>1 DEF ThreadJob
    <3>5. CASE g = h /\ x = Worker
      <4>1. job'[g] = job[g] /\ job[g].pc = "idle"
        BY <1>5, <1>e, <3>1, <3>5
      <4> QED BY <3>1, <4>1 DEF ThreadJob
    <3> QED BY <1>e, <3>3, <3>4, <3>5
  <2>3. WorkerJob'
    <3>1. CASE x = Worker
      <4>1. /\ job'[Worker] = j /\ j.proc = ProcOf[h] /\ j.dying = h /\ thr'[h].dead /\ prc'[j.proc].life = "dead" /\ j.pc \in {"drain", "walk"} /\ j.proc # None
        BY <1>3, <1>4, <1>5, <1>e, <1>j, <3>1, Marks
      <4> QED BY <4>1 DEF WorkerJob
    <3>2. CASE x # Worker
      <4>1. job'[Worker] = job[Worker] /\ WorkerJob /\ job[Worker] \in JobType
        BY <1>1, <1>5, <3>2, Marks DEF JobsOk, Types
      <4>2. job[Worker].proc \in Procs \cup {None} /\ job[Worker].dying \in Threads \cup {None}
        BY <4>1 DEF JobType
      <4>3. \A p \in Procs : prc'[p].life = prc[p].life
        BY <1>4
      <4>4. \A g \in Threads : thr[g].dead => thr'[g].dead
        BY <1>3
      <4> QED BY <4>1, <4>2, <4>3, <4>4 DEF WorkerJob
    <3> QED BY <3>1, <3>2
  <2> QED BY <2>1, <2>2, <2>3 DEF JobsOk
<1>9. Lives'
  <2>1. ASSUME NEW g \in Threads
        PROVE  /\ thr'[g].dead /\ Len(thr'[g].todo) > 0 => \E y \in Tasks : job'[y].dying = g
               /\ thr'[g].waiting => /\ thr'[g].stack = None /\ Len(thr'[g].todo) = 0 /\ ~thr'[g].dead
                                     /\ prc'[ProcOf[g]].life = "open"
               /\ prc'[ProcOf[g]].life \in {"gone", "freed"} => thr'[g].dead
               /\ prc'[ProcOf[g]].life # "open" => job'[g].pc = "idle"
    <3>1. /\ thr[g].dead /\ Len(thr[g].todo) > 0 => \E y \in Tasks : job[y].dying = g
          /\ thr[g].waiting => /\ thr[g].stack = None /\ Len(thr[g].todo) = 0 /\ ~thr[g].dead
                               /\ prc[ProcOf[g]].life = "open"
          /\ prc[ProcOf[g]].life \in {"gone", "freed"} => thr[g].dead
          /\ prc[ProcOf[g]].life # "open" => job[g].pc = "idle"
      BY <1>1, <2>1 DEF Lives
    <3>2. prc'[ProcOf[g]].life = prc[ProcOf[g]].life /\ g # None /\ g \in Tasks /\ g # Worker
      BY <1>4, <2>1, Marks
    <3>3. CASE g = h
      <4>1. thr'[g].dead /\ ~thr'[g].waiting /\ job'[x].dying = g
        BY <1>3, <1>5, <1>e, <1>j, <3>3 DEF SameFlags
      <4>2. prc'[ProcOf[g]].life # "open" => job'[g].pc = "idle"
        BY <1>5, <1>e, <3>2, <3>3
      <4> QED BY <4>1, <4>2
    <3>4. CASE g # h
      <4>1. thr'[g] = thr[g] /\ job'[g] = job[g]
        BY <1>3, <1>5, <1>e, <3>2, <3>4
      <4>2. ASSUME NEW y \in Tasks, job[y].dying = g PROVE job'[y].dying = g
        BY <1>5, <1>e, <3>2, <4>2
      <4> QED BY <3>1, <3>2, <4>1, <4>2
    <3> QED BY <3>3, <3>4
  <2>2. job'[Worker].proc = job[Worker].proc
    BY <1>5, <1>j, Marks
  <2>3. \A p \in Procs : prc'[p].life = prc[p].life /\ prc'[p].todo = prc[p].todo /\ prc'[p].async_todo = prc[p].async_todo
    BY <1>4 DEF SameWork
  <2> QED BY <1>1, <2>1, <2>2, <2>3 DEF Lives
<1>10. Completes' /\ NoSleepOverWork' /\ PoolBound'
  <2>1. Completes'
    <3>1. ASSUME NEW y \in Threads, job'[y].pc \in {"queue", "rsend"} PROVE \E i \in DOMAIN thr'[y].todo : thr'[y].todo[i] = "complete"
      <4>1. job'[y] = job[y] /\ thr'[y].todo = thr[y].todo
        BY <1>3, <1>5, <1>j, <3>1, Marks
      <4> QED BY <1>1, <3>1, <4>1 DEF Completes
    <3> QED BY <3>1 DEF Completes
  <2>2. NoSleepOverWork'
    <3>1. ASSUME NEW g \in Threads, ~thr'[g].dead, ~thr'[g].process_todo PROVE \A i \in DOMAIN thr'[g].todo : thr'[g].todo[i] = "complete"
      <4>1. thr'[g] = thr[g]
        BY <1>3, <3>1
      <4> QED BY <1>1, <3>1, <4>1 DEF NoSleepOverWork
    <3> QED BY <3>1 DEF NoSleepOverWork
  <2>3. PoolBound'
    BY <1>1, <1>4 DEF PoolBound, SameWork
  <2> QED BY <2>1, <2>2, <2>3
<1> QED BY <1>3, <1>4, <1>6, <1>7, <1>8, <1>9, <1>10 DEF Base

\* The chains and stacks when a release begins: what is left of the stack of h belongs to the walk.
LEMMA ReleaseLinks ==
  ASSUME NEW a, NEW o, NEW r, NEW c, NEW d, Core(a, o, r, c, d), NEW x \in Tasks, NEW h \in Threads, Ending(x, h),
         NEW t, t = thr[h].stack, NEW j, j = Dying(job[x], t, h), Become(x, j), txn' = txn, Types', JobsOk',
         \A g \in Threads : g # h => thr'[g] = thr[g], thr'[h].dead, thr'[h].todo = thr[h].todo
  PROVE  Linked(a, o, r, c, d)'
<1>A. PICK A : A = Active(txn, a)
  OBVIOUS
<1>1. /\ Types /\ JobsOk /\ PlaceType(a, o, r) /\ (\A w \in Txns : Fits(a, o, r, w)) /\ d \in [Txns -> Nat]
  BY CoreIs
<1>a. Chained(A, txn, c, d) /\ Ends(a, o, A)
  BY <1>A, CoreIs
<1>b. A \subseteq Txns /\ Active(txn', a) = A
  BY <1>A DEF Active
<1>e. ~thr[h].dead /\ job[x].dying = None /\ job[x].pc # "walk" /\ h # None
  BY Marks DEF Ending
<1>j. /\ j \in JobType /\ j.pc = (IF t = None THEN "drain" ELSE "walk") /\ j.t = t /\ j.dying = h /\ j.re = SendReply(t, h)
  BY ONLY Core(a, o, r, c, d), x \in Tasks, h \in Threads, Ending(x, h), t = thr[h].stack, j = Dying(job[x], t, h), DyingIs
<1>3. job'[x] = j /\ (\A y \in Tasks : y # x => job'[y] = job[y])
  BY <1>1 DEF Types, Become
<1>2. /\ Stack(h, t, On(h, txn, a, r), txn, c, d) /\ On(h, txn, a, r) \subseteq Active(txn, a) /\ On(h, txn, a, r) \subseteq Txns
      /\ t \in Parents /\ (t # None => t \in On(h, txn, a, r) /\ t \in Active(txn, a))
  BY ONLY Core(a, o, r, c, d), h \in Threads, <1>e, t = thr[h].stack, StackIs
<1>w. \A y \in Tasks : job[y].pc = "walk" => job[y].dying # h
  <2>1. ASSUME NEW y \in Tasks, job[y].pc = "walk" PROVE job[y].dying # h
    <3>1. job[y].dying \in Threads /\ thr[job[y].dying].dead
      BY ONLY <1>1, <2>1, WalksDead
    <3> QED BY <1>e, <3>1
  <2> QED BY <2>1
<1>4. Ends(a, o, A)'
  <2>1. \A w \in A : /\ a[w] \in {"queue", "todo", "ptodo", "deliver", "job"} => Leaf(w, A, txn)
                     /\ a[w] = "orphan" => ~Leaf(w, A, txn)
    BY <1>a DEF Ends
  <2>2. ASSUME NEW w \in A, NEW s \in A, txn[s].from_parent = w
        PROVE  /\ a[w] = "stack" => txn[s].from = o[w] \/ (thr'[o[w]].dead /\ txn[s].from = None)
               /\ a[w] = "orphan" => txn[s].from = None
    <3>1. /\ a[w] = "stack" => txn[s].from = o[w] \/ (thr[o[w]].dead /\ txn[s].from = None)
          /\ a[w] = "orphan" => txn[s].from = None
      BY <1>a, <2>2 DEF Ends
    <3>2. a[w] = "stack" => o[w] \in Threads
      <4>1. w \in Txns
        BY <1>b, <2>2
      <4> QED BY <1>1, <4>1 DEF Fits
    <3>3. \A g \in Threads : thr[g].dead => thr'[g].dead
      OBVIOUS
    <3> QED BY <3>1, <3>2, <3>3
  <2>3. ASSUME NEW y \in Tasks, job'[y].pc = "walk", NEW w \in A, a[w] = "stack", o[w] = job'[y].dying
        PROVE  Leaf(w, A, txn) <=> w = job'[y].re
    <3>1. CASE y # x
      BY <1>3, <1>a, <2>3, <3>1 DEF Ends
    <3>2. CASE y = x
      <4>1. t # None /\ o[w] = h /\ job'[y].re = SendReply(t, h)
        BY <1>3, <1>j, <2>3, <3>2
      <4>2. w \in Txns /\ r[w] = h /\ txn[w].to_thread = h
        <5>1. w \in Txns
          BY <1>b, <2>3
        <5>2. Fits(a, o, r, w)
          BY <1>1, <5>1
        <5> QED BY <1>e, <2>3, <4>1, <5>1, <5>2 DEF Fits
      <4>3. w \in On(h, txn, a, r) /\ t \in On(h, txn, a, r) /\ t \in A
        BY <1>2, <1>A, <4>1, <4>2 DEF On
      <4>4. c[w] = c[t] /\ d[w] <= d[t] /\ (d[w] = d[t] => w = t)
        BY <1>2, <4>1, <4>3 DEF Stack
      <4>5. w # t => ~Leaf(w, A, txn)
        <5>1. SUFFICES ASSUME w # t PROVE ~Leaf(w, A, txn)
          OBVIOUS
        <5>2. d[w] < d[t]
          <6>1. d[w] \in Nat /\ d[t] \in Nat
            BY <1>1, <1>2, <4>2, <4>3
          <6> QED BY ONLY <4>4, <5>1, <6>1
        <5> QED BY <1>a, <2>3, <4>3, <4>4, <5>2 DEF Chained
      <4>6. CASE txn[t].to_thread = h
        <5>1. Leaf(t, Active(txn, a), txn)
          BY ONLY Core(a, o, r, c, d), h \in Threads, <1>e, t = thr[h].stack, <4>1, <4>6, TopLeaf
        <5>2. SendReply(t, h) = t
          BY <4>1, <4>6 DEF SendReply
        <5> QED BY <1>A, <4>1, <4>5, <5>1, <5>2
      <4>7. CASE txn[t].to_thread # h
        <5>1. SendReply(t, h) = None
          BY <4>7 DEF SendReply
        <5>2. w # t /\ w # None
          BY <4>2, <4>7, Marks
        <5> QED BY <4>1, <4>5, <5>1, <5>2
      <4> QED BY <4>6, <4>7
    <3> QED BY <3>1, <3>2
  <2> QED BY <2>1, <2>2, <2>3 DEF Ends
<1>5. Others(h, a, r, a, r)
  BY DEF Others
<1>6. Stacks(a, r, c, d)'
  <2>1. Beneath(h, a, r, c, d, c, d)
    BY DEF Beneath
  <2>2. \A y \in Tasks : job'[y].pc = "walk" \/ job[y].pc = "walk" => job'[y] = job[y] \/ (h \in Threads /\ job'[y].dying = h /\ job[y].dying \in {h, None})
    BY <1>3, <1>j, <1>e
  <2>3. On(h, txn', a, r) = On(h, txn, a, r) /\ Stack(h, t, On(h, txn', a, r), txn', c, d)
    BY <1>2
  <2>4. \A y \in Tasks : job'[y].pc = "walk" /\ job'[y].dying = h => y = x
    BY <1>3, <1>w
  <2>5. h \in Threads =>
           /\ ~thr'[h].dead => Stack(h, thr'[h].stack, On(h, txn', a, r), txn', c, d)
           /\ \A y \in Tasks : job'[y].pc = "walk" /\ job'[y].dying = h => Stack(h, job'[y].t, On(h, txn', a, r), txn', c, d)
           /\ thr'[h].dead /\ On(h, txn', a, r) # {} => \E y \in Tasks : job'[y].pc = "walk" /\ job'[y].dying = h
    <3>1. \A y \in Tasks : job'[y].pc = "walk" /\ job'[y].dying = h => Stack(h, job'[y].t, On(h, txn', a, r), txn', c, d)
      BY <1>3, <1>j, <2>3, <2>4
    <3>2. ASSUME On(h, txn', a, r) # {} PROVE \E y \in Tasks : job'[y].pc = "walk" /\ job'[y].dying = h
      <4>1. t # None
        BY <2>3, <3>2 DEF Stack
      <4> QED BY <1>3, <1>j, <4>1
    <3> QED BY <3>1, <3>2
  <2> QED BY ONLY Core(a, o, r, c, d), Types', <1>5, <2>1, <2>2, <2>5, StacksStep
<1>7. Flights(a, o, r, c)'
  <2>1. job'[x].pc \notin {"built", "deliver"}
    BY <1>3, <1>j
  <2>2. /\ (\A w \in Active(txn, a) : c[w] = c[w])
        /\ \A w \in Txns : r[w] \in Threads /\ r[w] # h => r[w] = r[w]
    OBVIOUS
  <2>3. \A y \in Threads : y # x /\ job[y].pc \in {"built", "deliver"} =>
            txn'[job[y].t].kind = txn[job[y].t].kind /\ txn'[job[y].t].to_thread = txn[job[y].t].to_thread
    OBVIOUS
  <2>4. \A g \in Threads : (~thr'[g].dead => ~thr[g].dead) /\ First(thr[g].todo, thr'[g].todo)
    BY DEF First
  <2>5. \A w \in Txns, g \in Threads : Fresh(w, g, a, o)' => Fresh(w, g, a, o)
    BY DEF Fresh
  <2>6. Flown(None, a, r, a, r, c)
    BY Marks DEF Flown
  <2>7. h \in Threads => thr'[h].dead \/ Quiet(h, None, x, a, o)
    OBVIOUS
  <2> QED BY ONLY Core(a, o, r, c, d), x \in Tasks, Types', JobsOk', <1>3, <1>5, <2>1, <2>2, <2>3, <2>4, <2>5, <2>6, <2>7, FlightsStack
<1>8. Chained(A, txn', c, d)
  BY <1>a
<1> QED BY <1>b, <1>4, <1>6, <1>7, <1>8 DEF Linked

\* A thread is released.
LEMMA ReleaseStep ==
  ASSUME NEW a, NEW o, NEW r, NEW c, NEW d, Core(a, o, r, c, d), NEW x \in Tasks, NEW h \in Threads, Ending(x, h), Release(x, h)
  PROVE  TxnInv'
<1>t. PICK t : t = thr[h].stack
  OBVIOUS
<1>j. PICK j : j = Dying(job[x], t, h)
  OBVIOUS
<1>1. /\ Base /\ Types /\ JobsOk /\ GhostType(a, o, r, c, d) /\ PlaceType(a, o, r) /\ Turns(a)
  BY CoreIs
<1>2. /\ Become(x, j) /\ Kills(h) /\ prc' = HoldProc(prc, ProcOf[h]) /\ txn' = txn /\ calls' = calls /\ faults' = faults
  BY <1>t, <1>j DEF Release, Dying, Kills, HoldProc
<1>3. /\ j \in JobType /\ j.pc = (IF t = None THEN "drain" ELSE "walk") /\ j.t = t /\ j.dying = h /\ j.target = job[x].target
      /\ j.proc = job[x].proc /\ j.re = SendReply(t, h) /\ j.target = None /\ Carries(j) /\ job[x].t = None /\ job[x].re = None
  BY ONLY Core(a, o, r, c, d), x \in Tasks, h \in Threads, Ending(x, h), <1>t, <1>j, DyingIs
<1>4. /\ Base' /\ Types' /\ JobsOk' /\ (\A g \in Threads : g # h => thr'[g] = thr[g])
      /\ thr'[h].dead /\ thr'[h].todo = thr[h].todo
      /\ \A p \in Procs : prc'[p].life = prc[p].life /\ SameWork(prc'[p], prc[p])
  BY ONLY Core(a, o, r, c, d), x \in Tasks, h \in Threads, Ending(x, h), <1>t, <1>j, <1>2, ReleaseBase
<1>5. Linked(a, o, r, c, d)'
  BY ONLY Core(a, o, r, c, d), x \in Tasks, h \in Threads, Ending(x, h), <1>t, <1>j, <1>2, <1>4, ReleaseLinks
<1>6. job'[x] = j /\ (\A y \in Tasks : y # x => job'[y] = job[y])
  BY <1>1, <1>2 DEF Types, Become
<1>7. Placed(a, o, r)'
  <2>1. \A w \in Txns : Placing(w, x, None, a, o, r, a, o, r)
    BY <1>2 DEF Placing
  <2>2. Holds(a, o, x, job'[x])
    <3>1. ASSUME j.re # None PROVE j.pc = "walk" /\ j.re = j.t /\ a[j.re] = "stack" /\ o[j.re] = j.dying
      <4>1. t # None /\ txn[t].to_thread = h /\ j.re = t
        BY <1>3, <3>1 DEF SendReply
      <4>2. ~thr[h].dead
        BY DEF Ending
      <4>3. a[t] = "stack" /\ o[t] = h
        BY ONLY Core(a, o, r, c, d), h \in Threads, <1>t, <4>1, <4>2, TopLeaf
      <4> QED BY <1>3, <4>1, <4>3
    <3> QED BY <1>3, <1>6, <3>1 DEF Holds
  <2>3. \A w \in Txns : ~(a[w] \in Taken /\ o[w] = x)
    <3>1. \A w \in Txns : a[w] \in Taken /\ o[w] = x => With(w, job[x])
      BY TaskHolds
    <3> QED BY <1>3, <3>1, Marks DEF With
  <2>4. HasNow(x, a, o, r)
    BY <2>2, <2>3 DEF HasNow
  <2>5. ListsStay
    <3>1. ASSUME NEW g \in Threads PROVE Kept(thr[g].todo, thr'[g].todo)
      BY <1>4, <3>1, KeptSame
    <3> QED BY <1>4, <3>1 DEF ListsStay, SameWork
  <2>6. ListsGo(None, a, o, a, o)
    BY ONLY <2>5, ListsGoNone
  <2>7. \A g \in Threads : thr[g].dead => thr'[g].dead
    BY <1>4
  <2> QED BY ONLY Core(a, o, r, c, d), x \in Tasks, <1>4, <1>6, <2>1, <2>4, <2>6, <2>7, PlacedStep
<1>8. Turns(a)'
  <2>1. \A p \in Procs : prc'[p].life = "open" =>
           /\ prc[p].life = "open" /\ prc'[p].buffers = prc[p].buffers
           /\ prc'[p].stuck = prc[p].stuck /\ prc'[p].has_async = prc[p].has_async
           /\ prc'[p].async_todo = prc[p].async_todo
    BY <1>4 DEF SameWork
  <2> QED BY ONLY <1>1, <1>2, <2>1, TurnsQuiet
<1> QED BY ONLY <1>1, <1>4, <1>5, <1>7, <1>8, CoreStep

\* A thread exits.
LEMMA ExitStep ==
  ASSUME TxnInv, NEW h \in Threads, Exit(h)
  PROVE  TxnInv'
<1>0. PICK a, o, r, c, d : Core(a, o, r, c, d)
  BY DEF TxnInv
<1>1. ~thr[h].dead /\ ~thr[h].waiting /\ prc[ProcOf[h]].life = "open" /\ job[h].pc = "idle" /\ Inner(ProcOf[h]) /\ Release(h, h) /\ h \in Tasks
  BY Marks DEF Exit, Ready
<1>2. job[h].dying = None
  <2>1. job[h] = Idle
    BY <1>0, <1>1, IdleHolds
  <2> QED BY <2>1 DEF Idle
<1>3. Ending(h, h)
  BY <1>1, <1>2 DEF Ending
<1> QED BY ONLY <1>0, <1>1, <1>3, h \in Threads, ReleaseStep

\* The worker releases a thread of the process it closes.
LEMMA CloseThreadStep ==
  ASSUME TxnInv, NEW h \in Threads, CloseThread(h)
  PROVE  TxnInv'
<1>0. PICK a, o, r, c, d : Core(a, o, r, c, d)
  BY DEF TxnInv
<1>1. job[Worker].pc = "threads" /\ ProcOf[h] = job[Worker].proc /\ ~thr[h].dead /\ Release(Worker, h) /\ Inner(ProcOf[h]) /\ Worker \in Tasks
  BY Marks DEF CloseThread, Release
<1>2. job[Worker].dying = None /\ prc[ProcOf[h]].life = "dead"
  <2>1. Carries(job[Worker]) /\ WorkerJob
    BY <1>0, <1>1, CoreIs DEF JobsOk
  <2> QED BY <1>1, <2>1 DEF Carries, WorkerJob
<1>3. job[h].pc = "idle" /\ ~thr[h].waiting
  <2>1. Lives
    BY <1>0, CoreIs
  <2> QED BY <1>2, <2>1 DEF Lives
<1>4. Ending(Worker, h)
  BY <1>1, <1>2, <1>3 DEF Ending
<1> QED BY ONLY <1>0, <1>1, <1>4, h \in Threads, ReleaseStep

-----------------------------------------------------------------------------
(* Release of a process.                                                   *)
\* The worker goes on as j with process p, whose threads are out of the driver and which is dead
\* now, or has lost its node; threads and lists stay as they are.
Closing(p, j) ==
  /\ thr' = thr /\ txn' = txn /\ calls' = calls /\ faults' = faults /\ Become(Worker, j)
  /\ prc' \in [Procs -> ProcType] /\ (\A q \in Procs : q # p => prc'[q] = prc[q]) /\ SameWork(prc'[p], prc[p])
  /\ prc'[p].tmp = prc[p].tmp + 1 - One(job[Worker].proc = p) /\ prc'[p].tmp > 0
  /\ job[Worker].pc \in {"idle", "threads"} /\ job[Worker].proc \in {None, p} /\ job[Worker].target = None /\ job[Worker].dying = None
  /\ j.proc = p /\ j.target = None /\ j.dying = None /\ j.t = None /\ j.re = None
  /\ \/ j.pc = "threads" /\ prc'[p].life = "dead"
     \/ /\ j.pc = "todo" /\ prc'[p].life = "gone" /\ Len(prc[p].async_todo) = 0
        /\ \A g \in ThreadsOf(p) : thr[g].dead
  /\ \A g \in ThreadsOf(p) : job[g].pc = "idle" /\ ~thr[g].waiting
\* Such a step.
LEMMA ClosingStep ==
  ASSUME NEW a, NEW o, NEW r, NEW c, NEW d, Core(a, o, r, c, d), NEW p \in Procs, NEW j \in JobType, Closing(p, j), Carries(j)
  PROVE  TxnInv'
<1>1. /\ Base /\ Types /\ JobsOk /\ Counted /\ Lives /\ Completes /\ NoSleepOverWork /\ PoolBound /\ GhostType(a, o, r, c, d) /\ Turns(a)
  BY CoreIs
<1>m. Worker \in Tasks /\ Worker \notin Threads /\ Threads \subseteq Tasks /\ None \notin Procs
  BY Marks
<1>2. job'[Worker] = j /\ (\A y \in Tasks : y # Worker => job'[y] = job[y])
  BY <1>1, <1>m DEF Types, Become, Closing
<1>3. Types'
  BY <1>1 DEF Types, Become, Closing
<1>4. Counted'
  <2>0. /\ \A g : /\ Count(g) \in Nat /\ Count(g)' \in Nat
                  /\ Count(g)' = Count(g) + One(job'[Worker].target = g) - One(job[Worker].target = g)
                                          + One(job'[Worker].dying = g) - One(job[Worker].dying = g)
        /\ \A q : /\ Users(q) \in Nat /\ Users(q)' \in Nat
                  /\ Users(q)' = Users(q) + One(job'[Worker].proc = q) - One(job[Worker].proc = q)
    BY ONLY <1>2, <1>m, Tally
  <2>1. ASSUME NEW g \in Threads PROVE thr'[g].tmp = Count(g)' /\ (thr'[g].mem = "freed" <=> thr'[g].dead /\ thr'[g].tmp = 0)
    <3>1. thr[g].tmp = Count(g) /\ (thr[g].mem = "freed" <=> thr[g].dead /\ thr[g].tmp = 0)
      BY <1>1, <2>1 DEF Counted
    <3>2. job'[Worker].target = job[Worker].target /\ job'[Worker].dying = job[Worker].dying
      BY <1>2 DEF Closing
    <3>3. One(job[Worker].target = g) \in Nat /\ One(job[Worker].dying = g) \in Nat
      BY DEF One
    <3>4. Count(g)' = Count(g) + One(job'[Worker].target = g) - One(job[Worker].target = g) + One(job'[Worker].dying = g) - One(job[Worker].dying = g) /\ Count(g) \in Nat
      BY <2>0
    <3>5. Count(g)' = Count(g)
      BY ONLY <3>2, <3>3, <3>4
    <3> QED BY <3>1, <3>5 DEF Closing
  <2>2. ASSUME NEW q \in Procs
        PROVE  /\ prc'[q].tmp = Users(q)' + Cardinality(Corpses(q))'
               /\ prc'[q].life = "freed" => prc'[q].tmp = 0
               /\ prc'[q].life \in {"dead", "gone"} => prc'[q].tmp > 0
    <3>1. /\ prc[q].tmp = Users(q) + Cardinality(Corpses(q)) /\ prc[q].tmp \in Nat
          /\ prc[q].life = "freed" => prc[q].tmp = 0
          /\ prc[q].life \in {"dead", "gone"} => prc[q].tmp > 0
      BY <1>1, <2>2 DEF Counted, Types, ProcType
    <3>2. Users(q)' = Users(q) + One(job'[Worker].proc = q) - One(job[Worker].proc = q) /\ Users(q) \in Nat
      BY <2>0
    <3>3. Corpses(q)' = Corpses(q)
      BY DEF Corpses, ThreadsOf, Closing
    <3>f. Cardinality(Corpses(q)) \in Nat
      <4>1. Corpses(q) \subseteq Threads
        BY DEF Corpses, ThreadsOf
      <4>2. IsFiniteSet(Corpses(q))
        BY <4>1, Marks, FS_Subset
      <4> QED BY <4>2, FS_CardinalityType
    <3>4. CASE q # p
      <4>1. One(job'[Worker].proc = q) = 0 /\ One(job[Worker].proc = q) = 0
        BY <1>2, <1>m, <2>2, <3>4 DEF Closing, One
      <4>2. prc'[q] = prc[q]
        BY <2>2, <3>4 DEF Closing
      <4>3. Users(q)' = Users(q)
        BY ONLY <3>2, <4>1
      <4> QED BY <3>1, <3>3, <4>2, <4>3
    <3>5. CASE q = p
      <4>1. One(job'[Worker].proc = q) = 1 /\ One(job[Worker].proc = q) \in Nat
        BY <1>2, <3>5 DEF Closing, One
      <4>2. prc'[q].tmp = prc[q].tmp + 1 - One(job[Worker].proc = q) /\ prc'[q].tmp > 0 /\ prc'[q].life # "freed"
        BY <3>5 DEF Closing
      <4>3. prc'[q].tmp = Users(q)' + Cardinality(Corpses(q))
        BY ONLY <3>1, <3>2, <3>f, <4>1, <4>2
      <4> QED BY <3>3, <4>2, <4>3
    <3> QED BY <3>4, <3>5
  <2> QED BY <2>1, <2>2 DEF Counted
<1>5. JobsOk'
  <2>1. ASSUME NEW y \in Tasks PROVE Carries(job'[y])
    BY <1>1, <1>2, <2>1 DEF JobsOk
  <2>2. ASSUME NEW g \in Threads PROVE ThreadJob(g)'
    <3>1. ThreadJob(g) /\ ProcOf[g] \in Procs /\ job'[g] = job[g] /\ thr'[g] = thr[g]
      BY <1>1, <1>2, <1>m, <2>2, Marks DEF JobsOk, Closing
    <3>2. CASE ProcOf[g] = p
      <4>1. job[g].pc = "idle"
        BY <2>2, <3>2 DEF Closing, ThreadsOf
      <4> QED BY <3>1, <4>1 DEF ThreadJob
    <3>3. CASE ProcOf[g] # p
      <4>1. prc'[ProcOf[g]] = prc[ProcOf[g]]
        BY <3>1, <3>3 DEF Closing
      <4> QED BY <3>1, <4>1 DEF ThreadJob
    <3> QED BY <3>2, <3>3
  <2>3. WorkerJob'
    BY <1>2, <1>m DEF WorkerJob, Closing
  <2> QED BY <2>1, <2>2, <2>3 DEF JobsOk
<1>6. Lives'
  <2>1. ASSUME NEW g \in Threads
        PROVE  /\ thr'[g].dead /\ Len(thr'[g].todo) > 0 => \E y \in Tasks : job'[y].dying = g
               /\ thr'[g].waiting => /\ thr'[g].stack = None /\ Len(thr'[g].todo) = 0 /\ ~thr'[g].dead
                                     /\ prc'[ProcOf[g]].life = "open"
               /\ prc'[ProcOf[g]].life \in {"gone", "freed"} => thr'[g].dead
               /\ prc'[ProcOf[g]].life # "open" => job'[g].pc = "idle"
    <3>1. /\ thr[g].dead /\ Len(thr[g].todo) > 0 => \E y \in Tasks : job[y].dying = g
          /\ thr[g].waiting => /\ thr[g].stack = None /\ Len(thr[g].todo) = 0 /\ ~thr[g].dead
                               /\ prc[ProcOf[g]].life = "open"
          /\ prc[ProcOf[g]].life \in {"gone", "freed"} => thr[g].dead
          /\ prc[ProcOf[g]].life # "open" => job[g].pc = "idle"
      BY <1>1, <2>1 DEF Lives
    <3>2. ProcOf[g] \in Procs /\ g # None /\ job'[g] = job[g] /\ thr'[g] = thr[g]
      BY <1>2, <1>m, <2>1, Marks DEF Closing
    <3>3. ASSUME NEW y \in Tasks, job[y].dying = g PROVE job'[y].dying = g
      <4>1. y # Worker
        BY <3>2, <3>3 DEF Closing
      <4> QED BY <1>2, <3>3, <4>1
    <3>4. CASE ProcOf[g] # p
      <4>1. prc'[ProcOf[g]] = prc[ProcOf[g]]
        BY <3>2, <3>4 DEF Closing
      <4> QED BY <3>1, <3>2, <3>3, <4>1
    <3>5. CASE ProcOf[g] = p
      <4>1. job[g].pc = "idle" /\ ~thr[g].waiting /\ (prc'[ProcOf[g]].life \in {"gone", "freed"} => thr[g].dead)
        BY <2>1, <3>5 DEF Closing, ThreadsOf
      <4> QED BY <3>1, <3>2, <3>3, <4>1
    <3> QED BY <3>4, <3>5
  <2>2. ASSUME NEW q \in Procs
        PROVE  /\ prc'[q].life # "open" /\ Len(prc'[q].todo) > 0 => job'[Worker].proc = q
               /\ prc'[q].life = "dead" => job'[Worker].proc = q
               /\ prc'[q].life \in {"gone", "freed"} => Len(prc'[q].async_todo) = 0
    <3>1. CASE q = p
      <4>1. job'[Worker].proc = q
        BY <1>2, <3>1 DEF Closing
      <4>2. prc'[q].life \in {"gone", "freed"} => Len(prc'[q].async_todo) = 0
        BY <3>1 DEF Closing, SameWork
      <4> QED BY <4>1, <4>2
    <3>2. CASE q # p
      <4>1. prc'[q] = prc[q] /\ job[Worker].proc # q
        BY <1>m, <2>2, <3>2 DEF Closing
      <4> QED BY <1>1, <2>2, <4>1 DEF Lives
    <3> QED BY <3>1, <3>2
  <2> QED BY <2>1, <2>2 DEF Lives
<1>7. Completes' /\ NoSleepOverWork' /\ PoolBound'
  <2>1. Completes'
    <3>1. \A y \in Threads : job'[y] = job[y] /\ thr'[y] = thr[y]
      BY <1>2, <1>m DEF Closing
    <3> QED BY <1>1, <3>1 DEF Completes
  <2>2. NoSleepOverWork'
    BY <1>1 DEF NoSleepOverWork, Closing
  <2>3. PoolBound'
    <3>1. \A q \in Procs : prc'[q].requested = prc[q].requested /\ prc'[q].started = prc[q].started
      BY DEF Closing, SameWork
    <3> QED BY <1>1, <3>1 DEF PoolBound
  <2> QED BY <2>1, <2>2, <2>3
<1>8. Base'
  BY <1>3, <1>4, <1>5, <1>6, <1>7 DEF Base
<1>9. \A q \in Procs : prc'[q].todo = prc[q].todo /\ prc'[q].async_todo = prc[q].async_todo
  BY DEF Closing, SameWork
<1>10. Placed(a, o, r)' /\ Linked(a, o, r, c, d)'
  <2>1. /\ txn' = txn /\ (job'[Worker].pc = "walk" \/ job[Worker].pc = "walk" => job'[Worker] = job[Worker])
        /\ (job'[Worker].pc \in {"built", "deliver"} => job'[Worker] = job[Worker])
    BY <1>2 DEF Closing
  <2>2. Holds(a, o, Worker, job'[Worker])
    BY <1>2 DEF Closing, Holds
  <2>3. \A t \in Txns : ~(a[t] \in Taken /\ o[t] = Worker)
    <3>1. \A t \in Txns : a[t] \in Taken /\ o[t] = Worker => With(t, job[Worker])
      BY <1>m, TaskHolds
    <3>2. Carries(job[Worker])
      BY <1>m, TaskHolds
    <3>3. job[Worker].t = None /\ job[Worker].re = None
      BY <3>2 DEF Carries, Closing, Idle
    <3> QED BY <3>1, <3>3, Marks DEF With
  <2>4. \A t \in Txns : a[t] \in Taken /\ o[t] = Worker => With(t, job'[Worker]) /\ Fits(a, o, r, t)'
    BY <2>3
  <2>5. \A g \in Threads :
           /\ thr'[g].dead = thr[g].dead /\ (~thr[g].dead => thr'[g].stack = thr[g].stack)
           /\ Stay(thr[g].todo, thr'[g].todo)
           /\ Len(thr[g].todo) > 0 /\ thr[g].todo[1] \in Txns => thr'[g].todo[1] = thr[g].todo[1]
    BY DEF Closing, Stay
  <2> QED BY ONLY Core(a, o, r, c, d), <1>2, <1>m, <1>9, <2>1, <2>2, <2>4, <2>5, QuietStep
<1>11. Turns(a)'
  <2>1. txn' = txn /\ \A q \in Procs : prc'[q].life = "open" =>
           /\ prc[q].life = "open" /\ prc'[q].buffers = prc[q].buffers
           /\ prc'[q].stuck = prc[q].stuck /\ prc'[q].has_async = prc[q].has_async
           /\ prc'[q].async_todo = prc[q].async_todo
    BY DEF Closing
  <2> QED BY ONLY <1>1, <2>1, TurnsQuiet
<1> QED BY ONLY <1>1, <1>8, <1>10, <1>11, CoreStep

\* binder_deferred_release() of a process begins.
LEMMA CloseStep ==
  ASSUME TxnInv, NEW p \in Procs, Close(p)
  PROVE  TxnInv'
<1>0. PICK a, o, r, c, d : Core(a, o, r, c, d)
  BY DEF TxnInv
<1>j. PICK j : j = [Idle EXCEPT !.pc = "threads", !.proc = p]
  OBVIOUS
<1>1. Types /\ Worker \in Tasks /\ p # None
  BY <1>0, CoreIs, Marks
<1>2. j \in JobType /\ j.pc = "threads" /\ j.proc = p /\ j.target = None /\ j.dying = None /\ j.t = None /\ j.re = None
  BY <1>j DEF JobType, Idle, Parents
<1>3. Carries(j)
  BY <1>2 DEF Carries
<1>4. job[Worker] = Idle
  <2>1. Carries(job[Worker])
    BY <1>0, <1>1, TaskHolds
  <2> QED BY <2>1 DEF Carries, Close
<1>5. /\ prc' \in [Procs -> ProcType] /\ (\A q \in Procs : q # p => prc'[q] = prc[q]) /\ SameWork(prc'[p], prc[p])
      /\ prc'[p].tmp = prc[p].tmp + 1 /\ prc'[p].life = "dead" /\ prc[p].tmp \in Nat
  <2>1. prc \in [Procs -> ProcType] /\ prc[p] \in ProcType
    BY <1>1 DEF Types
  <2>2. prc[p].tmp + 1 \in Nat /\ prc[p].tmp \in Nat
    BY <2>1 DEF ProcType
  <2>3. [prc[p] EXCEPT !.life = "dead", !.tmp = @ + 1] \in ProcType
    BY <2>1, <2>2 DEF ProcType
  <2> QED BY <2>1, <2>2, <2>3 DEF Close, ProcType, SameWork
<1>6. prc'[p].tmp = prc[p].tmp + 1 - One(job[Worker].proc = p) /\ prc'[p].tmp > 0
  <2>1. One(job[Worker].proc = p) = 0
    BY <1>1, <1>4 DEF One, Idle
  <2> QED BY ONLY <1>5, <2>1
<1>7. Closing(p, j)
  <2>1. thr' = thr /\ txn' = txn /\ calls' = calls /\ faults' = faults /\ Become(Worker, j) /\ \A g \in ThreadsOf(p) : job[g].pc = "idle" /\ ~thr[g].waiting
    BY <1>j DEF Close
  <2>2. job[Worker].pc = "idle" /\ job[Worker].proc = None /\ job[Worker].target = None /\ job[Worker].dying = None
    BY <1>4 DEF Idle
  <2> QED BY <1>2, <1>5, <1>6, <2>1, <2>2 DEF Closing
<1> QED BY ONLY <1>0, <1>2, <1>3, <1>7, p \in Procs, ClosingStep

\* binder_node_release() is done: the node has no process any more.
LEMMA CloseNodeEnd ==
  ASSUME TxnInv, CloseNode, Len(prc[job[Worker].proc].async_todo) = 0
  PROVE  TxnInv'
<1>0. PICK a, o, r, c, d : Core(a, o, r, c, d)
  BY DEF TxnInv
<1>p. PICK p : p = job[Worker].proc
  OBVIOUS
<1>j. PICK j : j = [job[Worker] EXCEPT !.pc = "todo"]
  OBVIOUS
<1>1. Types /\ Lives /\ Counted /\ Worker \in Tasks /\ job[Worker].pc = "threads" /\ (\A g \in ThreadsOf(p) : thr[g].dead)
  BY <1>0, <1>p, CoreIs, Marks DEF CloseNode
<1>2. job[Worker].t = None /\ job[Worker].re = None /\ job[Worker].target = None /\ job[Worker].dying = None /\ p \in Procs
  BY <1>0, <1>1, <1>p, ReleaseHolds
<1>3. job[Worker] \in JobType /\ Carries(job[Worker]) /\ prc[p].life = "dead"
  <2>1. job[Worker] \in JobType /\ Carries(job[Worker]) /\ ForWorker(job[Worker])
    BY <1>0, <1>1, TaskHolds
  <2> QED BY <1>1, <1>p, <2>1 DEF ForWorker
<1>4. j \in JobType /\ j.pc = "todo" /\ j.proc = p /\ j.target = None /\ j.dying = None /\ j.t = None /\ j.re = None
  BY <1>2, <1>3, <1>j, <1>p DEF JobType
<1>5. Carries(j)
  BY <1>4 DEF Carries
<1>6. /\ prc' = [prc EXCEPT ![p].life = "gone"] /\ txn' = txn /\ Become(Worker, j) /\ thr' = thr /\ calls' = calls /\ faults' = faults
  <2>1. ~(Len(prc[p].async_todo) > 0)
    BY <1>p
  <2> QED BY <1>j, <1>p, <2>1 DEF CloseNode
<1>7. /\ prc' \in [Procs -> ProcType] /\ (\A q \in Procs : q # p => prc'[q] = prc[q]) /\ SameWork(prc'[p], prc[p])
      /\ prc'[p].tmp = prc[p].tmp /\ prc'[p].life = "gone" /\ prc[p].tmp \in Nat /\ prc[p].tmp > 0
  <2>1. prc \in [Procs -> ProcType] /\ prc[p] \in ProcType
    BY <1>1, <1>2 DEF Types
  <2>2. prc[p].tmp > 0 /\ prc[p].tmp \in Nat
    BY <1>1, <1>2, <1>3, <2>1 DEF Counted, ProcType
  <2>3. [prc[p] EXCEPT !.life = "gone"] \in ProcType
    BY <2>1 DEF ProcType
  <2> QED BY <1>2, <1>6, <2>1, <2>2, <2>3 DEF ProcType, SameWork
<1>8. prc'[p].tmp = prc[p].tmp + 1 - One(job[Worker].proc = p) /\ prc'[p].tmp > 0
  <2>1. One(job[Worker].proc = p) = 1
    BY <1>p DEF One
  <2> QED BY ONLY <1>7, <2>1
<1>9. \A g \in ThreadsOf(p) : job[g].pc = "idle" /\ ~thr[g].waiting
  BY <1>1, <1>3 DEF Lives, ThreadsOf
<1>10. Closing(p, j)
  BY <1>1, <1>2, <1>4, <1>6, <1>7, <1>8, <1>9, <1>p DEF Closing
<1> QED BY ONLY <1>0, <1>2, <1>4, <1>5, <1>10, ClosingStep

\* The list of the process is empty: the worker puts its reference down.
LEMMA CloseTodoEnd ==
  ASSUME TxnInv, CloseTodo, Len(prc[job[Worker].proc].todo) = 0
  PROVE  TxnInv'
<1>0. PICK a, o, r, c, d : Core(a, o, r, c, d)
  BY DEF TxnInv
<1>p. PICK p : p = job[Worker].proc
  OBVIOUS
<1>1. /\ Base /\ Types /\ JobsOk /\ Counted /\ Lives /\ Completes /\ NoSleepOverWork /\ PoolBound /\ GhostType(a, o, r, c, d) /\ Turns(a)
  BY <1>0, CoreIs
<1>m. Worker \in Tasks /\ Worker \notin Threads /\ Threads \subseteq Tasks /\ None \notin Procs /\ job[Worker].pc = "todo"
  BY Marks DEF CloseTodo
<1>2. /\ job[Worker].t = None /\ job[Worker].re = None /\ job[Worker].target = None /\ job[Worker].dying = None /\ p \in Procs
      /\ \A t \in Txns : ~(a[t] \in Taken /\ o[t] = Worker)
  BY <1>0, <1>m, <1>p, ReleaseHolds
<1>3. prc[p].life = "gone"
  <2>1. ForWorker(job[Worker])
    BY <1>0, <1>m, TaskHolds
  <2> QED BY <1>m, <1>p, <2>1 DEF ForWorker
<1>4. /\ prc' = DecProc(prc, thr, p) /\ Become(Worker, Idle) /\ txn' = txn /\ thr' = thr /\ calls' = calls /\ faults' = faults
  <2>1. ~(Len(prc[p].todo) > 0) /\ Len(prc[p].todo) = 0
    BY <1>p
  <2> QED BY <1>p, <2>1 DEF CloseTodo
<1>5. Idle \in JobType /\ Carries(Idle) /\ Idle.pc = "idle" /\ Idle.t = None /\ Idle.re = None /\ Idle.target = None /\ Idle.proc = None /\ Idle.dying = None
  BY DEF Idle, JobType, Parents, Carries
<1>6. job'[Worker] = Idle /\ (\A y \in Tasks : y # Worker => job'[y] = job[y])
  BY <1>1, <1>4, <1>m DEF Types, Become
<1>7. prc[p].tmp > 0
  BY ONLY <1>1, <1>2, <1>m, <1>p, UserCounts
<1>8. /\ prc' \in [Procs -> ProcType]
      /\ \A q \in Procs : SameWork(prc'[q], prc[q]) /\ (q # p => prc'[q] = prc[q])
  <2>1. prc \in [Procs -> ProcType]
    BY <1>1 DEF Types
  <2> QED BY ONLY <1>2, <1>4, <1>7, <2>1, DecProcIs
<1>9. Types'
  BY <1>1, <1>4, <1>5, <1>8 DEF Types, Become
<1>10. Counted' /\ LifeStep
  <2>d. PICK D : D = DecThread(thr, None)
    OBVIOUS
  <2>1. D = thr
    BY <2>d DEF DecThread
  <2>e. PICK E : E = Dropped(prc, D, None, p)
    OBVIOUS
  <2>2. E = prc'
    <3>1. DecThreadProc(prc, D, None) = prc
      BY DEF DecThreadProc, ThreadFreed
    <3> QED BY <1>2, <1>4, <1>m, <2>1, <2>e, <3>1 DEF Dropped
  <2>3. Soft(thr) /\ SoftProc(prc)
    BY <1>1 DEF Soft, SoftProc, Types
  <2>4. Agree(D, E)
    BY <1>4, <2>1, <2>2 DEF Agree
  <2>5. Gives(Worker, job'[Worker], None, p)
    BY <1>2, <1>5, <1>6, <1>p DEF Gives
  <2>6. (Worker = Worker /\ p # None => prc[p].life = "gone") /\ None \in Threads \cup {None} /\ p \in Procs \cup {None}
    BY <1>2, <1>3
  <2> QED BY ONLY <1>1, <1>6, <1>9, <1>m, <2>d, <2>e, <2>3, <2>4, <2>5, <2>6, RefsDrop
<1>11. JobsOk'
  <2>1. WorkerJob'
    BY <1>5, <1>6 DEF WorkerJob
  <2>2. (Worker \in Threads => ThreadJob(Worker)') /\ (Worker = Worker => WorkerJob')
    BY <1>m, <2>1
  <2>3. \A g \in Threads : thr'[g].dead = thr[g].dead /\ (thr'[g].waiting => thr[g].waiting \/ job[g].pc = "idle")
    BY <1>4
  <2>4. job' = [job EXCEPT ![Worker] = Idle]
    BY <1>4 DEF Become
  <2> QED BY ONLY <1>1, <1>5, <1>9, <1>10, <1>m, <2>2, <2>3, <2>4, JobsStep
<1>12. Lives'
  <2>1. ASSUME NEW g \in Threads
        PROVE  /\ thr'[g].dead /\ Len(thr'[g].todo) > 0 => \E y \in Tasks : job'[y].dying = g
               /\ thr'[g].waiting => /\ thr'[g].stack = None /\ Len(thr'[g].todo) = 0 /\ ~thr'[g].dead
                                     /\ prc'[ProcOf[g]].life = "open"
               /\ prc'[ProcOf[g]].life \in {"gone", "freed"} => thr'[g].dead
               /\ prc'[ProcOf[g]].life # "open" => job'[g].pc = "idle"
    <3>1. /\ thr[g].dead /\ Len(thr[g].todo) > 0 => \E y \in Tasks : job[y].dying = g
          /\ thr[g].waiting => /\ thr[g].stack = None /\ Len(thr[g].todo) = 0 /\ ~thr[g].dead
                               /\ prc[ProcOf[g]].life = "open"
          /\ prc[ProcOf[g]].life \in {"gone", "freed"} => thr[g].dead
          /\ prc[ProcOf[g]].life # "open" => job[g].pc = "idle"
      BY <1>1, <2>1 DEF Lives
    <3>2. ProcOf[g] \in Procs /\ g # None /\ job'[g] = job[g] /\ thr'[g] = thr[g] /\ g \in ThreadsOf(ProcOf[g])
      BY <1>4, <1>6, <1>m, <2>1, Marks DEF ThreadsOf
    <3>3. ASSUME NEW y \in Tasks, job[y].dying = g PROVE job'[y].dying = g
      <4>1. y # Worker
        BY <1>2, <3>2, <3>3
      <4> QED BY <1>6, <3>3, <4>1
    <3>4. CASE prc'[ProcOf[g]].life = prc[ProcOf[g]].life
      BY <3>1, <3>2, <3>3, <3>4
    <3>5. CASE prc'[ProcOf[g]].life # prc[ProcOf[g]].life
      <4>1. prc'[ProcOf[g]].life = "freed" /\ prc[ProcOf[g]].life \in {"dead", "gone"} /\ thr'[g].dead
        BY <1>10, <3>2, <3>5 DEF LifeStep
      <4> QED BY <3>1, <3>2, <3>3, <4>1
    <3> QED BY <3>4, <3>5
  <2>2. ASSUME NEW q \in Procs
        PROVE  /\ prc'[q].life # "open" /\ Len(prc'[q].todo) > 0 => job'[Worker].proc = q
               /\ prc'[q].life = "dead" => job'[Worker].proc = q
               /\ prc'[q].life \in {"gone", "freed"} => Len(prc'[q].async_todo) = 0
    <3>1. /\ prc[q].life # "open" /\ Len(prc[q].todo) > 0 => job[Worker].proc = q
          /\ prc[q].life = "dead" => job[Worker].proc = q
          /\ prc[q].life \in {"gone", "freed"} => Len(prc[q].async_todo) = 0
      BY <1>1, <2>2 DEF Lives
    <3>2. CASE q = p
      <4>1. prc'[q].life \in {"gone", "freed"}
        BY <1>3, <1>10, <2>2, <3>2 DEF LifeStep
      <4>2. Len(prc'[q].todo) = 0 /\ Len(prc'[q].async_todo) = 0
        BY <1>3, <1>8, <1>p, <2>2, <3>1, <3>2 DEF SameWork
      <4> QED BY <4>1, <4>2
    <3>3. CASE q # p
      <4>1. prc'[q] = prc[q] /\ job[Worker].proc # q
        BY <1>8, <1>p, <2>2, <3>3
      <4> QED BY <3>1, <4>1
    <3> QED BY <3>2, <3>3
  <2> QED BY <2>1, <2>2 DEF Lives
<1>13. Base'
  <2>1. Completes'
    <3>1. \A y \in Threads : job'[y] = job[y] /\ thr'[y] = thr[y]
      BY <1>4, <1>6, <1>m
    <3> QED BY <1>1, <3>1 DEF Completes
  <2>2. NoSleepOverWork'
    BY <1>1, <1>4 DEF NoSleepOverWork
  <2>3. PoolBound'
    <3>1. \A q \in Procs : prc'[q].requested = prc[q].requested /\ prc'[q].started = prc[q].started
      BY <1>8 DEF SameWork
    <3> QED BY <1>1, <3>1 DEF PoolBound
  <2> QED BY <1>9, <1>10, <1>11, <1>12, <2>1, <2>2, <2>3 DEF Base
<1>14. Placed(a, o, r)' /\ Linked(a, o, r, c, d)'
  <2>1. /\ (job'[Worker].pc = "walk" \/ job[Worker].pc = "walk" => job'[Worker] = job[Worker])
        /\ (job'[Worker].pc \in {"built", "deliver"} => job'[Worker] = job[Worker])
    BY <1>5, <1>6, <1>m
  <2>2. Holds(a, o, Worker, job'[Worker])
    BY <1>5, <1>6 DEF Holds
  <2>4. \A t \in Txns : a[t] \in Taken /\ o[t] = Worker => With(t, job'[Worker]) /\ Fits(a, o, r, t)'
    BY <1>2
  <2>5. \A g \in Threads :
           /\ thr'[g].dead = thr[g].dead /\ (~thr[g].dead => thr'[g].stack = thr[g].stack)
           /\ Stay(thr[g].todo, thr'[g].todo)
           /\ Len(thr[g].todo) > 0 /\ thr[g].todo[1] \in Txns => thr'[g].todo[1] = thr[g].todo[1]
    BY <1>4 DEF Stay
  <2>6. \A q \in Procs : prc'[q].todo = prc[q].todo /\ prc'[q].async_todo = prc[q].async_todo
    BY <1>8 DEF SameWork
  <2>7. txn' = txn
    BY <1>4
  <2> QED BY ONLY <1>0, <1>6, <1>m, <2>1, <2>2, <2>4, <2>5, <2>6, <2>7, QuietStep
<1>15. Turns(a)'
  <2>1. txn' = txn /\ \A q \in Procs : prc'[q].life = "open" =>
           /\ prc[q].life = "open" /\ prc'[q].buffers = prc[q].buffers
           /\ prc'[q].stuck = prc[q].stuck /\ prc'[q].has_async = prc[q].has_async
           /\ prc'[q].async_todo = prc[q].async_todo
    BY <1>4, <1>8, <1>10 DEF LifeStep, SameWork
  <2> QED BY ONLY <1>1, <2>1, TurnsQuiet
<1> QED BY ONLY <1>1, <1>13, <1>14, <1>15, CoreStep

-----------------------------------------------------------------------------
(* The invariant.                                                          *)
\* No set of tasks, threads or transactions has a member in the initial state.
LEMMA NoMembers ==
  ASSUME NEW S, \A e : e \notin S
  PROVE  S = {} /\ Cardinality(S) = 0
BY FS_EmptySet

\* It holds at first.
LEMMA InitHolds ==
  ASSUME Init
  PROVE  TxnInv
<1>1. /\ (\A p \in Procs : prc[p] = OpenProc) /\ (\A h \in Threads : thr[h] = NewThread(h)) /\ (\A t \in Txns : txn[t] = NoTxn)
      /\ (\A x \in Tasks : job[x] = Idle) /\ calls = 0 /\ faults = 0
  BY DEF Init
<1>i. Idle \in JobType /\ Carries(Idle) /\ Idle.pc = "idle" /\ Idle.t = None /\ Idle.re = None /\ Idle.target = None /\ Idle.proc = None /\ Idle.dying = None
  BY DEF Idle, JobType, Parents, Carries
<1>n. NoTxn \in TxnType /\ NoTxn.kind = "free" /\ NoTxn.from = None /\ NoTxn.to_proc = None /\ NoTxn.to_thread = None /\ NoTxn.from_parent = None /\ NoTxn.to_parent = None
  BY DEF NoTxn, TxnType, Parents
<1>e. <<>> \in Seq(Txns) /\ <<>> \in Seq(Txns \cup Words) /\ Len(<<>>) = 0 /\ DOMAIN <<>> = {}
  OBVIOUS
<1>p. /\ OpenProc \in ProcType /\ OpenProc.life = "open" /\ OpenProc.tmp = 0 /\ OpenProc.todo = <<>> /\ OpenProc.async_todo = <<>>
      /\ OpenProc.has_async = FALSE /\ OpenProc.buffers = 0 /\ OpenProc.stuck = 0 /\ OpenProc.requested = 0 /\ OpenProc.started = 0
  BY <1>e DEF OpenProc, ProcType
<1>h. ASSUME NEW h \in Threads
      PROVE  /\ NewThread(h) \in ThreadType /\ NewThread(h).mem = "live" /\ NewThread(h).dead = FALSE /\ NewThread(h).tmp = 0
             /\ NewThread(h).stack = None /\ NewThread(h).todo = <<>> /\ NewThread(h).waiting = FALSE
  <2>1. (h \notin Pool) \in BOOLEAN
    OBVIOUS
  <2> QED BY <1>e, <2>1 DEF NewThread, ThreadType, Parents
<1>m. /\ Worker \in Tasks /\ Threads \subseteq Tasks /\ None \notin Procs /\ None \notin Threads /\ MaxCalls \in Nat /\ Faults \in Nat /\ MaxThreads \in Nat
      /\ \A h \in Threads : ProcOf[h] \in Procs
  BY Marks
<1>2. Types
  <2>1. prc \in [Procs -> ProcType]
    BY <1>p DEF Init
  <2>2. thr \in [Threads -> ThreadType]
    BY <1>h DEF Init
  <2>3. txn \in [Txns -> TxnType] /\ job \in [Tasks -> JobType]
    BY <1>n, <1>i DEF Init
  <2> QED BY <1>1, <1>m, <2>1, <2>2, <2>3 DEF Types
<1>3. JobsOk
  <2>1. \A h \in Threads : ThreadJob(h)
    BY <1>1, <1>i, <1>m DEF ThreadJob
  <2>2. WorkerJob
    BY <1>1, <1>i, <1>m DEF WorkerJob
  <2> QED BY <1>1, <1>i, <2>1, <2>2 DEF JobsOk
<1>4. Counted
  <2>1. ASSUME NEW h \in Threads PROVE Count(h) = 0
    <3>1. \A e : e \notin {x \in Tasks : job[x].target = h} /\ e \notin {x \in Tasks : job[x].dying = h}
      BY <1>1, <1>i, <1>m, <2>1
    <3>2. Cardinality({x \in Tasks : job[x].target = h}) = 0 /\ Cardinality({x \in Tasks : job[x].dying = h}) = 0
      BY ONLY <3>1, NoMembers
    <3> QED BY <3>2 DEF Count
  <2>2. ASSUME NEW p \in Procs PROVE Users(p) = 0 /\ Cardinality(Corpses(p)) = 0
    <3>1. \A e : e \notin {x \in Tasks : job[x].proc = p}
      BY <1>1, <1>i, <1>m, <2>2
    <3>2. \A e : e \notin Corpses(p)
      BY <1>1, <1>h DEF Corpses, ThreadsOf
    <3>3. Cardinality({x \in Tasks : job[x].proc = p}) = 0 /\ Cardinality(Corpses(p)) = 0
      BY ONLY <3>1, <3>2, NoMembers
    <3> QED BY <3>3 DEF Users
  <2>3. \A h \in Threads : thr[h].tmp = 0 /\ thr[h].mem = "live" /\ thr[h].dead = FALSE
    BY <1>1, <1>h
  <2>4. \A p \in Procs : prc[p].tmp = 0 /\ prc[p].life = "open"
    BY <1>1, <1>p
  <2>5. \A h \in Threads : thr[h].tmp = Count(h) /\ (thr[h].mem = "freed" <=> thr[h].dead /\ thr[h].tmp = 0)
    BY <2>1, <2>3
  <2>6. \A p \in Procs : Users(p) + Cardinality(Corpses(p)) = 0
    BY <2>2
  <2> QED BY <2>4, <2>5, <2>6 DEF Counted
<1>5. Lives
  BY <1>1, <1>h, <1>p, <1>i, <1>m, <1>e DEF Lives
<1>6. Completes /\ NoSleepOverWork /\ PoolBound
  <2>1. Completes
    BY <1>1, <1>i, <1>m DEF Completes
  <2>2. NoSleepOverWork
    BY <1>1, <1>h, <1>e DEF NoSleepOverWork
  <2>3. PoolBound
    BY <1>1, <1>p, <1>m DEF PoolBound
  <2> QED BY <2>1, <2>2, <2>3
<1>g. PICK a, o, r, c, d : /\ a = [t \in Txns |-> "none"] /\ o = [t \in Txns |-> None] /\ r = [t \in Txns |-> None]
                           /\ c = [t \in Txns |-> t] /\ d = [t \in Txns |-> 0]
  OBVIOUS
<1>a. \A t \in Txns : a[t] = "none" /\ r[t] = None
  BY <1>g
<1>7. GhostType(a, o, r, c, d)
  BY <1>g DEF GhostType, PlaceType, Places, Owners
<1>8. Placed(a, o, r)
  <2>0. In(<<>>) = {} /\ Once(<<>>)
    BY <1>e DEF In, Once
  <2>1. Listed(a, o)
    BY <1>1, <1>a, <1>h, <1>p, <2>0 DEF Listed
  <2>2. Held(a, o)
    BY <1>1, <1>a, <1>i DEF Held, Holds, Taken
  <2>3. ASSUME NEW t \in Txns PROVE Fits(a, o, r, t)
    BY <1>1, <1>a, <1>n DEF Fits
  <2> QED BY <2>1, <2>2, <2>3 DEF Placed
<1>A. Active(txn, a) = {} /\ \A h \in Threads : On(h, txn, a, r) = {}
  BY <1>1, <1>a, <1>n, <1>m DEF Active, On
<1>9. Linked(a, o, r, c, d)
  <2>1. Chained(Active(txn, a), txn, c, d)
    BY <1>A DEF Chained
  <2>2. Ends(a, o, Active(txn, a))
    BY <1>A DEF Ends
  <2>3. Stacks(a, r, c, d)
    BY <1>1, <1>A, <1>h, <1>i DEF Stacks, Stack
  <2>4. Flights(a, o, r, c)
    BY <1>1, <1>a, <1>n, <1>i, <1>m DEF Flights, Fresh
  <2> QED BY <2>1, <2>2, <2>3, <2>4 DEF Linked
<1>10. Turns(a)
  <2>1. ASSUME NEW p \in Procs PROVE Cardinality(Turn(p, a)) = 0
    <3>1. \A e : e \notin Turn(p, a)
      BY <1>a DEF Turn
    <3> QED BY ONLY <3>1, NoMembers
  <2>2. ASSUME NEW p \in Procs
        PROVE  /\ Cardinality(Turn(p, a)) + prc[p].buffers + prc[p].stuck = (IF prc[p].has_async THEN 1 ELSE 0)
               /\ ~(Len(prc[p].async_todo) > 0)
    BY <1>1, <1>p, <1>e, <2>1
  <2> QED BY <2>2 DEF Turns
<1> QED BY <1>2, <1>3, <1>4, <1>5, <1>6, <1>7, <1>8, <1>9, <1>10 DEF TxnInv, Core, Base

\* A step of a task in the driver keeps it.
LEMMA DriverHolds ==
  ASSUME TxnInv, NEW x \in Tasks, Driver(x)
  PROVE  TxnInv'
<1>1. CASE x \in Threads /\ ((\E t \in Txns : ReplyLock(x, t)) \/ ReplyFrom(x) \/ ReplyTooLate(x) \/ ReplyComplete(x) \/ ReplySend(x) \/ ReplyDead(x))
  <2>1. ASSUME NEW t \in Txns, ReplyLock(x, t) PROVE TxnInv'
    BY <1>1, <2>1, ReplyLockStep
  <2>2. CASE ReplyFrom(x)
    <3>1. CASE txn[job[x].re].from # None
      BY <1>1, <2>2, <3>1, ReplyHolds
    <3>2. CASE txn[job[x].re].from = None
      <4>1. job[x].pc \in {"reply0", "reply1"} /\ CallerGone(x) /\ txn' = txn /\ calls' = calls /\ faults' = faults
        BY <2>2, <3>2 DEF ReplyFrom
      <4> QED BY ONLY <1>1, <4>1, TxnInv, CallerGoneStep
    <3> QED BY <3>1, <3>2
  <2>3. CASE ReplyTooLate(x)
    <3>1. job[x].pc \in {"reply0", "reply1"} /\ CallerGone(x) /\ txn' = txn /\ calls' = calls /\ faults' = faults
      BY <2>3 DEF ReplyTooLate
    <3> QED BY ONLY <1>1, <3>1, TxnInv, CallerGoneStep
  <2>4. CASE ReplyComplete(x)
    BY <1>1, <2>4, ReplyCompleteStep
  <2>5. CASE ReplySend(x)
    BY <1>1, <2>5, ReplySendStep
  <2>6. CASE ReplyDead(x)
    BY <1>1, <2>6, ReplyDeadStep
  <2> QED BY ONLY <1>1, <2>1, <2>2, <2>3, <2>4, <2>5, <2>6
<1>2. CASE x \in Threads /\ (Push(x) \/ Queue(x) \/ QueueDead(x) \/ Deliver(x))
  <2>1. CASE Push(x)
    BY <1>2, <2>1, PushAsync, PushCall
  <2>2. CASE Queue(x)
    BY <1>2, <2>2, QueueStep
  <2>3. CASE QueueDead(x)
    BY <1>2, <2>3, QueueDeadAsync, QueueDeadCall
  <2>4. CASE Deliver(x)
    BY <1>2, <2>4, DeliverEnd, DeliverCall
  <2> QED BY ONLY <1>2, <2>1, <2>2, <2>3, <2>4
<1>3. CASE Fail1(x)
  BY <1>3, FailHolds, FailFreeStep
<1>4. CASE Fail2(x)
  BY <1>4, FailBackStep, FailReplyStep
<1>5. CASE Free(x)
  BY <1>5, FreeStep
<1>6. CASE Walk(x)
  BY <1>6, WalkStep
<1>7. CASE Drain(x)
  BY <1>7, DrainStep
<1>8. CASE Drained(x)
  BY <1>8, DrainedStep
<1>9. CASE x = Worker /\ CloseNode
  <2>1. PICK p : p = job[Worker].proc
    OBVIOUS
  <2>2. p \in Procs /\ prc[p] \in ProcType
    <3>1. PICK a, o, r, c, d : Core(a, o, r, c, d)
      BY DEF TxnInv
    <3>2. job[x].pc = "threads"
      BY <1>9 DEF CloseNode
    <3>3. p \in Procs
      BY <1>9, <2>1, <3>1, <3>2, ReleaseHolds
    <3> QED BY <3>1, <3>3, CoreIs DEF Types
  <2>3. Len(prc[p].async_todo) \in Nat
    BY <2>2 DEF ProcType
  <2>4. Len(prc[p].async_todo) > 0 \/ Len(prc[p].async_todo) = 0
    BY ONLY <2>3
  <2> QED BY <1>9, <2>1, <2>4, CloseNodeStep, CloseNodeEnd
<1>10. CASE x = Worker /\ CloseTodo
  <2>1. PICK p : p = job[Worker].proc
    OBVIOUS
  <2>2. p \in Procs /\ prc[p] \in ProcType
    <3>1. PICK a, o, r, c, d : Core(a, o, r, c, d)
      BY DEF TxnInv
    <3>2. job[x].pc = "todo"
      BY <1>10 DEF CloseTodo
    <3>3. p \in Procs
      BY <1>10, <2>1, <3>1, <3>2, ReleaseHolds
    <3> QED BY <3>1, <3>3, CoreIs DEF Types
  <2>3. Len(prc[p].todo) \in Nat
    BY <2>2 DEF ProcType
  <2>4. Len(prc[p].todo) > 0 \/ Len(prc[p].todo) = 0
    BY ONLY <2>3
  <2> QED BY <1>10, <2>1, <2>4, CloseTodoStep, CloseTodoEnd
<1>11. CASE x = Worker /\ \E h \in Threads : CloseThread(h)
  BY <1>11, CloseThreadStep
<1> QED BY <1>1, <1>2, <1>3, <1>4, <1>5, <1>6, <1>7, <1>8, <1>9, <1>10, <1>11 DEF Driver

\* A command or a read of a thread keeps it.
LEMMA UserHolds ==
  ASSUME TxnInv, NEW h \in Threads, User(h)
  PROVE  TxnInv'
<1>1. CASE (\E p \in Procs : CallRefused(h, p)) \/ ReplyRefused(h)
  BY <1>1, RefusedStep
<1>2. CASE \E p \in Procs : \E k \in Kinds, t \in Txns : Call(h, p, k, t)
  BY <1>2, CallStep
<1>3. CASE Reply(h)
  BY <1>3, ReplyStep
<1>4. CASE Wait(h) \/ Signal(h)
  BY <1>4, WaitStep
<1>5. CASE ReadOwn(h)
  BY <1>5, ReadOwnStep, ReadWordStep
<1>6. CASE ReadProc(h)
  BY <1>6, ReadProcStep
<1>7. CASE FreeBuffer(h)
  BY <1>7, FreeBufferStep
<1>8. CASE RegisterLooper(h)
  BY <1>8, RegisterStep
<1>9. CASE Exit(h)
  BY <1>9, ExitStep
<1>10. CASE CallFails(h)
  BY <1>10, CallFailsStep
<1>11. CASE FixupsFail(h)
  <2>1. CASE txn[job[h].t].kind = "call"
    BY <1>11, <2>1, DeliveryFails
  <2>2. CASE txn[job[h].t].kind = "async"
    BY <1>11, <2>2, FixupsFailAsync
  <2>3. CASE txn[job[h].t].kind \notin {"call", "async"}
    BY <1>11, <2>3, FixupsFailReply
  <2> QED BY <2>1, <2>2, <2>3
<1>12. CASE CopyFails(h)
  BY <1>12, DeliveryFails, CopyFailsEnd
<1> QED BY <1>1, <1>2, <1>3, <1>4, <1>5, <1>6, <1>7, <1>8, <1>9, <1>10, <1>11, <1>12 DEF User

\* Every step keeps it.
LEMMA NextHolds ==
  ASSUME TxnInv, [Next]_vars
  PROVE  TxnInv'
<1>1. CASE \E x \in Tasks : Driver(x)
  BY <1>1, DriverHolds
<1>2. CASE \E h \in Threads : User(h)
  BY <1>2, UserHolds
<1>3. CASE \E p \in Procs : Close(p)
  BY <1>3, CloseStep
<1>4. CASE UNCHANGED vars
  <2>0. PICK a, o, r, c, d : Core(a, o, r, c, d)
    BY DEF TxnInv
  <2>1. prc' = prc /\ thr' = thr /\ txn' = txn /\ job' = job /\ calls' = calls /\ faults' = faults
    BY <1>4 DEF vars
  <2>2. Base'
    <3>1. Base
      BY <2>0, CoreIs
    <3>2. Types' /\ JobsOk'
      BY <2>1, <3>1 DEF Base, Types, JobsOk, ThreadJob, WorkerJob
    <3>3. Counted'
      BY <2>1, <3>1 DEF Base, Counted, Count, Users, Corpses
    <3>4. Lives' /\ Completes' /\ NoSleepOverWork' /\ PoolBound'
      BY <2>1, <3>1 DEF Base, Lives, Completes, NoSleepOverWork, PoolBound
    <3> QED BY <3>2, <3>3, <3>4 DEF Base
  <2>3. GhostType(a, o, r, c, d)
    BY <2>0, CoreIs
  <2>4. Placed(a, o, r)'
    <3>1. Placed(a, o, r)
      BY <2>0, CoreIs
    <3>2. Listed(a, o)' /\ Held(a, o)'
      BY <2>1, <3>1 DEF Placed, Listed, Held
    <3>3. \A t \in Txns : Fits(a, o, r, t)'
      BY <2>1, <3>1 DEF Placed, Fits, Home
    <3> QED BY <3>2, <3>3 DEF Placed
  <2>5. Linked(a, o, r, c, d)'
    <3>1. Linked(a, o, r, c, d)
      BY <2>0, CoreIs
    <3>2. Chained(Active(txn, a), txn, c, d)' /\ Ends(a, o, Active(txn, a))'
      BY <2>1, <3>1 DEF Linked, Ends
    <3>3. Stacks(a, r, c, d)'
      BY <2>1, <3>1 DEF Linked, Stacks
    <3>4. Flights(a, o, r, c)'
      BY <2>1, <3>1 DEF Linked, Flights, Meets, Fresh
    <3> QED BY <3>2, <3>3, <3>4 DEF Linked
  <2>6. Turns(a)'
    BY <2>0, <2>1, CoreIs DEF Turns, Turn
  <2> QED BY ONLY <2>2, <2>3, <2>4, <2>5, <2>6, CoreStep
<1> QED BY <1>1, <1>2, <1>3, <1>4 DEF Next

\* The places, chains and stacks of transactions that the proofs are about exist in every reachable
\* state of every instance.
THEOREM TransactionsInvariant == Spec => []TxnInv
<1>1. Init => TxnInv
  BY InitHolds
<1>2. TxnInv /\ [Next]_vars => TxnInv'
  BY NextHolds
<1> QED BY <1>1, <1>2, PTL DEF Spec

-----------------------------------------------------------------------------
(* What the invariant says of the properties.                              *)
\* Where a transaction is that a task has in its hands.
LEMMA HeldAt ==
  ASSUME NEW a, NEW o, NEW r, NEW c, NEW d, Core(a, o, r, c, d), NEW x \in Tasks
  PROVE  /\ job[x].t # None /\ job[x].pc # "walk" =>
              /\ job[x].t \in Txns /\ o[job[x].t] = x
              /\ \/ job[x].pc \in {"built", "rbuilt", "rsend"} /\ a[job[x].t] = "built"
                 \/ job[x].pc \in {"queue", "deliver"} /\ a[job[x].t] = job[x].pc
                 \/ job[x].pc \in {"fail1", "fail2"} /\ a[job[x].t] = "job"
                 \/ job[x].pc = "free" /\ a[job[x].t] = "done"
         /\ job[x].re # None =>
              /\ job[x].re \in Txns
              /\ \/ a[job[x].re] = "job" /\ o[job[x].re] = x
                 \/ job[x].pc = "walk" /\ a[job[x].re] = "stack"
<1>1. job[x] \in JobType /\ Carries(job[x]) /\ Holds(a, o, x, job[x])
  BY TaskHolds
<1>2. ASSUME job[x].t # None, job[x].pc # "walk"
      PROVE  job[x].pc \in {"built", "rbuilt", "rsend", "queue", "deliver", "fail1", "fail2", "free"}
  BY <1>1, <1>2 DEF Carries, JobType, Idle
<1>3. job[x].t \in Txns \cup {None} /\ job[x].re \in Txns \cup {None}
  BY <1>1 DEF JobType, Parents
<1>4. ASSUME job[x].t # None, job[x].pc # "walk"
      PROVE  /\ job[x].t \in Txns /\ o[job[x].t] = x
             /\ job[x].pc \in {"built", "rbuilt", "rsend"} => a[job[x].t] = "built"
             /\ job[x].pc \in {"queue", "deliver"} => a[job[x].t] = job[x].pc
             /\ job[x].pc \in {"fail1", "fail2"} => a[job[x].t] = "job"
             /\ job[x].pc = "free" => a[job[x].t] = "done"
  BY <1>1, <1>3, <1>4 DEF Holds
<1>5. job[x].re # None =>
        /\ job[x].re \in Txns
        /\ \/ a[job[x].re] = "job" /\ o[job[x].re] = x
           \/ job[x].pc = "walk" /\ a[job[x].re] = "stack"
  BY <1>1, <1>3 DEF Holds
<1> QED BY <1>2, <1>4, <1>5

\* Who has a transaction that has the place of a task.
LEMMA TakenBy ==
  ASSUME NEW a, NEW o, NEW r, NEW c, NEW d, Core(a, o, r, c, d), NEW t \in Txns, a[t] \in Taken
  PROVE  /\ o[t] \in Tasks /\ t \in {job[o[t]].t, job[o[t]].re} /\ job[o[t]].pc # "idle"
         /\ a[t] # "job" =>
              /\ t = job[o[t]].t
              /\ a[t] = "built" => job[o[t]].pc \in {"built", "rbuilt", "rsend"}
              /\ a[t] \in {"queue", "deliver"} => job[o[t]].pc = a[t]
              /\ a[t] = "done" => job[o[t]].pc = "free"
<1>1. o[t] \in Tasks /\ With(t, job[o[t]])
  BY CoreIs DEF Held
<1>x. PICK x \in Tasks : x = o[t]
  BY <1>1
<1>2. t # None
  BY Marks
<1>3. /\ job[x].t # None /\ job[x].pc # "walk" =>
           /\ \/ job[x].pc \in {"built", "rbuilt", "rsend"} /\ a[job[x].t] = "built"
              \/ job[x].pc \in {"queue", "deliver"} /\ a[job[x].t] = job[x].pc
              \/ job[x].pc \in {"fail1", "fail2"} /\ a[job[x].t] = "job"
              \/ job[x].pc = "free" /\ a[job[x].t] = "done"
      /\ job[x].re # None =>
           /\ \/ a[job[x].re] = "job" /\ o[job[x].re] = x
              \/ job[x].pc = "walk" /\ a[job[x].re] = "stack"
  BY HeldAt
<1>4. a[t] # "stack"
  BY DEF Taken
<1>5. job[x].pc # "idle"
  <2>1. Carries(job[x])
    BY TaskHolds
  <2> QED BY <1>1, <1>2, <1>x, <2>1 DEF With, Carries, Idle
<1> QED BY <1>1, <1>2, <1>3, <1>4, <1>5, <1>x DEF With

\* A thread that has something on its list, a stack, or a task in the driver is not freed; nor is
\* the process of a thread that is not.
LEMMA LiveThreads ==
  ASSUME NEW a, NEW o, NEW r, NEW c, NEW d, Core(a, o, r, c, d), NEW h \in Threads
  PROVE  /\ ~thr[h].dead => thr[h].mem = "live"
         /\ Len(thr[h].todo) > 0 => thr[h].mem = "live"
         /\ On(h, txn, a, r) # {} => thr[h].mem = "live"
         /\ job[h].pc # "idle" => thr[h].mem = "live" /\ prc[ProcOf[h]].life = "open"
         /\ thr[h].mem = "live" => prc[ProcOf[h]].life # "freed"
<1>1. Types /\ Counted /\ Lives /\ Stacks(a, r, c, d) /\ ProcOf[h] \in Procs /\ h \in Tasks /\ h # None
  BY CoreIs, Marks
<1>2. /\ \A y \in Tasks, g \in Threads : job[y].target = g \/ job[y].dying = g => thr[g].tmp > 0 /\ thr[g].mem = "live"
      /\ \A g \in Threads : thr[g].dead /\ thr[g].mem = "live" => prc[ProcOf[g]].tmp > 0 /\ prc[ProcOf[g]].life # "freed"
  BY ONLY <1>1, HolderCounts
<1>3. ~thr[h].dead => thr[h].mem = "live"
  <2>1. thr[h].mem \in {"live", "freed"}
    BY <1>1 DEF Types, ThreadType
  <2> QED BY <1>1, <2>1 DEF Counted
<1>4. Len(thr[h].todo) > 0 => thr[h].mem = "live"
  <2>1. thr[h].dead /\ Len(thr[h].todo) > 0 => \E x \in Tasks : job[x].dying = h
    BY <1>1 DEF Lives
  <2> QED BY <1>2, <1>3, <2>1
<1>5. On(h, txn, a, r) # {} => thr[h].mem = "live"
  <2>1. thr[h].dead /\ On(h, txn, a, r) # {} => \E x \in Tasks : job[x].pc = "walk" /\ job[x].dying = h
    BY <1>1 DEF Stacks
  <2> QED BY <1>2, <1>3, <2>1
<1>6. job[h].pc # "idle" => thr[h].mem = "live" /\ prc[ProcOf[h]].life = "open"
  <2>1. ForThread(h, job[h])
    BY <1>1, TaskHolds
  <2> QED BY <1>1, <1>2, <1>3, <2>1 DEF ForThread
<1>7. thr[h].mem = "live" => prc[ProcOf[h]].life # "freed"
  <2>1. ~thr[h].dead => prc[ProcOf[h]].life # "freed"
    BY <1>1 DEF Lives
  <2> QED BY <1>2, <2>1
<1> QED BY <1>3, <1>4, <1>5, <1>6, <1>7

\* The thread a transaction is for is not freed.
LEMMA ToThreadLive ==
  ASSUME NEW a, NEW o, NEW r, NEW c, NEW d, Core(a, o, r, c, d), NEW t \in Txns, NEW h, h = txn[t].to_thread, h # None
  PROVE  h \in Threads /\ thr[h].mem = "live"
<1>1. Types /\ Counted /\ JobsOk /\ PlaceType(a, o, r) /\ Fits(a, o, r, t) /\ Listed(a, o) /\ txn[t] \in TxnType
  BY CoreIs DEF Types
<1>2. h \in Threads /\ h \in Tasks /\ h # Worker
  <2>1. h \in Threads
    BY <1>1 DEF TxnType
  <2> QED BY <2>1, Marks
<1>3. \A y \in Tasks : job[y].target = h \/ job[y].dying = h => thr[h].mem = "live"
  BY ONLY <1>1, <1>2, HolderCounts
<1>4. /\ ~thr[h].dead => thr[h].mem = "live"
      /\ Len(thr[h].todo) > 0 => thr[h].mem = "live"
      /\ On(h, txn, a, r) # {} => thr[h].mem = "live"
      /\ job[h].pc # "idle" => thr[h].mem = "live"
  BY ONLY Core(a, o, r, c, d), <1>2, LiveThreads
<1>5. a[t] \in Places
  BY <1>1 DEF PlaceType
<1>6. CASE a[t] \in {"built", "queue"}
  <2>1. o[t] \in Tasks
    BY <1>6, TakenBy DEF Taken
  <2>2. h = job[o[t]].target
    BY <1>1, <1>6 DEF Fits
  <2> QED BY <1>2, <1>3, <2>1, <2>2
<1>7. CASE a[t] = "todo"
  <2>1. h = o[t]
    BY <1>1, <1>7 DEF Fits
  <2>2. t \in In(thr[h].todo)
    BY <1>1, <1>2, <1>7, <2>1 DEF Listed
  <2>3. thr[h].todo \in Seq(Txns \cup Words)
    BY <1>1, <1>2 DEF Types, ThreadType
  <2>4. Len(thr[h].todo) > 0
    BY ONLY <2>2, <2>3, InLen
  <2> QED BY <1>2, <1>4, <2>4
<1>8. CASE a[t] = "deliver"
  <2>1. h = o[t]
    BY <1>1, <1>8 DEF Fits
  <2>2. job[h].pc # "idle"
    BY <1>8, <2>1, TakenBy DEF Taken
  <2> QED BY <1>2, <1>4, <2>2
<1>9. CASE r[t] # None
  <2>1. h = r[t]
    BY <1>1, <1>9 DEF Fits
  <2>2. t \in On(h, txn, a, r)
    BY <2>1 DEF On
  <2> QED BY <1>2, <1>4, <2>2
<1>10. CASE a[t] \in {"job", "done"} /\ r[t] = None
  <2>1. h \in {None, o[t], job[o[t]].dying}
    BY <1>1, <1>10 DEF Fits
  <2>2. o[t] \in Tasks /\ job[o[t]].pc # "idle"
    BY <1>10, TakenBy DEF Taken
  <2> QED BY <1>2, <1>3, <1>4, <2>1, <2>2
<1>11. CASE a[t] \in {"none", "ptodo", "async", "orphan"}
  <2>1. txn[t].to_thread = None
    <3>1. CASE a[t] = "none"
      BY <1>1, <3>1 DEF Fits, NoTxn
    <3>2. CASE a[t] = "ptodo"
      BY <1>1, <3>2 DEF Fits
    <3>3. CASE a[t] = "async"
      <4>1. txn[t].kind \in {"free", "call", "async", "reply"}
        BY <1>1 DEF TxnType
      <4> QED BY <1>1, <3>3, <4>1 DEF Fits
    <3>4. CASE a[t] = "orphan"
      <4>1. ProcOf[h] \in Procs /\ None \notin Procs
        BY <1>2, Marks
      <4> QED BY <1>1, <3>4, <4>1 DEF Fits
    <3> QED BY <1>11, <3>1, <3>2, <3>3, <3>4
  <2> QED BY <2>1
<1>12. CASE a[t] = "stack"
  <2>1. r[t] # None
    BY <1>1, <1>12, Marks DEF Fits
  <2> QED BY <1>9, <2>1
<1> QED BY <1>5, <1>6, <1>7, <1>8, <1>9, <1>10, <1>11, <1>12 DEF Places

\* Nor is the process.
LEMMA ToProcLive ==
  ASSUME NEW a, NEW o, NEW r, NEW c, NEW d, Core(a, o, r, c, d), NEW t \in Txns, NEW p, p = txn[t].to_proc, p # None
  PROVE  p \in Procs /\ prc[p].life # "freed"
<1>1. Types /\ Counted /\ Lives /\ JobsOk /\ PlaceType(a, o, r) /\ Fits(a, o, r, t) /\ Listed(a, o) /\ txn[t] \in TxnType
  BY CoreIs DEF Types
<1>2. p \in Procs
  BY <1>1 DEF TxnType
<1>3. \A y \in Tasks : job[y].proc = p => prc[p].life # "freed"
  BY ONLY <1>1, <1>2, UserCounts
<1>4. \A h \in Threads : /\ Len(thr[h].todo) > 0 => prc[ProcOf[h]].life # "freed"
                         /\ job[h].pc # "idle" => prc[ProcOf[h]].life # "freed"
                         /\ thr[h].mem = "live" => prc[ProcOf[h]].life # "freed"
  BY LiveThreads
<1>5. a[t] \in Places
  BY <1>1 DEF PlaceType
<1>6. CASE a[t] \in {"built", "queue"}
  <2>1. o[t] \in Tasks
    BY <1>6, TakenBy DEF Taken
  <2>2. p = job[o[t]].proc
    BY <1>1, <1>6 DEF Fits
  <2> QED BY <1>2, <1>3, <2>1, <2>2
<1>7. CASE a[t] = "todo"
  <2>h. PICK h \in Threads : h = o[t]
    BY <1>1, <1>7 DEF Fits
  <2>1. p = ProcOf[h]
    BY <1>1, <1>7, <2>h DEF Fits
  <2>2. t \in In(thr[h].todo)
    BY <1>1, <1>7, <2>h DEF Listed
  <2>3. thr[h].todo \in Seq(Txns \cup Words)
    BY <1>1 DEF Types, ThreadType
  <2>4. Len(thr[h].todo) > 0
    BY ONLY <2>2, <2>3, InLen
  <2> QED BY <1>2, <1>4, <2>1, <2>4
<1>8. CASE a[t] \in {"ptodo", "async"}
  <2>1. p = o[t]
    BY <1>1, <1>8 DEF Fits
  <2>2. prc[p].todo \in Seq(Txns \cup Words) /\ prc[p].async_todo \in Seq(Txns \cup Words)
    BY ONLY <1>1, <1>2, ListedIs
  <2>3. CASE a[t] = "ptodo"
    <3>1. t \in In(prc[p].todo)
      BY <1>1, <1>2, <2>1, <2>3 DEF Listed
    <3>2. Len(prc[p].todo) > 0
      BY ONLY <2>2, <3>1, InLen
    <3>3. prc[p].life # "open" => job[Worker].proc = p
      BY <1>1, <1>2, <3>2 DEF Lives
    <3> QED BY <1>2, <1>3, <3>3, Marks
  <2>4. CASE a[t] = "async"
    <3>1. t \in In(prc[p].async_todo)
      BY <1>1, <1>2, <2>1, <2>4 DEF Listed
    <3>2. Len(prc[p].async_todo) > 0 /\ Len(prc[p].async_todo) \in Nat
      BY ONLY <2>2, <3>1, InLen
    <3>3. prc[p].life = "freed" => Len(prc[p].async_todo) = 0
      BY <1>1, <1>2 DEF Lives
    <3> QED BY <1>2, <3>2, <3>3
  <2> QED BY <1>8, <2>3, <2>4
<1>9. CASE a[t] = "deliver"
  <2>h. PICK h \in Threads : h = o[t]
    BY <1>1, <1>9 DEF Fits
  <2>1. p = ProcOf[h]
    BY <1>1, <1>9, <2>h DEF Fits
  <2>2. job[h].pc # "idle"
    BY <1>9, <2>h, TakenBy DEF Taken
  <2> QED BY <1>2, <1>4, <2>1, <2>2
<1>10. CASE r[t] # None
  <2>h. PICK h : h = r[t]
    OBVIOUS
  <2>1. h = txn[t].to_thread /\ h # None
    BY <1>1, <1>10, <2>h DEF Fits
  <2>2. h \in Threads /\ thr[h].mem = "live"
    BY ONLY Core(a, o, r, c, d), t \in Txns, <2>1, ToThreadLive
  <2>3. p = ProcOf[h]
    BY <1>1, <2>1 DEF Fits
  <2> QED BY <1>2, <1>4, <2>2, <2>3
<1>11. CASE a[t] \in {"job", "done"} /\ r[t] = None
  <2>1. p = Home(o[t])
    BY <1>1, <1>11 DEF Fits
  <2>2. o[t] \in Tasks /\ job[o[t]].pc # "idle"
    BY <1>11, TakenBy DEF Taken
  <2>3. CASE o[t] = Worker
    BY <1>2, <1>3, <2>1, <2>2, <2>3 DEF Home
  <2>4. CASE o[t] # Worker
    <3>1. o[t] \in Threads
      BY <2>2, <2>4, Marks
    <3> QED BY <1>2, <1>4, <2>1, <2>2, <2>4, <3>1 DEF Home
  <2> QED BY <2>3, <2>4
<1>12. CASE a[t] \in {"none", "orphan"}
  BY <1>1, <1>12 DEF Fits, NoTxn
<1>13. CASE a[t] = "stack"
  <2>1. r[t] # None
    BY <1>1, <1>13, Marks DEF Fits
  <2> QED BY <1>10, <2>1
<1> QED BY <1>5, <1>6, <1>7, <1>8, <1>9, <1>10, <1>11, <1>12, <1>13 DEF Places

\* Nothing that the driver will follow points to freed memory.
LEMMA PointersAre ==
  ASSUME NEW a, NEW o, NEW r, NEW c, NEW d, Core(a, o, r, c, d)
  PROVE  PointersLive
<1>A. PICK A : A = Active(txn, a)
  OBVIOUS
<1>1. Types /\ Counted /\ JobsOk /\ PlaceType(a, o, r) /\ (\A w \in Txns : Fits(a, o, r, w) /\ txn[w] \in TxnType) /\ Listed(a, o)
  BY CoreIs DEF Types
<1>a. Chained(A, txn, c, d)
  BY <1>A, CoreIs
<1>b. \A w \in Txns : w \in A <=> txn[w].kind = "call" /\ a[w] \notin {"none", "built", "done"}
  BY <1>A DEF Active
<1>c. \A w \in A : txn[w].kind = "call"
  BY <1>A DEF Active
<1>2. ASSUME NEW h \in Threads, ~thr[h].dead, thr[h].stack # None PROVE txn[thr[h].stack].kind = "call"
  <2>1. thr[h].stack \in Active(txn, a)
    BY ONLY Core(a, o, r, c, d), <1>2, StackIs
  <2> QED BY <1>A, <1>c, <2>1
<1>3. ASSUME NEW t \in Txns, Lists(t) PROVE txn[t].kind # "free"
  <2>1. a[t] \in {"todo", "ptodo", "async"}
    <3>1. ASSUME NEW h \in Threads, NEW i \in DOMAIN thr[h].todo, thr[h].todo[i] = t PROVE a[t] = "todo"
      <4>1. t \in In(thr[h].todo)
        BY <3>1 DEF In
      <4> QED BY <1>1, <4>1 DEF Listed
    <3>2. ASSUME NEW p \in Procs, NEW i \in DOMAIN prc[p].todo, prc[p].todo[i] = t PROVE a[t] = "ptodo"
      <4>1. t \in In(prc[p].todo)
        BY <3>2 DEF In
      <4> QED BY <1>1, <4>1 DEF Listed
    <3>3. ASSUME NEW p \in Procs, NEW i \in DOMAIN prc[p].async_todo, prc[p].async_todo[i] = t PROVE a[t] = "async"
      <4>1. t \in In(prc[p].async_todo)
        BY <3>3 DEF In
      <4> QED BY <1>1, <4>1 DEF Listed
    <3> QED BY <1>3, <3>1, <3>2, <3>3 DEF Lists
  <2> QED BY <1>1, <1>3, <2>1 DEF Fits
<1>4. ASSUME NEW t \in Txns, NEW x \in Tasks, t \in {job[x].t, job[x].re} PROVE txn[t].kind # "free"
  <2>0. t # None
    BY Marks
  <2>1. CASE job[x].pc = "walk" /\ t = job[x].t
    <3>1. txn[job[x].t].kind = "call"
      BY <2>1, WalkHas
    <3> QED BY <2>1, <3>1
  <2>2. CASE ~(job[x].pc = "walk" /\ t = job[x].t)
    <3>1. a[t] # "none"
      BY <1>4, <2>0, <2>2, HeldAt
    <3> QED BY <1>1, <1>4, <3>1 DEF Fits
  <2> QED BY <2>1, <2>2
<1>5. ASSUME NEW t \in Txns, \A x \in Tasks : job[x].pc = "free" => job[x].t # t, NEW u, u = txn[t].from_parent, u # None
      PROVE  txn[u].kind = "call"
  <2>1. txn[t].kind = "call" /\ a[t] \notin {"none", "built"}
    <3>1. txn[t].kind \in {"free", "call", "async", "reply"} /\ Fits(a, o, r, t)
      BY <1>1, <1>5 DEF TxnType
    <3> QED BY <1>5, <3>1 DEF Fits, NoTxn
  <2>2. a[t] # "done"
    <3>1. ASSUME a[t] = "done" PROVE FALSE
      <4>1. a[t] \in Taken /\ a[t] # "job"
        BY <3>1 DEF Taken
      <4>2. o[t] \in Tasks /\ t = job[o[t]].t /\ job[o[t]].pc = "free"
        BY ONLY Core(a, o, r, c, d), <1>5, <3>1, <4>1, TakenBy
      <4> QED BY <1>5, <4>2
    <3> QED BY <3>1
  <2>3. t \in A
    BY <1>b, <1>5, <2>1, <2>2
  <2>4. u \in A
    BY <1>a, <1>5, <2>3 DEF Chained
  <2> QED BY <1>c, <2>4
<1>6. ASSUME NEW t \in Txns, NEW h, h = txn[t].from, h # None PROVE thr[h].mem = "live"
  <2>1. txn[t].kind = "call" /\ a[t] \notin {"none", "done"} /\ Fits(a, o, r, t)
    <3>1. txn[t].kind \in {"free", "call", "async", "reply"} /\ Fits(a, o, r, t)
      BY <1>1, <1>6 DEF TxnType
    <3> QED BY <1>6, <3>1 DEF Fits, NoTxn
  <2>2. CASE a[t] = "built"
    <3>1. a[t] \in Taken
      BY <2>2 DEF Taken
    <3>2. job[o[t]].pc # "idle"
      BY ONLY Core(a, o, r, c, d), <1>6, <3>1, TakenBy
    <3>3. h = o[t]
      BY <1>6, <2>1, <2>2 DEF Fits
    <3>4. h \in Threads
      BY <1>1, <1>6 DEF TxnType
    <3> QED BY <3>2, <3>3, <3>4, LiveThreads
  <2>3. CASE a[t] # "built"
    <3>1. t \in Active(txn, a)
      BY <1>A, <1>b, <1>6, <2>1, <2>3
    <3> QED BY ONLY Core(a, o, r, c, d), <1>6, <3>1, FromLive
  <2> QED BY <2>2, <2>3
<1>7. ASSUME NEW t \in Txns, NEW x \in Tasks, NEW y \in Tasks, x # y, t \in {job[x].t, job[x].re}, t \in {job[y].t, job[y].re}
      PROVE  "walk" \in {job[x].pc, job[y].pc}
  <2>0. t # None
    BY Marks
  <2>1. job[x].pc # "walk" => o[t] = x
    BY <1>7, <2>0, HeldAt
  <2>2. job[y].pc # "walk" => o[t] = y
    BY <1>7, <2>0, HeldAt
  <2> QED BY <1>7, <2>1, <2>2
<1>8. ASSUME NEW x \in Tasks
      PROVE  /\ \A h \in {job[x].target, job[x].dying} \ {None} : thr[h].mem = "live"
             /\ \A p \in {job[x].proc} \ {None} : prc[p].life # "freed"
  <2>1. job[x] \in JobType
    BY <1>1, <1>8 DEF Types
  <2>2. job[x].target \in Threads \cup {None} /\ job[x].dying \in Threads \cup {None} /\ job[x].proc \in Procs \cup {None}
    BY <2>1 DEF JobType
  <2>3. \A h \in Threads : job[x].target = h \/ job[x].dying = h => thr[h].mem = "live"
    BY ONLY <1>1, <1>8, HolderCounts
  <2>4. \A p \in Procs : job[x].proc = p => prc[p].life # "freed"
    BY ONLY <1>1, <1>8, UserCounts
  <2> QED BY <2>2, <2>3, <2>4
<1>9. ASSUME NEW t \in Txns PROVE /\ \A h \in {txn[t].from, txn[t].to_thread} \ {None} : thr[h].mem = "live"
                                  /\ \A p \in {txn[t].to_proc} \ {None} : prc[p].life # "freed"
  <2>1. \A h : h = txn[t].to_thread /\ h # None => thr[h].mem = "live"
    BY <1>9, ToThreadLive
  <2>2. \A p : p = txn[t].to_proc /\ p # None => prc[p].life # "freed"
    BY <1>9, ToProcLive
  <2> QED BY <1>6, <1>9, <2>1, <2>2
<1>10. ASSUME NEW t \in Txns, Lists(t) \/ Jobs(t) PROVE txn[t].kind # "free"
  BY <1>3, <1>4, <1>10 DEF Jobs
<1> QED BY <1>2, <1>5, <1>7, <1>8, <1>9, <1>10 DEF PointersLive

\* Threads, processes and transactions live exactly as long as something needs them.
LEMMA SoundIs ==
  ASSUME TxnInv
  PROVE  ThreadsSound
<1>0. PICK a, o, r, c, d : Core(a, o, r, c, d)
  BY DEF TxnInv
<1>1. Types /\ Counted
  BY <1>0, CoreIs
<1>2. TypeOK
  <2>1. ASSUME NEW x \in Tasks PROVE {job[x].t, job[x].re} \subseteq Txns \cup {None} /\ {job[x].target, job[x].dying} \subseteq Threads \cup {None}
    <3>1. job[x] \in JobType
      BY <1>1, <2>1 DEF Types
    <3> QED BY <3>1 DEF JobType, Parents
  <2> QED BY <1>1, <2>1 DEF TypeOK, Types, ProcType, ThreadType, TxnType, Parents, Words
<1>3. TmpRefsExact
  <2>1. ASSUME NEW h \in Threads, thr[h].mem = "live"
        PROVE  /\ thr[h].tmp = Cardinality({x \in Tasks : job[x].target = h}) + Cardinality({x \in Tasks : job[x].dying = h})
               /\ thr[h].dead => thr[h].tmp > 0
    <3>1. thr[h].tmp = Count(h) /\ ~(thr[h].dead /\ thr[h].tmp = 0) /\ thr[h].tmp \in Nat
      BY <1>1, <2>1 DEF Counted, Types, ThreadType
    <3> QED BY <3>1 DEF Count
  <2>2. ASSUME NEW p \in Procs, prc[p].life # "freed"
        PROVE  /\ prc[p].tmp = Cardinality({x \in Tasks : job[x].proc = p})
                               + Cardinality({h \in ThreadsOf(p) : thr[h].dead /\ thr[h].mem = "live"})
               /\ prc[p].life # "open" => prc[p].tmp > 0
    <3>1. prc[p].life \in {"open", "dead", "gone", "freed"}
      BY <1>1, <2>2 DEF Types, ProcType
    <3>2. prc[p].tmp = Users(p) + Cardinality(Corpses(p)) /\ (prc[p].life \in {"dead", "gone"} => prc[p].tmp > 0)
      BY <1>1, <2>2 DEF Counted
    <3> QED BY <2>2, <3>1, <3>2 DEF Users, Corpses
  <2> QED BY <2>1, <2>2 DEF TmpRefsExact
<1>4. PointersLive
  BY <1>0, PointersAre
<1> QED BY <1>2, <1>3, <1>4 DEF ThreadsSound

\* The pool stays within its limit, and who waits in it has nothing to do.
LEMMA PoolIs ==
  ASSUME TxnInv
  PROVE  PoolSound /\ NoSleepOverWork
<1>0. PICK a, o, r, c, d : Core(a, o, r, c, d)
  BY DEF TxnInv
<1>1. Lives /\ PoolBound /\ NoSleepOverWork
  BY <1>0, CoreIs
<1>2. WaitersIdle
  BY <1>1 DEF Lives, WaitersIdle
<1> QED BY <1>1, <1>2 DEF PoolSound

\* What the driver asserts of a call that is on its way back to its sender, or cannot be queued.
LEMMA OnTopOf ==
  ASSUME NEW a, NEW o, NEW r, NEW c, NEW d, Core(a, o, r, c, d), NEW h \in Threads, NEW t \in Txns,
         txn[t].from = h, a[t] \in {"job", "queue"}, ~thr[h].dead \/ Inner(ProcOf[h])
  PROVE  thr[h].stack = t
<1>A. PICK A : A = Active(txn, a)
  OBVIOUS
<1>1. Fits(a, o, r, t) /\ txn[t].kind \in {"free", "call", "async", "reply"} /\ h # None
  BY CoreIs, Marks DEF Types, TxnType
<1>2. txn[t].kind = "call"
  BY <1>1 DEF Fits
<1>3. t \in A
  BY <1>A, <1>2 DEF Active
<1>4. ~thr[h].dead
  BY <1>A, <1>3, SenderLives
<1>5. Leaf(t, A, txn)
  <2>1. Ends(a, o, A)
    BY <1>A, CoreIs
  <2> QED BY <1>3, <2>1 DEF Ends
<1> QED BY <1>A, <1>3, <1>4, <1>5, OnTopIs

\* The assertions of the driver hold.
LEMMA AssertionsIs ==
  ASSUME TxnInv
  PROVE  AssertionsHold
<1>0. PICK a, o, r, c, d : Core(a, o, r, c, d)
  BY DEF TxnInv
<1>1. Types /\ Counted /\ Lives /\ Turns(a) /\ (\A w \in Txns : Fits(a, o, r, w) /\ txn[w] \in TxnType)
  BY <1>0, CoreIs DEF Types
<1>2. \A h \in Threads, t \in Txns : txn[t].from = h /\ a[t] \in {"job", "queue"} /\ (~thr[h].dead \/ Inner(ProcOf[h])) => thr[h].stack = t
  BY <1>0, OnTopOf
<1>3. ASSUME NEW x \in Tasks
      PROVE  /\ job[x] \in JobType /\ Carries(job[x])
             /\ job[x].t # None /\ job[x].pc # "walk" =>
                  /\ job[x].t \in Txns /\ o[job[x].t] = x
                  /\ job[x].pc = "queue" => a[job[x].t] = "queue"
                  /\ job[x].pc = "fail2" => a[job[x].t] = "job"
             /\ job[x].re # None /\ job[x].pc # "walk" => job[x].re \in Txns /\ a[job[x].re] = "job" /\ o[job[x].re] = x
  <2>1. job[x] \in JobType /\ Carries(job[x])
    BY <1>0, <1>3, TaskHolds
  <2> QED BY <1>0, <1>3, <2>1, HeldAt
<1>4. ASSUME NEW x \in Tasks, job[x].pc = "fail2", txn[job[x].t].from # None, Inner(ProcOf[job[x].target])
      PROVE  thr[job[x].target].stack = job[x].t /\ txn[job[x].t].from = job[x].target
  <2>t. PICK t : t = job[x].t
    OBVIOUS
  <2>1. t \in Txns /\ a[t] = "job" /\ o[t] = x
    BY <1>3, <1>4, <2>t DEF Carries
  <2>2. txn[t].from = job[x].target
    BY <1>1, <1>4, <2>t, <2>1 DEF Fits
  <2>3. job[x].target \in Threads
    BY <1>1, <1>4, <2>t, <2>1, <2>2 DEF TxnType
  <2> QED BY <1>2, <1>4, <2>t, <2>1, <2>2, <2>3
<1>5. ASSUME NEW x \in Tasks, job[x].pc = "reply1", txn[job[x].re].from # None, Inner(ProcOf[job[x].target])
      PROVE  thr[job[x].target].stack = job[x].re /\ txn[job[x].re].from = job[x].target
  <2>t. PICK t : t = job[x].re
    OBVIOUS
  <2>1. t \in Txns /\ a[t] = "job" /\ o[t] = x
    BY <1>3, <1>5, <2>t DEF Carries
  <2>2. txn[t].from = job[x].target
    BY <1>1, <1>5, <2>t, <2>1 DEF Fits
  <2>3. job[x].target \in Threads
    BY <1>1, <1>5, <2>t, <2>1, <2>2 DEF TxnType
  <2> QED BY <1>2, <1>5, <2>t, <2>1, <2>2, <2>3
<1>6. ASSUME NEW x \in Tasks, job[x].pc = "rsend", ~thr[job[x].target].dead
      PROVE  thr[job[x].target].stack = job[x].re /\ txn[job[x].re].from = job[x].target
  <2>t. PICK t : t = job[x].re
    OBVIOUS
  <2>1. t \in Txns /\ a[t] = "job" /\ o[t] = x
    BY <1>3, <1>6, <2>t DEF Carries
  <2>2. txn[t].from = job[x].target /\ txn[t].from # None
    BY <1>1, <1>6, <2>t, <2>1 DEF Fits
  <2>3. job[x].target \in Threads
    BY <1>1, <1>6, <2>t, <2>1, <2>2 DEF TxnType
  <2> QED BY <1>2, <1>6, <2>t, <2>1, <2>2, <2>3
<1>7. ASSUME NEW x \in Tasks, job[x].pc = "queue", txn[job[x].t].kind = "call", Inner(ProcOf[x])
      PROVE  thr[x].stack = job[x].t /\ txn[job[x].t].from = x
  <2>t. PICK t : t = job[x].t
    OBVIOUS
  <2>1. t \in Txns /\ a[t] = "queue" /\ o[t] = x
    BY <1>3, <1>7, <2>t DEF Carries
  <2>2. txn[t].from = x
    BY <1>1, <1>7, <2>t, <2>1 DEF Fits
  <2>3. x \in Threads
    <3>1. WorkerJob
      BY <1>0, CoreIs DEF JobsOk
    <3>2. x # Worker
      BY <1>7, <3>1 DEF WorkerJob
    <3> QED BY <1>7, <3>2, Marks
  <2> QED BY <1>2, <1>7, <2>t, <2>1, <2>2, <2>3
<1>8. ASSUME NEW x \in Tasks, job[x].pc = "walk" PROVE job[x].dying \in {txn[job[x].t].from, txn[job[x].t].to_thread}
  <2>1. \/ txn[job[x].t].to_thread = job[x].dying
        \/ txn[job[x].t].from = job[x].dying
    BY <1>0, <1>8, WalkHas
  <2> QED BY <2>1
<1>9. ASSUME NEW h \in Threads, thr[h].mem = "freed" PROVE Len(thr[h].todo) = 0
  <2>1. thr[h].todo \in Seq(Txns \cup Words)
    BY <1>1 DEF Types, ThreadType
  <2>2. Len(thr[h].todo) > 0 => thr[h].mem = "live"
    BY <1>0, LiveThreads
  <2>3. Len(thr[h].todo) \in Nat
    BY <2>1
  <2> QED BY <1>9, <2>2, <2>3
<1>10. ASSUME NEW p \in Procs, prc[p].life = "freed" PROVE Len(prc[p].todo) = 0
  <2>1. prc[p].todo \in Seq(Txns)
    BY <1>1 DEF Types, ProcType
  <2>2. Len(prc[p].todo) > 0 => job[Worker].proc = p
    BY <1>1, <1>10 DEF Lives
  <2>3. job[Worker].proc = p => prc[p].life # "freed"
    BY <1>1, Marks, UserCounts
  <2>4. Len(prc[p].todo) \in Nat
    BY <2>1
  <2> QED BY <1>10, <2>2, <2>3, <2>4
<1>11. ASSUME NEW p \in Procs, prc[p].life = "open", prc[p].buffers > 0 PROVE prc[p].has_async
  <2>1. prc[p].buffers \in Nat /\ prc[p].stuck \in Nat
    BY <1>1 DEF Types, ProcType
  <2>2. Cardinality(Turn(p, a)) + prc[p].buffers + prc[p].stuck = IF prc[p].has_async THEN 1 ELSE 0
    BY <1>1, <1>11 DEF Turns
  <2>3. Cardinality(Turn(p, a)) \in Nat
    <3>1. IsFiniteSet(Turn(p, a))
      BY Marks, FS_Subset DEF Turn
    <3> QED BY <3>1, FS_CardinalityType
  <2> QED BY <1>11, <2>1, <2>2, <2>3
<1> QED BY <1>4, <1>5, <1>6, <1>7, <1>8, <1>9, <1>10, <1>11 DEF AssertionsHold

\* The one-way transactions outside async_todo that no task still has to queue are those that have
\* their turn.
LEMMA AsyncIs ==
  ASSUME TxnInv
  PROVE  AsyncTurnExact
<1>0. PICK a, o, r, c, d : Core(a, o, r, c, d)
  BY DEF TxnInv
<1>1. Types /\ Turns(a) /\ Listed(a, o) /\ (\A w \in Txns : Fits(a, o, r, w))
  BY <1>0, CoreIs
<1>2. ASSUME NEW p \in Procs, NEW t \in Txns, txn[t].kind = "async", txn[t].to_proc = p
      PROVE  a[t] \in {"todo", "ptodo", "deliver"} <=>
               /\ \A i \in DOMAIN prc[p].async_todo : prc[p].async_todo[i] # t
               /\ \A x \in Tasks : job[x].t = t => job[x].pc = "deliver"
  <2>1. Fits(a, o, r, t) /\ t # None
    BY <1>1, <1>2, Marks
  <2>2. a[t] \in {"built", "queue", "todo", "ptodo", "async", "deliver"} /\ (a[t] = "async" => o[t] = p)
    BY <1>2, <2>1 DEF Fits
  <2>3. (\A i \in DOMAIN prc[p].async_todo : prc[p].async_todo[i] # t) <=> a[t] # "async"
    <3>1. t \in In(prc[p].async_todo) <=> a[t] = "async" /\ o[t] = p
      BY <1>1, <1>2 DEF Listed
    <3> QED BY <1>2, <2>2, <3>1 DEF In
  <2>4. ASSUME NEW x \in Tasks, job[x].t = t
        PROVE  /\ job[x].pc # "walk"
               /\ a[t] \in {"todo", "ptodo", "deliver"} => job[x].pc = "deliver"
    <3>1. job[x].pc # "walk"
      <4>1. job[x].pc = "walk" => txn[job[x].t].kind = "call"
        BY <1>0, <2>4, WalkHas
      <4> QED BY <1>2, <2>4, <4>1
    <3>2. \/ job[x].pc \in {"built", "rbuilt", "rsend"} /\ a[t] = "built"
          \/ job[x].pc \in {"queue", "deliver"} /\ a[t] = job[x].pc
          \/ job[x].pc \in {"fail1", "fail2"} /\ a[t] = "job"
          \/ job[x].pc = "free" /\ a[t] = "done"
      BY <1>0, <2>1, <2>4, <3>1, HeldAt
    <3> QED BY <3>1, <3>2
  <2>5. ASSUME a[t] \in {"built", "queue"} PROVE \E x \in Tasks : job[x].t = t /\ job[x].pc # "deliver"
    <3>1. a[t] \in Taken /\ a[t] # "job"
      BY <2>5 DEF Taken
    <3>2. /\ o[t] \in Tasks /\ t = job[o[t]].t
          /\ a[t] = "built" => job[o[t]].pc \in {"built", "rbuilt", "rsend"}
          /\ a[t] \in {"queue", "deliver"} => job[o[t]].pc = a[t]
      BY ONLY <1>0, <1>2, <3>1, TakenBy
    <3> QED BY <2>5, <3>2
  <2> QED BY <2>2, <2>3, <2>4, <2>5
<1>3. ASSUME NEW p \in Procs
      PROVE  {t \in Txns : /\ txn[t].kind = "async" /\ txn[t].to_proc = p
                           /\ \A i \in DOMAIN prc[p].async_todo : prc[p].async_todo[i] # t
                           /\ \A x \in Tasks : job[x].t = t => job[x].pc = "deliver"} = Turn(p, a)
  BY <1>2, <1>3 DEF Turn
<1>4. ASSUME NEW p \in Procs, prc[p].life = "open"
      PROVE  /\ Cardinality(Turn(p, a)) + prc[p].buffers + prc[p].stuck = IF prc[p].has_async THEN 1 ELSE 0
             /\ Len(prc[p].async_todo) > 0 => prc[p].has_async
  BY <1>1, <1>4 DEF Turns
<1> QED BY <1>3, <1>4 DEF AsyncTurnExact

\* No chain is longer than there are transactions.
LEMMA DepthBound ==
  ASSUME NEW A, A \subseteq Txns, NEW c, NEW d \in [Txns -> Nat], Chained(A, txn, c, d), NEW u \in A
  PROVE  d[u] < Cardinality(Txns)
<1>N. PICK N : N = Cardinality(Txns)
  OBVIOUS
<1>1. N \in Nat /\ IsFiniteSet(Txns)
  BY <1>N, Marks, FS_CardinalityType
<1>2. SUFFICES ASSUME ~(d[u] < N) PROVE FALSE
  BY <1>N
<1>3. d[u] \in Nat /\ N <= d[u]
  <2>1. d[u] \in Nat
    OBVIOUS
  <2> QED BY <1>1, <1>2, <2>1
<1>4. ASSUME NEW k \in 0 .. N PROVE Behind(u)[k] \in Txns /\ d[Behind(u)[k]] = d[u] - k
  <2>1. k <= d[u] => Behind(u)[k] \in A /\ d[Behind(u)[k]] = d[u] - k
    BY <1>N, <1>4, BehindChain
  <2> QED BY <1>1, <1>3, <1>4, <2>1
<1> DEFINE f == [k \in 0 .. N |-> Behind(u)[k]]
<1>5. f \in [0 .. N -> Txns]
  BY <1>4
<1>6. ASSUME NEW k \in 0 .. N, NEW l \in 0 .. N, f[k] = f[l] PROVE k = l
  <2>1. d[u] - k = d[u] - l
    BY <1>4, <1>6
  <2> QED BY <1>1, <1>3, <1>6, <2>1
<1>7. f \in Injection(0 .. N, Txns)
  BY <1>5, <1>6 DEF Injection, IsInjective
<1>8. Cardinality(0 .. N) <= Cardinality(Txns)
  BY ONLY <1>1, <1>7, FS_Injection
<1>9. Cardinality(0 .. N) = N + 1
  BY ONLY <1>1, FS_Interval
<1> QED BY <1>N, <1>1, <1>8, <1>9

\* The last call of a chain.
LEMMA LastCall ==
  ASSUME NEW A, A \subseteq Txns, NEW c, NEW d \in [Txns -> Nat], Chained(A, txn, c, d), NEW t \in A
  PROVE  \E u \in A : Leaf(u, A, txn) /\ \E k \in DOMAIN Behind(u) : Behind(u)[k] = t
<1>N. PICK N : N = Cardinality(Txns)
  OBVIOUS
<1>1. N \in Nat /\ \A w \in A : d[w] \in Nat /\ d[w] < N /\ w # None
  BY <1>N, Marks, FS_CardinalityType, DepthBound
<1> DEFINE S == {n \in Nat : \E w \in A : c[w] = c[t] /\ n = N - d[w]}
<1>2. N - d[t] \in S
  BY <1>1
<1>3. PICK n \in S : \A k \in S : n <= k
  <2>1. S \subseteq Nat /\ S # {}
    BY <1>2
  <2> HIDE DEF S
  <2> QED BY ONLY <2>1, LeastIs
<1>4. PICK u \in A : c[u] = c[t] /\ n = N - d[u]
  OBVIOUS
<1>5. \A w \in A : c[w] = c[t] => d[w] <= d[u]
  <2>1. ASSUME NEW w \in A, c[w] = c[t] PROVE d[w] <= d[u]
    <3>1. N - d[w] \in S
      BY <1>1, <2>1
    <3>2. N - d[u] <= N - d[w]
      BY <1>3, <1>4, <3>1
    <3> QED BY <1>1, <1>4, <2>1, <3>2
  <2> QED BY <2>1
<1>6. Leaf(u, A, txn)
  <2>1. ASSUME NEW w \in A, txn[w].from_parent = u PROVE FALSE
    <3>1. c[u] = c[w] /\ d[w] = d[u] + 1
      BY <1>1, <1>4, <2>1 DEF Chained
    <3>2. d[w] <= d[u]
      BY <1>4, <1>5, <2>1, <3>1
    <3> QED BY <1>1, <1>4, <3>1, <3>2
  <2> QED BY <2>1 DEF Leaf
<1>7. d[t] <= d[u] /\ d[u] - d[t] \in 0 .. N /\ d[u] - d[t] <= d[u]
  <2>1. d[t] <= d[u]
    BY <1>5
  <2> QED BY <1>1, <1>4, <2>1
<1>k. PICK k \in 0 .. N : k = d[u] - d[t]
  BY <1>7
<1>8. Behind(u)[k] \in A /\ c[Behind(u)[k]] = c[u] /\ d[Behind(u)[k]] = d[u] - k
  <2>1. k <= d[u]
    BY <1>7, <1>k
  <2> QED BY <1>N, <1>4, <1>k, <2>1, BehindChain
<1>9. d[u] - k = d[t]
  BY <1>1, <1>4, <1>k
<1>10. Behind(u)[k] = t
  <2>1. c[Behind(u)[k]] = c[t] /\ d[Behind(u)[k]] = d[t]
    BY <1>4, <1>8, <1>9
  <2>2. \A v, w \in A : c[v] = c[w] /\ d[v] = d[w] => v = w
    BY DEF Chained
  <2> QED BY <1>8, <2>1, <2>2
<1>11. k \in DOMAIN Behind(u)
  BY <1>N, <1>k, BehindIs
<1> QED BY <1>4, <1>6, <1>10, <1>11

\* The last call of a chain is in somebody's hands.
LEMMA LeafHandled ==
  ASSUME NEW a, NEW o, NEW r, NEW c, NEW d, Core(a, o, r, c, d), NEW u \in Active(txn, a), Leaf(u, Active(txn, a), txn)
  PROVE  u \in Txns /\ txn[u].kind = "call" /\ Handled(u)
<1>A. PICK A : A = Active(txn, a)
  OBVIOUS
<1>1. u \in Txns /\ u \in A /\ Leaf(u, A, txn) /\ txn[u].kind = "call" /\ a[u] \notin {"none", "built", "done"}
  BY <1>A DEF Active
<1>2. Types /\ Fits(a, o, r, u) /\ Listed(a, o) /\ Ends(a, o, A) /\ Stacks(a, r, c, d) /\ a[u] \in Places /\ txn[u] \in TxnType
  BY <1>A, <1>1, CoreIs DEF PlaceType, Types
<1>3. a[u] # "async" /\ a[u] # "orphan"
  BY <1>1, <1>2 DEF Fits, Ends
<1>4. CASE a[u] = "todo"
  <2>1. o[u] \in Threads
    BY <1>2, <1>4 DEF Fits
  <2>2. u \in In(thr[o[u]].todo)
    BY <1>1, <1>2, <1>4, <2>1 DEF Listed
  <2>3. Lists(u)
    BY <2>1, <2>2 DEF In, Lists
  <2> QED BY <1>1, <2>3 DEF Handled
<1>5. CASE a[u] = "ptodo"
  <2>1. o[u] \in Procs
    BY <1>2, <1>5 DEF Fits, TxnType
  <2>2. u \in In(prc[o[u]].todo)
    BY <1>1, <1>2, <1>5, <2>1 DEF Listed
  <2>3. Lists(u)
    BY <2>1, <2>2 DEF In, Lists
  <2> QED BY <1>1, <2>3 DEF Handled
<1>6. CASE a[u] \in {"queue", "deliver", "job"}
  <2>1. a[u] \in Taken
    BY <1>6 DEF Taken
  <2>2. o[u] \in Tasks /\ u \in {job[o[u]].t, job[o[u]].re}
    BY ONLY Core(a, o, r, c, d), <1>1, <2>1, TakenBy
  <2>3. Jobs(u)
    BY <2>2 DEF Jobs
  <2> QED BY <1>1, <2>3 DEF Handled
<1>7. CASE a[u] = "stack"
  <2>1. o[u] \in Threads /\ r[u] = o[u] /\ o[u] # None
    BY <1>2, <1>7, Marks DEF Fits
  <2>2. txn[u].to_thread = o[u]
    BY <1>2, <2>1 DEF Fits
  <2>3. CASE ~thr[o[u]].dead
    BY <1>1, <2>1, <2>2, <2>3 DEF Handled
  <2>4. CASE thr[o[u]].dead
    <3>1. u \in On(o[u], txn, a, r)
      BY <1>1, <2>1 DEF On
    <3>2. PICK x \in Tasks : job[x].pc = "walk" /\ job[x].dying = o[u]
      BY <1>2, <2>1, <2>4, <3>1 DEF Stacks
    <3>3. u = job[x].re
      BY <1>1, <1>2, <1>7, <3>2 DEF Ends
    <3>4. Jobs(u)
      BY <3>2, <3>3 DEF Jobs
    <3> QED BY <1>1, <3>4 DEF Handled
  <2> QED BY <2>3, <2>4
<1> QED BY <1>1, <1>2, <1>3, <1>4, <1>5, <1>6, <1>7 DEF Places

\* No caller is forgotten: the last call of the chain it waits in is in somebody's hands.
LEMMA CallerIs ==
  ASSUME TxnInv
  PROVE  CallerNotForgotten
<1>0. PICK a, o, r, c, d : Core(a, o, r, c, d)
  BY DEF TxnInv
<1>A. PICK A : A = Active(txn, a)
  OBVIOUS
<1>1. A \subseteq Txns /\ d \in [Txns -> Nat] /\ Chained(A, txn, c, d)
  <2>1. d \in [Txns -> Nat] /\ Chained(A, txn, c, d)
    BY <1>0, <1>A, CoreIs
  <2> QED BY <1>A, <2>1 DEF Active
<1>2. ASSUME NEW h \in Threads, ~thr[h].dead, thr[h].stack # None
      PROVE  \E u \in Txns : txn[u].kind = "call" /\ Handled(u) /\ \E k \in DOMAIN Behind(u) : Behind(u)[k] = thr[h].stack
  <2>1. thr[h].stack \in A
    BY ONLY <1>0, <1>A, <1>2, StackIs
  <2>2. PICK u \in A : Leaf(u, A, txn) /\ \E k \in DOMAIN Behind(u) : Behind(u)[k] = thr[h].stack
    BY ONLY <1>1, <2>1, LastCall
  <2>3. u \in Txns /\ txn[u].kind = "call" /\ Handled(u)
    BY ONLY <1>0, <1>A, <2>2, LeafHandled
  <2> QED BY <2>2, <2>3
<1> QED BY <1>2 DEF CallerNotForgotten

-----------------------------------------------------------------------------
(* The properties, for every number of processes, threads and transactions.  *)

\* Threads, processes and transactions live exactly as long as something needs them: no pointer of
\* the driver leads to freed memory, through exits, releases and failed replies that go up and down
\* the same chain (binder_thread_release, binder_deferred_release, binder_send_failed_reply), and
\* tmp_ref counts exactly the tasks that hold a thread or a process.
THEOREM ThreadsAreSound == Spec => []ThreadsSound
BY TransactionsInvariant, SoundIs, PTL

\* The BUG_ONs of the driver never fire: the transaction that binder_pop_transaction_ilocked takes off
\* a caller's stack is on top and was sent by it, the stack that binder_thread_release walks holds only
\* transactions of the thread, and freed threads and processes have empty lists.
THEOREM AssertionsAlwaysHold == Spec => []AssertionsHold
BY TransactionsInvariant, AssertionsIs, PTL

\* No caller is forgotten: the call a live thread waits for in binder_thread_read is at the end of, or
\* behind the end of, a chain whose last call is on a list, with a task in the driver, or on the stack
\* of a live thread, whatever threads of the chain have exited.
THEOREM CallersNotForgotten == Spec => []CallerNotForgotten
BY TransactionsInvariant, CallerIs, PTL

\* One-way transactions take turns: has_async_transaction is set exactly while one of them is out of
\* async_todo or its buffer is not freed (binder_proc_transaction, binder_free_buf).
THEOREM AsyncTurnsExact == Spec => []AsyncTurnExact
BY TransactionsInvariant, AsyncIs, PTL

\* No thread sleeps over work: what is on a list without process_todo is a deferred
\* TRANSACTION_COMPLETE and nothing else (binder_enqueue_deferred_thread_work_ilocked).
THEOREM NobodySleepsOverWork == Spec => []NoSleepOverWork
BY TransactionsInvariant, PoolIs, PTL

\* The pool of a process stays within max_threads, and who waits on waiting_threads has neither work
\* nor a call to answer (binder_thread_read, binder_select_thread_ilocked).
THEOREM PoolsAreSound == Spec => []PoolSound
BY TransactionsInvariant, PoolIs, PTL
=============================================================================
