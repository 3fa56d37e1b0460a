---------------------- MODULE BinderTransactionLemmas -----------------------
(***************************************************************************)
(* The inductive invariant TxnInv of BinderTransaction, what adding,       *)
(* moving, taking off and freeing one transaction do to its parts, and the *)
(* steps of the driver that leave the order of nested calls as it is: a    *)
(* failed, refused or abandoned call, one-way transactions and their       *)
(* turns, freed buffers, drained lists, the work lists of a process that   *)
(* is closed.  BinderTransactionProofs has the other steps and the         *)
(* theorems.                                                               *)
(*                                                                         *)
(* TxnInv says of each transaction where it is (a, o, r: place, owner and  *)
(* handler) and which chain of nested calls it belongs to at which depth   *)
(* (c, d), and of each stack that it is the part of one chain that         *)
(* concerns its thread.                                                    *)
(***************************************************************************)
EXTENDS BinderTransaction, Integers, FiniteSetTheorems, WellFoundedInduction, TLAPS

-----------------------------------------------------------------------------
(* Types.                                                                  *)

Words == {"complete", "return_error", "reply_error"}
Parents == Txns \cup {None}
ThreadType ==
  [mem : {"live", "freed"}, dead : BOOLEAN, tmp : Nat, stack : Parents, todo : Seq(Txns \cup Words),
   process_todo : BOOLEAN, waiting : BOOLEAN, looper : BOOLEAN, return_error : BOOLEAN,
   reply_error : BOOLEAN]
ProcType ==
  [life : {"open", "dead", "gone", "freed"}, tmp : Nat, todo : Seq(Txns), async_todo : Seq(Txns),
   has_async : BOOLEAN, buffers : Nat, stuck : Nat, requested : Nat, started : Nat]
TxnType ==
  [kind : {"free", "call", "async", "reply"}, from : Threads \cup {None},
   to_proc : Procs \cup {None}, to_thread : Threads \cup {None}, from_parent : Parents,
   to_parent : Parents]
JobType ==
  [pc : {"idle", "built", "queue", "reply0", "reply1", "rbuilt", "rsend", "fail1", "fail2", "free",
         "deliver", "walk", "drain", "threads", "todo"},
   t : Parents, re : Parents, target : Threads \cup {None}, proc : Procs \cup {None},
   dying : Threads \cup {None}, next : {"idle", "drain", "todo"}]
Types ==
  /\ prc \in [Procs -> ProcType] /\ thr \in [Threads -> ThreadType]
  /\ txn \in [Txns -> TxnType] /\ job \in [Tasks -> JobType]
  /\ calls \in 0 .. MaxCalls /\ faults \in 0 .. Faults

\* What a task carries in each of its places.
Carries(j) ==
  /\ j.pc = "idle" => j = Idle
  /\ j.pc \in {"built", "queue"} => j.t # None /\ j.re = None /\ j.proc # None
  /\ j.pc \in {"reply0", "reply1"} => j.t = None /\ j.re # None /\ j.proc = None
  /\ j.pc = "reply0" => j.target = None
  /\ j.pc \in {"reply1", "rbuilt", "rsend", "fail2"} => j.target # None
  /\ j.pc \in {"rbuilt", "rsend"} => j.t # None /\ j.re # None /\ j.proc = ProcOf[j.target]
  /\ j.pc \in {"fail1", "fail2", "free", "deliver"} => j.t # None /\ j.re = None
  /\ j.pc \in {"fail1", "free", "walk", "drain", "threads", "todo"} => j.target = None
  /\ j.pc = "deliver" => j.proc = None /\ j.next = "idle"
  /\ j.pc = "walk" => j.t # None /\ j.dying # None
  /\ j.pc = "drain" => j.t = None /\ j.re = None /\ j.dying # None
  /\ j.pc \in {"threads", "todo"} => j.t = None /\ j.re = None /\ j.dying = None
  /\ j.dying # None => j.pc \in {"walk", "drain", "fail1", "fail2", "free"}
  /\ j.pc \in {"fail1", "fail2", "free"} => (j.next = "drain" <=> j.dying # None)

\* A thread works for itself and in its own name, the worker for a process that is closed.
ThreadJob(h) ==
  LET j == job[h] IN
  /\ j.pc \notin {"threads", "todo"} /\ j.dying \in {None, h}
  /\ j.pc \notin {"built", "queue", "rbuilt", "rsend"} => j.proc = None
  /\ j.pc \in {"fail1", "fail2", "free"} => j.next # "todo"
  /\ j.pc # "idle" => /\ prc[ProcOf[h]].life = "open" /\ ~thr[h].waiting
                      /\ thr[h].dead <=> j.dying = h
WorkerJob ==
  LET j == job[Worker] IN
  /\ j.pc \in {"idle", "threads", "todo", "walk", "drain", "fail1", "fail2", "free"}
  /\ j.pc # "idle" => j.proc # None /\ prc[j.proc].life \in {"dead", "gone"}
  /\ j.dying # None => ProcOf[j.dying] = j.proc /\ thr[j.dying].dead
  /\ j.pc \in {"fail1", "fail2", "free"} => j.next # "idle"
  /\ j.pc \in {"fail1", "fail2", "free"} /\ j.next = "todo" => prc[j.proc].life = "gone"
  /\ j.pc = "todo" => prc[j.proc].life = "gone"
  /\ j.pc \in {"threads", "walk", "drain"} => prc[j.proc].life = "dead"
  /\ j.pc \in {"fail1", "fail2", "free"} /\ j.next = "drain" => prc[j.proc].life = "dead"
JobsOk == /\ \A x \in Tasks : Carries(job[x])
          /\ \A h \in Threads : ThreadJob(h)
          /\ WorkerJob

-----------------------------------------------------------------------------
(* Places.  a says in which place a transaction is, o whose place it is, and r on whose stack it *)
(* is as a call that was delivered.                                         *)

Places == {"none", "built", "queue", "todo", "ptodo", "async", "deliver", "stack", "orphan", "job", "done"}
Owners == Tasks \cup Procs \cup {None}
PlaceType(a, o, r) ==
  a \in [Txns -> Places] /\ o \in [Txns -> Owners] /\ r \in [Txns -> Threads \cup {None}]

\* The transactions of a list; each is there once.
In(s) == {t \in Txns : \E i \in DOMAIN s : s[i] = t}
Once(s) == \A i, k \in DOMAIN s : s[i] = s[k] /\ s[i] \in Txns => i = k

Listed(a, o) ==
  /\ \A h \in Threads : Once(thr[h].todo) /\ \A t \in Txns : t \in In(thr[h].todo) <=> a[t] = "todo" /\ o[t] = h
  /\ \A p \in Procs :
       /\ Once(prc[p].todo) /\ \A t \in Txns : t \in In(prc[p].todo) <=> a[t] = "ptodo" /\ o[t] = p
       /\ Once(prc[p].async_todo)
       /\ \A t \in Txns : t \in In(prc[p].async_todo) <=> a[t] = "async" /\ o[t] = p

\* Task x, whose job is j, has what its place says, and what has the place of a task is with it.
Holds(a, o, x, j) ==
  /\ j.t # None /\ j.pc # "walk" =>
       /\ o[j.t] = x
       /\ j.pc \in {"built", "rbuilt", "rsend"} => a[j.t] = "built"
       /\ j.pc \in {"queue", "deliver"} => a[j.t] = j.pc
       /\ j.pc \in {"fail1", "fail2"} => a[j.t] = "job"
       /\ j.pc = "free" => a[j.t] = "done"
  /\ j.re # None =>
       \/ a[j.re] = "job" /\ o[j.re] = x
       \/ j.pc = "walk" /\ j.re = j.t /\ a[j.re] = "stack" /\ o[j.re] = j.dying
Taken == {"built", "queue", "deliver", "job", "done"}
With(t, j) == (t = j.t /\ j.pc # "walk") \/ t = j.re
Held(a, o) ==
  /\ \A x \in Tasks : Holds(a, o, x, job[x])
  /\ \A t \in Txns : a[t] \in Taken => o[t] \in Tasks /\ With(t, job[o[t]])

\* The process in whose driver the task runs.
Home(x) == IF x = Worker THEN job[x].proc ELSE ProcOf[x]

\* The fields of a transaction fit its place.
Fits(a, o, r, t) ==
  LET X == txn[t]
      j == job[o[t]] IN
  /\ a[t] = "none" <=> X.kind = "free"
  /\ a[t] = "none" => X = NoTxn /\ r[t] = None
  /\ X.kind \in {"async", "reply"} => X.from = None /\ X.from_parent = None /\ X.to_parent = None
  /\ X.kind = "async" => X.to_thread = None /\ a[t] \in {"built", "queue", "todo", "ptodo", "async", "deliver"}
  /\ X.kind = "reply" => X.to_thread # None /\ a[t] \in {"built", "todo", "deliver"}
  /\ X.kind = "call" => a[t] # "async"
  /\ X.to_thread # None => X.to_proc = ProcOf[X.to_thread]
  /\ X.from # None /\ X.to_proc # None => ProcOf[X.from] # X.to_proc
  /\ a[t] \in {"built", "queue", "todo", "ptodo", "async", "deliver"} => X.to_proc # None
  /\ a[t] \in {"built", "queue"} =>
       /\ X.to_proc = j.proc /\ X.to_thread = j.target /\ (X.kind = "call" => X.from = o[t])
  /\ a[t] = "built" => X.from_parent = None /\ (X.kind = "reply" <=> j.pc # "built")
  /\ a[t] = "todo" => o[t] \in Threads /\ X.to_proc = ProcOf[o[t]] /\ X.to_thread \in {None, o[t]}
  /\ a[t] = "ptodo" => X.to_proc = o[t] /\ X.to_thread = None
  /\ a[t] = "async" => X.to_proc = o[t]
  /\ a[t] = "deliver" => /\ o[t] \in Threads /\ X.to_proc = ProcOf[o[t]] /\ X.to_thread \in {None, o[t]}
                         /\ X.from \in {None, j.target}
  /\ a[t] = "stack" => o[t] \in Threads /\ r[t] = o[t]
  /\ a[t] = "orphan" => X.to_proc = None
  /\ a[t] = "job" => /\ X.from # None /\ j.pc \in {"reply1", "rbuilt", "rsend", "fail2"} => X.from = j.target
                     /\ X.from = None /\ j.pc \in {"reply1", "rbuilt", "rsend"} => thr[j.target].dead
  /\ a[t] = "done" => X.from = None
  /\ a[t] \in {"job", "done"} /\ r[t] = None =>
       X.to_thread \in {None, o[t], j.dying} /\ X.to_proc \in {None, Home(o[t])}
  /\ r[t] # None => /\ X.to_thread = r[t] /\ a[t] \in {"stack", "job", "done"}
                    /\ a[t] # "stack" => thr[r[t]].dead

-----------------------------------------------------------------------------
(* Chains.  A call that is sent while another is handled is its child: from_parent.  A call has *)
(* at most one child that is not answered, so the calls form chains; c is the first call of the  *)
(* chain, d the distance from it.                                           *)

\* The calls that are not answered.
Active(X, a) == {t \in Txns : X[t].kind = "call" /\ a[t] \notin {"none", "built", "done"}}
Leaf(t, A, X) == \A w \in A : X[w].from_parent # t

Chained(A, X, c, d) ==
  /\ \A t \in A :
       LET u == X[t].from_parent IN
       /\ u = None => d[t] = 0 /\ c[t] = t
       /\ u # None => u \in A /\ c[u] = c[t] /\ d[t] = d[u] + 1
       /\ c[t] \in A /\ c[c[t]] = c[t] /\ d[c[t]] = 0
  /\ \A t, u \in A : c[t] = c[u] /\ d[t] = d[u] => t = u
  /\ \A t, u \in A : c[t] = c[u] /\ d[t] < d[u] => ~Leaf(t, A, X)

\* Who has a child, and who sent it.
Ends(a, o, A) ==
  /\ \A t \in A :
       /\ a[t] \in {"queue", "todo", "ptodo", "deliver", "job"} => Leaf(t, A, txn)
       /\ a[t] = "orphan" => ~Leaf(t, A, txn)
  /\ \A t \in A, w \in A : txn[w].from_parent = t =>
       /\ a[t] = "stack" => \/ txn[w].from = o[t]
                            \/ thr[o[t]].dead /\ txn[w].from = None
       /\ a[t] = "orphan" => txn[w].from = None
  /\ \A x \in Tasks : job[x].pc = "walk" =>
       \A t \in A : a[t] = "stack" /\ o[t] = job[x].dying => (Leaf(t, A, txn) <=> t = job[x].re)

-----------------------------------------------------------------------------
(* Stacks.  On the stack of a thread are the calls it sent and the calls it handles, all of one *)
(* chain and the deeper ones on top.                                       *)

On(h, X, a, r) == {t \in Txns : (X[t].from = h /\ a[t] # "built") \/ r[t] = h}
Under(X, t, h) == IF X[t].to_thread = h THEN X[t].to_parent ELSE X[t].from_parent

\* S is a stack with this top.
Stack(h, top, S, X, c, d) ==
  /\ top = None => S = {}
  /\ top # None => top \in S /\ \A t \in S : c[t] = c[top] /\ d[t] <= d[top]
  /\ \A t, u \in S : d[t] = d[u] => t = u
  /\ \A t \in S :
       LET b == Under(X, t, h) IN
       /\ b = None => \A u \in S : d[u] >= d[t]
       /\ b # None => b \in S /\ d[b] < d[t] /\ \A u \in S : d[u] <= d[b] \/ d[u] >= d[t]

Stacks(a, r, c, d) ==
  /\ \A h \in Threads : ~thr[h].dead => Stack(h, thr[h].stack, On(h, txn, a, r), txn, c, d)
  /\ \A x \in Tasks : job[x].pc = "walk" =>
       Stack(job[x].dying, job[x].t, On(job[x].dying, txn, a, r), txn, c, d)
  /\ \A h \in Threads : thr[h].dead /\ On(h, txn, a, r) # {} =>
       \E x \in Tasks : job[x].pc = "walk" /\ job[x].dying = h

\* A call on its way to the thread h that waits in its chain: whatever is on the stack of h is
\* of that chain, which is also that of v.
Meets(h, v, a, r, c) == ~thr[h].dead => On(h, txn, a, r) # {} /\ \A z \in On(h, txn, a, r) : c[z] = c[v]

\* A call on its way to no thread in particular.
Fresh(t, h, a, o) == a[t] = "todo" /\ o[t] = h /\ txn[t].kind = "call" /\ txn[t].to_thread = None

Flights(a, o, r, c) ==
  /\ \A t \in Txns : txn[t].kind = "call" /\ a[t] \in {"queue", "todo", "deliver"} /\ txn[t].to_thread # None
       => Meets(txn[t].to_thread, t, a, r, c)
  /\ \A x \in Threads : job[x].pc = "built" /\ txn[job[x].t].kind = "call" =>
       /\ thr[x].stack # None => r[thr[x].stack] = x
       /\ job[x].target # None => thr[x].stack # None /\ Meets(job[x].target, thr[x].stack, a, r, c)
  /\ \A h \in Threads : ~thr[h].dead =>
       \A t \in Txns : Fresh(t, h, a, o) =>
         /\ thr[h].stack = None /\ thr[h].todo[1] = t
         /\ job[h].pc \in {"built", "deliver"} => txn[job[h].t].kind # "call"
  /\ \A h \in Threads : job[h].pc = "deliver" /\ txn[job[h].t].to_thread = None
       /\ txn[job[h].t].kind = "call" => thr[h].stack = None

-----------------------------------------------------------------------------
(* Threads and processes.                                                  *)

Count(h) == Cardinality({x \in Tasks : job[x].target = h}) + Cardinality({x \in Tasks : job[x].dying = h})
Users(p) == Cardinality({x \in Tasks : job[x].proc = p})
Corpses(p) == {h \in ThreadsOf(p) : thr[h].dead /\ thr[h].mem = "live"}

Counted ==
  /\ \A h \in Threads : /\ thr[h].tmp = Count(h)
                        /\ thr[h].mem = "freed" <=> thr[h].dead /\ thr[h].tmp = 0
  /\ \A p \in Procs : /\ prc[p].tmp = Users(p) + Cardinality(Corpses(p))
                      /\ prc[p].life = "freed" => prc[p].tmp = 0
                      /\ prc[p].life \in {"dead", "gone"} => prc[p].tmp > 0

Lives ==
  /\ \A h \in Threads :
       /\ thr[h].dead /\ Len(thr[h].todo) > 0 => \E x \in Tasks : job[x].dying = h
       /\ thr[h].waiting => /\ thr[h].stack = None /\ Len(thr[h].todo) = 0 /\ ~thr[h].dead
                            /\ prc[ProcOf[h]].life = "open"
       /\ prc[ProcOf[h]].life \in {"gone", "freed"} => thr[h].dead
       /\ prc[ProcOf[h]].life # "open" => job[h].pc = "idle"
  /\ \A p \in Procs :
       /\ prc[p].life # "open" /\ Len(prc[p].todo) > 0 => job[Worker].proc = p
       /\ prc[p].life = "dead" => job[Worker].proc = p
       /\ prc[p].life \in {"gone", "freed"} => Len(prc[p].async_todo) = 0

-----------------------------------------------------------------------------
\* The one-way transactions of p that have their turn.
Turn(p, a) == {t \in Txns : txn[t].kind = "async" /\ txn[t].to_proc = p /\ a[t] \in {"todo", "ptodo", "deliver"}}
Turns(a) ==
  \A p \in Procs : prc[p].life = "open" =>
    /\ Cardinality(Turn(p, a)) + prc[p].buffers + prc[p].stuck = IF prc[p].has_async THEN 1 ELSE 0
    /\ Len(prc[p].async_todo) > 0 => prc[p].has_async

-----------------------------------------------------------------------------
GhostType(a, o, r, c, d) == PlaceType(a, o, r) /\ c \in [Txns -> Txns] /\ d \in [Txns -> Nat]
Placed(a, o, r) == Listed(a, o) /\ Held(a, o) /\ \A t \in Txns : Fits(a, o, r, t)
Linked(a, o, r, c, d) ==
  /\ Chained(Active(txn, a), txn, c, d) /\ Ends(a, o, Active(txn, a))
  /\ Stacks(a, r, c, d) /\ Flights(a, o, r, c)
\* A task that has still to queue what it sends can take its TRANSACTION_COMPLETE back.
Completes == \A x \in Threads : job[x].pc \in {"queue", "rsend"} =>
               \E i \in DOMAIN thr[x].todo : thr[x].todo[i] = "complete"

Base == Types /\ JobsOk /\ Counted /\ Lives /\ Completes /\ NoSleepOverWork /\ PoolBound
Core(a, o, r, c, d) ==
  Base /\ GhostType(a, o, r, c, d) /\ Placed(a, o, r) /\ Linked(a, o, r, c, d) /\ Turns(a)
TxnInv == \E a, o, r, c, d : Core(a, o, r, c, d)

-----------------------------------------------------------------------------
(* Constants, lists and counting.                                          *)

\* The names are distinct and the tasks can be counted.
LEMMA Marks ==
  /\ None \notin Txns /\ None \notin Threads /\ None \notin Procs /\ Worker \notin Threads
  /\ Worker \in Tasks /\ Threads \subseteq Tasks /\ (\A x \in Tasks : x # Worker => x \in Threads)
  /\ Words \cap Txns = {} /\ Procs \cap Threads = {}
  /\ \A h \in Threads : ProcOf[h] \in Procs
  /\ IsFiniteSet(Threads) /\ IsFiniteSet(Txns) /\ IsFiniteSet(Tasks)
  /\ MaxThreads \in Nat /\ MaxCalls \in Nat /\ Faults \in Nat
<1>1. IsFiniteSet(Threads \cup {Worker})
  BY TxnAssumption, FS_AddElement
<1> QED BY <1>1, TxnAssumption DEF Tasks, Words

\* A set of natural numbers has a least member.
LEMMA LeastIs ==
  ASSUME NEW S, S \subseteq Nat, S # {}
  PROVE  \E n \in S : \A k \in S : n <= k
<1> DEFINE R == OpToRel(<, Nat)
<1>1. IsWellFoundedOn(R, Nat)
  BY NatLessThanWellFounded
<1>2. \A i, j \in Nat : i < j => <<i, j>> \in R
  BY DEF OpToRel
<1> HIDE DEF R
<1>3. PICK n \in S : \A k \in S : ~(<<k, n>> \in R)
  BY <1>1, WFMin
<1>4. \A k \in S : ~(k < n)
  BY <1>2, <1>3, Zenon
<1> QED BY <1>4

\* An element at the end of a list.
LEMMA AppendIn ==
  ASSUME NEW s \in Seq(Txns \cup Words), NEW w \in Txns \cup Words
  PROVE  /\ Append(s, w) \in Seq(Txns \cup Words) /\ Len(Append(s, w)) = Len(s) + 1
         /\ \A i \in 1 .. Len(s) : Append(s, w)[i] = s[i]
         /\ Append(s, w)[Len(s) + 1] = w
         /\ \A t : t \in In(Append(s, w)) <=> t \in In(s) \/ (t = w /\ w \in Txns)
         /\ Once(s) /\ w \notin In(s) => Once(Append(s, w))
<1>1. /\ Append(s, w) \in Seq(Txns \cup Words) /\ Len(Append(s, w)) = Len(s) + 1
      /\ \A i \in 1 .. Len(s) : Append(s, w)[i] = s[i]
      /\ Append(s, w)[Len(s) + 1] = w
      /\ DOMAIN Append(s, w) = 1 .. Len(s) + 1 /\ DOMAIN s = 1 .. Len(s) /\ Len(s) \in Nat
  OBVIOUS
<1>2. ASSUME NEW t PROVE t \in In(Append(s, w)) <=> t \in In(s) \/ (t = w /\ w \in Txns)
  <2>1. ASSUME NEW i \in DOMAIN Append(s, w), Append(s, w)[i] = t PROVE t = w \/ \E k \in DOMAIN s : s[k] = t
    BY <1>1, <2>1
  <2>2. ASSUME NEW i \in DOMAIN s, s[i] = t PROVE \E k \in DOMAIN Append(s, w) : Append(s, w)[k] = t
    <3>1. i \in DOMAIN Append(s, w) /\ Append(s, w)[i] = t
      BY <1>1, <2>2
    <3> QED BY <3>1
  <2>3. Len(s) + 1 \in DOMAIN Append(s, w)
    BY <1>1
  <2> QED BY <1>1, <2>1, <2>2, <2>3 DEF In
<1>3. ASSUME Once(s), w \notin In(s) PROVE Once(Append(s, w))
  <2> SUFFICES ASSUME NEW i \in DOMAIN Append(s, w), NEW k \in DOMAIN Append(s, w),
                      Append(s, w)[i] = Append(s, w)[k], Append(s, w)[i] \in Txns
               PROVE  i = k
    BY DEF Once
  <2>1. CASE i \in DOMAIN s /\ k \in DOMAIN s
    BY <1>1, <1>3, <2>1 DEF Once
  <2>2. CASE i = Len(s) + 1 /\ k \in DOMAIN s
    BY <1>1, <1>3, <2>2 DEF In
  <2>3. CASE k = Len(s) + 1 /\ i \in DOMAIN s
    BY <1>1, <1>3, <2>3 DEF In
  <2> QED BY <1>1, <2>1, <2>2, <2>3
<1> QED BY <1>1, <1>2, <1>3

\* A list without its head.
LEMMA TailIn ==
  ASSUME NEW s \in Seq(Txns \cup Words), Len(s) > 0
  PROVE  /\ Tail(s) \in Seq(Txns \cup Words) /\ Len(Tail(s)) = Len(s) - 1
         /\ Head(s) \in Txns \cup Words /\ Head(s) = s[1]
         /\ \A i \in 1 .. Len(s) - 1 : Tail(s)[i] = s[i + 1]
         /\ Head(s) \in Txns => Head(s) \in In(s)
         /\ Once(s) => Once(Tail(s)) /\ \A t : t \in In(Tail(s)) <=> t \in In(s) /\ t # Head(s)
<1>1. /\ Tail(s) \in Seq(Txns \cup Words) /\ Len(Tail(s)) = Len(s) - 1
      /\ Head(s) \in Txns \cup Words /\ Head(s) = s[1]
      /\ \A i \in 1 .. Len(s) - 1 : Tail(s)[i] = s[i + 1]
      /\ DOMAIN Tail(s) = 1 .. Len(s) - 1 /\ DOMAIN s = 1 .. Len(s) /\ Len(s) \in Nat
  OBVIOUS
<1>2. Head(s) \in Txns => Head(s) \in In(s)
  <2>1. 1 \in DOMAIN s
    BY <1>1
  <2> QED BY <1>1, <2>1 DEF In
<1>3. ASSUME Once(s) PROVE Once(Tail(s))
  <2> SUFFICES ASSUME NEW i \in DOMAIN Tail(s), NEW k \in DOMAIN Tail(s),
                      Tail(s)[i] = Tail(s)[k], Tail(s)[i] \in Txns
               PROVE  i = k
    BY DEF Once
  <2>1. i + 1 \in DOMAIN s /\ k + 1 \in DOMAIN s /\ s[i + 1] = s[k + 1] /\ s[i + 1] \in Txns
    BY <1>1
  <2>2. i + 1 = k + 1
    BY <1>3, <2>1 DEF Once
  <2> QED BY <1>1, <2>2
<1>4. ASSUME Once(s), NEW t PROVE t \in In(Tail(s)) <=> t \in In(s) /\ t # Head(s)
  <2>1. ASSUME t \in In(Tail(s)) PROVE t \in In(s) /\ t # Head(s)
    <3>1. PICK i \in DOMAIN Tail(s) : Tail(s)[i] = t /\ t \in Txns
      BY <2>1 DEF In
    <3>2. i + 1 \in DOMAIN s /\ s[i + 1] = t /\ 1 \in DOMAIN s /\ i + 1 # 1
      BY <1>1, <3>1
    <3>3. s[1] # t
      BY <1>4, <3>1, <3>2 DEF Once
    <3> QED BY <1>1, <3>1, <3>2, <3>3 DEF In
  <2>2. ASSUME t \in In(s), t # Head(s) PROVE t \in In(Tail(s))
    <3>1. PICK i \in DOMAIN s : s[i] = t /\ t \in Txns
      BY <2>2 DEF In
    <3>2. i # 1
      BY <1>1, <2>2, <3>1
    <3>3. i - 1 \in DOMAIN Tail(s) /\ Tail(s)[i - 1] = t
      BY <1>1, <3>1, <3>2
    <3> QED BY <3>1, <3>3 DEF In
  <2> QED BY <2>1, <2>2
<1> QED BY <1>1, <1>2, <1>3, <1>4

\* The same for lists of transactions only.
LEMMA TxnLists == Seq(Txns) \subseteq Seq(Txns \cup Words)
OBVIOUS

\* A transaction that the list holds.
LEMMA InList ==
  ASSUME NEW s, NEW i \in DOMAIN s, s[i] \in Txns
  PROVE  s[i] \in In(s)
BY DEF In

\* An empty list.
LEMMA EmptyIn ==
  ASSUME NEW s \in Seq(Txns \cup Words), Len(s) = 0
  PROVE  In(s) = {} /\ Once(s)
<1>1. DOMAIN s = {}
  OBVIOUS
<1> QED BY <1>1 DEF In, Once

\* A list that holds a transaction is not empty.
LEMMA InLen ==
  ASSUME NEW s \in Seq(Txns \cup Words), NEW t \in In(s)
  PROVE  Len(s) > 0 /\ Len(s) \in Nat
<1>1. PICK i \in DOMAIN s : s[i] = t
  BY DEF In
<1> QED BY <1>1

One(b) == IF b THEN 1 ELSE 0

\* A set that differs from another in one element at most.
LEMMA OneChanges ==
  ASSUME NEW S, NEW U, NEW e, IsFiniteSet(S), \A b : b # e => (b \in U <=> b \in S)
  PROVE  /\ IsFiniteSet(U) /\ Cardinality(U) \in Nat /\ Cardinality(S) \in Nat
         /\ Cardinality(U) = Cardinality(S) + One(e \in U) - One(e \in S)
<1>1. Cardinality(S) \in Nat
  BY FS_CardinalityType
<1>2. CASE e \in U /\ e \notin S
  <2>1. U = S \cup {e}
    BY <1>2
  <2>2. IsFiniteSet(U) /\ Cardinality(U) = Cardinality(S) + 1
    BY <1>2, <2>1, FS_AddElement
  <2> QED BY <1>1, <1>2, <2>2 DEF One
<1>3. CASE e \notin U /\ e \in S
  <2>1. U = S \ {e}
    BY <1>3
  <2>2. IsFiniteSet(U) /\ Cardinality(U) = Cardinality(S) - 1
    BY <1>3, <2>1, FS_RemoveElement
  <2>3. Cardinality(U) \in Nat
    BY <2>2, FS_CardinalityType
  <2> QED BY <1>1, <1>3, <2>2, <2>3 DEF One
<1>4. CASE e \in U <=> e \in S
  <2>1. U = S
    BY <1>4
  <2> QED BY <1>1, <2>1 DEF One
<1> QED BY <1>2, <1>3, <1>4

\* One task goes on: it leaves or joins the users of a thread and of a process.
LEMMA Tally ==
  ASSUME NEW x \in Tasks, \A y \in Tasks : y # x => job'[y] = job[y]
  PROVE  /\ \A h : /\ Count(h) \in Nat /\ Count(h)' \in Nat
                   /\ Count(h)' = Count(h) + One(job'[x].target = h) - One(job[x].target = h)
                                           + One(job'[x].dying = h) - One(job[x].dying = h)
         /\ \A p : /\ Users(p) \in Nat /\ Users(p)' \in Nat
                   /\ Users(p)' = Users(p) + One(job'[x].proc = p) - One(job[x].proc = p)
<1>1. ASSUME NEW h
      PROVE  /\ Count(h) \in Nat /\ Count(h)' \in Nat
             /\ Count(h)' = Count(h) + One(job'[x].target = h) - One(job[x].target = h)
                                     + One(job'[x].dying = h) - One(job[x].dying = h)
  <2> DEFINE S == {y \in Tasks : job[y].target = h}
             U == {y \in Tasks : job'[y].target = h}
             V == {y \in Tasks : job[y].dying = h}
             W == {y \in Tasks : job'[y].dying = h}
  <2>1. IsFiniteSet(S) /\ IsFiniteSet(V)
    BY Marks, FS_Subset
  <2>2. /\ \A b : b # x => (b \in U <=> b \in S)
        /\ \A b : b # x => (b \in W <=> b \in V)
    OBVIOUS
  <2>3. /\ x \in U <=> job'[x].target = h
        /\ x \in S <=> job[x].target = h
        /\ x \in W <=> job'[x].dying = h
        /\ x \in V <=> job[x].dying = h
    OBVIOUS
  <2>4. Count(h) = Cardinality(S) + Cardinality(V) /\ Count(h)' = Cardinality(U) + Cardinality(W)
    BY DEF Count
  <2> HIDE DEF S, U, V, W
  <2>5. /\ Cardinality(U) \in Nat /\ Cardinality(S) \in Nat
        /\ Cardinality(U) = Cardinality(S) + One(x \in U) - One(x \in S)
    BY <2>1, <2>2, OneChanges
  <2>6. /\ Cardinality(W) \in Nat /\ Cardinality(V) \in Nat
        /\ Cardinality(W) = Cardinality(V) + One(x \in W) - One(x \in V)
    BY <2>1, <2>2, OneChanges
  <2>7. Count(h) \in Nat /\ Count(h)' \in Nat
    BY <2>4, <2>5, <2>6
  <2>8. /\ One(x \in U) = One(job'[x].target = h) /\ One(x \in S) = One(job[x].target = h)
        /\ One(x \in W) = One(job'[x].dying = h) /\ One(x \in V) = One(job[x].dying = h)
    BY <2>3 DEF One
  <2> QED BY <2>4, <2>5, <2>6, <2>7, <2>8 DEF One
<1>2. ASSUME NEW p
      PROVE  /\ Users(p) \in Nat /\ Users(p)' \in Nat
             /\ Users(p)' = Users(p) + One(job'[x].proc = p) - One(job[x].proc = p)
  <2> DEFINE S == {y \in Tasks : job[y].proc = p}
             U == {y \in Tasks : job'[y].proc = p}
  <2>1. IsFiniteSet(S)
    BY Marks, FS_Subset
  <2>2. \A b : b # x => (b \in U <=> b \in S)
    OBVIOUS
  <2>3. /\ x \in U <=> job'[x].proc = p
        /\ x \in S <=> job[x].proc = p
    OBVIOUS
  <2>4. Users(p) = Cardinality(S) /\ Users(p)' = Cardinality(U)
    BY DEF Users
  <2> HIDE DEF S, U
  <2>5. /\ Cardinality(U) \in Nat /\ Cardinality(S) \in Nat
        /\ Cardinality(U) = Cardinality(S) + One(x \in U) - One(x \in S)
    BY <2>1, <2>2, OneChanges
  <2>8. One(x \in U) = One(job'[x].proc = p) /\ One(x \in S) = One(job[x].proc = p)
    BY <2>3 DEF One
  <2> QED BY <2>4, <2>5, <2>8
<1> QED BY <1>1, <1>2

\* The list without its last "complete", when there is one: the transactions stay as they are.
Without(s, k) == SubSeq(s, 1, k - 1) \o SubSeq(s, k + 1, Len(s))

\* What is left of a list without the element at k.
LEMMA WithoutIs ==
  ASSUME NEW s \in Seq(Txns \cup Words), NEW k \in 1 .. Len(s)
  PROVE  /\ Without(s, k) \in Seq(Txns \cup Words) /\ Len(Without(s, k)) = Len(s) - 1
         /\ \A i \in 1 .. Len(s) - 1 : Without(s, k)[i] = IF i < k THEN s[i] ELSE s[i + 1]
<1> DEFINE u == SubSeq(s, 1, k - 1)
           v == SubSeq(s, k + 1, Len(s))
<1>1. Len(s) \in Nat /\ k \in Nat /\ 1 <= k /\ k <= Len(s)
  OBVIOUS
<1>2. u \in Seq(Txns \cup Words) /\ Len(u) = k - 1 /\ \A i \in 1 .. k - 1 : u[i] = s[i]
  BY <1>1
<1>3. v \in Seq(Txns \cup Words) /\ Len(v) = Len(s) - k /\ \A i \in 1 .. Len(s) - k : v[i] = s[i + k]
  BY <1>1
<1>4. Without(s, k) = u \o v
  BY DEF Without
<1> HIDE DEF u, v
<1>5. /\ u \o v \in Seq(Txns \cup Words) /\ Len(u \o v) = Len(s) - 1
      /\ \A i \in 1 .. Len(s) - 1 : (u \o v)[i] = IF i <= k - 1 THEN u[i] ELSE v[i - (k - 1)]
  BY <1>1, <1>2, <1>3
<1>6. \A i \in 1 .. Len(s) - 1 : i >= k => i - (k - 1) \in 1 .. Len(s) - k /\ (i - (k - 1)) + k = i + 1
  BY <1>1
<1>7. \A i \in 1 .. Len(s) - 1 : i < k => i \in 1 .. k - 1
  BY <1>1
<1> QED BY <1>1, <1>2, <1>3, <1>4, <1>5, <1>6, <1>7

\* The transactions of a list without an element that is none.
LEMMA WithoutIn ==
  ASSUME NEW s \in Seq(Txns \cup Words), NEW k \in 1 .. Len(s), s[k] \notin Txns
  PROVE  /\ In(Without(s, k)) = In(s) /\ (Once(s) => Once(Without(s, k)))
         /\ s[1] \in Txns => Len(Without(s, k)) > 0 /\ Without(s, k)[1] = s[1]
         /\ \A i \in DOMAIN Without(s, k) : \E m \in DOMAIN s : Without(s, k)[i] = s[m]
<1> DEFINE w == Without(s, k)
<1>1. /\ w \in Seq(Txns \cup Words) /\ Len(w) = Len(s) - 1
      /\ \A i \in 1 .. Len(s) - 1 : w[i] = IF i < k THEN s[i] ELSE s[i + 1]
  BY WithoutIs
<1> HIDE DEF w
<1>2. /\ DOMAIN w = 1 .. Len(s) - 1 /\ DOMAIN s = 1 .. Len(s) /\ Len(s) \in Nat
      /\ k \in Nat /\ 1 <= k /\ k <= Len(s)
  BY <1>1
<1>3. ASSUME NEW i \in DOMAIN w PROVE \E m \in DOMAIN s : w[i] = s[m]
  <2>1. CASE i < k
    BY <1>1, <1>2, <2>1
  <2>2. CASE i >= k
    <3>1. i + 1 \in DOMAIN s /\ w[i] = s[i + 1]
      BY <1>1, <1>2, <2>2
    <3> QED BY <3>1
  <2> QED BY <1>2, <2>1, <2>2
<1>4. ASSUME NEW t \in Txns, NEW m \in DOMAIN s, s[m] = t PROVE \E i \in DOMAIN w : w[i] = t
  <2>1. CASE m < k
    BY <1>1, <1>2, <1>4, <2>1
  <2>2. CASE m > k
    <3>1. m - 1 \in DOMAIN w /\ ~(m - 1 < k) /\ m - 1 + 1 = m
      BY <1>2, <2>2
    <3>2. w[m - 1] = t
      BY <1>1, <1>2, <1>4, <3>1
    <3> QED BY <3>1, <3>2
  <2>3. m # k
    BY <1>4
  <2> QED BY <1>2, <2>1, <2>2, <2>3
<1>5. In(w) = In(s)
  BY <1>3, <1>4 DEF In
<1>6. ASSUME Once(s) PROVE Once(w)
  <2> SUFFICES ASSUME NEW i \in DOMAIN w, NEW m \in DOMAIN w, w[i] = w[m], w[i] \in Txns PROVE i = m
    BY DEF Once
  <2> DEFINE e == IF i < k THEN i ELSE i + 1
             f == IF m < k THEN m ELSE m + 1
  <2>1. e \in DOMAIN s /\ f \in DOMAIN s /\ w[i] = s[e] /\ w[m] = s[f]
    BY <1>1, <1>2
  <2>2. e = f
    BY <1>6, <2>1 DEF Once
  <2> QED BY <1>2, <2>2
<1>7. ASSUME s[1] \in Txns PROVE Len(w) > 0 /\ w[1] = s[1]
  <2>1. k # 1
    BY <1>7
  <2>2. 1 \in 1 .. Len(s) - 1 /\ 1 < k
    BY <1>2, <2>1
  <2> QED BY <1>1, <1>2, <2>2
<1> QED BY <1>3, <1>5, <1>6, <1>7 DEF w

\* binder_dequeue_work() of a TRANSACTION_COMPLETE that is on the list.
LEMMA TakeBackIs ==
  ASSUME NEW T \in [Threads -> ThreadType], NEW h \in Threads,
         \E i \in DOMAIN T[h].todo : T[h].todo[i] = "complete"
  PROVE  \E s \in Seq(Txns \cup Words) :
           /\ TakeBack(T, h) = [T EXCEPT ![h].todo = s]
           /\ In(s) = In(T[h].todo) /\ (Once(T[h].todo) => Once(s))
           /\ T[h].todo[1] \in Txns => Len(s) > 0 /\ s[1] = T[h].todo[1]
           /\ \A i \in DOMAIN s : \E m \in DOMAIN T[h].todo : s[i] = T[h].todo[m]
<1> DEFINE s == T[h].todo
           L(i) == s[i] = "complete" /\ \A j \in i + 1 .. Len(s) : s[j] # "complete"
           k == CHOOSE i \in 1 .. Len(s) : L(i)
           B == {n \in 0 .. Len(s) : s[Len(s) - n] = "complete" /\ n < Len(s)}
<1>1. s \in Seq(Txns \cup Words) /\ DOMAIN s = 1 .. Len(s) /\ Len(s) \in Nat
  <2>1. s \in Seq(Txns \cup Words)
    BY DEF ThreadType
  <2> HIDE DEF s
  <2> QED BY <2>1
<1>2. \E i \in 1 .. Len(s) : L(i)
  <2> HIDE DEF s
  <2>1. PICK i \in 1 .. Len(s) : s[i] = "complete"
    BY <1>1 DEF s
  <2>2. Len(s) - i \in B
    BY <1>1, <2>1
  <2>3. PICK n \in B : \A m \in B : n <= m
    <3>1. B \subseteq Nat /\ B # {}
      BY <2>2
    <3> HIDE DEF B
    <3> QED BY <3>1, LeastIs
  <2>4. Len(s) - n \in 1 .. Len(s) /\ s[Len(s) - n] = "complete"
    BY <1>1, <2>3
  <2>5. ASSUME NEW j \in (Len(s) - n) + 1 .. Len(s), s[j] = "complete" PROVE FALSE
    <3>1. Len(s) - j \in B
      BY <1>1, <2>3, <2>5
    <3>2. n <= Len(s) - j
      BY <2>3, <3>1
    <3> QED BY <1>1, <2>3, <3>2
  <2> QED BY <2>4, <2>5
<1>3. k \in 1 .. Len(s) /\ L(k)
  <2> HIDE DEF L
  <2> QED BY <1>2
<1>4. s[k] \notin Txns
  BY <1>3, Marks DEF Words
<1>5. TakeBack(T, h) = [T EXCEPT ![h].todo = Without(s, k)]
  BY DEF TakeBack, Without
<1> HIDE DEF k, s
<1>6. Without(s, k) \in Seq(Txns \cup Words)
  BY <1>1, <1>3, WithoutIs
<1>7. /\ In(Without(s, k)) = In(s) /\ (Once(s) => Once(Without(s, k)))
      /\ s[1] \in Txns => Len(Without(s, k)) > 0 /\ Without(s, k)[1] = s[1]
      /\ \A i \in DOMAIN Without(s, k) : \E m \in DOMAIN s : Without(s, k)[i] = s[m]
  BY <1>1, <1>3, <1>4, WithoutIn
<1> QED BY <1>5, <1>6, <1>7 DEF s

-----------------------------------------------------------------------------
(* Chains.                                                                 *)

\* The links of the active calls decide.
LEMMA ChainSame ==
  ASSUME NEW A, NEW X, NEW Y, NEW c, NEW d, Chained(A, X, c, d),
         \A t \in A : Y[t].from_parent = X[t].from_parent
  PROVE  Chained(A, Y, c, d) /\ \A t : Leaf(t, A, Y) <=> Leaf(t, A, X)
BY DEF Chained, Leaf

\* The last call of a chain is its deepest.
LEMMA LeafDeepest ==
  ASSUME NEW A, NEW X, NEW c, NEW d \in [Txns -> Nat], A \subseteq Txns, Chained(A, X, c, d),
         NEW t \in A, Leaf(t, A, X), NEW u \in A, c[u] = c[t]
  PROVE  d[u] <= d[t] /\ (u # t => d[u] < d[t])
<1>1. d[t] \in Nat /\ d[u] \in Nat
  OBVIOUS
<1>2. ~(d[t] < d[u])
  BY DEF Chained
<1>3. d[t] = d[u] => t = u
  BY DEF Chained
<1> QED BY <1>1, <1>2, <1>3

\* A call is sent: behind the last call of a chain, or as the first of a new one.
LEMMA ChainAdd ==
  ASSUME NEW A, NEW X, NEW Y, NEW c \in [Txns -> Txns], NEW d \in [Txns -> Nat], A \subseteq Txns,
         Chained(A, X, c, d), NEW t \in Txns \ A, NEW v, v = None \/ (v \in A /\ Leaf(v, A, X)),
         \A u \in A : Y[u].from_parent = X[u].from_parent, Y[t].from_parent = v,
         NEW c2, c2 = [c EXCEPT ![t] = IF v = None THEN t ELSE c[v]],
         NEW d2, d2 = [d EXCEPT ![t] = IF v = None THEN 0 ELSE d[v] + 1]
  PROVE  Chained(A \cup {t}, Y, c2, d2)
<1> DEFINE B == A \cup {t}
<1>0. /\ \A u \in A : u # t /\ c2[u] = c[u] /\ d2[u] = d[u] /\ d[u] \in Nat /\ u \in Txns /\ u # None
      /\ c2[t] = (IF v = None THEN t ELSE c[v]) /\ d2[t] = (IF v = None THEN 0 ELSE d[v] + 1)
      /\ t # None
  BY Marks
<1>1. ASSUME NEW u \in B
      PROVE  /\ Y[u].from_parent = None => d2[u] = 0 /\ c2[u] = u
             /\ Y[u].from_parent # None => /\ Y[u].from_parent \in B /\ c2[Y[u].from_parent] = c2[u]
                                           /\ d2[u] = d2[Y[u].from_parent] + 1
             /\ c2[u] \in B /\ c2[c2[u]] = c2[u] /\ d2[c2[u]] = 0
  <2>1. CASE u \in A
    BY <1>0, <2>1 DEF Chained
  <2>2. CASE u = t
    BY <1>0, <2>2 DEF Chained
  <2> QED BY <2>1, <2>2
<1>2. ASSUME NEW u \in A, c[u] = c2[t] PROVE v # None /\ d2[u] < d2[t]
  <2>1. v # None
    <3> SUFFICES ASSUME v = None PROVE FALSE
      OBVIOUS
    <3>1. c[u] = t
      BY <1>0, <1>2
    <3> QED BY <3>1 DEF Chained
  <2>2. d[u] <= d[v]
    BY <1>0, <1>2, <2>1, LeafDeepest
  <2>3. d2[u] = d[u] /\ d2[t] = d[v] + 1 /\ d[u] \in Nat /\ d[v] \in Nat
    BY <1>0, <2>1
  <2> QED BY <2>1, <2>2, <2>3
<1>3. ASSUME NEW u \in B, NEW w \in B, c2[u] = c2[w], d2[u] = d2[w] PROVE u = w
  <2>1. CASE u \in A /\ w \in A
    BY <1>0, <1>3, <2>1 DEF Chained
  <2>2. CASE u \in A /\ w = t
    BY <1>0, <1>2, <1>3, <2>2
  <2>3. CASE u = t /\ w \in A
    BY <1>0, <1>2, <1>3, <2>3
  <2> QED BY <2>1, <2>2, <2>3
<1>4. ASSUME NEW u \in B, NEW w \in B, c2[u] = c2[w], d2[u] < d2[w] PROVE ~Leaf(u, B, Y)
  <2>1. CASE u \in A /\ w \in A
    <3>1. ~Leaf(u, A, X)
      BY <1>0, <1>4, <2>1 DEF Chained
    <3> QED BY <3>1 DEF Leaf
  <2>2. CASE u \in A /\ w = t
    <3>1. v # None /\ c[u] = c[v] /\ v \in A
      BY <1>0, <1>2, <1>4, <2>2
    <3>2. CASE u = v
      BY <3>2 DEF Leaf
    <3>3. CASE u # v
      <4>1. d[u] < d[v]
        BY <2>2, <3>1, <3>3, LeafDeepest
      <4>2. ~Leaf(u, A, X)
        BY <2>2, <3>1, <4>1 DEF Chained
      <4> QED BY <4>2 DEF Leaf
    <3> QED BY <3>2, <3>3
  <2>3. CASE u = t /\ w \in A
    <3>1. d2[w] < d2[t]
      BY <1>0, <1>2, <1>4, <2>3
    <3>2. d2[t] \in Nat /\ d2[w] \in Nat
      BY <1>0, <2>3
    <3> QED BY <1>4, <2>3, <3>1, <3>2
  <2>4. CASE u = t /\ w = t
    <3>1. d2[t] \in Nat
      BY <1>0
    <3> QED BY <1>4, <2>4, <3>1
  <2> QED BY <2>1, <2>2, <2>3, <2>4
<1> HIDE DEF B
<1>5. Chained(B, Y, c2, d2)
  BY <1>1, <1>3, <1>4 DEF Chained
<1> QED BY <1>5 DEF B

\* The last call of a chain is answered.
LEMMA ChainDrop ==
  ASSUME NEW A, NEW X, NEW Y, NEW c \in [Txns -> Txns], NEW d \in [Txns -> Nat], A \subseteq Txns,
         Chained(A, X, c, d), NEW t \in A, Leaf(t, A, X),
         \A u \in A \ {t} : Y[u].from_parent = X[u].from_parent
  PROVE  Chained(A \ {t}, Y, c, d)
<1> DEFINE B == A \ {t}
<1>0. \A u \in B : u \in A /\ u # t /\ Y[u].from_parent = X[u].from_parent
  OBVIOUS
<1>1. ASSUME NEW u \in B
      PROVE  /\ Y[u].from_parent = None => d[u] = 0 /\ c[u] = u
             /\ Y[u].from_parent # None => /\ Y[u].from_parent \in B /\ c[Y[u].from_parent] = c[u]
                                           /\ d[u] = d[Y[u].from_parent] + 1
             /\ c[u] \in B /\ c[c[u]] = c[u] /\ d[c[u]] = 0
  <2>1. Y[u].from_parent # t
    BY <1>0 DEF Leaf
  <2>2. c[u] # t
    <3> SUFFICES ASSUME c[u] = t PROVE FALSE
      OBVIOUS
    <3>1. c[t] = c[u] /\ d[t] = 0 /\ d[u] \in Nat
      BY <1>0 DEF Chained
    <3>2. d[u] < d[t]
      BY <1>0, <3>1, LeafDeepest
    <3> QED BY <3>1, <3>2
  <2> QED BY <1>0, <2>1, <2>2 DEF Chained
<1>2. ASSUME NEW u \in B, NEW w \in B, c[u] = c[w], d[u] < d[w] PROVE ~Leaf(u, B, Y)
  <2>1. PICK k \in A : X[k].from_parent = u
    BY <1>0, <1>2 DEF Chained, Leaf
  <2>2. CASE k # t
    BY <1>0, <2>1, <2>2 DEF Leaf
  <2>3. CASE k = t
    <3>1. c[t] = c[u] /\ d[t] = d[u] + 1 /\ u # None
      BY <1>0, <2>1, <2>3, Marks DEF Chained
    <3>2. d[w] < d[t]
      BY <1>0, <1>2, <3>1, LeafDeepest
    <3>3. d[w] \in Nat /\ d[u] \in Nat
      BY <1>0
    <3> QED BY <1>2, <3>1, <3>2, <3>3
  <2> QED BY <2>2, <2>3
<1>3. \A u, w \in B : c[u] = c[w] /\ d[u] = d[w] => u = w
  BY <1>0 DEF Chained
<1> HIDE DEF B
<1>4. Chained(B, Y, c, d)
  BY <1>1, <1>2, <1>3 DEF Chained
<1> QED BY <1>4 DEF B

-----------------------------------------------------------------------------
(* Stacks.                                                                 *)

\* The members and what is below each of them decide.
LEMMA StackSame ==
  ASSUME NEW h, NEW top, NEW S, NEW X, NEW Y, NEW c, NEW d, NEW c2, NEW d2, Stack(h, top, S, X, c, d),
         \A t \in S : Under(Y, t, h) = Under(X, t, h) /\ c2[t] = c[t] /\ d2[t] = d[t]
  PROVE  Stack(h, top, S, Y, c2, d2)
BY DEF Stack

\* A call goes on top.
LEMMA StackPush ==
  ASSUME NEW h, NEW top, NEW S, NEW X, NEW Y, NEW c, NEW d, NEW c2, NEW d2 \in [Txns -> Nat],
         Stack(h, top, S, X, c, d), S \subseteq Txns,
         \A u \in S : Under(Y, u, h) = Under(X, u, h) /\ c2[u] = c[u] /\ d2[u] = d[u],
         NEW t \in Txns \ S, Under(Y, t, h) = top,
         top # None => c2[t] = c[top] /\ d[top] < d2[t]
  PROVE  Stack(h, t, S \cup {t}, Y, c2, d2)
<1> DEFINE R == S \cup {t}
<1>0. /\ t # None /\ (\A u \in S : u # t /\ d2[u] \in Nat) /\ d2[t] \in Nat
  BY Marks
<1>1. \A u \in S : c2[u] = c2[t] /\ d2[u] < d2[t]
  <2> TAKE u \in S
  <2>1. top # None
    BY DEF Stack
  <2>2. top \in S /\ c[u] = c[top] /\ d[u] <= d[top]
    BY <2>1 DEF Stack
  <2>3. d[u] \in Nat /\ d[top] \in Nat /\ d2[t] \in Nat
    BY <1>0, <2>2
  <2> QED BY <2>1, <2>2, <2>3
<1>2. \A u \in R : c2[u] = c2[t] /\ d2[u] <= d2[t]
  BY <1>0, <1>1
<1>3. \A u, w \in R : d2[u] = d2[w] => u = w
  BY <1>0, <1>1 DEF Stack
<1>4. ASSUME NEW u \in R
      PROVE  LET b == Under(Y, u, h) IN
             /\ b = None => \A w \in R : d2[w] >= d2[u]
             /\ b # None => b \in R /\ d2[b] < d2[u] /\ \A w \in R : d2[w] <= d2[b] \/ d2[w] >= d2[u]
  <2>1. CASE u \in S
    <3> DEFINE b == Under(X, u, h)
    <3>1. /\ b = None => \A w \in S : d[w] >= d[u]
          /\ b # None => b \in S /\ d[b] < d[u] /\ \A w \in S : d[w] <= d[b] \/ d[w] >= d[u]
      BY <2>1 DEF Stack
    <3>2. b = Under(Y, u, h)
      BY <2>1
    <3> HIDE DEF b
    <3> QED BY <1>0, <1>1, <2>1, <3>1, <3>2
  <2>2. CASE u = t
    <3>1. CASE top = None
      BY <1>0, <1>2, <2>2, <3>1 DEF Stack
    <3>2. CASE top # None
      BY <1>0, <1>1, <2>2, <3>2 DEF Stack
    <3> QED BY <3>1, <3>2
  <2> QED BY <2>1, <2>2
<1> HIDE DEF R
<1>5. t \in R
  BY DEF R
<1>6. Stack(h, t, R, Y, c2, d2)
  BY <1>0, <1>2, <1>3, <1>4, <1>5 DEF Stack
<1> QED BY <1>6 DEF R

\* The top comes off.
LEMMA StackPop ==
  ASSUME NEW h, NEW top, top # None, NEW S, NEW X, NEW Y, NEW c, NEW d \in [Txns -> Nat],
         Stack(h, top, S, X, c, d), S \subseteq Txns,
         \A u \in S \ {top} : Under(Y, u, h) = Under(X, u, h)
  PROVE  Stack(h, Under(X, top, h), S \ {top}, Y, c, d)
<1> DEFINE R == S \ {top}
           b == Under(X, top, h)
<1>0. top \in S /\ \A u \in S : c[u] = c[top] /\ d[u] <= d[top] /\ d[u] \in Nat /\ (u # top => d[u] # d[top])
  BY DEF Stack
<1>1. /\ b = None => \A u \in S : d[u] >= d[top]
      /\ b # None => b \in S /\ d[b] < d[top] /\ \A u \in S : d[u] <= d[b] \/ d[u] >= d[top]
  BY <1>0 DEF Stack
<1> HIDE DEF b
<1>2. b = None => R = {}
  BY <1>0, <1>1
<1>3. b # None => b \in R /\ \A u \in R : c[u] = c[b] /\ d[u] <= d[b]
  BY <1>0, <1>1
<1>4. \A u, w \in R : d[u] = d[w] => u = w
  BY DEF Stack
<1>5. ASSUME NEW u \in R
      PROVE  LET e == Under(Y, u, h) IN
             /\ e = None => \A w \in R : d[w] >= d[u]
             /\ e # None => e \in R /\ d[e] < d[u] /\ \A w \in R : d[w] <= d[e] \/ d[w] >= d[u]
  <2> DEFINE e == Under(X, u, h)
  <2>1. /\ e = None => \A w \in S : d[w] >= d[u]
        /\ e # None => e \in S /\ d[e] < d[u] /\ \A w \in S : d[w] <= d[e] \/ d[w] >= d[u]
    BY DEF Stack
  <2>2. e = Under(Y, u, h)
    OBVIOUS
  <2> HIDE DEF e
  <2>3. e # None => e # top
    BY <1>0, <2>1
  <2> QED BY <2>1, <2>2, <2>3
<1> HIDE DEF R
<1>6. Stack(h, b, R, Y, c, d)
  BY <1>2, <1>3, <1>4, <1>5 DEF Stack
<1> QED BY <1>6 DEF R, b

-----------------------------------------------------------------------------
(* What the invariant says of calls and stacks.                            *)

\* The records have their types.
LEMMA TypeFacts ==
  ASSUME Types
  PROVE  /\ \A t \in Txns : txn[t] \in TxnType
         /\ \A h \in Threads : thr[h] \in ThreadType
         /\ \A p \in Procs : prc[p] \in ProcType
         /\ \A x \in Tasks : job[x] \in JobType
BY DEF Types

\* The calls on a stack are calls, and on that of a live thread not answered.
LEMMA OnActive ==
  ASSUME NEW a, NEW o, NEW r, Types, PlaceType(a, o, r), \A t \in Txns : Fits(a, o, r, t),
         NEW h \in Threads, NEW z \in On(h, txn, a, r)
  PROVE  /\ z \in Txns /\ txn[z].kind = "call"
         /\ ~thr[h].dead => z \in Active(txn, a)
         /\ txn[z].from = h => z \in Active(txn, a) /\ r[z] # h /\ txn[z].to_thread # h
         /\ r[z] = h => txn[z].to_thread = h
         /\ r[z] = h /\ ~thr[h].dead => a[z] = "stack" /\ o[z] = h
<1>1. z \in Txns /\ ((txn[z].from = h /\ a[z] # "built") \/ r[z] = h)
  BY DEF On
<1>2. Fits(a, o, r, z) /\ txn[z] \in TxnType /\ a[z] \in Places
  BY <1>1, TypeFacts DEF PlaceType
<1>3. h # None /\ ProcOf[h] # None
  BY Marks
<1>4. CASE txn[z].from = h
  <2>1. txn[z].kind = "call" /\ a[z] \notin {"none", "done"}
    BY <1>2, <1>3, <1>4 DEF Fits, NoTxn, TxnType
  <2>2. txn[z].to_thread # h
    BY <1>2, <1>3, <1>4 DEF Fits
  <2>3. r[z] # h
    BY <1>2, <1>3, <2>2 DEF Fits
  <2> QED BY <1>1, <1>4, <2>1, <2>2, <2>3 DEF Active
<1>5. CASE r[z] = h
  <2>1. a[z] \in {"stack", "job", "done"} /\ txn[z].to_thread = h /\ (a[z] # "stack" => thr[h].dead)
    BY <1>2, <1>3, <1>5 DEF Fits
  <2>2. txn[z].kind = "call"
    BY <1>2, <2>1 DEF Fits, TxnType
  <2>3. a[z] = "stack" => o[z] = h
    BY <1>2, <1>5 DEF Fits
  <2>4. txn[z].from # h
    BY <1>2, <1>3, <2>1 DEF Fits
  <2> QED BY <1>1, <1>5, <2>1, <2>2, <2>3, <2>4 DEF Active
<1> QED BY <1>1, <1>4, <1>5

\* A sent call that is not answered is on the stack of its sender.
LEMMA SentOn ==
  ASSUME NEW a, NEW r, NEW t \in Active(txn, a), NEW h, txn[t].from = h
  PROVE  t \in On(h, txn, a, r)
BY DEF Active, On

\* The stack of a live thread, or of the one a walk goes over.
LEMMA StackIs ==
  ASSUME NEW a, NEW o, NEW r, NEW c, NEW d, Core(a, o, r, c, d), NEW h \in Threads, ~thr[h].dead
  PROVE  /\ Stack(h, thr[h].stack, On(h, txn, a, r), txn, c, d)
         /\ On(h, txn, a, r) \subseteq Active(txn, a) /\ On(h, txn, a, r) \subseteq Txns
         /\ thr[h].stack \in Parents
         /\ thr[h].stack # None => thr[h].stack \in On(h, txn, a, r) /\ thr[h].stack \in Active(txn, a)
<1>1. Types /\ PlaceType(a, o, r) /\ (\A t \in Txns : Fits(a, o, r, t)) /\ Stacks(a, r, c, d)
  BY DEF Core, Base, GhostType, Placed, Linked
<1>2. Stack(h, thr[h].stack, On(h, txn, a, r), txn, c, d)
  BY <1>1 DEF Stacks
<1>3. On(h, txn, a, r) \subseteq Active(txn, a)
  BY <1>1, OnActive
<1>4. thr[h].stack \in Parents
  BY <1>1, TypeFacts DEF ThreadType
<1> QED BY <1>2, <1>3, <1>4 DEF Stack, On

\* The call that a live thread handles has no child: the thread can answer it.
LEMMA TopLeaf ==
  ASSUME NEW a, NEW o, NEW r, NEW c, NEW d, Core(a, o, r, c, d), NEW h \in Threads, ~thr[h].dead,
         NEW v, v = thr[h].stack, v # None, txn[v].to_thread = h
  PROVE  /\ v \in Active(txn, a) /\ Leaf(v, Active(txn, a), txn) /\ r[v] = h /\ a[v] = "stack" /\ o[v] = h
         /\ Under(txn, v, h) = txn[v].to_parent
<1> DEFINE A == Active(txn, a)
<1>1. /\ Types /\ PlaceType(a, o, r) /\ (\A t \in Txns : Fits(a, o, r, t)) /\ Ends(a, o, A)
      /\ Chained(A, txn, c, d) /\ d \in [Txns -> Nat]
  BY DEF Core, Base, GhostType, Placed, Linked
<1>2. v \in On(h, txn, a, r) /\ v \in A /\ v \in Txns
  BY StackIs DEF Active
<1>3. txn[v].from # h
  BY <1>1, <1>2, OnActive
<1>4. r[v] = h
  BY <1>2, <1>3 DEF On
<1>5. a[v] = "stack" /\ o[v] = h
  BY <1>1, <1>2, <1>4, OnActive
<1>6. ASSUME NEW w \in A, txn[w].from_parent = v PROVE FALSE
  <2>1. txn[w].from = h
    BY <1>1, <1>2, <1>5, <1>6 DEF Ends
  <2>2. w \in On(h, txn, a, r)
    BY <2>1, SentOn
  <2>3. d[w] <= d[v]
    BY <2>2, StackIs DEF Stack
  <2>4. d[w] = d[v] + 1 /\ d[v] \in Nat
    BY <1>1, <1>2, <1>6 DEF Chained
  <2> QED BY <2>3, <2>4
<1> QED BY <1>2, <1>4, <1>5, <1>6 DEF Leaf, Under

\* The last call of a chain is on top of the stack of its live sender.
LEMMA OnTopIs ==
  ASSUME NEW a, NEW o, NEW r, NEW c, NEW d, Core(a, o, r, c, d), NEW h \in Threads, ~thr[h].dead,
         NEW t \in Active(txn, a), txn[t].from = h, Leaf(t, Active(txn, a), txn)
  PROVE  thr[h].stack = t /\ Under(txn, t, h) = txn[t].from_parent
<1> DEFINE A == Active(txn, a)
<1>1. /\ Types /\ PlaceType(a, o, r) /\ (\A u \in Txns : Fits(a, o, r, u))
      /\ Chained(A, txn, c, d) /\ d \in [Txns -> Nat]
  BY DEF Core, Base, GhostType, Placed, Linked
<1>2. t \in On(h, txn, a, r)
  BY SentOn
<1>3. /\ Stack(h, thr[h].stack, On(h, txn, a, r), txn, c, d)
      /\ thr[h].stack # None => thr[h].stack \in On(h, txn, a, r) /\ thr[h].stack \in A
  BY StackIs
<1>4. thr[h].stack # None /\ c[thr[h].stack] = c[t] /\ d[t] <= d[thr[h].stack]
  BY <1>2, <1>3 DEF Stack
<1>5. A \subseteq Txns
  BY DEF Active
<1>6. thr[h].stack # t => d[thr[h].stack] < d[t]
  BY <1>1, <1>3, <1>4, <1>5, LeafDeepest
<1>7. d[t] \in Nat /\ d[thr[h].stack] \in Nat
  BY <1>1, <1>3, <1>4, <1>5
<1>8. txn[t].to_thread # h
  BY <1>1, <1>2, OnActive
<1> QED BY <1>4, <1>6, <1>7, <1>8 DEF Under

\* Outside a walk the stack of a dead thread is no more.
LEMMA NoWalk ==
  ASSUME NEW a, NEW o, NEW r, NEW c, NEW d, Core(a, o, r, c, d), NEW h \in Threads, Inner(ProcOf[h]),
         thr[h].dead
  PROVE  On(h, txn, a, r) = {}
<1>1. Stacks(a, r, c, d)
  BY DEF Core, Linked
<1> QED BY <1>1 DEF Stacks, Inner

\* A task that has a call and the inner lock of its sender finds the sender alive.
LEMMA SenderLives ==
  ASSUME NEW a, NEW o, NEW r, NEW c, NEW d, Core(a, o, r, c, d), NEW h \in Threads, Inner(ProcOf[h]),
         NEW t \in Active(txn, a), txn[t].from = h
  PROVE  ~thr[h].dead
<1>1. t \in On(h, txn, a, r)
  BY SentOn
<1> QED BY <1>1, NoWalk

-----------------------------------------------------------------------------
(* The callers behind a call.                                              *)

\* One step along from_parent.
Back(u) == IF u = None THEN None ELSE txn[u].from_parent

\* The recursive definition of Behind has a value.
LEMMA BehindIs ==
  ASSUME NEW t, NEW N, N = Cardinality(Txns)
  PROVE  /\ N \in Nat /\ DOMAIN Behind(t) = 0 .. N /\ Behind(t)[0] = t
         /\ \A k \in 1 .. N : Behind(t)[k] = Back(Behind(t)[k - 1])
<1> DEFINE F(f, n) == /\ DOMAIN f = 0 .. n /\ f[0] = t
                      /\ \A k \in 1 .. n : f[k] = Back(f[k - 1])
           Bad == {n \in 0 .. N : ~\E f : F(f, n)}
<1>0. N \in Nat
  BY Marks, FS_CardinalityType
<1>1. ASSUME Bad # {} PROVE FALSE
  <2>1. PICK n \in Bad : \A m \in Bad : n <= m
    <3>1. Bad \subseteq Nat
      BY <1>0
    <3> HIDE DEF Bad
    <3> QED BY <1>1, <3>1, LeastIs
  <2>2. n \in 0 .. N /\ ~\E f : F(f, n)
    OBVIOUS
  <2>3. CASE n = 0
    <3> DEFINE f == [k \in 0 .. 0 |-> t]
    <3>1. F(f, 0)
      OBVIOUS
    <3> QED BY <2>2, <2>3, <3>1
  <2>4. CASE n > 0
    <3>1. n - 1 \in 0 .. N /\ n - 1 \notin Bad
      BY <1>0, <2>1, <2>2, <2>4
    <3>2. PICK g : F(g, n - 1)
      BY <3>1
    <3> DEFINE f == [k \in 0 .. n |-> IF k = n THEN Back(g[n - 1]) ELSE g[k]]
    <3>3. DOMAIN f = 0 .. n /\ f[0] = t
      BY <2>2, <2>4, <3>2
    <3>4. ASSUME NEW k \in 1 .. n PROVE f[k] = Back(f[k - 1])
      <4>1. k - 1 \in 0 .. n /\ k - 1 # n /\ f[k - 1] = g[k - 1]
        BY <2>2
      <4>2. k # n => k \in 1 .. n - 1 /\ f[k] = g[k]
        BY <2>2
      <4>3. k = n => f[k] = Back(g[n - 1])
        BY <2>2
      <4> QED BY <3>2, <4>1, <4>2, <4>3
    <3> HIDE DEF f
    <3>5. F(f, n)
      BY <3>3, <3>4
    <3> QED BY <2>2, <3>5
  <2> QED BY <1>0, <2>2, <2>3, <2>4
<1>2. PICK f : F(f, N)
  BY <1>0, <1>1
<1> DEFINE G(g) == g = [k \in 0 .. N |-> IF k = 0 THEN t ELSE IF g[k - 1] = None THEN None
                                          ELSE txn[g[k - 1]].from_parent]
<1>3. G([k \in 0 .. N |-> f[k]])
  <2> DEFINE g == [k \in 0 .. N |-> f[k]]
  <2>1. \A k \in 0 .. N : g[k] = f[k]
    OBVIOUS
  <2>2. ASSUME NEW k \in 0 .. N
        PROVE  g[k] = IF k = 0 THEN t ELSE IF g[k - 1] = None THEN None ELSE txn[g[k - 1]].from_parent
    <3>1. CASE k = 0
      BY <1>2, <3>1
    <3>2. CASE k # 0
      <4>1. k \in 1 .. N /\ k - 1 \in 0 .. N
        BY <1>0, <3>2
      <4>2. f[k] = Back(f[k - 1])
        BY <1>2, <4>1
      <4> QED BY <2>1, <3>2, <4>1, <4>2 DEF Back
    <3> QED BY <3>1, <3>2
  <2>3. DOMAIN g = 0 .. N /\ g = [k \in 0 .. N |-> g[k]]
    OBVIOUS
  <2> HIDE DEF g
  <2>4. G(g)
    BY <2>2, <2>3
  <2> QED BY <2>4 DEF g
<1>4. Behind(t) = CHOOSE g : G(g)
  BY DEF Behind
<1>5. G(Behind(t))
  <2> HIDE DEF G
  <2> QED BY <1>3, <1>4
<1> DEFINE b == Behind(t)
<1> HIDE DEF b
<1>6. b = [k \in 0 .. N |-> IF k = 0 THEN t ELSE IF b[k - 1] = None THEN None
                                          ELSE txn[b[k - 1]].from_parent]
  BY <1>5 DEF b
<1>7. DOMAIN b = 0 .. N /\ b[0] = t
  BY <1>0, <1>6
<1>8. ASSUME NEW k \in 1 .. N PROVE b[k] = Back(b[k - 1])
  <2>1. k \in 0 .. N /\ k # 0
    BY <1>0
  <2>2. b[k] = IF k = 0 THEN t ELSE IF b[k - 1] = None THEN None ELSE txn[b[k - 1]].from_parent
    BY <1>6, <2>1
  <2> QED BY <2>1, <2>2 DEF Back
<1> QED BY <1>0, <1>7, <1>8 DEF b

\* The callers behind an active call are those before it in its chain.
LEMMA BehindChain ==
  ASSUME NEW A, A \subseteq Txns, NEW c, NEW d \in [Txns -> Nat], Chained(A, txn, c, d), NEW t \in A,
         NEW k \in 0 .. Cardinality(Txns)
  PROVE  /\ k <= d[t] => /\ Behind(t)[k] \in A /\ c[Behind(t)[k]] = c[t]
                         /\ d[Behind(t)[k]] = d[t] - k
         /\ k > d[t] => Behind(t)[k] = None
<1> DEFINE N == Cardinality(Txns)
           b == Behind(t)
           P(m) == /\ m <= d[t] => b[m] \in A /\ c[b[m]] = c[t] /\ d[b[m]] = d[t] - m
                   /\ m > d[t] => b[m] = None
           Bad == {m \in 0 .. N : ~P(m)}
<1>0. N \in Nat /\ b[0] = t /\ (\A m \in 1 .. N : b[m] = Back(b[m - 1])) /\ d[t] \in Nat
  BY BehindIs
<1> HIDE DEF b, N
<1>1. ASSUME Bad # {} PROVE FALSE
  <2>1. PICK n \in Bad : \A m \in Bad : n <= m
    <3>1. Bad \subseteq Nat
      BY <1>0
    <3> HIDE DEF Bad
    <3> QED BY <1>1, <3>1, LeastIs
  <2>2. n \in 0 .. N /\ ~P(n) /\ n \in Nat
    BY <1>0
  <2>3. CASE n = 0
    <3>1. P(0)
      BY <1>0
    <3> QED BY <2>2, <2>3, <3>1
  <2>4. CASE n > 0
    <3>1. n - 1 \in 0 .. N /\ n - 1 \notin Bad
      BY <1>0, <2>1, <2>2, <2>4
    <3>2. P(n - 1) /\ b[n] = Back(b[n - 1])
      BY <1>0, <2>2, <2>4, <3>1
    <3>3. CASE n - 1 > d[t]
      <4>1. b[n] = None /\ n > d[t]
        BY <1>0, <2>2, <3>2, <3>3 DEF Back
      <4> QED BY <1>0, <2>2, <4>1
    <3>4. CASE n - 1 <= d[t]
      <4> DEFINE u == b[n - 1]
      <4>1. u \in A /\ c[u] = c[t] /\ d[u] = d[t] - (n - 1) /\ u # None
        BY <3>2, <3>4, Marks
      <4> HIDE DEF u
      <4>2. b[n] = txn[u].from_parent
        BY <3>2, <4>1 DEF Back, u
      <4>3. CASE b[n] = None
        <5>1. d[u] = 0
          BY <4>1, <4>2, <4>3 DEF Chained
        <5>2. n > d[t]
          BY <1>0, <2>2, <4>1, <5>1
        <5> QED BY <1>0, <2>2, <4>3, <5>2
      <4>4. CASE b[n] # None
        <5>1. b[n] \in A /\ c[b[n]] = c[u] /\ d[u] = d[b[n]] + 1
          BY <4>1, <4>2, <4>4 DEF Chained
        <5>2. d[b[n]] \in Nat
          BY <5>1
        <5>3. n <= d[t] /\ d[b[n]] = d[t] - n
          BY <1>0, <2>2, <4>1, <5>1, <5>2
        <5> QED BY <1>0, <2>2, <4>1, <5>1, <5>3
      <4> QED BY <4>3, <4>4
    <3> QED BY <1>0, <2>2, <3>3, <3>4
  <2> QED BY <2>2, <2>3, <2>4
<1>2. k \notin Bad
  BY <1>1
<1>3. k \in 0 .. N
  BY DEF N
<1>4. P(k)
  BY <1>2, <1>3
<1> QED BY <1>4 DEF b

\* The thread that a call back goes to waits in the chain of the call that its caller handles.
LEMMA CallBackIs ==
  ASSUME NEW a, NEW o, NEW r, NEW c, NEW d, Core(a, o, r, c, d), NEW h \in Threads, ~thr[h].dead, NEW p
  PROVE  \/ CallBack(h, p) = None
         \/ /\ CallBack(h, p) \in Threads /\ ProcOf[CallBack(h, p)] = p /\ thr[h].stack # None
            /\ \E y \in Active(txn, a) : txn[y].from = CallBack(h, p) /\ c[y] = c[thr[h].stack]
<1> DEFINE A == Active(txn, a)
           v == thr[h].stack
           b == Behind(v)
           hits == {k \in DOMAIN b : /\ b[k] # None /\ txn[b[k]].from # None
                                     /\ ProcOf[txn[b[k]].from] = p}
           m == CHOOSE k \in hits : \A l \in hits : k <= l
           N == Cardinality(Txns)
<1>1. CallBack(h, p) = IF hits = {} THEN None ELSE txn[b[m]].from
  BY DEF CallBack
<1>2. Types /\ Chained(A, txn, c, d) /\ d \in [Txns -> Nat] /\ A \subseteq Txns
  BY DEF Core, Base, GhostType, Linked, Active
<1>3. v # None => v \in A
  BY StackIs
<1>4. N \in Nat /\ DOMAIN b = 0 .. N /\ b[0] = v /\ \A k \in 1 .. N : b[k] = Back(b[k - 1])
  BY BehindIs
<1> SUFFICES ASSUME hits # {}
             PROVE  /\ txn[b[m]].from \in Threads /\ ProcOf[txn[b[m]].from] = p /\ v # None
                    /\ b[m] \in A /\ c[b[m]] = c[v]
  BY <1>1
<1>5. m \in hits
  <2>1. hits \subseteq Nat
    BY <1>4
  <2> HIDE DEF hits
  <2>2. \E k \in hits : \A l \in hits : k <= l
    BY <2>1, LeastIs
  <2> QED BY <2>2
<1>6. m \in 0 .. N /\ b[m] # None /\ txn[b[m]].from # None /\ ProcOf[txn[b[m]].from] = p
  BY <1>4, <1>5
<1> HIDE DEF hits, m, b
<1>7. v # None
  <2> SUFFICES ASSUME v = None PROVE FALSE
    OBVIOUS
  <2>1. \A k \in 0 .. N : b[k] = None
    <3> DEFINE Bad == {k \in 0 .. N : b[k] # None}
    <3>1. ASSUME Bad # {} PROVE FALSE
      <4>1. PICK n \in Bad : \A k \in Bad : n <= k
        <5>1. Bad \subseteq Nat
          BY <1>4
        <5> HIDE DEF Bad
        <5> QED BY <3>1, <5>1, LeastIs
      <4>2. n # 0
        BY <1>4
      <4>3. n - 1 \in 0 .. N /\ n \in 1 .. N
        BY <1>4, <4>1, <4>2
      <4>4. n - 1 \notin Bad
        BY <1>4, <4>1, <4>3
      <4>5. b[n] = None
        BY <1>4, <4>3, <4>4 DEF Back
      <4> QED BY <4>5
    <3> QED BY <3>1
  <2> QED BY <1>6, <2>1
<1>8. /\ m <= d[v] => b[m] \in A /\ c[b[m]] = c[v]
      /\ m > d[v] => b[m] = None
  <2>1. /\ m <= d[v] => Behind(v)[m] \in A /\ c[Behind(v)[m]] = c[v]
        /\ m > d[v] => Behind(v)[m] = None
    <3> HIDE DEF v
    <3> QED BY <1>2, <1>3, <1>6, <1>7, BehindChain
  <2> QED BY <2>1 DEF b
<1>9. m <= d[v]
  <2>1. d[v] \in Nat /\ m \in Nat
    BY <1>2, <1>3, <1>4, <1>6, <1>7
  <2> QED BY <1>6, <1>8, <2>1
<1>10. b[m] \in Txns /\ txn[b[m]].from \in Threads
  <2>1. b[m] \in Txns
    BY <1>2, <1>8, <1>9
  <2> QED BY <1>2, <1>6, <2>1, TypeFacts DEF TxnType
<1> QED BY <1>6, <1>7, <1>8, <1>9, <1>10

-----------------------------------------------------------------------------
(* Counts that keep threads and processes.                                 *)

\* T has the threads of thr, with other lists, stacks and flags perhaps.
Soft(T) == /\ T \in [Threads -> ThreadType]
           /\ \A g \in Threads : T[g].mem = thr[g].mem /\ T[g].dead = thr[g].dead /\ T[g].tmp = thr[g].tmp
SoftProc(P) == /\ P \in [Procs -> ProcType]
               /\ \A p \in Procs : P[p].life = prc[p].life /\ P[p].tmp = prc[p].tmp
\* Of the fields of a process the lists, the turn of the one-way transactions and the pool.
SameWork(p, q) == /\ p.todo = q.todo /\ p.async_todo = q.async_todo /\ p.has_async = q.has_async
                  /\ p.buffers = q.buffers /\ p.stuck = q.stuck
                  /\ p.requested = q.requested /\ p.started = q.started
\* Of the fields of a thread the list, the stack and the flags.
SameRun(s, t) == /\ s.stack = t.stack /\ s.process_todo = t.process_todo /\ s.waiting = t.waiting
                 /\ s.looper = t.looper /\ s.return_error = t.return_error /\ s.reply_error = t.reply_error

\* binder_thread_dec_tmpref() of a thread that is referenced.
LEMMA DecThreadIs ==
  ASSUME NEW T, Soft(T), NEW u \in Threads \cup {None}, u # None => thr[u].tmp > 0, NEW D, D = DecThread(T, u)
  PROVE  /\ D \in [Threads -> ThreadType]
         /\ \A g \in Threads :
              /\ D[g].dead = thr[g].dead /\ D[g].todo = T[g].todo /\ D[g].tmp = thr[g].tmp - One(g = u)
              /\ D[g].mem = IF g = u /\ ThreadFreed(u) THEN "freed" ELSE thr[g].mem
              /\ ~thr[g].dead => SameRun(D[g], T[g])
              /\ D[g].waiting => SameRun(D[g], T[g])
         /\ ThreadFreed(u) => u \in Threads /\ thr[u].dead /\ thr[u].tmp = 1
<1>1. CASE u = None
  <2>1. D = T /\ ~ThreadFreed(u) /\ \A g \in Threads : g # u
    BY <1>1, Marks DEF DecThread, ThreadFreed
  <2> QED BY <2>1 DEF Soft, One, SameRun, ThreadType
<1>2. CASE u # None
  <2>0. u \in Threads /\ T[u] \in ThreadType /\ T[u].tmp = thr[u].tmp /\ thr[u].tmp > 0
    BY <1>2 DEF Soft
  <2>1. CASE ThreadFreed(u)
    <3> DEFINE F == FreedThread(u, T[u].todo)
    <3>1. D = [T EXCEPT ![u] = F] /\ thr[u].dead /\ thr[u].tmp = 1
      BY <1>2, <2>1 DEF DecThread, ThreadFreed
    <3>2. F \in ThreadType /\ F.mem = "freed" /\ F.dead = TRUE /\ F.tmp = 0 /\ F.todo = T[u].todo
          /\ F.waiting = FALSE
      BY <2>0, Marks DEF FreedThread, NewThread, ThreadType, Parents
    <3> HIDE DEF F
    <3>3. D \in [Threads -> ThreadType] /\ D[u] = F /\ \A g \in Threads : g # u => D[g] = T[g]
      BY <3>1, <3>2, <2>0 DEF Soft
    <3> QED BY <1>2, <2>0, <2>1, <3>1, <3>2, <3>3 DEF Soft, One, SameRun, ThreadType
  <2>2. CASE ~ThreadFreed(u)
    <3> DEFINE F == [T[u] EXCEPT !.tmp = @ - 1]
    <3>1. D = [T EXCEPT ![u] = F]
      BY <1>2, <2>2 DEF DecThread
    <3>2. F \in ThreadType /\ F.mem = T[u].mem /\ F.dead = T[u].dead /\ F.tmp = T[u].tmp - 1 /\ F.todo = T[u].todo
          /\ SameRun(F, T[u])
      BY <2>0 DEF ThreadType, SameRun
    <3> HIDE DEF F
    <3>3. D \in [Threads -> ThreadType] /\ D[u] = F /\ \A g \in Threads : g # u => D[g] = T[g]
      BY <3>1, <3>2, <2>0 DEF Soft
    <3> QED BY <1>2, <2>0, <2>2, <3>2, <3>3 DEF Soft, One, SameRun, ThreadType
  <2> QED BY <2>1, <2>2
<1> QED BY <1>1, <1>2

\* binder_proc_dec_tmpref() of a process that is referenced.
LEMMA DecProcIs ==
  ASSUME NEW P \in [Procs -> ProcType], NEW T, NEW p \in Procs, P[p].tmp > 0, NEW D, D = DecProc(P, T, p)
  PROVE  /\ D \in [Procs -> ProcType]
         /\ \A q \in Procs : SameWork(D[q], P[q]) /\ (q # p => D[q] = P[q])
         /\ D[p].tmp = P[p].tmp - 1
         /\ \/ D[p].life = P[p].life
            \/ /\ D[p].life = "freed" /\ P[p].life # "open" /\ P[p].tmp = 1
               /\ \A h \in ThreadsOf(p) : T[h].dead
         /\ P[p].life # "open" /\ P[p].tmp = 1 /\ (\A h \in ThreadsOf(p) : T[h].dead) => D[p].life = "freed"
<1> DEFINE B == P[p].life # "open" /\ P[p].tmp = 1 /\ \A h \in ThreadsOf(p) : T[h].dead
           F == [P[p] EXCEPT !.tmp = @ - 1, !.life = IF B THEN "freed" ELSE @]
<1>0. P[p] \in ProcType
  OBVIOUS
<1>1. D = [P EXCEPT ![p] = F]
  BY DEF DecProc
<1>2. /\ F \in ProcType /\ F.tmp = P[p].tmp - 1 /\ F.life = (IF B THEN "freed" ELSE P[p].life)
      /\ SameWork(F, P[p])
  <2>0. P[p].tmp - 1 \in Nat
    BY <1>0 DEF ProcType
  <2>1. CASE B
    <3>1. F = [P[p] EXCEPT !.tmp = P[p].tmp - 1, !.life = "freed"]
      BY <2>1
    <3>2. F \in ProcType /\ F.tmp = P[p].tmp - 1 /\ F.life = "freed" /\ SameWork(F, P[p])
      <4> DEFINE G == [P[p] EXCEPT !.tmp = P[p].tmp - 1, !.life = "freed"]
      <4>1. G \in ProcType /\ G.tmp = P[p].tmp - 1 /\ G.life = "freed" /\ SameWork(G, P[p])
        BY <1>0, <2>0 DEF ProcType, SameWork
      <4> HIDE DEF B, F
      <4> QED BY <3>1, <4>1
    <3> HIDE DEF F
    <3> QED BY <2>1, <3>2
  <2>2. CASE ~B
    <3>1. F = [P[p] EXCEPT !.tmp = P[p].tmp - 1, !.life = P[p].life]
      BY <2>2
    <3>2. F \in ProcType /\ F.tmp = P[p].tmp - 1 /\ F.life = P[p].life /\ SameWork(F, P[p])
      <4> DEFINE G == [P[p] EXCEPT !.tmp = P[p].tmp - 1, !.life = P[p].life]
      <4>1. G \in ProcType /\ G.tmp = P[p].tmp - 1 /\ G.life = P[p].life /\ SameWork(G, P[p])
        BY <1>0, <2>0 DEF ProcType, SameWork
      <4> HIDE DEF B, F
      <4> QED BY <3>1, <4>1
    <3> HIDE DEF F
    <3> QED BY <2>2, <3>2
  <2> QED BY <2>1, <2>2
<1> HIDE DEF F
<1>3. D \in [Procs -> ProcType] /\ D[p] = F /\ \A q \in Procs : q # p => D[q] = P[q]
  BY <1>1, <1>2
<1> QED BY <1>2, <1>3 DEF SameWork

FreedProc(u) == IF ThreadFreed(u) THEN ProcOf[u] ELSE None
Covers(f, q) == \A p \in Procs : prc[p].tmp >= One(p = f) + One(p = q)
Lowered(D, T, f, q) ==
  \A p \in Procs :
    /\ D[p].tmp = prc[p].tmp - One(p = f) - One(p = q)
    /\ \/ D[p].life = prc[p].life
       \/ /\ D[p].life = "freed" /\ prc[p].life # "open" /\ D[p].tmp = 0
          /\ \A h \in ThreadsOf(p) : T[h].dead
    /\ /\ prc[p].life # "open" /\ D[p].tmp = 0 /\ D[p].tmp # prc[p].tmp
       /\ \A h \in ThreadsOf(p) : T[h].dead
       => D[p].life = "freed"
Dropped(P, T, u, q) == IF q = None THEN DecThreadProc(P, T, u) ELSE DecProc(DecThreadProc(P, T, u), T, q)
\* Both: the thread's reference of its process goes when it is freed, then that of the task.
LEMMA DecBothIs ==
  ASSUME NEW P, SoftProc(P), NEW T, NEW u \in Threads \cup {None}, NEW q \in Procs \cup {None},
         NEW f, f = FreedProc(u), f \in Procs \cup {None},
         Covers(f, q), NEW D, D = Dropped(P, T, u, q)
  PROVE  /\ D \in [Procs -> ProcType]
         /\ (\A p \in Procs : SameWork(D[p], P[p])) /\ Lowered(D, T, f, q)
<1> USE DEF FreedProc, Covers, Lowered
<1> DEFINE E == DecThreadProc(P, T, u)
<1>0. /\ P \in [Procs -> ProcType] /\ None \notin Procs
      /\ \A p \in Procs : P[p] \in ProcType /\ P[p].life = prc[p].life /\ P[p].tmp = prc[p].tmp /\ P[p].tmp \in Nat
  BY Marks DEF SoftProc, ProcType
<1>1. /\ E \in [Procs -> ProcType]
      /\ \A p \in Procs :
           /\ SameWork(E[p], P[p]) /\ E[p].tmp = prc[p].tmp - One(p = f)
           /\ \/ E[p].life = prc[p].life
              \/ /\ E[p].life = "freed" /\ prc[p].life # "open" /\ E[p].tmp = 0 /\ p = f
                 /\ \A h \in ThreadsOf(p) : T[h].dead
           /\ /\ prc[p].life # "open" /\ E[p].tmp = 0 /\ p = f
              /\ \A h \in ThreadsOf(p) : T[h].dead
              => E[p].life = "freed"
  <2>1. CASE ThreadFreed(u)
    <3>1. E = DecProc(P, T, f) /\ f \in Procs
      <4>1. E = DecProc(P, T, f)
        BY <2>1 DEF DecThreadProc
      <4>2. u # None
        BY <2>1 DEF ThreadFreed
      <4> QED BY <2>1, <4>1, <4>2, Marks
    <3>2. P[f].tmp > 0
      BY <1>0, <3>1 DEF One
    <3>3. /\ E \in [Procs -> ProcType]
          /\ \A p \in Procs : SameWork(E[p], P[p]) /\ (p # f => E[p] = P[p])
          /\ E[f].tmp = P[f].tmp - 1
          /\ \/ E[f].life = P[f].life
             \/ /\ E[f].life = "freed" /\ P[f].life # "open" /\ P[f].tmp = 1
                /\ \A h \in ThreadsOf(f) : T[h].dead
          /\ P[f].life # "open" /\ P[f].tmp = 1 /\ (\A h \in ThreadsOf(f) : T[h].dead) => E[f].life = "freed"
      <4> HIDE DEF E
      <4> QED BY <1>0, <3>1, <3>2, DecProcIs
    <3> HIDE DEF E
    <3> QED BY <1>0, <3>1, <3>2, <3>3 DEF One
  <2>2. CASE ~ThreadFreed(u)
    <3>1. E = P /\ \A p \in Procs : p # f
      BY <1>0, <2>2 DEF DecThreadProc
    <3> HIDE DEF E
    <3> QED BY <1>0, <3>1 DEF One, SameWork
  <2> QED BY <2>1, <2>2
<1>2. CASE q = None
  <2>1. D = E /\ \A p \in Procs : p # q
    BY <1>0, <1>2 DEF Dropped
  <2> HIDE DEF E
  <2>2. \A p \in Procs : E[p] \in ProcType /\ E[p].tmp \in Nat /\ One(p = q) = 0 /\ (p # f => One(p = f) = 0)
    BY <1>1, <2>1 DEF ProcType, One
  <2> QED BY <1>0, <1>1, <2>1, <2>2
<1>3. CASE q # None
  <2>0. q \in Procs /\ D = DecProc(E, T, q)
    BY <1>3 DEF Dropped
  <2> HIDE DEF E
  <2>1. E[q].tmp > 0 /\ E[q].tmp \in Nat
    BY <1>0, <1>1, <2>0 DEF One, ProcType
  <2>2. /\ D \in [Procs -> ProcType]
        /\ \A p \in Procs : SameWork(D[p], E[p]) /\ (p # q => D[p] = E[p])
        /\ D[q].tmp = E[q].tmp - 1
        /\ \/ D[q].life = E[q].life
           \/ /\ D[q].life = "freed" /\ E[q].life # "open" /\ E[q].tmp = 1
              /\ \A h \in ThreadsOf(q) : T[h].dead
        /\ E[q].life # "open" /\ E[q].tmp = 1 /\ (\A h \in ThreadsOf(q) : T[h].dead) => D[q].life = "freed"
    BY <1>1, <2>0, <2>1, DecProcIs
  <2>3. ASSUME NEW p \in Procs
        PROVE  /\ SameWork(D[p], P[p]) /\ D[p].tmp = prc[p].tmp - One(p = f) - One(p = q)
               /\ \/ D[p].life = prc[p].life
                  \/ /\ D[p].life = "freed" /\ prc[p].life # "open" /\ D[p].tmp = 0
                     /\ \A h \in ThreadsOf(p) : T[h].dead
               /\ /\ prc[p].life # "open" /\ D[p].tmp = 0 /\ D[p].tmp # prc[p].tmp
                  /\ \A h \in ThreadsOf(p) : T[h].dead
                  => D[p].life = "freed"
    <3>1. SameWork(D[p], P[p])
      BY <1>1, <2>2 DEF SameWork
    <3>2. CASE p = q
      <4>1. E[q].life = prc[q].life
        BY <1>1, <2>0, <2>1
      <4>2. /\ One(p = q) = 1 /\ One(p = f) \in {0, 1} /\ D[p].tmp = E[p].tmp - 1 /\ E[p].tmp = prc[p].tmp - One(p = f)
            /\ E[p].tmp \in Nat /\ prc[p].tmp \in Nat
        BY <1>0, <1>1, <2>0, <2>1, <2>2, <3>2 DEF One
      <4>3. D[p].tmp = prc[p].tmp - One(p = f) - One(p = q)
        BY <4>2
      <4>4. D[p].tmp = 0 <=> E[p].tmp = 1
        BY <4>2
      <4> QED BY <2>2, <3>1, <3>2, <4>1, <4>3, <4>4
    <3>3. CASE p # q
      <4>1. D[p] = E[p] /\ One(p = q) = 0 /\ E[p].tmp \in Nat
        BY <1>1, <2>2, <3>3 DEF One, ProcType
      <4>2. p # f => One(p = f) = 0
        BY DEF One
      <4>3. D[p].tmp = E[p].tmp /\ D[p].life = E[p].life /\ E[p].tmp = prc[p].tmp - One(p = f) /\ prc[p].tmp \in Nat
            /\ One(p = f) \in {0, 1}
        BY <1>0, <1>1, <4>1 DEF One
      <4>4. D[p].tmp = prc[p].tmp - One(p = f) - One(p = q) /\ (D[p].tmp # prc[p].tmp => p = f)
        BY <4>1, <4>2, <4>3
      <4> QED BY <1>1, <3>1, <4>3, <4>4
    <3> QED BY <3>2, <3>3
  <2> QED BY <2>2, <2>3
<1> QED BY <1>2, <1>3

\* The counts are exact after a step of task x that frees at most thread f, and kills none.
LEMMA CountExact ==
  ASSUME Types, Types', Counted, NEW x \in Tasks, \A y \in Tasks : y # x => job'[y] = job[y],
         NEW f \in Threads \cup {None}, f # None => thr[f].dead /\ thr[f].mem = "live" /\ thr'[f].tmp = 0,
         \A g \in Threads :
           /\ thr'[g].dead = thr[g].dead
           /\ thr'[g].tmp = thr[g].tmp + One(job'[x].target = g) - One(job[x].target = g)
                                       + One(job'[x].dying = g) - One(job[x].dying = g)
           /\ thr'[g].mem = IF g = f THEN "freed" ELSE thr[g].mem
           /\ g # f /\ thr[g].dead /\ thr[g].mem = "live" => thr'[g].tmp > 0
           /\ thr[g].mem = "freed" => thr'[g].tmp = 0,
         \A p \in Procs :
           /\ prc'[p].tmp = prc[p].tmp + One(job'[x].proc = p) - One(job[x].proc = p)
                                       - One(f # None /\ ProcOf[f] = p)
  PROVE  /\ \A h \in Threads : /\ thr'[h].tmp = Count(h)'
                               /\ thr'[h].mem = "freed" <=> thr'[h].dead /\ thr'[h].tmp = 0
         /\ \A p \in Procs : prc'[p].tmp = Users(p)' + Cardinality(Corpses(p))'
<1>1. /\ \A h : /\ Count(h) \in Nat /\ Count(h)' \in Nat
                /\ Count(h)' = Count(h) + One(job'[x].target = h) - One(job[x].target = h)
                                        + One(job'[x].dying = h) - One(job[x].dying = h)
      /\ \A p : /\ Users(p) \in Nat /\ Users(p)' \in Nat
                /\ Users(p)' = Users(p) + One(job'[x].proc = p) - One(job[x].proc = p)
  BY Tally
<1>2. ASSUME NEW h \in Threads
      PROVE  thr'[h].tmp = Count(h)' /\ (thr'[h].mem = "freed" <=> thr'[h].dead /\ thr'[h].tmp = 0)
  <2>1. thr[h].tmp = Count(h) /\ (thr[h].mem = "freed" <=> thr[h].dead /\ thr[h].tmp = 0)
    BY DEF Counted
  <2>2. thr'[h].tmp = Count(h)'
    BY <1>1, <2>1
  <2>3. thr[h].mem \in {"live", "freed"} /\ thr'[h].mem \in {"live", "freed"} /\ thr'[h].tmp \in Nat
        /\ h # None
    BY Marks DEF Types, ThreadType
  <2> QED BY <2>1, <2>2, <2>3
<1>3. ASSUME NEW p \in Procs PROVE prc'[p].tmp = Users(p)' + Cardinality(Corpses(p))'
  <2> DEFINE S == Corpses(p)
             U == Corpses(p)'
  <2>0. S \subseteq Threads
    BY DEF Corpses, ThreadsOf
  <2>1. IsFiniteSet(S)
    BY <2>0, Marks, FS_Subset
  <2>2. \A b : b # f => (b \in U <=> b \in S)
    BY DEF Corpses, ThreadsOf
  <2>3. (f \in S <=> f # None /\ ProcOf[f] = p) /\ f \notin U
    BY Marks DEF Corpses, ThreadsOf
  <2>4. Cardinality(U) = Cardinality(Corpses(p))' /\ Cardinality(S) = Cardinality(Corpses(p))
    OBVIOUS
  <2> HIDE DEF S, U
  <2>5. /\ Cardinality(U) \in Nat /\ Cardinality(S) \in Nat
        /\ Cardinality(U) = Cardinality(S) + One(f \in U) - One(f \in S)
    BY <2>1, <2>2, OneChanges
  <2>6. prc[p].tmp = Users(p) + Cardinality(S)
    BY <2>4 DEF Counted
  <2>7. One(f \in U) = 0 /\ One(f \in S) = One(f # None /\ ProcOf[f] = p)
    BY <2>3 DEF One
  <2>8. One(f # None /\ ProcOf[f] = p) \in Int /\ One(job'[x].proc = p) \in Int /\ One(job[x].proc = p) \in Int
    BY DEF One
  <2>9. Users(p) \in Nat /\ Users(p)' = Users(p) + One(job'[x].proc = p) - One(job[x].proc = p)
    BY <1>1
  <2> QED BY <2>4, <2>5, <2>6, <2>7, <2>8, <2>9
<1> QED BY <1>2, <1>3

\* A process with a user has a count.
LEMMA UserCounts ==
  ASSUME Counted, NEW y \in Tasks, NEW p \in Procs, job[y].proc = p
  PROVE  prc[p].tmp > 0 /\ prc[p].life # "freed"
<1> DEFINE S == {x \in Tasks : job[x].proc = p}
<1>1. IsFiniteSet(S) /\ y \in S
  BY Marks, FS_Subset
<1>2. Cardinality(S) \in Nat /\ Cardinality(S) # 0
  <2> HIDE DEF S
  <2> QED BY <1>1, FS_CardinalityType, FS_EmptySet
<1>3. IsFiniteSet(Corpses(p))
  <2>1. Corpses(p) \subseteq Threads
    BY DEF Corpses, ThreadsOf
  <2> QED BY <2>1, Marks, FS_Subset
<1>4. Cardinality(Corpses(p)) \in Nat
  BY <1>3, FS_CardinalityType
<1>5. prc[p].tmp = Cardinality(S) + Cardinality(Corpses(p)) /\ (prc[p].life = "freed" => prc[p].tmp = 0)
  BY DEF Counted, Users
<1> HIDE DEF S
<1> QED BY <1>2, <1>4, <1>5

\* A dead thread that is not freed counts for its process, and a task for the thread it holds.
LEMMA HolderCounts ==
  ASSUME Counted, Types
  PROVE  /\ \A y \in Tasks, h \in Threads : job[y].target = h \/ job[y].dying = h => thr[h].tmp > 0 /\ thr[h].mem = "live"
         /\ \A h \in Threads : thr[h].dead /\ thr[h].mem = "live" => prc[ProcOf[h]].tmp > 0 /\ prc[ProcOf[h]].life # "freed"
         /\ \A h \in Threads, y \in Tasks : thr[h].dead /\ thr[h].mem = "live" /\ job[y].proc = ProcOf[h] =>
              prc[ProcOf[h]].tmp > 1
<1>1. ASSUME NEW y \in Tasks, NEW h \in Threads, job[y].target = h \/ job[y].dying = h
      PROVE  thr[h].tmp > 0 /\ thr[h].mem = "live"
  <2> DEFINE S == {x \in Tasks : job[x].target = h}
             V == {x \in Tasks : job[x].dying = h}
  <2>1. IsFiniteSet(S) /\ IsFiniteSet(V) /\ (y \in S \/ y \in V)
    BY <1>1, Marks, FS_Subset
  <2>2. Count(h) = Cardinality(S) + Cardinality(V)
    BY DEF Count
  <2> HIDE DEF S, V
  <2>3. /\ Cardinality(S) \in Nat /\ Cardinality(V) \in Nat
        /\ Cardinality(S) # 0 \/ Cardinality(V) # 0
    BY <2>1, FS_CardinalityType, FS_EmptySet
  <2>4. thr[h].tmp = Count(h) /\ (thr[h].mem = "freed" <=> thr[h].dead /\ thr[h].tmp = 0)
    BY DEF Counted
  <2>5. thr[h].mem \in {"live", "freed"}
    BY DEF Types, ThreadType
  <2> QED BY <2>2, <2>3, <2>4, <2>5
<1>2. ASSUME NEW h \in Threads, thr[h].dead, thr[h].mem = "live"
      PROVE  /\ prc[ProcOf[h]].tmp > 0 /\ prc[ProcOf[h]].life # "freed"
             /\ \A y \in Tasks : job[y].proc = ProcOf[h] => prc[ProcOf[h]].tmp > 1
  <2> DEFINE p == ProcOf[h]
             S == {x \in Tasks : job[x].proc = p}
             C == Corpses(p)
  <2>1. p \in Procs /\ h \in C /\ C \subseteq Threads
    BY <1>2, Marks DEF Corpses, ThreadsOf
  <2>2. IsFiniteSet(S) /\ IsFiniteSet(C)
    BY <2>1, Marks, FS_Subset
  <2>3. \A y \in Tasks : job[y].proc = p => y \in S
    OBVIOUS
  <2>4. prc[p].tmp = Cardinality(S) + Cardinality(C) /\ (prc[p].life = "freed" => prc[p].tmp = 0)
    BY <2>1 DEF Counted, Users
  <2> HIDE DEF S, C, p
  <2>5. Cardinality(S) \in Nat /\ Cardinality(C) \in Nat /\ Cardinality(C) # 0
        /\ (S # {} => Cardinality(S) # 0)
    BY <2>1, <2>2, FS_CardinalityType, FS_EmptySet
  <2>6. prc[p].tmp > 0 /\ prc[p].life # "freed"
    BY <2>4, <2>5
  <2>7. \A y \in Tasks : job[y].proc = p => prc[p].tmp > 1
    BY <2>3, <2>4, <2>5
  <2> QED BY <2>6, <2>7 DEF p
<1> QED BY <1>1, <1>2

\* The same after a step.
LEMMA UserCountsNext ==
  ASSUME NEW p \in Procs, prc'[p].tmp = Users(p)' + Cardinality(Corpses(p))', NEW y \in Tasks, job'[y].proc = p
  PROVE  prc'[p].tmp > 0
<1> DEFINE S == {x \in Tasks : job'[x].proc = p}
           C == {h \in ThreadsOf(p) : thr'[h].dead /\ thr'[h].mem = "live"}
<1>1. IsFiniteSet(S) /\ y \in S
  BY Marks, FS_Subset
<1>2. Cardinality(S) \in Nat /\ Cardinality(S) # 0
  <2> HIDE DEF S
  <2> QED BY <1>1, FS_CardinalityType, FS_EmptySet
<1>3. IsFiniteSet(C)
  <2>1. C \subseteq Threads
    BY DEF ThreadsOf
  <2> HIDE DEF C
  <2> QED BY <2>1, Marks, FS_Subset
<1>4. Cardinality(C) \in Nat
  <2> HIDE DEF C
  <2> QED BY <1>3, FS_CardinalityType
<1>5. prc'[p].tmp = Cardinality(S) + Cardinality(C)
  BY DEF Corpses, Users, ThreadsOf
<1> HIDE DEF S, C
<1> QED BY <1>2, <1>4, <1>5

-----------------------------------------------------------------------------
(* Steps of one task, as far as threads and processes are concerned.       *)

\* No process changes its state, except that one that was released is freed.
LifeStep == \A p \in Procs : prc'[p].life # prc[p].life =>
              /\ prc'[p].life = "freed" /\ prc[p].life \in {"dead", "gone"}
              /\ \A g \in ThreadsOf(p) : thr'[g].dead

\* References are taken, or nothing happens to them.
LEMMA RefsHold ==
  ASSUME Types, Types', Counted, NEW x \in Tasks, \A y \in Tasks : y # x => job'[y] = job[y],
         job'[x].dying = job[x].dying,
         job'[x].target = job[x].target \/ job[x].target = None,
         job'[x].proc = job[x].proc \/ job[x].proc = None,
         \A g \in Threads :
           /\ thr'[g].dead = thr[g].dead /\ thr'[g].mem = thr[g].mem
           /\ thr'[g].tmp = thr[g].tmp + One(job'[x].target = g) - One(job[x].target = g)
           /\ job'[x].target = g => thr[g].mem = "live",
         \A p \in Procs :
           /\ prc'[p].life = prc[p].life
           /\ prc'[p].tmp = prc[p].tmp + One(job'[x].proc = p) - One(job[x].proc = p)
           /\ job'[x].proc = p => prc[p].life # "freed"
  PROVE  Counted' /\ LifeStep
<1>1. \A g \in Threads : thr[g].tmp \in Nat /\ thr'[g].tmp \in Nat /\ g # None
  BY Marks DEF Types, ThreadType
<1>2. \A p \in Procs : prc[p].tmp \in Nat /\ prc'[p].tmp \in Nat /\ p # None
  BY Marks DEF Types, ProcType
<1>3. \A g \in Threads : thr'[g].tmp >= thr[g].tmp /\ (job'[x].target # g => thr'[g].tmp = thr[g].tmp)
  BY <1>1 DEF One
<1>4. \A p \in Procs : prc'[p].tmp >= prc[p].tmp /\ (job'[x].proc # p => prc'[p].tmp = prc[p].tmp)
  BY <1>2 DEF One
<1>5. \A g \in Threads : thr[g].mem = "freed" <=> thr[g].dead /\ thr[g].tmp = 0
  BY DEF Counted
<1>6. \A p \in Procs : (prc[p].life = "freed" => prc[p].tmp = 0) /\ (prc[p].life \in {"dead", "gone"} => prc[p].tmp > 0)
  BY DEF Counted
<1>7. ASSUME NEW g \in Threads
      PROVE  /\ thr'[g].tmp = thr[g].tmp + One(job'[x].target = g) - One(job[x].target = g)
                                         + One(job'[x].dying = g) - One(job[x].dying = g)
             /\ thr[g].dead /\ thr[g].mem = "live" => thr'[g].tmp > 0
             /\ thr[g].mem = "freed" => thr'[g].tmp = 0
             /\ thr'[g].dead = thr[g].dead /\ thr'[g].mem = thr[g].mem
  BY <1>1, <1>3, <1>5 DEF One
<1>8. \A p \in Procs : prc'[p].tmp = prc[p].tmp + One(job'[x].proc = p) - One(job[x].proc = p)
                                       - One(None # None /\ ProcOf[None] = p)
  BY <1>2 DEF One
<1>9. /\ \A h \in Threads : /\ thr'[h].tmp = Count(h)'
                            /\ thr'[h].mem = "freed" <=> thr'[h].dead /\ thr'[h].tmp = 0
      /\ \A p \in Procs : prc'[p].tmp = Users(p)' + Cardinality(Corpses(p))'
  <2>1. \A g \in Threads : g # None
    BY <1>1
  <2>2. None \in Threads \cup {None}
    OBVIOUS
  <2> QED BY <1>7, <1>8, <2>1, <2>2, CountExact
<1>10. \A p \in Procs : /\ prc'[p].life = "freed" => prc'[p].tmp = 0
                        /\ prc'[p].life \in {"dead", "gone"} => prc'[p].tmp > 0
  BY <1>2, <1>4, <1>6
<1> QED BY <1>9, <1>10 DEF Counted, LifeStep

\* Task x has a reference of thread u and one of process q; it puts them down and goes on as j.
Owns(x, u, q) == (u = job[x].target \/ u = job[x].dying \/ u = None) /\ (q = job[x].proc \/ q = None)
Gives(x, j, u, q) ==
  /\ \/ u = job[x].target /\ j.target = None /\ j.dying = job[x].dying
     \/ u = job[x].dying /\ j.dying = None /\ j.target = job[x].target
  /\ \/ q = job[x].proc /\ j.proc = None
     \/ q = None /\ j.proc = job[x].proc
\* The threads and processes live as in D and E.
Agree(D, E) ==
  /\ \A g \in Threads : thr'[g].dead = D[g].dead /\ thr'[g].mem = D[g].mem /\ thr'[g].tmp = D[g].tmp
  /\ \A p \in Procs : prc'[p].life = E[p].life /\ prc'[p].tmp = E[p].tmp

\* References are put down.
LEMMA DropIs ==
  ASSUME Types, Counted, NEW x \in Tasks, NEW u \in Threads \cup {None}, NEW q \in Procs \cup {None},
         Owns(x, u, q),
         NEW T, Soft(T), NEW P, SoftProc(P), NEW D, D = DecThread(T, u),
         NEW E, E = Dropped(P, D, u, q)
  PROVE  /\ D \in [Threads -> ThreadType]
         /\ \A g \in Threads : /\ D[g].dead = thr[g].dead /\ D[g].todo = T[g].todo
                               /\ ~thr[g].dead => SameRun(D[g], T[g])
                               /\ D[g].waiting => SameRun(D[g], T[g])
         /\ E \in [Procs -> ProcType] /\ \A p \in Procs : SameWork(E[p], P[p])
<1> USE DEF Owns
<1> DEFINE k == IF ThreadFreed(u) THEN ProcOf[u] ELSE None
<1>0. /\ \A g \in Threads : thr[g].tmp \in Nat /\ g # None
      /\ \A p \in Procs : prc[p].tmp \in Nat /\ p # None
  BY Marks DEF Types, ThreadType, ProcType
<1>1. u # None => u \in Threads /\ thr[u].tmp > 0 /\ thr[u].mem = "live"
  BY HolderCounts
<1>2. /\ D \in [Threads -> ThreadType]
      /\ \A g \in Threads :
           /\ D[g].dead = thr[g].dead /\ D[g].todo = T[g].todo /\ D[g].tmp = thr[g].tmp - One(g = u)
           /\ D[g].mem = IF g = u /\ ThreadFreed(u) THEN "freed" ELSE thr[g].mem
           /\ ~thr[g].dead => SameRun(D[g], T[g])
           /\ D[g].waiting => SameRun(D[g], T[g])
      /\ ThreadFreed(u) => u \in Threads /\ thr[u].dead /\ thr[u].tmp = 1
  BY <1>1, DecThreadIs
<1>3. k \in Procs \cup {None} /\ (ThreadFreed(u) => k = ProcOf[u] /\ k \in Procs) /\ (~ThreadFreed(u) => k = None)
  BY <1>2, Marks
<1>4. k = FreedProc(u)
  BY DEF FreedProc
<1> HIDE DEF k
<1>5. ASSUME NEW p \in Procs PROVE prc[p].tmp >= One(p = k) + One(p = q)
  <2>1. p = k => thr[u].dead /\ thr[u].mem = "live" /\ p = ProcOf[u] /\ u \in Threads
    BY <1>0, <1>1, <1>2, <1>3
  <2>2. p = k => prc[p].tmp > 0
    BY <2>1, HolderCounts
  <2>3. p = q => prc[p].tmp > 0 /\ job[x].proc = p
    BY <1>0, UserCounts
  <2>4. p = k /\ p = q => prc[p].tmp > 1
    BY <2>1, <2>3, HolderCounts
  <2> QED BY <1>0, <2>2, <2>3, <2>4 DEF One
<1>6. E \in [Procs -> ProcType] /\ \A p \in Procs : SameWork(E[p], P[p])
  <2>1. Covers(k, q)
    BY <1>5 DEF Covers
  <2>2. k \in Procs \cup {None} /\ SoftProc(P)
    BY <1>3
  <2> QED BY ONLY <1>4, <2>1, <2>2, E = Dropped(P, D, u, q), u \in Threads \cup {None}, q \in Procs \cup {None}, DecBothIs
<1> QED BY <1>2, <1>6

\* The counts and states after that.
LEMMA RefsDrop ==
  ASSUME Types, Types', Counted, Lives, NEW x \in Tasks, \A y \in Tasks : y # x => job'[y] = job[y],
         NEW u \in Threads \cup {None}, NEW q \in Procs \cup {None},
         Gives(x, job'[x], u, q),
         x = Worker /\ q # None => prc[q].life = "gone",
         NEW T, Soft(T), NEW P, SoftProc(P), NEW D, D = DecThread(T, u),
         NEW E, E = Dropped(P, D, u, q), Agree(D, E)
  PROVE  Counted' /\ LifeStep
<1> USE DEF Gives, Agree
<1> DEFINE f == IF ThreadFreed(u) THEN u ELSE None
           k == IF ThreadFreed(u) THEN ProcOf[u] ELSE None
<1>0. /\ \A g \in Threads : thr[g].tmp \in Nat /\ thr'[g].tmp \in Nat /\ g # None
      /\ \A p \in Procs : prc[p].tmp \in Nat /\ prc'[p].tmp \in Nat /\ p # None
  BY Marks DEF Types, ThreadType, ProcType
<1>1. u # None => u \in Threads /\ thr[u].tmp > 0 /\ thr[u].mem = "live"
  BY HolderCounts
<1>2. /\ \A g \in Threads :
           /\ D[g].dead = thr[g].dead /\ D[g].tmp = thr[g].tmp - One(g = u)
           /\ D[g].mem = IF g = u /\ ThreadFreed(u) THEN "freed" ELSE thr[g].mem
      /\ ThreadFreed(u) => u \in Threads /\ thr[u].dead /\ thr[u].tmp = 1
  BY <1>1, DecThreadIs
<1>3. k \in Procs \cup {None} /\ f \in Threads \cup {None} /\ (f # None => f = u /\ ThreadFreed(u) /\ k = ProcOf[f])
      /\ (ThreadFreed(u) => f = u /\ k = ProcOf[u] /\ k \in Procs) /\ (~ThreadFreed(u) => f = None /\ k = None)
  BY <1>2, Marks
<1>4. k = FreedProc(u)
  BY DEF FreedProc
<1> HIDE DEF f, k
<1>5. ASSUME NEW p \in Procs PROVE prc[p].tmp >= One(p = k) + One(p = q)
  <2>1. p = k => thr[u].dead /\ thr[u].mem = "live" /\ p = ProcOf[u] /\ u \in Threads
    BY <1>0, <1>1, <1>2, <1>3
  <2>2. p = k => prc[p].tmp > 0
    BY <2>1, HolderCounts
  <2>3. p = q => prc[p].tmp > 0 /\ job[x].proc = p
    BY <1>0, UserCounts
  <2>4. p = k /\ p = q => prc[p].tmp > 1
    BY <2>1, <2>3, HolderCounts
  <2> QED BY <1>0, <2>2, <2>3, <2>4 DEF One
<1>6. \A p \in Procs :
           /\ E[p].tmp = prc[p].tmp - One(p = k) - One(p = q)
           /\ \/ E[p].life = prc[p].life
              \/ /\ E[p].life = "freed" /\ prc[p].life # "open" /\ E[p].tmp = 0
                 /\ \A h \in ThreadsOf(p) : D[h].dead
           /\ /\ prc[p].life # "open" /\ E[p].tmp = 0 /\ E[p].tmp # prc[p].tmp
              /\ \A h \in ThreadsOf(p) : D[h].dead
              => E[p].life = "freed"
  <2>1. Covers(k, q)
    BY <1>5 DEF Covers
  <2>2. k \in Procs \cup {None} /\ SoftProc(P)
    BY <1>3
  <2>3. Lowered(E, D, k, q)
    BY ONLY <1>4, <2>1, <2>2, E = Dropped(P, D, u, q), u \in Threads \cup {None}, q \in Procs \cup {None}, DecBothIs
  <2> QED BY <2>3 DEF Lowered
<1>7. \A g \in Threads : thr[g].mem = "freed" <=> thr[g].dead /\ thr[g].tmp = 0
  BY DEF Counted
<1>8. ASSUME NEW g \in Threads
      PROVE  /\ thr'[g].tmp = thr[g].tmp + One(job'[x].target = g) - One(job[x].target = g)
                                         + One(job'[x].dying = g) - One(job[x].dying = g)
             /\ thr'[g].dead = thr[g].dead
             /\ thr'[g].mem = IF g = f THEN "freed" ELSE thr[g].mem
             /\ g # f /\ thr[g].dead /\ thr[g].mem = "live" => thr'[g].tmp > 0
             /\ thr[g].mem = "freed" => thr'[g].tmp = 0
  <2>1. thr'[g].tmp = thr[g].tmp - One(g = u) /\ thr'[g].dead = thr[g].dead
    BY <1>2
  <2>2. One(g = u) = One(job[x].target = g) - One(job'[x].target = g) + One(job[x].dying = g) - One(job'[x].dying = g)
    BY <1>0 DEF One
  <2>3. thr'[g].mem = IF g = f THEN "freed" ELSE thr[g].mem
    BY <1>0, <1>2, <1>3
  <2>4. g # f /\ thr[g].dead /\ thr[g].mem = "live" => thr'[g].tmp > 0
    BY <1>0, <1>1, <1>3, <1>7, <2>1 DEF One, ThreadFreed
  <2>5. thr[g].mem = "freed" => thr'[g].tmp = 0
    BY <1>0, <1>1, <1>7, <2>1 DEF One
  <2>6. One(job[x].target = g) \in Int /\ One(job'[x].target = g) \in Int /\ One(job[x].dying = g) \in Int
        /\ One(job'[x].dying = g) \in Int /\ One(g = u) \in Int
    BY DEF One
  <2>7. thr'[g].tmp = thr[g].tmp + One(job'[x].target = g) - One(job[x].target = g)
                                 + One(job'[x].dying = g) - One(job[x].dying = g)
    <3> DEFINE i == One(job'[x].target = g)
               k1 == One(job[x].target = g)
               m == One(job'[x].dying = g)
               n == One(job[x].dying = g)
               e == One(g = u)
    <3>1. i \in Int /\ k1 \in Int /\ m \in Int /\ n \in Int /\ e \in Int /\ e = k1 - i + n - m /\ thr'[g].tmp = thr[g].tmp - e
      BY <2>1, <2>2, <2>6
    <3>2. thr[g].tmp \in Int
      BY <1>0
    <3> HIDE DEF i, k1, m, n, e
    <3>3. thr'[g].tmp = thr[g].tmp + i - k1 + m - n
      BY <3>1, <3>2
    <3> QED BY <3>3 DEF i, k1, m, n
  <2> QED BY <2>1, <2>3, <2>4, <2>5, <2>7
<1>9. ASSUME NEW p \in Procs
      PROVE  prc'[p].tmp = prc[p].tmp + One(job'[x].proc = p) - One(job[x].proc = p) - One(f # None /\ ProcOf[f] = p)
  <2>1. One(p = k) = One(f # None /\ ProcOf[f] = p)
    <3>1. p = k <=> f # None /\ ProcOf[f] = p
      BY <1>0, <1>2, <1>3
    <3> QED BY <3>1 DEF One
  <2>2. One(p = q) = One(job[x].proc = p) - One(job'[x].proc = p)
    BY <1>0 DEF One
  <2>3. One(p = q) \in Int /\ One(p = k) \in Int /\ One(job[x].proc = p) \in Int /\ One(job'[x].proc = p) \in Int
    BY DEF One
  <2> DEFINE i == One(job'[x].proc = p)
             m == One(job[x].proc = p)
             n == One(p = q)
             e == One(p = k)
  <2>4. i \in Int /\ m \in Int /\ n \in Int /\ e \in Int /\ n = m - i /\ prc'[p].tmp = prc[p].tmp - e - n
    BY <1>6, <2>2, <2>3
  <2>5. e = One(f # None /\ ProcOf[f] = p) /\ prc[p].tmp \in Int
    BY <1>0, <2>1
  <2> HIDE DEF i, m, n, e
  <2>6. prc'[p].tmp = prc[p].tmp + i - m - e
    BY <2>4, <2>5
  <2> QED BY <2>5, <2>6 DEF i, m
<1>10. f # None => thr[f].dead /\ thr[f].mem = "live" /\ thr'[f].tmp = 0
  BY <1>0, <1>1, <1>2, <1>3 DEF One
<1>11. /\ \A h \in Threads : /\ thr'[h].tmp = Count(h)'
                             /\ thr'[h].mem = "freed" <=> thr'[h].dead /\ thr'[h].tmp = 0
       /\ \A p \in Procs : prc'[p].tmp = Users(p)' + Cardinality(Corpses(p))'
  BY <1>3, <1>8, <1>9, <1>10, CountExact
<1>12. ASSUME NEW p \in Procs
       PROVE  /\ prc'[p].life = "freed" => prc'[p].tmp = 0
              /\ prc'[p].life \in {"dead", "gone"} => prc'[p].tmp > 0
  <2>1. (prc[p].life = "freed" => prc[p].tmp = 0) /\ (prc[p].life \in {"dead", "gone"} => prc[p].tmp > 0)
    BY DEF Counted
  <2>2. One(p = k) \in Nat /\ One(p = q) \in Nat
    BY DEF One
  <2>3. prc'[p].tmp = prc[p].tmp - One(p = k) - One(p = q)
    BY <1>6
  <2>4. prc'[p].life = "freed" => prc'[p].tmp = 0
    <3>1. prc[p].life = "freed" => prc'[p].tmp <= 0
      BY <1>0, <2>1, <2>2, <2>3
    <3> QED BY <1>0, <1>6, <3>1
  <2>5. ASSUME prc'[p].life \in {"dead", "gone"}, prc'[p].tmp = 0 PROVE FALSE
    <3>1. prc[p].life = prc'[p].life /\ prc'[p].tmp # prc[p].tmp
      BY <1>0, <1>6, <2>1, <2>5
    <3>2. CASE prc[p].life = "gone"
      <4>1. \A h \in ThreadsOf(p) : D[h].dead
        BY <1>2, <3>2 DEF Lives, ThreadsOf
      <4> QED BY <1>6, <2>5, <3>1, <4>1
    <3>3. CASE prc[p].life = "dead"
      <4>1. job[Worker].proc = p
        BY <3>3 DEF Lives
      <4>2. job'[Worker].proc = p
        <5>1. CASE x # Worker
          BY <4>1, <5>1, Marks
        <5>2. CASE x = Worker
          <6>1. q = None \/ q # p
            BY <3>3, <5>2, <1>0
          <6> QED BY <4>1, <5>2, <6>1, <1>0
        <5> QED BY <5>1, <5>2
      <4>3. prc'[p].tmp > 0
        BY <1>11, <4>2, UserCountsNext, Marks
      <4> QED BY <2>5, <4>3
    <3> QED BY <2>5, <3>1, <3>2, <3>3
  <2> QED BY <1>0, <2>4, <2>5
<1>13. Counted'
  BY <1>11, <1>12 DEF Counted
<1>14. LifeStep
  <2>1. \A p \in Procs : prc[p].life \in {"open", "dead", "gone", "freed"}
    BY DEF Types, ProcType
  <2>2. \A p \in Procs : \A g \in ThreadsOf(p) : g \in Threads
    BY DEF ThreadsOf
  <2> QED BY <1>2, <1>6, <2>1, <2>2 DEF LifeStep
<1> QED BY <1>13, <1>14

\* The tasks are as they should be when task x goes on with job j.
LEMMA JobsStep ==
  ASSUME Base, Types', Counted', LifeStep, NEW x \in Tasks, NEW j, job' = [job EXCEPT ![x] = j], Carries(j),
         x \in Threads => ThreadJob(x)', x = Worker => WorkerJob',
         \A g \in Threads : thr'[g].dead = thr[g].dead /\ (thr'[g].waiting => thr[g].waiting \/ job[g].pc = "idle")
  PROVE  JobsOk'
<1>0. Types /\ JobsOk /\ \A y \in Tasks : y # x => job'[y] = job[y]
  BY DEF Base, Types
<1>1. job'[x] = j
  BY <1>0 DEF Types
<1>2. \A y \in Tasks : Carries(job'[y])
  BY <1>0, <1>1 DEF JobsOk
<1>3. ASSUME NEW h \in Threads, h # x PROVE ThreadJob(h)'
  <2>1. ThreadJob(h) /\ job'[h] = job[h] /\ ProcOf[h] \in Procs
    BY <1>0, <1>3, Marks DEF JobsOk
  <2>2. prc[ProcOf[h]].life = "open" => prc'[ProcOf[h]].life = "open"
    BY <2>1 DEF LifeStep
  <2>3. thr'[h].dead = thr[h].dead /\ (job[h].pc # "idle" /\ ~thr[h].waiting => ~thr'[h].waiting)
    OBVIOUS
  <2> QED BY <2>1, <2>2, <2>3 DEF ThreadJob
<1>4. ASSUME Worker # x PROVE WorkerJob'
  <2>1. WorkerJob /\ job'[Worker] = job[Worker] /\ Worker \in Tasks
    BY <1>0, <1>4, Marks DEF JobsOk
  <2>2. job[Worker].proc \in Procs \cup {None} /\ job[Worker].dying \in Threads \cup {None}
    BY <1>0, <2>1 DEF Types, JobType
  <2>3. job[Worker].proc # None => prc'[job[Worker].proc].life = prc[job[Worker].proc].life
    <3>1. SUFFICES ASSUME job[Worker].proc # None, prc'[job[Worker].proc].life # prc[job[Worker].proc].life PROVE FALSE
      OBVIOUS
    <3>2. prc'[job[Worker].proc].life = "freed"
      BY <2>2, <3>1 DEF LifeStep
    <3>3. prc'[job[Worker].proc].tmp > 0
      BY <2>1, <2>2, <3>1, UserCountsNext DEF Counted
    <3> QED BY <2>2, <3>1, <3>2, <3>3 DEF Counted
  <2>4. job[Worker].dying # None => thr'[job[Worker].dying].dead = thr[job[Worker].dying].dead
    BY <2>2
  <2> QED BY <2>1, <2>3, <2>4 DEF WorkerJob
<1> QED BY <1>2, <1>3, <1>4, Marks DEF JobsOk

-----------------------------------------------------------------------------
(* What such a step keeps.                                                 *)

\* Dead threads and processes, and threads that wait.
LEMMA LivesStep ==
  ASSUME Base, Types', JobsOk', Counted', LifeStep, NEW x \in Tasks, \A y \in Tasks : y # x => job'[y] = job[y],
         x = Worker => job'[x].proc = job[x].proc,
         \A g \in Threads :
           /\ thr'[g].dead = thr[g].dead
           /\ thr'[g].waiting =>
                \/ thr[g].waiting /\ thr'[g].stack = thr[g].stack /\ thr'[g].todo = thr[g].todo
                \/ thr'[g].stack = None /\ Len(thr'[g].todo) = 0 /\ ~thr[g].dead /\ prc[ProcOf[g]].life = "open"
           /\ thr[g].dead /\ Len(thr'[g].todo) > 0 => Len(thr[g].todo) > 0 /\ (job[x].dying = g => job'[x].dying = g),
         \A p \in Procs :
           /\ prc[p].life # "open" /\ Len(prc'[p].todo) > 0 => Len(prc[p].todo) > 0
           /\ prc[p].life \in {"gone", "freed"} /\ Len(prc'[p].async_todo) > 0 => Len(prc[p].async_todo) > 0
  PROVE  Lives'
<1>0. Types /\ Lives /\ Worker \in Tasks /\ \A h \in Threads : ProcOf[h] \in Procs /\ h \in ThreadsOf(ProcOf[h]) /\ h \in Tasks
  BY Marks DEF Base, ThreadsOf
<1>1. job'[Worker].proc = job[Worker].proc
  BY <1>0
<1>2. \A p \in Procs : prc[p].life \in {"open", "dead", "gone", "freed"} /\ Len(prc[p].async_todo) \in Nat
                       /\ Len(prc'[p].async_todo) \in Nat /\ Len(prc'[p].todo) \in Nat
  BY <1>0 DEF Types, ProcType
<1>3. \A p \in Procs : prc'[p].life # prc[p].life => prc'[p].life = "freed" /\ prc[p].life = "gone"
  <2>1. SUFFICES ASSUME NEW p \in Procs, prc'[p].life # prc[p].life, prc[p].life = "dead" PROVE FALSE
    BY DEF LifeStep
  <2>2. job'[Worker].proc = p
    BY <1>0, <1>1, <2>1 DEF Lives
  <2>3. prc'[p].tmp > 0
    BY <1>0, <2>2, UserCountsNext DEF Counted
  <2>4. prc'[p].life = "freed"
    BY <2>1 DEF LifeStep
  <2> QED BY <2>3, <2>4 DEF Counted
<1>4. ASSUME NEW h \in Threads
      PROVE  /\ thr'[h].dead /\ Len(thr'[h].todo) > 0 => \E y \in Tasks : job'[y].dying = h
             /\ thr'[h].waiting => /\ thr'[h].stack = None /\ Len(thr'[h].todo) = 0 /\ ~thr'[h].dead
                                   /\ prc'[ProcOf[h]].life = "open"
             /\ prc'[ProcOf[h]].life \in {"gone", "freed"} => thr'[h].dead
             /\ prc'[ProcOf[h]].life # "open" => job'[h].pc = "idle"
  <2>1. thr'[h].dead /\ Len(thr'[h].todo) > 0 => \E y \in Tasks : job'[y].dying = h
    <3>1. SUFFICES ASSUME thr[h].dead, Len(thr'[h].todo) > 0 PROVE \E y \in Tasks : job'[y].dying = h
      OBVIOUS
    <3>2. PICK y \in Tasks : job[y].dying = h
      BY <1>0, <3>1 DEF Lives
    <3>3. job'[y].dying = h
      BY <3>1, <3>2
    <3> QED BY <3>3
  <2>2. thr'[h].waiting => /\ thr'[h].stack = None /\ Len(thr'[h].todo) = 0 /\ ~thr'[h].dead
                           /\ prc'[ProcOf[h]].life = "open"
    BY <1>0, <1>3 DEF Lives
  <2>3. prc'[ProcOf[h]].life \in {"gone", "freed"} => thr'[h].dead
    BY <1>0, <1>3 DEF Lives
  <2>4. prc'[ProcOf[h]].life # "open" => job'[h].pc = "idle"
    BY DEF JobsOk, ThreadJob
  <2> QED BY <2>1, <2>2, <2>3, <2>4
<1>5. ASSUME NEW p \in Procs
      PROVE  /\ prc'[p].life # "open" /\ Len(prc'[p].todo) > 0 => job'[Worker].proc = p
             /\ prc'[p].life = "dead" => job'[Worker].proc = p
             /\ prc'[p].life \in {"gone", "freed"} => Len(prc'[p].async_todo) = 0
  <2>1. prc'[p].life # "open" => prc[p].life # "open"
    BY <1>3
  <2>2. prc'[p].life \in {"gone", "freed"} => prc[p].life \in {"gone", "freed"}
    BY <1>3
  <2>3. prc'[p].life = "dead" => prc[p].life = "dead"
    BY <1>3
  <2> QED BY <1>0, <1>1, <1>2, <2>1, <2>2, <2>3 DEF Lives
<1> QED BY <1>4, <1>5 DEF Lives

\* A list stays as it is, or gets something at its end that wakes the thread unless it may wait.
Grows(g) ==
  \/ thr'[g].todo = thr[g].todo /\ thr'[g].process_todo = thr[g].process_todo
  \/ \E w \in Txns \cup Words :
       /\ thr'[g].todo = Append(thr[g].todo, w)
       /\ thr'[g].process_todo \/ (w = "complete" /\ thr'[g].process_todo = thr[g].process_todo)

\* What is on the lists of the threads wakes them, and TRANSACTION_COMPLETE stays there.
LEMMA ListsStep ==
  ASSUME Base, Types',
         \A g \in Threads : thr'[g].dead = thr[g].dead,
         \A g \in Threads : ~thr[g].dead => Grows(g) \/ thr'[g].process_todo
                              \/ \A i \in DOMAIN thr'[g].todo : thr'[g].todo[i] = "complete",
         \A g \in Threads : job'[g].pc \in {"queue", "rsend"} =>
           \/ Grows(g) /\ job[g].pc \in {"queue", "rsend"}
           \/ \E i \in DOMAIN thr'[g].todo : thr'[g].todo[i] = "complete"
  PROVE  NoSleepOverWork' /\ Completes'
<1>0. \A g \in Threads : thr[g].todo \in Seq(Txns \cup Words)
  BY DEF Base, Types, ThreadType
<1>1. ASSUME NEW g \in Threads, NEW w \in Txns \cup Words, thr'[g].todo = Append(thr[g].todo, w)
      PROVE  /\ DOMAIN thr[g].todo \subseteq DOMAIN thr'[g].todo
             /\ \A i \in DOMAIN thr[g].todo : thr'[g].todo[i] = thr[g].todo[i]
             /\ \A i \in DOMAIN thr'[g].todo : i \in DOMAIN thr[g].todo \/ thr'[g].todo[i] = w
  <2>1. thr[g].todo \in Seq(Txns \cup Words)
    BY <1>0
  <2> DEFINE s == thr[g].todo
  <2>2. /\ Append(s, w) \in Seq(Txns \cup Words) /\ Len(Append(s, w)) = Len(s) + 1
        /\ \A i \in 1 .. Len(s) : Append(s, w)[i] = s[i]
        /\ Append(s, w)[Len(s) + 1] = w
    BY <2>1, AppendIn
  <2>3. DOMAIN s = 1 .. Len(s) /\ Len(s) \in Nat /\ DOMAIN Append(s, w) = 1 .. Len(s) + 1
    BY <2>1, <2>2
  <2> HIDE DEF s
  <2>4. DOMAIN s \subseteq DOMAIN Append(s, w) /\ \A i \in DOMAIN Append(s, w) : i \in DOMAIN s \/ i = Len(s) + 1
    BY <2>3
  <2>5. /\ \A i \in DOMAIN s : Append(s, w)[i] = s[i]
        /\ \A i \in DOMAIN Append(s, w) : i \in DOMAIN s \/ Append(s, w)[i] = w
    BY <2>2, <2>3, <2>4
  <2> QED BY <1>1, <2>4, <2>5 DEF s
<1>2. NoSleepOverWork'
  <2>1. SUFFICES ASSUME NEW g \in Threads, ~thr'[g].dead, ~thr'[g].process_todo, NEW i \in DOMAIN thr'[g].todo,
                        Grows(g)
                 PROVE  thr'[g].todo[i] = "complete"
    BY DEF NoSleepOverWork
  <2>2. ~thr[g].process_todo => \A k \in DOMAIN thr[g].todo : thr[g].todo[k] = "complete"
    BY <2>1 DEF Base, NoSleepOverWork
  <2> QED BY <1>1, <2>1, <2>2 DEF Grows
<1>3. Completes'
  <2>1. SUFFICES ASSUME NEW g \in Threads, Grows(g), job[g].pc \in {"queue", "rsend"}
                 PROVE  \E i \in DOMAIN thr'[g].todo : thr'[g].todo[i] = "complete"
    BY DEF Completes
  <2>2. PICK i \in DOMAIN thr[g].todo : thr[g].todo[i] = "complete"
    BY <2>1 DEF Base, Completes
  <2> QED BY <1>1, <2>1, <2>2 DEF Grows
<1> QED BY <1>2, <1>3

-----------------------------------------------------------------------------
(* Changes of a thread.                                                    *)

SameLife(s, t) == s.mem = t.mem /\ s.dead = t.dead /\ s.tmp = t.tmp
SameFlags(s, t) == s.waiting = t.waiting /\ s.looper = t.looper /\ s.return_error = t.return_error /\ s.reply_error = t.reply_error

\* A work item at the end of the list.
LEMMA EnqueueIs ==
  ASSUME NEW T \in [Threads -> ThreadType], NEW h \in Threads, NEW w \in Txns \cup Words, NEW E, E = Enqueue(T, h, w)
  PROVE  /\ E \in [Threads -> ThreadType] /\ \A g \in Threads : g # h => E[g] = T[g]
         /\ SameLife(E[h], T[h]) /\ SameFlags(E[h], T[h]) /\ E[h].stack = T[h].stack
         /\ E[h].todo = Append(T[h].todo, w) /\ E[h].process_todo
<1> DEFINE F == [T[h] EXCEPT !.todo = Append(@, w), !.process_todo = TRUE]
<1>1. T[h] \in ThreadType /\ T[h].todo \in Seq(Txns \cup Words)
  BY DEF ThreadType
<1>2. Append(T[h].todo, w) \in Seq(Txns \cup Words)
  BY <1>1, AppendIn
<1>3. /\ F \in ThreadType /\ SameLife(F, T[h]) /\ SameFlags(F, T[h]) /\ F.stack = T[h].stack
      /\ F.todo = Append(T[h].todo, w) /\ F.process_todo
  BY <1>1, <1>2 DEF ThreadType, SameLife, SameFlags
<1>4. E = [T EXCEPT ![h] = F]
  BY DEF Enqueue
<1> HIDE DEF F
<1>5. E \in [Threads -> ThreadType] /\ E[h] = F /\ \A g \in Threads : g # h => E[g] = T[g]
  BY <1>3, <1>4
<1> QED BY <1>3, <1>5

\* The same, without waking the thread.
LEMMA EnqueueDeferredIs ==
  ASSUME NEW T \in [Threads -> ThreadType], NEW h \in Threads, NEW w \in Txns \cup Words,
         NEW E, E = EnqueueDeferred(T, h, w)
  PROVE  /\ E \in [Threads -> ThreadType] /\ \A g \in Threads : g # h => E[g] = T[g]
         /\ SameLife(E[h], T[h]) /\ SameFlags(E[h], T[h]) /\ E[h].stack = T[h].stack
         /\ E[h].todo = Append(T[h].todo, w) /\ E[h].process_todo = T[h].process_todo
<1> DEFINE F == [T[h] EXCEPT !.todo = Append(@, w)]
<1>1. T[h] \in ThreadType /\ T[h].todo \in Seq(Txns \cup Words)
  BY DEF ThreadType
<1>2. Append(T[h].todo, w) \in Seq(Txns \cup Words)
  BY <1>1, AppendIn
<1>3. /\ F \in ThreadType /\ SameLife(F, T[h]) /\ SameFlags(F, T[h]) /\ F.stack = T[h].stack
      /\ F.todo = Append(T[h].todo, w) /\ F.process_todo = T[h].process_todo
  BY <1>1, <1>2 DEF ThreadType, SameLife, SameFlags
<1>4. E = [T EXCEPT ![h] = F]
  BY DEF EnqueueDeferred
<1> HIDE DEF F
<1>5. E \in [Threads -> ThreadType] /\ E[h] = F /\ \A g \in Threads : g # h => E[g] = T[g]
  BY <1>3, <1>4
<1> QED BY <1>3, <1>5

\* The error of a command.
LEMMA ReturnErrorIs ==
  ASSUME NEW T \in [Threads -> ThreadType], NEW h \in Threads, NEW E, E = ReturnError(T, h)
  PROVE  /\ E \in [Threads -> ThreadType] /\ \A g \in Threads : g # h => E[g] = T[g]
         /\ SameLife(E[h], T[h]) /\ E[h].stack = T[h].stack /\ E[h].waiting = T[h].waiting
         /\ E[h].todo = Append(T[h].todo, "return_error") /\ E[h].process_todo
<1> DEFINE G == Enqueue(T, h, "return_error")
           F == [G[h] EXCEPT !.return_error = TRUE]
<1>1. "return_error" \in Txns \cup Words
  BY DEF Words
<1>2. /\ G \in [Threads -> ThreadType] /\ \A g \in Threads : g # h => G[g] = T[g]
      /\ SameLife(G[h], T[h]) /\ SameFlags(G[h], T[h]) /\ G[h].stack = T[h].stack
      /\ G[h].todo = Append(T[h].todo, "return_error") /\ G[h].process_todo
  BY <1>1, EnqueueIs
<1>3. E = [G EXCEPT ![h] = F]
  BY DEF ReturnError
<1> HIDE DEF G
<1>4. /\ F \in ThreadType /\ SameLife(F, G[h]) /\ F.stack = G[h].stack /\ F.waiting = G[h].waiting
      /\ F.todo = G[h].todo /\ F.process_todo = G[h].process_todo
  BY <1>2 DEF ThreadType, SameLife
<1> HIDE DEF F
<1>5. E \in [Threads -> ThreadType] /\ E[h] = F /\ \A g \in Threads : g # h => E[g] = G[g]
  BY <1>2, <1>3, <1>4
<1> QED BY <1>2, <1>4, <1>5 DEF SameLife, SameFlags

\* The error for a caller.
LEMMA ReplyErrorIs ==
  ASSUME NEW T \in [Threads -> ThreadType], NEW h \in Threads, NEW E, E = ReplyError(T, h)
  PROVE  /\ E \in [Threads -> ThreadType] /\ \A g \in Threads : g # h => E[g] = T[g]
         /\ SameLife(E[h], T[h]) /\ E[h].stack = T[h].stack /\ E[h].waiting = T[h].waiting
         /\ \/ E[h].todo = T[h].todo /\ E[h].process_todo = T[h].process_todo
            \/ E[h].todo = Append(T[h].todo, "reply_error") /\ E[h].process_todo
<1>0. CASE T[h].reply_error
  <2>1. E = T
    BY <1>0 DEF ReplyError
  <2> QED BY <2>1 DEF SameLife
<1>9. CASE ~T[h].reply_error
  <2> DEFINE G == Enqueue(T, h, "reply_error")
             F == [G[h] EXCEPT !.reply_error = TRUE]
  <2>1. "reply_error" \in Txns \cup Words
    BY DEF Words
  <2>2. /\ G \in [Threads -> ThreadType] /\ \A g \in Threads : g # h => G[g] = T[g]
        /\ SameLife(G[h], T[h]) /\ SameFlags(G[h], T[h]) /\ G[h].stack = T[h].stack
        /\ G[h].todo = Append(T[h].todo, "reply_error") /\ G[h].process_todo
    BY <2>1, EnqueueIs
  <2>3. E = [G EXCEPT ![h] = F]
    BY <1>9 DEF ReplyError
  <2> HIDE DEF G
  <2>4. /\ F \in ThreadType /\ SameLife(F, G[h]) /\ F.stack = G[h].stack /\ F.waiting = G[h].waiting
        /\ F.todo = G[h].todo /\ F.process_todo = G[h].process_todo
    BY <2>2 DEF ThreadType, SameLife
  <2> HIDE DEF F
  <2>5. E \in [Threads -> ThreadType] /\ E[h] = F /\ \A g \in Threads : g # h => E[g] = G[g]
    BY <2>2, <2>3, <2>4
  <2> QED BY <2>2, <2>4, <2>5 DEF SameLife, SameFlags
<1> QED BY <1>0, <1>9

SetStack(T, h, s) == [T EXCEPT ![h].stack = s]
SetTodo(T, h, s) == [T EXCEPT ![h].todo = s]
Awake(T, h) == [T EXCEPT ![h].waiting = FALSE]

\* One field of a thread changes.
LEMMA FieldIs ==
  ASSUME NEW T \in [Threads -> ThreadType], NEW h \in Threads, NEW E
  PROVE  /\ \A s \in Parents : E = SetStack(T, h, s) =>
              /\ E \in [Threads -> ThreadType] /\ \A g \in Threads : g # h => E[g] = T[g]
              /\ SameLife(E[h], T[h]) /\ SameFlags(E[h], T[h]) /\ E[h].todo = T[h].todo
              /\ E[h].process_todo = T[h].process_todo /\ E[h].stack = s
         /\ \A s \in Seq(Txns \cup Words) : E = SetTodo(T, h, s) =>
              /\ E \in [Threads -> ThreadType] /\ \A g \in Threads : g # h => E[g] = T[g]
              /\ SameLife(E[h], T[h]) /\ SameFlags(E[h], T[h]) /\ E[h].stack = T[h].stack
              /\ E[h].process_todo = T[h].process_todo /\ E[h].todo = s
         /\ E = Awake(T, h) =>
              /\ E \in [Threads -> ThreadType] /\ \A g \in Threads : g # h => E[g] = T[g]
              /\ SameLife(E[h], T[h]) /\ E[h].todo = T[h].todo /\ E[h].stack = T[h].stack
              /\ E[h].process_todo = T[h].process_todo /\ E[h].looper = T[h].looper /\ ~E[h].waiting
         /\ E = Hold(T, h) =>
              /\ E \in [Threads -> ThreadType] /\ \A g \in Threads : g # h => E[g] = T[g]
              /\ SameFlags(E[h], T[h]) /\ E[h].todo = T[h].todo /\ E[h].stack = T[h].stack
              /\ E[h].process_todo = T[h].process_todo
              /\ E[h].mem = T[h].mem /\ E[h].dead = T[h].dead /\ E[h].tmp = T[h].tmp + 1
<1>0. T[h] \in ThreadType
  OBVIOUS
<1>1. ASSUME NEW s \in Parents, E = SetStack(T, h, s)
      PROVE  /\ E \in [Threads -> ThreadType] /\ \A g \in Threads : g # h => E[g] = T[g]
             /\ SameLife(E[h], T[h]) /\ SameFlags(E[h], T[h]) /\ E[h].todo = T[h].todo
             /\ E[h].process_todo = T[h].process_todo /\ E[h].stack = s
  <2> DEFINE F == [T[h] EXCEPT !.stack = s]
  <2>1. /\ F \in ThreadType /\ SameLife(F, T[h]) /\ SameFlags(F, T[h]) /\ F.todo = T[h].todo
        /\ F.process_todo = T[h].process_todo /\ F.stack = s
    BY <1>0 DEF ThreadType, SameLife, SameFlags
  <2>2. E = [T EXCEPT ![h] = F]
    BY <1>1 DEF SetStack
  <2> HIDE DEF F
  <2> QED BY <2>1, <2>2
<1>2. ASSUME NEW s \in Seq(Txns \cup Words), E = SetTodo(T, h, s)
      PROVE  /\ E \in [Threads -> ThreadType] /\ \A g \in Threads : g # h => E[g] = T[g]
             /\ SameLife(E[h], T[h]) /\ SameFlags(E[h], T[h]) /\ E[h].stack = T[h].stack
             /\ E[h].process_todo = T[h].process_todo /\ E[h].todo = s
  <2> DEFINE F == [T[h] EXCEPT !.todo = s]
  <2>1. /\ F \in ThreadType /\ SameLife(F, T[h]) /\ SameFlags(F, T[h]) /\ F.stack = T[h].stack
        /\ F.process_todo = T[h].process_todo /\ F.todo = s
    BY <1>0 DEF ThreadType, SameLife, SameFlags
  <2>2. E = [T EXCEPT ![h] = F]
    BY <1>2 DEF SetTodo
  <2> HIDE DEF F
  <2> QED BY <2>1, <2>2
<1>5. ASSUME E = Awake(T, h)
      PROVE  /\ E \in [Threads -> ThreadType] /\ \A g \in Threads : g # h => E[g] = T[g]
             /\ SameLife(E[h], T[h]) /\ E[h].todo = T[h].todo /\ E[h].stack = T[h].stack
             /\ E[h].process_todo = T[h].process_todo /\ E[h].looper = T[h].looper /\ ~E[h].waiting
  <2> DEFINE F == [T[h] EXCEPT !.waiting = FALSE]
  <2>1. /\ F \in ThreadType /\ SameLife(F, T[h]) /\ F.todo = T[h].todo /\ F.stack = T[h].stack
        /\ F.process_todo = T[h].process_todo /\ F.looper = T[h].looper /\ ~F.waiting
    BY <1>0 DEF ThreadType, SameLife
  <2>2. E = [T EXCEPT ![h] = F]
    BY <1>5 DEF Awake
  <2> HIDE DEF F
  <2> QED BY <2>1, <2>2
<1>4. ASSUME E = Hold(T, h)
      PROVE  /\ E \in [Threads -> ThreadType] /\ \A g \in Threads : g # h => E[g] = T[g]
             /\ SameFlags(E[h], T[h]) /\ E[h].todo = T[h].todo /\ E[h].stack = T[h].stack
             /\ E[h].process_todo = T[h].process_todo
             /\ E[h].mem = T[h].mem /\ E[h].dead = T[h].dead /\ E[h].tmp = T[h].tmp + 1
  <2> DEFINE F == [T[h] EXCEPT !.tmp = @ + 1]
  <2>1. /\ F \in ThreadType /\ SameFlags(F, T[h]) /\ F.todo = T[h].todo /\ F.stack = T[h].stack
        /\ F.process_todo = T[h].process_todo
        /\ F.mem = T[h].mem /\ F.dead = T[h].dead /\ F.tmp = T[h].tmp + 1
    BY <1>0 DEF ThreadType, SameFlags
  <2>2. E = [T EXCEPT ![h] = F]
    BY <1>4 DEF Hold
  <2> HIDE DEF F
  <2> QED BY <2>1, <2>2
<1> QED BY <1>1, <1>2, <1>4, <1>5

-----------------------------------------------------------------------------
(* Places of transactions after a step.                                    *)

\* The list holds what has its place, each once.
ListIs(L, pl, ow, a, o) == Once(L) /\ \A t \in Txns : t \in In(L) <=> a[t] = pl /\ o[t] = ow
\* The transactions of a list stay as they are.
Stay(L, K) == In(K) = In(L) /\ (Once(L) => Once(K))

\* Words at the end or at the head of a list.
LEMMA StayWords ==
  ASSUME NEW L \in Seq(Txns \cup Words)
  PROVE  /\ Stay(L, L) /\ \A w \in Words : Stay(L, Append(L, w))
         /\ Len(L) > 0 /\ Head(L) \notin Txns => Stay(L, Tail(L))
<1>1. ASSUME NEW w \in Words PROVE Stay(L, Append(L, w))
  <2>1. w \in Txns \cup Words /\ w \notin Txns
    BY Marks
  <2>2. w \notin In(L)
    BY <2>1 DEF In
  <2>3. /\ \A t : t \in In(Append(L, w)) <=> t \in In(L) \/ (t = w /\ w \in Txns)
        /\ Once(L) => Once(Append(L, w))
    BY <2>1, <2>2, AppendIn
  <2>4. In(Append(L, w)) = In(L)
    BY <2>1, <2>3
  <2> QED BY <2>3, <2>4 DEF Stay
<1>2. ASSUME Len(L) > 0, Head(L) \notin Txns PROVE Stay(L, Tail(L))
  <2>1. /\ Tail(L) \in Seq(Txns \cup Words) /\ Len(Tail(L)) = Len(L) - 1 /\ Head(L) = L[1]
        /\ \A i \in 1 .. Len(L) - 1 : Tail(L)[i] = L[i + 1]
        /\ Once(L) => Once(Tail(L))
    BY <1>2, TailIn
  <2>2. DOMAIN L = 1 .. Len(L) /\ DOMAIN Tail(L) = 1 .. Len(L) - 1 /\ Len(L) \in Nat
    BY <2>1
  <2>3. ASSUME NEW t \in In(L) PROVE t \in In(Tail(L))
    <3>1. PICK i \in DOMAIN L : L[i] = t
      BY <2>3 DEF In
    <3>2. i # 1 /\ t \in Txns
      BY <1>2, <2>1, <2>3, <3>1 DEF In
    <3>3. i - 1 \in DOMAIN Tail(L) /\ i - 1 \in 1 .. Len(L) - 1 /\ (i - 1) + 1 = i
      BY <2>2, <3>1, <3>2
    <3>4. Tail(L)[i - 1] = t
      BY <2>1, <3>1, <3>3
    <3> QED BY <3>2, <3>3, <3>4 DEF In
  <2>4. ASSUME NEW t \in In(Tail(L)) PROVE t \in In(L)
    <3>1. PICK i \in DOMAIN Tail(L) : Tail(L)[i] = t
      BY <2>4 DEF In
    <3>2. i + 1 \in DOMAIN L /\ L[i + 1] = t /\ t \in Txns
      BY <2>1, <2>2, <2>4, <3>1 DEF In
    <3> QED BY <3>2 DEF In
  <2> QED BY <2>1, <2>3, <2>4 DEF Stay
<1> QED BY <1>1, <1>2 DEF Stay

\* Transaction s comes to the list, leaves it, or does neither; the others stay where they are.
Goes(L, K, pl, ow, s, a, o, a2, o2) ==
  \/ /\ Stay(L, K)
     /\ s \in Txns => ~(a[s] = pl /\ o[s] = ow) /\ ~(a2[s] = pl /\ o2[s] = ow)
  \/ s \in Txns /\ K = Append(L, s) /\ a2[s] = pl /\ o2[s] = ow /\ ~(a[s] = pl /\ o[s] = ow)
  \/ s \in Txns /\ Len(L) > 0 /\ s = Head(L) /\ K = Tail(L) /\ ~(a2[s] = pl /\ o2[s] = ow)

\* One list.
LEMMA ListStep ==
  ASSUME NEW L \in Seq(Txns \cup Words), NEW K, NEW pl, NEW ow, NEW s, NEW a, NEW o, NEW a2, NEW o2,
         ListIs(L, pl, ow, a, o), Goes(L, K, pl, ow, s, a, o, a2, o2),
         \A t \in Txns : t # s => \/ a2[t] = a[t] /\ o2[t] = o[t]
                                  \/ a2[t] # pl /\ a[t] # pl
  PROVE  ListIs(K, pl, ow, a2, o2)
<1>1. CASE /\ Stay(L, K)
           /\ s \in Txns => ~(a[s] = pl /\ o[s] = ow) /\ ~(a2[s] = pl /\ o2[s] = ow)
  BY <1>1 DEF Stay, ListIs
<1>2. CASE s \in Txns /\ K = Append(L, s) /\ a2[s] = pl /\ o2[s] = ow /\ ~(a[s] = pl /\ o[s] = ow)
  <2>1. s \notin In(L)
    BY <1>2 DEF ListIs
  <2>2. /\ \A t : t \in In(K) <=> t \in In(L) \/ (t = s /\ s \in Txns)
        /\ Once(K)
    BY <1>2, <2>1, AppendIn DEF ListIs
  <2> QED BY <1>2, <2>2 DEF ListIs
<1>3. CASE s \in Txns /\ Len(L) > 0 /\ s = Head(L) /\ K = Tail(L) /\ ~(a2[s] = pl /\ o2[s] = ow)
  <2>1. Once(K) /\ \A t : t \in In(K) <=> t \in In(L) /\ t # s
    BY <1>3, TailIn DEF ListIs
  <2> QED BY <1>3, <2>1 DEF ListIs
<1> QED BY <1>1, <1>2, <1>3 DEF Goes

\* All lists.
LEMMA ListedStep ==
  ASSUME Types, NEW a, NEW o, NEW a2, NEW o2, Listed(a, o), NEW s,
         \A t \in Txns : t # s => \/ a2[t] = a[t] /\ o2[t] = o[t]
                                  \/ {a2[t], a[t]} \cap {"todo", "ptodo", "async"} = {},
         \A h \in Threads : Goes(thr[h].todo, thr'[h].todo, "todo", h, s, a, o, a2, o2),
         \A p \in Procs : /\ Goes(prc[p].todo, prc'[p].todo, "ptodo", p, s, a, o, a2, o2)
                          /\ Goes(prc[p].async_todo, prc'[p].async_todo, "async", p, s, a, o, a2, o2)
  PROVE  Listed(a2, o2)'
<1>0. /\ \A h \in Threads : thr[h].todo \in Seq(Txns \cup Words)
      /\ \A p \in Procs : prc[p].todo \in Seq(Txns \cup Words) /\ prc[p].async_todo \in Seq(Txns \cup Words)
  BY TxnLists DEF Types, ThreadType, ProcType
<1>1. ASSUME NEW h \in Threads PROVE ListIs(thr'[h].todo, "todo", h, a2, o2)
  <2>1. ListIs(thr[h].todo, "todo", h, a, o)
    BY DEF Listed, ListIs
  <2>2. \A t \in Txns : t # s => \/ a2[t] = a[t] /\ o2[t] = o[t]
                                 \/ a2[t] # "todo" /\ a[t] # "todo"
    OBVIOUS
  <2>3. Goes(thr[h].todo, thr'[h].todo, "todo", h, s, a, o, a2, o2)
    OBVIOUS
  <2> DEFINE L == thr[h].todo
             K == thr'[h].todo
  <2>4. L \in Seq(Txns \cup Words) /\ ListIs(L, "todo", h, a, o) /\ Goes(L, K, "todo", h, s, a, o, a2, o2)
    BY <1>0, <2>1, <2>3
  <2> HIDE DEF L, K
  <2>5. ListIs(K, "todo", h, a2, o2)
    BY <2>2, <2>4, ListStep
  <2> QED BY <2>5 DEF K
<1>2. ASSUME NEW p \in Procs
      PROVE  ListIs(prc'[p].todo, "ptodo", p, a2, o2) /\ ListIs(prc'[p].async_todo, "async", p, a2, o2)
  <2>1. ListIs(prc[p].todo, "ptodo", p, a, o) /\ ListIs(prc[p].async_todo, "async", p, a, o)
    BY DEF Listed, ListIs
  <2>2. \A t \in Txns : t # s => \/ a2[t] = a[t] /\ o2[t] = o[t]
                                 \/ a2[t] # "ptodo" /\ a[t] # "ptodo"
    OBVIOUS
  <2>3. \A t \in Txns : t # s => \/ a2[t] = a[t] /\ o2[t] = o[t]
                                 \/ a2[t] # "async" /\ a[t] # "async"
    OBVIOUS
  <2>4. /\ Goes(prc[p].todo, prc'[p].todo, "ptodo", p, s, a, o, a2, o2)
        /\ Goes(prc[p].async_todo, prc'[p].async_todo, "async", p, s, a, o, a2, o2)
    OBVIOUS
  <2>5. ListIs(prc'[p].todo, "ptodo", p, a2, o2)
    <3> DEFINE L == prc[p].todo
               K == prc'[p].todo
    <3>4. L \in Seq(Txns \cup Words) /\ ListIs(L, "ptodo", p, a, o) /\ Goes(L, K, "ptodo", p, s, a, o, a2, o2)
      BY <1>0, <2>1, <2>4
    <3> HIDE DEF L, K
    <3>5. ListIs(K, "ptodo", p, a2, o2)
      BY <2>2, <3>4, ListStep
    <3> QED BY <3>5 DEF K
  <2>6. ListIs(prc'[p].async_todo, "async", p, a2, o2)
    <3> DEFINE L == prc[p].async_todo
               K == prc'[p].async_todo
    <3>4. L \in Seq(Txns \cup Words) /\ ListIs(L, "async", p, a, o) /\ Goes(L, K, "async", p, s, a, o, a2, o2)
      BY <1>0, <2>1, <2>4
    <3> HIDE DEF L, K
    <3>5. ListIs(K, "async", p, a2, o2)
      BY <2>3, <3>4, ListStep
    <3> QED BY <3>5 DEF K
  <2> QED BY <2>5, <2>6
<1> QED BY <1>1, <1>2 DEF Listed, ListIs

\* What the tasks hold, when only x gives and takes.
LEMMA HeldStep ==
  ASSUME NEW a, NEW o, NEW a2, NEW o2, Types, JobsOk, Held(a, o), NEW x \in Tasks, \A y \in Tasks : y # x => job'[y] = job[y],
         \A t \in Txns : \/ a2[t] = a[t] /\ o2[t] = o[t]
                         \/ /\ a[t] \in Taken => o[t] = x
                            /\ a2[t] \in Taken => o2[t] = x
                            /\ \A y \in Tasks : y # x /\ job[y].pc = "walk" => job[y].re # t,
         Holds(a2, o2, x, job'[x]),
         \A t \in Txns : a2[t] \in Taken /\ o2[t] = x => With(t, job'[x])
  PROVE  Held(a2, o2)'
<1>1. ASSUME NEW y \in Tasks PROVE Holds(a2, o2, y, job'[y])
  <2>1. CASE y = x
    BY <2>1
  <2>2. CASE y # x
    <3>1. Holds(a, o, y, job[y]) /\ job'[y] = job[y]
      BY <2>2 DEF Held
    <3>2. job[y] \in JobType
      BY DEF Types
    <3>3. job[y].t # None /\ job[y].pc # "walk" => a2[job[y].t] = a[job[y].t] /\ o2[job[y].t] = o[job[y].t]
      <4>1. SUFFICES ASSUME job[y].t # None, job[y].pc # "walk"
                     PROVE  a2[job[y].t] = a[job[y].t] /\ o2[job[y].t] = o[job[y].t]
        OBVIOUS
      <4>2. job[y].t \in Txns /\ o[job[y].t] = y
        BY <3>1, <3>2, <4>1 DEF Holds, JobType, Parents
      <4>3. a[job[y].t] \in Taken
        <5>1. Carries(job[y]) /\ Idle.t = None
          BY DEF JobsOk, Idle
        <5> QED BY <3>1, <3>2, <4>1, <5>1 DEF Holds, JobType, Taken, Carries
      <4> QED BY <2>2, <4>2, <4>3
    <3>4. job[y].re # None => a2[job[y].re] = a[job[y].re] /\ o2[job[y].re] = o[job[y].re]
      <4>1. SUFFICES ASSUME job[y].re # None
                     PROVE  a2[job[y].re] = a[job[y].re] /\ o2[job[y].re] = o[job[y].re]
        OBVIOUS
      <4>2. job[y].re \in Txns
        BY <3>2, <4>1 DEF JobType, Parents
      <4>3. (a[job[y].re] = "job" /\ o[job[y].re] = y) \/ job[y].pc = "walk"
        BY <3>1, <4>1 DEF Holds
      <4> QED BY <2>2, <4>2, <4>3 DEF Taken
    <3> QED BY <3>1, <3>3, <3>4 DEF Holds
  <2> QED BY <2>1, <2>2
<1>2. ASSUME NEW t \in Txns, a2[t] \in Taken PROVE o2[t] \in Tasks /\ With(t, job'[o2[t]])
  <2>1. CASE o2[t] = x
    BY <1>2, <2>1
  <2>2. CASE o2[t] # x
    <3>1. a2[t] = a[t] /\ o2[t] = o[t]
      BY <1>2, <2>2
    <3> QED BY <1>2, <2>2, <3>1 DEF Held
  <2> QED BY <2>1, <2>2
<1> QED BY <1>1, <1>2 DEF Held

\* The fields of a transaction that no step touches go on fitting.
LEMMA FitsKept ==
  ASSUME NEW a, NEW o, NEW r, NEW a2, NEW o2, NEW r2, Types, JobsOk, NEW t \in Txns, Fits(a, o, r, t), txn'[t] = txn[t],
         a2[t] = a[t], o2[t] = o[t], r2[t] = r[t], PlaceType(a, o, r),
         a[t] \in Taken => o[t] \in Tasks /\ job'[o[t]] = job[o[t]],
         \A g \in Threads : thr[g].dead => thr'[g].dead
  PROVE  Fits(a2, o2, r2, t)'
<1>1. a[t] \in Taken => job'[o[t]] = job[o[t]] /\ (job[o[t]].pc \in {"reply1", "rbuilt", "rsend"} => job[o[t]].target \in Threads)
  BY DEF Types, JobType, JobsOk, Carries
<1>2. r[t] # None => r[t] \in Threads
  BY DEF PlaceType
<1>3. a[t] \in Taken => Home(o[t])' = Home(o[t])
  BY <1>1 DEF Home
<1>4. a[t] \notin Taken => a[t] \notin {"built", "queue", "deliver", "job", "done"}
  BY DEF Taken
<1>5. CASE a[t] \in Taken
  BY <1>1, <1>2, <1>3, <1>5 DEF Fits
<1>6. CASE a[t] \notin Taken
  BY <1>2, <1>4, <1>6 DEF Fits
<1> QED BY <1>5, <1>6

-----------------------------------------------------------------------------
(* Chains, stacks and turns after a step that changes none of them.        *)

\* Where the last call of a chain can be, besides the stack of its handler.
Movers == {"queue", "todo", "ptodo", "deliver", "job"}

Calm(t, a, o, r, a2, o2, r2) ==
  \/ /\ txn'[t] = txn[t] /\ r2[t] = r[t]
     /\ \/ a2[t] = a[t] /\ o2[t] = o[t]
        \/ a[t] \in Movers /\ a2[t] \in Movers
        \/ txn[t].kind # "call" /\ txn[t].from = None
  \/ /\ t \notin Active(txn, a) /\ t \notin Active(txn', a2) /\ r[t] = None /\ r2[t] = None
     /\ txn[t].from = None \/ a[t] = "built"
     /\ txn'[t].from = None \/ a2[t] = "built"
SameStacks == \A g \in Threads : thr'[g].dead = thr[g].dead /\ (~thr[g].dead => thr'[g].stack = thr[g].stack)
SameWalks == \A y \in Tasks : (job'[y].pc = "walk" \/ job[y].pc = "walk") => job'[y] = job[y]

\* No call is sent or answered, none is delivered, and no stack changes.
LEMMA Steady ==
  ASSUME NEW a, NEW o, NEW r, NEW a2, NEW o2, NEW r2, NEW c, NEW d, Types, JobsOk, PlaceType(a, o, r),
         Chained(Active(txn, a), txn, c, d), Ends(a, o, Active(txn, a)), Stacks(a, r, c, d),
         \A t \in Txns : Calm(t, a, o, r, a2, o2, r2),
         \A t \in Txns : a[t] = "stack" => o[t] \in Threads,
         SameStacks, SameWalks
  PROVE  /\ Active(txn', a2) = Active(txn, a)
         /\ \A h \in Threads : On(h, txn', a2, r2) = On(h, txn, a, r)
         /\ Chained(Active(txn, a2), txn, c, d)' /\ Ends(a2, o2, Active(txn, a2))' /\ Stacks(a2, r2, c, d)'
<1> USE DEF Calm, SameStacks, SameWalks
<1> DEFINE A == Active(txn, a)
           B == Active(txn', a2)
<1>1. ASSUME NEW t \in Txns PROVE t \in B <=> t \in A
  BY DEF Active, Movers
<1>2. B = A
  BY <1>1 DEF Active
<1>3. ASSUME NEW t \in A PROVE /\ t \in Txns /\ txn'[t] = txn[t] /\ r2[t] = r[t]
                               /\ (a2[t] = a[t] /\ o2[t] = o[t]) \/ (a[t] \in Movers /\ a2[t] \in Movers)
  BY <1>1 DEF Active
<1>4. ASSUME NEW h \in Threads PROVE On(h, txn', a2, r2) = On(h, txn, a, r)
  <2>1. h # None
    BY Marks
  <2>2. ASSUME NEW t \in Txns PROVE t \in On(h, txn', a2, r2) <=> t \in On(h, txn, a, r)
    BY <2>1 DEF On, Movers
  <2> QED BY <2>2 DEF On
<1>5. ASSUME NEW h \in Threads, NEW t \in On(h, txn, a, r) PROVE Under(txn', t, h) = Under(txn, t, h)
  <2>1. h # None
    BY Marks
  <2>2. t \in Txns /\ txn'[t] = txn[t]
    BY <1>5, <2>1 DEF On
  <2> QED BY <2>2 DEF Under
<1>6. Chained(A, txn', c, d) /\ \A t : Leaf(t, A, txn') <=> Leaf(t, A, txn)
  <2>1. \A t \in A : txn'[t].from_parent = txn[t].from_parent
    BY <1>3
  <2> HIDE DEF A
  <2> QED BY <2>1, ChainSame DEF A
<1>7. Ends(a2, o2, Active(txn, a2))'
  <2> HIDE DEF A, B
  <2>1. ASSUME NEW t \in A
        PROVE  /\ a2[t] \in {"queue", "todo", "ptodo", "deliver", "job"} => Leaf(t, A, txn')
               /\ a2[t] = "orphan" => ~Leaf(t, A, txn')
    <3>1. /\ a[t] \in {"queue", "todo", "ptodo", "deliver", "job"} => Leaf(t, A, txn)
          /\ a[t] = "orphan" => ~Leaf(t, A, txn)
      BY DEF Ends, A
    <3> QED BY <1>3, <1>6, <3>1 DEF Movers
  <2>2. ASSUME NEW t \in A, NEW w \in A, txn'[w].from_parent = t
        PROVE  /\ a2[t] = "stack" => \/ txn'[w].from = o2[t]
                                     \/ thr'[o2[t]].dead /\ txn'[w].from = None
               /\ a2[t] = "orphan" => txn'[w].from = None
    <3>1. /\ a[t] = "stack" => \/ txn[w].from = o[t]
                               \/ thr[o[t]].dead /\ txn[w].from = None
          /\ a[t] = "orphan" => txn[w].from = None
      BY <1>3, <2>2 DEF Ends, A
    <3>2. txn'[w] = txn[w] /\ t \in Txns
      BY <1>3
    <3> QED BY <1>3, <3>1, <3>2 DEF Movers
  <2>3. ASSUME NEW x \in Tasks, job'[x].pc = "walk", NEW t \in A, a2[t] = "stack", o2[t] = job'[x].dying
        PROVE  Leaf(t, A, txn') <=> t = job'[x].re
    <3>1. job'[x] = job[x] /\ a[t] = "stack" /\ o[t] = job[x].dying
      BY <1>3, <2>3 DEF Movers
    <3>2. Leaf(t, A, txn) <=> t = job[x].re
      BY <2>3, <3>1 DEF Ends, A
    <3> QED BY <1>6, <3>1, <3>2
  <2>4. Active(txn', a2) = A
    BY <1>2 DEF B
  <2> QED BY <2>1, <2>2, <2>3, <2>4 DEF Ends
<1>8. Stacks(a2, r2, c, d)'
  <2>1. ASSUME NEW h \in Threads, ~thr'[h].dead
        PROVE  Stack(h, thr'[h].stack, On(h, txn', a2, r2), txn', c, d)
    <3>1. Stack(h, thr[h].stack, On(h, txn, a, r), txn, c, d) /\ thr'[h].stack = thr[h].stack
      BY <2>1 DEF Stacks
    <3> QED BY <1>4, <1>5, <3>1, StackSame
  <2>2. ASSUME NEW x \in Tasks, job'[x].pc = "walk"
        PROVE  Stack(job'[x].dying, job'[x].t, On(job'[x].dying, txn', a2, r2), txn', c, d)
    <3>1. job'[x] = job[x] /\ Stack(job[x].dying, job[x].t, On(job[x].dying, txn, a, r), txn, c, d)
      BY <2>2 DEF Stacks
    <3>2. job[x].dying \in Threads
      BY <2>2, <3>1 DEF Types, JobType, JobsOk, Carries
    <3> QED BY <1>4, <1>5, <3>1, <3>2, StackSame
  <2>3. ASSUME NEW h \in Threads, thr'[h].dead, On(h, txn', a2, r2) # {}
        PROVE  \E x \in Tasks : job'[x].pc = "walk" /\ job'[x].dying = h
    <3>1. thr[h].dead /\ On(h, txn, a, r) # {}
      BY <1>4, <2>3
    <3>2. PICK x \in Tasks : job[x].pc = "walk" /\ job[x].dying = h
      BY <3>1 DEF Stacks
    <3>3. job'[x] = job[x]
      BY <3>2
    <3> QED BY <3>2, <3>3
  <2> QED BY <2>1, <2>2, <2>3 DEF Stacks
<1>9. Chained(Active(txn, a2), txn, c, d)'
  <2> HIDE DEF A
  <2>1. Chained(B, txn', c, d)
    BY <1>2, <1>6
  <2> QED BY <2>1
<1> QED BY <1>2, <1>4, <1>7, <1>8, <1>9

\* Calls on their way.
LEMMA FlightsStep ==
  ASSUME NEW a, NEW o, NEW r, NEW a2, NEW o2, NEW r2, NEW c, NEW c2, Flights(a, o, r, c),
         \A t \in Txns : /\ txn'[t].kind = "call" /\ a2[t] \in {"queue", "todo", "deliver"} /\ txn'[t].to_thread # None
                         => \/ /\ txn[t].kind = "call" /\ a[t] \in {"queue", "todo", "deliver"}
                               /\ txn'[t].to_thread = txn[t].to_thread
                               /\ Meets(txn[t].to_thread, t, a, r, c) => Meets(txn[t].to_thread, t, a2, r2, c2)'
                            \/ Meets(txn[t].to_thread, t, a2, r2, c2)',
         \A x \in Threads : job'[x].pc = "built" /\ txn'[job'[x].t].kind = "call" =>
           \/ /\ job[x].pc = "built" /\ txn[job[x].t].kind = "call" /\ job'[x].target = job[x].target
              /\ thr'[x].stack = thr[x].stack
              /\ thr[x].stack # None => r2[thr[x].stack] = r[thr[x].stack]
              /\ Meets(job[x].target, thr[x].stack, a, r, c) => Meets(job[x].target, thr[x].stack, a2, r2, c2)'
           \/ /\ thr'[x].stack # None => r2[thr'[x].stack] = x
              /\ job'[x].target # None => thr'[x].stack # None /\ Meets(job[x].target, thr[x].stack, a2, r2, c2)',
         \A h \in Threads : ~thr'[h].dead => \A t \in Txns : Fresh(t, h, a2, o2)' =>
           \/ /\ ~thr[h].dead /\ Fresh(t, h, a, o) /\ thr'[h].stack = thr[h].stack /\ thr'[h].todo[1] = thr[h].todo[1]
              /\ job'[h].pc \in {"built", "deliver"} /\ txn'[job'[h].t].kind = "call" =>
                   job[h].pc \in {"built", "deliver"} /\ txn[job[h].t].kind = "call"
           \/ /\ thr'[h].stack = None /\ thr'[h].todo[1] = t
              /\ job'[h].pc \in {"built", "deliver"} => txn'[job'[h].t].kind # "call",
         \A h \in Threads : job'[h].pc = "deliver" /\ txn'[job'[h].t].to_thread = None /\ txn'[job'[h].t].kind = "call" =>
           \/ /\ job[h].pc = "deliver" /\ txn[job[h].t].to_thread = None /\ txn[job[h].t].kind = "call"
              /\ thr'[h].stack = thr[h].stack
           \/ thr'[h].stack = None
  PROVE  Flights(a2, o2, r2, c2)'
<1>1. ASSUME NEW t \in Txns, txn'[t].kind = "call", a2[t] \in {"queue", "todo", "deliver"}, txn'[t].to_thread # None
      PROVE  Meets(txn[t].to_thread, t, a2, r2, c2)'
  <2>1. CASE /\ txn[t].kind = "call" /\ a[t] \in {"queue", "todo", "deliver"}
             /\ txn'[t].to_thread = txn[t].to_thread
             /\ Meets(txn[t].to_thread, t, a, r, c) => Meets(txn[t].to_thread, t, a2, r2, c2)'
    <3>1. Meets(txn[t].to_thread, t, a, r, c)
      BY <1>1, <2>1 DEF Flights
    <3>2. Meets(txn[t].to_thread, t, a2, r2, c2)'
      BY <2>1, <3>1
    <3> QED BY <2>1, <3>2 DEF Meets
  <2>2. CASE Meets(txn[t].to_thread, t, a2, r2, c2)'
    BY <2>2
  <2> QED BY <1>1, <2>1, <2>2
<1>2. ASSUME NEW x \in Threads, job'[x].pc = "built", txn'[job'[x].t].kind = "call"
      PROVE  /\ thr'[x].stack # None => r2[thr'[x].stack] = x
             /\ job'[x].target # None => thr'[x].stack # None /\ Meets(job[x].target, thr[x].stack, a2, r2, c2)'
  <2>1. CASE /\ job[x].pc = "built" /\ txn[job[x].t].kind = "call" /\ job'[x].target = job[x].target
             /\ thr'[x].stack = thr[x].stack
             /\ thr[x].stack # None => r2[thr[x].stack] = r[thr[x].stack]
             /\ Meets(job[x].target, thr[x].stack, a, r, c) => Meets(job[x].target, thr[x].stack, a2, r2, c2)'
    <3>1. /\ thr[x].stack # None => r[thr[x].stack] = x
          /\ job[x].target # None => thr[x].stack # None /\ Meets(job[x].target, thr[x].stack, a, r, c)
      BY <2>1 DEF Flights
    <3>2. job[x].target # None => Meets(job[x].target, thr[x].stack, a2, r2, c2)'
      BY <2>1, <3>1
    <3>3. job[x].target # None => Meets(job[x].target, thr[x].stack, a2, r2, c2)'
      BY <2>1, <3>2 DEF Meets
    <3> QED BY <2>1, <3>1, <3>3
  <2>2. CASE /\ thr'[x].stack # None => r2[thr'[x].stack] = x
             /\ job'[x].target # None => thr'[x].stack # None /\ Meets(job[x].target, thr[x].stack, a2, r2, c2)'
    BY <2>2
  <2> QED BY <1>2, <2>1, <2>2
<1>3. ASSUME NEW h \in Threads, ~thr'[h].dead, NEW t \in Txns, Fresh(t, h, a2, o2)'
      PROVE  /\ thr'[h].stack = None /\ thr'[h].todo[1] = t
             /\ job'[h].pc \in {"built", "deliver"} => txn'[job'[h].t].kind # "call"
  <2>1. CASE /\ ~thr[h].dead /\ Fresh(t, h, a, o) /\ thr'[h].stack = thr[h].stack /\ thr'[h].todo[1] = thr[h].todo[1]
             /\ job'[h].pc \in {"built", "deliver"} /\ txn'[job'[h].t].kind = "call" =>
                  job[h].pc \in {"built", "deliver"} /\ txn[job[h].t].kind = "call"
    <3>1. /\ thr[h].stack = None /\ thr[h].todo[1] = t
          /\ job[h].pc \in {"built", "deliver"} => txn[job[h].t].kind # "call"
      BY <2>1 DEF Flights
    <3> QED BY <2>1, <3>1
  <2> QED BY <1>3, <2>1
<1>4. ASSUME NEW h \in Threads, job'[h].pc = "deliver", txn'[job'[h].t].to_thread = None, txn'[job'[h].t].kind = "call"
      PROVE  thr'[h].stack = None
  BY <1>4 DEF Flights
<1> QED BY <1>1, <1>2, <1>3, <1>4 DEF Flights

\* The members of On decide about Meets.
LEMMA MeetsSame ==
  ASSUME NEW h, NEW v, NEW a, NEW r, NEW a2, NEW r2, NEW c, Meets(h, v, a, r, c),
         ~thr'[h].dead => ~thr[h].dead, On(h, txn', a2, r2) = On(h, txn, a, r)
  PROVE  Meets(h, v, a2, r2, c)'
BY DEF Meets

\* The turns of the one-way transactions change with one of them at most.
LEMMA TurnStep ==
  ASSUME NEW a, NEW a2, NEW p, NEW s, \A t \in Txns : t # s => (t \in Turn(p, a2)' <=> t \in Turn(p, a))
  PROVE  /\ Cardinality(Turn(p, a2))' \in Nat /\ Cardinality(Turn(p, a)) \in Nat
         /\ Cardinality(Turn(p, a2))' = Cardinality(Turn(p, a)) + One(s \in Turn(p, a2)') - One(s \in Turn(p, a))
<1> DEFINE S == Turn(p, a)
           U == Turn(p, a2)'
<1>1. IsFiniteSet(S)
  <2>1. S \subseteq Txns
    BY DEF Turn
  <2> HIDE DEF S
  <2> QED BY <2>1, Marks, FS_Subset
<1>2. \A b : b # s => (b \in U <=> b \in S)
  BY DEF Turn
<1>3. Cardinality(U) = Cardinality(Turn(p, a2))'
  OBVIOUS
<1> HIDE DEF S, U
<1>4. /\ Cardinality(U) \in Nat /\ Cardinality(S) \in Nat
      /\ Cardinality(U) = Cardinality(S) + One(s \in U) - One(s \in S)
  BY <1>1, <1>2, OneChanges
<1> QED BY <1>3, <1>4 DEF S, U

\* No turn changes.
LEMMA TurnsSame ==
  ASSUME NEW a, NEW a2, Turns(a),
         \A p \in Procs : prc'[p].life = "open" =>
           /\ prc[p].life = "open" /\ Turn(p, a2)' = Turn(p, a) /\ prc'[p].buffers = prc[p].buffers
           /\ prc'[p].stuck = prc[p].stuck /\ prc'[p].has_async = prc[p].has_async
           /\ Len(prc'[p].async_todo) > 0 => Len(prc[p].async_todo) > 0
  PROVE  Turns(a2)'
<1>1. ASSUME NEW p \in Procs, prc'[p].life = "open"
      PROVE  /\ Cardinality(Turn(p, a2))' + prc'[p].buffers + prc'[p].stuck = IF prc'[p].has_async THEN 1 ELSE 0
             /\ Len(prc'[p].async_todo) > 0 => prc'[p].has_async
  <2>1. /\ Cardinality(Turn(p, a)) + prc[p].buffers + prc[p].stuck = IF prc[p].has_async THEN 1 ELSE 0
        /\ Len(prc[p].async_todo) > 0 => prc[p].has_async
    BY <1>1 DEF Turns
  <2>2. Cardinality(Turn(p, a2))' = Cardinality(Turn(p, a))
    BY <1>1
  <2> QED BY <1>1, <2>1, <2>2
<1> QED BY <1>1 DEF Turns

-----------------------------------------------------------------------------
(* Steps that leave every transaction where it is.                         *)

\* The parts of the invariant.
LEMMA CoreIs ==
  ASSUME NEW a, NEW o, NEW r, NEW c, NEW d, Core(a, o, r, c, d)
  PROVE  /\ Base /\ Types /\ JobsOk /\ Counted /\ Lives /\ Completes /\ NoSleepOverWork /\ PoolBound
         /\ GhostType(a, o, r, c, d) /\ PlaceType(a, o, r) /\ c \in [Txns -> Txns] /\ d \in [Txns -> Nat]
         /\ Placed(a, o, r) /\ Listed(a, o) /\ Held(a, o) /\ (\A t \in Txns : Fits(a, o, r, t))
         /\ Linked(a, o, r, c, d) /\ Chained(Active(txn, a), txn, c, d) /\ Ends(a, o, Active(txn, a))
         /\ Stacks(a, r, c, d) /\ Flights(a, o, r, c) /\ Turns(a)
         /\ \A t \in Txns : a[t] = "stack" => o[t] \in Threads
BY DEF Core, Base, GhostType, Placed, Linked, Fits

\* The members of one list are not in another.
LEMMA ListedIs ==
  ASSUME NEW a, NEW o, Types, Listed(a, o)
  PROVE  /\ \A h \in Threads : ListIs(thr[h].todo, "todo", h, a, o) /\ thr[h].todo \in Seq(Txns \cup Words)
         /\ \A p \in Procs : /\ ListIs(prc[p].todo, "ptodo", p, a, o) /\ prc[p].todo \in Seq(Txns \cup Words)
                             /\ ListIs(prc[p].async_todo, "async", p, a, o) /\ prc[p].async_todo \in Seq(Txns \cup Words)
                             /\ prc[p].todo \in Seq(Txns) /\ prc[p].async_todo \in Seq(Txns)
BY TxnLists DEF Listed, ListIs, Types, ThreadType, ProcType

\* What is first on a list stays first.
LEMMA HeadKept ==
  ASSUME NEW L \in Seq(Txns \cup Words), NEW w \in Txns \cup Words
  PROVE  Len(L) > 0 => Append(L, w)[1] = L[1]
OBVIOUS

\* Such a step of task x.
LEMMA QuietStep ==
  ASSUME NEW a, NEW o, NEW r, NEW c, NEW d, Core(a, o, r, c, d), txn' = txn,
         NEW x \in Tasks, \A y \in Tasks : y # x => job'[y] = job[y],
         job'[x].pc = "walk" \/ job[x].pc = "walk" => job'[x] = job[x],
         job'[x].pc \in {"built", "deliver"} => job'[x] = job[x],
         Holds(a, o, x, job'[x]),
         \A t \in Txns : a[t] \in Taken /\ o[t] = x => With(t, job'[x]) /\ Fits(a, o, r, t)',
         \A g \in Threads :
           /\ thr'[g].dead = thr[g].dead /\ (~thr[g].dead => thr'[g].stack = thr[g].stack)
           /\ Stay(thr[g].todo, thr'[g].todo)
           /\ Len(thr[g].todo) > 0 /\ thr[g].todo[1] \in Txns => thr'[g].todo[1] = thr[g].todo[1],
         \A p \in Procs : prc'[p].todo = prc[p].todo /\ prc'[p].async_todo = prc[p].async_todo
  PROVE  GhostType(a, o, r, c, d) /\ Placed(a, o, r)' /\ Linked(a, o, r, c, d)'
<1>0. /\ Base /\ Types /\ JobsOk /\ PlaceType(a, o, r) /\ Listed(a, o) /\ Held(a, o) /\ (\A t \in Txns : Fits(a, o, r, t))
      /\ Chained(Active(txn, a), txn, c, d) /\ Ends(a, o, Active(txn, a)) /\ GhostType(a, o, r, c, d)
      /\ Stacks(a, r, c, d) /\ Flights(a, o, r, c)
      /\ \A t \in Txns : a[t] = "stack" => o[t] \in Threads
  BY CoreIs
<1>1. Listed(a, o)'
  <2>1. \A t \in Txns : t # None => a[t] = a[t] /\ o[t] = o[t]
    OBVIOUS
  <2>2. None \notin Txns
    BY Marks
  <2>3. \A p \in Procs : Stay(prc[p].todo, prc'[p].todo) /\ Stay(prc[p].async_todo, prc'[p].async_todo)
    BY DEF Stay
  <2>4. /\ \A h \in Threads : Goes(thr[h].todo, thr'[h].todo, "todo", h, None, a, o, a, o)
        /\ \A p \in Procs : /\ Goes(prc[p].todo, prc'[p].todo, "ptodo", p, None, a, o, a, o)
                            /\ Goes(prc[p].async_todo, prc'[p].async_todo, "async", p, None, a, o, a, o)
    BY <2>2, <2>3 DEF Goes
  <2> QED BY <1>0, <2>4, ListedStep
<1>2. Held(a, o)'
  BY <1>0, HeldStep
<1>3. ASSUME NEW t \in Txns PROVE Fits(a, o, r, t)'
  <2>1. CASE a[t] \in Taken /\ o[t] = x
    BY <2>1
  <2>2. CASE ~(a[t] \in Taken /\ o[t] = x)
    <3>1. a[t] \in Taken => o[t] \in Tasks /\ job'[o[t]] = job[o[t]]
      BY <1>0, <2>2 DEF Held
    <3>2. txn'[t] = txn[t] /\ (\A g \in Threads : thr[g].dead => thr'[g].dead) /\ Fits(a, o, r, t)
      BY <1>0
    <3> QED BY <1>0, <3>1, <3>2, FitsKept
  <2> QED BY <2>1, <2>2
<1>4. /\ Active(txn', a) = Active(txn, a)
      /\ \A h \in Threads : On(h, txn', a, r) = On(h, txn, a, r)
      /\ Chained(Active(txn, a), txn, c, d)' /\ Ends(a, o, Active(txn, a))' /\ Stacks(a, r, c, d)'
  <2>1. SameWalks
    BY DEF SameWalks
  <2>2. \A t \in Txns : Calm(t, a, o, r, a, o, r)
    BY DEF Calm
  <2>3. SameStacks
    BY DEF SameStacks
  <2> HIDE DEF Core
  <2> QED BY ONLY <1>0, <2>1, <2>2, <2>3, Steady
<1>5. Flights(a, o, r, c)'
  <2>1. \A h \in Threads : On(h, txn', a, r) = On(h, txn, a, r)
    BY <1>4
  <2>2. ASSUME NEW h \in Threads \cup {None}, h # None, NEW v, Meets(h, v, a, r, c) PROVE Meets(h, v, a, r, c)'
    <3>1. h \in Threads
      BY <2>2
    <3> QED BY <2>1, <2>2, <3>1, MeetsSame
  <2>3. /\ \A t \in Txns : txn[t].to_thread \in Threads \cup {None}
        /\ \A y \in Threads : job[y].target \in Threads \cup {None}
    BY <1>0, Marks DEF Types, TxnType, JobType
  <2>4. \A y \in Threads : job'[y].pc \in {"built", "deliver"} => job'[y] = job[y]
    BY Marks
  <2>5. ASSUME NEW t \in Txns, txn'[t].kind = "call", a[t] \in {"queue", "todo", "deliver"}, txn'[t].to_thread # None
        PROVE  Meets(txn[t].to_thread, t, a, r, c)'
    <3>1. Meets(txn[t].to_thread, t, a, r, c) /\ txn[t].to_thread \in Threads
      BY <1>0, <2>3, <2>5 DEF Flights
    <3> DEFINE h == txn[t].to_thread
    <3>2. Meets(h, t, a, r, c) /\ h \in Threads \cup {None} /\ h # None
      BY <3>1, Marks
    <3>3. ~thr'[h].dead => On(h, txn', a, r) # {} /\ \A z \in On(h, txn', a, r) : c[z] = c[t]
      BY <2>1, <3>1 DEF Meets
    <3> QED BY <3>3 DEF Meets
  <2>6. ASSUME NEW y \in Threads, job'[y].pc = "built", txn'[job'[y].t].kind = "call"
        PROVE  /\ thr'[y].stack # None => r[thr'[y].stack] = y
               /\ job'[y].target # None => thr'[y].stack # None /\ Meets(job[y].target, thr[y].stack, a, r, c)'
    <3>1. job'[y] = job[y] /\ thr'[y].stack = thr[y].stack
      <4>1. ThreadJob(y) /\ job'[y] = job[y] /\ Carries(job[y])
        BY <1>0, <2>4, <2>6, Marks DEF JobsOk
      <4>2. ~thr[y].dead
        BY <2>6, <4>1, Marks DEF ThreadJob, Carries
      <4> QED BY <4>1, <4>2
    <3>2. /\ thr[y].stack # None => r[thr[y].stack] = y
          /\ job[y].target # None => thr[y].stack # None /\ Meets(job[y].target, thr[y].stack, a, r, c)
      BY <1>0, <2>6, <3>1 DEF Flights
    <3>3. job[y].target # None => job[y].target \in Threads
      BY <2>3
    <3>4. job[y].target # None /\ ~thr'[job[y].target].dead
            => On(job[y].target, txn', a, r) # {} /\ \A z \in On(job[y].target, txn', a, r) : c[z] = c[thr[y].stack]
      BY <2>1, <3>2, <3>3 DEF Meets
    <3> QED BY <3>1, <3>2, <3>4 DEF Meets
  <2>7. ASSUME NEW h \in Threads, ~thr'[h].dead, NEW t \in Txns, Fresh(t, h, a, o)'
        PROVE  /\ ~thr[h].dead /\ Fresh(t, h, a, o) /\ thr'[h].stack = thr[h].stack /\ thr'[h].todo[1] = thr[h].todo[1]
               /\ job'[h].pc \in {"built", "deliver"} /\ txn'[job'[h].t].kind = "call" =>
                    job[h].pc \in {"built", "deliver"} /\ txn[job[h].t].kind = "call"
    <3>1. ~thr[h].dead /\ Fresh(t, h, a, o) /\ thr'[h].stack = thr[h].stack
      BY <2>7 DEF Fresh
    <3>2. thr[h].todo[1] = t /\ t \in In(thr[h].todo) /\ thr[h].todo \in Seq(Txns \cup Words)
      BY <1>0, <3>1, ListedIs DEF Flights, Fresh, ListIs
    <3>3. Len(thr[h].todo) > 0
      BY <3>2, InLen
    <3> QED BY <2>4, <3>1, <3>2, <3>3
  <2>8. ASSUME NEW h \in Threads, job'[h].pc = "deliver", txn'[job'[h].t].to_thread = None, txn'[job'[h].t].kind = "call"
        PROVE  /\ job[h].pc = "deliver" /\ txn[job[h].t].to_thread = None /\ txn[job[h].t].kind = "call"
               /\ thr'[h].stack = thr[h].stack
    <3>1. ThreadJob(h) /\ job'[h] = job[h] /\ Carries(job[h])
      BY <1>0, <2>4, <2>8, Marks DEF JobsOk
    <3>2. ~thr[h].dead
      BY <2>8, <3>1, Marks DEF ThreadJob, Carries
    <3> QED BY <2>8, <3>1, <3>2
  <2> QED BY <1>0, <2>5, <2>6, <2>7, <2>8, FlightsStep
<1> QED BY <1>0, <1>1, <1>2, <1>3, <1>4, <1>5 DEF Placed, Linked

-----------------------------------------------------------------------------
(* Commands and reads of a thread that stays outside the driver.           *)

\* The thread holds no transaction.
LEMMA IdleHolds ==
  ASSUME NEW a, NEW o, NEW r, NEW c, NEW d, Core(a, o, r, c, d), NEW h \in Threads, job[h].pc = "idle"
  PROVE  /\ job[h] = Idle /\ job[h] \in JobType /\ Carries(job[h]) /\ \A t \in Txns : ~(a[t] \in Taken /\ o[t] = h)
         /\ Holds(a, o, h, job[h])
<1>1. Types /\ JobsOk /\ Held(a, o) /\ h \in Tasks
  BY CoreIs, Marks
<1>2. job[h] = Idle /\ job[h] \in JobType /\ Carries(job[h])
  BY <1>1 DEF JobsOk, Carries, Types
<1>3. \A t \in Txns : ~With(t, Idle)
  BY Marks DEF With, Idle
<1> QED BY <1>1, <1>2, <1>3 DEF Held

\* A step of such a thread that leaves the transactions alone.
LEMMA IdleStep ==
  ASSUME NEW a, NEW o, NEW r, NEW c, NEW d, Core(a, o, r, c, d), NEW h \in Threads, job[h].pc = "idle", ~thr[h].dead,
         prc[ProcOf[h]].life = "open", job' = job, txn' = txn, Types', Turns(a)',
         \A g \in Threads : g # h => /\ SameLife(thr'[g], thr[g]) /\ thr'[g].stack = thr[g].stack
                                     /\ thr'[g].todo = thr[g].todo /\ thr'[g].process_todo = thr[g].process_todo
                                     /\ thr'[g].waiting => thr[g].waiting,
         SameLife(thr'[h], thr[h]), thr'[h].stack = thr[h].stack, Stay(thr[h].todo, thr'[h].todo),
         Len(thr[h].todo) > 0 /\ thr[h].todo[1] \in Txns => thr'[h].todo[1] = thr[h].todo[1],
         thr'[h].waiting => thr'[h].stack = None /\ Len(thr'[h].todo) = 0,
         Grows(h) \/ thr'[h].process_todo \/ \A i \in DOMAIN thr'[h].todo : thr'[h].todo[i] = "complete",
         \A p \in Procs : /\ prc'[p].life = prc[p].life /\ prc'[p].tmp = prc[p].tmp
                          /\ prc'[p].todo = prc[p].todo /\ prc'[p].async_todo = prc[p].async_todo
                          /\ prc'[p].requested + prc'[p].started <= MaxThreads
  PROVE  TxnInv'
<1>0. Base /\ Types /\ JobsOk /\ Counted /\ Listed(a, o) /\ h \in Tasks
  BY CoreIs, Marks
<1>1. job[h] = Idle /\ job[h] \in JobType /\ Carries(job[h]) /\ (\A t \in Txns : ~(a[t] \in Taken /\ o[t] = h)) /\ Holds(a, o, h, job[h])
  BY IdleHolds
<1>2. /\ \A g \in Threads : SameLife(thr'[g], thr[g]) /\ thr'[g].stack = thr[g].stack
      /\ \A g \in Threads : thr[g].tmp \in Nat /\ \A p \in Procs : prc[p].tmp \in Nat
  BY <1>0 DEF Types, ThreadType, ProcType
<1>3. job[h].target = None /\ job[h].proc = None /\ job[h].dying = None /\ job[h].pc = "idle"
  BY <1>1 DEF Idle
<1>4. Counted' /\ LifeStep
  <2>1. \A g \in Threads :
           /\ thr'[g].dead = thr[g].dead /\ thr'[g].mem = thr[g].mem
           /\ thr'[g].tmp = thr[g].tmp + One(job'[h].target = g) - One(job[h].target = g)
           /\ job'[h].target = g => thr[g].mem = "live"
    BY <1>2, <1>3, Marks DEF SameLife, One
  <2>2. \A p \in Procs :
           /\ prc'[p].life = prc[p].life
           /\ prc'[p].tmp = prc[p].tmp + One(job'[h].proc = p) - One(job[h].proc = p)
           /\ job'[h].proc = p => prc[p].life # "freed"
    BY <1>2, <1>3, Marks DEF One
  <2>3. /\ job'[h].dying = job[h].dying /\ job'[h].target = job[h].target /\ job'[h].proc = job[h].proc
        /\ \A y \in Tasks : y # h => job'[y] = job[y]
    OBVIOUS
  <2> QED BY <1>0, <2>1, <2>2, <2>3, RefsHold
<1>5. JobsOk'
  <2>1. ThreadJob(h)'
    BY <1>3, Marks DEF ThreadJob
  <2>2. job' = [job EXCEPT ![h] = job[h]] /\ h # Worker
    BY <1>0, Marks DEF Types
  <2>3. \A g \in Threads : thr'[g].dead = thr[g].dead /\ (thr'[g].waiting => thr[g].waiting \/ job[g].pc = "idle")
    BY <1>2, <1>3 DEF SameLife
  <2> QED BY <1>0, <1>1, <1>4, <2>1, <2>2, <2>3, JobsStep
<1>6. Lives'
  <2>1. ASSUME NEW g \in Threads
        PROVE  /\ thr'[g].dead = thr[g].dead
               /\ thr'[g].waiting =>
                    \/ thr[g].waiting /\ thr'[g].stack = thr[g].stack /\ thr'[g].todo = thr[g].todo
                    \/ thr'[g].stack = None /\ Len(thr'[g].todo) = 0 /\ ~thr[g].dead /\ prc[ProcOf[g]].life = "open"
               /\ thr[g].dead /\ Len(thr'[g].todo) > 0 => Len(thr[g].todo) > 0 /\ (job[h].dying = g => job'[h].dying = g)
    BY <1>2 DEF SameLife
  <2>2. \A p \in Procs :
           /\ prc[p].life # "open" /\ Len(prc'[p].todo) > 0 => Len(prc[p].todo) > 0
           /\ prc[p].life \in {"gone", "freed"} /\ Len(prc'[p].async_todo) > 0 => Len(prc[p].async_todo) > 0
    OBVIOUS
  <2>3. \A y \in Tasks : y # h => job'[y] = job[y]
    OBVIOUS
  <2> QED BY <1>0, <1>4, <1>5, <2>1, <2>2, <2>3, Marks, LivesStep
<1>7. NoSleepOverWork' /\ Completes'
  <2>1. \A g \in Threads : ~thr[g].dead => Grows(g) \/ thr'[g].process_todo
                              \/ \A i \in DOMAIN thr'[g].todo : thr'[g].todo[i] = "complete"
    BY DEF Grows
  <2>2. \A g \in Threads : job'[g].pc \in {"queue", "rsend"} =>
           \/ Grows(g) /\ job[g].pc \in {"queue", "rsend"}
           \/ \E i \in DOMAIN thr'[g].todo : thr'[g].todo[i] = "complete"
    BY <1>3 DEF Grows
  <2>3. \A g \in Threads : thr'[g].dead = thr[g].dead
    BY <1>2 DEF SameLife
  <2> QED BY <1>0, <2>1, <2>2, <2>3, ListsStep
<1>8. Base'
  BY <1>4, <1>5, <1>6, <1>7 DEF Base, PoolBound
<1>9. GhostType(a, o, r, c, d) /\ Placed(a, o, r)' /\ Linked(a, o, r, c, d)'
  <2>1. ASSUME NEW g \in Threads
        PROVE  /\ thr'[g].dead = thr[g].dead /\ (~thr[g].dead => thr'[g].stack = thr[g].stack)
               /\ Stay(thr[g].todo, thr'[g].todo)
               /\ Len(thr[g].todo) > 0 /\ thr[g].todo[1] \in Txns => thr'[g].todo[1] = thr[g].todo[1]
    BY <1>2 DEF SameLife, Stay
  <2>2. /\ \A y \in Tasks : y # h => job'[y] = job[y]
        /\ job'[h].pc = "walk" \/ job[h].pc = "walk" => job'[h] = job[h]
        /\ job'[h].pc \in {"built", "deliver"} => job'[h] = job[h]
        /\ Holds(a, o, h, job'[h])
        /\ \A t \in Txns : a[t] \in Taken /\ o[t] = h => With(t, job'[h]) /\ Fits(a, o, r, t)'
    BY <1>1
  <2>3. \A p \in Procs : prc'[p].todo = prc[p].todo /\ prc'[p].async_todo = prc[p].async_todo
    OBVIOUS
  <2> QED BY <1>0, <2>1, <2>2, <2>3, QuietStep
<1>10. Core(a, o, r, c, d)'
  BY <1>8, <1>9 DEF Core, GhostType, PlaceType
<1> QED BY <1>10 DEF TxnInv

\* The turns when only the pool of a process changes.
LEMMA TurnsQuiet ==
  ASSUME NEW a, Turns(a), txn' = txn,
         \A p \in Procs : prc'[p].life = "open" =>
           /\ prc[p].life = "open" /\ prc'[p].buffers = prc[p].buffers
           /\ prc'[p].stuck = prc[p].stuck /\ prc'[p].has_async = prc[p].has_async
           /\ prc'[p].async_todo = prc[p].async_todo
  PROVE  Turns(a)'
<1>1. \A p \in Procs : Turn(p, a)' = Turn(p, a)
  BY DEF Turn
<1> QED BY <1>1, TurnsSame

\* A command is refused.
LEMMA RefusedStep ==
  ASSUME TxnInv, NEW h \in Threads, ReplyRefused(h) \/ \E p \in Procs : CallRefused(h, p)
  PROVE  TxnInv'
<1>0. PICK a, o, r, c, d : Core(a, o, r, c, d)
  BY DEF TxnInv
<1>1. Base /\ Types /\ Turns(a) /\ PoolBound /\ thr[h].todo \in Seq(Txns \cup Words)
  <2>1. Base /\ Types /\ Turns(a) /\ PoolBound
    BY <1>0, CoreIs
  <2> QED BY <2>1 DEF Types, ThreadType
<1>2. /\ job[h].pc = "idle" /\ ~thr[h].dead /\ prc[ProcOf[h]].life = "open" /\ ~thr[h].waiting
      /\ job' = job /\ txn' = txn /\ prc' = prc /\ calls' = calls /\ faults' = faults + 1 /\ faults < Faults
      /\ thr' = ReturnError(thr, h)
  BY DEF ReplyRefused, CallRefused, Writing, Ready, Fault
<1>3. /\ thr' \in [Threads -> ThreadType] /\ \A g \in Threads : g # h => thr'[g] = thr[g]
      /\ SameLife(thr'[h], thr[h]) /\ thr'[h].stack = thr[h].stack /\ thr'[h].waiting = thr[h].waiting
      /\ thr'[h].todo = Append(thr[h].todo, "return_error") /\ thr'[h].process_todo
  <2>1. thr \in [Threads -> ThreadType]
    BY <1>1 DEF Types
  <2>2. thr' = ReturnError(thr, h)
    BY <1>2
  <2> QED BY <2>1, <2>2, ReturnErrorIs
<1>4. Types'
  BY <1>1, <1>2, <1>3, Marks DEF Types
<1>5. Turns(a)'
  BY <1>1, <1>2, TurnsQuiet
<1>6. /\ Stay(thr[h].todo, thr'[h].todo)
      /\ Len(thr[h].todo) > 0 => thr'[h].todo[1] = thr[h].todo[1]
  <2>1. "return_error" \in Words
    BY DEF Words
  <2> QED BY <1>1, <1>3, <2>1, StayWords, HeadKept
<1>7. \A g \in Threads : g # h => /\ SameLife(thr'[g], thr[g]) /\ thr'[g].stack = thr[g].stack
                                  /\ thr'[g].todo = thr[g].todo /\ thr'[g].process_todo = thr[g].process_todo
                                  /\ thr'[g].waiting => thr[g].waiting
  BY <1>3 DEF SameLife
<1>8. ~thr'[h].waiting
  BY <1>2, <1>3
<1> QED BY <1>0, <1>1, <1>2, <1>3, <1>4, <1>5, <1>6, <1>7, <1>8, IdleStep DEF PoolBound

\* A looper joins waiting_threads, or leaves them.
LEMMA WaitStep ==
  ASSUME TxnInv, NEW h \in Threads, Wait(h) \/ Signal(h)
  PROVE  TxnInv'
<1>0. PICK a, o, r, c, d : Core(a, o, r, c, d)
  BY DEF TxnInv
<1>1. Base /\ Types /\ Turns(a) /\ PoolBound /\ thr[h].todo \in Seq(Txns \cup Words) /\ JobsOk /\ Lives
  <2>1. Base /\ Types /\ Turns(a) /\ PoolBound /\ JobsOk /\ Lives
    BY <1>0, CoreIs
  <2> QED BY <2>1 DEF Types, ThreadType
<1>2. job' = job /\ txn' = txn /\ prc' = prc /\ calls' = calls /\ faults' = faults
  BY DEF Wait, Signal
<1>3. /\ job[h].pc = "idle" /\ ~thr[h].dead /\ prc[ProcOf[h]].life = "open"
      /\ Wait(h) => thr[h].stack = None /\ Len(thr[h].todo) = 0
  <2>1. CASE Wait(h)
    BY <2>1 DEF Wait, Ready, Idling
  <2>2. CASE Signal(h) /\ ~Wait(h)
    <3>1. thr[h].waiting
      BY <2>2 DEF Signal
    <3>2. ~thr[h].dead /\ prc[ProcOf[h]].life = "open"
      BY <1>1, <3>1 DEF Lives
    <3>3. job[h].pc = "idle"
      BY <1>1, <3>1 DEF JobsOk, ThreadJob
    <3> QED BY <2>2, <3>2, <3>3
  <2> QED BY <2>1, <2>2
<1>4. /\ thr' \in [Threads -> ThreadType] /\ \A g \in Threads : g # h => thr'[g] = thr[g]
      /\ SameLife(thr'[h], thr[h]) /\ thr'[h].todo = thr[h].todo /\ thr'[h].stack = thr[h].stack
      /\ thr'[h].process_todo = thr[h].process_todo /\ (thr'[h].waiting => Wait(h))
  <2>1. thr \in [Threads -> ThreadType]
    BY <1>1 DEF Types
  <2>2. CASE Wait(h)
    <3>1. thr' = [thr EXCEPT ![h].waiting = TRUE]
      BY <2>2 DEF Wait
    <3> DEFINE F == [thr[h] EXCEPT !.waiting = TRUE]
    <3>2. /\ F \in ThreadType /\ SameLife(F, thr[h]) /\ F.todo = thr[h].todo /\ F.stack = thr[h].stack
          /\ F.process_todo = thr[h].process_todo
      BY <2>1 DEF ThreadType, SameLife
    <3>3. thr' = [thr EXCEPT ![h] = F]
      BY <3>1
    <3> HIDE DEF F
    <3> QED BY <2>1, <2>2, <3>2, <3>3
  <2>3. CASE Signal(h)
    <3>1. thr' = Awake(thr, h)
      BY <2>3 DEF Signal, Awake
    <3> QED BY <2>1, <3>1, FieldIs
  <2> QED BY <2>2, <2>3
<1>5. Types'
  BY <1>1, <1>2, <1>4 DEF Types
<1>6. Turns(a)'
  BY <1>1, <1>2, TurnsQuiet
<1>7. /\ Stay(thr[h].todo, thr'[h].todo)
      /\ Len(thr[h].todo) > 0 => thr'[h].todo[1] = thr[h].todo[1]
  BY <1>4 DEF Stay
<1>8. \A g \in Threads : g # h => /\ SameLife(thr'[g], thr[g]) /\ thr'[g].stack = thr[g].stack
                                  /\ thr'[g].todo = thr[g].todo /\ thr'[g].process_todo = thr[g].process_todo
                                  /\ thr'[g].waiting => thr[g].waiting
  BY <1>4 DEF SameLife
<1>9. thr'[h].waiting => thr'[h].stack = None /\ Len(thr'[h].todo) = 0
  BY <1>3, <1>4
<1>10. Grows(h)
  BY <1>4 DEF Grows
<1> QED BY <1>0, <1>1, <1>2, <1>3, <1>4, <1>5, <1>6, <1>7, <1>8, <1>9, <1>10, IdleStep DEF PoolBound

\* BC_REGISTER_LOOPER
LEMMA RegisterStep ==
  ASSUME TxnInv, NEW h \in Threads, RegisterLooper(h)
  PROVE  TxnInv'
<1> DEFINE p == ProcOf[h]
           e == IF prc[p].requested = 0 THEN 0 ELSE 1
<1>0. PICK a, o, r, c, d : Core(a, o, r, c, d)
  BY DEF TxnInv
<1>1. Base /\ Types /\ Turns(a) /\ PoolBound /\ thr[h].todo \in Seq(Txns \cup Words) /\ p \in Procs
  <2>1. Base /\ Types /\ Turns(a) /\ PoolBound
    BY <1>0, CoreIs
  <2> QED BY <2>1, Marks DEF Types, ThreadType
<1>2. /\ job[h].pc = "idle" /\ ~thr[h].dead /\ prc[ProcOf[h]].life = "open" /\ ~thr[h].waiting
      /\ job' = job /\ txn' = txn /\ calls' = calls /\ faults' = faults
      /\ thr' = [thr EXCEPT ![h].looper = TRUE]
      /\ prc' = [prc EXCEPT ![p].requested = @ - e, ![p].started = @ + e]
  BY DEF RegisterLooper, Writing, Ready
<1>3. /\ thr' \in [Threads -> ThreadType] /\ \A g \in Threads : g # h => thr'[g] = thr[g]
      /\ SameLife(thr'[h], thr[h]) /\ thr'[h].stack = thr[h].stack /\ thr'[h].waiting = thr[h].waiting
      /\ thr'[h].todo = thr[h].todo /\ thr'[h].process_todo = thr[h].process_todo
  <2> DEFINE F == [thr[h] EXCEPT !.looper = TRUE]
  <2>1. thr[h] \in ThreadType /\ thr' = [thr EXCEPT ![h] = F] /\ thr \in [Threads -> ThreadType]
    BY <1>1, <1>2 DEF Types
  <2>2. /\ F \in ThreadType /\ SameLife(F, thr[h]) /\ F.stack = thr[h].stack /\ F.waiting = thr[h].waiting
        /\ F.todo = thr[h].todo /\ F.process_todo = thr[h].process_todo
    BY <2>1 DEF ThreadType, SameLife
  <2> HIDE DEF F
  <2> QED BY <2>1, <2>2
<1>4. /\ prc' \in [Procs -> ProcType] /\ \A q \in Procs : q # p => prc'[q] = prc[q]
      /\ prc'[p].life = prc[p].life /\ prc'[p].tmp = prc[p].tmp
      /\ prc'[p].todo = prc[p].todo /\ prc'[p].async_todo = prc[p].async_todo
      /\ prc'[p].has_async = prc[p].has_async /\ prc'[p].buffers = prc[p].buffers /\ prc'[p].stuck = prc[p].stuck
      /\ prc'[p].requested + prc'[p].started = prc[p].requested + prc[p].started
  <2> DEFINE F == [prc[p] EXCEPT !.requested = prc[p].requested - e, !.started = prc[p].started + e]
  <2>1. prc[p] \in ProcType /\ prc' = [prc EXCEPT ![p] = F] /\ prc \in [Procs -> ProcType]
    BY <1>1, <1>2 DEF Types
  <2>2. e \in Nat /\ prc[p].requested - e \in Nat /\ prc[p].started + e \in Nat /\ prc[p].requested \in Nat /\ prc[p].started \in Nat
    BY <2>1 DEF ProcType
  <2> HIDE DEF e, p
  <2>3. /\ F \in ProcType /\ F.life = prc[p].life /\ F.tmp = prc[p].tmp /\ F.todo = prc[p].todo
        /\ F.async_todo = prc[p].async_todo
        /\ F.has_async = prc[p].has_async /\ F.buffers = prc[p].buffers /\ F.stuck = prc[p].stuck
        /\ F.requested = prc[p].requested - e /\ F.started = prc[p].started + e
    BY <2>1, <2>2 DEF ProcType
  <2> HIDE DEF F
  <2>4. prc' \in [Procs -> ProcType] /\ prc'[p] = F /\ \A q \in Procs : q # p => prc'[q] = prc[q]
    BY <1>1, <2>1, <2>3
  <2>5. F.requested + F.started = prc[p].requested + prc[p].started
    BY <2>2, <2>3
  <2> QED BY <2>3, <2>4, <2>5
<1> HIDE DEF e
<1>5. Types'
  BY <1>1, <1>2, <1>3, <1>4 DEF Types
<1>6. Turns(a)'
  BY <1>1, <1>2, <1>4, TurnsQuiet
<1>7. /\ Stay(thr[h].todo, thr'[h].todo)
      /\ Len(thr[h].todo) > 0 => thr'[h].todo[1] = thr[h].todo[1]
  BY <1>3 DEF Stay
<1>8. \A g \in Threads : g # h => /\ SameLife(thr'[g], thr[g]) /\ thr'[g].stack = thr[g].stack
                                  /\ thr'[g].todo = thr[g].todo /\ thr'[g].process_todo = thr[g].process_todo
                                  /\ thr'[g].waiting => thr[g].waiting
  BY <1>3 DEF SameLife
<1>9. ~thr'[h].waiting /\ Grows(h)
  BY <1>2, <1>3 DEF Grows
<1>10. \A q \in Procs : /\ prc'[q].life = prc[q].life /\ prc'[q].tmp = prc[q].tmp
                        /\ prc'[q].todo = prc[q].todo /\ prc'[q].async_todo = prc[q].async_todo
                        /\ prc'[q].requested + prc'[q].started <= MaxThreads
  <2>1. ASSUME NEW q \in Procs PROVE /\ prc'[q].life = prc[q].life /\ prc'[q].tmp = prc[q].tmp
                        /\ prc'[q].todo = prc[q].todo /\ prc'[q].async_todo = prc[q].async_todo
                        /\ prc'[q].requested + prc'[q].started <= MaxThreads
    <3>1. CASE q = p
      BY <1>1, <1>4, <3>1 DEF PoolBound
    <3>2. CASE q # p
      BY <1>1, <1>4, <3>2 DEF PoolBound
    <3> QED BY <3>1, <3>2
  <2> QED BY <2>1
<1> QED BY <1>0, <1>2, <1>3, <1>5, <1>6, <1>7, <1>8, <1>9, <1>10, IdleStep

\* Everything of a process but the pool.
SameProc(p, q) == /\ p.life = q.life /\ p.tmp = q.tmp /\ p.todo = q.todo /\ p.async_todo = q.async_todo
                  /\ p.has_async = q.has_async /\ p.buffers = q.buffers /\ p.stuck = q.stuck

\* The end of a read keeps the pool within its limit.
LEMMA EndReadIs ==
  ASSUME Types, PoolBound, NEW P \in [Procs -> ProcType], NEW h \in Threads,
         \A p \in Procs : P[p].requested = prc[p].requested /\ P[p].started = prc[p].started,
         NEW E, E = EndRead(P, h)
  PROVE  /\ E \in [Procs -> ProcType]
         /\ \A p \in Procs : SameProc(E[p], P[p]) /\ E[p].requested + E[p].started <= MaxThreads
<1> DEFINE p == ProcOf[h]
           n == IF MaySpawn(h) THEN P[p].requested + 1 ELSE P[p].requested
           F == [P[p] EXCEPT !.requested = n]
<1>1. p \in Procs /\ P[p] \in ProcType /\ P[p].requested \in Nat /\ P[p].started \in Nat /\ MaxThreads \in Nat
  BY Marks DEF ProcType
<1>2. n \in Nat /\ n + P[p].started <= MaxThreads
  <2>1. CASE MaySpawn(h)
    <3>1. prc[p].requested = 0 /\ prc[p].started < MaxThreads
      BY <2>1 DEF MaySpawn
    <3>2. n = 1
      BY <1>1, <2>1, <3>1
    <3>3. P[p].started < MaxThreads
      BY <1>1, <3>1
    <3> HIDE DEF n, p
    <3> QED BY <1>1, <3>2, <3>3
  <2>2. CASE ~MaySpawn(h)
    <3>1. n = prc[p].requested /\ P[p].started = prc[p].started /\ prc[p].requested + prc[p].started <= MaxThreads
      BY <1>1, <2>2 DEF PoolBound
    <3>2. prc[p].requested \in Nat
      BY <1>1, <3>1
    <3> HIDE DEF n, p
    <3> QED BY <3>1, <3>2
  <2> QED BY <2>1, <2>2
<1>3. E = [P EXCEPT ![p] = F]
  BY DEF EndRead
<1> HIDE DEF n, p
<1>4. F \in ProcType /\ SameProc(F, P[p]) /\ F.requested = n /\ F.started = P[p].started
  BY <1>1, <1>2 DEF ProcType, SameProc
<1> HIDE DEF F
<1>5. E \in [Procs -> ProcType] /\ E[p] = F /\ \A q \in Procs : q # p => E[q] = P[q]
  BY <1>1, <1>3, <1>4
<1>6. ASSUME NEW q \in Procs PROVE SameProc(E[q], P[q]) /\ E[q].requested + E[q].started <= MaxThreads
  <2>1. CASE q = p
    BY <1>2, <1>4, <1>5, <2>1
  <2>2. CASE q # p
    <3>1. E[q] = P[q] /\ P[q].requested + P[q].started <= MaxThreads
      BY <1>5, <2>2 DEF PoolBound
    <3> QED BY <3>1 DEF SameProc
  <2> QED BY <2>1, <2>2
<1> QED BY <1>5, <1>6

\* The thread reads something from its list that is no transaction.
LEMMA ReadWordStep ==
  ASSUME TxnInv, NEW h \in Threads, ReadOwn(h), Head(thr[h].todo) \notin Txns
  PROVE  TxnInv'
<1> DEFINE s == thr[h].todo
           w == Head(s)
           F == [thr[h] EXCEPT !.todo = Tail(s), !.process_todo = @ /\ Len(s) > 1,
                               !.return_error = @ /\ w # "return_error", !.reply_error = @ /\ w # "reply_error"]
<1>0. PICK a, o, r, c, d : Core(a, o, r, c, d)
  BY DEF TxnInv
<1>1. Base /\ Types /\ Turns(a) /\ PoolBound /\ NoSleepOverWork /\ thr \in [Threads -> ThreadType] /\ prc \in [Procs -> ProcType]
  <2>1. Base /\ Types /\ Turns(a) /\ PoolBound /\ NoSleepOverWork
    BY <1>0, CoreIs
  <2> QED BY <2>1 DEF Types
<1>2. thr[h] \in ThreadType /\ s \in Seq(Txns \cup Words)
  BY <1>1 DEF ThreadType
<1>3. /\ job[h].pc = "idle" /\ ~thr[h].dead /\ prc[ProcOf[h]].life = "open" /\ ~thr[h].waiting /\ Len(s) > 0
      /\ txn' = txn /\ calls' = calls /\ faults' = faults
      /\ prc' = EndRead(prc, h) /\ job' = [job EXCEPT ![h] = Idle] /\ thr' = [thr EXCEPT ![h] = F]
  <2>1. Ready(h) /\ Len(s) > 0
    BY DEF ReadOwn
  <2>2. /\ Take(h, prc, [thr EXCEPT ![h].todo = Tail(@), ![h].process_todo = @ /\ Len(s) > 1], w)
        /\ w \notin Txns
    BY DEF ReadOwn
  <2>3. thr' = [[thr EXCEPT ![h].todo = Tail(@), ![h].process_todo = @ /\ Len(s) > 1]
                 EXCEPT ![h].return_error = @ /\ w # "return_error", ![h].reply_error = @ /\ w # "reply_error"]
    BY <2>2 DEF Take
  <2>4. thr' = [thr EXCEPT ![h] = F]
    BY <1>1, <2>3
  <2>5. txn' = txn /\ calls' = calls /\ faults' = faults /\ prc' = EndRead(prc, h) /\ job' = [job EXCEPT ![h] = Idle]
    BY <2>2 DEF Take, Become
  <2> QED BY <2>1, <2>4, <2>5 DEF Ready
<1>4. job' = job
  <2>1. job[h] = Idle
    BY <1>0, <1>3, IdleHolds
  <2> QED BY <1>1, <1>3, <2>1 DEF Types
<1>5. /\ Tail(s) \in Seq(Txns \cup Words) /\ Len(Tail(s)) = Len(s) - 1 /\ Stay(s, Tail(s)) /\ s[1] \notin Txns
      /\ \A i \in DOMAIN Tail(s) : i + 1 \in DOMAIN s /\ Tail(s)[i] = s[i + 1]
  <2>1. /\ Tail(s) \in Seq(Txns \cup Words) /\ Len(Tail(s)) = Len(s) - 1 /\ Head(s) = s[1]
        /\ \A i \in 1 .. Len(s) - 1 : Tail(s)[i] = s[i + 1]
    BY <1>2, <1>3, TailIn
  <2>2. Stay(s, Tail(s))
    BY <1>2, <1>3, StayWords
  <2>3. DOMAIN Tail(s) = 1 .. Len(s) - 1 /\ DOMAIN s = 1 .. Len(s) /\ Len(s) \in Nat
    BY <1>2, <2>1
  <2> QED BY <2>1, <2>2, <2>3
<1>6. /\ F \in ThreadType /\ SameLife(F, thr[h]) /\ F.stack = thr[h].stack /\ F.waiting = thr[h].waiting
      /\ F.todo = Tail(s) /\ (F.process_todo <=> thr[h].process_todo /\ Len(s) > 1)
  BY <1>2, <1>5 DEF ThreadType, SameLife
<1> HIDE DEF F
<1>7. thr' \in [Threads -> ThreadType] /\ thr'[h] = F /\ \A g \in Threads : g # h => thr'[g] = thr[g]
  BY <1>1, <1>3, <1>6
<1>8. /\ prc' \in [Procs -> ProcType]
      /\ \A p \in Procs : SameProc(prc'[p], prc[p]) /\ prc'[p].requested + prc'[p].started <= MaxThreads
  BY <1>1, <1>3, EndReadIs
<1>9. Types'
  BY <1>1, <1>3, <1>4, <1>7, <1>8 DEF Types
<1>10. Turns(a)'
  BY <1>1, <1>3, <1>8, TurnsQuiet DEF SameProc
<1>11. thr'[h].process_todo \/ \A i \in DOMAIN thr'[h].todo : thr'[h].todo[i] = "complete"
  <2>1. SUFFICES ASSUME ~F.process_todo, NEW i \in DOMAIN Tail(s) PROVE Tail(s)[i] = "complete"
    BY <1>6, <1>7
  <2>2. CASE thr[h].process_todo
    <3>1. Len(s) \in Nat /\ ~(Len(s) > 1) /\ DOMAIN Tail(s) = 1 .. Len(s) - 1
      BY <1>2, <1>5, <1>6, <2>1, <2>2
    <3> QED BY <2>1, <3>1
  <2>3. CASE ~thr[h].process_todo
    <3>1. \A k \in DOMAIN s : s[k] = "complete"
      BY <1>1, <1>3, <2>3 DEF NoSleepOverWork
    <3> QED BY <1>5, <2>1, <3>1
  <2> QED BY <2>2, <2>3
<1>12. /\ SameLife(thr'[h], thr[h]) /\ thr'[h].stack = thr[h].stack /\ Stay(thr[h].todo, thr'[h].todo)
       /\ thr[h].todo[1] \notin Txns /\ ~thr'[h].waiting
  BY <1>3, <1>5, <1>6, <1>7
<1>13. \A g \in Threads : g # h => /\ SameLife(thr'[g], thr[g]) /\ thr'[g].stack = thr[g].stack
                                   /\ thr'[g].todo = thr[g].todo /\ thr'[g].process_todo = thr[g].process_todo
                                   /\ thr'[g].waiting => thr[g].waiting
  BY <1>7 DEF SameLife
<1>14. \A q \in Procs : /\ prc'[q].life = prc[q].life /\ prc'[q].tmp = prc[q].tmp
                        /\ prc'[q].todo = prc[q].todo /\ prc'[q].async_todo = prc[q].async_todo
                        /\ prc'[q].requested + prc'[q].started <= MaxThreads
  BY <1>8 DEF SameProc
<1> HIDE DEF s, w
<1> QED BY <1>0, <1>3, <1>4, <1>9, <1>10, <1>11, <1>12, <1>13, <1>14, IdleStep

-----------------------------------------------------------------------------
(* A task goes on in the driver.                                           *)

\* The job j is one that thread h, or the worker, may have in this state.
ForThread(h, j) ==
  /\ j.pc \notin {"threads", "todo"} /\ j.dying \in {None, h}
  /\ j.pc \notin {"built", "queue", "rbuilt", "rsend"} => j.proc = None
  /\ j.pc \in {"fail1", "fail2", "free"} => j.next # "todo"
  /\ j.pc # "idle" => /\ prc[ProcOf[h]].life = "open" /\ ~thr[h].waiting
                      /\ thr[h].dead <=> j.dying = h
ForWorker(j) ==
  /\ j.pc \in {"threads", "todo", "walk", "drain", "fail1", "fail2", "free"}
  /\ j.proc # None /\ prc[j.proc].life \in {"dead", "gone"}
  /\ j.dying # None => ProcOf[j.dying] = j.proc /\ thr[j.dying].dead
  /\ j.pc \in {"fail1", "fail2", "free"} => j.next # "idle"
  /\ j.pc \in {"fail1", "fail2", "free"} /\ j.next = "todo" => prc[j.proc].life = "gone"
  /\ j.pc = "todo" => prc[j.proc].life = "gone"
  /\ j.pc \in {"threads", "walk", "drain"} => prc[j.proc].life = "dead"
  /\ j.pc \in {"fail1", "fail2", "free"} /\ j.next = "drain" => prc[j.proc].life = "dead"

\* The lists of threads and processes when task x goes on with job j.
ThreadsStep(x, j) ==
  \A g \in Threads :
    /\ thr'[g].dead = thr[g].dead
    /\ thr'[g].waiting => thr[g].waiting /\ thr'[g].stack = thr[g].stack /\ thr'[g].todo = thr[g].todo
    /\ thr[g].dead /\ Len(thr'[g].todo) > 0 => Len(thr[g].todo) > 0 /\ (job[x].dying = g => j.dying = g)
    /\ ~thr[g].dead => Grows(g) \/ thr'[g].process_todo
                         \/ \A i \in DOMAIN thr'[g].todo : thr'[g].todo[i] = "complete"
    /\ g # x => Grows(g) \/ job[g].pc \notin {"queue", "rsend"}
ProcsStep ==
  \A p \in Procs :
    /\ prc[p].life # "open" /\ Len(prc'[p].todo) > 0 => Len(prc[p].todo) > 0
    /\ prc[p].life \in {"gone", "freed"} /\ Len(prc'[p].async_todo) > 0 => Len(prc[p].async_todo) > 0
    /\ prc'[p].requested + prc'[p].started <= MaxThreads

\* What such a step keeps of threads and processes, all in one.
LEMMA BaseStep ==
  ASSUME Base, Types', Counted', LifeStep, NEW x \in Tasks, NEW j \in JobType, job' = [job EXCEPT ![x] = j], Carries(j),
         x \in Threads => ForThread(x, j), x = Worker => ForWorker(j) /\ j.proc = job[x].proc,
         ThreadsStep(x, j), ProcsStep,
         j.pc \in {"queue", "rsend"} => \E i \in DOMAIN thr'[x].todo : thr'[x].todo[i] = "complete"
  PROVE  Base'
<1> USE DEF ThreadsStep, ProcsStep
<1>0. /\ Types /\ JobsOk /\ \A y \in Tasks : y # x => job'[y] = job[y]
      /\ job'[x] = j
  BY DEF Base, Types
<1>1. x \in Threads => ThreadJob(x)'
  <2>1. SUFFICES ASSUME x \in Threads PROVE ThreadJob(x)'
    OBVIOUS
  <2>2. ForThread(x, j) /\ job'[x] = j /\ ProcOf[x] \in Procs
    BY <1>0, <2>1, Marks
  <2>3. prc[ProcOf[x]].life = "open" => prc'[ProcOf[x]].life = "open"
    BY <2>2 DEF LifeStep
  <2>4. (thr'[x].dead <=> thr[x].dead) /\ (~thr[x].waiting => ~thr'[x].waiting)
    BY <2>1
  <2> QED BY <2>2, <2>3, <2>4 DEF ThreadJob, ForThread
<1>2. x = Worker => WorkerJob'
  <2>1. SUFFICES ASSUME x = Worker PROVE WorkerJob'
    OBVIOUS
  <2>2. ForWorker(j) /\ job'[Worker] = j /\ j.proc \in Procs /\ j.dying \in Threads \cup {None}
    BY <1>0, <2>1 DEF ForWorker, JobType
  <2>3. prc'[j.proc].life = prc[j.proc].life
    <3>1. SUFFICES ASSUME prc'[j.proc].life # prc[j.proc].life PROVE FALSE
      OBVIOUS
    <3>2. prc'[j.proc].life = "freed"
      BY <2>2, <3>1 DEF LifeStep
    <3>3. prc'[j.proc].tmp > 0
      BY <2>1, <2>2, UserCountsNext DEF Counted
    <3> QED BY <2>2, <3>2, <3>3 DEF Counted
  <2>4. j.dying # None => (thr'[j.dying].dead <=> thr[j.dying].dead)
    BY <2>2
  <2> QED BY <2>2, <2>3, <2>4 DEF WorkerJob, ForWorker
<1>3. JobsOk'
  <2>1. \A g \in Threads : thr'[g].dead = thr[g].dead /\ (thr'[g].waiting => thr[g].waiting \/ job[g].pc = "idle")
    OBVIOUS
  <2> QED BY <1>0, <1>1, <1>2, <2>1, JobsStep
<1>4. Lives'
  <2>1. ASSUME NEW g \in Threads
        PROVE  /\ thr'[g].dead = thr[g].dead
               /\ thr'[g].waiting =>
                    \/ thr[g].waiting /\ thr'[g].stack = thr[g].stack /\ thr'[g].todo = thr[g].todo
                    \/ thr'[g].stack = None /\ Len(thr'[g].todo) = 0 /\ ~thr[g].dead /\ prc[ProcOf[g]].life = "open"
               /\ thr[g].dead /\ Len(thr'[g].todo) > 0 => Len(thr[g].todo) > 0 /\ (job[x].dying = g => job'[x].dying = g)
    BY <1>0
  <2>2. \A p \in Procs :
           /\ prc[p].life # "open" /\ Len(prc'[p].todo) > 0 => Len(prc[p].todo) > 0
           /\ prc[p].life \in {"gone", "freed"} /\ Len(prc'[p].async_todo) > 0 => Len(prc[p].async_todo) > 0
    OBVIOUS
  <2>3. x = Worker => job'[x].proc = job[x].proc
    BY <1>0
  <2> QED BY <1>0, <1>3, <2>1, <2>2, <2>3, LivesStep
<1>5. NoSleepOverWork' /\ Completes'
  <2>1. \A g \in Threads : ~thr[g].dead => Grows(g) \/ thr'[g].process_todo
                              \/ \A i \in DOMAIN thr'[g].todo : thr'[g].todo[i] = "complete"
    OBVIOUS
  <2>2. \A g \in Threads : job'[g].pc \in {"queue", "rsend"} =>
           \/ Grows(g) /\ job[g].pc \in {"queue", "rsend"}
           \/ \E i \in DOMAIN thr'[g].todo : thr'[g].todo[i] = "complete"
    BY <1>0, Marks
  <2>3. \A g \in Threads : thr'[g].dead = thr[g].dead
    OBVIOUS
  <2> QED BY <1>0, <2>1, <2>2, <2>3, ListsStep
<1> QED BY <1>3, <1>4, <1>5 DEF Base, PoolBound

\* The task has nothing but the transactions of its job.
LEMMA TaskHolds ==
  ASSUME NEW a, NEW o, NEW r, NEW c, NEW d, Core(a, o, r, c, d), NEW x \in Tasks
  PROVE  /\ job[x] \in JobType /\ Carries(job[x]) /\ Holds(a, o, x, job[x])
         /\ \A t \in Txns : a[t] \in Taken /\ o[t] = x => With(t, job[x])
         /\ x \in Threads => ForThread(x, job[x]) /\ x # Worker
         /\ x = Worker /\ job[x].pc # "idle" => ForWorker(job[x])
<1>1. Types /\ JobsOk /\ Held(a, o)
  BY CoreIs
<1>2. job[x] \in JobType /\ Carries(job[x]) /\ Holds(a, o, x, job[x])
      /\ \A t \in Txns : a[t] \in Taken /\ o[t] = x => With(t, job[x])
  BY <1>1 DEF JobsOk, Types, Held
<1>3. x \in Threads => ForThread(x, job[x]) /\ x # Worker
  <2>1. x \in Threads => ThreadJob(x) /\ x # Worker
    BY <1>1, Marks DEF JobsOk
  <2> QED BY <2>1 DEF ThreadJob, ForThread
<1>4. x = Worker /\ job[x].pc # "idle" => ForWorker(job[x])
  <2>1. x = Worker => WorkerJob
    BY <1>1 DEF JobsOk
  <2> QED BY <2>1 DEF WorkerJob, ForWorker
<1> QED BY <1>2, <1>3, <1>4

\* The sender of a call that is not answered is not freed.
LEMMA FromLive ==
  ASSUME NEW a, NEW o, NEW r, NEW c, NEW d, Core(a, o, r, c, d), NEW t \in Active(txn, a), NEW h, h = txn[t].from, h # None
  PROVE  h \in Threads /\ thr[h].mem = "live"
<1>0. Types /\ Counted /\ Stacks(a, r, c, d) /\ t \in Txns
  BY CoreIs DEF Active
<1>1. h \in Threads /\ thr[h].mem \in {"live", "freed"}
  BY <1>0 DEF Types, TxnType, ThreadType
<1>2. t \in On(h, txn, a, r)
  BY SentOn
<1>3. CASE thr[h].dead
  <2>1. PICK x \in Tasks : job[x].pc = "walk" /\ job[x].dying = h
    BY <1>0, <1>1, <1>2, <1>3 DEF Stacks
  <2> QED BY <1>0, <1>1, <2>1, HolderCounts
<1>4. CASE ~thr[h].dead
  BY <1>0, <1>1, <1>4 DEF Counted
<1> QED BY <1>1, <1>3, <1>4

\* A call that task x has to answer, or has answered, while x goes on.
LEMMA FitsJob ==
  ASSUME NEW a, NEW o, NEW r, NEW a2, NEW o2, NEW r2, Types, PlaceType(a, o, r), NEW t \in Txns, Fits(a, o, r, t), txn'[t] = txn[t],
         a[t] \in {"job", "done"}, a2[t] \in {"job", "done"}, NEW x \in Tasks, o[t] = x, o2[t] = x, r2[t] = r[t],
         job'[x].dying = job[x].dying, x = Worker => job'[x].proc = job[x].proc,
         \A g \in Threads : thr[g].dead => thr'[g].dead,
         a2[t] = "done" => txn[t].from = None,
         a2[t] = "job" =>
           /\ txn[t].from # None /\ job'[x].pc \in {"reply1", "rbuilt", "rsend", "fail2"} => txn[t].from = job'[x].target
           /\ txn[t].from = None /\ job'[x].pc \in {"reply1", "rbuilt", "rsend"} => thr'[job'[x].target].dead
  PROVE  Fits(a2, o2, r2, t)'
<1>1. r[t] # None => r[t] \in Threads
  BY DEF PlaceType
<1>2. Home(x)' = Home(x)
  BY DEF Home
<1> QED BY <1>1, <1>2 DEF Fits

\* Task x looks up the sender of the call t it is to answer, and holds it.
LEMMA HoldStep ==
  ASSUME NEW a, NEW o, NEW r, NEW c, NEW d, Core(a, o, r, c, d), NEW x \in Tasks, NEW t \in Txns, a[t] = "job", o[t] = x,
         NEW h, h = txn[t].from, h # None, thr' = Hold(thr, h), prc' = prc, txn' = txn, calls' = calls, faults' = faults,
         NEW j \in JobType, job' = [job EXCEPT ![x] = j], Carries(j), x \in Threads => ForThread(x, j),
         x = Worker => ForWorker(j), j.target = h, job[x].target = None, j.proc = job[x].proc, j.dying = job[x].dying,
         j.pc \in {"reply1", "fail2"}, job[x].pc # "walk", Holds(a, o, x, j),
         With(t, j), \A u \in Txns : With(u, job[x]) => u = t
  PROVE  TxnInv'
<1>0. /\ Base /\ Types /\ JobsOk /\ Counted /\ PlaceType(a, o, r) /\ Turns(a) /\ PoolBound
      /\ Held(a, o) /\ thr \in [Threads -> ThreadType] /\ Fits(a, o, r, t)
      /\ \A g \in Threads : thr[g].todo \in Seq(Txns \cup Words)
  <2>1. /\ Base /\ Types /\ JobsOk /\ Counted /\ PlaceType(a, o, r) /\ Turns(a) /\ PoolBound /\ Held(a, o) /\ Fits(a, o, r, t)
    BY CoreIs
  <2> QED BY <2>1 DEF Types, ThreadType
<1>1. t \in Active(txn, a)
  BY <1>0 DEF Active, Fits, Types, TxnType
<1>2. h \in Threads /\ thr[h].mem = "live"
  BY <1>1, FromLive
<1>3. /\ thr' \in [Threads -> ThreadType] /\ \A g \in Threads : g # h => thr'[g] = thr[g]
      /\ SameFlags(thr'[h], thr[h]) /\ thr'[h].todo = thr[h].todo /\ thr'[h].stack = thr[h].stack
      /\ thr'[h].process_todo = thr[h].process_todo
      /\ thr'[h].mem = thr[h].mem /\ thr'[h].dead = thr[h].dead /\ thr'[h].tmp = thr[h].tmp + 1
  BY <1>0, <1>2, FieldIs
<1>4. \A g \in Threads : /\ thr'[g].todo = thr[g].todo /\ thr'[g].stack = thr[g].stack /\ thr'[g].process_todo = thr[g].process_todo
                         /\ thr'[g].mem = thr[g].mem /\ thr'[g].dead = thr[g].dead /\ thr'[g].waiting = thr[g].waiting
                         /\ thr'[g].tmp = thr[g].tmp + One(g = h)
  BY <1>0, <1>3 DEF SameFlags, One, ThreadType
<1>5. job'[x] = j /\ (\A y \in Tasks : y # x => job'[y] = job[y]) /\ Types'
  BY <1>0, <1>3 DEF Types
<1>6. Counted' /\ LifeStep
  <2>1. ASSUME NEW g \in Threads
        PROVE  /\ thr'[g].dead = thr[g].dead /\ thr'[g].mem = thr[g].mem
               /\ thr'[g].tmp = thr[g].tmp + One(job'[x].target = g) - One(job[x].target = g)
               /\ job'[x].target = g => thr[g].mem = "live"
    <3>1. job'[x].target = h /\ job[x].target # g /\ thr[g].tmp \in Nat
      BY <1>0, <1>5, Marks DEF ThreadType
    <3>2. thr'[g].tmp = thr[g].tmp + One(g = h)
      BY <1>4
    <3> QED BY <1>2, <1>4, <3>1, <3>2 DEF One
  <2>2. \A p \in Procs :
           /\ prc'[p].life = prc[p].life
           /\ prc'[p].tmp = prc[p].tmp + One(job'[x].proc = p) - One(job[x].proc = p)
           /\ job'[x].proc = p => prc[p].life # "freed"
    <3>1. ASSUME NEW p \in Procs PROVE prc'[p].tmp = prc[p].tmp + One(job'[x].proc = p) - One(job[x].proc = p)
      <4>1. prc[p].tmp \in Nat /\ job'[x].proc = job[x].proc
        BY <1>0, <1>5 DEF Types, ProcType
      <4> QED BY <4>1 DEF One
    <3> QED BY <1>0, <1>5, <3>1, UserCounts
  <2>3. /\ job'[x].dying = job[x].dying /\ (job'[x].target = job[x].target \/ job[x].target = None)
        /\ (job'[x].proc = job[x].proc \/ job[x].proc = None)
    BY <1>5
  <2> QED BY <1>0, <1>5, <2>1, <2>2, <2>3, RefsHold
<1>7. Base'
  <2>1. ASSUME NEW g \in Threads
        PROVE  /\ thr'[g].dead = thr[g].dead
               /\ thr'[g].waiting => thr[g].waiting /\ thr'[g].stack = thr[g].stack /\ thr'[g].todo = thr[g].todo
               /\ thr[g].dead /\ Len(thr'[g].todo) > 0 => Len(thr[g].todo) > 0 /\ (job[x].dying = g => j.dying = g)
               /\ Grows(g)
    BY <1>4 DEF Grows
  <2>2. \A p \in Procs : prc'[p].requested + prc'[p].started <= MaxThreads
    BY <1>0 DEF PoolBound
  <2>3. j.pc \notin {"queue", "rsend"}
    OBVIOUS
  <2>4. ThreadsStep(x, j) /\ ProcsStep
    BY <2>1, <2>2 DEF ThreadsStep, ProcsStep
  <2> QED BY <1>0, <1>5, <1>6, <2>3, <2>4, BaseStep
<1>8. GhostType(a, o, r, c, d) /\ Placed(a, o, r)' /\ Linked(a, o, r, c, d)'
  <2>1. \A g \in Threads :
           /\ thr'[g].dead = thr[g].dead /\ (~thr[g].dead => thr'[g].stack = thr[g].stack)
           /\ Stay(thr[g].todo, thr'[g].todo)
           /\ Len(thr[g].todo) > 0 /\ thr[g].todo[1] \in Txns => thr'[g].todo[1] = thr[g].todo[1]
    BY <1>4 DEF Stay
  <2>2. ASSUME NEW u \in Txns, a[u] \in Taken, o[u] = x PROVE With(u, job'[x]) /\ Fits(a, o, r, u)'
    <3>1. u = t
      BY <1>0, <2>2 DEF Held
    <3>2. Fits(a, o, r, t)'
      <4>1. /\ job'[x].dying = job[x].dying /\ (x = Worker => job'[x].proc = job[x].proc) /\ txn'[t] = txn[t]
            /\ \A g \in Threads : thr[g].dead => thr'[g].dead
        BY <1>4, <1>5
      <4>2. /\ txn[t].from # None /\ txn[t].from = job'[x].target
        BY <1>5
      <4> QED BY <1>0, <4>1, <4>2, FitsJob
    <3> QED BY <1>5, <3>1, <3>2
  <2>3. /\ job'[x].pc # "walk" /\ job[x].pc # "walk" /\ job'[x].pc \notin {"built", "deliver"} /\ Holds(a, o, x, job'[x])
    BY <1>5
  <2>4. \A p \in Procs : prc'[p].todo = prc[p].todo /\ prc'[p].async_todo = prc[p].async_todo
    OBVIOUS
  <2> QED BY <1>5, <2>1, <2>2, <2>3, <2>4, QuietStep
<1>9. Turns(a)'
  BY <1>0, TurnsQuiet
<1>10. Core(a, o, r, c, d)'
  BY <1>7, <1>8, <1>9 DEF Core, GhostType, PlaceType
<1> QED BY <1>10 DEF TxnInv

\* binder_get_txn_from() for a reply.
LEMMA ReplyHolds ==
  ASSUME TxnInv, NEW h \in Threads, ReplyFrom(h), txn[job[h].re].from # None
  PROVE  TxnInv'
<1> DEFINE t == job[h].re
           j == [job[h] EXCEPT !.pc = "reply1", !.target = txn[t].from]
<1>0. PICK a, o, r, c, d : Core(a, o, r, c, d)
  BY DEF TxnInv
<1>1. /\ job[h] \in JobType /\ Carries(job[h]) /\ Holds(a, o, h, job[h]) /\ ForThread(h, job[h]) /\ h \in Tasks /\ h # Worker
      /\ Types
  BY <1>0, TaskHolds, CoreIs, Marks
<1>2. job[h].pc = "reply0" /\ thr' = Hold(thr, txn[t].from) /\ prc' = prc /\ txn' = txn /\ calls' = calls /\ faults' = faults
      /\ job' = [job EXCEPT ![h] = j]
  BY DEF ReplyFrom, Become
<1>3. t # None /\ t \in Txns /\ job[h].t = None /\ job[h].target = None /\ job[h].proc = None
  BY <1>1, <1>2 DEF Carries, JobType, Parents
<1>4. a[t] = "job" /\ o[t] = h
  BY <1>1, <1>2, <1>3 DEF Holds
<1>5. txn[t].from \in Threads
  BY <1>1, <1>3 DEF Types, TxnType
<1>6. /\ j \in JobType /\ j.pc = "reply1" /\ j.target = txn[t].from /\ j.t = None /\ j.re = t /\ j.proc = job[h].proc
      /\ j.dying = job[h].dying /\ j.next = job[h].next
  BY <1>1, <1>3, <1>5 DEF JobType
<1> HIDE DEF j
<1>7. Carries(j) /\ ForThread(h, j) /\ Holds(a, o, h, j)
  BY <1>1, <1>2, <1>3, <1>4, <1>5, <1>6, Marks DEF Carries, ForThread, Holds, Idle
<1>8. With(t, j) /\ \A u \in Txns : With(u, job[h]) => u = t
  BY <1>3, <1>6, Marks DEF With
<1>9. PICK u : u = txn[t].from
  OBVIOUS
<1>10. u # None /\ thr' = Hold(thr, u) /\ j.target = u /\ job[h].pc # "walk" /\ j.pc \in {"reply1", "fail2"}
  BY <1>2, <1>6, <1>9
<1> HIDE DEF t
<1> QED BY <1>0, <1>1, <1>2, <1>3, <1>4, <1>6, <1>7, <1>8, <1>9, <1>10, HoldStep

\* binder_get_txn_from() for a failed reply.
LEMMA FailHolds ==
  ASSUME TxnInv, NEW x \in Tasks, Fail1(x), txn[job[x].t].from # None
  PROVE  TxnInv'
<1> DEFINE t == job[x].t
           j == [job[x] EXCEPT !.pc = "fail2", !.target = txn[t].from]
<1>0. PICK a, o, r, c, d : Core(a, o, r, c, d)
  BY DEF TxnInv
<1>1. /\ job[x] \in JobType /\ Carries(job[x]) /\ Holds(a, o, x, job[x]) /\ Types
      /\ (x \in Threads => ForThread(x, job[x])) /\ (x = Worker /\ job[x].pc # "idle" => ForWorker(job[x]))
  BY <1>0, TaskHolds, CoreIs, Marks
<1>2. job[x].pc = "fail1" /\ thr' = Hold(thr, txn[t].from) /\ prc' = prc /\ txn' = txn /\ calls' = calls /\ faults' = faults
      /\ job' = [job EXCEPT ![x] = j]
  BY DEF Fail1, Become
<1>3. t # None /\ t \in Txns /\ job[x].re = None /\ job[x].target = None
  BY <1>1, <1>2 DEF Carries, JobType, Parents
<1>4. a[t] = "job" /\ o[t] = x
  BY <1>1, <1>2, <1>3 DEF Holds
<1>5. txn[t].from \in Threads
  BY <1>1, <1>3 DEF Types, TxnType
<1>6. /\ j \in JobType /\ j.pc = "fail2" /\ j.target = txn[t].from /\ j.t = t /\ j.re = None /\ j.proc = job[x].proc
      /\ j.dying = job[x].dying /\ j.next = job[x].next
  BY <1>1, <1>3, <1>5 DEF JobType
<1> HIDE DEF j
<1>7. Carries(j) /\ Holds(a, o, x, j)
  BY <1>1, <1>2, <1>3, <1>4, <1>5, <1>6, Marks DEF Carries, Holds, Idle
<1>8. (x \in Threads => ForThread(x, j)) /\ (x = Worker => ForWorker(j))
  BY <1>1, <1>2, <1>6 DEF ForThread, ForWorker
<1>9. With(t, j) /\ \A u \in Txns : With(u, job[x]) => u = t
  BY <1>3, <1>6, Marks DEF With
<1>10. PICK u : u = txn[t].from
  OBVIOUS
<1>11. u # None /\ thr' = Hold(thr, u) /\ j.target = u /\ job[x].pc # "walk" /\ j.pc \in {"reply1", "fail2"}
  BY <1>2, <1>6, <1>10
<1> HIDE DEF t
<1> QED BY <1>0, <1>1, <1>2, <1>3, <1>4, <1>6, <1>7, <1>8, <1>9, <1>10, <1>11, HoldStep

-----------------------------------------------------------------------------
(* Steps that put references down, and steps that move a transaction.      *)

\* The list of g in T is that of thr, or that with something at its end.
GrowsIn(T, g) ==
  \/ T[g].todo = thr[g].todo /\ T[g].process_todo = thr[g].process_todo
  \/ \E w \in Txns \cup Words :
       /\ T[g].todo = Append(thr[g].todo, w)
       /\ T[g].process_todo \/ (w = "complete" /\ T[g].process_todo = thr[g].process_todo)

\* The threads have the lists of T, and T those of thr when task x goes on with job j.
Follows(T) ==
  \A g \in Threads :
    /\ thr'[g].todo = T[g].todo /\ (~thr[g].dead => thr'[g].process_todo = T[g].process_todo)
    /\ thr'[g].waiting => T[g].waiting /\ thr'[g].stack = T[g].stack
RunsIn(T, x, j) ==
  \A g \in Threads :
    /\ T[g].waiting => thr[g].waiting /\ T[g].stack = thr[g].stack /\ T[g].todo = thr[g].todo
    /\ ~thr[g].dead => GrowsIn(T, g) \/ (g = x /\ T[g].process_todo)
    /\ thr[g].dead /\ Len(T[g].todo) > 0 => Len(thr[g].todo) > 0 /\ (job[x].dying = g => j.dying = g)

\* Task x goes on with job j and puts down its references of thread u and process q.
LEMMA DropStep ==
  ASSUME Base, Types', NEW x \in Tasks, NEW j \in JobType, job' = [job EXCEPT ![x] = j], Carries(j),
         x \in Threads => ForThread(x, j), x = Worker => ForWorker(j) /\ j.proc = job[x].proc,
         NEW u \in Threads \cup {None}, NEW q \in Procs \cup {None},
         Gives(x, j, u, q),
         NEW T, Soft(T), NEW P, SoftProc(P), NEW D, D = DecThread(T, u),
         NEW E, E = Dropped(P, D, u, q), Agree(D, E),
         Follows(T), RunsIn(T, x, j),
         j.pc \notin {"queue", "rsend"},
         ProcsStep
  PROVE  Base' /\ LifeStep /\ \A g \in Threads : thr'[g].dead = thr[g].dead
<1> USE DEF Follows, RunsIn
<1>1. Types /\ JobsOk /\ Counted /\ Lives
  BY DEF Base
<1>2. job'[x] = j /\ \A y \in Tasks : y # x => job'[y] = job[y]
  BY <1>1 DEF Types
<1>3. Counted' /\ LifeStep
  <2>1. Gives(x, job'[x], u, q)
    BY <1>2
  <2>2. x = Worker /\ q # None => prc[q].life = "gone"
    BY DEF ForWorker, Gives
  <2> QED BY <1>1, <1>2, <2>1, <2>2, RefsDrop
<1>4. \A g \in Threads : D[g].dead = thr[g].dead
  <2>1. Owns(x, u, q)
    BY DEF Gives, Owns
  <2> QED BY ONLY <1>1, <2>1, x \in Tasks, Soft(T), SoftProc(P), u \in Threads \cup {None}, q \in Procs \cup {None},
             D = DecThread(T, u), E = Dropped(P, D, u, q), DropIs
<1>5. ASSUME NEW g \in Threads
      PROVE  /\ thr'[g].dead = thr[g].dead
             /\ thr'[g].waiting => thr[g].waiting /\ thr'[g].stack = thr[g].stack /\ thr'[g].todo = thr[g].todo
             /\ thr[g].dead /\ Len(thr'[g].todo) > 0 => Len(thr[g].todo) > 0 /\ (job[x].dying = g => j.dying = g)
             /\ ~thr[g].dead => Grows(g) \/ thr'[g].process_todo
                                  \/ \A i \in DOMAIN thr'[g].todo : thr'[g].todo[i] = "complete"
             /\ g # x => Grows(g) \/ job[g].pc \notin {"queue", "rsend"}
  <2>1. thr'[g].dead = thr[g].dead /\ thr'[g].todo = T[g].todo /\ (~thr[g].dead => thr'[g].process_todo = T[g].process_todo)
    BY <1>4 DEF Agree
  <2>2. ~thr[g].dead /\ GrowsIn(T, g) => Grows(g)
    BY <2>1 DEF Grows, GrowsIn
  <2>3. thr[g].dead => job[g].pc \notin {"queue", "rsend"}
    <3>1. ThreadJob(g) /\ Carries(job[g]) /\ g # None
      BY <1>1, Marks DEF JobsOk
    <3> QED BY <3>1 DEF ThreadJob, Carries
  <2> QED BY <2>1, <2>2, <2>3
<1>6. ThreadsStep(x, j) /\ ProcsStep
  BY <1>5 DEF ThreadsStep
<1>7. j.pc \in {"queue", "rsend"} => \E i \in DOMAIN thr'[x].todo : thr'[x].todo[i] = "complete"
  OBVIOUS
<1>8. Base'
  BY <1>3, <1>6, <1>7, BaseStep
<1> QED BY <1>3, <1>4, <1>8 DEF Agree

\* Transaction t changes its place or its fields, but no chain and no stack does; of the lists
\* only one transaction, s, comes or goes.
Shifts(t, x, s, a, o, r, a2, o2) ==
  /\ a[t] \in Taken => o[t] = x
  /\ a2[t] \in Taken => o2[t] = x
  /\ t = s \/ {a2[t], a[t]} \cap {"todo", "ptodo", "async"} = {}
  /\ \/ /\ txn'[t] = txn[t]
        /\ \/ a[t] \in Movers /\ a2[t] \in Movers
           \/ txn[t].kind # "call" /\ txn[t].from = None
     \/ /\ t \notin Active(txn, a) /\ t \notin Active(txn', a2) /\ r[t] = None
        /\ txn[t].from = None \/ a[t] = "built"
        /\ txn'[t].from = None \/ a2[t] = "built"
  /\ txn'[t].kind = "call" /\ txn'[t].to_thread # None /\ a2[t] \in {"queue", "todo", "deliver"}
       => a[t] \in {"queue", "todo", "deliver"}

\* What task x starts with such a step: a call, or the delivery of one.
Starts(x, a, r, c) ==
  /\ job'[x].pc = "built" /\ txn'[job'[x].t].kind = "call" =>
       /\ thr[x].stack # None => r[thr[x].stack] = x
       /\ job'[x].target # None => thr[x].stack # None /\ Meets(job'[x].target, thr[x].stack, a, r, c)
  /\ job'[x].pc = "deliver" /\ txn'[job'[x].t].to_thread = None /\ txn'[job'[x].t].kind = "call"
       => thr[x].stack = None
\* A call to no thread in particular is on the list of h, alone with a thread that has nothing to do.
FreshOk(t, h, x, a, o) ==
  \/ /\ Fresh(t, h, a, o) /\ thr'[h].todo[1] = thr[h].todo[1]
     /\ h = x => job'[x].pc \notin {"built", "deliver"} \/ txn'[job'[x].t].kind # "call"
  \/ /\ thr[h].stack = None /\ thr'[h].todo[1] = t
     /\ job'[h].pc \in {"built", "deliver"} => txn'[job'[h].t].kind # "call"

FreshStep(x, a, o, a2, o2) ==
  \A h \in Threads : ~thr[h].dead => \A t \in Txns : Fresh(t, h, a2, o2)' => FreshOk(t, h, x, a, o)

\* Each transaction stays as it is or shifts; what x has then; the lists.
Moves(t, x, s, a, o, r, a2, o2) ==
  \/ txn'[t] = txn[t] /\ a2[t] = a[t] /\ o2[t] = o[t]
  \/ Shifts(t, x, s, a, o, r, a2, o2) /\ Fits(a2, o2, r, t)'
HasNow(x, a2, o2, r) ==
  /\ Holds(a2, o2, x, job'[x])
  /\ \A t \in Txns : a2[t] \in Taken /\ o2[t] = x => With(t, job'[x]) /\ Fits(a2, o2, r, t)'
ListsGo(s, a, o, a2, o2) ==
  /\ \A h \in Threads : Goes(thr[h].todo, thr'[h].todo, "todo", h, s, a, o, a2, o2)
  /\ \A p \in Procs : /\ Goes(prc[p].todo, prc'[p].todo, "ptodo", p, s, a, o, a2, o2)
                      /\ Goes(prc[p].async_todo, prc'[p].async_todo, "async", p, s, a, o, a2, o2)

\* Such a step of task x.
LEMMA MoveStep ==
  ASSUME NEW a, NEW o, NEW r, NEW c, NEW d, Core(a, o, r, c, d), NEW a2, NEW o2, PlaceType(a2, o2, r),
         NEW x \in Tasks, \A y \in Tasks : y # x => job'[y] = job[y], NEW s, Types',
         \A t \in Txns : Moves(t, x, s, a, o, r, a2, o2),
         job'[x].pc = "walk" \/ job[x].pc = "walk" => job'[x] = job[x],
         HasNow(x, a2, o2, r), SameStacks, ListsGo(s, a, o, a2, o2),
         x \in Threads => Starts(x, a, r, c) /\ (job'[x].pc \in {"built", "deliver"} => ~thr[x].dead),
         FreshStep(x, a, o, a2, o2)
  PROVE  GhostType(a2, o2, r, c, d) /\ Placed(a2, o2, r)' /\ Linked(a2, o2, r, c, d)'
<1> USE DEF Moves, HasNow, SameStacks, ListsGo, FreshStep
<1>0. /\ Base /\ Types /\ JobsOk /\ GhostType(a, o, r, c, d) /\ PlaceType(a, o, r) /\ Listed(a, o) /\ Held(a, o)
      /\ (\A t \in Txns : Fits(a, o, r, t))
      /\ Chained(Active(txn, a), txn, c, d) /\ Ends(a, o, Active(txn, a))
      /\ Stacks(a, r, c, d) /\ Flights(a, o, r, c) /\ c \in [Txns -> Txns] /\ d \in [Txns -> Nat]
      /\ \A t \in Txns : a[t] = "stack" => o[t] \in Threads
  BY CoreIs
<1>1. Listed(a2, o2)'
  <2>1. \A t \in Txns : t # s => \/ a2[t] = a[t] /\ o2[t] = o[t]
                                 \/ {a2[t], a[t]} \cap {"todo", "ptodo", "async"} = {}
    BY DEF Shifts
  <2> QED BY <1>0, <2>1, ListedStep
<1>2. Held(a2, o2)'
  <2>1. ASSUME NEW t \in Txns
        PROVE  \/ a2[t] = a[t] /\ o2[t] = o[t]
               \/ /\ a[t] \in Taken => o[t] = x
                  /\ a2[t] \in Taken => o2[t] = x
                  /\ \A y \in Tasks : y # x /\ job[y].pc = "walk" => job[y].re # t
    <3>1. SUFFICES ASSUME Shifts(t, x, s, a, o, r, a2, o2), NEW y \in Tasks, y # x, job[y].pc = "walk", job[y].re = t PROVE FALSE
      BY DEF Shifts
    <3>2. Holds(a, o, y, job[y]) /\ job[y].re # None /\ Fits(a, o, r, t)
      BY <1>0, <3>1, Marks DEF Held
    <3>3. a[t] = "stack" \/ (a[t] = "job" /\ o[t] = y)
      BY <3>1, <3>2 DEF Holds
    <3>4. a[t] = "stack"
      BY <3>1, <3>3 DEF Shifts, Taken
    <3>5. r[t] # None /\ txn[t].kind = "call" /\ t \in Active(txn, a)
      <4>1. o[t] \in Threads /\ r[t] = o[t]
        BY <3>2, <3>4 DEF Fits
      <4>2. txn[t] \in TxnType
        BY <1>0 DEF Types
      <4> QED BY <3>2, <3>4, <4>1, <4>2, Marks DEF Fits, TxnType, Active
    <3> QED BY <3>1, <3>4, <3>5 DEF Shifts, Movers
  <2>2. \A t \in Txns : a2[t] \in Taken /\ o2[t] = x => With(t, job'[x])
    OBVIOUS
  <2> QED BY <1>0, <2>1, <2>2, HeldStep
<1>3. ASSUME NEW t \in Txns PROVE Fits(a2, o2, r, t)'
  <2>1. CASE (a2[t] \in Taken /\ o2[t] = x) \/ Fits(a2, o2, r, t)'
    BY <2>1
  <2>2. CASE ~(a2[t] \in Taken /\ o2[t] = x) /\ txn'[t] = txn[t] /\ a2[t] = a[t] /\ o2[t] = o[t]
    <3>1. a[t] \in Taken => o[t] \in Tasks /\ job'[o[t]] = job[o[t]]
      BY <1>0, <2>2 DEF Held
    <3>2. txn'[t] = txn[t] /\ (\A g \in Threads : thr[g].dead => thr'[g].dead) /\ Fits(a, o, r, t)
          /\ a2[t] = a[t] /\ o2[t] = o[t] /\ r[t] = r[t]
      BY <1>0, <2>2
    <3> QED BY <1>0, <3>1, <3>2, FitsKept
  <2> QED BY <2>1, <2>2
<1>4. /\ Active(txn', a2) = Active(txn, a)
      /\ \A h \in Threads : On(h, txn', a2, r) = On(h, txn, a, r)
      /\ Chained(Active(txn, a2), txn, c, d)' /\ Ends(a2, o2, Active(txn, a2))' /\ Stacks(a2, r, c, d)'
  <2>1. SameWalks
    BY DEF SameWalks
  <2>2. \A t \in Txns : Calm(t, a, o, r, a2, o2, r)
    BY DEF Calm, Shifts
  <2>3. SameStacks
    OBVIOUS
  <2> HIDE DEF Core
  <2> QED BY ONLY <1>0, <2>1, <2>2, <2>3, Steady
<1>5. Flights(a2, o2, r, c)'
  <2>1. \A h \in Threads : On(h, txn', a2, r) = On(h, txn, a, r)
    BY <1>4
  <2>3. /\ \A t \in Txns : txn[t].to_thread \in Threads \cup {None}
        /\ \A y \in Threads : job[y].target \in Threads \cup {None}
    BY <1>0, Marks DEF Types, TxnType, JobType
  <2>4. ASSUME NEW y \in Threads, job'[y].pc \in {"built", "deliver"}
        PROVE  ~thr[y].dead /\ (y # x => job'[y] = job[y] /\ txn'[job[y].t] = txn[job[y].t])
    <3>1. CASE y = x
      BY <2>4, <3>1
    <3>2. CASE y # x
      <4>1. job'[y] = job[y] /\ ThreadJob(y) /\ Carries(job[y]) /\ Holds(a, o, y, job[y]) /\ job[y] \in JobType
        BY <1>0, <3>2, Marks DEF JobsOk, Held, Types
      <4>2. ~thr[y].dead
        BY <2>4, <4>1, Marks DEF ThreadJob, Carries
      <4>3. job[y].t # None /\ job[y].t \in Txns /\ a[job[y].t] \in Taken /\ o[job[y].t] = y
        BY <2>4, <4>1 DEF Carries, Holds, Taken, JobType, Parents
      <4> QED BY <3>2, <4>1, <4>2, <4>3 DEF Shifts
    <3> QED BY <3>1, <3>2
  <2>5. ASSUME NEW t \in Txns, txn'[t].kind = "call", a2[t] \in {"queue", "todo", "deliver"}, txn'[t].to_thread # None
        PROVE  Meets(txn[t].to_thread, t, a2, r, c)'
    <3>0. txn'[t] = txn[t] /\ a[t] \in {"queue", "todo", "deliver"}
      <4>1. CASE a2[t] = a[t] /\ o2[t] = o[t] /\ txn'[t] = txn[t]
        BY <2>5, <4>1
      <4>2. CASE Shifts(t, x, s, a, o, r, a2, o2)
        BY <2>5, <4>2 DEF Shifts, Active
      <4> QED BY <4>1, <4>2
    <3>1. Meets(txn[t].to_thread, t, a, r, c) /\ txn[t].to_thread \in Threads
      BY <1>0, <2>3, <2>5, <3>0 DEF Flights
    <3> DEFINE h == txn[t].to_thread
    <3>3. ~thr'[h].dead => On(h, txn', a2, r) # {} /\ \A z \in On(h, txn', a2, r) : c[z] = c[t]
      BY <2>1, <3>1 DEF Meets
    <3> QED BY <3>0, <3>3 DEF Meets
  <2>6. ASSUME NEW y \in Threads, job'[y].pc = "built", txn'[job'[y].t].kind = "call"
        PROVE  /\ thr'[y].stack # None => r[thr'[y].stack] = y
               /\ job'[y].target # None => thr'[y].stack # None /\ Meets(job[y].target, thr[y].stack, a2, r, c)'
    <3>1. ~thr[y].dead /\ thr'[y].stack = thr[y].stack /\ (y # x => job'[y] = job[y] /\ txn'[job[y].t] = txn[job[y].t])
      BY <2>4, <2>6
    <3>2. /\ thr[y].stack # None => r[thr[y].stack] = y
          /\ job'[y].target # None => thr[y].stack # None /\ Meets(job'[y].target, thr[y].stack, a, r, c)
      <4>1. CASE y = x
        BY <2>6, <4>1 DEF Starts
      <4>2. CASE y # x
        BY <1>0, <2>6, <3>1, <4>2 DEF Flights
      <4> QED BY <4>1, <4>2
    <3>3. job'[y].target # None => job'[y].target \in Threads
      BY Marks DEF Types, JobType
    <3>4. job'[y].target # None /\ ~thr'[job'[y].target].dead
            => On(job'[y].target, txn', a2, r) # {} /\ \A z \in On(job'[y].target, txn', a2, r) : c[z] = c[thr[y].stack]
      BY <2>1, <3>2, <3>3 DEF Meets
    <3> QED BY <3>1, <3>2, <3>4 DEF Meets
  <2>7. ASSUME NEW h \in Threads, ~thr'[h].dead, NEW t \in Txns, Fresh(t, h, a2, o2)'
        PROVE  \/ /\ ~thr[h].dead /\ Fresh(t, h, a, o) /\ thr'[h].stack = thr[h].stack /\ thr'[h].todo[1] = thr[h].todo[1]
                  /\ job'[h].pc \in {"built", "deliver"} /\ txn'[job'[h].t].kind = "call" =>
                       job[h].pc \in {"built", "deliver"} /\ txn[job[h].t].kind = "call"
               \/ /\ thr'[h].stack = None /\ thr'[h].todo[1] = t
                  /\ job'[h].pc \in {"built", "deliver"} => txn'[job'[h].t].kind # "call"
    <3>1. ~thr[h].dead /\ thr'[h].stack = thr[h].stack /\ FreshOk(t, h, x, a, o)
      BY <2>7
    <3> QED BY <2>4, <3>1 DEF FreshOk
  <2>8. ASSUME NEW h \in Threads, job'[h].pc = "deliver", txn'[job'[h].t].to_thread = None, txn'[job'[h].t].kind = "call"
        PROVE  thr'[h].stack = None
    <3>1. ~thr[h].dead /\ (h # x => job'[h] = job[h] /\ txn'[job[h].t] = txn[job[h].t])
      BY <2>4, <2>8
    <3>2. thr[h].stack = None
      <4>1. CASE h = x
        BY <2>8, <4>1 DEF Starts
      <4>2. CASE h # x
        BY <1>0, <2>8, <3>1, <4>2 DEF Flights
      <4> QED BY <4>1, <4>2
    <3> QED BY <3>1, <3>2
  <2> QED BY <1>0, <2>5, <2>6, <2>7, <2>8, FlightsStep
<1>6. GhostType(a2, o2, r, c, d)
  BY <1>0 DEF GhostType
<1> QED BY <1>1, <1>2, <1>3, <1>4, <1>5, <1>6 DEF Placed, Linked

-----------------------------------------------------------------------------
(* A transaction ends in error.                                            *)

\* The ghosts after a step.
LEMMA CoreStep ==
  ASSUME NEW a, NEW o, NEW r, NEW c, NEW d, Base', GhostType(a, o, r, c, d), Placed(a, o, r)',
         Linked(a, o, r, c, d)', Turns(a)'
  PROVE  TxnInv'
<1>1. Core(a, o, r, c, d)'
  BY DEF Core, GhostType, PlaceType
<1> QED BY <1>1 DEF TxnInv

\* A list that s neither leaves nor joins.
LEMMA GoesStay ==
  ASSUME NEW L, NEW K, NEW pl, NEW ow, NEW s, NEW a, NEW o, NEW a2, NEW o2, Stay(L, K),
         s \in Txns => (a[s] # pl \/ o[s] # ow) /\ (a2[s] # pl \/ o2[s] # ow)
  PROVE  Goes(L, K, pl, ow, s, a, o, a2, o2)
BY DEF Goes

\* A job that thread h can go on with from one that is not a release.
LEMMA ThreadGoesOn ==
  ASSUME NEW h \in Threads, ForThread(h, job[h]), Carries(job[h]), job[h].pc \in {"built", "rbuilt", "queue", "rsend", "reply0", "reply1", "deliver"}
  PROVE  /\ ForThread(h, Idle) /\ Carries(Idle) /\ Idle \in JobType
         /\ \A t \in Txns : LET j == [Idle EXCEPT !.pc = "fail1", !.t = t] IN ForThread(h, j) /\ Carries(j) /\ j \in JobType
         /\ ~thr[h].dead /\ ~thr[h].waiting /\ prc[ProcOf[h]].life = "open" /\ job[h].dying = None
<1>1. ~thr[h].dead /\ ~thr[h].waiting /\ prc[ProcOf[h]].life = "open" /\ job[h].dying = None
  BY Marks DEF ForThread, Carries
<1>2. ForThread(h, Idle) /\ Carries(Idle) /\ Idle \in JobType
  BY DEF ForThread, Carries, Idle, JobType, Parents
<1>3. ASSUME NEW t \in Txns, NEW j, j = [Idle EXCEPT !.pc = "fail1", !.t = t] PROVE ForThread(h, j) /\ Carries(j) /\ j \in JobType
  <2>1. /\ j.pc = "fail1" /\ j.t = t /\ j.re = None /\ j.target = None /\ j.proc = None /\ j.dying = None /\ j.next = "idle"
        /\ j \in JobType
    BY <1>3 DEF Idle, JobType, Parents
  <2> QED BY <1>1, <2>1, Marks DEF ForThread, Carries
<1> QED BY <1>1, <1>2, <1>3

\* Abandon() as far as threads and processes are concerned.
LEMMA AbandonBase ==
  ASSUME NEW a, NEW o, NEW r, NEW c, NEW d, Core(a, o, r, c, d), NEW h \in Threads,
         job[h].pc \in {"built", "rbuilt", "queue", "rsend"},
         NEW T, Soft(T), \A g \in Threads : g # h => T[g] = thr[g], ~T[h].waiting,
         NEW P, SoftProc(P), \A p \in Procs : /\ P[p].todo = prc[p].todo /\ P[p].async_todo = prc[p].async_todo
                                              /\ P[p].requested = prc[p].requested /\ P[p].started = prc[p].started,
         Abandon(h, P, T), calls' \in 0 .. MaxCalls, faults' \in 0 .. Faults
  PROVE  /\ Base' /\ LifeStep
         /\ \A g \in Threads : /\ thr'[g].dead = thr[g].dead /\ (~thr[g].dead => thr'[g].stack = T[g].stack)
                               /\ thr'[g].todo = IF g = h THEN Append(T[h].todo, "return_error") ELSE thr[g].todo
         /\ \A p \in Procs : SameWork(prc'[p], P[p])
         /\ txn' = [txn EXCEPT ![job[h].t] = NoTxn]
         /\ job' = [job EXCEPT ![h] = IF job[h].re = None THEN Idle ELSE [Idle EXCEPT !.pc = "fail1", !.t = job[h].re]]
<1> DEFINE u == job[h].target
           q == job[h].proc
           S == ReturnError(T, h)
           j == IF job[h].re = None THEN Idle ELSE [Idle EXCEPT !.pc = "fail1", !.t = job[h].re]
<1>0. /\ Base /\ Types /\ JobsOk /\ Counted /\ PoolBound /\ h \in Tasks /\ h # Worker
      /\ job[h] \in JobType /\ Carries(job[h]) /\ ForThread(h, job[h])
  BY CoreIs, TaskHolds, Marks
<1>1. /\ thr' = DecThread(S, u) /\ txn' = [txn EXCEPT ![job[h].t] = NoTxn] /\ job' = [job EXCEPT ![h] = j]
      /\ prc' = DecProc(DecThreadProc(P, thr', u), thr', q)
  BY DEF Abandon, Become
<1>2. /\ u \in Threads \cup {None} /\ q \in Procs /\ q # None /\ job[h].t \in Txns /\ job[h].re \in Parents
  BY <1>0, Marks DEF JobType, Carries, Parents
<1>3. /\ S \in [Threads -> ThreadType] /\ \A g \in Threads : g # h => S[g] = T[g]
      /\ SameLife(S[h], T[h]) /\ S[h].stack = T[h].stack /\ S[h].waiting = T[h].waiting
      /\ S[h].todo = Append(T[h].todo, "return_error") /\ S[h].process_todo
  <2>1. T \in [Threads -> ThreadType]
    BY DEF Soft
  <2> HIDE DEF S
  <2>2. S = ReturnError(T, h)
    BY DEF S
  <2> QED BY <2>1, <2>2, ReturnErrorIs
<1>4. Soft(S)
  <2> HIDE DEF S
  <2> QED BY <1>3 DEF Soft, SameLife
<1>5. /\ job[h].dying = None /\ ForThread(h, Idle) /\ Carries(Idle) /\ Idle \in JobType /\ ~thr[h].dead
      /\ \A t \in Txns : LET k == [Idle EXCEPT !.pc = "fail1", !.t = t] IN ForThread(h, k) /\ Carries(k) /\ k \in JobType
  BY <1>0, ThreadGoesOn
<1>6. ForThread(h, j) /\ Carries(j) /\ j \in JobType /\ j.target = None /\ j.dying = None /\ j.proc = None /\ j.pc \notin {"queue", "rsend"}
  BY <1>2, <1>5 DEF Idle, Parents
<1>7. Gives(h, j, u, q) /\ Owns(h, u, q)
  <2> HIDE DEF j
  <2> QED BY <1>5, <1>6 DEF Gives, Owns
<1> HIDE DEF j, S
<1>8. prc' = Dropped(P, thr', u, q)
  BY <1>1, <1>2 DEF Dropped
<1>9. /\ thr' \in [Threads -> ThreadType]
      /\ \A g \in Threads : /\ thr'[g].dead = thr[g].dead /\ thr'[g].todo = S[g].todo
                            /\ ~thr[g].dead => SameRun(thr'[g], S[g])
                            /\ thr'[g].waiting => SameRun(thr'[g], S[g])
      /\ prc' \in [Procs -> ProcType] /\ \A p \in Procs : SameWork(prc'[p], P[p])
  <2>1. q \in Procs \cup {None}
    BY <1>2
  <2> HIDE DEF u, q
  <2> QED BY ONLY <1>0, <1>1, <1>2, <1>4, <1>7, <1>8, <2>1, SoftProc(P), DropIs
<1>10. Types'
  <2>1. txn' \in [Txns -> TxnType] /\ job' \in [Tasks -> JobType]
    BY <1>0, <1>1, <1>2, <1>6 DEF Types, TxnType, NoTxn, Parents
  <2> QED BY <1>9, <2>1 DEF Types
<1>11. Follows(S)
  BY <1>9 DEF Follows, SameRun
<1>12. RunsIn(S, h, j)
  BY <1>3, <1>5, <1>6 DEF RunsIn, GrowsIn
<1>13. ProcsStep
  BY <1>0, <1>9 DEF ProcsStep, SameWork, PoolBound
<1>14. Agree(thr', prc')
  BY DEF Agree
<1>15. Base' /\ LifeStep
  <2>1. q \in Procs \cup {None} /\ (h = Worker => ForWorker(j) /\ j.proc = job[h].proc)
    BY <1>0, <1>2
  <2> HIDE DEF u, q
  <2> QED BY ONLY <1>0, <1>1, <1>2, <1>4, <1>6, <1>7, <1>8, <1>10, <1>11, <1>12, <1>13, <1>14, <2>1, SoftProc(P), DropStep
<1>16. ASSUME NEW g \in Threads
       PROVE  /\ thr'[g].dead = thr[g].dead /\ (~thr[g].dead => thr'[g].stack = T[g].stack)
              /\ thr'[g].todo = IF g = h THEN Append(T[h].todo, "return_error") ELSE thr[g].todo
  <2>1. thr'[g].dead = thr[g].dead /\ thr'[g].todo = S[g].todo /\ (~thr[g].dead => thr'[g].stack = S[g].stack)
    BY <1>9 DEF SameRun
  <2>2. S[g].stack = T[g].stack /\ (g # h => S[g] = thr[g])
    BY <1>3
  <2>3. g = h => S[g].todo = Append(T[h].todo, "return_error")
    BY <1>3
  <2> QED BY <2>1, <2>2, <2>3
<1> QED BY <1>1, <1>9, <1>15, <1>16 DEF j

\* Words come and go on a list, but the transactions stay, and the one that is first.
Kept(L, K) == Stay(L, K) /\ (Len(L) > 0 /\ L[1] \in Txns => Len(K) > 0 /\ K[1] = L[1])

\* The transactions on the lists stay where they are.
ListsStay ==
  /\ \A g \in Threads : Kept(thr[g].todo, thr'[g].todo)
  /\ \A p \in Procs : prc'[p].todo = prc[p].todo /\ prc'[p].async_todo = prc[p].async_todo
\* What x starts, a call or a delivery, it may start.
MayStart(x, a, o, r, c) ==
  /\ Starts(x, a, r, c)
  /\ job'[x].pc \in {"built", "deliver"} =>
       ~thr[x].dead /\ (txn'[job'[x].t].kind = "call" => \A t \in Txns : ~Fresh(t, x, a, o))

\* A step of task x that changes only what x has in its hands.
LEMMA HandStep ==
  ASSUME NEW a, NEW o, NEW r, NEW c, NEW d, Core(a, o, r, c, d), NEW a2, NEW o2, PlaceType(a2, o2, r),
         NEW x \in Tasks, \A y \in Tasks : y # x => job'[y] = job[y], Types',
         \A t \in Txns : Moves(t, x, None, a, o, r, a2, o2),
         job'[x].pc = "walk" \/ job[x].pc = "walk" => job'[x] = job[x],
         HasNow(x, a2, o2, r), SameStacks, ListsStay, x \in Threads => MayStart(x, a, o, r, c)
  PROVE  GhostType(a2, o2, r, c, d) /\ Placed(a2, o2, r)' /\ Linked(a2, o2, r, c, d)'
<1>0. Types /\ Listed(a, o) /\ Flights(a, o, r, c)
  BY CoreIs
<1>1. ListsGo(None, a, o, a2, o2)
  <2>1. None \notin Txns
    BY Marks
  <2>2. ASSUME NEW L, NEW K, Stay(L, K), NEW pl, NEW ow PROVE Goes(L, K, pl, ow, None, a, o, a2, o2)
    BY <2>1, <2>2, GoesStay
  <2>3. \A g \in Threads : Goes(thr[g].todo, thr'[g].todo, "todo", g, None, a, o, a2, o2)
    BY <2>2 DEF ListsStay, Kept
  <2>4. \A p \in Procs : Stay(prc[p].todo, prc'[p].todo) /\ Stay(prc[p].async_todo, prc'[p].async_todo)
    BY DEF ListsStay, Stay
  <2> QED BY <2>2, <2>3, <2>4 DEF ListsGo
<1>2. FreshStep(x, a, o, a2, o2)
  <2>1. SUFFICES ASSUME NEW h \in Threads, ~thr[h].dead, NEW t \in Txns, Fresh(t, h, a2, o2)'
                 PROVE  FreshOk(t, h, x, a, o)
    BY DEF FreshStep
  <2>2. a2[t] = "todo" /\ o2[t] = h /\ txn'[t].kind = "call" /\ txn'[t].to_thread = None
    BY <2>1 DEF Fresh
  <2>3. txn'[t] = txn[t] /\ a2[t] = a[t] /\ o2[t] = o[t]
    BY <2>2, Marks DEF Moves, Shifts
  <2>4. Fresh(t, h, a, o)
    BY <2>2, <2>3 DEF Fresh
  <2>5. thr[h].todo[1] = t /\ t \in In(thr[h].todo) /\ thr[h].todo \in Seq(Txns \cup Words)
    BY <1>0, <2>1, <2>4, ListedIs DEF Flights, Fresh, ListIs
  <2>6. Len(thr[h].todo) > 0
    BY <2>5, InLen
  <2>7. thr'[h].todo[1] = thr[h].todo[1]
    BY <2>5, <2>6 DEF ListsStay, Kept
  <2>8. h = x => job'[x].pc \notin {"built", "deliver"} \/ txn'[job'[x].t].kind # "call"
    BY <2>4 DEF MayStart
  <2> QED BY <2>4, <2>7, <2>8 DEF FreshOk
<1>3. x \in Threads => Starts(x, a, r, c) /\ (job'[x].pc \in {"built", "deliver"} => ~thr[x].dead)
  BY DEF MayStart
<1> QED BY <1>1, <1>2, <1>3, MoveStep

\* Nothing starts.
LEMMA StartsNone ==
  ASSUME NEW a, NEW o, NEW r, NEW c, NEW x, job'[x].pc \notin {"built", "deliver"}
  PROVE  MayStart(x, a, o, r, c)
BY DEF MayStart, Starts

\* A transaction that is freed.
LEMMA FitsNone ==
  ASSUME NEW a, NEW o, NEW r, NEW t, txn'[t] = NoTxn, a[t] = "none", r[t] = None
  PROVE  Fits(a, o, r, t)'
BY DEF Fits, NoTxn

\* A list that gets a word at its end after words went.
LEMMA KeptAppend ==
  ASSUME NEW L, NEW K \in Seq(Txns \cup Words), Kept(L, K), NEW w \in Words, NEW M, M = Append(K, w)
  PROVE  Kept(L, M)
<1>1. Stay(K, M)
  BY StayWords
<1>2. Len(K) > 0 => M[1] = K[1]
  BY HeadKept
<1>3. Len(M) = Len(K) + 1 /\ Len(K) \in Nat
  BY AppendIn
<1> QED BY <1>1, <1>2, <1>3 DEF Stay, Kept

\* The list as it is.
LEMMA KeptSame ==
  ASSUME NEW L
  PROVE  Kept(L, L)
BY DEF Kept, Stay

Put(f, t, v) == [f EXCEPT ![t] = v]
Frees(t) == txn' = [txn EXCEPT ![t] = NoTxn]
\* Task x no longer has transaction t, which is freed; re, if there is one, is still to be answered.
LEMMA FreedStep ==
  ASSUME NEW a, NEW o, NEW r, NEW c, NEW d, Core(a, o, r, c, d), NEW x \in Tasks, NEW t \in Txns,
         NEW re \in Parents, NEW j \in JobType, Become(x, j), Types', Frees(t),
         a[t] \in {"built", "queue", "deliver", "done"}, o[t] = x, a[t] \in {"queue", "deliver"} => txn[t].kind # "call", r[t] = None,
         \A w \in Txns : With(w, job[x]) => w \in {t, re},
         re # None => a[re] = "job" /\ o[re] = x /\ j.pc = "fail1",
         j.t = re, j.re = None, j.pc \notin {"walk", "built", "deliver"}, job[x].pc # "walk", j.dying = job[x].dying,
         x = Worker => j.proc = job[x].proc,
         SameStacks, ListsStay,
         NEW a2, a2 = Put(a, t, "none"), NEW o2, o2 = Put(o, t, None)
  PROVE  /\ GhostType(a2, o2, r, c, d) /\ Placed(a2, o2, r)' /\ Linked(a2, o2, r, c, d)'
         /\ \A p \in Procs : txn[t].kind # "async" \/ a[t] # "deliver" => Turn(p, a2)' = Turn(p, a)
<1> USE DEF Frees, Become, Put
<1>0. /\ Types /\ PlaceType(a, o, r) /\ Held(a, o) /\ Fits(a, o, r, t) /\ txn[t] \in TxnType
      /\ (re # None => re \in Txns /\ Fits(a, o, r, re)) /\ None \notin Txns
  <2>1. Types /\ PlaceType(a, o, r) /\ Held(a, o) /\ \A w \in Txns : Fits(a, o, r, w)
    BY CoreIs
  <2> QED BY <2>1, Marks DEF Types, Parents
<1>1. PlaceType(a2, o2, r) /\ a2[t] = "none" /\ (\A w \in Txns : w # t => a2[w] = a[w] /\ o2[w] = o[w])
  BY <1>0 DEF PlaceType, Places, Owners
<1>2. job'[x] = j /\ (\A y \in Tasks : y # x => job'[y] = job[y]) /\ txn'[t] = NoTxn /\ (\A w \in Txns : w # t => txn'[w] = txn[w])
  BY <1>0 DEF Types
<1>3. \A w \in Txns : Moves(w, x, None, a, o, r, a2, o2)
  <2>1. ASSUME NEW w \in Txns, w # t PROVE Moves(w, x, None, a, o, r, a2, o2)
    BY <1>1, <1>2, <2>1 DEF Moves
  <2>2. Fits(a2, o2, r, t)'
    BY <1>1, <1>2, FitsNone
  <2>3. Shifts(t, x, None, a, o, r, a2, o2)
    <3>1. a[t] \in Taken => o[t] = x
      OBVIOUS
    <3>2. a2[t] \notin Taken /\ {a2[t], a[t]} \cap {"todo", "ptodo", "async"} = {}
      BY <1>1 DEF Taken
    <3>3. t \notin Active(txn, a) /\ t \notin Active(txn', a2)
      BY <1>1, <1>2 DEF Active, NoTxn
    <3>4. txn[t].from = None \/ a[t] = "built"
      BY <1>0 DEF Fits, TxnType
    <3>5. txn'[t].from = None /\ txn'[t].kind # "call"
      BY <1>2 DEF NoTxn
    <3> QED BY <3>1, <3>2, <3>3, <3>4, <3>5 DEF Shifts
  <2>4. Moves(t, x, None, a, o, r, a2, o2)
    BY <2>2, <2>3 DEF Moves
  <2> QED BY <2>1, <2>4
<1>4. HasNow(x, a2, o2, r)
  <2>1. re # None => re # t /\ a2[re] = "job" /\ o2[re] = x
    BY <1>0, <1>1
  <2>2. Holds(a2, o2, x, job'[x])
    BY <1>2, <2>1 DEF Holds
  <2>3. ASSUME NEW w \in Txns, a2[w] \in Taken, o2[w] = x PROVE With(w, job'[x]) /\ Fits(a2, o2, r, w)'
    <3>1. w # t /\ a[w] \in Taken /\ o[w] = x
      BY <1>1, <2>3 DEF Taken
    <3>2. With(w, job[x])
      BY <1>0, <3>1 DEF Held
    <3>3. w = re /\ re # None
      BY <1>0, <3>1, <3>2
    <3>4. With(w, job'[x])
      BY <1>2, <3>3 DEF With
    <3>5. Fits(a2, o2, r, re)'
      <4>1. /\ Fits(a, o, r, re) /\ txn'[re] = txn[re] /\ a[re] = "job" /\ a2[re] = "job" /\ o[re] = x /\ o2[re] = x /\ re \in Txns
        BY <1>0, <1>2, <2>1, <3>3
      <4>2. /\ job'[x].dying = job[x].dying /\ (x = Worker => job'[x].proc = job[x].proc) /\ job'[x].pc = "fail1"
        BY <1>2, <3>3
      <4>3. \A g \in Threads : thr[g].dead => thr'[g].dead
        BY DEF SameStacks
      <4>4. /\ a[re] \in {"job", "done"} /\ a2[re] \in {"job", "done"} /\ (a2[re] = "done" => txn[re].from = None)
            /\ a2[re] = "job" =>
                 /\ txn[re].from # None /\ job'[x].pc \in {"reply1", "rbuilt", "rsend", "fail2"} => txn[re].from = job'[x].target
                 /\ txn[re].from = None /\ job'[x].pc \in {"reply1", "rbuilt", "rsend"} => thr'[job'[x].target].dead
        BY <4>1, <4>2
      <4> QED BY ONLY <1>0, <4>1, <4>2, <4>3, <4>4, x \in Tasks, FitsJob
    <3> QED BY <3>3, <3>4, <3>5
  <2> QED BY <2>2, <2>3 DEF HasNow
<1>5. job'[x].pc \notin {"walk", "built", "deliver"}
  BY <1>2
<1>6. x \in Threads => MayStart(x, a, o, r, c)
  BY <1>5, StartsNone
<1>7. GhostType(a2, o2, r, c, d) /\ Placed(a2, o2, r)' /\ Linked(a2, o2, r, c, d)'
  <2>1. job'[x].pc = "walk" \/ job[x].pc = "walk" => job'[x] = job[x]
    BY <1>5
  <2> QED BY ONLY <1>1, <1>2, <1>3, <1>4, <1>6, <2>1, Core(a, o, r, c, d), x \in Tasks, Types', SameStacks, ListsStay, HandStep
<1>8. ASSUME NEW p \in Procs, txn[t].kind # "async" \/ a[t] # "deliver" PROVE Turn(p, a2)' = Turn(p, a)
  <2>1. t \notin Turn(p, a) /\ t \notin Turn(p, a2)'
    BY <1>2, <1>8 DEF Turn, NoTxn
  <2>2. \A w \in Txns : w # t => (w \in Turn(p, a2)' <=> w \in Turn(p, a))
    BY <1>1, <1>2 DEF Turn
  <2> QED BY <2>1, <2>2 DEF Turn
<1> QED BY <1>7, <1>8

\* Abandon() of a transaction that is no call on a stack.
LEMMA AbandonStep ==
  ASSUME NEW a, NEW o, NEW r, NEW c, NEW d, Core(a, o, r, c, d), NEW h \in Threads,
         job[h].pc \in {"built", "rbuilt", "queue", "rsend"}, job[h].pc = "queue" => txn[job[h].t].kind # "call",
         NEW T, Soft(T), \A g \in Threads : g # h => T[g] = thr[g], ~T[h].waiting,
         T[h].stack = thr[h].stack, Kept(thr[h].todo, T[h].todo),
         NEW P, SoftProc(P), \A p \in Procs : /\ P[p].todo = prc[p].todo /\ P[p].async_todo = prc[p].async_todo
                                              /\ P[p].requested = prc[p].requested /\ P[p].started = prc[p].started,
         \A p \in Procs : prc[p].life = "open" => SameWork(P[p], prc[p]),
         Abandon(h, P, T), calls' \in 0 .. MaxCalls, faults' \in 0 .. Faults
  PROVE  TxnInv'
<1>p. PICK t, re : t = job[h].t /\ re = job[h].re
  OBVIOUS
<1>j. PICK j : j = IF re = None THEN Idle ELSE [Idle EXCEPT !.pc = "fail1", !.t = re]
  OBVIOUS
<1>g. PICK a2, o2 : a2 = Put(a, t, "none") /\ o2 = Put(o, t, None)
  OBVIOUS
<1>0. /\ Base /\ Types /\ PlaceType(a, o, r) /\ Turns(a) /\ h \in Tasks /\ h # Worker /\ (\A w \in Txns : Fits(a, o, r, w))
      /\ job[h] \in JobType /\ Carries(job[h]) /\ ForThread(h, job[h]) /\ Holds(a, o, h, job[h])
  BY CoreIs, TaskHolds, Marks
<1>1. /\ Base' /\ LifeStep
      /\ \A g \in Threads : /\ thr'[g].dead = thr[g].dead /\ (~thr[g].dead => thr'[g].stack = T[g].stack)
                            /\ thr'[g].todo = IF g = h THEN Append(T[h].todo, "return_error") ELSE thr[g].todo
      /\ \A p \in Procs : SameWork(prc'[p], P[p])
      /\ Frees(t) /\ Become(h, j)
  BY <1>p, <1>j, AbandonBase DEF Frees, Become
<1>2. /\ t \in Txns /\ re \in Parents /\ a[t] \in {"built", "queue"} /\ o[t] = h
      /\ (a[t] = "queue" => txn[t].kind # "call") /\ r[t] = None
      /\ (re # None => a[re] = "job" /\ o[re] = h)
  <2>1. t \in Txns /\ re \in Parents /\ t # None
    BY <1>0, <1>p DEF JobType, Carries, Parents
  <2>2. a[t] \in {"built", "queue"} /\ o[t] = h /\ (a[t] = "queue" => txn[t].kind # "call") /\ (re # None => a[re] = "job" /\ o[re] = h)
    BY <1>0, <1>p, <2>1 DEF Holds
  <2>3. r[t] = None
    BY <1>0, <2>1, <2>2 DEF Fits
  <2> QED BY <2>1, <2>2, <2>3
<1>3. \A w \in Txns : With(w, job[h]) => w \in {t, re}
  BY <1>p DEF With
<1>4. /\ job[h].dying = None /\ Idle \in JobType
      /\ \A w \in Txns : [Idle EXCEPT !.pc = "fail1", !.t = w] \in JobType
  BY <1>0, ThreadGoesOn
<1>5. /\ j \in JobType /\ j.t = re /\ j.re = None /\ j.pc \notin {"walk", "built", "deliver"} /\ job[h].pc # "walk" /\ j.dying = job[h].dying
      /\ (re # None => j.pc = "fail1")
  BY <1>j, <1>2, <1>4 DEF Idle, Parents
<1>6. ListsStay
  <2>1. T[h].todo \in Seq(Txns \cup Words) /\ "return_error" \in Words
    BY <1>0 DEF Soft, ThreadType, Words
  <2>2. Kept(thr[h].todo, thr'[h].todo)
    <3>1. thr'[h].todo = Append(T[h].todo, "return_error")
      BY <1>1
    <3> QED BY <2>1, <3>1, KeptAppend
  <2>3. \A g \in Threads : g # h => thr'[g].todo = thr[g].todo
    BY <1>1
  <2>4. \A g \in Threads : g # h => Kept(thr[g].todo, thr'[g].todo)
    BY <2>3, KeptSame
  <2>5. \A p \in Procs : prc'[p].todo = prc[p].todo /\ prc'[p].async_todo = prc[p].async_todo
    BY <1>1 DEF SameWork
  <2> QED BY <2>2, <2>4, <2>5 DEF ListsStay
<1>7. SameStacks /\ Types'
  BY <1>1 DEF SameStacks, Base
<1>8. /\ GhostType(a2, o2, r, c, d) /\ Placed(a2, o2, r)' /\ Linked(a2, o2, r, c, d)'
      /\ \A p \in Procs : txn[t].kind # "async" \/ a[t] # "deliver" => Turn(p, a2)' = Turn(p, a)
  <2>2. /\ a[t] \in {"built", "queue", "deliver", "done"} /\ (a[t] \in {"queue", "deliver"} => txn[t].kind # "call")
        /\ re # None => a[re] = "job" /\ o[re] = h /\ j.pc = "fail1"
    BY <1>2, <1>5
  <2>3. h = Worker => j.proc = job[h].proc
    BY <1>0
  <2> QED BY ONLY <1>0, <1>1, <1>2, <1>3, <1>5, <1>6, <1>7, <1>g, <2>2, <2>3, Core(a, o, r, c, d), FreedStep
<1>9. Turns(a2)'
  <2>1. \A p \in Procs : Turn(p, a2)' = Turn(p, a)
    BY <1>2, <1>8
  <2>2. \A p \in Procs : prc'[p].life = "open" => prc[p].life = "open"
    BY <1>1 DEF LifeStep
  <2>3. ASSUME NEW p \in Procs, prc'[p].life = "open"
        PROVE  /\ prc[p].life = "open" /\ Turn(p, a2)' = Turn(p, a) /\ prc'[p].buffers = prc[p].buffers
               /\ prc'[p].stuck = prc[p].stuck /\ prc'[p].has_async = prc[p].has_async
               /\ Len(prc'[p].async_todo) > 0 => Len(prc[p].async_todo) > 0
    <3>1. SameWork(prc'[p], P[p]) /\ SameWork(P[p], prc[p]) /\ prc[p].life = "open"
      BY <1>1, <2>2, <2>3
    <3> QED BY <2>1, <3>1 DEF SameWork
  <2> QED BY <1>0, <2>3, TurnsSame
<1> QED BY <1>1, <1>8, <1>9, CoreStep

\* An allocation, a copy or a translation fails.
LEMMA CallFailsStep ==
  ASSUME TxnInv, NEW h \in Threads, CallFails(h)
  PROVE  TxnInv'
<1>0. PICK a, o, r, c, d : Core(a, o, r, c, d)
  BY DEF TxnInv
<1>1. Types /\ ForThread(h, job[h]) /\ Carries(job[h])
  BY <1>0, CoreIs, TaskHolds, Marks
<1>2. job[h].pc \in {"built", "rbuilt"} /\ faults < Faults /\ faults' = faults + 1 /\ calls' = calls /\ Abandon(h, prc, thr)
  BY DEF CallFails, Fault
<1>3. ~thr[h].waiting /\ job[h].pc \in {"built", "rbuilt", "queue", "rsend"} /\ (job[h].pc = "queue" => txn[job[h].t].kind # "call")
  BY <1>1, <1>2 DEF ForThread
<1>4. Soft(thr) /\ SoftProc(prc) /\ Kept(thr[h].todo, thr[h].todo)
  BY <1>1 DEF Types, Soft, SoftProc, Kept, Stay
<1>5. calls' \in 0 .. MaxCalls /\ faults' \in 0 .. Faults
  BY <1>1, <1>2, Marks DEF Types
<1>6. \A p \in Procs : SameWork(prc[p], prc[p])
  BY DEF SameWork
<1> QED BY <1>0, <1>2, <1>3, <1>4, <1>5, <1>6, AbandonStep

\* binder_dequeue_work() of the task's TRANSACTION_COMPLETE.
LEMMA TakenBack ==
  ASSUME Types, Completes, NEW h \in Threads, job[h].pc \in {"queue", "rsend"}, NEW S, Soft(S),
         \A g \in Threads : g # h => S[g] = thr[g], S[h].todo = thr[h].todo, S[h].waiting = thr[h].waiting
  PROVE  /\ Soft(TakeBack(S, h)) /\ \A g \in Threads : g # h => TakeBack(S, h)[g] = thr[g]
         /\ TakeBack(S, h)[h].waiting = thr[h].waiting /\ TakeBack(S, h)[h].stack = S[h].stack
         /\ Kept(thr[h].todo, TakeBack(S, h)[h].todo)
<1>1. S \in [Threads -> ThreadType] /\ \E i \in DOMAIN S[h].todo : S[h].todo[i] = "complete"
  BY DEF Soft, Completes
<1>2. PICK s \in Seq(Txns \cup Words) :
           /\ TakeBack(S, h) = [S EXCEPT ![h].todo = s]
           /\ In(s) = In(S[h].todo) /\ (Once(S[h].todo) => Once(s))
           /\ S[h].todo[1] \in Txns => Len(s) > 0 /\ s[1] = S[h].todo[1]
  BY <1>1, TakeBackIs
<1>3. PICK E : E = TakeBack(S, h)
  OBVIOUS
<1>4. E = SetTodo(S, h, s)
  BY <1>2, <1>3 DEF SetTodo
<1>5. /\ E \in [Threads -> ThreadType] /\ \A g \in Threads : g # h => E[g] = S[g]
      /\ SameLife(E[h], S[h]) /\ SameFlags(E[h], S[h]) /\ E[h].stack = S[h].stack
      /\ E[h].process_todo = S[h].process_todo /\ E[h].todo = s
  BY <1>1, <1>4, FieldIs
<1>6. Soft(E)
  BY <1>5 DEF Soft, SameLife
<1> QED BY <1>2, <1>3, <1>5, <1>6 DEF SameFlags, Kept, Stay

\* The caller died before the reply was sent.
LEMMA ReplyDeadStep ==
  ASSUME TxnInv, NEW h \in Threads, ReplyDead(h)
  PROVE  TxnInv'
<1>0. PICK a, o, r, c, d : Core(a, o, r, c, d)
  BY DEF TxnInv
<1>1. Types /\ ForThread(h, job[h]) /\ Carries(job[h]) /\ Completes
  BY <1>0, CoreIs, TaskHolds, Marks
<1>2. job[h].pc = "rsend" /\ faults' = faults /\ calls' = calls /\ Abandon(h, prc, TakeBack(thr, h))
  BY DEF ReplyDead
<1>3. ~thr[h].waiting /\ job[h].pc \in {"built", "rbuilt", "queue", "rsend"} /\ (job[h].pc = "queue" => txn[job[h].t].kind # "call")
      /\ job[h].pc \in {"queue", "rsend"}
  BY <1>1, <1>2 DEF ForThread
<1>4. Soft(thr) /\ SoftProc(prc)
  BY <1>1 DEF Types, Soft, SoftProc
<1>5. calls' \in 0 .. MaxCalls /\ faults' \in 0 .. Faults
  BY <1>1, <1>2, Marks DEF Types
<1>6. \A p \in Procs : SameWork(prc[p], prc[p])
  BY DEF SameWork
<1>7. PICK T : T = TakeBack(thr, h)
  OBVIOUS
<1>8. /\ Soft(T) /\ \A g \in Threads : g # h => T[g] = thr[g]
      /\ T[h].waiting = thr[h].waiting /\ T[h].stack = thr[h].stack
      /\ Kept(thr[h].todo, T[h].todo)
  BY <1>1, <1>3, <1>4, <1>7, TakenBack
<1>9. ~T[h].waiting /\ Abandon(h, prc, T)
  BY <1>2, <1>3, <1>7, <1>8
<1> QED BY <1>0, <1>3, <1>4, <1>5, <1>6, <1>8, <1>9, AbandonStep

\* The target died before a one-way transaction was queued.
LEMMA QueueDeadAsync ==
  ASSUME TxnInv, NEW h \in Threads, QueueDead(h), txn[job[h].t].kind # "call"
  PROVE  TxnInv'
<1>0. PICK a, o, r, c, d : Core(a, o, r, c, d)
  BY DEF TxnInv
<1>1. Types /\ ForThread(h, job[h]) /\ Carries(job[h]) /\ Completes /\ job[h] \in JobType
      /\ Holds(a, o, h, job[h]) /\ \A t \in Txns : Fits(a, o, r, t)
  BY <1>0, CoreIs, TaskHolds, Marks
<1> DEFINE p == job[h].proc
           P == [prc EXCEPT ![p].has_async = TRUE]
<1>2. job[h].pc = "queue" /\ faults' = faults /\ calls' = calls /\ TargetDead(h)
  BY DEF QueueDead
<1>3. ~thr[h].waiting /\ job[h].pc \in {"built", "rbuilt", "queue", "rsend"} /\ (job[h].pc = "queue" => txn[job[h].t].kind # "call")
      /\ job[h].pc \in {"queue", "rsend"} /\ p \in Procs
  BY <1>1, <1>2 DEF ForThread, Carries, JobType
<1>4. Abandon(h, P, TakeBack(thr, h))
  <2>1. Abandon(h, [prc EXCEPT ![p].has_async = @ \/ TRUE], TakeBack(thr, h))
    BY DEF QueueDead
  <2>2. [prc EXCEPT ![p].has_async = @ \/ TRUE] = P
    OBVIOUS
  <2> QED BY <2>1, <2>2
<1>5. calls' \in 0 .. MaxCalls /\ faults' \in 0 .. Faults
  BY <1>1, <1>2, Marks DEF Types
<1>6. prc[p].life # "open"
  <2>1. job[h].t \in Txns /\ a[job[h].t] = "queue" /\ o[job[h].t] = h
    BY <1>1, <1>2 DEF Carries, Holds, JobType, Parents
  <2>2. txn[job[h].t].kind = "async" /\ job[h].target = None
    BY <1>1, <2>1 DEF Fits, Types, TxnType
  <2> QED BY <1>2, <2>2 DEF TargetDead
<1>7. /\ SoftProc(P) /\ \A k \in Procs : /\ P[k].todo = prc[k].todo /\ P[k].async_todo = prc[k].async_todo
                                         /\ P[k].requested = prc[k].requested /\ P[k].started = prc[k].started
                                         /\ k # p => P[k] = prc[k]
  <2>1. prc \in [Procs -> ProcType]
    BY <1>1 DEF Types
  <2>2. P \in [Procs -> ProcType]
    BY <1>3, <2>1 DEF ProcType
  <2>3. ASSUME NEW k \in Procs PROVE /\ P[k].todo = prc[k].todo /\ P[k].async_todo = prc[k].async_todo
                                         /\ P[k].requested = prc[k].requested /\ P[k].started = prc[k].started
                                         /\ (k # p => P[k] = prc[k]) /\ P[k].life = prc[k].life /\ P[k].tmp = prc[k].tmp
    BY <1>3, <2>1 DEF ProcType
  <2> HIDE DEF P
  <2> QED BY <2>2, <2>3 DEF SoftProc
<1>8. \A k \in Procs : prc[k].life = "open" => SameWork(P[k], prc[k])
  BY <1>6, <1>7 DEF SameWork
<1>9. PICK T : T = TakeBack(thr, h)
  OBVIOUS
<1>10. /\ Soft(T) /\ \A g \in Threads : g # h => T[g] = thr[g]
       /\ T[h].waiting = thr[h].waiting /\ T[h].stack = thr[h].stack
       /\ Kept(thr[h].todo, T[h].todo)
  <2>1. Soft(thr)
    BY <1>1 DEF Types, Soft
  <2> QED BY <1>1, <1>3, <1>9, <2>1, TakenBack
<1>11. ~T[h].waiting /\ Abandon(h, P, T)
  BY <1>3, <1>4, <1>9, <1>10
<1> HIDE DEF P
<1> QED BY <1>0, <1>3, <1>5, <1>7, <1>8, <1>10, <1>11, AbandonStep

-----------------------------------------------------------------------------
(* Steps that put down a reference and leave the transactions where they are. *)

\* Task x puts down its reference of thread u and goes on as j.
LEMMA DropQuiet ==
  ASSUME NEW a, NEW o, NEW r, NEW c, NEW d, Core(a, o, r, c, d), NEW x \in Tasks, NEW j \in JobType, Become(x, j), Carries(j),
         x \in Threads => ForThread(x, j), x = Worker => ForWorker(j) /\ j.proc = job[x].proc,
         NEW u \in Threads \cup {None}, Gives(x, j, u, None), NEW S, Soft(S), RunsIn(S, x, j),
         \A g \in Threads : Kept(thr[g].todo, S[g].todo) /\ (~thr[g].dead => S[g].stack = thr[g].stack),
         thr' = DecThread(S, u), prc' = DecThreadProc(prc, thr', u), txn' = txn, calls' = calls, faults' = faults,
         j.pc \notin {"queue", "rsend", "walk", "built", "deliver"}, job[x].pc # "walk", Holds(a, o, x, j),
         \A w \in Txns : With(w, job[x]) => With(w, j) /\ a[w] = "job" /\ o[w] = x /\ j.pc = "fail1" /\ j.dying = job[x].dying
  PROVE  TxnInv'
<1>0. /\ Base /\ Types /\ JobsOk /\ Counted /\ PoolBound /\ PlaceType(a, o, r) /\ Turns(a) /\ Held(a, o)
      /\ \A w \in Txns : Fits(a, o, r, w)
  BY CoreIs
<1>1. SoftProc(prc) /\ Owns(x, u, None) /\ None \in Procs \cup {None}
  BY <1>0 DEF SoftProc, Types, Owns, Gives
<1>2. prc' = Dropped(prc, thr', u, None)
  BY DEF Dropped
<1>3. /\ thr' \in [Threads -> ThreadType]
      /\ \A g \in Threads : /\ thr'[g].dead = thr[g].dead /\ thr'[g].todo = S[g].todo
                            /\ ~thr[g].dead => SameRun(thr'[g], S[g])
                            /\ thr'[g].waiting => SameRun(thr'[g], S[g])
      /\ prc' \in [Procs -> ProcType] /\ \A p \in Procs : SameWork(prc'[p], prc[p])
  BY ONLY <1>0, <1>1, <1>2, thr' = DecThread(S, u), u \in Threads \cup {None}, x \in Tasks, Soft(S), DropIs
<1>4. Types' /\ job' = [job EXCEPT ![x] = j] /\ job'[x] = j /\ \A y \in Tasks : y # x => job'[y] = job[y]
  BY <1>0, <1>3 DEF Types, Become
<1>5. Follows(S) /\ Agree(thr', prc')
  BY <1>3 DEF Follows, SameRun, Agree
<1>6. ProcsStep
  BY <1>0, <1>3 DEF ProcsStep, SameWork, PoolBound
<1>7. Base' /\ LifeStep
  <2>1. j.pc \notin {"queue", "rsend"}
    OBVIOUS
  <2> QED BY ONLY <1>0, <1>1, <1>2, <1>4, <1>5, <1>6, <2>1, thr' = DecThread(S, u), u \in Threads \cup {None}, x \in Tasks, Soft(S),
             RunsIn(S, x, j), Gives(x, j, u, None), j \in JobType, Carries(j), x \in Threads => ForThread(x, j),
             x = Worker => ForWorker(j) /\ j.proc = job[x].proc, DropStep
<1>8. SameStacks /\ ListsStay
  BY <1>3 DEF SameStacks, ListsStay, SameRun, SameWork
<1>9. \A w \in Txns : Moves(w, x, None, a, o, r, a, o)
  BY DEF Moves
<1>10. HasNow(x, a, o, r)
  <2>1. ASSUME NEW w \in Txns, a[w] \in Taken, o[w] = x PROVE With(w, job'[x]) /\ Fits(a, o, r, w)'
    <3>1. With(w, job[x])
      BY <1>0, <2>1 DEF Held
    <3>2. With(w, j) /\ a[w] = "job" /\ o[w] = x /\ j.pc = "fail1" /\ j.dying = job[x].dying
      BY <3>1
    <3>3. /\ job'[x].dying = job[x].dying /\ (x = Worker => job'[x].proc = job[x].proc) /\ txn'[w] = txn[w] /\ Fits(a, o, r, w)
      BY <1>0, <1>4, <3>2
    <3>4. \A g \in Threads : thr[g].dead => thr'[g].dead
      BY <1>3
    <3>5. /\ a[w] \in {"job", "done"} /\ (a[w] = "done" => txn[w].from = None)
          /\ a[w] = "job" =>
               /\ txn[w].from # None /\ job'[x].pc \in {"reply1", "rbuilt", "rsend", "fail2"} => txn[w].from = job'[x].target
               /\ txn[w].from = None /\ job'[x].pc \in {"reply1", "rbuilt", "rsend"} => thr'[job'[x].target].dead
      BY <1>4, <3>2
    <3>6. Fits(a, o, r, w)'
      BY ONLY <1>0, <3>2, <3>3, <3>4, <3>5, w \in Txns, x \in Tasks, FitsJob
    <3> QED BY <1>4, <3>2, <3>6
  <2> QED BY <1>4, <2>1 DEF HasNow
<1>11. GhostType(a, o, r, c, d) /\ Placed(a, o, r)' /\ Linked(a, o, r, c, d)'
  <2>1. job'[x].pc = "walk" \/ job[x].pc = "walk" => job'[x] = job[x]
    BY <1>4
  <2>2. x \in Threads => MayStart(x, a, o, r, c)
    BY <1>4, StartsNone
  <2> QED BY ONLY <1>0, <1>4, <1>8, <1>9, <1>10, <2>1, <2>2, x \in Tasks, Core(a, o, r, c, d), HandStep
<1>12. Turns(a)'
  <2>1. \A p \in Procs : prc'[p].life = "open" =>
           /\ prc[p].life = "open" /\ prc'[p].buffers = prc[p].buffers
           /\ prc'[p].stuck = prc[p].stuck /\ prc'[p].has_async = prc[p].has_async
           /\ prc'[p].async_todo = prc[p].async_todo
    BY <1>3, <1>7 DEF LifeStep, SameWork
  <2> QED BY <1>0, <2>1, TurnsQuiet
<1> QED BY <1>7, <1>11, <1>12, CoreStep

\* The thread lists as they are.
LEMMA RunsSame ==
  ASSUME Types, NEW x, NEW j, \A g \in Threads : thr[g].dead /\ Len(thr[g].todo) > 0 => (job[x].dying = g => j.dying = g)
  PROVE  Soft(thr) /\ RunsIn(thr, x, j) /\ \A g \in Threads : Kept(thr[g].todo, thr[g].todo)
<1>1. Soft(thr)
  BY DEF Types, Soft
<1>2. RunsIn(thr, x, j)
  BY DEF RunsIn, GrowsIn
<1> QED BY <1>1, <1>2, KeptSame

\* The caller is gone: whoever waits behind it gets the error.
LEMMA CallerGoneStep ==
  ASSUME TxnInv, NEW h \in Threads, job[h].pc \in {"reply0", "reply1"}, CallerGone(h), txn' = txn, calls' = calls, faults' = faults
  PROVE  TxnInv'
<1>0. PICK a, o, r, c, d : Core(a, o, r, c, d)
  BY DEF TxnInv
<1>p. PICK t, u : t = job[h].re /\ u = job[h].target
  OBVIOUS
<1>j. PICK j : j = [Idle EXCEPT !.pc = "fail1", !.t = t]
  OBVIOUS
<1>S. PICK S : S = ReturnError(thr, h)
  OBVIOUS
<1>1. /\ Types /\ job[h] \in JobType /\ Carries(job[h]) /\ ForThread(h, job[h]) /\ Holds(a, o, h, job[h]) /\ h \in Tasks /\ h # Worker
      /\ thr \in [Threads -> ThreadType]
  <2>1. /\ Types /\ job[h] \in JobType /\ Carries(job[h]) /\ ForThread(h, job[h]) /\ Holds(a, o, h, job[h]) /\ h \in Tasks /\ h # Worker
    BY <1>0, CoreIs, TaskHolds, Marks
  <2> QED BY <2>1 DEF Types
<1>2. t \in Txns /\ job[h].t = None /\ job[h].proc = None /\ u \in Threads \cup {None} /\ a[t] = "job" /\ o[t] = h
  BY <1>1, <1>p DEF Carries, JobType, Parents, Holds
<1>3. /\ ~thr[h].dead /\ ~thr[h].waiting /\ job[h].dying = None
      /\ \A w \in Txns : LET k == [Idle EXCEPT !.pc = "fail1", !.t = w] IN ForThread(h, k) /\ Carries(k) /\ k \in JobType
  BY <1>1, ThreadGoesOn
<1>4. /\ ForThread(h, j) /\ Carries(j) /\ j \in JobType /\ j.pc = "fail1" /\ j.t = t /\ j.re = None /\ j.target = None
      /\ j.proc = None /\ j.dying = None
  BY <1>2, <1>3, <1>j DEF Idle
<1>5. /\ S \in [Threads -> ThreadType] /\ \A g \in Threads : g # h => S[g] = thr[g]
      /\ SameLife(S[h], thr[h]) /\ S[h].stack = thr[h].stack /\ S[h].waiting = thr[h].waiting
      /\ S[h].todo = Append(thr[h].todo, "return_error") /\ S[h].process_todo
  BY <1>1, <1>S, ReturnErrorIs
<1>6. Soft(S)
  BY <1>5 DEF Soft, SameLife
<1>7. RunsIn(S, h, j)
  BY <1>3, <1>4, <1>5 DEF RunsIn, GrowsIn
<1>8. \A g \in Threads : Kept(thr[g].todo, S[g].todo) /\ (~thr[g].dead => S[g].stack = thr[g].stack)
  <2>1. thr[h].todo \in Seq(Txns \cup Words) /\ "return_error" \in Words
    BY <1>1 DEF ThreadType, Words
  <2>2. Kept(thr[h].todo, S[h].todo)
    BY <1>5, <2>1, KeptAppend, KeptSame
  <2>3. \A g \in Threads : g # h => Kept(thr[g].todo, S[g].todo)
    BY <1>5, KeptSame
  <2> QED BY <1>5, <2>2, <2>3
<1>9. Become(h, j) /\ thr' = DecThread(S, u) /\ prc' = DecThreadProc(prc, thr', u)
  BY <1>p, <1>j, <1>S DEF CallerGone
<1>10. Gives(h, j, u, None) /\ Holds(a, o, h, j)
  BY <1>2, <1>3, <1>4, <1>p DEF Gives, Holds
<1>11. \A w \in Txns : With(w, job[h]) => With(w, j) /\ a[w] = "job" /\ o[w] = h /\ j.pc = "fail1" /\ j.dying = job[h].dying
  BY <1>2, <1>3, <1>4, <1>p, Marks DEF With
<1>12. /\ j.pc \notin {"queue", "rsend", "walk", "built", "deliver"} /\ job[h].pc # "walk"
       /\ (h = Worker => ForWorker(j) /\ j.proc = job[h].proc)
  BY <1>1, <1>4
<1> QED BY ONLY <1>0, <1>1, <1>2, <1>4, <1>6, <1>7, <1>8, <1>9, <1>10, <1>11, <1>12, txn' = txn, calls' = calls, faults' = faults, DropQuiet

\* The caller of a failed reply is gone by now.
LEMMA FailBackStep ==
  ASSUME TxnInv, NEW x \in Tasks, Fail2(x), txn[job[x].t].from = None
  PROVE  TxnInv'
<1>0. PICK a, o, r, c, d : Core(a, o, r, c, d)
  BY DEF TxnInv
<1>p. PICK t, u : t = job[x].t /\ u = job[x].target
  OBVIOUS
<1>j. PICK j : j = [job[x] EXCEPT !.pc = "fail1", !.target = None]
  OBVIOUS
<1>1. /\ Types /\ job[x] \in JobType /\ Carries(job[x]) /\ (x \in Threads => ForThread(x, job[x])) /\ Holds(a, o, x, job[x])
      /\ (x = Worker /\ job[x].pc # "idle" => ForWorker(job[x]))
  BY <1>0, CoreIs, TaskHolds
<1>2. /\ job[x].pc = "fail2" /\ Become(x, j) /\ thr' = DecThread(thr, u) /\ prc' = DecThreadProc(prc, thr', u) /\ txn' = txn
      /\ calls' = calls /\ faults' = faults
  BY <1>p, <1>j DEF Fail2
<1>3. /\ t \in Txns /\ t # None /\ job[x].re = None /\ u \in Threads \cup {None} /\ a[t] = "job" /\ o[t] = x
  BY <1>1, <1>2, <1>p DEF Carries, JobType, Parents, Holds
<1>4. /\ j \in JobType /\ j.pc = "fail1" /\ j.t = t /\ j.re = None /\ j.target = None /\ j.proc = job[x].proc /\ j.dying = job[x].dying
      /\ j.next = job[x].next
  BY <1>1, <1>3, <1>j, <1>p DEF JobType
<1>5. Carries(j) /\ (x \in Threads => ForThread(x, j)) /\ (x = Worker => ForWorker(j) /\ j.proc = job[x].proc)
  BY <1>1, <1>2, <1>3, <1>4 DEF Carries, ForThread, ForWorker
<1>6. Soft(thr) /\ RunsIn(thr, x, j) /\ \A g \in Threads : Kept(thr[g].todo, thr[g].todo) /\ (~thr[g].dead => thr[g].stack = thr[g].stack)
  BY <1>1, <1>4, RunsSame
<1>7. Gives(x, j, u, None) /\ Holds(a, o, x, j)
  BY <1>3, <1>4, <1>p DEF Gives, Holds
<1>8. \A w \in Txns : With(w, job[x]) => With(w, j) /\ a[w] = "job" /\ o[w] = x /\ j.pc = "fail1" /\ j.dying = job[x].dying
  BY <1>3, <1>4, <1>p, Marks DEF With
<1>9. /\ j.pc \notin {"queue", "rsend", "walk", "built", "deliver"} /\ job[x].pc # "walk"
  BY <1>2, <1>4
<1> QED BY ONLY <1>0, <1>2, <1>3, <1>4, <1>5, <1>6, <1>7, <1>8, <1>9, x \in Tasks, DropQuiet

\* The list of a released thread is empty.
LEMMA DrainedStep ==
  ASSUME TxnInv, NEW x \in Tasks, Drained(x)
  PROVE  TxnInv'
<1>0. PICK a, o, r, c, d : Core(a, o, r, c, d)
  BY DEF TxnInv
<1>p. PICK u : u = job[x].dying
  OBVIOUS
<1>j. PICK j : j = IF x = Worker THEN [job[x] EXCEPT !.pc = "threads", !.dying = None] ELSE Idle
  OBVIOUS
<1>1. /\ Types /\ job[x] \in JobType /\ Carries(job[x]) /\ (x \in Threads => ForThread(x, job[x]) /\ x # Worker) /\ Holds(a, o, x, job[x])
      /\ (x = Worker /\ job[x].pc # "idle" => ForWorker(job[x]))
  BY <1>0, CoreIs, TaskHolds
<1>2. /\ job[x].pc = "drain" /\ Become(x, j) /\ thr' = DecThread(thr, u) /\ prc' = DecThreadProc(prc, thr', u) /\ txn' = txn
      /\ calls' = calls /\ faults' = faults /\ Len(thr[u].todo) = 0
  BY <1>p, <1>j DEF Drained
<1>3. /\ job[x].t = None /\ job[x].re = None /\ u \in Threads \cup {None} /\ job[x].target = None /\ (x \in Threads => job[x].proc = None)
  BY <1>1, <1>2, <1>p DEF Carries, JobType, ForThread
<1>4. /\ j \in JobType /\ j.pc \in {"threads", "idle"} /\ j.t = None /\ j.re = None /\ j.target = None /\ j.proc = job[x].proc /\ j.dying = None
      /\ (x = Worker => j.pc = "threads") /\ (x \in Threads => j = Idle) /\ (x # Worker => x \in Threads)
  <2>1. CASE x = Worker
    BY <1>1, <1>3, <1>j, <2>1, Marks DEF JobType
  <2>2. CASE x # Worker
    BY <1>1, <1>3, <1>j, <2>2, Marks DEF JobType, Idle, Parents
  <2> QED BY <2>1, <2>2
<1>5. Carries(j) /\ (x \in Threads => ForThread(x, j)) /\ (x = Worker => ForWorker(j) /\ j.proc = job[x].proc)
  BY <1>1, <1>2, <1>3, <1>4 DEF Carries, ForThread, ForWorker, Idle
<1>6. Soft(thr) /\ RunsIn(thr, x, j) /\ \A g \in Threads : Kept(thr[g].todo, thr[g].todo) /\ (~thr[g].dead => thr[g].stack = thr[g].stack)
  <2>1. \A g \in Threads : thr[g].dead /\ Len(thr[g].todo) > 0 => (job[x].dying = g => j.dying = g)
    BY <1>2, <1>p
  <2> QED BY <1>1, <2>1, RunsSame
<1>7. Gives(x, j, u, None) /\ Holds(a, o, x, j)
  BY <1>3, <1>4, <1>p DEF Gives, Holds
<1>8. \A w \in Txns : With(w, job[x]) => With(w, j) /\ a[w] = "job" /\ o[w] = x /\ j.pc = "fail1" /\ j.dying = job[x].dying
  BY <1>3, Marks DEF With
<1>9. /\ j.pc \notin {"queue", "rsend", "walk", "built", "deliver"} /\ job[x].pc # "walk"
  BY <1>2, <1>4
<1> QED BY ONLY <1>0, <1>2, <1>3, <1>4, <1>5, <1>6, <1>7, <1>8, <1>9, x \in Tasks, DropQuiet

-----------------------------------------------------------------------------
(* Steps that take references, or none.                                    *)

\* Task x goes on as j, with a reference of thread u and of process q if these are not None.
Gains(x, j, u, q) ==
  /\ j.dying = job[x].dying
  /\ IF u = None THEN j.target = job[x].target ELSE job[x].target = None /\ j.target = u /\ thr[u].mem = "live"
  /\ IF q = None THEN j.proc = job[x].proc ELSE job[x].proc = None /\ j.proc = q /\ prc[q].life # "freed"
  /\ \A g \in Threads : thr'[g].dead = thr[g].dead /\ thr'[g].mem = thr[g].mem /\ thr'[g].tmp = thr[g].tmp + One(g = u)
  /\ \A p \in Procs : prc'[p].life = prc[p].life /\ prc'[p].tmp = prc[p].tmp + One(p = q)

\* What such a step keeps.
LEMMA GainStep ==
  ASSUME Base, Types', NEW x \in Tasks, NEW j \in JobType, Become(x, j), Carries(j),
         x \in Threads => ForThread(x, j), x = Worker => ForWorker(j) /\ j.proc = job[x].proc,
         NEW u \in Threads \cup {None}, NEW q \in Procs \cup {None}, Gains(x, j, u, q), ThreadsStep(x, j), ProcsStep,
         j.pc \in {"queue", "rsend"} => \E i \in DOMAIN thr'[x].todo : thr'[x].todo[i] = "complete"
  PROVE  Base'
<1>0. Types /\ Counted /\ JobsOk
  BY DEF Base
<1>1. job' = [job EXCEPT ![x] = j] /\ job'[x] = j /\ \A y \in Tasks : y # x => job'[y] = job[y]
  BY <1>0 DEF Types, Become
<1>2. ASSUME NEW g \in Threads
      PROVE  /\ thr'[g].dead = thr[g].dead /\ thr'[g].mem = thr[g].mem
             /\ thr'[g].tmp = thr[g].tmp + One(job'[x].target = g) - One(job[x].target = g)
             /\ job'[x].target = g => thr[g].mem = "live"
  <2>1. thr[g].tmp \in Nat /\ g # None
    BY <1>0, Marks DEF Types, ThreadType
  <2>2. thr'[g].dead = thr[g].dead /\ thr'[g].mem = thr[g].mem /\ thr'[g].tmp = thr[g].tmp + One(g = u)
    BY DEF Gains
  <2>3. CASE u = None
    <3>1. job'[x].target = job[x].target
      BY <1>1, <2>3 DEF Gains
    <3>2. job[x].target = g => thr[g].mem = "live"
      BY <1>0, HolderCounts
    <3> QED BY <2>1, <2>2, <2>3, <3>1, <3>2 DEF One
  <2>4. CASE u # None
    <3>1. job'[x].target = u /\ job[x].target = None /\ thr[u].mem = "live"
      BY <1>1, <2>4 DEF Gains
    <3> QED BY <2>1, <2>2, <2>4, <3>1 DEF One
  <2> QED BY <2>3, <2>4
<1>3. ASSUME NEW p \in Procs
      PROVE  /\ prc'[p].life = prc[p].life
             /\ prc'[p].tmp = prc[p].tmp + One(job'[x].proc = p) - One(job[x].proc = p)
             /\ job'[x].proc = p => prc[p].life # "freed"
  <2>1. prc[p].tmp \in Nat /\ p # None
    BY <1>0, Marks DEF Types, ProcType
  <2>2. prc'[p].life = prc[p].life /\ prc'[p].tmp = prc[p].tmp + One(p = q)
    BY DEF Gains
  <2>3. CASE q = None
    <3>1. job'[x].proc = job[x].proc
      BY <1>1, <2>3 DEF Gains
    <3>2. job[x].proc = p => prc[p].life # "freed"
      BY <1>0, UserCounts
    <3> QED BY <2>1, <2>2, <2>3, <3>1, <3>2 DEF One
  <2>4. CASE q # None
    <3>1. job'[x].proc = q /\ job[x].proc = None /\ prc[q].life # "freed"
      BY <1>1, <2>4 DEF Gains
    <3> QED BY <2>1, <2>2, <2>4, <3>1 DEF One
  <2> QED BY <2>3, <2>4
<1>4. /\ job'[x].dying = job[x].dying /\ (job'[x].target = job[x].target \/ job[x].target = None)
      /\ (job'[x].proc = job[x].proc \/ job[x].proc = None)
  BY <1>1 DEF Gains
<1>5. Counted' /\ LifeStep
  BY <1>0, <1>1, <1>2, <1>3, <1>4, RefsHold
<1> QED BY <1>1, <1>5, BaseStep

\* The turns when no process changes its list of one-way transactions and nothing else of them.
LEMMA TurnsHand ==
  ASSUME NEW a, NEW a2, Turns(a), \A p \in Procs : Turn(p, a2)' = Turn(p, a),
         \A p \in Procs : prc'[p].life = "open" => prc[p].life = "open" /\ SameWork(prc'[p], prc[p])
  PROVE  Turns(a2)'
<1>1. \A p \in Procs : prc'[p].life = "open" =>
           /\ prc[p].life = "open" /\ Turn(p, a2)' = Turn(p, a) /\ prc'[p].buffers = prc[p].buffers
           /\ prc'[p].stuck = prc[p].stuck /\ prc'[p].has_async = prc[p].has_async
           /\ Len(prc'[p].async_todo) > 0 => Len(prc[p].async_todo) > 0
  BY DEF SameWork
<1> QED BY <1>1, TurnsSame

\* A word at the end of the list of thread h.
LEMMA WordStep ==
  ASSUME Types, PoolBound, NEW h \in Threads, ~thr[h].dead, ~thr[h].waiting, NEW w \in Words, thr' = Enqueue(thr, h, w), prc' = prc, NEW j, j.dying = job[h].dying
  PROVE  /\ thr' \in [Threads -> ThreadType] /\ ThreadsStep(h, j) /\ ProcsStep /\ ListsStay /\ SameStacks
         /\ \A g \in Threads : SameLife(thr'[g], thr[g]) /\ thr'[g].stack = thr[g].stack
         /\ w = "complete" => \E i \in DOMAIN thr'[h].todo : thr'[h].todo[i] = "complete"
<1>1. thr \in [Threads -> ThreadType] /\ thr[h].todo \in Seq(Txns \cup Words) /\ w \in Txns \cup Words
  BY DEF Types, ThreadType
<1>2. /\ thr' \in [Threads -> ThreadType] /\ \A g \in Threads : g # h => thr'[g] = thr[g]
      /\ SameLife(thr'[h], thr[h]) /\ SameFlags(thr'[h], thr[h]) /\ thr'[h].stack = thr[h].stack
      /\ thr'[h].todo = Append(thr[h].todo, w) /\ thr'[h].process_todo
  BY <1>1, EnqueueIs
<1>3. \A g \in Threads : SameLife(thr'[g], thr[g]) /\ thr'[g].stack = thr[g].stack
  BY <1>2 DEF SameLife
<1>4. ASSUME NEW g \in Threads PROVE Grows(g)
  BY <1>1, <1>2 DEF Grows
<1>5. ThreadsStep(h, j)
  <2>1. \A g \in Threads : thr'[g].dead = thr[g].dead
    BY <1>3 DEF SameLife
  <2>2. ~thr'[h].waiting
    BY <1>2 DEF SameFlags
  <2> QED BY <1>2, <1>4, <2>1, <2>2 DEF ThreadsStep
<1>6. ProcsStep
  BY DEF ProcsStep, PoolBound
<1>7. ListsStay
  <2>1. \A g \in Threads : Kept(thr[g].todo, thr'[g].todo)
    BY <1>1, <1>2, KeptAppend, KeptSame
  <2> QED BY <2>1 DEF ListsStay
<1>8. SameStacks
  BY <1>3 DEF SameStacks, SameLife
<1>9. \E i \in DOMAIN thr'[h].todo : thr'[h].todo[i] = w
  BY <1>1, <1>2, AppendIn
<1> QED BY <1>2, <1>3, <1>5, <1>6, <1>7, <1>8, <1>9

\* The reply is complete for the thread that replies.
LEMMA ReplyCompleteStep ==
  ASSUME TxnInv, NEW h \in Threads, ReplyComplete(h)
  PROVE  TxnInv'
<1>0. PICK a, o, r, c, d : Core(a, o, r, c, d)
  BY DEF TxnInv
<1>p. PICK t, re : t = job[h].t /\ re = job[h].re
  OBVIOUS
<1>j. PICK j : j = [job[h] EXCEPT !.pc = "rsend"]
  OBVIOUS
<1>1. /\ Base /\ Types /\ PoolBound /\ Turns(a) /\ job[h] \in JobType /\ Carries(job[h]) /\ ForThread(h, job[h]) /\ Holds(a, o, h, job[h])
      /\ h \in Tasks /\ h # Worker /\ (\A w \in Txns : Fits(a, o, r, w)) /\ PlaceType(a, o, r) /\ Held(a, o)
  BY <1>0, CoreIs, TaskHolds, Marks
<1>2. /\ job[h].pc = "rbuilt" /\ Become(h, j) /\ thr' = Enqueue(thr, h, "complete") /\ prc' = prc /\ txn' = txn
      /\ calls' = calls /\ faults' = faults
  BY <1>j DEF ReplyComplete
<1>3. ~thr[h].dead /\ ~thr[h].waiting /\ job[h].dying = None /\ "complete" \in Words
  BY <1>1, <1>2, ThreadGoesOn DEF Words
<1>4. /\ j \in JobType /\ j.pc = "rsend" /\ j.t = t /\ j.re = re /\ j.target = job[h].target /\ j.proc = job[h].proc
      /\ j.dying = job[h].dying /\ j.next = job[h].next
  BY <1>1, <1>j, <1>p DEF JobType
<1>5. /\ thr' \in [Threads -> ThreadType] /\ ThreadsStep(h, j) /\ ProcsStep /\ ListsStay /\ SameStacks
      /\ \A g \in Threads : SameLife(thr'[g], thr[g]) /\ thr'[g].stack = thr[g].stack
      /\ \E i \in DOMAIN thr'[h].todo : thr'[h].todo[i] = "complete"
  BY <1>1, <1>2, <1>3, <1>4, WordStep
<1>6. Types' /\ job'[h] = j /\ \A y \in Tasks : y # h => job'[y] = job[y]
  BY <1>1, <1>2, <1>4, <1>5 DEF Types, Become
<1>7. Carries(j) /\ ForThread(h, j) /\ Holds(a, o, h, j)
  BY <1>1, <1>2, <1>4, <1>p DEF Carries, ForThread, Holds
<1>8. Base'
  <2>1. Gains(h, j, None, None)
    <3>1. \A g \in Threads : thr'[g].tmp = thr[g].tmp /\ thr[g].tmp \in Nat /\ g # None
      BY <1>1, <1>5, Marks DEF SameLife, Types, ThreadType
    <3>2. \A p \in Procs : prc[p].tmp \in Nat /\ p # None
      BY <1>1, Marks DEF Types, ProcType
    <3> QED BY <1>2, <1>4, <1>5, <3>1, <3>2 DEF Gains, SameLife, One
  <2>2. (h = Worker => ForWorker(j) /\ j.proc = job[h].proc) /\ None \in Threads \cup {None} /\ None \in Procs \cup {None}
    BY <1>1
  <2> QED BY ONLY <1>1, <1>2, <1>4, <1>5, <1>6, <1>7, <2>1, <2>2, GainStep
<1>9. \A w \in Txns : Moves(w, h, None, a, o, r, a, o)
  BY <1>2 DEF Moves
<1>10. HasNow(h, a, o, r)
  <2>1. ASSUME NEW w \in Txns, a[w] \in Taken, o[w] = h PROVE With(w, job'[h]) /\ Fits(a, o, r, w)'
    <3>1. With(w, job[h])
      BY <1>1, <2>1 DEF Held
    <3>2. With(w, j)
      BY <1>2, <1>4, <1>p, <3>1 DEF With
    <3>3. w = t \/ w = re
      BY <1>p, <3>1 DEF With
    <3>4. a[w] = "built" \/ a[w] = "job"
      BY <1>1, <1>2, <1>p, <2>1, <3>3, Marks DEF Holds
    <3>5. txn'[w] = txn[w] /\ Fits(a, o, r, w) /\ (r[w] # None => r[w] \in Threads)
      BY <1>1, <1>2 DEF PlaceType
    <3>6. Home(h)' = Home(h)
      BY <1>1 DEF Home
    <3>7. \A g \in Threads : thr'[g].dead = thr[g].dead
      BY <1>5 DEF SameLife
    <3>8. job[h].target \in Threads
      BY <1>1, <1>2 DEF Carries, JobType
    <3>9. Fits(a, o, r, w)'
      BY <1>2, <1>4, <1>6, <2>1, <3>4, <3>5, <3>6, <3>7, <3>8 DEF Fits
    <3> QED BY <1>6, <3>2, <3>9
  <2> QED BY <1>6, <1>7, <2>1 DEF HasNow
<1>11. GhostType(a, o, r, c, d) /\ Placed(a, o, r)' /\ Linked(a, o, r, c, d)'
  <2>1. job'[h].pc = "walk" \/ job[h].pc = "walk" => job'[h] = job[h]
    BY <1>2, <1>4, <1>6
  <2>2. h \in Threads => MayStart(h, a, o, r, c)
    BY <1>4, <1>6, StartsNone
  <2> QED BY ONLY <1>0, <1>1, <1>5, <1>6, <1>9, <1>10, <2>1, <2>2, HandStep
<1>12. Turns(a)'
  BY <1>1, <1>2, TurnsQuiet
<1> QED BY <1>8, <1>11, <1>12, CoreStep

\* TRANSACTION_COMPLETE of a one-way transaction.
LEMMA PushAsync ==
  ASSUME TxnInv, NEW h \in Threads, Push(h), txn[job[h].t].kind # "call"
  PROVE  TxnInv'
<1>0. PICK a, o, r, c, d : Core(a, o, r, c, d)
  BY DEF TxnInv
<1>p. PICK t : t = job[h].t
  OBVIOUS
<1>j. PICK j : j = [job[h] EXCEPT !.pc = "queue"]
  OBVIOUS
<1>g. PICK a2 : a2 = Put(a, t, "queue")
  OBVIOUS
<1>1. /\ Base /\ Types /\ PoolBound /\ Turns(a) /\ job[h] \in JobType /\ Carries(job[h]) /\ ForThread(h, job[h]) /\ Holds(a, o, h, job[h])
      /\ h \in Tasks /\ h # Worker /\ (\A w \in Txns : Fits(a, o, r, w)) /\ PlaceType(a, o, r) /\ Held(a, o)
  BY <1>0, CoreIs, TaskHolds, Marks
<1>2. /\ job[h].pc = "built" /\ Become(h, j) /\ thr' = Enqueue(thr, h, "complete") /\ prc' = prc /\ txn' = txn
      /\ calls' = calls /\ faults' = faults
  BY <1>j DEF Push
<1>3. ~thr[h].dead /\ ~thr[h].waiting /\ job[h].dying = None /\ "complete" \in Words
  BY <1>1, <1>2, ThreadGoesOn DEF Words
<1>4. /\ j \in JobType /\ j.pc = "queue" /\ j.t = t /\ j.re = job[h].re /\ j.target = job[h].target /\ j.proc = job[h].proc
      /\ j.dying = job[h].dying /\ j.next = job[h].next
  BY <1>1, <1>j, <1>p DEF JobType
<1>t. t \in Txns /\ job[h].re = None /\ a[t] = "built" /\ o[t] = h /\ txn[t].kind # "call"
  BY <1>1, <1>2, <1>p, Marks DEF Carries, Holds, JobType, Parents
<1>5. /\ thr' \in [Threads -> ThreadType] /\ ThreadsStep(h, j) /\ ProcsStep /\ ListsStay /\ SameStacks
      /\ \A g \in Threads : SameLife(thr'[g], thr[g]) /\ thr'[g].stack = thr[g].stack
      /\ \E i \in DOMAIN thr'[h].todo : thr'[h].todo[i] = "complete"
  BY <1>1, <1>2, <1>3, <1>4, WordStep
<1>6. Types' /\ job'[h] = j /\ \A y \in Tasks : y # h => job'[y] = job[y]
  BY <1>1, <1>2, <1>4, <1>5 DEF Types, Become
<1>q. /\ PlaceType(a2, o, r) /\ a2[t] = "queue" /\ \A w \in Txns : w # t => a2[w] = a[w]
  BY <1>1, <1>g, <1>t DEF PlaceType, Places, Put
<1>7. Carries(j) /\ ForThread(h, j) /\ Holds(a2, o, h, j)
  BY <1>1, <1>2, <1>4, <1>p, <1>t, <1>q DEF Carries, ForThread, Holds
<1>8. Base'
  <2>1. Gains(h, j, None, None)
    <3>1. \A g \in Threads : thr'[g].tmp = thr[g].tmp /\ thr[g].tmp \in Nat /\ g # None
      BY <1>1, <1>5, Marks DEF SameLife, Types, ThreadType
    <3>2. \A p \in Procs : prc[p].tmp \in Nat /\ p # None
      BY <1>1, Marks DEF Types, ProcType
    <3> QED BY <1>2, <1>4, <1>5, <3>1, <3>2 DEF Gains, SameLife, One
  <2>2. (h = Worker => ForWorker(j) /\ j.proc = job[h].proc) /\ None \in Threads \cup {None} /\ None \in Procs \cup {None}
    BY <1>1
  <2> QED BY ONLY <1>1, <1>2, <1>4, <1>5, <1>6, <1>7, <2>1, <2>2, GainStep
<1>f. Fits(a2, o, r, t)'
  <2>1. txn'[t] = txn[t] /\ Fits(a, o, r, t)
    BY <1>1, <1>2, <1>t
  <2>2. Home(h)' = Home(h)
    BY <1>1 DEF Home
  <2>3. txn[t].kind # "reply" /\ r[t] = None
    BY <1>2, <1>p, <2>1, <1>t DEF Fits
  <2> QED BY <1>2, <1>4, <1>6, <1>t, <1>q, <1>p, <2>1, <2>2, <2>3 DEF Fits
<1>9. \A w \in Txns : Moves(w, h, None, a, o, r, a2, o)
  <2>1. ASSUME NEW w \in Txns PROVE Moves(w, h, None, a, o, r, a2, o)
    <3>1. CASE w # t
      BY <1>2, <1>q, <3>1 DEF Moves
    <3>2. CASE w = t
      <4>1. txn[t].from = None
        BY <1>1, <1>t DEF Fits, Types, TxnType
      <4>2. Shifts(t, h, None, a, o, r, a2, o)
        BY <1>2, <1>q, <1>t, <4>1 DEF Shifts, Taken
      <4> QED BY <1>f, <3>2, <4>2 DEF Moves
    <3> QED BY <3>1, <3>2
  <2> QED BY <2>1
<1>10. HasNow(h, a2, o, r)
  <2>1. ASSUME NEW w \in Txns, a2[w] \in Taken, o[w] = h PROVE With(w, job'[h]) /\ Fits(a2, o, r, w)'
    <3>1. CASE w = t
      BY <1>f, <1>4, <1>6, <3>1 DEF With
    <3>2. CASE w # t
      <4>1. With(w, job[h])
        BY <1>1, <1>q, <2>1, <3>2 DEF Held
      <4> QED BY <1>t, <1>p, <3>2, <4>1, Marks DEF With
    <3> QED BY <3>1, <3>2
  <2> QED BY <1>6, <1>7, <2>1 DEF HasNow
<1>11. GhostType(a2, o, r, c, d) /\ Placed(a2, o, r)' /\ Linked(a2, o, r, c, d)'
  <2>1. job'[h].pc = "walk" \/ job[h].pc = "walk" => job'[h] = job[h]
    BY <1>2, <1>4, <1>6
  <2>2. h \in Threads => MayStart(h, a, o, r, c)
    BY <1>4, <1>6, StartsNone
  <2> QED BY ONLY <1>0, <1>1, <1>q, <1>5, <1>6, <1>9, <1>10, <2>1, <2>2, HandStep
<1>12. Turns(a2)'
  <2>1. \A p \in Procs : Turn(p, a2)' = Turn(p, a)
    BY <1>2, <1>q, <1>t DEF Turn
  <2> QED BY <1>1, <1>2, <2>1, TurnsHand DEF SameWork
<1> QED BY <1>8, <1>11, <1>12, CoreStep

HoldProc(P, p) == [P EXCEPT ![p].tmp = @ + 1]
\* One more reference of a process.
LEMMA HoldProcIs ==
  ASSUME NEW P \in [Procs -> ProcType], NEW p \in Procs, NEW E, E = HoldProc(P, p)
  PROVE  /\ E \in [Procs -> ProcType]
         /\ \A q \in Procs : E[q].life = P[q].life /\ SameWork(E[q], P[q]) /\ E[q].tmp = P[q].tmp + One(q = p)
<1>1. \A q \in Procs : P[q] \in ProcType /\ P[q].tmp \in Nat
  BY DEF ProcType
<1>2. P[p].tmp + 1 \in Nat
  BY <1>1
<1>3. PICK n \in Nat : n = P[p].tmp + 1
  BY <1>2
<1>4. [P[p] EXCEPT !.tmp = n] \in ProcType
  BY <1>1, <1>3 DEF ProcType
<1>5. E = [P EXCEPT ![p] = [P[p] EXCEPT !.tmp = n]]
  BY <1>3 DEF HoldProc
<1>6. E \in [Procs -> ProcType]
  BY <1>4, <1>5
<1>7. /\ \A q \in Procs : q # p => E[q] = P[q]
      /\ E[p] = [P[p] EXCEPT !.tmp = n]
  BY <1>5
<1>8. E[p].life = P[p].life /\ SameWork(E[p], P[p]) /\ E[p].tmp = P[p].tmp + 1
  BY <1>1, <1>3, <1>7 DEF SameWork, ProcType
<1>9. ASSUME NEW q \in Procs PROVE E[q].life = P[q].life /\ SameWork(E[q], P[q]) /\ E[q].tmp = P[q].tmp + One(q = p)
  <2>1. CASE q = p
    BY <1>8, <2>1 DEF One
  <2>2. CASE q # p
    BY <1>1, <1>7, <2>2 DEF One, SameWork
  <2> QED BY <2>1, <2>2
<1> QED BY <1>6, <1>9

\* What is first on the list of a thread that may call, and what it handles.
LEMMA MayCallIs ==
  ASSUME NEW a, NEW o, NEW r, NEW c, NEW d, Core(a, o, r, c, d), NEW h \in Threads, ~thr[h].dead, MayCall(h)
  PROVE  /\ thr[h].stack # None => r[thr[h].stack] = h
         /\ \A w \in Txns : ~Fresh(w, h, a, o)
<1>1. Types /\ Listed(a, o) /\ Flights(a, o, r, c)
  BY CoreIs
<1>2. thr[h].stack # None => r[thr[h].stack] = h
  BY TopLeaf DEF MayCall
<1>3. ASSUME NEW w \in Txns, Fresh(w, h, a, o) PROVE FALSE
  <2>1. thr[h].todo[1] = w /\ w \in In(thr[h].todo)
    BY <1>1, <1>3 DEF Flights, Listed, Fresh
  <2>2. thr[h].todo \in Seq(Txns \cup Words)
    BY <1>1 DEF Types, ThreadType
  <2>3. Len(thr[h].todo) > 0
    BY <2>1, <2>2, InLen
  <2>4. Head(thr[h].todo) = w
    BY <2>1, <2>2, <2>3, TailIn
  <2> QED BY <2>3, <2>4 DEF MayCall
<1> QED BY <1>2, <1>3

\* A call back meets the chain of the call that its sender handles.
LEMMA CallBackMeets ==
  ASSUME NEW a, NEW o, NEW r, NEW c, NEW d, Core(a, o, r, c, d), NEW h \in Threads, ~thr[h].dead, NEW p,
         NEW b, b = CallBack(h, p), b # None
  PROVE  /\ b \in Threads /\ ProcOf[b] = p /\ thr[b].mem = "live" /\ thr[h].stack # None
         /\ Meets(b, thr[h].stack, a, r, c)
<1>1. /\ b \in Threads /\ ProcOf[b] = p /\ thr[h].stack # None
      /\ \E y \in Active(txn, a) : txn[y].from = b /\ c[y] = c[thr[h].stack]
  BY CallBackIs
<1>2. PICK y \in Active(txn, a) : txn[y].from = b /\ c[y] = c[thr[h].stack]
  BY <1>1
<1>3. thr[b].mem = "live"
  BY <1>2, FromLive
<1>4. y \in On(b, txn, a, r)
  BY <1>2, SentOn
<1>5. ASSUME ~thr[b].dead PROVE \A z \in On(b, txn, a, r) : c[z] = c[y]
  <2>1. Stack(b, thr[b].stack, On(b, txn, a, r), txn, c, d)
    BY <1>1, <1>5, StackIs
  <2>2. thr[b].stack # None
    BY <1>4, <2>1 DEF Stack
  <2> QED BY <1>4, <2>1, <2>2 DEF Stack
<1>6. Meets(b, thr[h].stack, a, r, c)
  BY <1>2, <1>4, <1>5 DEF Meets
<1> QED BY <1>1, <1>3, <1>6

\* BC_TRANSACTION up to where the transaction is built.
LEMMA CallStep ==
  ASSUME TxnInv, NEW h \in Threads, NEW p \in Procs, NEW kind \in Kinds, NEW t \in Txns, Call(h, p, kind, t)
  PROVE  TxnInv'
<1>0. PICK a, o, r, c, d : Core(a, o, r, c, d)
  BY DEF TxnInv
<1>b. PICK b : b = IF kind = "call" THEN CallBack(h, p) ELSE None
  OBVIOUS
<1>j. PICK j : j = [Idle EXCEPT !.pc = "built", !.t = t, !.target = b, !.proc = p]
  OBVIOUS
<1>x. PICK X : X = [NoTxn EXCEPT !.kind = kind, !.to_proc = p, !.to_thread = b, !.from = IF kind = "call" THEN h ELSE None]
  OBVIOUS
<1>g. PICK a2, o2 : a2 = Put(a, t, "built") /\ o2 = Put(o, t, h)
  OBVIOUS
<1>1. /\ Base /\ Types /\ PoolBound /\ Turns(a) /\ h \in Tasks /\ h # Worker /\ (\A w \in Txns : Fits(a, o, r, w))
      /\ PlaceType(a, o, r) /\ Held(a, o) /\ Counted /\ kind \in {"call", "async"}
  BY <1>0, CoreIs, Marks, TxnAssumption
<1>2. /\ job[h].pc = "idle" /\ ~thr[h].dead /\ ~thr[h].waiting /\ prc[ProcOf[h]].life = "open" /\ p # ProcOf[h]
      /\ prc[p].life \in {"open", "dead"} /\ calls < MaxCalls /\ (kind = "call" => MayCall(h)) /\ txn[t].kind = "free"
      /\ txn' = [txn EXCEPT ![t] = X] /\ prc' = HoldProc(prc, p)
      /\ thr' = IF b = None THEN thr ELSE Hold(thr, b)
      /\ Become(h, j) /\ calls' = calls + 1 /\ faults' = faults
  BY <1>b, <1>j, <1>x DEF Call, Writing, Ready, Alive, Hold, HoldProc
<1>3. job[h] = Idle /\ \A w \in Txns : ~(a[w] \in Taken /\ o[w] = h)
  BY <1>0, <1>2, IdleHolds
<1>4. /\ b \in Threads \cup {None}
      /\ b # None => /\ kind = "call" /\ ProcOf[b] = p /\ thr[b].mem = "live" /\ thr[h].stack # None
                     /\ Meets(b, thr[h].stack, a, r, c)
  BY <1>0, <1>2, <1>b, CallBackMeets
<1>5. a[t] = "none" /\ r[t] = None /\ txn[t] = NoTxn
  BY <1>1, <1>2 DEF Fits
<1>6. /\ X \in TxnType /\ X.kind = kind /\ X.to_proc = p /\ X.to_thread = b /\ X.from_parent = None /\ X.to_parent = None
      /\ X.from = IF kind = "call" THEN h ELSE None
  BY <1>1, <1>4, <1>x DEF TxnType, NoTxn, Parents
<1>7. /\ j \in JobType /\ j.pc = "built" /\ j.t = t /\ j.re = None /\ j.target = b /\ j.proc = p /\ j.dying = None
  BY <1>4, <1>j DEF JobType, Idle, Parents
<1>8. /\ thr \in [Threads -> ThreadType] /\ thr' \in [Threads -> ThreadType]
      /\ \A g \in Threads : /\ SameFlags(thr'[g], thr[g]) /\ thr'[g].todo = thr[g].todo /\ thr'[g].stack = thr[g].stack
                            /\ thr'[g].process_todo = thr[g].process_todo /\ thr'[g].mem = thr[g].mem
                            /\ thr'[g].dead = thr[g].dead /\ thr'[g].tmp = thr[g].tmp + One(g = b)
  <2>1. thr \in [Threads -> ThreadType] /\ \A g \in Threads : thr[g].tmp \in Nat
    BY <1>1 DEF Types, ThreadType
  <2>2. CASE b = None
    <3>1. \A g \in Threads : g # b
      BY <2>2, Marks
    <3> QED BY <1>2, <2>1, <2>2, <3>1 DEF SameFlags, One
  <2>3. CASE b # None
    <3>1. /\ thr' \in [Threads -> ThreadType] /\ \A g \in Threads : g # b => thr'[g] = thr[g]
          /\ SameFlags(thr'[b], thr[b]) /\ thr'[b].todo = thr[b].todo /\ thr'[b].stack = thr[b].stack
          /\ thr'[b].process_todo = thr[b].process_todo
          /\ thr'[b].mem = thr[b].mem /\ thr'[b].dead = thr[b].dead /\ thr'[b].tmp = thr[b].tmp + 1
      BY <1>2, <1>4, <2>1, <2>3, FieldIs
    <3> QED BY <2>1, <2>3, <3>1 DEF SameFlags, One
  <2> QED BY <2>2, <2>3
<1>9. /\ prc \in [Procs -> ProcType] /\ prc' \in [Procs -> ProcType]
      /\ \A q \in Procs : prc'[q].life = prc[q].life /\ SameWork(prc'[q], prc[q]) /\ prc'[q].tmp = prc[q].tmp + One(q = p)
  <2>1. prc \in [Procs -> ProcType]
    BY <1>1 DEF Types
  <2> QED BY <1>2, <2>1, HoldProcIs
<1>10. Types' /\ job'[h] = j /\ (\A y \in Tasks : y # h => job'[y] = job[y])
       /\ txn'[t] = X /\ \A w \in Txns : w # t => txn'[w] = txn[w]
  <2>1. calls' \in 0 .. MaxCalls /\ faults' \in 0 .. Faults
    BY <1>1, <1>2, Marks DEF Types
  <2> QED BY <1>1, <1>2, <1>6, <1>7, <1>8, <1>9, <2>1 DEF Types, Become
<1>q. /\ PlaceType(a2, o2, r) /\ a2[t] = "built" /\ o2[t] = h /\ \A w \in Txns : w # t => a2[w] = a[w] /\ o2[w] = o[w]
  BY <1>1, <1>g DEF PlaceType, Places, Put, Owners
<1>11. Carries(j) /\ ForThread(h, j) /\ Holds(a2, o2, h, j)
  BY <1>2, <1>7, <1>q, Marks DEF Carries, ForThread, Holds
<1>12. ThreadsStep(h, j)
  <2>1. \A g \in Threads : Grows(g)
    BY <1>8 DEF Grows
  <2> QED BY <1>3, <1>7, <1>8, <2>1 DEF ThreadsStep, SameFlags, Idle
<1>13. ProcsStep
  BY <1>1, <1>9 DEF ProcsStep, SameWork, PoolBound
<1>14. Base'
  <2>1. Gains(h, j, b, p)
    BY <1>2, <1>3, <1>4, <1>7, <1>8, <1>9, Marks DEF Gains, Idle
  <2>2. (h = Worker => ForWorker(j) /\ j.proc = job[h].proc) /\ p \in Procs \cup {None}
    BY <1>1
  <2>3. j.pc \in {"queue", "rsend"} => \E i \in DOMAIN thr'[h].todo : thr'[h].todo[i] = "complete"
    BY <1>7
  <2> QED BY ONLY <1>1, <1>2, <1>4, <1>7, <1>10, <1>11, <1>12, <1>13, <2>1, <2>2, <2>3, GainStep
<1>f. Fits(a2, o2, r, t)'
  BY <1>1, <1>2, <1>4, <1>5, <1>6, <1>7, <1>10, <1>q, Marks DEF Fits
<1>15. \A w \in Txns : Moves(w, h, None, a, o, r, a2, o2)
  <2>1. ASSUME NEW w \in Txns PROVE Moves(w, h, None, a, o, r, a2, o2)
    <3>1. CASE w # t
      BY <1>10, <1>q, <3>1 DEF Moves
    <3>2. CASE w = t
      <4>1. t \notin Active(txn, a) /\ t \notin Active(txn', a2) /\ txn[t].from = None
        BY <1>2, <1>5, <1>q DEF Active, NoTxn
      <4>2. Shifts(t, h, None, a, o, r, a2, o2)
        BY <1>5, <1>q, <4>1 DEF Shifts, Taken
      <4> QED BY <1>f, <3>2, <4>2 DEF Moves
    <3> QED BY <3>1, <3>2
  <2> QED BY <2>1
<1>16. HasNow(h, a2, o2, r)
  <2>1. ASSUME NEW w \in Txns, a2[w] \in Taken, o2[w] = h PROVE With(w, job'[h]) /\ Fits(a2, o2, r, w)'
    <3>1. w = t
      BY <1>3, <1>q, <2>1
    <3> QED BY <1>f, <1>7, <1>10, <3>1 DEF With
  <2> QED BY <1>10, <1>11, <2>1 DEF HasNow
<1>17. SameStacks /\ ListsStay
  BY <1>8, <1>9, KeptSame DEF SameStacks, ListsStay, SameWork
<1>18. MayStart(h, a, o, r, c)
  <2>1. kind = "call" => (thr[h].stack # None => r[thr[h].stack] = h) /\ \A w \in Txns : ~Fresh(w, h, a, o)
    BY <1>0, <1>2, MayCallIs
  <2>2. Starts(h, a, r, c)
    BY <1>4, <1>6, <1>7, <1>10, <2>1 DEF Starts
  <2> QED BY <1>2, <1>6, <1>7, <1>10, <2>1, <2>2 DEF MayStart
<1>19. GhostType(a2, o2, r, c, d) /\ Placed(a2, o2, r)' /\ Linked(a2, o2, r, c, d)'
  <2>1. job'[h].pc = "walk" \/ job[h].pc = "walk" => job'[h] = job[h]
    BY <1>2, <1>7, <1>10
  <2> QED BY ONLY <1>0, <1>1, <1>q, <1>10, <1>15, <1>16, <1>17, <1>18, <2>1, HandStep
<1>20. Turns(a2)'
  <2>1. \A q \in Procs : Turn(q, a2)' = Turn(q, a)
    BY <1>2, <1>10, <1>q DEF Turn
  <2> QED BY <1>1, <1>9, <2>1, TurnsHand
<1> QED BY <1>14, <1>19, <1>20, CoreStep

\* The second look at t->from; the reply is built.
LEMMA ReplyLockStep ==
  ASSUME TxnInv, NEW h \in Threads, NEW t \in Txns, ReplyLock(h, t)
  PROVE  TxnInv'
<1>0. PICK a, o, r, c, d : Core(a, o, r, c, d)
  BY DEF TxnInv
<1>b. PICK b, p, re : b = job[h].target /\ p = ProcOf[b] /\ re = job[h].re
  OBVIOUS
<1>j. PICK j : j = [job[h] EXCEPT !.pc = "rbuilt", !.t = t, !.proc = p]
  OBVIOUS
<1>x. PICK X : X = [NoTxn EXCEPT !.kind = "reply", !.to_proc = p, !.to_thread = b]
  OBVIOUS
<1>g. PICK a2, o2 : a2 = Put(a, t, "built") /\ o2 = Put(o, t, h)
  OBVIOUS
<1>1. /\ Base /\ Types /\ PoolBound /\ Turns(a) /\ h \in Tasks /\ h # Worker /\ (\A w \in Txns : Fits(a, o, r, w))
      /\ PlaceType(a, o, r) /\ Held(a, o) /\ Counted /\ Lives
      /\ job[h] \in JobType /\ Carries(job[h]) /\ ForThread(h, job[h]) /\ Holds(a, o, h, job[h])
  BY <1>0, CoreIs, TaskHolds, Marks
<1>2. /\ job[h].pc = "reply1" /\ txn[re].from # None /\ txn[t].kind = "free"
      /\ txn' = [txn EXCEPT ![t] = X] /\ prc' = HoldProc(prc, p) /\ thr' = thr
      /\ Become(h, j) /\ calls' = calls /\ faults' = faults
  BY <1>b, <1>j, <1>x DEF ReplyLock, HoldProc
<1>3. ~thr[h].dead /\ ~thr[h].waiting /\ job[h].dying = None /\ prc[ProcOf[h]].life = "open"
  BY <1>1, <1>2, ThreadGoesOn
<1>4. b \in Threads /\ p \in Procs /\ re \in Txns /\ job[h].t = None /\ job[h].proc = None
  BY <1>1, <1>2, <1>b, Marks DEF Carries, JobType, Parents
<1>r. a[re] = "job" /\ o[re] = h /\ Fits(a, o, r, re) /\ re # None
  BY <1>1, <1>2, <1>b, <1>4, Marks DEF Holds
<1>5. a[t] = "none" /\ r[t] = None /\ txn[t] = NoTxn /\ re # t
  BY <1>1, <1>2, <1>r DEF Fits
<1>l. prc[p].life # "freed"
  <2>1. thr[b].mem = "live"
    BY <1>1, <1>4, <1>b, HolderCounts
  <2>2. CASE thr[b].dead
    BY <1>1, <1>4, <1>b, <2>1, <2>2, HolderCounts
  <2>3. CASE ~thr[b].dead
    BY <1>1, <1>4, <1>b, <2>3 DEF Lives
  <2> QED BY <2>2, <2>3
<1>6. /\ X \in TxnType /\ X.kind = "reply" /\ X.to_proc = p /\ X.to_thread = b /\ X.from_parent = None /\ X.to_parent = None
      /\ X.from = None
  BY <1>4, <1>x DEF TxnType, NoTxn, Parents
<1>7. /\ j \in JobType /\ j.pc = "rbuilt" /\ j.t = t /\ j.re = re /\ j.target = b /\ j.proc = p /\ j.dying = job[h].dying
      /\ j.next = job[h].next
  BY <1>1, <1>4, <1>j, <1>b DEF JobType, Parents
<1>9. /\ prc \in [Procs -> ProcType] /\ prc' \in [Procs -> ProcType]
      /\ \A q \in Procs : prc'[q].life = prc[q].life /\ SameWork(prc'[q], prc[q]) /\ prc'[q].tmp = prc[q].tmp + One(q = p)
  <2>1. prc \in [Procs -> ProcType]
    BY <1>1 DEF Types
  <2> QED BY <1>2, <1>4, <2>1, HoldProcIs
<1>10. Types' /\ job'[h] = j /\ (\A y \in Tasks : y # h => job'[y] = job[y])
       /\ txn'[t] = X /\ \A w \in Txns : w # t => txn'[w] = txn[w]
  BY <1>1, <1>2, <1>6, <1>7, <1>9 DEF Types, Become
<1>q. /\ PlaceType(a2, o2, r) /\ a2[t] = "built" /\ o2[t] = h /\ \A w \in Txns : w # t => a2[w] = a[w] /\ o2[w] = o[w]
  BY <1>1, <1>g DEF PlaceType, Places, Put, Owners
<1>11. Carries(j) /\ ForThread(h, j) /\ Holds(a2, o2, h, j)
  <2>1. Carries(j)
    BY <1>1, <1>2, <1>4, <1>7, <1>r, <1>b, Marks DEF Carries
  <2>2. ForThread(h, j)
    BY <1>1, <1>2, <1>3, <1>7 DEF ForThread
  <2>3. Holds(a2, o2, h, j)
    BY <1>4, <1>7, <1>q, <1>r, <1>5 DEF Holds
  <2> QED BY <2>1, <2>2, <2>3
<1>12. ThreadsStep(h, j)
  <2>1. \A g \in Threads : Grows(g)
    BY <1>2 DEF Grows
  <2> QED BY <1>3, <1>7, <1>2, <2>1 DEF ThreadsStep
<1>13. ProcsStep
  BY <1>1, <1>9 DEF ProcsStep, SameWork, PoolBound
<1>14. Base'
  <2>1. Gains(h, j, None, p)
    <3>1. \A g \in Threads : thr[g].tmp \in Nat /\ g # None
      BY <1>1, Marks DEF Types, ThreadType
    <3> QED BY <1>2, <1>3, <1>4, <1>7, <1>9, <1>l, <1>b, <3>1, Marks DEF Gains, One
  <2>2. (h = Worker => ForWorker(j) /\ j.proc = job[h].proc) /\ p \in Procs \cup {None} /\ None \in Threads \cup {None}
    BY <1>1, <1>4
  <2>3. j.pc \in {"queue", "rsend"} => \E i \in DOMAIN thr'[h].todo : thr'[h].todo[i] = "complete"
    BY <1>7
  <2> QED BY ONLY <1>1, <1>2, <1>4, <1>7, <1>10, <1>11, <1>12, <1>13, <2>1, <2>2, <2>3, GainStep
<1>f. Fits(a2, o2, r, t)'
  BY <1>1, <1>4, <1>5, <1>6, <1>7, <1>10, <1>q, <1>b, Marks DEF Fits
<1>e. Fits(a2, o2, r, re)'
  <2>1. /\ a[re] \in {"job", "done"} /\ a2[re] \in {"job", "done"} /\ o2[re] = h /\ txn'[re] = txn[re] /\ a2[re] = "job"
        /\ job'[h].dying = job[h].dying /\ (h = Worker => job'[h].proc = job[h].proc)
        /\ \A g \in Threads : thr[g].dead => thr'[g].dead
    BY <1>1, <1>2, <1>4, <1>7, <1>10, <1>q, <1>r, <1>5
  <2>2. a2[re] = "job" =>
           /\ txn[re].from # None /\ job'[h].pc \in {"reply1", "rbuilt", "rsend", "fail2"} => txn[re].from = job'[h].target
           /\ txn[re].from = None /\ job'[h].pc \in {"reply1", "rbuilt", "rsend"} => thr'[job'[h].target].dead
    BY <1>2, <1>7, <1>10, <1>r, <1>b DEF Fits
  <2>3. a2[re] = "done" => txn[re].from = None
    BY <2>1
  <2> QED BY ONLY <1>1, <1>4, <1>r, <2>1, <2>2, <2>3, FitsJob, h \in Threads
<1>15. \A w \in Txns : Moves(w, h, None, a, o, r, a2, o2)
  <2>1. ASSUME NEW w \in Txns PROVE Moves(w, h, None, a, o, r, a2, o2)
    <3>1. CASE w # t
      BY <1>10, <1>q, <3>1 DEF Moves
    <3>2. CASE w = t
      <4>1. t \notin Active(txn, a) /\ t \notin Active(txn', a2) /\ txn[t].from = None
        BY <1>2, <1>5, <1>q DEF Active, NoTxn
      <4>2. Shifts(t, h, None, a, o, r, a2, o2)
        BY <1>5, <1>q, <4>1 DEF Shifts, Taken
      <4> QED BY <1>f, <3>2, <4>2 DEF Moves
    <3> QED BY <3>1, <3>2
  <2> QED BY <2>1
<1>16. HasNow(h, a2, o2, r)
  <2>1. ASSUME NEW w \in Txns, a2[w] \in Taken, o2[w] = h PROVE With(w, job'[h]) /\ Fits(a2, o2, r, w)'
    <3>1. CASE w = t
      BY <1>f, <1>2, <1>7, <1>10, <3>1 DEF With
    <3>2. CASE w # t
      <4>1. With(w, job[h])
        BY <1>1, <1>q, <2>1, <3>2 DEF Held
      <4>2. w = re
        BY <1>4, <1>b, <4>1, Marks DEF With
      <4> QED BY <1>e, <1>7, <1>10, <4>2 DEF With
    <3> QED BY <3>1, <3>2
  <2> QED BY <1>10, <1>11, <2>1 DEF HasNow
<1>17. SameStacks /\ ListsStay
  BY <1>2, <1>9, KeptSame DEF SameStacks, ListsStay, SameWork
<1>18. h \in Threads => MayStart(h, a, o, r, c)
  BY <1>7, <1>10, StartsNone
<1>19. GhostType(a2, o2, r, c, d) /\ Placed(a2, o2, r)' /\ Linked(a2, o2, r, c, d)'
  <2>1. job'[h].pc = "walk" \/ job[h].pc = "walk" => job'[h] = job[h]
    BY <1>2, <1>7, <1>10
  <2> QED BY ONLY <1>0, <1>1, <1>q, <1>10, <1>15, <1>16, <1>17, <1>18, <2>1, HandStep
<1>20. Turns(a2)'
  <2>1. \A q \in Procs : Turn(q, a2)' = Turn(q, a)
    BY <1>2, <1>10, <1>q DEF Turn
  <2> QED BY <1>1, <1>9, <2>1, TurnsHand
<1> QED BY <1>14, <1>19, <1>20, CoreStep

-----------------------------------------------------------------------------
(* The end of a delivery.                                                  *)

\* The thread puts down the sender of what it delivers.
LEMMA DeliverDrops ==
  ASSUME NEW a, NEW o, NEW r, NEW c, NEW d, Core(a, o, r, c, d), NEW h \in Threads, job[h].pc = "deliver",
         NEW u, u = job[h].target, NEW D, D = DecThread(thr, u), NEW E, E = DecThreadProc(prc, D, u)
  PROVE  /\ u \in Threads \cup {None} /\ Soft(thr) /\ SoftProc(prc) /\ E = Dropped(prc, D, u, None)
         /\ D \in [Threads -> ThreadType]
         /\ \A g \in Threads : /\ D[g].dead = thr[g].dead /\ D[g].todo = thr[g].todo
                               /\ ~thr[g].dead => SameRun(D[g], thr[g])
                               /\ D[g].waiting => SameRun(D[g], thr[g])
         /\ E \in [Procs -> ProcType] /\ \A p \in Procs : SameWork(E[p], prc[p])
         /\ ~thr[h].dead /\ ~thr[h].waiting /\ prc[ProcOf[h]].life = "open"
         /\ job[h].dying = None /\ job[h].proc = None /\ job[h].re = None /\ job[h].next = "idle"
<1>1. /\ Base /\ Types /\ Counted /\ job[h] \in JobType /\ Carries(job[h]) /\ ForThread(h, job[h]) /\ h \in Tasks
  BY CoreIs, TaskHolds, Marks
<1>2. u \in Threads \cup {None} /\ Soft(thr) /\ SoftProc(prc) /\ E = Dropped(prc, D, u, None)
  BY <1>1 DEF JobType, Soft, SoftProc, Dropped, Types
<1>3. Owns(h, u, None) /\ None \in Procs \cup {None}
  BY DEF Owns
<1>4. /\ D \in [Threads -> ThreadType]
      /\ \A g \in Threads : /\ D[g].dead = thr[g].dead /\ D[g].todo = thr[g].todo
                            /\ ~thr[g].dead => SameRun(D[g], thr[g])
                            /\ D[g].waiting => SameRun(D[g], thr[g])
      /\ E \in [Procs -> ProcType] /\ \A p \in Procs : SameWork(E[p], prc[p])
  BY ONLY <1>1, <1>2, <1>3, DropIs, D = DecThread(thr, u)
<1>5. /\ ~thr[h].dead /\ ~thr[h].waiting /\ prc[ProcOf[h]].life = "open"
      /\ job[h].dying = None /\ job[h].proc = None /\ job[h].re = None /\ job[h].next = "idle"
  BY <1>1, ThreadGoesOn DEF Carries
<1> QED BY <1>2, <1>4, <1>5

\* What that keeps of threads and processes when the thread goes on as j.
LEMMA DeliverBase ==
  ASSUME NEW a, NEW o, NEW r, NEW c, NEW d, Core(a, o, r, c, d), NEW h \in Threads, job[h].pc = "deliver",
         NEW u, u = job[h].target, NEW D, D = DecThread(thr, u), NEW E, E = DecThreadProc(prc, D, u),
         NEW j \in JobType, Become(h, j), Carries(j), ForThread(h, j), j.target = None, j.proc = None, j.dying = None,
         j.pc \notin {"queue", "rsend"}, Types', ProcsStep,
         \A g \in Threads : /\ SameLife(thr'[g], D[g]) /\ thr'[g].todo = D[g].todo /\ thr'[g].process_todo = D[g].process_todo
                            /\ thr'[g].waiting => D[g].waiting /\ thr'[g].stack = D[g].stack,
         \A p \in Procs : prc'[p].life = E[p].life /\ prc'[p].tmp = E[p].tmp
  PROVE  Base' /\ LifeStep /\ \A g \in Threads : thr'[g].dead = thr[g].dead
<1>1. /\ Base /\ Types /\ h \in Tasks /\ h # Worker
  BY CoreIs, Marks
<1>2. /\ u \in Threads \cup {None} /\ Soft(thr) /\ SoftProc(prc) /\ E = Dropped(prc, D, u, None)
      /\ D \in [Threads -> ThreadType]
      /\ \A g \in Threads : /\ D[g].dead = thr[g].dead /\ D[g].todo = thr[g].todo
                            /\ ~thr[g].dead => SameRun(D[g], thr[g])
                            /\ D[g].waiting => SameRun(D[g], thr[g])
      /\ ~thr[h].dead /\ ~thr[h].waiting
      /\ job[h].dying = None /\ job[h].proc = None
  BY DeliverDrops
<1>3. Gives(h, j, u, None)
  BY <1>2 DEF Gives
<1>4. Agree(D, E)
  BY DEF Agree, SameLife
<1>5. Follows(thr)
  BY <1>2 DEF Follows, SameRun
<1>6. RunsIn(thr, h, j)
  BY <1>1, <1>2, RunsSame, Marks
<1>7. /\ job' = [job EXCEPT ![h] = j] /\ (h = Worker => ForWorker(j) /\ j.proc = job[h].proc) /\ None \in Procs \cup {None}
  BY <1>1 DEF Become
<1> QED BY ONLY <1>1, <1>2, <1>3, <1>4, <1>5, <1>6, <1>7, Types', ProcsStep, j \in JobType, Carries(j), ForThread(h, j), h \in Threads,
        j.pc \notin {"queue", "rsend"}, D = DecThread(thr, u), DropStep

KeepBuffer(P, p, b) == [P EXCEPT ![p].buffers = IF b THEN @ + 1 ELSE @]
LoseBuffer(P, p, b) == [P EXCEPT ![p].stuck = IF b THEN @ + 1 ELSE @]
\* The buffer of a one-way transaction stays with user space, or with nobody.
LEMMA BufferIs ==
  ASSUME NEW P \in [Procs -> ProcType], NEW p \in Procs, NEW b \in BOOLEAN, NEW E
  PROVE  /\ E = KeepBuffer(P, p, b) =>
              /\ E \in [Procs -> ProcType] /\ (\A q \in Procs : q # p => E[q] = P[q])
              /\ \A q \in Procs : /\ E[q].life = P[q].life /\ E[q].tmp = P[q].tmp /\ E[q].todo = P[q].todo
                                  /\ E[q].async_todo = P[q].async_todo /\ E[q].has_async = P[q].has_async
                                  /\ E[q].requested = P[q].requested /\ E[q].started = P[q].started
                                  /\ E[q].buffers = P[q].buffers + One(b /\ q = p) /\ E[q].stuck = P[q].stuck
         /\ E = LoseBuffer(P, p, b) =>
              /\ E \in [Procs -> ProcType] /\ (\A q \in Procs : q # p => E[q] = P[q])
              /\ \A q \in Procs : /\ E[q].life = P[q].life /\ E[q].tmp = P[q].tmp /\ E[q].todo = P[q].todo
                                  /\ E[q].async_todo = P[q].async_todo /\ E[q].has_async = P[q].has_async
                                  /\ E[q].requested = P[q].requested /\ E[q].started = P[q].started
                                  /\ E[q].stuck = P[q].stuck + One(b /\ q = p) /\ E[q].buffers = P[q].buffers
<1>1. \A q \in Procs : P[q] \in ProcType /\ P[q].buffers \in Nat /\ P[q].stuck \in Nat
  BY DEF ProcType
<1>2. PICK n \in Nat, m \in Nat : (n = IF b THEN P[p].buffers + 1 ELSE P[p].buffers) /\ (m = IF b THEN P[p].stuck + 1 ELSE P[p].stuck)
  BY <1>1
<1>3. [P[p] EXCEPT !.buffers = n] \in ProcType /\ [P[p] EXCEPT !.stuck = m] \in ProcType
  BY <1>1, <1>2 DEF ProcType
<1>4. n = P[p].buffers + One(b) /\ m = P[p].stuck + One(b)
  BY <1>1, <1>2 DEF One
<1>5. ASSUME E = KeepBuffer(P, p, b)
      PROVE  /\ E \in [Procs -> ProcType] /\ (\A q \in Procs : q # p => E[q] = P[q]) /\ E[p] = [P[p] EXCEPT !.buffers = n]
  <2>1. E = [P EXCEPT ![p] = [P[p] EXCEPT !.buffers = n]]
    BY <1>2, <1>5 DEF KeepBuffer
  <2> QED BY <1>3, <2>1
<1>6. ASSUME E = LoseBuffer(P, p, b)
      PROVE  /\ E \in [Procs -> ProcType] /\ (\A q \in Procs : q # p => E[q] = P[q]) /\ E[p] = [P[p] EXCEPT !.stuck = m]
  <2>1. E = [P EXCEPT ![p] = [P[p] EXCEPT !.stuck = m]]
    BY <1>2, <1>6 DEF LoseBuffer
  <2> QED BY <1>3, <2>1
<1>7. ASSUME E = KeepBuffer(P, p, b), NEW q \in Procs
      PROVE  /\ E[q].life = P[q].life /\ E[q].tmp = P[q].tmp /\ E[q].todo = P[q].todo
             /\ E[q].async_todo = P[q].async_todo /\ E[q].has_async = P[q].has_async
             /\ E[q].requested = P[q].requested /\ E[q].started = P[q].started
             /\ E[q].buffers = P[q].buffers + One(b /\ q = p) /\ E[q].stuck = P[q].stuck
  <2>1. CASE q = p
    BY <1>1, <1>4, <1>5, <1>7, <2>1 DEF ProcType, One
  <2>2. CASE q # p
    BY <1>1, <1>5, <1>7, <2>2 DEF One
  <2> QED BY <2>1, <2>2
<1>8. ASSUME E = LoseBuffer(P, p, b), NEW q \in Procs
      PROVE  /\ E[q].life = P[q].life /\ E[q].tmp = P[q].tmp /\ E[q].todo = P[q].todo
             /\ E[q].async_todo = P[q].async_todo /\ E[q].has_async = P[q].has_async
             /\ E[q].requested = P[q].requested /\ E[q].started = P[q].started
             /\ E[q].stuck = P[q].stuck + One(b /\ q = p) /\ E[q].buffers = P[q].buffers
  <2>1. CASE q = p
    BY <1>1, <1>4, <1>6, <1>8, <2>1 DEF ProcType, One
  <2>2. CASE q # p
    BY <1>1, <1>6, <1>8, <2>2 DEF One
  <2> QED BY <2>1, <2>2
<1> QED BY <1>5, <1>6, <1>7, <1>8

\* What thread h has when it delivers.
LEMMA DeliverHas ==
  ASSUME NEW a, NEW o, NEW r, NEW c, NEW d, Core(a, o, r, c, d), NEW h \in Threads, job[h].pc = "deliver", NEW t, t = job[h].t
  PROVE  /\ t \in Txns /\ a[t] = "deliver" /\ o[t] = h /\ r[t] = None /\ txn[t].to_proc = ProcOf[h] /\ txn[t].to_thread \in {None, h}
         /\ txn[t].kind \in {"call", "async", "reply"} /\ (txn[t].kind # "call" => txn[t].from = None)
         /\ txn[t].from \in {None, job[h].target} /\ \A w \in Txns : With(w, job[h]) => w = t
<1>1. /\ Types /\ job[h] \in JobType /\ Carries(job[h]) /\ Holds(a, o, h, job[h]) /\ \A w \in Txns : Fits(a, o, r, w)
  BY CoreIs, TaskHolds, Marks
<1>2. t \in Txns /\ job[h].re = None
  BY <1>1, Marks DEF Carries, JobType, Parents
<1>3. a[t] = "deliver" /\ o[t] = h
  BY <1>1, <1>2, Marks DEF Holds
<1>4. txn[t].kind \in {"free", "call", "async", "reply"}
  BY <1>1, <1>2 DEF Types, TxnType
<1> QED BY <1>1, <1>2, <1>3, <1>4, Marks DEF Fits, With

\* A transaction that is no call is delivered, or lost, and freed.
LEMMA EndStep ==
  ASSUME NEW a, NEW o, NEW r, NEW c, NEW d, Core(a, o, r, c, d), NEW h \in Threads, job[h].pc = "deliver",
         NEW t, t = job[h].t, txn[t].kind # "call",
         NEW u, u = job[h].target, NEW D, D = DecThread(thr, u), NEW E, E = DecThreadProc(prc, D, u),
         Become(h, Idle), thr' = D, Frees(t), calls' = calls, faults' \in 0 .. Faults, prc' \in [Procs -> ProcType],
         \A q \in Procs : /\ prc'[q].life = E[q].life /\ prc'[q].tmp = E[q].tmp /\ prc'[q].todo = prc[q].todo
                          /\ prc'[q].async_todo = prc[q].async_todo /\ prc'[q].has_async = prc[q].has_async
                          /\ prc'[q].requested + prc'[q].started <= MaxThreads
                          /\ prc'[q].buffers + prc'[q].stuck =
                               prc[q].buffers + prc[q].stuck + One(txn[t].kind = "async" /\ q = ProcOf[h])
  PROVE  TxnInv'
<1>g. PICK a2, o2 : a2 = Put(a, t, "none") /\ o2 = Put(o, t, None)
  OBVIOUS
<1>1. /\ Base /\ Types /\ Turns(a) /\ h \in Tasks /\ h # Worker /\ PlaceType(a, o, r) /\ job[h] \in JobType /\ Carries(job[h])
      /\ ForThread(h, job[h])
  BY CoreIs, TaskHolds, Marks
<1>2. /\ t \in Txns /\ a[t] = "deliver" /\ o[t] = h /\ r[t] = None /\ txn[t].to_proc = ProcOf[h]
      /\ \A w \in Txns : With(w, job[h]) => w = t
  BY DeliverHas
<1>3. /\ D \in [Threads -> ThreadType]
      /\ \A g \in Threads : /\ D[g].dead = thr[g].dead /\ D[g].todo = thr[g].todo
                            /\ ~thr[g].dead => SameRun(D[g], thr[g])
                            /\ D[g].waiting => SameRun(D[g], thr[g])
      /\ job[h].dying = None /\ job[h].proc = None
  BY DeliverDrops
<1>4. ForThread(h, Idle) /\ Carries(Idle) /\ Idle \in JobType
  BY <1>1, ThreadGoesOn
<1>i. /\ Idle.pc = "idle" /\ Idle.t = None /\ Idle.re = None /\ Idle.target = None /\ Idle.proc = None /\ Idle.dying = None
  BY DEF Idle
<1>5. Types'
  BY <1>1, <1>3, <1>4 DEF Types, Become, Frees, TxnType, NoTxn, Parents
<1>6. ProcsStep
  BY DEF ProcsStep
<1>7. Base' /\ LifeStep /\ \A g \in Threads : thr'[g].dead = thr[g].dead
  <2>1. \A g \in Threads : /\ SameLife(thr'[g], D[g]) /\ thr'[g].todo = D[g].todo /\ thr'[g].process_todo = D[g].process_todo
                           /\ thr'[g].waiting => D[g].waiting /\ thr'[g].stack = D[g].stack
    BY DEF SameLife
  <2>2. \A p \in Procs : prc'[p].life = E[p].life /\ prc'[p].tmp = E[p].tmp
    OBVIOUS
  <2>3. Idle.target = None /\ Idle.proc = None /\ Idle.dying = None /\ Idle.pc \notin {"queue", "rsend"}
    BY <1>i
  <2> QED BY ONLY <1>4, <1>5, <1>6, <2>1, <2>2, <2>3, Core(a, o, r, c, d), h \in Threads, job[h].pc = "deliver", u = job[h].target,
          D = DecThread(thr, u), E = DecThreadProc(prc, D, u), Become(h, Idle), DeliverBase
<1>8. SameStacks /\ ListsStay
  <2>1. SameStacks
    BY <1>3 DEF SameStacks, SameRun
  <2>2. ListsStay
    BY <1>3, KeptSame DEF ListsStay
  <2> QED BY <2>1, <2>2
<1>9. /\ GhostType(a2, o2, r, c, d) /\ Placed(a2, o2, r)' /\ Linked(a2, o2, r, c, d)'
  <2>1. /\ None \in Parents /\ a[t] \in {"built", "queue", "deliver", "done"} /\ (a[t] \in {"queue", "deliver"} => txn[t].kind # "call")
        /\ \A w \in Txns : With(w, job[h]) => w \in {t, None}
    BY <1>2 DEF Parents
  <2>2. /\ (None # None => a[None] = "job" /\ o[None] = h /\ Idle.pc = "fail1")
        /\ Idle.t = None /\ Idle.re = None /\ Idle.pc \notin {"walk", "built", "deliver"} /\ job[h].pc # "walk" /\ Idle.dying = job[h].dying
        /\ (h = Worker => Idle.proc = job[h].proc)
    BY <1>i, <1>3
  <2> QED BY ONLY <1>1, <1>2, <1>4, <1>5, <1>8, <1>g, <2>1, <2>2, Core(a, o, r, c, d), Become(h, Idle), Frees(t), FreedStep
<1>10. Turns(a2)'
  <2>1. a2[t] = "none" /\ \A w \in Txns : w # t => a2[w] = a[w]
    BY <1>1, <1>2, <1>g DEF Put, PlaceType
  <2>2. \A w \in Txns : w # t => txn'[w] = txn[w]
    BY DEF Frees
  <2>3. ASSUME NEW q \in Procs, prc'[q].life = "open"
        PROVE  /\ Cardinality(Turn(q, a2))' + prc'[q].buffers + prc'[q].stuck = IF prc'[q].has_async THEN 1 ELSE 0
               /\ Len(prc'[q].async_todo) > 0 => prc'[q].has_async
    <3>1. prc[q].life = "open"
      BY <1>7, <2>3 DEF LifeStep
    <3>2. \A w \in Txns : w # t => (w \in Turn(q, a2)' <=> w \in Turn(q, a))
      BY <2>1, <2>2 DEF Turn
    <3>3. t \notin Turn(q, a2)' /\ (t \in Turn(q, a) <=> txn[t].kind = "async" /\ q = ProcOf[h])
      BY <1>2, <2>1 DEF Turn
    <3>4. /\ Cardinality(Turn(q, a2))' \in Nat /\ Cardinality(Turn(q, a)) \in Nat
          /\ Cardinality(Turn(q, a2))' = Cardinality(Turn(q, a)) + One(t \in Turn(q, a2)') - One(t \in Turn(q, a))
      BY <3>2, TurnStep
    <3>5. One(t \in Turn(q, a2)') = 0 /\ One(t \in Turn(q, a)) = One(txn[t].kind = "async" /\ q = ProcOf[h])
      BY <3>3 DEF One
    <3>6. Cardinality(Turn(q, a)) + prc[q].buffers + prc[q].stuck = IF prc[q].has_async THEN 1 ELSE 0
      BY <1>1, <3>1 DEF Turns
    <3>7. prc[q].buffers \in Nat /\ prc[q].stuck \in Nat /\ prc'[q].buffers \in Nat /\ prc'[q].stuck \in Nat
      BY <1>1 DEF Types, ProcType
    <3>n. PICK n : n = One(txn[t].kind = "async" /\ q = ProcOf[h])
      OBVIOUS
    <3>8. n \in Nat
      BY <3>n DEF One
    <3>a. prc'[q].buffers + prc'[q].stuck = prc[q].buffers + prc[q].stuck + n
      BY <3>n
    <3>b. Cardinality(Turn(q, a2))' = Cardinality(Turn(q, a)) - n
      BY <3>4, <3>5, <3>n, <3>8
    <3>9. Cardinality(Turn(q, a2))' + prc'[q].buffers + prc'[q].stuck = Cardinality(Turn(q, a)) + prc[q].buffers + prc[q].stuck
      BY ONLY <3>4, <3>7, <3>8, <3>a, <3>b
    <3>10. Len(prc'[q].async_todo) > 0 => prc'[q].has_async
      BY <1>1, <3>1 DEF Turns
    <3> QED BY <3>6, <3>9, <3>10
  <2> QED BY <2>3 DEF Turns
<1> QED BY <1>7, <1>9, <1>10, CoreStep

\* A one-way transaction or a reply is delivered.
LEMMA DeliverEnd ==
  ASSUME TxnInv, NEW h \in Threads, Deliver(h), txn[job[h].t].kind # "call"
  PROVE  TxnInv'
<1>0. PICK a, o, r, c, d : Core(a, o, r, c, d)
  BY DEF TxnInv
<1>p. PICK t, u, p, b : t = job[h].t /\ u = job[h].target /\ p = ProcOf[h] /\ (b <=> txn[t].kind = "async") /\ b \in BOOLEAN
  OBVIOUS
<1>d. PICK D : D = DecThread(thr, u)
  OBVIOUS
<1>e. PICK E : E = DecThreadProc(prc, D, u)
  OBVIOUS
<1>f. PICK F : F = EndRead(E, h)
  OBVIOUS
<1>1. Types /\ PoolBound /\ p \in Procs
  BY <1>0, <1>p, CoreIs, Marks
<1>2. /\ job[h].pc = "deliver" /\ Become(h, Idle) /\ thr' = D /\ Frees(t) /\ calls' = calls /\ faults' = faults
      /\ txn[t].kind # "call"
  BY <1>p, <1>d DEF Deliver, Frees
<1>3. prc' = KeepBuffer(F, p, b)
  BY <1>2, <1>p, <1>d, <1>e, <1>f DEF Deliver, KeepBuffer
<1>4. E \in [Procs -> ProcType] /\ \A q \in Procs : SameWork(E[q], prc[q])
  BY <1>0, <1>2, <1>p, <1>d, <1>e, DeliverDrops
<1>5. /\ F \in [Procs -> ProcType] /\ \A q \in Procs : SameProc(F[q], E[q]) /\ F[q].requested + F[q].started <= MaxThreads
  <2>1. \A q \in Procs : E[q].requested = prc[q].requested /\ E[q].started = prc[q].started
    BY <1>4 DEF SameWork
  <2> QED BY <1>1, <1>4, <1>f, <2>1, EndReadIs
<1>6. /\ prc' \in [Procs -> ProcType]
      /\ \A q \in Procs : /\ prc'[q].life = F[q].life /\ prc'[q].tmp = F[q].tmp /\ prc'[q].todo = F[q].todo
                          /\ prc'[q].async_todo = F[q].async_todo /\ prc'[q].has_async = F[q].has_async
                          /\ prc'[q].requested = F[q].requested /\ prc'[q].started = F[q].started
                          /\ prc'[q].buffers = F[q].buffers + One(b /\ q = p) /\ prc'[q].stuck = F[q].stuck
  BY <1>1, <1>3, <1>5, <1>p, BufferIs
<1>7. ASSUME NEW q \in Procs
      PROVE  /\ prc'[q].life = E[q].life /\ prc'[q].tmp = E[q].tmp /\ prc'[q].todo = prc[q].todo
             /\ prc'[q].async_todo = prc[q].async_todo /\ prc'[q].has_async = prc[q].has_async
             /\ prc'[q].requested + prc'[q].started <= MaxThreads
             /\ prc'[q].buffers + prc'[q].stuck = prc[q].buffers + prc[q].stuck + One(txn[t].kind = "async" /\ q = ProcOf[h])
  <2>1. One(b /\ q = p) = One(txn[t].kind = "async" /\ q = ProcOf[h]) /\ One(b /\ q = p) \in Nat
    BY <1>p DEF One
  <2>2. prc[q].buffers \in Nat /\ prc[q].stuck \in Nat /\ F[q].buffers = prc[q].buffers /\ F[q].stuck = prc[q].stuck
    BY <1>1, <1>4, <1>5 DEF Types, ProcType, SameWork, SameProc
  <2>3. prc'[q].buffers = prc[q].buffers + One(b /\ q = p) /\ prc'[q].stuck = prc[q].stuck
    BY <1>6, <2>2
  <2>4. prc'[q].buffers + prc'[q].stuck = prc[q].buffers + prc[q].stuck + One(b /\ q = p)
    BY ONLY <2>1, <2>2, <2>3
  <2> QED BY <1>4, <1>5, <1>6, <2>1, <2>4 DEF SameWork, SameProc
<1>8. faults' \in 0 .. Faults
  BY <1>1, <1>2 DEF Types
<1> QED BY ONLY <1>0, <1>1, <1>2, <1>p, <1>d, <1>e, <1>6, <1>7, <1>8, EndStep, h \in Threads

\* The job of a thread whose delivery failed, with something that is no call.
LEMMA CleanupIdle ==
  ASSUME NEW a, NEW o, NEW r, NEW c, NEW d, Core(a, o, r, c, d), NEW h \in Threads, job[h].pc = "deliver", NEW t, t = job[h].t,
         txn[t].kind # "call", Cleanup(h, job[h].t, "idle")
  PROVE  Become(h, Idle) /\ Frees(t)
<1>1. job[h] \in JobType
  BY TaskHolds, Marks
<1>2. job[h].dying = None /\ job[h].proc = None /\ job[h].re = None /\ job[h].next = "idle"
  BY DeliverDrops
<1>3. [job[h] EXCEPT !.pc = "idle", !.t = None, !.target = None] = Idle
  <2>1. PICK j : j = [job[h] EXCEPT !.pc = "idle", !.t = None, !.target = None]
    OBVIOUS
  <2>2. /\ j \in JobType /\ j.pc = "idle" /\ j.t = None /\ j.target = None /\ j.re = job[h].re /\ j.proc = job[h].proc
        /\ j.dying = job[h].dying /\ j.next = job[h].next
    BY <1>1, <2>1 DEF JobType, Parents
  <2>3. j = Idle
    BY <1>2, <2>2 DEF JobType, Idle
  <2> QED BY <2>1, <2>3
<1> QED BY <1>3 DEF Cleanup, Become, Frees

\* The reader's memory cannot be written; what is lost is no call.
LEMMA CopyFailsEnd ==
  ASSUME TxnInv, NEW h \in Threads, CopyFails(h), txn[job[h].t].kind # "call"
  PROVE  TxnInv'
<1>0. PICK a, o, r, c, d : Core(a, o, r, c, d)
  BY DEF TxnInv
<1>p. PICK t, u, p, b : t = job[h].t /\ u = job[h].target /\ p = ProcOf[h] /\ (b <=> txn[t].kind = "async") /\ b \in BOOLEAN
  OBVIOUS
<1>d. PICK D : D = DecThread(thr, u)
  OBVIOUS
<1>e. PICK E : E = DecThreadProc(prc, D, u)
  OBVIOUS
<1>1. Types /\ PoolBound /\ p \in Procs
  BY <1>0, <1>p, CoreIs, Marks
<1>2. /\ job[h].pc = "deliver" /\ thr' = D /\ Cleanup(h, job[h].t, "idle") /\ calls' = calls /\ txn[t].kind # "call"
      /\ faults < Faults /\ faults' = faults + 1
  BY <1>p, <1>d DEF CopyFails, Fault
<1>c. Become(h, Idle) /\ Frees(t)
  BY <1>0, <1>2, <1>p, CleanupIdle
<1>3. prc' = LoseBuffer(E, p, b)
  BY <1>2, <1>p, <1>d, <1>e DEF CopyFails, LoseBuffer
<1>4. E \in [Procs -> ProcType] /\ \A q \in Procs : SameWork(E[q], prc[q])
  BY <1>0, <1>2, <1>p, <1>d, <1>e, DeliverDrops
<1>6. /\ prc' \in [Procs -> ProcType]
      /\ \A q \in Procs : /\ prc'[q].life = E[q].life /\ prc'[q].tmp = E[q].tmp /\ prc'[q].todo = E[q].todo
                          /\ prc'[q].async_todo = E[q].async_todo /\ prc'[q].has_async = E[q].has_async
                          /\ prc'[q].requested = E[q].requested /\ prc'[q].started = E[q].started
                          /\ prc'[q].stuck = E[q].stuck + One(b /\ q = p) /\ prc'[q].buffers = E[q].buffers
  BY <1>1, <1>3, <1>4, <1>p, BufferIs
<1>7. ASSUME NEW q \in Procs
      PROVE  /\ prc'[q].life = E[q].life /\ prc'[q].tmp = E[q].tmp /\ prc'[q].todo = prc[q].todo
             /\ prc'[q].async_todo = prc[q].async_todo /\ prc'[q].has_async = prc[q].has_async
             /\ prc'[q].requested + prc'[q].started <= MaxThreads
             /\ prc'[q].buffers + prc'[q].stuck = prc[q].buffers + prc[q].stuck + One(txn[t].kind = "async" /\ q = ProcOf[h])
  <2>1. One(b /\ q = p) = One(txn[t].kind = "async" /\ q = ProcOf[h]) /\ One(b /\ q = p) \in Nat
    BY <1>p DEF One
  <2>2. prc[q].buffers \in Nat /\ prc[q].stuck \in Nat /\ E[q].buffers = prc[q].buffers /\ E[q].stuck = prc[q].stuck
    BY <1>1, <1>4 DEF Types, ProcType, SameWork
  <2>3. prc'[q].stuck = prc[q].stuck + One(b /\ q = p) /\ prc'[q].buffers = prc[q].buffers
    BY <1>6, <2>2
  <2>4. prc'[q].buffers + prc'[q].stuck = prc[q].buffers + prc[q].stuck + One(b /\ q = p)
    BY ONLY <2>1, <2>2, <2>3
  <2> QED BY <1>1, <1>4, <1>6, <2>1, <2>4 DEF SameWork, PoolBound
<1>8. faults' \in 0 .. Faults
  BY <1>1, <1>2, Marks DEF Types
<1> QED BY ONLY <1>0, <1>1, <1>2, <1>c, <1>p, <1>d, <1>e, <1>6, <1>7, <1>8, EndStep, h \in Threads

\* The file descriptors of a reply cannot be installed.
LEMMA FixupsFailReply ==
  ASSUME TxnInv, NEW h \in Threads, FixupsFail(h), txn[job[h].t].kind \notin {"call", "async"}
  PROVE  TxnInv'
<1>0. PICK a, o, r, c, d : Core(a, o, r, c, d)
  BY DEF TxnInv
<1>p. PICK t, u : t = job[h].t /\ u = job[h].target
  OBVIOUS
<1>d. PICK D : D = DecThread(thr, u)
  OBVIOUS
<1>e. PICK E : E = DecThreadProc(prc, D, u)
  OBVIOUS
<1>1. Types /\ PoolBound
  BY <1>0, <1>p, CoreIs, Marks
<1>2. /\ job[h].pc = "deliver" /\ thr' = D /\ Cleanup(h, job[h].t, "idle") /\ calls' = calls /\ txn[t].kind # "call"
      /\ faults < Faults /\ faults' = faults + 1 /\ prc' = E /\ txn[t].kind # "async"
  BY <1>p, <1>d, <1>e DEF FixupsFail, Fault
<1>c. Become(h, Idle) /\ Frees(t)
  BY <1>0, <1>2, <1>p, CleanupIdle
<1>4. E \in [Procs -> ProcType] /\ \A q \in Procs : SameWork(E[q], prc[q])
  BY <1>0, <1>2, <1>p, <1>d, <1>e, DeliverDrops
<1>7. ASSUME NEW q \in Procs
      PROVE  /\ prc'[q].life = E[q].life /\ prc'[q].tmp = E[q].tmp /\ prc'[q].todo = prc[q].todo
             /\ prc'[q].async_todo = prc[q].async_todo /\ prc'[q].has_async = prc[q].has_async
             /\ prc'[q].requested + prc'[q].started <= MaxThreads
             /\ prc'[q].buffers + prc'[q].stuck = prc[q].buffers + prc[q].stuck + One(txn[t].kind = "async" /\ q = ProcOf[h])
  <2>1. One(txn[t].kind = "async" /\ q = ProcOf[h]) = 0
    BY <1>2 DEF One
  <2>2. prc[q].buffers \in Nat /\ prc[q].stuck \in Nat
    BY <1>1 DEF Types, ProcType
  <2> QED BY <1>1, <1>2, <1>4, <2>1, <2>2 DEF SameWork, PoolBound
<1>8. faults' \in 0 .. Faults /\ prc' \in [Procs -> ProcType]
  BY <1>1, <1>2, <1>4, Marks DEF Types
<1> QED BY ONLY <1>0, <1>1, <1>2, <1>c, <1>p, <1>d, <1>e, <1>7, <1>8, EndStep, h \in Threads

-----------------------------------------------------------------------------
(* The next one-way transaction of a node has its turn.                    *)

\* The first transaction of async_todo.
LEMMA NextIs ==
  ASSUME NEW a, NEW o, NEW r, NEW c, NEW d, Core(a, o, r, c, d), NEW p \in Procs, NEW L, L = prc[p].async_todo, Len(L) > 0,
         NEW n, n = Head(L)
  PROVE  /\ n \in Txns /\ a[n] = "async" /\ o[n] = p /\ r[n] = None /\ txn[n].kind = "async" /\ txn[n].to_proc = p
         /\ txn[n].to_thread = None /\ txn[n].from = None /\ L \in Seq(Txns) /\ Tail(L) \in Seq(Txns) /\ Len(Tail(L)) \in Nat
<1>1. /\ Types /\ Listed(a, o) /\ PlaceType(a, o, r) /\ \A w \in Txns : Fits(a, o, r, w)
  BY CoreIs
<1>2. L \in Seq(Txns) /\ L \in Seq(Txns \cup Words) /\ ListIs(L, "async", p, a, o)
  BY <1>1, ListedIs
<1>3. n \in Txns /\ Tail(L) \in Seq(Txns)
  BY <1>2
<1>4. n \in In(L)
  BY <1>2, <1>3, TailIn
<1>5. a[n] = "async" /\ o[n] = p
  BY <1>2, <1>3, <1>4 DEF ListIs
<1>6. txn[n] \in TxnType /\ Fits(a, o, r, n)
  BY <1>1, <1>3, TypeFacts
<1>7. txn[n].kind = "async"
  BY <1>5, <1>6 DEF Fits, TxnType
<1> QED BY <1>2, <1>3, <1>5, <1>6, <1>7 DEF Fits

\* It goes from async_todo to the list of the process.
NextGoes(p, n) ==
  /\ \A g \in Threads : thr'[g].todo = thr[g].todo
  /\ \A q \in Procs : q # p => prc'[q].todo = prc[q].todo /\ prc'[q].async_todo = prc[q].async_todo
  /\ prc'[p].todo = Append(prc[p].todo, n) /\ prc'[p].async_todo = Tail(prc[p].async_todo)
\* What else happens to transaction w: nothing, or the task that has it frees it.
Besides(w, h, n, a, o, r, a2, o2) ==
  /\ Moves(w, h, n, a, o, r, a2, o2) /\ ~(a2[w] \in Taken /\ o2[w] = h)
  /\ a2[w] = "todo" => a[w] = "todo" /\ txn'[w] = txn[w] /\ o2[w] = o[w]
\* The transactions after that.
LEMMA NextPlaced ==
  ASSUME NEW a, NEW o, NEW r, NEW c, NEW d, Core(a, o, r, c, d), NEW a2, NEW o2, PlaceType(a2, o2, r),
         NEW h \in Threads, Become(h, Idle), job[h].pc # "walk", Types', NEW p \in Procs, Len(prc[p].async_todo) > 0,
         NEW n, n = Head(prc[p].async_todo),
         \A w \in Txns : w # n => Besides(w, h, n, a, o, r, a2, o2),
         txn'[n] = txn[n], a2[n] = "ptodo", o2[n] = p, NextGoes(p, n), SameStacks
  PROVE  GhostType(a2, o2, r, c, d) /\ Placed(a2, o2, r)' /\ Linked(a2, o2, r, c, d)'
<1>1. Types /\ h \in Tasks /\ h # Worker /\ (\A w \in Txns : Fits(a, o, r, w)) /\ PlaceType(a, o, r)
  BY CoreIs, Marks
<1>2. /\ n \in Txns /\ a[n] = "async" /\ o[n] = p /\ r[n] = None /\ txn[n].kind = "async" /\ txn[n].to_proc = p
      /\ txn[n].to_thread = None /\ txn[n].from = None
  BY NextIs
<1>3. job'[h] = Idle /\ (\A y \in Tasks : y # h => job'[y] = job[y]) /\ Idle.pc = "idle" /\ Idle.t = None /\ Idle.re = None
  BY <1>1, TypeFacts DEF Become, Idle, Types
<1>f. Fits(a2, o2, r, n)'
  <2>1. Fits(a, o, r, n)
    BY <1>1, <1>2
  <2> QED BY <1>2, <2>1, Marks DEF Fits
<1>4. Moves(n, h, n, a, o, r, a2, o2)
  <2>1. Shifts(n, h, n, a, o, r, a2, o2)
    BY <1>2 DEF Shifts, Taken
  <2> QED BY <2>1, <1>f DEF Moves
<1>5. \A w \in Txns : Moves(w, h, n, a, o, r, a2, o2)
  BY <1>4 DEF Besides
<1>6. HasNow(h, a2, o2, r)
  <2>1. \A w \in Txns : ~(a2[w] \in Taken /\ o2[w] = h)
    BY <1>2 DEF Besides, Taken
  <2>2. Holds(a2, o2, h, job'[h])
    BY <1>3 DEF Holds
  <2> QED BY <2>1, <2>2 DEF HasNow
<1>7. ListsGo(n, a, o, a2, o2)
  <2>1. \A g \in Threads : Goes(thr[g].todo, thr'[g].todo, "todo", g, n, a, o, a2, o2)
    BY <1>2 DEF Goes, NextGoes, Stay
  <2>2. \A q \in Procs : Goes(prc[q].todo, prc'[q].todo, "ptodo", q, n, a, o, a2, o2)
    BY <1>2 DEF Goes, NextGoes, Stay
  <2>3. \A q \in Procs : Goes(prc[q].async_todo, prc'[q].async_todo, "async", q, n, a, o, a2, o2)
    BY <1>2 DEF Goes, NextGoes, Stay
  <2> QED BY <2>1, <2>2, <2>3 DEF ListsGo
<1>8. /\ h \in Threads => Starts(h, a, r, c) /\ (job'[h].pc \in {"built", "deliver"} => ~thr[h].dead)
      /\ (job'[h].pc = "walk" \/ job[h].pc = "walk" => job'[h] = job[h])
  BY <1>3 DEF Starts
<1>9. FreshStep(h, a, o, a2, o2)
  <2>1. ASSUME NEW g \in Threads, ~thr[g].dead, NEW w \in Txns, Fresh(w, g, a2, o2)' PROVE FreshOk(w, g, h, a, o)
    <3>1. w # n /\ a[w] = "todo" /\ txn'[w] = txn[w] /\ o2[w] = o[w]
      BY <2>1 DEF Fresh, Besides
    <3>2. Fresh(w, g, a, o)
      BY <2>1, <3>1 DEF Fresh
    <3> QED BY <1>3, <3>2 DEF FreshOk, NextGoes
  <2> QED BY <2>1 DEF FreshStep
<1> QED BY ONLY <1>1, <1>3, <1>5, <1>6, <1>7, <1>8, <1>9, MoveStep, Core(a, o, r, c, d), PlaceType(a2, o2, r), Types', SameStacks

FreeOne(P, p) == [P EXCEPT ![p].buffers = @ - 1]
\* A buffer is freed.
LEMMA FreeOneIs ==
  ASSUME NEW P \in [Procs -> ProcType], NEW p \in Procs, P[p].buffers > 0, NEW E, E = FreeOne(P, p)
  PROVE  /\ E \in [Procs -> ProcType] /\ (\A q \in Procs : q # p => E[q] = P[q])
         /\ E[p].life = P[p].life /\ E[p].tmp = P[p].tmp /\ E[p].todo = P[p].todo
         /\ E[p].async_todo = P[p].async_todo /\ E[p].has_async = P[p].has_async
         /\ E[p].requested = P[p].requested /\ E[p].started = P[p].started
         /\ E[p].buffers = P[p].buffers - 1 /\ E[p].stuck = P[p].stuck
<1>1. P[p] \in ProcType /\ P[p].buffers \in Nat
  BY DEF ProcType
<1>2. PICK n \in Nat : n = P[p].buffers - 1
  BY <1>1
<1>3. [P[p] EXCEPT !.buffers = n] \in ProcType
  BY <1>1, <1>2 DEF ProcType
<1>4. E = [P EXCEPT ![p] = [P[p] EXCEPT !.buffers = n]]
  BY <1>2 DEF FreeOne
<1>5. /\ E \in [Procs -> ProcType] /\ (\A q \in Procs : q # p => E[q] = P[q]) /\ E[p] = [P[p] EXCEPT !.buffers = n]
  BY <1>3, <1>4
<1> QED BY <1>1, <1>2, <1>5 DEF ProcType

\* binder_free_buf() of a one-way transaction.
LEMMA NextAsyncIs ==
  ASSUME NEW P \in [Procs -> ProcType], NEW p \in Procs, NEW E, E = NextAsync(P, p)
  PROVE  /\ E \in [Procs -> ProcType] /\ (\A q \in Procs : q # p => E[q] = P[q])
         /\ E[p].life = P[p].life /\ E[p].tmp = P[p].tmp
         /\ E[p].requested = P[p].requested /\ E[p].started = P[p].started
         /\ E[p].buffers = P[p].buffers /\ E[p].stuck = P[p].stuck
         /\ Len(P[p].async_todo) = 0 =>
              E[p].todo = P[p].todo /\ E[p].async_todo = P[p].async_todo /\ ~E[p].has_async
         /\ Len(P[p].async_todo) # 0 =>
              /\ E[p].todo = Append(P[p].todo, Head(P[p].async_todo)) /\ E[p].async_todo = Tail(P[p].async_todo)
              /\ E[p].has_async = P[p].has_async
<1>1. P[p] \in ProcType /\ P[p].todo \in Seq(Txns) /\ P[p].async_todo \in Seq(Txns)
  BY DEF ProcType
<1>2. CASE Len(P[p].async_todo) = 0
  <2>1. [P[p] EXCEPT !.has_async = FALSE] \in ProcType
    BY <1>1 DEF ProcType
  <2>2. E = [P EXCEPT ![p] = [P[p] EXCEPT !.has_async = FALSE]]
    BY <1>2 DEF NextAsync
  <2>3. /\ E \in [Procs -> ProcType] /\ (\A q \in Procs : q # p => E[q] = P[q]) /\ E[p] = [P[p] EXCEPT !.has_async = FALSE]
    BY <2>1, <2>2
  <2> QED BY <1>1, <1>2, <2>3 DEF ProcType
<1>3. CASE Len(P[p].async_todo) # 0
  <2>0. PICK L, K : L = Append(P[p].todo, Head(P[p].async_todo)) /\ K = Tail(P[p].async_todo)
    OBVIOUS
  <2>1. L \in Seq(Txns) /\ K \in Seq(Txns)
    BY <1>1, <1>3, <2>0
  <2>2. [P[p] EXCEPT !.todo = L, !.async_todo = K] \in ProcType
    BY <1>1, <2>1 DEF ProcType
  <2>3. E = [P EXCEPT ![p] = [P[p] EXCEPT !.todo = L, !.async_todo = K]]
    BY <1>3, <2>0 DEF NextAsync
  <2>4. /\ E \in [Procs -> ProcType] /\ (\A q \in Procs : q # p => E[q] = P[q]) /\ E[p] = [P[p] EXCEPT !.todo = L, !.async_todo = K]
    BY <2>2, <2>3
  <2> QED BY <1>1, <1>3, <2>0, <2>4 DEF ProcType
<1> QED BY <1>2, <1>3

\* A thread that waits is woken for it.
LEMMA WakeNextIs ==
  ASSUME NEW T \in [Threads -> ThreadType], NEW p \in Procs, NEW e \in Select(p), NEW E, E = WakeNext(T, p, e)
  PROVE  /\ E \in [Threads -> ThreadType]
         /\ \A g \in Threads : /\ SameLife(E[g], T[g]) /\ E[g].todo = T[g].todo /\ E[g].stack = T[g].stack
                               /\ E[g].process_todo = T[g].process_todo /\ (E[g].waiting => T[g].waiting)
<1>1. e = None \/ e \in Threads
  BY DEF Select, Waiting, ThreadsOf
<1>2. CASE E = T
  BY <1>2 DEF SameLife
<1>3. CASE E # T
  <2>1. e \in Threads /\ E = Awake(T, e)
    BY <1>1, <1>3 DEF WakeNext, Wake, Awake
  <2>2. /\ E \in [Threads -> ThreadType] /\ \A g \in Threads : g # e => E[g] = T[g]
        /\ SameLife(E[e], T[e]) /\ E[e].todo = T[e].todo /\ E[e].stack = T[e].stack
        /\ E[e].process_todo = T[e].process_todo /\ ~E[e].waiting
    BY <2>1, FieldIs
  <2> QED BY <2>2 DEF SameLife
<1> QED BY <1>2, <1>3

\* The turn of p passes to n from t, or from a buffer if t is none.
Passes(p, t, n, a, a2) ==
  /\ \A q \in Procs : q # p => SameWork(prc'[q], prc[q])
  /\ \A w \in Txns : w \notin {n, t} => txn'[w] = txn[w] /\ a2[w] = a[w]
  /\ t \in Txns => txn[t].kind = "async" /\ txn[t].to_proc = p /\ a[t] = "deliver" /\ a2[t] = "none"
  /\ txn'[n] = txn[n] /\ txn[n].kind = "async" /\ txn[n].to_proc = p /\ a[n] = "async" /\ a2[n] = "ptodo"
  /\ prc'[p].stuck = prc[p].stuck /\ prc'[p].has_async = prc[p].has_async /\ prc[p].has_async
  /\ prc'[p].buffers = prc[p].buffers - One(t \notin Txns)
\* The turns after a buffer or a transaction t of process p has ended its turn, with the next one n.
LEMMA TurnPasses ==
  ASSUME NEW a, NEW a2, Types, Types', Turns(a), NEW p \in Procs, prc[p].life = "open", NEW t, NEW n \in Txns, n # t,
         LifeStep, Passes(p, t, n, a, a2)
  PROVE  Turns(a2)'
<1>a. /\ \A q \in Procs : q # p => SameWork(prc'[q], prc[q])
      /\ \A w \in Txns : w \notin {n, t} => txn'[w] = txn[w] /\ a2[w] = a[w]
      /\ t \in Txns => txn[t].kind = "async" /\ txn[t].to_proc = p /\ a[t] = "deliver" /\ a2[t] = "none"
      /\ txn'[n] = txn[n] /\ txn[n].kind = "async" /\ txn[n].to_proc = p /\ a[n] = "async" /\ a2[n] = "ptodo"
      /\ prc'[p].stuck = prc[p].stuck /\ prc'[p].has_async = prc[p].has_async /\ prc[p].has_async
      /\ prc'[p].buffers = prc[p].buffers - One(t \notin Txns)
  BY DEF Passes
<1>0. \A q \in Procs : prc[q].buffers \in Nat /\ prc[q].stuck \in Nat /\ prc'[q].buffers \in Nat /\ prc'[q].stuck \in Nat
  BY DEF Types, ProcType
<1>1. ASSUME NEW q \in Procs, q # p, prc'[q].life = "open" PROVE Turn(q, a2)' = Turn(q, a) /\ prc[q].life = "open"
  <2>1. ASSUME NEW w \in Txns PROVE w \in Turn(q, a2)' <=> w \in Turn(q, a)
    BY <1>1, <1>a DEF Turn
  <2>2. Turn(q, a2)' \subseteq Txns /\ Turn(q, a) \subseteq Txns
    BY DEF Turn
  <2> QED BY <1>1, <2>1, <2>2 DEF LifeStep
<1>2. Cardinality(Turn(p, a)) + prc[p].buffers + prc[p].stuck = 1
  BY <1>a DEF Turns
<1>5. ASSUME Cardinality(Turn(p, a2))' + prc'[p].buffers + prc'[p].stuck = 1 PROVE Turns(a2)'
  <2>1. ASSUME NEW q \in Procs, prc'[q].life = "open"
        PROVE  /\ Cardinality(Turn(q, a2))' + prc'[q].buffers + prc'[q].stuck = IF prc'[q].has_async THEN 1 ELSE 0
               /\ Len(prc'[q].async_todo) > 0 => prc'[q].has_async
    <3>1. CASE q = p
      BY <1>a, <1>5, <3>1
    <3>2. CASE q # p
      <4>1. Turn(q, a2)' = Turn(q, a) /\ prc[q].life = "open" /\ SameWork(prc'[q], prc[q])
        BY <1>a, <1>1, <2>1, <3>2
      <4>2. /\ Cardinality(Turn(q, a)) + prc[q].buffers + prc[q].stuck = IF prc[q].has_async THEN 1 ELSE 0
            /\ Len(prc[q].async_todo) > 0 => prc[q].has_async
        BY <4>1 DEF Turns
      <4> QED BY <4>1, <4>2 DEF SameWork
    <3> QED BY <3>1, <3>2
  <2> QED BY <2>1 DEF Turns
<1>3. CASE t \in Txns
  <2>1. n \notin Turn(p, a) /\ n \in Turn(p, a2)' /\ t \in Turn(p, a) /\ t \notin Turn(p, a2)'
    BY <1>3, <1>a DEF Turn
  <2>2. IsFiniteSet(Turn(p, a)) /\ Turn(p, a) \subseteq Txns
    BY Marks, FS_Subset DEF Turn
  <2>3. PICK S : S = Turn(p, a) \ {t}
    OBVIOUS
  <2>4. IsFiniteSet(S) /\ Cardinality(S) = Cardinality(Turn(p, a)) - 1 /\ Cardinality(S) \in Nat
    BY <2>1, <2>2, <2>3, FS_RemoveElement, FS_CardinalityType
  <2>5. Turn(p, a2)' = S \cup {n} /\ n \notin S
    <3>1. ASSUME NEW w \in Txns PROVE w \in Turn(p, a2)' <=> w \in S \cup {n}
      <4>1. CASE w \in {n, t}
        BY <2>1, <2>3, <4>1
      <4>2. CASE w \notin {n, t}
        BY <1>a, <2>3, <4>2 DEF Turn
      <4> QED BY <4>1, <4>2
    <3>2. Turn(p, a2)' \subseteq Txns /\ S \cup {n} \subseteq Txns
      BY <2>2, <2>3 DEF Turn
    <3> QED BY <2>1, <2>3, <3>1, <3>2
  <2>6. Cardinality(S \cup {n}) = Cardinality(S) + 1
    BY <2>4, <2>5, FS_AddElement
  <2>7. Cardinality(Turn(p, a2))' = Cardinality(Turn(p, a))
    <3>1. Cardinality(Turn(p, a)) \in Nat
      BY <2>2, FS_CardinalityType
    <3>2. Cardinality(S) + 1 = Cardinality(Turn(p, a))
      BY <2>4, <3>1
    <3> QED BY <2>5, <2>6, <3>2
  <2>8. prc'[p].buffers = prc[p].buffers
    BY <1>a, <1>0, <1>3 DEF One
  <2>9. Cardinality(Turn(p, a2))' + prc'[p].buffers + prc'[p].stuck = 1
    BY <1>a, <1>2, <2>7, <2>8
  <2> QED BY <1>5, <2>9
<1>4. CASE t \notin Txns
  <2>1. n \notin Turn(p, a) /\ n \in Turn(p, a2)'
    BY <1>a DEF Turn
  <2>2. \A w \in Txns : w # n => (w \in Turn(p, a2)' <=> w \in Turn(p, a))
    BY <1>a, <1>4 DEF Turn
  <2>3. /\ Cardinality(Turn(p, a2))' \in Nat /\ Cardinality(Turn(p, a)) \in Nat
        /\ Cardinality(Turn(p, a2))' = Cardinality(Turn(p, a)) + One(n \in Turn(p, a2)') - One(n \in Turn(p, a))
    BY <2>2, TurnStep
  <2>4. One(n \in Turn(p, a2)') = 1 /\ One(n \in Turn(p, a)) = 0
    BY <2>1 DEF One
  <2>5. Cardinality(Turn(p, a2))' = Cardinality(Turn(p, a)) + 1
    BY <2>3, <2>4
  <2>6. prc'[p].buffers = prc[p].buffers - 1
    BY <1>a, <1>4 DEF One
  <2>7. Cardinality(Turn(p, a2))' + prc'[p].buffers + prc'[p].stuck = 1
    BY ONLY <1>0, <1>2, <2>3, <2>5, <2>6, <1>a, p \in Procs
  <2> QED BY <1>5, <2>7
<1> QED BY <1>3, <1>4

\* BC_FREE_BUFFER of a one-way transaction.
LEMMA FreeBufferStep ==
  ASSUME TxnInv, NEW h \in Threads, FreeBuffer(h)
  PROVE  TxnInv'
<1>0. PICK a, o, r, c, d : Core(a, o, r, c, d)
  BY DEF TxnInv
<1>p. PICK p, L : p = ProcOf[h] /\ L = prc[p].async_todo
  OBVIOUS
<1>e. PICK E : E = FreeOne(prc, p)
  OBVIOUS
<1>1. /\ Base /\ Types /\ PoolBound /\ Turns(a) /\ h \in Tasks /\ h # Worker /\ p \in Procs /\ PlaceType(a, o, r)
      /\ thr \in [Threads -> ThreadType] /\ prc \in [Procs -> ProcType]
  BY <1>0, <1>p, CoreIs, Marks DEF Types
<1>2. /\ job[h].pc = "idle" /\ ~thr[h].dead /\ ~thr[h].waiting /\ prc[p].life = "open" /\ prc[p].buffers > 0
      /\ prc' = NextAsync(E, p) /\ txn' = txn /\ job' = job /\ calls' = calls /\ faults' = faults
  BY <1>p, <1>e DEF FreeBuffer, Writing, Ready, FreeOne
<1>3. PICK e \in Select(p) : thr' = WakeNext(thr, p, e)
  BY <1>p DEF FreeBuffer
<1>4. /\ thr' \in [Threads -> ThreadType]
      /\ \A g \in Threads : /\ SameLife(thr'[g], thr[g]) /\ thr'[g].todo = thr[g].todo /\ thr'[g].stack = thr[g].stack
                            /\ thr'[g].process_todo = thr[g].process_todo /\ (thr'[g].waiting => thr[g].waiting)
  BY <1>1, <1>3, WakeNextIs
<1>5. /\ E \in [Procs -> ProcType] /\ (\A q \in Procs : q # p => E[q] = prc[q])
      /\ E[p].life = prc[p].life /\ E[p].tmp = prc[p].tmp /\ E[p].todo = prc[p].todo
      /\ E[p].async_todo = prc[p].async_todo /\ E[p].has_async = prc[p].has_async
      /\ E[p].requested = prc[p].requested /\ E[p].started = prc[p].started
      /\ E[p].buffers = prc[p].buffers - 1 /\ E[p].stuck = prc[p].stuck
  BY <1>1, <1>2, <1>e, FreeOneIs
<1>6. /\ prc' \in [Procs -> ProcType] /\ (\A q \in Procs : q # p => prc'[q] = E[q])
      /\ prc'[p].life = E[p].life /\ prc'[p].tmp = E[p].tmp
      /\ prc'[p].requested = E[p].requested /\ prc'[p].started = E[p].started
      /\ prc'[p].buffers = E[p].buffers /\ prc'[p].stuck = E[p].stuck
      /\ Len(L) = 0 =>
           prc'[p].todo = E[p].todo /\ prc'[p].async_todo = E[p].async_todo /\ ~prc'[p].has_async
      /\ Len(L) # 0 =>
           /\ prc'[p].todo = Append(E[p].todo, Head(L)) /\ prc'[p].async_todo = Tail(L)
           /\ prc'[p].has_async = E[p].has_async
  <2>1. L = E[p].async_todo
    BY <1>5, <1>p
  <2>2. /\ prc' \in [Procs -> ProcType] /\ (\A q \in Procs : q # p => prc'[q] = E[q])
        /\ prc'[p].life = E[p].life /\ prc'[p].tmp = E[p].tmp
        /\ prc'[p].requested = E[p].requested /\ prc'[p].started = E[p].started
        /\ prc'[p].buffers = E[p].buffers /\ prc'[p].stuck = E[p].stuck
        /\ Len(E[p].async_todo) = 0 =>
             prc'[p].todo = E[p].todo /\ prc'[p].async_todo = E[p].async_todo /\ ~prc'[p].has_async
        /\ Len(E[p].async_todo) # 0 =>
             /\ prc'[p].todo = Append(E[p].todo, Head(E[p].async_todo)) /\ prc'[p].async_todo = Tail(E[p].async_todo)
             /\ prc'[p].has_async = E[p].has_async
    BY <1>1, <1>2, <1>5, NextAsyncIs
  <2> QED BY <2>1, <2>2
<1>7. Types'
  BY <1>1, <1>2, <1>4, <1>6 DEF Types
<1>8. job[h] = Idle /\ Idle.pc = "idle" /\ Idle.dying = None /\ Idle.target = None /\ Idle.proc = None
      /\ Carries(Idle) /\ Idle \in JobType /\ ForThread(h, Idle) /\ \A w \in Txns : ~(a[w] \in Taken /\ o[w] = h)
  BY <1>0, <1>2, IdleHolds, TaskHolds, Marks DEF Idle
<1>9. /\ Cardinality(Turn(p, a)) \in Nat /\ Cardinality(Turn(p, a)) + prc[p].buffers + prc[p].stuck = 1 /\ prc[p].has_async
      /\ prc[p].buffers = 1 /\ prc[p].stuck = 0 /\ Cardinality(Turn(p, a)) = 0
  <2>1. prc[p].buffers \in Nat /\ prc[p].stuck \in Nat
    BY <1>1 DEF ProcType
  <2>2. Cardinality(Turn(p, a)) \in Nat
    <3>1. IsFiniteSet(Turn(p, a))
      BY Marks, FS_Subset DEF Turn
    <3> QED BY <3>1, FS_CardinalityType
  <2>3. Cardinality(Turn(p, a)) + prc[p].buffers + prc[p].stuck = IF prc[p].has_async THEN 1 ELSE 0
    BY <1>1, <1>2 DEF Turns
  <2> QED BY <1>2, <2>1, <2>2, <2>3
<1>l. L \in Seq(Txns) /\ Len(L) \in Nat
  BY <1>1, <1>p DEF ProcType
<1>10. CASE Len(L) = 0
  <2>1. Turns(a)'
    <3>1. ASSUME NEW q \in Procs, prc'[q].life = "open"
          PROVE  /\ Cardinality(Turn(q, a))' + prc'[q].buffers + prc'[q].stuck = IF prc'[q].has_async THEN 1 ELSE 0
                 /\ Len(prc'[q].async_todo) > 0 => prc'[q].has_async
      <4>1. Turn(q, a)' = Turn(q, a)
        BY <1>2 DEF Turn
      <4>2. CASE q = p
        BY <1>5, <1>6, <1>9, <1>10, <1>p, <4>1, <4>2
      <4>3. CASE q # p
        <5>1. prc'[q] = prc[q]
          BY <1>5, <1>6, <4>3
        <5> QED BY <1>1, <3>1, <4>1, <5>1 DEF Turns
      <4> QED BY <4>2, <4>3
    <3> QED BY <3>1 DEF Turns
  <2>2. \A g \in Threads : g # h => /\ SameLife(thr'[g], thr[g]) /\ thr'[g].stack = thr[g].stack
                                    /\ thr'[g].todo = thr[g].todo /\ thr'[g].process_todo = thr[g].process_todo
                                    /\ thr'[g].waiting => thr[g].waiting
    BY <1>4
  <2>3. SameLife(thr'[h], thr[h]) /\ thr'[h].stack = thr[h].stack /\ Stay(thr[h].todo, thr'[h].todo)
    BY <1>4 DEF Stay
  <2>4. Len(thr[h].todo) > 0 /\ thr[h].todo[1] \in Txns => thr'[h].todo[1] = thr[h].todo[1]
    BY <1>4
  <2>5. thr'[h].waiting => thr'[h].stack = None /\ Len(thr'[h].todo) = 0
    BY <1>2, <1>4
  <2>6. Grows(h) \/ thr'[h].process_todo \/ \A i \in DOMAIN thr'[h].todo : thr'[h].todo[i] = "complete"
    BY <1>4 DEF Grows
  <2>7. \A q \in Procs : /\ prc'[q].life = prc[q].life /\ prc'[q].tmp = prc[q].tmp
                         /\ prc'[q].todo = prc[q].todo /\ prc'[q].async_todo = prc[q].async_todo
                         /\ prc'[q].requested + prc'[q].started <= MaxThreads
    BY <1>1, <1>5, <1>6, <1>10, <1>p DEF PoolBound
  <2>8. prc[ProcOf[h]].life = "open"
    BY <1>2, <1>p
  <2> QED BY ONLY <1>0, <1>2, <1>7, <2>1, <2>2, <2>3, <2>4, <2>5, <2>6, <2>7, <2>8, IdleStep, h \in Threads
<1>11. CASE Len(L) # 0
  <2>n. PICK n : n = Head(L)
    OBVIOUS
  <2>g. PICK a2 : a2 = Put(a, n, "ptodo")
    OBVIOUS
  <2>1. /\ n \in Txns /\ a[n] = "async" /\ o[n] = p /\ r[n] = None /\ txn[n].kind = "async" /\ txn[n].to_proc = p
    BY <1>0, <1>1, <1>l, <1>11, <1>p, <2>n, NextIs
  <2>2. PlaceType(a2, o, r) /\ a2[n] = "ptodo" /\ \A w \in Txns : w # n => a2[w] = a[w]
    BY <1>1, <2>1, <2>g DEF PlaceType, Places, Put
  <2>3. Become(h, Idle)
    <3>1. job \in [Tasks -> JobType]
      BY <1>1 DEF Types
    <3> QED BY <1>1, <1>2, <1>8, <3>1 DEF Become
  <2>4. SameStacks /\ NextGoes(p, n)
    BY <1>4, <1>5, <1>6, <1>11, <1>p, <2>n DEF SameStacks, SameLife, NextGoes
  <2>5. ASSUME NEW w \in Txns, w # n PROVE Besides(w, h, n, a, o, r, a2, o)
    BY <1>2, <1>8, <2>2, <2>5 DEF Besides, Moves
  <2>6. GhostType(a2, o, r, c, d) /\ Placed(a2, o, r)' /\ Linked(a2, o, r, c, d)'
    <3>1. job[h].pc # "walk" /\ Len(prc[p].async_todo) > 0 /\ n = Head(prc[p].async_todo) /\ txn'[n] = txn[n]
      BY <1>2, <1>l, <1>11, <1>p, <2>n
    <3> QED BY ONLY <1>0, <1>1, <1>7, <2>1, <2>2, <2>3, <2>4, <2>5, <3>1, NextPlaced, h \in Threads
  <2>7. Base'
    <3>1. Gains(h, Idle, None, None)
      <4>1. \A g \in Threads : thr'[g].tmp = thr[g].tmp /\ thr[g].tmp \in Nat /\ g # None
        BY <1>1, <1>4, Marks DEF SameLife, ThreadType
      <4>2. \A q \in Procs : prc[q].tmp \in Nat /\ q # None /\ prc'[q].tmp = prc[q].tmp /\ prc'[q].life = prc[q].life
        BY <1>1, <1>5, <1>6, Marks DEF ProcType
      <4> QED BY <1>4, <1>8, <4>1, <4>2 DEF Gains, SameLife, One
    <3>2. ThreadsStep(h, Idle)
      <4>1. \A g \in Threads : Grows(g)
        BY <1>4 DEF Grows
      <4> QED BY <1>4, <1>8, <4>1 DEF ThreadsStep, SameLife
    <3>3. ProcsStep
      BY <1>1, <1>2, <1>5, <1>6, <1>11 DEF ProcsStep, PoolBound
    <3>4. (h = Worker => ForWorker(Idle) /\ Idle.proc = job[h].proc) /\ None \in Threads \cup {None} /\ None \in Procs \cup {None}
          /\ (Idle.pc \in {"queue", "rsend"} => \E i \in DOMAIN thr'[h].todo : thr'[h].todo[i] = "complete")
      BY <1>1, <1>8
    <3> QED BY ONLY <1>1, <1>7, <1>8, <2>3, <3>1, <3>2, <3>3, <3>4, GainStep, h \in Threads
  <2>8. Turns(a2)'
    <3>1. LifeStep /\ \A q \in Procs : q # p => SameWork(prc'[q], prc[q])
      BY <1>5, <1>6 DEF LifeStep, SameWork
    <3>2. \A w \in Txns : w \notin {n, None} => txn'[w] = txn[w] /\ a2[w] = a[w]
      BY <1>2, <2>2
    <3>3. prc'[p].buffers = prc[p].buffers - One(None \notin Txns)
      BY <1>5, <1>6, Marks DEF One
    <3>4. n # None /\ (None \in Txns => txn[None].kind = "async" /\ txn[None].to_proc = p /\ a[None] = "deliver" /\ a2[None] = "none")
      BY <2>1, Marks
    <3>5. prc'[p].stuck = prc[p].stuck /\ prc'[p].has_async = prc[p].has_async /\ txn'[n] = txn[n]
      BY <1>2, <1>5, <1>6, <1>11
    <3>6. Passes(p, None, n, a, a2)
      BY <1>9, <2>1, <2>2, <3>1, <3>2, <3>3, <3>4, <3>5 DEF Passes
    <3> QED BY ONLY <1>1, <1>2, <1>7, <2>1, <3>1, <3>4, <3>6, TurnPasses
  <2> QED BY <2>6, <2>7, <2>8, CoreStep
<1> QED BY <1>10, <1>11

\* The file descriptors of a one-way transaction cannot be installed: its buffer is freed at once.
LEMMA FixupsFailAsync ==
  ASSUME TxnInv, NEW h \in Threads, FixupsFail(h), txn[job[h].t].kind = "async"
  PROVE  TxnInv'
<1>0. PICK a, o, r, c, d : Core(a, o, r, c, d)
  BY DEF TxnInv
<1>p. PICK t, u, p, L : t = job[h].t /\ u = job[h].target /\ p = ProcOf[h] /\ L = prc[p].async_todo
  OBVIOUS
<1>d. PICK D : D = DecThread(thr, u)
  OBVIOUS
<1>e. PICK E : E = DecThreadProc(prc, D, u)
  OBVIOUS
<1>1. /\ Base /\ Types /\ PoolBound /\ Turns(a) /\ h \in Tasks /\ h # Worker /\ p \in Procs /\ PlaceType(a, o, r)
      /\ thr \in [Threads -> ThreadType] /\ prc \in [Procs -> ProcType] /\ job[h] \in JobType /\ Carries(job[h]) /\ ForThread(h, job[h])
  BY <1>0, <1>p, CoreIs, TaskHolds, Marks DEF Types
<1>2. /\ job[h].pc = "deliver" /\ Cleanup(h, job[h].t, "idle") /\ calls' = calls /\ txn[t].kind = "async"
      /\ faults < Faults /\ faults' = faults + 1 /\ prc' = NextAsync(E, p)
  BY <1>p, <1>d, <1>e DEF FixupsFail, Fault
<1>3. PICK e \in Select(p) : thr' = WakeNext(D, p, e)
  BY <1>p, <1>d DEF FixupsFail
<1>c. Become(h, Idle) /\ Frees(t)
  BY <1>0, <1>2, <1>p, CleanupIdle
<1>t. /\ t \in Txns /\ a[t] = "deliver" /\ o[t] = h /\ r[t] = None /\ txn[t].to_proc = p /\ txn[t].from = None
      /\ \A w \in Txns : With(w, job[h]) => w = t
  BY <1>0, <1>2, <1>p, DeliverHas
<1>4. /\ D \in [Threads -> ThreadType]
      /\ \A g \in Threads : /\ D[g].dead = thr[g].dead /\ D[g].todo = thr[g].todo
                            /\ ~thr[g].dead => SameRun(D[g], thr[g])
                            /\ D[g].waiting => SameRun(D[g], thr[g])
      /\ E \in [Procs -> ProcType] /\ (\A q \in Procs : SameWork(E[q], prc[q])) /\ prc[p].life = "open"
      /\ ~thr[h].dead /\ ~thr[h].waiting /\ job[h].dying = None /\ job[h].proc = None
  BY <1>0, <1>2, <1>p, <1>d, <1>e, DeliverDrops
<1>5. /\ thr' \in [Threads -> ThreadType]
      /\ \A g \in Threads : /\ SameLife(thr'[g], D[g]) /\ thr'[g].todo = D[g].todo /\ thr'[g].stack = D[g].stack
                            /\ thr'[g].process_todo = D[g].process_todo /\ (thr'[g].waiting => D[g].waiting)
  BY <1>1, <1>3, <1>4, WakeNextIs
<1>6. /\ prc' \in [Procs -> ProcType] /\ (\A q \in Procs : q # p => prc'[q] = E[q])
      /\ prc'[p].life = E[p].life /\ prc'[p].tmp = E[p].tmp
      /\ prc'[p].requested = E[p].requested /\ prc'[p].started = E[p].started
      /\ prc'[p].buffers = E[p].buffers /\ prc'[p].stuck = E[p].stuck
      /\ Len(L) = 0 =>
           prc'[p].todo = E[p].todo /\ prc'[p].async_todo = E[p].async_todo /\ ~prc'[p].has_async
      /\ Len(L) # 0 =>
           /\ prc'[p].todo = Append(E[p].todo, Head(L)) /\ prc'[p].async_todo = Tail(L)
           /\ prc'[p].has_async = E[p].has_async
  <2>1. L = E[p].async_todo
    BY <1>1, <1>4, <1>p DEF SameWork
  <2>2. /\ prc' \in [Procs -> ProcType] /\ (\A q \in Procs : q # p => prc'[q] = E[q])
        /\ prc'[p].life = E[p].life /\ prc'[p].tmp = E[p].tmp
        /\ prc'[p].requested = E[p].requested /\ prc'[p].started = E[p].started
        /\ prc'[p].buffers = E[p].buffers /\ prc'[p].stuck = E[p].stuck
        /\ Len(E[p].async_todo) = 0 =>
             prc'[p].todo = E[p].todo /\ prc'[p].async_todo = E[p].async_todo /\ ~prc'[p].has_async
        /\ Len(E[p].async_todo) # 0 =>
             /\ prc'[p].todo = Append(E[p].todo, Head(E[p].async_todo)) /\ prc'[p].async_todo = Tail(E[p].async_todo)
             /\ prc'[p].has_async = E[p].has_async
    BY <1>1, <1>2, <1>4, NextAsyncIs
  <2> QED BY <2>1, <2>2
<1>i. ForThread(h, Idle) /\ Carries(Idle) /\ Idle \in JobType
  BY <1>1, <1>2, ThreadGoesOn
<1>7. Types'
  <2>1. calls' \in 0 .. MaxCalls /\ faults' \in 0 .. Faults
    BY <1>1, <1>2, Marks DEF Types
  <2> QED BY <1>1, <1>5, <1>6, <1>c, <1>i, <2>1 DEF Types, Become, Frees, TxnType, NoTxn, Parents
<1>s. ProcsStep
  BY <1>1, <1>4, <1>6 DEF ProcsStep, PoolBound, SameWork
<1>8. Base' /\ LifeStep /\ \A g \in Threads : thr'[g].dead = thr[g].dead
  <2>1. \A g \in Threads : /\ SameLife(thr'[g], D[g]) /\ thr'[g].todo = D[g].todo /\ thr'[g].process_todo = D[g].process_todo
                           /\ thr'[g].waiting => D[g].waiting /\ thr'[g].stack = D[g].stack
    BY <1>5
  <2>2. \A q \in Procs : prc'[q].life = E[q].life /\ prc'[q].tmp = E[q].tmp
    BY <1>6
  <2>3. Idle.target = None /\ Idle.proc = None /\ Idle.dying = None /\ Idle.pc \notin {"queue", "rsend"}
    BY DEF Idle
  <2> QED BY ONLY <1>0, <1>2, <1>c, <1>p, <1>d, <1>e, <1>i, <1>7, <1>s, <2>1, <2>2, <2>3, h \in Threads, DeliverBase
<1>9. SameStacks
  BY <1>4, <1>5 DEF SameStacks, SameRun, SameLife
<1>10. /\ Cardinality(Turn(p, a)) = 1 /\ prc[p].buffers = 0 /\ prc[p].stuck = 0 /\ prc[p].has_async
  <2>1. prc[p].buffers \in Nat /\ prc[p].stuck \in Nat
    BY <1>1 DEF ProcType
  <2>2. IsFiniteSet(Turn(p, a)) /\ t \in Turn(p, a)
    BY <1>2, <1>t, Marks, FS_Subset DEF Turn
  <2>3. Cardinality(Turn(p, a)) \in Nat /\ Cardinality(Turn(p, a)) # 0
    BY <2>2, FS_CardinalityType, FS_EmptySet
  <2>4. Cardinality(Turn(p, a)) + prc[p].buffers + prc[p].stuck = IF prc[p].has_async THEN 1 ELSE 0
    BY <1>1, <1>4 DEF Turns
  <2> QED BY <2>1, <2>3, <2>4
<1>l. L \in Seq(Txns) /\ Len(L) \in Nat
  BY <1>1, <1>p DEF ProcType
<1>11. CASE Len(L) = 0
  <2>g. PICK a2, o2 : a2 = Put(a, t, "none") /\ o2 = Put(o, t, None)
    OBVIOUS
  <2>1. ListsStay
    BY <1>1, <1>4, <1>5, <1>6, <1>11, KeptSame DEF ListsStay, SameWork
  <2>2. /\ GhostType(a2, o2, r, c, d) /\ Placed(a2, o2, r)' /\ Linked(a2, o2, r, c, d)'
    <3>1. /\ None \in Parents /\ a[t] \in {"built", "queue", "deliver", "done"} /\ (a[t] \in {"queue", "deliver"} => txn[t].kind # "call")
          /\ \A w \in Txns : With(w, job[h]) => w \in {t, None}
      BY <1>2, <1>t DEF Parents
    <3>2. /\ (None # None => a[None] = "job" /\ o[None] = h /\ Idle.pc = "fail1")
          /\ Idle.t = None /\ Idle.re = None /\ Idle.pc \notin {"walk", "built", "deliver"} /\ job[h].pc # "walk" /\ Idle.dying = job[h].dying
          /\ (h = Worker => Idle.proc = job[h].proc)
      BY <1>1, <1>2, <1>4 DEF Idle
    <3> QED BY ONLY <1>0, <1>1, <1>t, <1>c, <1>i, <1>7, <1>9, <2>1, <2>g, <3>1, <3>2, FreedStep
  <2>3. Turns(a2)'
    <3>1. a2[t] = "none" /\ \A w \in Txns : w # t => a2[w] = a[w]
      BY <1>1, <1>t, <2>g DEF Put, PlaceType
    <3>2. \A w \in Txns : w # t => txn'[w] = txn[w]
      BY <1>c DEF Frees
    <3>3. ASSUME NEW q \in Procs, prc'[q].life = "open"
          PROVE  /\ Cardinality(Turn(q, a2))' + prc'[q].buffers + prc'[q].stuck = IF prc'[q].has_async THEN 1 ELSE 0
                 /\ Len(prc'[q].async_todo) > 0 => prc'[q].has_async
      <4>1. prc[q].life = "open"
        BY <1>8, <3>3 DEF LifeStep
      <4>2. \A w \in Txns : w # t => (w \in Turn(q, a2)' <=> w \in Turn(q, a))
        BY <3>1, <3>2 DEF Turn
      <4>3. t \notin Turn(q, a2)' /\ (t \in Turn(q, a) <=> q = p)
        BY <1>2, <1>t, <3>1 DEF Turn
      <4>4. /\ Cardinality(Turn(q, a2))' \in Nat /\ Cardinality(Turn(q, a)) \in Nat
            /\ Cardinality(Turn(q, a2))' = Cardinality(Turn(q, a)) + One(t \in Turn(q, a2)') - One(t \in Turn(q, a))
        BY <4>2, TurnStep
      <4>5. One(t \in Turn(q, a2)') = 0 /\ One(t \in Turn(q, a)) = One(q = p)
        BY <4>3 DEF One
      <4>6. CASE q = p
        <5>1. Cardinality(Turn(q, a2))' = 0
          BY <1>10, <4>4, <4>5, <4>6 DEF One
        <5>2. prc'[q].buffers = 0 /\ prc'[q].stuck = 0 /\ ~prc'[q].has_async /\ Len(prc'[q].async_todo) = 0
          BY <1>1, <1>4, <1>6, <1>10, <1>11, <1>p, <4>6 DEF SameWork
        <5> QED BY <5>1, <5>2
      <4>7. CASE q # p
        <5>1. Cardinality(Turn(q, a2))' = Cardinality(Turn(q, a))
          BY <4>4, <4>5, <4>7 DEF One
        <5>2. SameWork(prc'[q], prc[q])
          BY <1>4, <1>6, <4>7
        <5>3. /\ Cardinality(Turn(q, a)) + prc[q].buffers + prc[q].stuck = IF prc[q].has_async THEN 1 ELSE 0
              /\ Len(prc[q].async_todo) > 0 => prc[q].has_async
          BY <1>1, <4>1 DEF Turns
        <5> QED BY <5>1, <5>2, <5>3 DEF SameWork
      <4> QED BY <4>6, <4>7
    <3> QED BY <3>3 DEF Turns
  <2> QED BY <1>8, <2>2, <2>3, CoreStep
<1>12. CASE Len(L) # 0
  <2>n. PICK n : n = Head(L)
    OBVIOUS
  <2>g. PICK a2, o2 : a2 = Put(Put(a, t, "none"), n, "ptodo") /\ o2 = Put(o, t, None)
    OBVIOUS
  <2>1. /\ n \in Txns /\ a[n] = "async" /\ o[n] = p /\ r[n] = None /\ txn[n].kind = "async" /\ txn[n].to_proc = p /\ n # t
    BY <1>0, <1>1, <1>l, <1>t, <1>12, <1>p, <2>n, NextIs
  <2>2. /\ PlaceType(a2, o2, r) /\ a2[n] = "ptodo" /\ o2[n] = p /\ a2[t] = "none" /\ o2[t] = None
        /\ \A w \in Txns : w \notin {n, t} => a2[w] = a[w] /\ o2[w] = o[w]
    BY <1>1, <1>t, <2>1, <2>g DEF PlaceType, Places, Put, Owners
  <2>f. txn'[t] = NoTxn /\ \A w \in Txns : w # t => txn'[w] = txn[w]
    BY <1>1, <1>c, <1>t DEF Frees, Types
  <2>4. NextGoes(p, n)
    BY <1>4, <1>5, <1>6, <1>12, <1>p, <2>n DEF SameWork, NextGoes
  <2>5. ASSUME NEW w \in Txns, w # n PROVE Besides(w, h, n, a, o, r, a2, o2)
    <3>1. CASE w = t
      <4>1. t \notin Active(txn, a) /\ t \notin Active(txn', a2) /\ txn'[t].from = None
        BY <1>2, <2>2, <2>f DEF Active, NoTxn
      <4>2. Shifts(t, h, n, a, o, r, a2, o2)
        BY <1>t, <2>2, <4>1 DEF Shifts, Taken
      <4>3. Fits(a2, o2, r, t)'
        BY <1>t, <2>2, <2>f, FitsNone
      <4> QED BY <2>2, <3>1, <4>2, <4>3 DEF Besides, Moves, Taken
    <3>2. CASE w # t
      <4>1. ~(a[w] \in Taken /\ o[w] = h)
        BY <1>0, <1>1, <1>t, <3>2, TaskHolds
      <4> QED BY <2>2, <2>5, <2>f, <3>2, <4>1 DEF Besides, Moves
    <3> QED BY <3>1, <3>2
  <2>6. GhostType(a2, o2, r, c, d) /\ Placed(a2, o2, r)' /\ Linked(a2, o2, r, c, d)'
    <3>1. job[h].pc # "walk" /\ Len(prc[p].async_todo) > 0 /\ n = Head(prc[p].async_todo) /\ txn'[n] = txn[n]
      BY <1>2, <1>l, <1>12, <1>p, <2>n, <2>1, <2>f
    <3> QED BY ONLY <1>0, <1>1, <1>7, <1>9, <1>c, <2>1, <2>2, <2>4, <2>5, <3>1, NextPlaced, h \in Threads
  <2>8. Turns(a2)'
    <3>1. \A q \in Procs : q # p => SameWork(prc'[q], prc[q])
      BY <1>4, <1>6
    <3>3. prc'[p].buffers = prc[p].buffers - One(t \notin Txns)
      BY <1>1, <1>4, <1>6, <1>t, <1>10 DEF One, SameWork
    <3>5. prc'[p].stuck = prc[p].stuck /\ prc'[p].has_async = prc[p].has_async
      BY <1>1, <1>4, <1>6, <1>12 DEF SameWork
    <3>6. Passes(p, t, n, a, a2)
      BY <1>2, <1>t, <1>10, <2>1, <2>2, <2>f, <3>1, <3>3, <3>5 DEF Passes
    <3> QED BY ONLY <1>1, <1>4, <1>7, <1>8, <2>1, <3>6, TurnPasses
  <2> QED BY <1>8, <2>6, <2>8, CoreStep
<1> QED BY <1>11, <1>12

\* A call cannot be delivered: it fails.
LEMMA UndeliveredStep ==
  ASSUME NEW a, NEW o, NEW r, NEW c, NEW d, Core(a, o, r, c, d), NEW h \in Threads, job[h].pc = "deliver",
         txn[job[h].t].kind = "call", Cleanup(h, job[h].t, "idle"),
         NEW u, u = job[h].target, NEW D, D = DecThread(thr, u), NEW E, E = DecThreadProc(prc, D, u),
         thr' = D, calls' = calls, faults' \in 0 .. Faults, prc' \in [Procs -> ProcType],
         \A q \in Procs : prc'[q].life = E[q].life /\ prc'[q].tmp = E[q].tmp /\ SameWork(prc'[q], prc[q])
  PROVE  TxnInv'
<1>p. PICK t : t = job[h].t
  OBVIOUS
<1>j. PICK j : j = [job[h] EXCEPT !.pc = "fail1", !.t = t, !.target = None, !.next = "idle"]
  OBVIOUS
<1>g. PICK a2 : a2 = Put(a, t, "job")
  OBVIOUS
<1>1. /\ Base /\ Types /\ PoolBound /\ Turns(a) /\ h \in Tasks /\ h # Worker /\ PlaceType(a, o, r) /\ job[h] \in JobType /\ Carries(job[h])
      /\ ForThread(h, job[h]) /\ \A w \in Txns : Fits(a, o, r, w)
  BY CoreIs, TaskHolds, Marks
<1>2. Become(h, j) /\ txn' = txn
  BY <1>p, <1>j DEF Cleanup
<1>t. /\ t \in Txns /\ a[t] = "deliver" /\ o[t] = h /\ r[t] = None /\ txn[t].to_proc = ProcOf[h] /\ txn[t].to_thread \in {None, h}
      /\ txn[t].kind = "call" /\ \A w \in Txns : With(w, job[h]) => w = t
  BY <1>p, DeliverHas
<1>3. /\ D \in [Threads -> ThreadType]
      /\ \A g \in Threads : /\ D[g].dead = thr[g].dead /\ D[g].todo = thr[g].todo
                            /\ ~thr[g].dead => SameRun(D[g], thr[g])
                            /\ D[g].waiting => SameRun(D[g], thr[g])
      /\ job[h].dying = None /\ job[h].proc = None /\ job[h].re = None
      /\ ~thr[h].dead /\ ~thr[h].waiting /\ prc[ProcOf[h]].life = "open"
  BY DeliverDrops
<1>4. /\ j \in JobType /\ j.pc = "fail1" /\ j.t = t /\ j.re = None /\ j.target = None /\ j.proc = None /\ j.dying = None /\ j.next = "idle"
  BY <1>1, <1>3, <1>j, <1>t DEF JobType, Parents
<1>5. Carries(j) /\ ForThread(h, j)
  BY <1>3, <1>4, <1>t, Marks DEF Carries, ForThread
<1>6. Types' /\ job'[h] = j /\ \A y \in Tasks : y # h => job'[y] = job[y]
  BY <1>1, <1>2, <1>3, <1>4 DEF Types, Become
<1>q. PlaceType(a2, o, r) /\ a2[t] = "job" /\ \A w \in Txns : w # t => a2[w] = a[w]
  BY <1>1, <1>g, <1>t DEF PlaceType, Places, Put
<1>7. ProcsStep
  BY <1>1 DEF ProcsStep, SameWork, PoolBound
<1>8. Base' /\ LifeStep /\ \A g \in Threads : thr'[g].dead = thr[g].dead
  <2>1. \A g \in Threads : /\ SameLife(thr'[g], D[g]) /\ thr'[g].todo = D[g].todo /\ thr'[g].process_todo = D[g].process_todo
                           /\ thr'[g].waiting => D[g].waiting /\ thr'[g].stack = D[g].stack
    BY DEF SameLife
  <2>2. \A q \in Procs : prc'[q].life = E[q].life /\ prc'[q].tmp = E[q].tmp
    OBVIOUS
  <2>3. j.pc \notin {"queue", "rsend"}
    BY <1>4
  <2> QED BY ONLY <1>2, <1>4, <1>5, <1>6, <1>7, <2>1, <2>2, <2>3, Core(a, o, r, c, d), h \in Threads, job[h].pc = "deliver", u = job[h].target,
          D = DecThread(thr, u), E = DecThreadProc(prc, D, u), DeliverBase
<1>9. SameStacks /\ ListsStay
  <2>1. SameStacks
    BY <1>3 DEF SameStacks, SameRun
  <2>2. ListsStay
    BY <1>3, KeptSame DEF ListsStay, SameWork
  <2> QED BY <2>1, <2>2
<1>f. Fits(a2, o, r, t)'
  <2>1. txn'[t] = txn[t] /\ Fits(a, o, r, t)
    BY <1>1, <1>2, <1>t
  <2>2. Home(h)' = ProcOf[h]
    BY <1>1 DEF Home
  <2> QED BY <1>4, <1>6, <1>t, <1>q, <2>1, <2>2 DEF Fits
<1>10. \A w \in Txns : Moves(w, h, None, a, o, r, a2, o)
  <2>1. ASSUME NEW w \in Txns PROVE Moves(w, h, None, a, o, r, a2, o)
    <3>1. CASE w # t
      BY <1>2, <1>q, <3>1 DEF Moves
    <3>2. CASE w = t
      <4>2. Shifts(t, h, None, a, o, r, a2, o)
        BY <1>2, <1>q, <1>t DEF Shifts, Taken, Movers
      <4> QED BY <1>f, <3>2, <4>2 DEF Moves
    <3> QED BY <3>1, <3>2
  <2> QED BY <2>1
<1>11. HasNow(h, a2, o, r)
  <2>1. ASSUME NEW w \in Txns, a2[w] \in Taken, o[w] = h PROVE With(w, job'[h]) /\ Fits(a2, o, r, w)'
    <3>1. CASE w = t
      BY <1>f, <1>4, <1>6, <3>1 DEF With
    <3>2. CASE w # t
      <4>1. With(w, job[h])
        BY <1>1, <1>q, <2>1, <3>2, TaskHolds
      <4> QED BY <1>t, <3>2, <4>1
    <3> QED BY <3>1, <3>2
  <2>2. Holds(a2, o, h, j)
    BY <1>4, <1>t, <1>q DEF Holds
  <2> QED BY <1>6, <2>1, <2>2 DEF HasNow
<1>12. GhostType(a2, o, r, c, d) /\ Placed(a2, o, r)' /\ Linked(a2, o, r, c, d)'
  <2>1. job'[h].pc = "walk" \/ job[h].pc = "walk" => job'[h] = job[h]
    BY <1>4, <1>6
  <2>2. h \in Threads => MayStart(h, a, o, r, c)
    BY <1>4, <1>6, StartsNone
  <2> QED BY ONLY <1>1, <1>q, <1>6, <1>9, <1>10, <1>11, <2>1, <2>2, HandStep, Core(a, o, r, c, d)
<1>13. Turns(a2)'
  <2>1. \A p \in Procs : Turn(p, a2)' = Turn(p, a)
    BY <1>2, <1>q, <1>t DEF Turn
  <2>2. \A p \in Procs : prc'[p].life = "open" => prc[p].life = "open" /\ SameWork(prc'[p], prc[p])
    BY <1>8 DEF LifeStep
  <2> QED BY <1>1, <2>1, <2>2, TurnsHand
<1> QED BY <1>8, <1>12, <1>13, CoreStep

\* The two ways in which that happens.
LEMMA DeliveryFails ==
  ASSUME TxnInv, NEW h \in Threads, FixupsFail(h) \/ CopyFails(h), txn[job[h].t].kind = "call"
  PROVE  TxnInv'
<1>0. PICK a, o, r, c, d : Core(a, o, r, c, d)
  BY DEF TxnInv
<1>p. PICK u, p, b : u = job[h].target /\ p = ProcOf[h] /\ b \in BOOLEAN /\ ~b
  OBVIOUS
<1>d. PICK D : D = DecThread(thr, u)
  OBVIOUS
<1>e. PICK E : E = DecThreadProc(prc, D, u)
  OBVIOUS
<1>1. Types /\ p \in Procs
  BY <1>0, <1>p, CoreIs, Marks
<1>2. /\ job[h].pc = "deliver" /\ thr' = D /\ Cleanup(h, job[h].t, "idle") /\ calls' = calls
      /\ faults < Faults /\ faults' = faults + 1 /\ (prc' = E \/ prc' = LoseBuffer(E, p, b))
  BY <1>p, <1>d, <1>e DEF FixupsFail, CopyFails, Fault, LoseBuffer
<1>4. E \in [Procs -> ProcType] /\ \A q \in Procs : SameWork(E[q], prc[q])
  BY <1>0, <1>2, <1>p, <1>d, <1>e, DeliverDrops
<1>5. /\ prc' \in [Procs -> ProcType]
      /\ \A q \in Procs : prc'[q].life = E[q].life /\ prc'[q].tmp = E[q].tmp /\ SameWork(prc'[q], prc[q])
  <2>1. CASE prc' = E
    BY <1>4, <2>1
  <2>2. CASE prc' = LoseBuffer(E, p, b)
    <3>1. \A q \in Procs : E[q].stuck \in Nat
      BY <1>4 DEF ProcType
    <3>2. /\ prc' \in [Procs -> ProcType]
          /\ \A q \in Procs : /\ prc'[q].life = E[q].life /\ prc'[q].tmp = E[q].tmp /\ prc'[q].todo = E[q].todo
                              /\ prc'[q].async_todo = E[q].async_todo /\ prc'[q].has_async = E[q].has_async
                              /\ prc'[q].requested = E[q].requested /\ prc'[q].started = E[q].started
                              /\ prc'[q].stuck = E[q].stuck + One(b /\ q = p) /\ prc'[q].buffers = E[q].buffers
      BY <1>1, <1>4, <1>p, <2>2, BufferIs
    <3>3. \A q \in Procs : One(b /\ q = p) = 0
      BY <1>p DEF One
    <3> QED BY <1>4, <3>1, <3>2, <3>3 DEF SameWork
  <2> QED BY <1>2, <2>1, <2>2
<1>6. faults' \in 0 .. Faults
  BY <1>1, <1>2, Marks DEF Types
<1> QED BY ONLY <1>0, <1>2, <1>p, <1>d, <1>e, <1>5, <1>6, UndeliveredStep, h \in Threads, txn[job[h].t].kind = "call"

-----------------------------------------------------------------------------
(* A release takes the first transaction off a list.                       *)

\* Task x has no transaction and takes w off a list that no live thread reads.
Takes(x, w, a) ==
  /\ job[x].pc \in {"drain", "threads", "todo"} /\ a[w] \in {"todo", "ptodo", "async"} /\ SameStacks
  /\ \A g \in Threads : ~thr[g].dead => thr'[g].todo = thr[g].todo
\* Such a task.
LEMMA ReleaseHolds ==
  ASSUME NEW a, NEW o, NEW r, NEW c, NEW d, Core(a, o, r, c, d), NEW x \in Tasks, job[x].pc \in {"drain", "threads", "todo"}
  PROVE  /\ job[x].t = None /\ job[x].re = None /\ job[x].target = None /\ (job[x].pc # "drain" => job[x].dying = None /\ x = Worker)
         /\ \A t \in Txns : ~(a[t] \in Taken /\ o[t] = x)
         /\ job[x].pc = "drain" => job[x].dying \in Threads /\ thr[job[x].dying].dead /\ (x # Worker => x = job[x].dying)
         /\ x = Worker => job[x].proc \in Procs /\ (job[x].pc = "drain" => ProcOf[job[x].dying] = job[x].proc)
<1>1. /\ job[x] \in JobType /\ Carries(job[x]) /\ Holds(a, o, x, job[x])
      /\ \A t \in Txns : a[t] \in Taken /\ o[t] = x => With(t, job[x])
      /\ x \in Threads => ForThread(x, job[x]) /\ x # Worker
      /\ x = Worker /\ job[x].pc # "idle" => ForWorker(job[x])
  BY TaskHolds
<1>2. job[x].t = None /\ job[x].re = None /\ job[x].target = None /\ (job[x].pc # "drain" => job[x].dying = None /\ x = Worker)
  BY <1>1, Marks DEF Carries, ForThread
<1>3. \A t \in Txns : ~(a[t] \in Taken /\ o[t] = x)
  BY <1>1, <1>2, Marks DEF With
<1>4. job[x].pc = "drain" => job[x].dying \in Threads /\ thr[job[x].dying].dead /\ (x # Worker => x = job[x].dying)
  BY <1>1, Marks DEF Carries, ForThread, ForWorker, JobType
<1>5. x = Worker => job[x].proc \in Procs /\ (job[x].pc = "drain" => ProcOf[job[x].dying] = job[x].proc)
  BY <1>1, Marks DEF ForWorker, Carries, JobType
<1> QED BY <1>2, <1>3, <1>4, <1>5

\* It is a call, which fails.
LEMMA HeadFails ==
  ASSUME NEW a, NEW o, NEW r, NEW c, NEW d, Core(a, o, r, c, d), NEW x \in Tasks, NEW w \in Txns, Takes(x, w, a),
         NEW j \in JobType, Become(x, j), Types', txn' = txn, txn[w].kind = "call",
         j.pc = "fail1", j.t = w, j.re = None, j.dying = job[x].dying, j.proc = job[x].proc,
         txn[w].to_thread \in {None, job[x].dying}, txn[w].to_proc = Home(x),
         NEW a2, a2 = Put(a, w, "job"), NEW o2, o2 = Put(o, w, x), ListsGo(w, a, o, a2, o2)
  PROVE  /\ GhostType(a2, o2, r, c, d) /\ Placed(a2, o2, r)' /\ Linked(a2, o2, r, c, d)'
         /\ \A p \in Procs : Turn(p, a2)' = Turn(p, a)
<1>1. Types /\ (\A t \in Txns : Fits(a, o, r, t)) /\ PlaceType(a, o, r)
  BY CoreIs, Marks
<1>2. /\ job[x].t = None /\ job[x].re = None /\ \A t \in Txns : ~(a[t] \in Taken /\ o[t] = x)
  BY ReleaseHolds DEF Takes
<1>3. job'[x] = j /\ \A y \in Tasks : y # x => job'[y] = job[y]
  BY <1>1 DEF Become, Types
<1>q. PlaceType(a2, o2, r) /\ a2[w] = "job" /\ o2[w] = x /\ \A t \in Txns : t # w => a2[t] = a[t] /\ o2[t] = o[t]
  BY <1>1 DEF PlaceType, Places, Put, Owners
<1>w. Fits(a, o, r, w) /\ r[w] = None
  <2>1. Fits(a, o, r, w)
    BY <1>1
  <2> QED BY <2>1 DEF Fits, Takes
<1>f. Fits(a2, o2, r, w)'
  <2>1. Home(x)' = Home(x)
    BY <1>3 DEF Home
  <2> QED BY <1>3, <1>q, <1>w, <2>1 DEF Fits, Takes
<1>4. \A t \in Txns : Moves(t, x, w, a, o, r, a2, o2)
  <2>1. ASSUME NEW t \in Txns PROVE Moves(t, x, w, a, o, r, a2, o2)
    <3>1. CASE t # w
      BY <1>q, <3>1 DEF Moves
    <3>2. CASE t = w
      <4>0. a[w] \in Movers
        BY <1>w DEF Fits, Takes, Movers
      <4>1. Shifts(w, x, w, a, o, r, a2, o2)
        BY <1>q, <4>0 DEF Shifts, Taken, Movers, Takes
      <4> QED BY <1>f, <3>2, <4>1 DEF Moves
    <3> QED BY <3>1, <3>2
  <2> QED BY <2>1
<1>5. HasNow(x, a2, o2, r)
  <2>1. \A t \in Txns : a2[t] \in Taken /\ o2[t] = x => t = w
    BY <1>2, <1>q
  <2>2. With(w, job'[x]) /\ Holds(a2, o2, x, job'[x])
    BY <1>3, <1>q DEF With, Holds
  <2> QED BY <1>f, <2>1, <2>2 DEF HasNow
<1>6. FreshStep(x, a, o, a2, o2)
  <2>1. ASSUME NEW g \in Threads, ~thr[g].dead, NEW t \in Txns, Fresh(t, g, a2, o2)' PROVE FreshOk(t, g, x, a, o)
    <3>1. t # w
      BY <1>q, <2>1 DEF Fresh
    <3>2. Fresh(t, g, a, o)
      BY <1>q, <2>1, <3>1 DEF Fresh
    <3> QED BY <1>3, <2>1, <3>2 DEF FreshOk, Takes
  <2> QED BY <2>1 DEF FreshStep
<1>7. /\ (x \in Threads => Starts(x, a, r, c) /\ (job'[x].pc \in {"built", "deliver"} => ~thr[x].dead))
      /\ (job'[x].pc = "walk" \/ job[x].pc = "walk" => job'[x] = job[x]) /\ SameStacks
  BY <1>3 DEF Starts, Takes
<1>8. GhostType(a2, o2, r, c, d) /\ Placed(a2, o2, r)' /\ Linked(a2, o2, r, c, d)'
  BY ONLY <1>q, <1>3, <1>4, <1>5, <1>6, <1>7, MoveStep, Core(a, o, r, c, d), x \in Tasks, Types', ListsGo(w, a, o, a2, o2)
<1>9. \A p \in Procs : Turn(p, a2)' = Turn(p, a)
  BY <1>q DEF Turn
<1> QED BY <1>8, <1>9

\* It is none, and freed.
LEMMA HeadFreed ==
  ASSUME NEW a, NEW o, NEW r, NEW c, NEW d, Core(a, o, r, c, d), NEW x \in Tasks, NEW w \in Txns, Takes(x, w, a),
         job' = job, Types', Frees(w), txn[w].kind # "call",
         NEW a2, a2 = Put(a, w, "none"), NEW o2, o2 = Put(o, w, None), ListsGo(w, a, o, a2, o2)
  PROVE  /\ GhostType(a2, o2, r, c, d) /\ Placed(a2, o2, r)' /\ Linked(a2, o2, r, c, d)'
         /\ a2[w] = "none" /\ \A t \in Txns : t # w => a2[t] = a[t] /\ txn'[t] = txn[t]
<1>1. Types /\ (\A t \in Txns : Fits(a, o, r, t)) /\ PlaceType(a, o, r)
  BY CoreIs, Marks
<1>2. /\ job[x].t = None /\ job[x].re = None /\ \A t \in Txns : ~(a[t] \in Taken /\ o[t] = x)
  BY ReleaseHolds DEF Takes
<1>q. PlaceType(a2, o2, r) /\ a2[w] = "none" /\ o2[w] = None /\ \A t \in Txns : t # w => a2[t] = a[t] /\ o2[t] = o[t]
  BY <1>1 DEF PlaceType, Places, Put, Owners
<1>3. txn'[w] = NoTxn /\ \A t \in Txns : t # w => txn'[t] = txn[t]
  BY <1>1 DEF Frees, Types
<1>w. Fits(a, o, r, w) /\ r[w] = None /\ txn[w].from = None
  <2>1. Fits(a, o, r, w) /\ txn[w].kind \in {"free", "call", "async", "reply"}
    BY <1>1, TypeFacts DEF TxnType
  <2> QED BY <2>1 DEF Fits, Takes
<1>f. Fits(a2, o2, r, w)'
  BY <1>3, <1>q, <1>w, FitsNone
<1>4. \A t \in Txns : Moves(t, x, w, a, o, r, a2, o2)
  <2>1. ASSUME NEW t \in Txns PROVE Moves(t, x, w, a, o, r, a2, o2)
    <3>1. CASE t # w
      BY <1>3, <1>q, <3>1 DEF Moves
    <3>2. CASE t = w
      <4>0. w \notin Active(txn, a) /\ w \notin Active(txn', a2) /\ txn'[w].from = None
        BY <1>3, <1>q DEF Active, NoTxn
      <4>1. Shifts(w, x, w, a, o, r, a2, o2)
        BY <1>q, <1>w, <4>0 DEF Shifts, Taken, Takes
      <4> QED BY <1>f, <3>2, <4>1 DEF Moves
    <3> QED BY <3>1, <3>2
  <2> QED BY <2>1
<1>5. HasNow(x, a2, o2, r)
  <2>1. \A t \in Txns : ~(a2[t] \in Taken /\ o2[t] = x)
    BY <1>2, <1>q DEF Taken
  <2>2. Holds(a2, o2, x, job'[x])
    BY <1>2 DEF Holds
  <2> QED BY <2>1, <2>2 DEF HasNow
<1>6. FreshStep(x, a, o, a2, o2)
  <2>1. ASSUME NEW g \in Threads, ~thr[g].dead, NEW t \in Txns, Fresh(t, g, a2, o2)' PROVE FreshOk(t, g, x, a, o)
    <3>1. t # w
      BY <1>q, <2>1 DEF Fresh
    <3>2. Fresh(t, g, a, o)
      BY <1>3, <1>q, <2>1, <3>1 DEF Fresh
    <3> QED BY <2>1, <3>2 DEF FreshOk, Takes
  <2> QED BY <2>1 DEF FreshStep
<1>7. /\ (x \in Threads => Starts(x, a, r, c) /\ (job'[x].pc \in {"built", "deliver"} => ~thr[x].dead))
      /\ (job'[x].pc = "walk" \/ job[x].pc = "walk" => job'[x] = job[x]) /\ SameStacks
      /\ \A y \in Tasks : y # x => job'[y] = job[y]
  BY DEF Starts, Takes
<1>8. GhostType(a2, o2, r, c, d) /\ Placed(a2, o2, r)' /\ Linked(a2, o2, r, c, d)'
  BY ONLY <1>q, <1>4, <1>5, <1>6, <1>7, MoveStep, Core(a, o, r, c, d), x \in Tasks, Types', ListsGo(w, a, o, a2, o2)
<1> QED BY <1>3, <1>8, <1>q

\* Something is taken off the list of a released thread h.
LEMMA DrainBase ==
  ASSUME NEW a, NEW o, NEW r, NEW c, NEW d, Core(a, o, r, c, d), NEW x \in Tasks, job[x].pc = "drain", NEW h, h = job[x].dying,
         Len(thr[h].todo) > 0, thr' = SetTodo(thr, h, Tail(thr[h].todo)), prc' \in [Procs -> ProcType], txn' \in [Txns -> TxnType],
         calls' = calls, faults' = faults,
         \A p \in Procs : /\ prc'[p].life = prc[p].life /\ prc'[p].tmp = prc[p].tmp /\ prc'[p].todo = prc[p].todo
                          /\ prc'[p].async_todo = prc[p].async_todo /\ prc'[p].requested = prc[p].requested
                          /\ prc'[p].started = prc[p].started,
         NEW j \in JobType, Become(x, j), Carries(j), x \in Threads => ForThread(x, j), x = Worker => ForWorker(j),
         j.dying = h, j.target = None, j.proc = job[x].proc, j.pc \notin {"queue", "rsend"}
  PROVE  /\ Base' /\ Types' /\ h \in Threads /\ thr[h].dead
         /\ (\A g \in Threads : g # h => thr'[g] = thr[g]) /\ thr'[h].dead = thr[h].dead /\ thr'[h].todo = Tail(thr[h].todo)
         /\ thr[h].todo \in Seq(Txns \cup Words)
<1>1. /\ Base /\ Types /\ PoolBound /\ Lives /\ thr \in [Threads -> ThreadType] /\ job \in [Tasks -> JobType]
  BY CoreIs DEF Types
<1>2. /\ job[x].target = None /\ h \in Threads /\ thr[h].dead
  BY ReleaseHolds
<1>3. thr[h].todo \in Seq(Txns \cup Words) /\ Tail(thr[h].todo) \in Seq(Txns \cup Words)
  BY <1>1, <1>2, TailIn DEF ThreadType
<1>4. /\ thr' \in [Threads -> ThreadType] /\ \A g \in Threads : g # h => thr'[g] = thr[g]
      /\ SameLife(thr'[h], thr[h]) /\ SameFlags(thr'[h], thr[h]) /\ thr'[h].stack = thr[h].stack
      /\ thr'[h].process_todo = thr[h].process_todo /\ thr'[h].todo = Tail(thr[h].todo)
  <2>1. PICK K : K = Tail(thr[h].todo)
    OBVIOUS
  <2>2. K \in Seq(Txns \cup Words) /\ thr' = SetTodo(thr, h, K)
    BY <1>3, <2>1
  <2>3. /\ thr' \in [Threads -> ThreadType] /\ \A g \in Threads : g # h => thr'[g] = thr[g]
        /\ SameLife(thr'[h], thr[h]) /\ SameFlags(thr'[h], thr[h]) /\ thr'[h].stack = thr[h].stack
        /\ thr'[h].process_todo = thr[h].process_todo /\ thr'[h].todo = K
    BY ONLY <1>1, <1>2, <2>2, FieldIs
  <2> QED BY <2>1, <2>3
<1>5. Types'
  BY <1>1, <1>4 DEF Types, Become
<1>6. ProcsStep
  BY <1>1 DEF ProcsStep, PoolBound
<1>7. ThreadsStep(x, j)
  <2>1. ASSUME NEW g \in Threads, g # h
        PROVE  /\ thr'[g].dead = thr[g].dead
               /\ thr'[g].waiting => thr[g].waiting /\ thr'[g].stack = thr[g].stack /\ thr'[g].todo = thr[g].todo
               /\ thr[g].dead /\ Len(thr'[g].todo) > 0 => Len(thr[g].todo) > 0 /\ (job[x].dying = g => j.dying = g)
               /\ Grows(g)
    BY <1>4, <2>1 DEF Grows
  <2>2. ~thr[h].waiting /\ ~thr'[h].waiting
    BY <1>1, <1>2, <1>4 DEF Lives, SameFlags
  <2>3. job[h].pc \notin {"queue", "rsend"}
    <3>1. Carries(job[h]) /\ ForThread(h, job[h])
      BY <1>2, TaskHolds, Marks
    <3>2. ASSUME job[h].pc # "idle" PROVE job[h].dying = h
      BY <1>2, <3>1, <3>2 DEF ForThread
    <3> QED BY <1>2, <3>1, <3>2, Marks DEF Carries
  <2> QED BY <1>2, <1>4, <2>1, <2>2, <2>3 DEF ThreadsStep, SameLife
<1>8. Gains(x, j, None, None)
  <2>1. \A g \in Threads : thr'[g].tmp = thr[g].tmp /\ thr[g].tmp \in Nat /\ g # None /\ thr'[g].dead = thr[g].dead /\ thr'[g].mem = thr[g].mem
    BY <1>1, <1>4, Marks DEF SameLife, ThreadType
  <2>2. \A p \in Procs : prc[p].tmp \in Nat /\ p # None
    BY <1>1, Marks DEF Types, ProcType
  <2> QED BY <1>2, <2>1, <2>2 DEF Gains, One
<1>9. Base'
  <2>1. (x = Worker => ForWorker(j) /\ j.proc = job[x].proc) /\ None \in Threads \cup {None} /\ None \in Procs \cup {None}
        /\ (j.pc \in {"queue", "rsend"} => \E i \in DOMAIN thr'[x].todo : thr'[x].todo[i] = "complete")
    OBVIOUS
  <2> QED BY ONLY <1>1, <1>5, <1>6, <1>7, <1>8, <2>1, GainStep, x \in Tasks, j \in JobType, Become(x, j), Carries(j), x \in Threads => ForThread(x, j)
<1> QED BY <1>2, <1>3, <1>4, <1>5, <1>9 DEF SameLife

ToFail(j, w) == [j EXCEPT !.pc = "fail1", !.t = w, !.target = None, !.next = j.pc]

\* A job that goes on with a call to fail.
LEMMA FailsNext ==
  ASSUME NEW a, NEW o, NEW r, NEW c, NEW d, Core(a, o, r, c, d), NEW x \in Tasks, job[x].pc \in {"drain", "todo"}, NEW w \in Txns,
         NEW j, j = ToFail(job[x], w)
  PROVE  /\ j \in JobType /\ j.pc = "fail1" /\ j.t = w /\ j.re = None /\ j.target = None /\ j.proc = job[x].proc /\ j.dying = job[x].dying
         /\ Carries(j) /\ (x \in Threads => ForThread(x, j)) /\ (x = Worker => ForWorker(j))
<1>1. /\ job[x] \in JobType /\ Carries(job[x]) /\ (x \in Threads => ForThread(x, job[x]) /\ x # Worker) /\ (x = Worker => ForWorker(job[x]))
      /\ (x # Worker => x \in Threads)
  BY TaskHolds, Marks
<1>2. job[x].re = None
  BY ReleaseHolds
<1>3. /\ j \in JobType /\ j.pc = "fail1" /\ j.t = w /\ j.re = None /\ j.target = None /\ j.proc = job[x].proc /\ j.dying = job[x].dying
      /\ j.next = job[x].pc
  BY <1>1, <1>2 DEF JobType, Parents, ToFail
<1>4. Carries(j)
  BY <1>1, <1>3, Marks DEF Carries
<1>5. x \in Threads => ForThread(x, j)
  BY <1>1, <1>3 DEF ForThread
<1>6. x = Worker => ForWorker(j)
  BY <1>1, <1>3 DEF ForWorker
<1> QED BY <1>3, <1>4, <1>5, <1>6

\* A job that goes on as it is.
LEMMA CleanedJob ==
  ASSUME NEW a, NEW o, NEW r, NEW c, NEW d, Core(a, o, r, c, d), NEW x \in Tasks, job[x].pc \in {"drain", "todo"}
  PROVE  /\ [job[x] EXCEPT !.pc = job[x].pc, !.t = None, !.target = None] = job[x]
         /\ job[x] \in JobType /\ Carries(job[x]) /\ (x \in Threads => ForThread(x, job[x])) /\ (x = Worker => ForWorker(job[x]))
         /\ job[x].target = None /\ [job EXCEPT ![x] = job[x]] = job
<1>1. /\ job[x] \in JobType /\ Carries(job[x]) /\ (x \in Threads => ForThread(x, job[x])) /\ (x = Worker => ForWorker(job[x]))
      /\ job \in [Tasks -> JobType]
  BY TaskHolds, CoreIs DEF Types
<1>2. job[x].t = None /\ job[x].target = None
  BY ReleaseHolds
<1>3. [job[x] EXCEPT !.pc = job[x].pc, !.t = None, !.target = None] = job[x]
  BY <1>1, <1>2 DEF JobType
<1>4. [job EXCEPT ![x] = job[x]] = job
  BY <1>1
<1> QED BY <1>1, <1>2, <1>3, <1>4

\* binder_release_work() of the first item of a released thread's list.
LEMMA DrainStep ==
  ASSUME TxnInv, NEW x \in Tasks, Drain(x)
  PROVE  TxnInv'
<1>0. PICK a, o, r, c, d : Core(a, o, r, c, d)
  BY DEF TxnInv
<1>p. PICK h, L, p : h = job[x].dying /\ L = thr[h].todo /\ p = ProcOf[h]
  OBVIOUS
<1>w. PICK w, b : w = Head(L) /\ b \in BOOLEAN /\ (b <=> w \in Txns /\ txn[w].kind = "async")
  OBVIOUS
<1>1. /\ Types /\ PoolBound /\ Turns(a) /\ (\A t \in Txns : Fits(a, o, r, t)) /\ Listed(a, o) /\ PlaceType(a, o, r)
      /\ prc \in [Procs -> ProcType] /\ txn \in [Txns -> TxnType]
  BY <1>0, CoreIs DEF Types
<1>2. /\ job[x].pc = "drain" /\ Len(L) > 0 /\ thr' = SetTodo(thr, h, Tail(L)) /\ calls' = calls /\ faults' = faults
      /\ IF w \in Txns THEN Cleanup(x, w, "drain") ELSE job' = job /\ txn' = txn
      /\ prc' = IF b THEN [prc EXCEPT ![p].stuck = @ + 1] ELSE prc
  BY <1>p, <1>w DEF Drain, SetTodo
<1>3. /\ job[x].t = None /\ job[x].re = None /\ job[x].target = None /\ h \in Threads /\ thr[h].dead /\ p \in Procs
      /\ (\A t \in Txns : ~(a[t] \in Taken /\ o[t] = x)) /\ (x # Worker => x = h) /\ (x = Worker => job[x].proc = p)
  BY <1>0, <1>2, <1>p, ReleaseHolds, Marks
<1>4. L \in Seq(Txns \cup Words) /\ ListIs(L, "todo", h, a, o)
  BY <1>1, <1>3, <1>p, ListedIs
<1>5. w \in Txns => a[w] = "todo" /\ o[w] = h
  BY <1>2, <1>4, <1>w, TailIn DEF ListIs
<1>6. /\ prc' \in [Procs -> ProcType]
      /\ \A q \in Procs : /\ prc'[q].life = prc[q].life /\ prc'[q].tmp = prc[q].tmp /\ prc'[q].todo = prc[q].todo
                          /\ prc'[q].async_todo = prc[q].async_todo /\ prc'[q].has_async = prc[q].has_async
                          /\ prc'[q].requested = prc[q].requested /\ prc'[q].started = prc[q].started
                          /\ prc'[q].stuck = prc[q].stuck + One(b /\ q = p) /\ prc'[q].buffers = prc[q].buffers
  <2>1. CASE b
    <3>1. prc' = LoseBuffer(prc, p, b)
      BY <1>2, <2>1 DEF LoseBuffer
    <3> QED BY <1>1, <1>3, <1>w, <3>1, BufferIs
  <2>2. CASE ~b
    <3>1. \A q \in Procs : prc[q].stuck \in Nat /\ One(b /\ q = p) = 0
      BY <1>1, <2>2 DEF ProcType, One
    <3> QED BY <1>1, <1>2, <2>2, <3>1
  <2> QED BY <2>1, <2>2
<1>7. \A q \in Procs : /\ prc'[q].life = prc[q].life /\ prc'[q].tmp = prc[q].tmp /\ prc'[q].todo = prc[q].todo
                       /\ prc'[q].async_todo = prc[q].async_todo /\ prc'[q].requested = prc[q].requested
                       /\ prc'[q].started = prc[q].started
  BY <1>6
<1>k. Len(thr[h].todo) > 0 /\ thr' = SetTodo(thr, h, Tail(thr[h].todo))
  BY <1>2, <1>p
<1>c. /\ [job[x] EXCEPT !.pc = job[x].pc, !.t = None, !.target = None] = job[x]
      /\ job[x] \in JobType /\ Carries(job[x]) /\ (x \in Threads => ForThread(x, job[x])) /\ (x = Worker => ForWorker(job[x]))
      /\ job[x].target = None /\ [job EXCEPT ![x] = job[x]] = job
  BY <1>0, <1>2, CleanedJob
<1>8. ASSUME job' = job, txn' \in [Txns -> TxnType]
      PROVE  /\ Base' /\ Types' /\ h \in Threads /\ thr[h].dead
             /\ (\A g \in Threads : g # h => thr'[g] = thr[g]) /\ thr'[h].dead = thr[h].dead /\ thr'[h].todo = Tail(thr[h].todo)
             /\ thr[h].todo \in Seq(Txns \cup Words)
  <2>1. /\ Become(x, job[x]) /\ job[x].dying = h /\ job[x].proc = job[x].proc /\ job[x].pc \notin {"queue", "rsend"}
    BY <1>2, <1>8, <1>c, <1>p DEF Become
  <2> QED BY ONLY <1>0, <1>2, <1>p, <1>6, <1>7, <1>8, <1>c, <1>k, <2>1, DrainBase, x \in Tasks
<1>s. ASSUME \A g \in Threads : g # h => thr'[g] = thr[g], thr'[h].dead = thr[h].dead
      PROVE  SameStacks /\ \A g \in Threads : ~thr[g].dead => thr'[g].todo = thr[g].todo
  <2>1. ASSUME NEW g \in Threads
        PROVE  thr'[g].dead = thr[g].dead /\ (~thr[g].dead => thr'[g].stack = thr[g].stack /\ thr'[g].todo = thr[g].todo)
    <3>1. CASE g = h
      BY <1>s, <1>3, <3>1
    <3>2. CASE g # h
      <4>1. thr'[g] = thr[g]
        BY <1>s, <3>2
      <4> QED BY <4>1
    <3> QED BY <3>1, <3>2
  <2> QED BY <2>1 DEF SameStacks
<1>l. ASSUME w \in Txns, \A g \in Threads : g # h => thr'[g] = thr[g], thr'[h].todo = Tail(thr[h].todo), NEW a2, NEW o2, a2[w] \in {"none", "job"}
      PROVE  ListsGo(w, a, o, a2, o2)
  <2>1. \A g \in Threads : Goes(thr[g].todo, thr'[g].todo, "todo", g, w, a, o, a2, o2)
    BY <1>2, <1>5, <1>l, <1>p, <1>w DEF Goes, Stay
  <2>2. \A q \in Procs : Goes(prc[q].todo, prc'[q].todo, "ptodo", q, w, a, o, a2, o2)
    BY <1>5, <1>6, <1>l DEF Goes, Stay
  <2>3. \A q \in Procs : Goes(prc[q].async_todo, prc'[q].async_todo, "async", q, w, a, o, a2, o2)
    BY <1>5, <1>6, <1>l DEF Goes, Stay
  <2> QED BY <2>1, <2>2, <2>3 DEF ListsGo
<1>9. CASE w \notin Txns
  <2>0. job' = job /\ txn' = txn /\ txn' \in [Txns -> TxnType] /\ ~b
    BY <1>1, <1>2, <1>9, <1>w
  <2>1. /\ Base' /\ Types' /\ (\A g \in Threads : g # h => thr'[g] = thr[g]) /\ thr'[h].dead = thr[h].dead /\ thr'[h].todo = Tail(thr[h].todo)
    BY <1>8, <2>0
  <2>2. SameStacks
    BY <1>s, <2>1
  <2>3. ListsStay
    <3>1. Kept(thr[h].todo, thr'[h].todo)
      <4>1. Stay(L, Tail(L))
        BY <1>2, <1>4, <1>9, <1>w, StayWords
      <4>2. L[1] = w
        BY <1>2, <1>4, <1>w, TailIn
      <4> QED BY <1>9, <1>p, <2>1, <4>1, <4>2 DEF Kept
    <3>2. \A g \in Threads : Kept(thr[g].todo, thr'[g].todo)
      BY <2>1, <3>1, KeptSame
    <3> QED BY <1>6, <3>2 DEF ListsStay
  <2>4. \A t \in Txns : Moves(t, x, None, a, o, r, a, o)
    BY <2>0 DEF Moves
  <2>5. HasNow(x, a, o, r)
    <3>1. Holds(a, o, x, job'[x])
      BY <1>3, <2>0 DEF Holds
    <3> QED BY <1>3, <3>1 DEF HasNow
  <2>6. GhostType(a, o, r, c, d) /\ Placed(a, o, r)' /\ Linked(a, o, r, c, d)'
    <3>1. /\ (job'[x].pc = "walk" \/ job[x].pc = "walk" => job'[x] = job[x]) /\ (\A y \in Tasks : y # x => job'[y] = job[y])
      BY <2>0
    <3>2. x \in Threads => MayStart(x, a, o, r, c)
      BY <1>2, <2>0, StartsNone
    <3> QED BY ONLY <1>0, <1>1, <2>1, <2>2, <2>3, <2>4, <2>5, <3>1, <3>2, HandStep, x \in Tasks
  <2>7. Turns(a)'
    <3>1. \A q \in Procs : One(b /\ q = p) = 0 /\ prc[q].stuck \in Nat
      BY <1>1, <2>0 DEF One, ProcType
    <3>2. \A q \in Procs : prc'[q].life = "open" =>
            /\ prc[q].life = "open" /\ prc'[q].buffers = prc[q].buffers
            /\ prc'[q].stuck = prc[q].stuck /\ prc'[q].has_async = prc[q].has_async
            /\ prc'[q].async_todo = prc[q].async_todo
      BY <1>6, <3>1
    <3> QED BY <1>1, <2>0, <3>2, TurnsQuiet
  <2> QED BY <2>1, <2>6, <2>7, CoreStep
<1>10. CASE w \in Txns /\ txn[w].kind = "call"
  <2>j. PICK j : j = ToFail(job[x], w)
    OBVIOUS
  <2>g. PICK a2, o2 : a2 = Put(a, w, "job") /\ o2 = Put(o, w, x)
    OBVIOUS
  <2>0. Become(x, j) /\ txn' = txn /\ txn' \in [Txns -> TxnType] /\ ~b
    BY <1>1, <1>2, <1>10, <1>w, <2>j DEF Cleanup, ToFail
  <2>1. /\ j \in JobType /\ j.pc = "fail1" /\ j.t = w /\ j.re = None /\ j.target = None /\ j.proc = job[x].proc /\ j.dying = job[x].dying
        /\ Carries(j) /\ (x \in Threads => ForThread(x, j)) /\ (x = Worker => ForWorker(j))
    <3>1. job[x].pc \in {"drain", "todo"} /\ w \in Txns
      BY <1>2, <1>10
    <3> QED BY ONLY <1>0, <2>j, <3>1, FailsNext, x \in Tasks
  <2>2. /\ Base' /\ Types' /\ (\A g \in Threads : g # h => thr'[g] = thr[g]) /\ thr'[h].dead = thr[h].dead /\ thr'[h].todo = Tail(thr[h].todo)
    <3>1. j.dying = h /\ j.pc \notin {"queue", "rsend"}
      BY <1>p, <2>1
    <3> QED BY ONLY <1>0, <1>2, <1>p, <1>6, <1>7, <1>k, <2>0, <2>1, <3>1, DrainBase, x \in Tasks
  <2>3. a2[w] = "job"
    BY <1>1, <1>10, <2>g DEF Put, PlaceType
  <2>4. ListsGo(w, a, o, a2, o2)
    BY <1>10, <1>l, <2>2, <2>3
  <2>5. Takes(x, w, a)
    BY <1>2, <1>5, <1>10, <1>s, <2>2 DEF Takes
  <2>6. txn[w].to_thread \in {None, job[x].dying} /\ txn[w].to_proc = Home(x)
    <3>1. txn[w].to_proc = p /\ txn[w].to_thread \in {None, h}
      BY <1>1, <1>5, <1>10, <1>p DEF Fits
    <3>2. Home(x) = p
      BY <1>3, <1>p DEF Home
    <3> QED BY <1>p, <3>1, <3>2
  <2>7. /\ GhostType(a2, o2, r, c, d) /\ Placed(a2, o2, r)' /\ Linked(a2, o2, r, c, d)' /\ \A q \in Procs : Turn(q, a2)' = Turn(q, a)
    BY ONLY <1>0, <1>10, <2>0, <2>1, <2>2, <2>4, <2>5, <2>6, <2>g, HeadFails, x \in Tasks
  <2>8. Turns(a2)'
    <3>1. \A q \in Procs : One(b /\ q = p) = 0 /\ prc[q].stuck \in Nat
      BY <1>1, <2>0 DEF One, ProcType
    <3>2. \A q \in Procs : prc'[q].life = "open" => prc[q].life = "open" /\ SameWork(prc'[q], prc[q])
      BY <1>6, <3>1 DEF SameWork
    <3> QED BY <1>1, <2>7, <3>2, TurnsHand
  <2> QED BY <2>2, <2>7, <2>8, CoreStep
<1>11. CASE w \in Txns /\ txn[w].kind # "call"
  <2>g. PICK a2, o2 : a2 = Put(a, w, "none") /\ o2 = Put(o, w, None)
    OBVIOUS
  <2>0. Frees(w) /\ job' = job
    BY <1>2, <1>11, <1>c DEF Cleanup, Frees, Become
  <2>t. txn' \in [Txns -> TxnType]
    BY <1>1, <2>0 DEF Frees, TxnType, NoTxn, Parents
  <2>2. /\ Base' /\ Types' /\ (\A g \in Threads : g # h => thr'[g] = thr[g]) /\ thr'[h].dead = thr[h].dead /\ thr'[h].todo = Tail(thr[h].todo)
    BY <1>8, <2>0, <2>t
  <2>3. a2[w] = "none"
    BY <1>1, <1>11, <2>g DEF Put, PlaceType
  <2>4. ListsGo(w, a, o, a2, o2)
    BY <1>11, <1>l, <2>2, <2>3
  <2>5. Takes(x, w, a)
    BY <1>2, <1>5, <1>11, <1>s, <2>2 DEF Takes
  <2>7. /\ GhostType(a2, o2, r, c, d) /\ Placed(a2, o2, r)' /\ Linked(a2, o2, r, c, d)'
        /\ a2[w] = "none" /\ \A t \in Txns : t # w => a2[t] = a[t] /\ txn'[t] = txn[t]
    BY ONLY <1>0, <1>11, <2>0, <2>2, <2>4, <2>5, <2>g, HeadFreed, x \in Tasks
  <2>8. Turns(a2)'
    <3>1. ASSUME NEW q \in Procs, prc'[q].life = "open"
          PROVE  /\ Cardinality(Turn(q, a2))' + prc'[q].buffers + prc'[q].stuck = IF prc'[q].has_async THEN 1 ELSE 0
                 /\ Len(prc'[q].async_todo) > 0 => prc'[q].has_async
      <4>1. prc[q].life = "open"
        BY <1>6, <3>1
      <4>2. \A t \in Txns : t # w => (t \in Turn(q, a2)' <=> t \in Turn(q, a))
        BY <2>7 DEF Turn
      <4>3. w \notin Turn(q, a2)' /\ (w \in Turn(q, a) <=> b /\ q = p)
        <5>1. txn[w].to_proc = p
          BY <1>1, <1>5, <1>11, <1>p DEF Fits
        <5> QED BY <1>5, <1>11, <1>w, <2>7, <5>1 DEF Turn
      <4>4. /\ Cardinality(Turn(q, a2))' \in Nat /\ Cardinality(Turn(q, a)) \in Nat
            /\ Cardinality(Turn(q, a2))' = Cardinality(Turn(q, a)) + One(w \in Turn(q, a2)') - One(w \in Turn(q, a))
        BY <4>2, TurnStep
      <4>n. PICK n : n = One(b /\ q = p)
        OBVIOUS
      <4>5. n \in Nat /\ One(w \in Turn(q, a2)') = 0 /\ One(w \in Turn(q, a)) = n
        BY <4>3, <4>n DEF One
      <4>6. prc'[q].stuck = prc[q].stuck + n /\ prc'[q].buffers = prc[q].buffers /\ prc[q].stuck \in Nat /\ prc[q].buffers \in Nat
        BY <1>1, <1>6, <4>n DEF ProcType
      <4>7. Cardinality(Turn(q, a2))' + prc'[q].buffers + prc'[q].stuck = Cardinality(Turn(q, a)) + prc[q].buffers + prc[q].stuck
        BY ONLY <4>4, <4>5, <4>6
      <4>8. /\ Cardinality(Turn(q, a)) + prc[q].buffers + prc[q].stuck = IF prc[q].has_async THEN 1 ELSE 0
            /\ Len(prc[q].async_todo) > 0 => prc[q].has_async
        BY <1>1, <4>1 DEF Turns
      <4> QED BY <1>6, <4>7, <4>8
    <3> QED BY <3>1 DEF Turns
  <2> QED BY <2>2, <2>7, <2>8, CoreStep
<1> QED BY <1>9, <1>10, <1>11

\* Of the lists and counts of the processes, what a release may change: the lists get shorter.
Shrinks == \A q \in Procs : /\ prc'[q].life = prc[q].life /\ prc'[q].tmp = prc[q].tmp
                            /\ prc'[q].requested = prc[q].requested /\ prc'[q].started = prc[q].started
                            /\ Len(prc'[q].todo) > 0 => Len(prc[q].todo) > 0
                            /\ Len(prc'[q].async_todo) > 0 => Len(prc[q].async_todo) > 0

\* Task x goes on as j and leaves the threads as they are.
LEMMA StillBase ==
  ASSUME NEW a, NEW o, NEW r, NEW c, NEW d, Core(a, o, r, c, d), NEW x \in Tasks, NEW j \in JobType, Become(x, j), Carries(j),
         x \in Threads => ForThread(x, j), x = Worker => ForWorker(j),
         j.target = job[x].target, j.proc = job[x].proc, j.dying = job[x].dying, j.pc \notin {"queue", "rsend"},
         thr' = thr, prc' \in [Procs -> ProcType], Shrinks, txn' \in [Txns -> TxnType], calls' = calls, faults' = faults
  PROVE  Base' /\ Types' /\ SameStacks
<1>1. /\ Base /\ Types /\ PoolBound /\ Lives /\ thr \in [Threads -> ThreadType] /\ job \in [Tasks -> JobType]
  BY CoreIs DEF Types
<1>5. Types'
  BY <1>1 DEF Types, Become
<1>6. ProcsStep
  BY <1>1 DEF ProcsStep, PoolBound, Shrinks
<1>7. ThreadsStep(x, j)
  <2>1. ASSUME NEW g \in Threads
        PROVE  /\ thr'[g].dead = thr[g].dead
               /\ thr'[g].waiting => thr[g].waiting /\ thr'[g].stack = thr[g].stack /\ thr'[g].todo = thr[g].todo
               /\ thr[g].dead /\ Len(thr'[g].todo) > 0 => Len(thr[g].todo) > 0 /\ (job[x].dying = g => j.dying = g)
               /\ Grows(g)
    BY <2>1 DEF Grows
  <2> QED BY <2>1 DEF ThreadsStep
<1>8. Gains(x, j, None, None)
  <2>1. \A g \in Threads : thr[g].tmp \in Nat /\ g # None
    BY <1>1, Marks DEF ThreadType
  <2>2. \A p \in Procs : prc[p].tmp \in Nat /\ p # None
    BY <1>1, Marks DEF Types, ProcType
  <2> QED BY <2>1, <2>2 DEF Gains, One, Shrinks
<1>9. Base'
  <2>1. (x = Worker => ForWorker(j) /\ j.proc = job[x].proc) /\ None \in Threads \cup {None} /\ None \in Procs \cup {None}
        /\ (j.pc \in {"queue", "rsend"} => \E i \in DOMAIN thr'[x].todo : thr'[x].todo[i] = "complete")
    OBVIOUS
  <2> QED BY ONLY <1>1, <1>5, <1>6, <1>7, <1>8, <2>1, GainStep, x \in Tasks, j \in JobType, Become(x, j), Carries(j), x \in Threads => ForThread(x, j)
<1>10. SameStacks
  BY DEF SameStacks
<1> QED BY <1>5, <1>9, <1>10

\* The processes as they are.
LEMMA StillProcs ==
  ASSUME Types, prc' = prc, thr' = thr
  PROVE  prc' \in [Procs -> ProcType] /\ Shrinks /\ ListsStay /\ \A q \in Procs : SameWork(prc'[q], prc[q])
<1>1. \A g \in Threads : Kept(thr[g].todo, thr'[g].todo)
  BY KeptSame
<1> QED BY <1>1 DEF Types, Shrinks, ListsStay, SameWork

\* The job that follows the end of a failed reply.
LEMMA JobNext ==
  ASSUME NEW a, NEW o, NEW r, NEW c, NEW d, Core(a, o, r, c, d), NEW x \in Tasks, job[x].pc \in {"free", "fail1"},
         NEW j, j = [job[x] EXCEPT !.pc = job[x].next, !.t = None]
  PROVE  /\ j \in JobType /\ Carries(j) /\ (x \in Threads => ForThread(x, j)) /\ (x = Worker => ForWorker(j))
         /\ j.t = None /\ j.re = None /\ j.target = job[x].target /\ j.proc = job[x].proc /\ j.dying = job[x].dying
         /\ j.pc \in {"idle", "drain", "todo"}
<1>1. /\ job[x] \in JobType /\ Carries(job[x]) /\ (x \in Threads => ForThread(x, job[x]) /\ x # Worker) /\ (x = Worker => ForWorker(job[x]))
      /\ (x # Worker => x \in Threads)
  BY TaskHolds, Marks
<1>2. job[x].re = None /\ job[x].target = None
  BY <1>1 DEF Carries
<1>3. /\ j \in JobType /\ j.pc = job[x].next /\ j.t = None /\ j.re = None /\ j.target = None /\ j.proc = job[x].proc /\ j.dying = job[x].dying
      /\ j.next = job[x].next /\ j.pc \in {"idle", "drain", "todo"} /\ job[x].target = None
  BY <1>1, <1>2 DEF JobType, Parents
<1>4. (job[x].next = "drain" <=> job[x].dying # None)
  BY <1>1 DEF Carries
<1>5. j.pc = "idle" => j = Idle
  <2>1. ASSUME j.pc = "idle" PROVE j.proc = None /\ j.dying = None /\ j.next = "idle"
    <3>1. x # Worker
      BY <1>1, <1>3, <2>1 DEF ForWorker
    <3>2. job[x].proc = None
      BY <1>1, <3>1 DEF ForThread
    <3> QED BY <1>3, <1>4, <2>1, <3>2
  <2> QED BY <1>3, <2>1 DEF JobType, Idle
<1>6. Carries(j)
  BY <1>3, <1>4, <1>5, Marks DEF Carries
<1>7. x \in Threads => ForThread(x, j)
  BY <1>1, <1>3 DEF ForThread
<1>8. x = Worker => ForWorker(j)
  BY <1>1, <1>3 DEF ForWorker
<1> QED BY <1>3, <1>6, <1>7, <1>8

\* A transaction may be freed only when its handler's stack has been walked over.
LEMMA NotOnStack ==
  ASSUME NEW a, NEW o, NEW r, NEW c, NEW d, Core(a, o, r, c, d), NEW t \in Txns, a[t] \in {"job", "done"}, MayFree(t)
  PROVE  r[t] = None
<1>1. Types /\ PlaceType(a, o, r) /\ Fits(a, o, r, t)
  BY CoreIs
<1>2. SUFFICES ASSUME r[t] # None PROVE FALSE
  OBVIOUS
<1>3. r[t] \in Threads /\ txn[t].to_thread = r[t] /\ thr[r[t]].dead /\ txn[t].to_proc = ProcOf[r[t]]
  BY <1>1, <1>2, Marks DEF Fits, PlaceType
<1>4. Inner(ProcOf[r[t]])
  BY <1>3, Marks DEF MayFree
<1>5. t \in On(r[t], txn, a, r)
  BY <1>3 DEF On
<1> QED BY <1>3, <1>4, <1>5, NoWalk

\* binder_free_transaction() of a call that was answered.
LEMMA FreeStep ==
  ASSUME TxnInv, NEW x \in Tasks, Free(x)
  PROVE  TxnInv'
<1>0. PICK a, o, r, c, d : Core(a, o, r, c, d)
  BY DEF TxnInv
<1>p. PICK t, j : t = job[x].t /\ j = [job[x] EXCEPT !.pc = job[x].next, !.t = None]
  OBVIOUS
<1>g. PICK a2, o2 : a2 = Put(a, t, "none") /\ o2 = Put(o, t, None)
  OBVIOUS
<1>1. /\ job[x].pc = "free" /\ MayFree(t) /\ Frees(t) /\ Become(x, j) /\ thr' = thr /\ prc' = prc /\ calls' = calls /\ faults' = faults
  BY <1>p DEF Free, Frees
<1>2. /\ Types /\ Turns(a) /\ (\A w \in Txns : Fits(a, o, r, w)) /\ txn \in [Txns -> TxnType]
      /\ Carries(job[x]) /\ job[x] \in JobType /\ Holds(a, o, x, job[x])
  BY <1>0, CoreIs, TaskHolds DEF Types
<1>3. t \in Txns /\ a[t] = "done" /\ o[t] = x /\ job[x].re = None
  BY <1>1, <1>2, <1>p DEF Carries, Holds, JobType, Parents
<1>4. r[t] = None
  BY <1>0, <1>1, <1>3, NotOnStack
<1>5. /\ j \in JobType /\ Carries(j) /\ (x \in Threads => ForThread(x, j)) /\ (x = Worker => ForWorker(j))
      /\ j.t = None /\ j.re = None /\ j.target = job[x].target /\ j.proc = job[x].proc /\ j.dying = job[x].dying
      /\ j.pc \in {"idle", "drain", "todo"}
  <2>1. job[x].pc \in {"free", "fail1"}
    BY <1>1
  <2> QED BY ONLY <1>0, <1>p, <2>1, JobNext, x \in Tasks
<1>6. prc' \in [Procs -> ProcType] /\ Shrinks /\ ListsStay /\ \A q \in Procs : SameWork(prc'[q], prc[q])
  BY <1>1, <1>2, StillProcs
<1>7. Base' /\ Types' /\ SameStacks
  <2>1. txn' \in [Txns -> TxnType] /\ j.pc \notin {"queue", "rsend"}
    BY <1>1, <1>2, <1>5 DEF Frees, TxnType, NoTxn, Parents
  <2> QED BY ONLY <1>0, <1>1, <1>5, <1>6, <2>1, StillBase, x \in Tasks
<1>8. /\ GhostType(a2, o2, r, c, d) /\ Placed(a2, o2, r)' /\ Linked(a2, o2, r, c, d)'
      /\ \A p \in Procs : txn[t].kind # "async" \/ a[t] # "deliver" => Turn(p, a2)' = Turn(p, a)
  <2>r. PICK re : re = None
    OBVIOUS
  <2>1. re \in Parents /\ j.t = re /\ (re # None => a[re] = "job" /\ o[re] = x /\ j.pc = "fail1")
    BY <1>5, <2>r DEF Parents
  <2>2. \A w \in Txns : With(w, job[x]) => w \in {t, re}
    BY <1>3, <1>p, Marks DEF With
  <2>3. /\ a[t] \in {"built", "queue", "deliver", "done"} /\ (a[t] \in {"queue", "deliver"} => txn[t].kind # "call")
        /\ j.pc \notin {"walk", "built", "deliver"} /\ job[x].pc # "walk" /\ (x = Worker => j.proc = job[x].proc)
    BY <1>1, <1>3, <1>5
  <2> QED BY ONLY <1>0, <1>1, <1>3, <1>4, <1>5, <1>6, <1>7, <1>g, <2>1, <2>2, <2>3, FreedStep, x \in Tasks
<1>9. Turns(a2)'
  <2>1. \A p \in Procs : Turn(p, a2)' = Turn(p, a)
    BY <1>3, <1>8
  <2>2. \A p \in Procs : prc'[p].life = "open" => prc[p].life = "open" /\ SameWork(prc'[p], prc[p])
    BY <1>1, <1>6
  <2> QED BY <1>2, <2>1, <2>2, TurnsHand
<1> QED BY <1>7, <1>8, <1>9, CoreStep

SetPTodo(P, p, s) == [P EXCEPT ![p].todo = s]
SetAsync(P, p, s) == [P EXCEPT ![p].async_todo = s]

\* A list of a process without its head.
LEMMA ShorterIs ==
  ASSUME NEW p \in Procs, prc \in [Procs -> ProcType], NEW L
  PROVE  /\ L = prc[p].todo /\ Len(L) > 0 /\ prc' = SetPTodo(prc, p, Tail(L)) =>
              /\ prc' \in [Procs -> ProcType] /\ Shrinks /\ (\A q \in Procs : q # p => prc'[q] = prc[q])
              /\ prc'[p].todo = Tail(L) /\ prc'[p].async_todo = prc[p].async_todo
         /\ L = prc[p].async_todo /\ Len(L) > 0 /\ prc' = SetAsync(prc, p, Tail(L)) =>
              /\ prc' \in [Procs -> ProcType] /\ Shrinks /\ (\A q \in Procs : q # p => prc'[q] = prc[q])
              /\ prc'[p].async_todo = Tail(L) /\ prc'[p].todo = prc[p].todo
<1>1. ASSUME L = prc[p].todo, Len(L) > 0, prc' = SetPTodo(prc, p, Tail(L))
      PROVE  /\ prc' \in [Procs -> ProcType] /\ Shrinks /\ (\A q \in Procs : q # p => prc'[q] = prc[q])
             /\ prc'[p].todo = Tail(L) /\ prc'[p].async_todo = prc[p].async_todo
  <2>1. L \in Seq(Txns)
    BY <1>1 DEF ProcType
  <2>k. PICK K : K = Tail(L)
    OBVIOUS
  <2>2. K \in Seq(Txns)
    BY <1>1, <2>1, <2>k
  <2>3. prc' = [prc EXCEPT ![p].todo = K]
    BY <1>1, <2>k DEF SetPTodo
  <2>4. /\ prc' \in [Procs -> ProcType] /\ (\A q \in Procs : q # p => prc'[q] = prc[q])
        /\ prc'[p].life = prc[p].life /\ prc'[p].tmp = prc[p].tmp
        /\ prc'[p].requested = prc[p].requested /\ prc'[p].started = prc[p].started
        /\ prc'[p].todo = K /\ prc'[p].async_todo = prc[p].async_todo
    BY <2>2, <2>3 DEF ProcType
  <2>5. Shrinks
    BY <1>1, <2>4 DEF Shrinks
  <2> QED BY <2>k, <2>4, <2>5
<1>2. ASSUME L = prc[p].async_todo, Len(L) > 0, prc' = SetAsync(prc, p, Tail(L))
      PROVE  /\ prc' \in [Procs -> ProcType] /\ Shrinks /\ (\A q \in Procs : q # p => prc'[q] = prc[q])
             /\ prc'[p].async_todo = Tail(L) /\ prc'[p].todo = prc[p].todo
  <2>1. L \in Seq(Txns)
    BY <1>2 DEF ProcType
  <2>k. PICK K : K = Tail(L)
    OBVIOUS
  <2>2. K \in Seq(Txns)
    BY <1>2, <2>1, <2>k
  <2>3. prc' = [prc EXCEPT ![p].async_todo = K]
    BY <1>2, <2>k DEF SetAsync
  <2>4. /\ prc' \in [Procs -> ProcType] /\ (\A q \in Procs : q # p => prc'[q] = prc[q])
        /\ prc'[p].life = prc[p].life /\ prc'[p].tmp = prc[p].tmp
        /\ prc'[p].requested = prc[p].requested /\ prc'[p].started = prc[p].started
        /\ prc'[p].async_todo = K /\ prc'[p].todo = prc[p].todo
    BY <2>2, <2>3 DEF ProcType
  <2>5. Shrinks
    BY <1>2, <2>4 DEF Shrinks
  <2> QED BY <2>k, <2>4, <2>5
<1> QED BY <1>1, <1>2

\* The lists when w leaves one of process p.
LEMMA LeavesProc ==
  ASSUME NEW a, NEW o, NEW a2, NEW o2, NEW p \in Procs, NEW w \in Txns, thr' = thr, \A q \in Procs : q # p => prc'[q] = prc[q],
         a2[w] \in {"none", "job"}, o[w] = p,
         \/ /\ a[w] = "ptodo" /\ Len(prc[p].todo) > 0 /\ w = Head(prc[p].todo) /\ prc'[p].todo = Tail(prc[p].todo)
            /\ prc'[p].async_todo = prc[p].async_todo
         \/ /\ a[w] = "async" /\ Len(prc[p].async_todo) > 0 /\ w = Head(prc[p].async_todo)
            /\ prc'[p].async_todo = Tail(prc[p].async_todo) /\ prc'[p].todo = prc[p].todo
  PROVE  ListsGo(w, a, o, a2, o2)
<1>1. \A g \in Threads : Goes(thr[g].todo, thr'[g].todo, "todo", g, w, a, o, a2, o2)
  BY DEF Goes, Stay
<1>2. \A q \in Procs : Goes(prc[q].todo, prc'[q].todo, "ptodo", q, w, a, o, a2, o2)
  BY DEF Goes, Stay
<1>3. \A q \in Procs : Goes(prc[q].async_todo, prc'[q].async_todo, "async", q, w, a, o, a2, o2)
  BY DEF Goes, Stay
<1> QED BY <1>1, <1>2, <1>3 DEF ListsGo

\* The turns of the other processes, when a process that is closed loses w.
LEMMA TurnsClosed ==
  ASSUME NEW a, NEW a2, Turns(a), Shrinks, NEW p \in Procs, prc[p].life # "open", \A q \in Procs : q # p => prc'[q] = prc[q],
         NEW w \in Txns, txn[w].to_proc = p, \A t \in Txns : t # w => a2[t] = a[t] /\ txn'[t] = txn[t],
         txn'[w] = txn[w] \/ a2[w] = "none"
  PROVE  Turns(a2)'
<1>1. ASSUME NEW q \in Procs, prc'[q].life = "open"
      PROVE  /\ prc[q].life = "open" /\ Turn(q, a2)' = Turn(q, a) /\ prc'[q].buffers = prc[q].buffers
             /\ prc'[q].stuck = prc[q].stuck /\ prc'[q].has_async = prc[q].has_async
             /\ Len(prc'[q].async_todo) > 0 => Len(prc[q].async_todo) > 0
  <2>1. q # p /\ prc'[q] = prc[q]
    BY <1>1 DEF Shrinks
  <2>2. w \notin Turn(q, a2)' /\ w \notin Turn(q, a)
    BY <2>1 DEF Turn
  <2>3. \A t \in Txns : t # w => (t \in Turn(q, a2)' <=> t \in Turn(q, a))
    BY DEF Turn
  <2>4. Turn(q, a2)' \subseteq Txns /\ Turn(q, a) \subseteq Txns
    BY DEF Turn
  <2>5. Turn(q, a2)' = Turn(q, a)
    BY ONLY <2>2, <2>3, <2>4
  <2> QED BY <1>1, <2>1, <2>5
<1> QED BY <1>1, TurnsSame

\* binder_release_work() of the first transaction of a closed process's list.
LEMMA CloseTodoStep ==
  ASSUME TxnInv, CloseTodo, Len(prc[job[Worker].proc].todo) > 0
  PROVE  TxnInv'
<1>0. PICK a, o, r, c, d : Core(a, o, r, c, d)
  BY DEF TxnInv
<1>x. PICK x, p, L : x = Worker /\ p = job[x].proc /\ L = prc[p].todo
  OBVIOUS
<1>w. PICK w : w = Head(L)
  OBVIOUS
<1>1. /\ Types /\ Turns(a) /\ (\A t \in Txns : Fits(a, o, r, t)) /\ Listed(a, o) /\ PlaceType(a, o, r)
      /\ prc \in [Procs -> ProcType] /\ txn \in [Txns -> TxnType] /\ x \in Tasks
  BY <1>0, <1>x, CoreIs, Marks DEF Types
<1>2. /\ job[x].pc = "todo" /\ Len(L) > 0 /\ prc' = SetPTodo(prc, p, Tail(L)) /\ thr' = thr /\ calls' = calls /\ faults' = faults
      /\ Cleanup(x, w, "todo")
  BY <1>x, <1>w DEF CloseTodo, SetPTodo
<1>3. job[x].pc \in {"drain", "threads", "todo"} /\ job[x].pc \in {"drain", "todo"}
  BY <1>2
<1>4. /\ job[x].t = None /\ job[x].re = None /\ job[x].target = None /\ job[x].dying = None /\ p \in Procs
      /\ (\A t \in Txns : ~(a[t] \in Taken /\ o[t] = x))
  BY <1>0, <1>1, <1>2, <1>3, <1>x, ReleaseHolds
<1>5. prc[p].life = "gone"
  <2>1. ForWorker(job[x])
    BY <1>0, <1>1, <1>2, <1>x, TaskHolds
  <2> QED BY <1>2, <1>x, <2>1 DEF ForWorker
<1>6. L \in Seq(Txns \cup Words) /\ ListIs(L, "ptodo", p, a, o) /\ L \in Seq(Txns)
  BY <1>1, <1>4, <1>x, ListedIs
<1>7. w \in Txns /\ a[w] = "ptodo" /\ o[w] = p
  <2>1. w \in Txns
    BY <1>2, <1>6, <1>w
  <2> QED BY <1>2, <1>6, <1>w, <2>1, TailIn DEF ListIs
<1>8. txn[w].to_proc = p /\ txn[w].to_thread = None
  BY <1>1, <1>7 DEF Fits
<1>9. /\ prc' \in [Procs -> ProcType] /\ Shrinks /\ (\A q \in Procs : q # p => prc'[q] = prc[q])
      /\ prc'[p].todo = Tail(L) /\ prc'[p].async_todo = prc[p].async_todo
  BY ONLY <1>1, <1>2, <1>4, <1>x, ShorterIs
<1>10. Takes(x, w, a)
  BY <1>2, <1>7 DEF Takes, SameStacks
<1>l. ASSUME NEW a2, NEW o2, a2[w] \in {"none", "job"} PROVE ListsGo(w, a, o, a2, o2)
  <2>1. /\ a[w] = "ptodo" /\ Len(prc[p].todo) > 0 /\ w = Head(prc[p].todo) /\ prc'[p].todo = Tail(prc[p].todo)
        /\ prc'[p].async_todo = prc[p].async_todo
    BY <1>2, <1>7, <1>9, <1>w, <1>x
  <2> QED BY ONLY <1>2, <1>4, <1>7, <1>9, <1>l, <2>1, LeavesProc
<1>11. CASE txn[w].kind = "call"
  <2>j. PICK j : j = ToFail(job[x], w)
    OBVIOUS
  <2>g. PICK a2, o2 : a2 = Put(a, w, "job") /\ o2 = Put(o, w, x)
    OBVIOUS
  <2>0. Become(x, j) /\ txn' = txn /\ txn' \in [Txns -> TxnType]
    BY <1>1, <1>2, <1>11, <2>j DEF Cleanup, ToFail
  <2>1. /\ j \in JobType /\ j.pc = "fail1" /\ j.t = w /\ j.re = None /\ j.target = None /\ j.proc = job[x].proc /\ j.dying = job[x].dying
        /\ Carries(j) /\ (x \in Threads => ForThread(x, j)) /\ (x = Worker => ForWorker(j))
    BY ONLY <1>0, <1>1, <1>3, <1>7, <2>j, FailsNext
  <2>2. Base' /\ Types' /\ SameStacks
    <3>1. j.target = job[x].target /\ j.pc \notin {"queue", "rsend"}
      BY <1>4, <2>1
    <3> QED BY ONLY <1>0, <1>1, <1>2, <1>9, <2>0, <2>1, <3>1, StillBase
  <2>3. a2[w] = "job" /\ (\A t \in Txns : t # w => a2[t] = a[t] /\ txn'[t] = txn[t])
    BY <1>1, <1>7, <2>0, <2>g DEF Put, PlaceType
  <2>4. ListsGo(w, a, o, a2, o2)
    BY <1>l, <2>3
  <2>6. txn[w].to_thread \in {None, job[x].dying} /\ txn[w].to_proc = Home(x)
    BY <1>8, <1>x DEF Home
  <2>7. /\ GhostType(a2, o2, r, c, d) /\ Placed(a2, o2, r)' /\ Linked(a2, o2, r, c, d)' /\ \A q \in Procs : Turn(q, a2)' = Turn(q, a)
    BY ONLY <1>0, <1>1, <1>7, <1>10, <1>11, <2>0, <2>1, <2>2, <2>4, <2>6, <2>g, HeadFails
  <2>8. Turns(a2)'
    <3>1. prc[p].life # "open" /\ txn'[w] = txn[w]
      BY <1>5, <2>0
    <3> QED BY ONLY <1>1, <1>4, <1>7, <1>8, <1>9, <2>3, <3>1, TurnsClosed
  <2> QED BY <2>2, <2>7, <2>8, CoreStep
<1>12. CASE txn[w].kind # "call"
  <2>g. PICK a2, o2 : a2 = Put(a, w, "none") /\ o2 = Put(o, w, None)
    OBVIOUS
  <2>c. /\ [job[x] EXCEPT !.pc = job[x].pc, !.t = None, !.target = None] = job[x]
        /\ job[x] \in JobType /\ Carries(job[x]) /\ (x \in Threads => ForThread(x, job[x])) /\ (x = Worker => ForWorker(job[x]))
        /\ job[x].target = None /\ [job EXCEPT ![x] = job[x]] = job
    BY ONLY <1>0, <1>1, <1>3, CleanedJob
  <2>0. Frees(w) /\ job' = job /\ Become(x, job[x])
    BY <1>2, <1>12, <2>c DEF Cleanup, Frees, Become
  <2>t. txn' \in [Txns -> TxnType] /\ job[x].pc \notin {"queue", "rsend"}
    BY <1>1, <1>2, <2>0 DEF Frees, TxnType, NoTxn, Parents
  <2>2. Base' /\ Types' /\ SameStacks
    <3>j. PICK j : j = job[x]
      OBVIOUS
    <3>1. /\ j \in JobType /\ Carries(j) /\ (x \in Threads => ForThread(x, j)) /\ (x = Worker => ForWorker(j)) /\ Become(x, j)
          /\ j.target = job[x].target /\ j.proc = job[x].proc /\ j.dying = job[x].dying /\ j.pc \notin {"queue", "rsend"}
      BY <2>0, <2>c, <2>t, <3>j
    <3> QED BY ONLY <1>0, <1>1, <1>2, <1>9, <2>t, <3>1, StillBase
  <2>3. a2[w] = "none"
    BY <1>1, <1>7, <2>g DEF Put, PlaceType
  <2>4. ListsGo(w, a, o, a2, o2)
    BY <1>l, <2>3
  <2>7. /\ GhostType(a2, o2, r, c, d) /\ Placed(a2, o2, r)' /\ Linked(a2, o2, r, c, d)'
        /\ a2[w] = "none" /\ \A t \in Txns : t # w => a2[t] = a[t] /\ txn'[t] = txn[t]
    BY ONLY <1>0, <1>1, <1>7, <1>10, <1>12, <2>0, <2>2, <2>4, <2>g, HeadFreed
  <2>8. Turns(a2)'
    <3>1. prc[p].life # "open"
      BY <1>5
    <3> QED BY ONLY <1>1, <1>4, <1>7, <1>8, <1>9, <2>7, <3>1, TurnsClosed
  <2> QED BY <2>2, <2>7, <2>8, CoreStep
<1> QED BY <1>11, <1>12

\* binder_node_release() drops the one-way transactions that had no turn yet.
LEMMA CloseNodeStep ==
  ASSUME TxnInv, CloseNode, Len(prc[job[Worker].proc].async_todo) > 0
  PROVE  TxnInv'
<1>0. PICK a, o, r, c, d : Core(a, o, r, c, d)
  BY DEF TxnInv
<1>x. PICK x, p, L : x = Worker /\ p = job[x].proc /\ L = prc[p].async_todo
  OBVIOUS
<1>w. PICK w : w = Head(L)
  OBVIOUS
<1>g. PICK a2, o2 : a2 = Put(a, w, "none") /\ o2 = Put(o, w, None)
  OBVIOUS
<1>1. /\ Types /\ Turns(a) /\ (\A t \in Txns : Fits(a, o, r, t)) /\ Listed(a, o) /\ PlaceType(a, o, r)
      /\ prc \in [Procs -> ProcType] /\ txn \in [Txns -> TxnType] /\ job \in [Tasks -> JobType] /\ x \in Tasks
  BY <1>0, <1>x, CoreIs, Marks DEF Types
<1>2. /\ job[x].pc = "threads" /\ Len(L) > 0 /\ prc' = SetAsync(prc, p, Tail(L)) /\ thr' = thr /\ calls' = calls /\ faults' = faults
      /\ Frees(w) /\ job' = job
  BY <1>x, <1>w DEF CloseNode, SetAsync, Frees
<1>3. job[x].pc \in {"drain", "threads", "todo"}
  BY <1>2
<1>4. p \in Procs
  BY <1>0, <1>1, <1>3, <1>x, ReleaseHolds
<1>5. ForWorker(job[x]) /\ job[x] \in JobType /\ Carries(job[x])
  BY <1>0, <1>1, <1>2, <1>x, TaskHolds
<1>6. prc[p].life # "open"
  BY <1>2, <1>5, <1>x DEF ForWorker
<1>7. w \in Txns /\ a[w] = "async" /\ o[w] = p /\ txn[w].kind = "async" /\ txn[w].to_proc = p
  BY ONLY <1>0, <1>2, <1>4, <1>w, <1>x, NextIs
<1>9. /\ prc' \in [Procs -> ProcType] /\ Shrinks /\ (\A q \in Procs : q # p => prc'[q] = prc[q])
      /\ prc'[p].async_todo = Tail(L) /\ prc'[p].todo = prc[p].todo
  BY ONLY <1>1, <1>2, <1>4, <1>x, ShorterIs
<1>10. Takes(x, w, a) /\ txn[w].kind # "call"
  BY <1>2, <1>7 DEF Takes, SameStacks
<1>11. Base' /\ Types' /\ SameStacks
  <2>j. PICK j : j = job[x]
    OBVIOUS
  <2>1. /\ j \in JobType /\ Carries(j) /\ (x \in Threads => ForThread(x, j)) /\ (x = Worker => ForWorker(j)) /\ Become(x, j)
        /\ j.target = job[x].target /\ j.proc = job[x].proc /\ j.dying = job[x].dying /\ j.pc \notin {"queue", "rsend"}
    <3>1. [job EXCEPT ![x] = job[x]] = job
      BY <1>1
    <3> QED BY <1>2, <1>5, <1>x, <2>j, <3>1, Marks DEF Become
  <2>2. txn' \in [Txns -> TxnType]
    BY <1>1, <1>2 DEF Frees, TxnType, NoTxn, Parents
  <2> QED BY ONLY <1>0, <1>1, <1>2, <1>9, <2>1, <2>2, StillBase
<1>12. a2[w] = "none" /\ a2[w] \in {"none", "job"}
  BY <1>1, <1>7, <1>g DEF Put, PlaceType
<1>13. ListsGo(w, a, o, a2, o2)
  <2>1. /\ a[w] = "async" /\ Len(prc[p].async_todo) > 0 /\ w = Head(prc[p].async_todo) /\ prc'[p].async_todo = Tail(prc[p].async_todo)
        /\ prc'[p].todo = prc[p].todo
    BY <1>2, <1>7, <1>9, <1>w, <1>x
  <2> QED BY ONLY <1>2, <1>4, <1>7, <1>9, <1>12, <2>1, LeavesProc
<1>14. /\ GhostType(a2, o2, r, c, d) /\ Placed(a2, o2, r)' /\ Linked(a2, o2, r, c, d)'
       /\ a2[w] = "none" /\ \A t \in Txns : t # w => a2[t] = a[t] /\ txn'[t] = txn[t]
  BY ONLY <1>0, <1>1, <1>2, <1>7, <1>10, <1>11, <1>13, <1>g, HeadFreed
<1>15. Turns(a2)'
  BY ONLY <1>1, <1>4, <1>6, <1>7, <1>9, <1>14, TurnsClosed
<1> QED BY <1>11, <1>14, <1>15, CoreStep
=============================================================================
