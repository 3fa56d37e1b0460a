--------------------------- MODULE BinderRefProofs ---------------------------
(***************************************************************************)
(* For any numbers of nodes, processes and threads: a node is not used     *)
(* after it is freed and each of its counts has an owner, handles are      *)
(* unique, and the owner of a node hears of its references.  RefInv says   *)
(* of each node what its record and its users have to do with each other   *)
(* (NodeOk), and of each task what it may be in the middle of (JobSound).  *)
(***************************************************************************)
EXTENDS BinderRef, FiniteSetTheorems, FunctionTheorems, WellFoundedInduction, TLAPS

NodeType ==
  [mem : {"unused", "live", "reap", "freed"}, ptr : Ptrs \cup {Mgr, None},
   proc : BOOLEAN, tree : BOOLEAN, mgr : BOOLEAN, internal : Nat, strong : Int, weak : Int, tmp : Nat,
   work : {"none", "todo"} \cup Locals,
   has_s : BOOLEAN, has_w : BOOLEAN, pend_s : BOOLEAN, pend_w : BOOLEAN]
RefType == [desc : {-1} \cup Nat, strong : Nat, weak : Nat]
JobType ==
  [pc : {"idle", "new", "ref", "alloc", "put", "done", "handle", "sent", "sent_binder", "drop", "txn",
         "cleanup", "release"},
   node : Nodes \cup {None}, proc : Procs \cup {None}, ptr : Ptrs \cup {Mgr, None}, strong : BOOLEAN,
   list : Locals \cup {"none"}, next : {"idle", "mgr", "sent", "sent_binder"}]
HeldType == [target : Nat, strong : Nat, weak : Nat]
Types == TypeOK /\ job \in [Tasks -> JobType] /\ held \in [Nodes -> HeldType] /\ calls \in Nat

\* What a live node has: references with a strong count, references with any count,
\* owners of its local counts other than its own record, and a worker that releases it.
StrongRefs(n) == {p \in Procs : ref[p][n].strong > 0}
Counted(n) == \E p \in Procs : ref[p][n].strong + ref[p][n].weak > 0
LocalStrong(n) ==
  held[n].target + held[n].strong + Cardinality(Calling(n)) + Cardinality(Carried(n, TRUE))
LocalWeak(n) == held[n].weak + Cardinality(Carried(n, FALSE))
Erased(n) == job[Worker].pc = "release" /\ job[Worker].node = n

\* The record d of a live node against these: i strong references, t tasks, s and w local
\* counts.  The counts are exact; the owner has the node in its tree but while it releases
\* it; an owner that was not told of references has the work item, or lost it.
Sound(d, refs, i, t, s, w, open, erased, counted, gone) ==
  /\ d.internal = i /\ d.tmp = t
  /\ d.tree => /\ d.mem = "live" /\ d.proc
               /\ d.strong = s + One(d.pend_s) + One(d.mgr) /\ d.weak = w + One(d.pend_w) + One(d.mgr)
  /\ d.proc /\ ~d.tree => erased
  /\ erased => d.proc /\ ~d.tree
  /\ ~d.proc => ~open
  /\ d.mem = "reap" => ~d.proc /\ refs = {}
  /\ d.work # "none" => d.proc
  /\ d.proc /\ d.work = "none" /\ ~gone => (i > 0 => d.has_s) /\ (counted => d.has_w)

\* A live node without counts is about to end.
Kept(d, refs, gone) ==
  d.mem = "live" /\ Unused(d, refs) => d.proc /\ (d.work # "none" \/ gone)

\* What the owner knows is nested, and so is what it has not answered.
Told(d) == (d.has_s => d.has_w) /\ (d.pend_s => d.has_s) /\ (d.pend_w => d.has_w)

NodeOk(n) ==
  /\ node[n].mem \in {"live", "reap"} =>
       /\ Sound(node[n], Refs(n), Cardinality(StrongRefs(n)), Cardinality(Temporary(n)), LocalStrong(n),
                LocalWeak(n), life[Server] = "open", Erased(n), Counted(n), lost[n])
       /\ Kept(node[n], Refs(n), lost[n])
       /\ ~node[n].proc => held[n] = NoHeld
  /\ node[n].mem \notin {"live", "reap"} =>
       /\ Refs(n) = {} /\ held[n] = NoHeld /\ ~node[n].tree /\ node[n].work = "none"
       /\ \A a \in Users(n) : job[a].pc \in {"sent", "sent_binder"}
  /\ node[n].mem = "unused" => node[n] = NoNode /\ Users(n) = {}
  /\ life[Server] = "open" =>
       /\ Carried(n, TRUE) # {} \/ Carried(n, FALSE) # {} => node[n].tree
       /\ node[n].mgr => node[n].tree
  /\ Told(node[n])

\* Where a task is tells what it works on, who it can be and which locks it has.
JobSound(a) ==
  /\ job[a].pc = "idle" => job[a] = Idle
  /\ job[a].pc = "new" => /\ job[a].node = None /\ a \in Locals
                          /\ job[a].ptr \in Ptrs /\ job[a].next = "sent"
  /\ job[a].pc \notin {"idle", "new"} => job[a].node \in Nodes
  /\ job[a].pc \in {"new", "ref", "alloc", "handle", "sent", "sent_binder", "cleanup"} => job[a].proc \in Procs
  /\ job[a].pc = "put" /\ job[a].next \in {"sent", "sent_binder"} => job[a].proc \in Procs
  /\ job[a].pc \in {"ref", "alloc"} => job[a].next \in {"sent", "mgr"}
  /\ job[a].pc \in {"sent", "sent_binder"} => job[a].next = job[a].pc
  /\ job[a].pc \in {"done", "handle", "drop", "txn", "cleanup", "release"} => job[a].next = "idle"
  /\ job[a].next = "mgr" => job[a].pc \in {"ref", "alloc", "put"} /\ life[Server] = "open"
  /\ job[a].next = "mgr" /\ job[a].pc \in {"ref", "alloc"} => node[job[a].node].mgr
  /\ job[a].next = "sent_binder" => job[a].pc \in {"put", "sent_binder"} /\ job[a].proc = Server
  /\ job[a].list # "none" => job[a].list = a
  /\ a \in Locals /\ job[a].pc # "idle" => life[Server] = "open"
  /\ job[a].pc = "cleanup" => olock[job[a].proc] = a /\ ref[job[a].proc][job[a].node] # NoRef
  /\ job[a].pc = "release" => a = Worker /\ life[Server] = "releasing"

\* A reference without a handle is none.
RefsSound == \A p \in Procs : \A n \in Nodes : ref[p][n].desc = -1 => ref[p][n] = NoRef

RefInv ==
  /\ Types /\ RefsSound /\ HandlesUnique
  /\ \A n \in Nodes : NodeOk(n)
  /\ \A a \in Tasks : JobSound(a)

\* A record d whose count went down, before and after the node is settled.
Settles(d, refs, i, t, s, w, open, erased, counted, gone) ==
  /\ d \in NodeType /\ i \in Nat /\ t \in Nat /\ s \in Nat /\ w \in Nat
  /\ d.mem = "live" /\ Sound(d, refs, i, t, s, w, open, erased, counted, gone)
  /\ (i > 0 => refs # {}) /\ (erased => t > 0)
Settled(d, e, refs, i, t, s, w, open, erased, counted, gone) ==
  /\ e \in NodeType /\ e.ptr = d.ptr /\ e.mgr = d.mgr /\ (e.tree => d.tree) /\ e.mem # "unused"
  /\ e.has_s = d.has_s /\ e.has_w = d.has_w /\ e.pend_s = d.pend_s /\ e.pend_w = d.pend_w /\ e.proc = d.proc
  /\ e.mem = "live" => e.tree = d.tree
  /\ e.mem \in {"live", "reap"} =>
       Sound(e, refs, i, t, s, w, open, erased, counted, gone) /\ Kept(e, refs, gone)
  /\ e.mem # "live" => t = 0 /\ refs = {}
  /\ e.mem = "reap" => ~d.proc
  /\ e.mem = "freed" => d.tree /\ s = 0 /\ w = 0 /\ ~d.mgr /\ ~e.tree /\ e.work = "none"

\* A step of one task on one node and one reference to it.  Locks others have stay theirs.
Moves(a, c, n) ==
  /\ job' \in [Tasks -> JobType] /\ held' \in [Nodes -> HeldType] /\ calls' \in Nat
  /\ ref' \in [Procs -> [Nodes -> RefType]] /\ olock' \in [Procs -> Tasks \cup {None}]
  /\ life' = life /\ lost' = lost /\ node' = [m \in Nodes |-> node'[m]]
  /\ \A b \in Tasks : b # a => job'[b] = job[b]
  /\ \A m \in Nodes : m # n => node'[m] = node[m] /\ held'[m] = held[m]
  /\ \A p \in Procs : \A m \in Nodes : m # n \/ p # c => ref'[p][m] = ref[p][m]
  /\ \A p \in Procs : olock'[p] = olock[p] \/ olock[p] \in {None, a}
  /\ ref'[c][n] = NoRef => ref[c][n] = NoRef \/ olock[c] \in {None, a}
  /\ job'[a] = job[a] \/ (job[a].node \in {n, None} /\ job'[a].node \in {n, None})

\* What such a step does to the counts of the node, which has the record d after it.
TaskCounts(d, a, n) ==
  /\ d.tmp = node[n].tmp + One(a \in Temporary(n)') - One(a \in Temporary(n))
  /\ d.tree => /\ d.strong - One(d.pend_s) - One(d.mgr) - held'[n].target - held'[n].strong
                     - One(a \in Calling(n)') - One(a \in Carried(n, TRUE)')
                   = node[n].strong - One(node[n].pend_s) - One(node[n].mgr) - held[n].target
                     - held[n].strong - One(a \in Calling(n)) - One(a \in Carried(n, TRUE))
               /\ d.weak - One(d.pend_w) - One(d.mgr) - held'[n].weak - One(a \in Carried(n, FALSE)')
                   = node[n].weak - One(node[n].pend_w) - One(node[n].mgr) - held[n].weak
                     - One(a \in Carried(n, FALSE))
Counts(d, a, c, n) ==
  /\ d.internal = node[n].internal + One(ref'[c][n].strong > 0) - One(ref[c][n].strong > 0)
  /\ TaskCounts(d, a, n)

\* d can be the record of the live node after such a step, as far as nobody has to end it.
Fits(d, a, c, n) ==
  /\ d \in NodeType /\ Counts(d, a, c, n)
  /\ d.mem = "live" \/ (d.mem = node[n].mem /\ Refs(n)' = Refs(n))
  /\ d.ptr = node[n].ptr /\ d.proc = node[n].proc /\ d.tree = node[n].tree
  /\ node[n].mgr => d.mgr
  /\ d.work # "none" => d.proc
  /\ Told(d)
  /\ ~d.proc => held'[n] = NoHeld
  /\ d.proc /\ d.work = "none" /\ ~lost[n] => (d.internal > 0 => d.has_s) /\ (Counted(n)' => d.has_w)
  /\ Erased(n)' = Erased(n)

\* Records that differ in counts and announcements that nobody waits for.
Alike(e, d) ==
  /\ e.mem = d.mem /\ e.ptr = d.ptr /\ e.proc = d.proc /\ e.tree = d.tree /\ e.mgr = d.mgr
  /\ e.internal = d.internal /\ e.work = d.work /\ e.has_s = d.has_s /\ e.has_w = d.has_w
  /\ (e.pend_s => d.pend_s) /\ (e.pend_w => d.pend_w)
WithLocals(d, x, y) == [d EXCEPT !.strong = x, !.weak = y]

\* The local counts x and y change with what the task and the buffers have.
LocalsMove(a, n, x, y) ==
  /\ x - held'[n].target - held'[n].strong - One(a \in Calling(n)') - One(a \in Carried(n, TRUE)')
       = node[n].strong - held[n].target - held[n].strong - One(a \in Calling(n))
         - One(a \in Carried(n, TRUE))
  /\ y - held'[n].weak - One(a \in Carried(n, FALSE)')
       = node[n].weak - held[n].weak - One(a \in Carried(n, FALSE))
\* They change by k and l, of which the task has its part.
TaskPart(a, n, k, l) ==
  /\ k = One(a \in Calling(n)') + One(a \in Carried(n, TRUE)') - One(a \in Calling(n)) - One(a \in Carried(n, TRUE))
  /\ l = One(a \in Carried(n, FALSE)') - One(a \in Carried(n, FALSE))
BufferPart(n, k, l) ==
  /\ k = held'[n].target - held[n].target + held'[n].strong - held[n].strong
  /\ l = held'[n].weak - held[n].weak
\* The record e has x and y as local counts, up to announcements that d has and e has not.
LocalsAre(e, d, x, y) ==
  e.strong - One(e.pend_s) = x - One(d.pend_s) /\ e.weak - One(e.pend_w) = y - One(d.pend_w)
TmpPart(a, n, t) == t = node[n].tmp + One(a \in Temporary(n)') - One(a \in Temporary(n))
Hold(n, h) == held' = [held EXCEPT ![n] = h]

-----------------------------------------------------------------------------
(* The operators.                                                          *)

\* Members of the model's sets that differ.
LEMMA Marks ==
  /\ None \notin Nodes /\ None \notin Procs /\ None \notin Tasks
  /\ "none" \notin Locals /\ "todo" \notin Locals
  /\ Server \in Procs /\ Worker \in Tasks /\ Reader \in Tasks /\ Worker \notin Locals /\ Reader \notin Locals
  /\ Worker # Reader
  /\ \A a \in Locals : a \in Tasks
  /\ \A a \in Senders : a \in Tasks /\ a \notin Locals /\ a # Worker /\ a # Reader
BY RefAssumption DEF Procs, Tasks

\* A set that differs from another in one element at most.
LEMMA OneChanges ==
  ASSUME NEW S, NEW U, NEW a, IsFiniteSet(S), \A b : b # a => (b \in U <=> b \in S)
  PROVE  /\ IsFiniteSet(U) /\ Cardinality(U) \in Nat /\ Cardinality(S) \in Nat
         /\ Cardinality(U) = Cardinality(S) + One(a \in U) - One(a \in S)
<1>1. Cardinality(S) \in Nat
  BY FS_CardinalityType
<1>2. CASE a \in U /\ a \notin S
  <2>1. U = S \cup {a}
    BY <1>2
  <2>2. IsFiniteSet(U) /\ Cardinality(U) = Cardinality(S) + 1
    BY <1>2, <2>1, FS_AddElement
  <2> QED BY <1>1, <1>2, <2>2 DEF One
<1>3. CASE a \notin U /\ a \in S
  <2>1. U = S \ {a}
    BY <1>3
  <2>2. IsFiniteSet(U) /\ Cardinality(U) = Cardinality(S) - 1
    BY <1>3, <2>1, FS_RemoveElement
  <2>3. Cardinality(U) \in Nat
    BY <2>2, FS_CardinalityType
  <2> QED BY <1>1, <1>3, <2>2, <2>3 DEF One
<1>4. CASE a \in U <=> a \in S
  <2>1. U = S
    BY <1>4
  <2> QED BY <1>1, <2>1 DEF One
<1> QED BY <1>2, <1>3, <1>4

\* The sets that are counted are finite.
LEMMA CountedFinite ==
  ASSUME NEW n
  PROVE  /\ IsFiniteSet(StrongRefs(n)) /\ IsFiniteSet(Temporary(n)) /\ IsFiniteSet(Calling(n))
         /\ \A b \in BOOLEAN : IsFiniteSet(Carried(n, b))
<1>1. IsFiniteSet(Procs) /\ IsFiniteSet(Tasks)
  BY RefAssumption
<1>2. /\ StrongRefs(n) \subseteq Procs /\ Temporary(n) \subseteq Tasks /\ Calling(n) \subseteq Tasks
      /\ \A b \in BOOLEAN : Carried(n, b) \subseteq Tasks
  BY DEF StrongRefs, Temporary, Calling, Carried, Users
<1> QED BY <1>1, <1>2, FS_Subset

\* One task moves on: it leaves or joins the sets of the node's users.
LEMMA TaskMembers ==
  ASSUME NEW a \in Tasks, NEW n, \A b \in Tasks : b # a => job'[b] = job[b]
  PROVE  /\ Cardinality(Temporary(n)) \in Nat /\ Cardinality(Temporary(n))' \in Nat
         /\ Cardinality(Temporary(n))' =
              Cardinality(Temporary(n)) + One(a \in Temporary(n)') - One(a \in Temporary(n))
         /\ Cardinality(Calling(n)) \in Nat /\ Cardinality(Calling(n))' \in Nat
         /\ Cardinality(Calling(n))' =
              Cardinality(Calling(n)) + One(a \in Calling(n)') - One(a \in Calling(n))
         /\ \A b \in BOOLEAN :
              /\ Cardinality(Carried(n, b)) \in Nat /\ Cardinality(Carried(n, b))' \in Nat
              /\ Cardinality(Carried(n, b))' =
                   Cardinality(Carried(n, b)) + One(a \in Carried(n, b)') - One(a \in Carried(n, b))
<1>1. /\ IsFiniteSet(Temporary(n)) /\ IsFiniteSet(Calling(n))
      /\ \A b \in BOOLEAN : IsFiniteSet(Carried(n, b))
  BY CountedFinite
<1>2. \A x : x # a => (x \in Temporary(n)' <=> x \in Temporary(n))
  BY DEF Temporary, Users
<1>3. \A x : x # a => (x \in Calling(n)' <=> x \in Calling(n))
  BY DEF Calling, Users
<1>4. \A b \in BOOLEAN : \A x : x # a => (x \in Carried(n, b)' <=> x \in Carried(n, b))
  BY DEF Carried, Users
<1>5. /\ Cardinality(Temporary(n)) \in Nat /\ Cardinality(Temporary(n)') \in Nat
      /\ Cardinality(Temporary(n)') =
           Cardinality(Temporary(n)) + One(a \in Temporary(n)') - One(a \in Temporary(n))
  BY <1>1, <1>2, OneChanges
<1>6. /\ Cardinality(Calling(n)) \in Nat /\ Cardinality(Calling(n)') \in Nat
      /\ Cardinality(Calling(n)') =
           Cardinality(Calling(n)) + One(a \in Calling(n)') - One(a \in Calling(n))
  BY <1>1, <1>3, OneChanges
<1>7. ASSUME NEW b \in BOOLEAN
      PROVE  /\ Cardinality(Carried(n, b)) \in Nat /\ Cardinality(Carried(n, b)') \in Nat
             /\ Cardinality(Carried(n, b)') =
                  Cardinality(Carried(n, b)) + One(a \in Carried(n, b)') - One(a \in Carried(n, b))
  BY <1>1, <1>4, OneChanges
<1> QED BY <1>5, <1>6, <1>7

\* One reference changes: the node gains or loses a reference with a strong count.
LEMMA RefCounts ==
  ASSUME NEW c \in Procs, NEW n, \A p \in Procs : p # c => ref'[p][n] = ref[p][n]
  PROVE  /\ Cardinality(StrongRefs(n)) \in Nat /\ Cardinality(StrongRefs(n))' \in Nat
         /\ Cardinality(StrongRefs(n))' =
              Cardinality(StrongRefs(n)) + One(ref'[c][n].strong > 0) - One(ref[c][n].strong > 0)
<1>1. IsFiniteSet(StrongRefs(n))
  BY CountedFinite
<1>2. \A x : x # c => (x \in StrongRefs(n)' <=> x \in StrongRefs(n))
  BY DEF StrongRefs
<1>3. /\ Cardinality(StrongRefs(n)) \in Nat /\ Cardinality(StrongRefs(n)') \in Nat
      /\ Cardinality(StrongRefs(n)') =
           Cardinality(StrongRefs(n)) + One(c \in StrongRefs(n)') - One(c \in StrongRefs(n))
  BY <1>1, <1>2, OneChanges
<1>4. /\ c \in StrongRefs(n)' <=> ref'[c][n].strong > 0
      /\ c \in StrongRefs(n) <=> ref[c][n].strong > 0
  BY DEF StrongRefs
<1> QED BY <1>3, <1>4 DEF One

\* What binder_dec_node_nilocked() does once the count is down: the node stays as it is,
\* its owner gets work, or it was unused and ends, off the tree and without work.
LEMMA SettleOk ==
  ASSUME NEW d, NEW refs, NEW i, NEW t, NEW s, NEW w, NEW open, NEW erased, NEW counted, NEW gone,
         Settles(d, refs, i, t, s, w, open, erased, counted, gone), NEW strong \in BOOLEAN
  PROVE  Settled(d, Settle(d, strong, refs), refs, i, t, s, w, open, erased, counted, gone)
<1> PICK e : e = Settle(d, strong, refs)
  OBVIOUS
<1>s. SUFFICES Settled(d, e, refs, i, t, s, w, open, erased, counted, gone)
  OBVIOUS
<1> SUFFICES ASSUME d \in NodeType, i \in Nat, t \in Nat, s \in Nat, w \in Nat,
                    d.mem = "live", Sound(d, refs, i, t, s, w, open, erased, counted, gone),
                    i > 0 => refs # {}, erased => t > 0
             PROVE /\ e \in NodeType /\ e.ptr = d.ptr /\ e.mgr = d.mgr /\ (e.tree => d.tree) /\ e.mem # "unused"
                   /\ e.has_s = d.has_s /\ e.has_w = d.has_w /\ e.pend_s = d.pend_s /\ e.pend_w = d.pend_w /\ e.proc = d.proc
                   /\ e.mem = "live" => e.tree = d.tree
                   /\ e.mem \in {"live", "reap"} =>
                        Sound(e, refs, i, t, s, w, open, erased, counted, gone) /\ Kept(e, refs, gone)
                   /\ e.mem # "live" => t = 0 /\ refs = {}
                   /\ e.mem = "reap" => ~d.proc
                   /\ e.mem = "freed" => d.tree /\ s = 0 /\ w = 0 /\ ~d.mgr /\ ~e.tree /\ e.work = "none"
  BY DEF Settles, Settled
<1> DEFINE stays == IF strong THEN d.strong # 0 \/ d.internal # 0 ELSE d.weak # 0 \/ d.tmp # 0 \/ refs # {}
           told == d.proc /\ (d.has_s \/ d.has_w)
<1>d. /\ d.strong \in Int /\ d.weak \in Int /\ d.tmp = t /\ d.internal = i /\ d.pend_s \in BOOLEAN
      /\ d.pend_w \in BOOLEAN /\ d.mgr \in BOOLEAN
      /\ d.tree \in BOOLEAN /\ d.proc \in BOOLEAN /\ d.work \in {"none", "todo"} \cup Locals
  BY DEF NodeType, Sound
<1>1. CASE stays
  <2>1. e = d
    BY <1>1 DEF Settle
  <2>2. ~Unused(d, refs)
    BY <1>1, <1>d DEF Unused
  <2> QED BY <2>1, <2>2 DEF Kept
<1>2. CASE ~stays /\ told
  <2>1. e = [d EXCEPT !.work = IF d.work = "none" THEN "todo" ELSE d.work]
    BY <1>2 DEF Settle
  <2>2. e \in NodeType /\ e.work # "none"
    BY <1>d, <2>1 DEF NodeType
  <2>3. /\ e.mem = d.mem /\ e.ptr = d.ptr /\ e.proc = d.proc /\ e.tree = d.tree /\ e.mgr = d.mgr
        /\ e.internal = d.internal /\ e.strong = d.strong /\ e.weak = d.weak /\ e.tmp = d.tmp
        /\ e.has_s = d.has_s /\ e.has_w = d.has_w /\ e.pend_s = d.pend_s /\ e.pend_w = d.pend_w
    BY <2>1 DEF NodeType
  <2>4. d.proc
    BY <1>2
  <2> HIDE DEF stays, told
  <2>5. Sound(e, refs, i, t, s, w, open, erased, counted, gone) /\ Kept(e, refs, gone)
    BY <2>2, <2>3, <2>4 DEF Sound, Kept
  <2> QED BY <2>2, <2>3, <2>5
<1>3. CASE ~stays /\ ~told /\ ~Unused(d, refs)
  <2>1. e = d
    BY <1>3 DEF Settle
  <2> QED BY <1>3, <2>1 DEF Kept
<1>4. CASE ~stays /\ ~told /\ Unused(d, refs)
  <2>1. e = Delete(d)
    BY <1>4 DEF Settle
  <2>2. refs = {} /\ d.strong = 0 /\ d.weak = 0 /\ t = 0 /\ ~erased
    BY <1>4, <1>d DEF Unused
  <2>3. CASE d.proc
    <3>1. d.tree
      BY <2>2, <2>3 DEF Sound
    <3>2. e = [d EXCEPT !.mem = "freed", !.work = "none", !.tree = FALSE]
      BY <2>1, <2>3, <3>1 DEF Delete
    <3>3. e \in NodeType /\ e.mem = "freed" /\ ~e.tree /\ e.work = "none"
      BY <3>2 DEF NodeType
    <3>4. e.ptr = d.ptr /\ e.mgr = d.mgr /\ e.has_s = d.has_s /\ e.has_w = d.has_w /\ e.pend_s = d.pend_s /\ e.pend_w = d.pend_w /\ e.proc = d.proc
      BY <3>2 DEF NodeType
    <3>5. d.strong = s + One(d.pend_s) + One(d.mgr) /\ d.weak = w + One(d.pend_w) + One(d.mgr)
      BY <3>1 DEF Sound
    <3>6. s = 0 /\ w = 0 /\ ~d.mgr
      BY <1>d, <2>2, <3>5 DEF One
    <3> QED BY <2>2, <3>1, <3>3, <3>4, <3>6
  <2>4. CASE ~d.proc
    <3>1. d.work = "none"
      BY <2>4 DEF Sound
    <3>2. e = [d EXCEPT !.mem = "reap"]
      BY <2>1, <2>4, <3>1 DEF Delete
    <3>3. e \in NodeType /\ e.mem = "reap"
      BY <3>2 DEF NodeType
    <3>4. /\ e.ptr = d.ptr /\ e.proc = d.proc /\ e.tree = d.tree /\ e.mgr = d.mgr
          /\ e.internal = d.internal /\ e.strong = d.strong /\ e.weak = d.weak /\ e.tmp = d.tmp
          /\ e.has_s = d.has_s /\ e.has_w = d.has_w /\ e.pend_s = d.pend_s /\ e.pend_w = d.pend_w
          /\ e.work = d.work
      BY <3>2 DEF NodeType
    <3>5. ~d.tree
      BY <2>4 DEF Sound
    <3> HIDE DEF stays, told
    <3>6. Sound(e, refs, i, t, s, w, open, erased, counted, gone) /\ Kept(e, refs, gone)
      BY <2>2, <2>4, <3>3, <3>4, <3>5 DEF Sound, Kept
    <3> QED BY <2>2, <2>4, <3>3, <3>4, <3>6
  <2> QED BY <1>d, <2>3, <2>4
<1> QED BY <1>1, <1>2, <1>3, <1>4

\* A task that works on a node but does not count as temporary has something else of it.
LEMMA UserKinds ==
  ASSUME NEW n \in Nodes, NEW b \in Users(n)', JobSound(b)', job'[b] \in JobType
  PROVE  \/ b \in Temporary(n)'
         \/ job'[b].pc \in {"sent", "sent_binder"}
         \/ Refs(n)' # {}
         \/ life'[Server] = "open" /\ node'[n].mgr
<1>1. /\ b \in Tasks /\ job'[b].node = n /\ job'[b].pc # "idle"
  BY DEF Users
<1>2. job'[b].pc # "new"
  BY <1>1, Marks DEF JobSound
<1>3. CASE job'[b].pc = "cleanup"
  <2>1. job'[b].proc \in Procs /\ ref'[job'[b].proc][n] # NoRef
    BY <1>1, <1>3 DEF JobSound
  <2> QED BY <2>1 DEF Refs
<1>4. CASE job'[b].pc \in {"ref", "alloc"} /\ job'[b].next = "mgr"
  BY <1>1, <1>4 DEF JobSound
<1>5. CASE job'[b].pc \in {"sent", "sent_binder"}
  BY <1>5
<1>6. CASE /\ job'[b].pc \in {"ref", "alloc", "put", "done", "handle", "drop", "txn", "release"}
           /\ ~(job'[b].pc \in {"ref", "alloc"} /\ job'[b].next = "mgr")
  <2>1. job'[b].next # "mgr" \/ job'[b].pc = "put"
    BY <1>6 DEF JobSound
  <2> QED BY <1>1, <1>6, <2>1 DEF Temporary, Users
<1>7. job'[b].pc \in {"idle", "new", "ref", "alloc", "put", "done", "handle", "sent", "sent_binder", "drop",
                      "txn", "cleanup", "release"}
  BY DEF JobType
<1> QED BY <1>1, <1>2, <1>3, <1>4, <1>5, <1>6, <1>7

\* The counts of a node are numbers.
LEMMA CountTypes ==
  ASSUME NEW n \in Nodes, held' \in [Nodes -> HeldType], job' \in [Tasks -> JobType]
  PROVE  /\ Cardinality(StrongRefs(n))' \in Nat /\ Cardinality(Temporary(n))' \in Nat
         /\ LocalStrong(n)' \in Nat /\ LocalWeak(n)' \in Nat
         /\ (Cardinality(StrongRefs(n))' > 0 => StrongRefs(n)' # {})
         /\ (Cardinality(Temporary(n))' = 0 => Temporary(n)' = {})
         /\ (LocalStrong(n)' = 0 /\ LocalWeak(n)' = 0 =>
              held'[n] = NoHeld /\ Carried(n, TRUE)' = {} /\ Carried(n, FALSE)' = {})
<1>1. IsFiniteSet(Procs) /\ IsFiniteSet(Tasks)
  BY RefAssumption
<1>2. /\ StrongRefs(n)' \subseteq Procs /\ Temporary(n)' \subseteq Tasks /\ Calling(n)' \subseteq Tasks
      /\ \A b \in BOOLEAN : Carried(n, b)' \subseteq Tasks
  BY DEF StrongRefs, Temporary, Calling, Carried, Users
<1>3. /\ IsFiniteSet(StrongRefs(n)') /\ IsFiniteSet(Temporary(n)') /\ IsFiniteSet(Calling(n)')
      /\ IsFiniteSet(Carried(n, TRUE)') /\ IsFiniteSet(Carried(n, FALSE)')
  BY <1>1, <1>2, FS_Subset
<1>4. /\ Cardinality(StrongRefs(n)') \in Nat /\ Cardinality(Temporary(n)') \in Nat
      /\ Cardinality(Calling(n)') \in Nat /\ Cardinality(Carried(n, TRUE)') \in Nat
      /\ Cardinality(Carried(n, FALSE)') \in Nat
  BY <1>3, FS_CardinalityType
<1>5. /\ Cardinality(Carried(n, TRUE)') = 0 => Carried(n, TRUE)' = {}
      /\ Cardinality(Carried(n, FALSE)') = 0 => Carried(n, FALSE)' = {}
      /\ Cardinality(Temporary(n)') = 0 => Temporary(n)' = {}
      /\ StrongRefs(n)' = {} => Cardinality(StrongRefs(n)') = 0
  BY <1>3, FS_EmptySet
<1>6. /\ held'[n].target \in Nat /\ held'[n].strong \in Nat /\ held'[n].weak \in Nat
      /\ (held'[n].target = 0 /\ held'[n].strong = 0 /\ held'[n].weak = 0 => held'[n] = NoHeld)
  BY DEF HeldType, NoHeld
<1>7. /\ LocalStrong(n)' = held'[n].target + held'[n].strong + Cardinality(Calling(n)') + Cardinality(Carried(n, TRUE)')
      /\ LocalWeak(n)' = held'[n].weak + Cardinality(Carried(n, FALSE)')
  BY DEF LocalStrong, LocalWeak
<1>8. PICK x1 \in Nat, x2 \in Nat, x3 \in Nat, x4 \in Nat, x5 \in Nat, x6 \in Nat :
         /\ x1 = held'[n].target /\ x2 = held'[n].strong /\ x3 = held'[n].weak
         /\ x4 = Cardinality(Calling(n)') /\ x5 = Cardinality(Carried(n, TRUE)')
         /\ x6 = Cardinality(Carried(n, FALSE)')
  BY <1>4, <1>6
<1>9. LocalStrong(n)' = x1 + x2 + x4 + x5 /\ LocalWeak(n)' = x3 + x6
  BY <1>7, <1>8
<1>10. LocalStrong(n)' \in Nat /\ LocalWeak(n)' \in Nat
  BY ONLY <1>9, x1 \in Nat, x2 \in Nat, x3 \in Nat, x4 \in Nat, x5 \in Nat, x6 \in Nat
<1>11. LocalStrong(n)' = 0 /\ LocalWeak(n)' = 0 => x1 = 0 /\ x2 = 0 /\ x3 = 0 /\ x5 = 0 /\ x6 = 0
  BY ONLY <1>9, x1 \in Nat, x2 \in Nat, x3 \in Nat, x4 \in Nat, x5 \in Nat, x6 \in Nat
<1>12. LocalStrong(n)' = 0 /\ LocalWeak(n)' = 0 =>
         held'[n] = NoHeld /\ Carried(n, TRUE)' = {} /\ Carried(n, FALSE)' = {}
  BY <1>5, <1>6, <1>8, <1>11
<1>13. Cardinality(StrongRefs(n))' > 0 => StrongRefs(n)' # {}
  BY <1>4, <1>5
<1> QED BY <1>4, <1>5, <1>10, <1>12, <1>13

-----------------------------------------------------------------------------
(* One step, and what it leaves alone.                                     *)

\* The types of the parts of the state.
LEMMA TypeFacts ==
  ASSUME Types
  PROVE  /\ \A m \in Nodes : node[m] \in NodeType /\ held[m] \in HeldType /\ lost[m] \in BOOLEAN
         /\ \A p \in Procs : \A m \in Nodes : ref[p][m] \in RefType
         /\ \A b \in Tasks : job[b] \in JobType
         /\ \A p \in Procs : olock[p] \in Tasks \cup {None} /\ life[p] \in {"open", "releasing", "released"}
BY DEF Types, TypeOK, NodeType, RefType

\* The same of the next state.
LEMMA TypeFactsNext ==
  ASSUME Types'
  PROVE  /\ \A m \in Nodes : node'[m] \in NodeType /\ held'[m] \in HeldType /\ lost'[m] \in BOOLEAN
         /\ \A p \in Procs : \A m \in Nodes : ref'[p][m] \in RefType
         /\ \A b \in Tasks : job'[b] \in JobType
         /\ \A p \in Procs : olock'[p] \in Tasks \cup {None} /\ life'[p] \in {"open", "releasing", "released"}
BY DEF Types, TypeOK, NodeType, RefType

\* A step on a node and by a task leaves every other node as it was.
LEMMA OtherNodes ==
  ASSUME NEW a \in Tasks, NEW c \in Procs, NEW n \in Nodes \cup {None}, Moves(a, c, n), RefInv,
         NEW m \in Nodes, m # n
  PROVE  NodeOk(m)'
<1>1. /\ node'[m] = node[m] /\ held'[m] = held[m] /\ lost'[m] = lost[m] /\ life' = life
      /\ \A p \in Procs : ref'[p][m] = ref[p][m]
  BY DEF Moves
<1>2. \A b \in Tasks : job'[b] = job[b] \/ (job[b].node # m /\ job'[b].node # m)
  BY Marks DEF Moves
<1>3. /\ Refs(m)' = Refs(m) /\ StrongRefs(m)' = StrongRefs(m) /\ Counted(m)' = Counted(m)
  BY <1>1 DEF Refs, StrongRefs, Counted
<1>4. Users(m)' = Users(m) /\ \A b \in Users(m) : job'[b] = job[b]
  BY <1>2 DEF Users
<1>5. /\ Temporary(m)' = Temporary(m) /\ Calling(m)' = Calling(m)
      /\ Carried(m, TRUE)' = Carried(m, TRUE) /\ Carried(m, FALSE)' = Carried(m, FALSE)
  BY <1>4 DEF Temporary, Calling, Carried
<1>6. LocalStrong(m)' = LocalStrong(m) /\ LocalWeak(m)' = LocalWeak(m)
  BY <1>1, <1>5 DEF LocalStrong, LocalWeak
<1>7. Erased(m)' = Erased(m)
  BY <1>2, Marks DEF Erased
<1>8. NodeOk(m)
  BY DEF RefInv
<1> QED BY <1>1, <1>3, <1>4, <1>5, <1>6, <1>7, <1>8 DEF NodeOk, Sound, Kept

\* ... and every other task.
LEMMA OtherTasks ==
  ASSUME NEW a \in Tasks, NEW c \in Procs, NEW n \in Nodes \cup {None}, Moves(a, c, n), RefInv,
         n \in Nodes /\ node[n].mgr => node'[n].mgr,
         NEW b \in Tasks, b # a
  PROVE  JobSound(b)'
<1>1. JobSound(b) /\ job'[b] = job[b] /\ life' = life
  BY DEF Moves, RefInv
<1>2. job[b].pc \notin {"idle", "new"} => job[b].node \in Nodes /\ (node[job[b].node].mgr => node'[job[b].node].mgr)
  BY <1>1 DEF Moves, JobSound
<1>3. job[b].pc = "cleanup" =>
        /\ job[b].proc \in Procs /\ job[b].node \in Nodes
        /\ olock[job[b].proc] = b /\ ref[job[b].proc][job[b].node] # NoRef
  BY <1>1 DEF JobSound
<1>4. job[b].pc = "cleanup" => olock'[job[b].proc] = b /\ ref'[job[b].proc][job[b].node] # NoRef
  BY <1>3, Marks DEF Moves
<1> QED BY <1>1, <1>2, <1>4 DEF JobSound

\* So the invariant is a matter of the one node, the one task and the one handle.
LEMMA OneStep ==
  ASSUME NEW a \in Tasks, NEW c \in Procs, NEW n \in Nodes \cup {None}, Moves(a, c, n), RefInv,
         JobSound(a)', n \in Nodes => NodeOk(n)' /\ node'[n] \in NodeType,
         n \in Nodes =>
           /\ node[n].mgr => node'[n].mgr
           /\ node'[n].tree => \/ node[n].tree /\ node'[n].ptr = node[n].ptr
                               \/ \A m \in Nodes : m # n /\ node[m].tree => node[m].ptr # node'[n].ptr
           /\ ref'[c][n].desc = -1 => ref'[c][n] = NoRef
           /\ \/ ref'[c][n].desc = ref[c][n].desc \/ ref'[c][n] = NoRef
              \/ /\ \A m \in Nodes : m # n => ref[c][m].desc # ref'[c][n].desc
                 /\ ref'[c][n].desc = 0 => node'[n].mgr
  PROVE  RefInv'
<1>1. \A m \in Nodes : NodeOk(m)'
  BY OtherNodes
<1>2. \A b \in Tasks : JobSound(b)'
  BY OtherTasks
<1>3. \A m \in Nodes : m # n => node'[m] = node[m]
  BY DEF Moves
<1>t. Types'
  <2>1. \A m \in Nodes : node[m] \in NodeType
    BY TypeFacts DEF RefInv
  <2>2. node' = [m \in Nodes |-> node'[m]] /\ \A m \in Nodes : node'[m] \in NodeType
    BY <1>3, <2>1 DEF Moves
  <2>3. node' \in [Nodes -> NodeType]
    BY <2>2
  <2>4. \A b \in Tasks : job'[b].node \in Nodes \cup {None}
    BY DEF Moves, JobType
  <2> QED BY <2>3, <2>4 DEF Moves, RefInv, Types, TypeOK, NodeType, RefType
<1>4. \A p \in Procs : \A m \in Nodes : m # n \/ p # c => ref'[p][m] = ref[p][m]
  BY DEF Moves
<1>5. RefsSound /\ HandlesUnique
  BY DEF RefInv
<1>6. RefsSound'
  <2> SUFFICES ASSUME NEW p \in Procs, NEW m \in Nodes, ref'[p][m].desc = -1 PROVE ref'[p][m] = NoRef
    BY DEF RefsSound
  <2> QED BY <1>4, <1>5 DEF RefsSound
<1>7. ASSUME NEW p \in Procs, NEW m \in Nodes, NEW k \in Nodes,
             ref'[p][m].desc = ref'[p][k].desc, ref'[p][m] # NoRef
      PROVE  m = k
  <2>1. ref'[p][k] # NoRef
    BY <1>6, <1>7 DEF RefsSound, NoRef
  <2>2. CASE p # c \/ (m # n /\ k # n)
    BY <1>4, <1>5, <1>7, <2>2 DEF HandlesUnique
  <2>3. CASE p = c /\ m = n /\ k # n
    <3>1. ref'[p][k] = ref[p][k]
      BY <1>4, <2>3
    <3> QED BY <1>5, <1>7, <2>1, <2>3, <3>1 DEF HandlesUnique
  <2>4. CASE p = c /\ k = n /\ m # n
    <3>1. ref'[p][m] = ref[p][m]
      BY <1>4, <2>4
    <3> QED BY <1>5, <1>7, <2>1, <2>4, <3>1 DEF HandlesUnique
  <2> QED BY <2>2, <2>3, <2>4
<1>8. ASSUME NEW p \in Procs, NEW m \in Nodes, ref'[p][m].desc = 0
      PROVE  node'[m].mgr
  <2>1. \A q \in Procs : \A k \in Nodes : ref[q][k].desc = 0 => node[k].mgr
    BY <1>5 DEF HandlesUnique
  <2>2. node[m].mgr => node'[m].mgr
    BY <1>3
  <2>3. CASE p # c \/ m # n
    BY <1>4, <1>8, <2>1, <2>2, <2>3
  <2>4. CASE p = c /\ m = n
    BY <1>8, <2>1, <2>2, <2>4 DEF NoRef
  <2> QED BY <2>3, <2>4
<1>9. ASSUME NEW m \in Nodes, NEW k \in Nodes, node'[m].tree, node'[k].tree, node'[m].ptr = node'[k].ptr
      PROVE  m = k
  <2>1. \A x, y \in Nodes : node[x].tree /\ node[y].tree /\ node[x].ptr = node[y].ptr => x = y
    BY <1>5 DEF HandlesUnique
  <2> QED BY <1>3, <1>9, <2>1
<1>10. HandlesUnique'
  BY <1>7, <1>8, <1>9 DEF HandlesUnique
<1> QED BY <1>1, <1>2, <1>t, <1>6, <1>10 DEF RefInv

\* While the server is open it has its live nodes in its tree.
LEMMA OpenTree ==
  ASSUME RefInv, NEW n \in Nodes, node[n].mem \in {"live", "reap"}, life[Server] = "open"
  PROVE  node[n].tree /\ node[n].proc /\ node[n].mem = "live"
<1>1. JobSound(Worker) /\ NodeOk(n)
  BY Marks DEF RefInv
<1>2. ~Erased(n)
  BY <1>1 DEF JobSound, Erased
<1>3. node[n].proc \in BOOLEAN /\ node[n].tree \in BOOLEAN
  BY TypeFacts DEF RefInv, NodeType
<1> QED BY <1>1, <1>2, <1>3 DEF NodeOk, Sound

\* One() is a number.
LEMMA OneInt ==
  ASSUME NEW b
  PROVE  One(b) \in Int /\ One(b) \in Nat
BY DEF One

\* The changes of the record and of the owners of its counts agree.
LEMMA NewCounts ==
  ASSUME NEW a \in Tasks, NEW c \in Procs, NEW n \in Nodes, Moves(a, c, n), RefInv,
         node[n].mem \in {"live", "reap"},
         NEW d \in NodeType, Counts(d, a, c, n), d.tree => node[n].tree
  PROVE  /\ d.internal = Cardinality(StrongRefs(n))' /\ d.tmp = Cardinality(Temporary(n))'
         /\ d.tree => /\ d.strong = LocalStrong(n)' + One(d.pend_s) + One(d.mgr)
                      /\ d.weak = LocalWeak(n)' + One(d.pend_w) + One(d.mgr)
<1>1. /\ node[n].internal = Cardinality(StrongRefs(n)) /\ node[n].tmp = Cardinality(Temporary(n))
      /\ node[n].tree => /\ node[n].strong = LocalStrong(n) + One(node[n].pend_s) + One(node[n].mgr)
                         /\ node[n].weak = LocalWeak(n) + One(node[n].pend_w) + One(node[n].mgr)
  BY DEF RefInv, NodeOk, Sound
<1>2. \A b \in Tasks : b # a => job'[b] = job[b]
  BY DEF Moves
<1>3. \A p \in Procs : p # c => ref'[p][n] = ref[p][n]
  BY DEF Moves
<1>4. /\ Cardinality(Temporary(n)) \in Nat /\ Cardinality(Temporary(n))' \in Nat
      /\ Cardinality(Temporary(n))' =
           Cardinality(Temporary(n)) + One(a \in Temporary(n)') - One(a \in Temporary(n))
  BY <1>2, TaskMembers
<1>5. /\ Cardinality(Calling(n)) \in Nat /\ Cardinality(Calling(n))' \in Nat
      /\ Cardinality(Calling(n))' = Cardinality(Calling(n)) + One(a \in Calling(n)') - One(a \in Calling(n))
  BY <1>2, TaskMembers
<1>6. /\ Cardinality(Carried(n, TRUE)) \in Nat /\ Cardinality(Carried(n, TRUE))' \in Nat
      /\ Cardinality(Carried(n, TRUE))' =
           Cardinality(Carried(n, TRUE)) + One(a \in Carried(n, TRUE)') - One(a \in Carried(n, TRUE))
  BY <1>2, TaskMembers
<1>7. /\ Cardinality(Carried(n, FALSE)) \in Nat /\ Cardinality(Carried(n, FALSE))' \in Nat
      /\ Cardinality(Carried(n, FALSE))' =
           Cardinality(Carried(n, FALSE)) + One(a \in Carried(n, FALSE)') - One(a \in Carried(n, FALSE))
  BY <1>2, TaskMembers
<1>8. /\ Cardinality(StrongRefs(n)) \in Nat /\ Cardinality(StrongRefs(n))' \in Nat
      /\ Cardinality(StrongRefs(n))' =
           Cardinality(StrongRefs(n)) + One(ref'[c][n].strong > 0) - One(ref[c][n].strong > 0)
  BY <1>3, RefCounts
<1>9. d.internal = Cardinality(StrongRefs(n))' /\ d.tmp = Cardinality(Temporary(n))'
  BY <1>1, <1>4, <1>8 DEF Counts, TaskCounts
<1>10. /\ held[n].target \in Nat /\ held[n].strong \in Nat /\ held[n].weak \in Nat
       /\ node[n].strong \in Int /\ node[n].weak \in Int
  BY TypeFacts DEF RefInv, NodeType, HeldType
<1>11. /\ held'[n].target \in Nat /\ held'[n].strong \in Nat /\ held'[n].weak \in Nat
       /\ d.strong \in Int /\ d.weak \in Int
  BY DEF Moves, NodeType, HeldType
<1>12. PICK x1 \in Nat, x2 \in Nat, x3 \in Nat, x4 \in Nat, x5 \in Nat, x6 \in Nat :
         /\ x1 = held'[n].target /\ x2 = held'[n].strong /\ x3 = held'[n].weak
         /\ x4 = Cardinality(Calling(n))' /\ x5 = Cardinality(Carried(n, TRUE))'
         /\ x6 = Cardinality(Carried(n, FALSE))'
  BY <1>5, <1>6, <1>7, <1>11
<1>13. PICK y1 \in Nat, y2 \in Nat, y3 \in Nat, y4 \in Nat, y5 \in Nat, y6 \in Nat :
         /\ y1 = held[n].target /\ y2 = held[n].strong /\ y3 = held[n].weak
         /\ y4 = Cardinality(Calling(n)) /\ y5 = Cardinality(Carried(n, TRUE))
         /\ y6 = Cardinality(Carried(n, FALSE))
  BY <1>5, <1>6, <1>7, <1>10
<1>14. LocalStrong(n)' = x1 + x2 + x4 + x5 /\ LocalWeak(n)' = x3 + x6
  BY <1>12 DEF LocalStrong, LocalWeak
<1>15. LocalStrong(n) = y1 + y2 + y4 + y5 /\ LocalWeak(n) = y3 + y6
  BY <1>13 DEF LocalStrong, LocalWeak
<1>16. PICK p1 \in Int, p2 \in Int, p3 \in Int, q1 \in Int, q2 \in Int, q3 \in Int :
         /\ p1 = One(a \in Calling(n)') /\ q1 = One(a \in Calling(n))
         /\ p2 = One(a \in Carried(n, TRUE)') /\ q2 = One(a \in Carried(n, TRUE))
         /\ p3 = One(a \in Carried(n, FALSE)') /\ q3 = One(a \in Carried(n, FALSE))
  <2>1. One(a \in Calling(n)') \in Int /\ One(a \in Carried(n, TRUE)') \in Int
        /\ One(a \in Carried(n, FALSE)') \in Int
    BY OneInt
  <2>2. One(a \in Calling(n)) \in Int /\ One(a \in Carried(n, TRUE)) \in Int
        /\ One(a \in Carried(n, FALSE)) \in Int
    BY OneInt
  <2> QED BY <2>1, <2>2
<1>17. PICK u1 \in Int, u2 \in Int, u3 \in Int, v1 \in Int, v2 \in Int, v3 \in Int :
         /\ u1 = One(d.pend_s) /\ v1 = One(node[n].pend_s)
         /\ u2 = One(d.pend_w) /\ v2 = One(node[n].pend_w)
         /\ u3 = One(d.mgr) /\ v3 = One(node[n].mgr)
  <2>1. One(d.pend_s) \in Int /\ One(d.pend_w) \in Int /\ One(d.mgr) \in Int
    BY OneInt
  <2>2. One(node[n].pend_s) \in Int /\ One(node[n].pend_w) \in Int /\ One(node[n].mgr) \in Int
    BY OneInt
  <2> QED BY <2>1, <2>2
<1>18. x4 = y4 + p1 - q1 /\ x5 = y5 + p2 - q2 /\ x6 = y6 + p3 - q3
  BY <1>5, <1>6, <1>7, <1>12, <1>13, <1>16
<1>19. d.tree => d.strong = LocalStrong(n)' + u1 + u3
  <2> SUFFICES ASSUME d.tree PROVE d.strong = LocalStrong(n)' + u1 + u3
    OBVIOUS
  <2>1. d.strong - u1 - u3 - x1 - x2 - p1 - p2 = node[n].strong - v1 - v3 - y1 - y2 - q1 - q2
    BY <1>12, <1>13, <1>16, <1>17 DEF Counts, TaskCounts
  <2>2. node[n].strong = y1 + y2 + y4 + y5 + v1 + v3
    BY <1>1, <1>15, <1>17
  <2>3. PICK s \in Int, z \in Int : s = d.strong /\ z = node[n].strong
    BY <1>10, <1>11
  <2>4. s - u1 - u3 - x1 - x2 - p1 - p2 = z - v1 - v3 - y1 - y2 - q1 - q2
    BY <2>1, <2>3
  <2>5. z = y1 + y2 + y4 + y5 + v1 + v3
    BY <2>2, <2>3
  <2>6. s = x1 + x2 + x4 + x5 + u1 + u3
    BY <1>18, <2>4, <2>5
  <2> QED BY <1>14, <2>3, <2>6
<1>20. d.tree => d.weak = LocalWeak(n)' + u2 + u3
  <2> SUFFICES ASSUME d.tree PROVE d.weak = LocalWeak(n)' + u2 + u3
    OBVIOUS
  <2>1. d.weak - u2 - u3 - x3 - p3 = node[n].weak - v2 - v3 - y3 - q3
    BY <1>12, <1>13, <1>16, <1>17 DEF Counts, TaskCounts
  <2>2. node[n].weak = y3 + y6 + v2 + v3
    BY <1>1, <1>15, <1>17
  <2>3. PICK s \in Int, z \in Int : s = d.weak /\ z = node[n].weak
    BY <1>10, <1>11
  <2>4. s - u2 - u3 - x3 - p3 = z - v2 - v3 - y3 - q3
    BY <2>1, <2>3
  <2>5. z = y3 + y6 + v2 + v3
    BY <2>2, <2>3
  <2>6. s = x3 + x6 + u2 + u3
    BY <1>18, <2>4, <2>5
  <2> QED BY <1>14, <2>3, <2>6
<1> QED BY <1>9, <1>17, <1>19, <1>20

\* Such a record is sound.
LEMMA FitsSound ==
  ASSUME NEW a \in Tasks, NEW c \in Procs, NEW n \in Nodes, Moves(a, c, n), RefInv,
         node[n].mem \in {"live", "reap"}, NEW d, Fits(d, a, c, n)
  PROVE  Sound(d, Refs(n)', Cardinality(StrongRefs(n))', Cardinality(Temporary(n))', LocalStrong(n)',
               LocalWeak(n)', life'[Server] = "open", Erased(n)', Counted(n)', lost'[n])
<1>1. d \in NodeType /\ Counts(d, a, c, n) /\ d.tree = node[n].tree /\ d.proc = node[n].proc
      /\ (d.mem = "live" \/ (d.mem = node[n].mem /\ Refs(n)' = Refs(n))) /\ Erased(n)' = Erased(n) /\ (d.work # "none" => d.proc)
      /\ (d.proc /\ d.work = "none" /\ ~lost[n] => (d.internal > 0 => d.has_s) /\ (Counted(n)' => d.has_w))
  BY DEF Fits
<1>2. /\ d.internal = Cardinality(StrongRefs(n))' /\ d.tmp = Cardinality(Temporary(n))'
      /\ d.tree => /\ d.strong = LocalStrong(n)' + One(d.pend_s) + One(d.mgr)
                   /\ d.weak = LocalWeak(n)' + One(d.pend_w) + One(d.mgr)
  BY <1>1, NewCounts
<1>3. /\ node[n].proc /\ ~node[n].tree => Erased(n)
      /\ Erased(n) => node[n].proc /\ ~node[n].tree
      /\ ~node[n].proc => ~(life[Server] = "open")
      /\ node[n].tree => node[n].proc /\ node[n].mem = "live"
      /\ node[n].mem = "reap" => ~node[n].proc /\ Refs(n) = {}
  BY DEF RefInv, NodeOk, Sound
<1>4. life' = life /\ lost' = lost
  BY DEF Moves
<1> QED BY <1>1, <1>2, <1>3, <1>4 DEF Sound

\* Nothing has to end: a record that fits is the next one.
LEMMA KeepStep ==
  ASSUME NEW a \in Tasks, NEW c \in Procs, NEW n \in Nodes, Moves(a, c, n), RefInv,
         node[n].mem \in {"live", "reap"}, NEW d, d = node'[n], Fits(d, a, c, n),
         Kept(d, Refs(n)', lost'[n])
  PROVE  NodeOk(n)'
<1>1. d \in NodeType /\ d = node'[n]
  BY DEF Fits
<1>2. Fits(d, a, c, n)
  OBVIOUS
<1>3. Sound(d, Refs(n)', Cardinality(StrongRefs(n))', Cardinality(Temporary(n))', LocalStrong(n)',
               LocalWeak(n)', life'[Server] = "open", Erased(n)', Counted(n)', lost'[n])
  BY <1>2, FitsSound
<1>4. life'[Server] = "open" => d.tree
  BY <1>2, OpenTree DEF Moves, Fits
<1>5. d.mem \in {"live", "reap"} /\ (~d.proc => held'[n] = NoHeld) /\ Told(d)
  BY <1>2 DEF Fits
<1>6. Kept(d, Refs(n)', lost'[n])
  OBVIOUS
<1> QED BY <1>1, <1>3, <1>4, <1>5, <1>6 DEF NodeOk, Sound, Kept

\* A count went down: the node may end, and then nobody uses it.
LEMMA SettleStep ==
  ASSUME NEW a \in Tasks, NEW c \in Procs, NEW n \in Nodes, Moves(a, c, n), RefInv,
         node[n].mem = "live", NEW d, Fits(d, a, c, n), d.mem = "live", NEW strong \in BOOLEAN, NEW refs,
         refs = Refs(n)', node'[n] = Settle(d, strong, refs), JobSound(a)'
  PROVE  /\ NodeOk(n)' /\ node'[n] \in NodeType
         /\ (node[n].mgr => node'[n].mgr) /\ node'[n].ptr = node[n].ptr /\ (node'[n].tree => node[n].tree)
<1>1. PICK i \in Nat, t \in Nat, s \in Nat, w \in Nat :
        /\ i = Cardinality(StrongRefs(n))' /\ t = Cardinality(Temporary(n))'
        /\ s = LocalStrong(n)' /\ w = LocalWeak(n)'
  BY CountTypes DEF Moves
<1>2. PICK open \in BOOLEAN, erased \in BOOLEAN, counted \in BOOLEAN, gone \in BOOLEAN :
        open = (life'[Server] = "open") /\ erased = Erased(n)' /\ counted = Counted(n)' /\ gone = lost'[n]
  BY TypeFacts DEF Moves, RefInv, Erased, Counted
<1>3. Sound(d, refs, i, t, s, w, open, erased, counted, gone)
  <2>1. Sound(d, Refs(n)', Cardinality(StrongRefs(n))', Cardinality(Temporary(n))', LocalStrong(n)',
              LocalWeak(n)', life'[Server] = "open", Erased(n)', Counted(n)', lost'[n])
    BY FitsSound
  <2> QED BY <1>1, <1>2, <2>1
<1>4. /\ i > 0 => refs # {}
      /\ t = 0 => Temporary(n)' = {}
      /\ s = 0 /\ w = 0 => held'[n] = NoHeld /\ Carried(n, TRUE)' = {} /\ Carried(n, FALSE)' = {}
  <2>1. /\ i > 0 => StrongRefs(n)' # {}
        /\ t = 0 => Temporary(n)' = {}
        /\ s = 0 /\ w = 0 => held'[n] = NoHeld /\ Carried(n, TRUE)' = {} /\ Carried(n, FALSE)' = {}
    BY <1>1, CountTypes DEF Moves
  <2>2. StrongRefs(n)' \subseteq Refs(n)'
    BY DEF StrongRefs, Refs, NoRef
  <2> QED BY <2>1, <2>2
<1>5. /\ d \in NodeType /\ d.mem = "live" /\ (node[n].mgr => d.mgr) /\ d.ptr = node[n].ptr
      /\ d.tree = node[n].tree /\ Told(d) /\ (~d.proc => held'[n] = NoHeld)
  BY DEF Fits
<1>6. \A b \in Tasks : b # a => JobSound(b)'
  <2>1. PICK e : e = node'[n]
    OBVIOUS
  <2>2. e.mgr = d.mgr
    BY <1>5, <2>1 DEF Settle, Delete, NodeType
  <2> QED BY <1>5, <2>1, <2>2, OtherTasks
<1>7. \A b \in Tasks : JobSound(b)' /\ job'[b] \in JobType
  BY <1>6 DEF Moves
<1>8. erased => t > 0
  <2> SUFFICES ASSUME erased, t = 0 PROVE FALSE
    BY <1>1
  <2>1. JobSound(Worker)' /\ job'[Worker].pc = "release" /\ job'[Worker].node = n
    BY <1>2, <1>7, Marks DEF Erased
  <2>2. job'[Worker].next = "idle"
    BY <2>1 DEF JobSound
  <2>3. Worker \in Temporary(n)'
    BY <2>1, <2>2, Marks DEF Temporary, Users
  <2> QED BY <1>4, <2>3
<1>9. Settles(d, refs, i, t, s, w, open, erased, counted, gone)
  BY <1>1, <1>3, <1>4, <1>5, <1>8 DEF Settles
<1>10. PICK e : e = node'[n] /\ Settled(d, e, refs, i, t, s, w, open, erased, counted, gone)
  BY <1>9, SettleOk
<1>11. /\ e \in NodeType /\ e.ptr = d.ptr /\ e.mgr = d.mgr /\ (e.tree => d.tree) /\ e.mem # "unused"
       /\ e.has_s = d.has_s /\ e.has_w = d.has_w /\ e.pend_s = d.pend_s /\ e.pend_w = d.pend_w /\ e.proc = d.proc
       /\ e.mem = "live" => e.tree = d.tree
       /\ e.mem \in {"live", "reap"} =>
            Sound(e, refs, i, t, s, w, open, erased, counted, gone) /\ Kept(e, refs, gone)
       /\ e.mem # "live" => t = 0 /\ refs = {}
       /\ e.mem = "reap" => ~d.proc
       /\ e.mem = "freed" => d.tree /\ s = 0 /\ w = 0 /\ ~d.mgr /\ ~e.tree /\ e.work = "none"
  BY <1>10 DEF Settled
<1>12. e.mem \in {"live", "reap"} =>
         /\ Sound(e, Refs(n)', Cardinality(StrongRefs(n))', Cardinality(Temporary(n))', LocalStrong(n)',
                  LocalWeak(n)', life'[Server] = "open", Erased(n)', Counted(n)', lost'[n])
         /\ Kept(e, Refs(n)', lost'[n])
         /\ ~e.proc => held'[n] = NoHeld
  BY <1>1, <1>2, <1>5, <1>11
<1>13. e.mem = "freed" => \A b \in Users(n)' : job'[b].pc \in {"sent", "sent_binder"}
  <2> SUFFICES ASSUME e.mem = "freed", NEW b \in Users(n)' PROVE job'[b].pc \in {"sent", "sent_binder"}
    OBVIOUS
  <2>1. b \in Tasks
    BY DEF Users
  <2>2. \/ b \in Temporary(n)' \/ job'[b].pc \in {"sent", "sent_binder"} \/ Refs(n)' # {}
        \/ life'[Server] = "open" /\ node'[n].mgr
    BY <1>7, <2>1, UserKinds
  <2>3. Temporary(n)' = {} /\ Refs(n)' = {} /\ ~node'[n].mgr
    BY <1>4, <1>10, <1>11
  <2> QED BY <2>2, <2>3
<1>14. e.mem \notin {"live", "reap"} =>
         Refs(n)' = {} /\ held'[n] = NoHeld /\ ~e.tree /\ e.work = "none"
         /\ \A b \in Users(n)' : job'[b].pc \in {"sent", "sent_binder"}
  <2>1. e.mem \in {"unused", "live", "reap", "freed"}
    BY <1>11 DEF NodeType
  <2> QED BY <1>4, <1>11, <1>13, <2>1
<1>15. life'[Server] = "open" =>
         (Carried(n, TRUE)' # {} \/ Carried(n, FALSE)' # {} => e.tree) /\ (e.mgr => e.tree)
  <2> SUFFICES ASSUME life'[Server] = "open"
               PROVE  (Carried(n, TRUE)' # {} \/ Carried(n, FALSE)' # {} => e.tree) /\ (e.mgr => e.tree)
    OBVIOUS
  <2>1. node[n].tree /\ node[n].proc
    BY OpenTree DEF Moves
  <2>2. d.proc
    BY <2>1 DEF Fits
  <2>3. e.mem \in {"unused", "live", "reap", "freed"}
    BY <1>11 DEF NodeType
  <2> QED BY <1>4, <1>5, <1>11, <2>1, <2>2, <2>3
<1>16. Told(e)
  BY <1>5, <1>11 DEF Told
<1>17. NodeOk(n)'
  BY <1>10, <1>11, <1>12, <1>14, <1>15, <1>16 DEF NodeOk, Sound, Kept
<1> QED BY <1>5, <1>10, <1>11, <1>17

\* What the invariant says of a live node's record.
LEMMA LiveFacts ==
  ASSUME RefInv, NEW n \in Nodes, node[n].mem \in {"live", "reap"}
  PROVE  /\ node[n] \in NodeType /\ node[n].internal = Cardinality(StrongRefs(n))
         /\ node[n].tmp = Cardinality(Temporary(n)) /\ Cardinality(Temporary(n)) \in Nat
         /\ node[n].work # "none" => node[n].proc
         /\ Told(node[n])
         /\ ~node[n].proc => held[n] = NoHeld
         /\ node[n].proc /\ node[n].work = "none" /\ ~lost[n] =>
              (node[n].internal > 0 => node[n].has_s) /\ (Counted(n) => node[n].has_w)
         /\ Temporary(n) # {} => node[n].tmp > 0
<1>1. node[n] \in NodeType /\ NodeOk(n)
  BY TypeFacts DEF RefInv
<1>2. IsFiniteSet(Temporary(n))
  BY CountedFinite
<1>3. Cardinality(Temporary(n)) \in Nat /\ (Cardinality(Temporary(n)) = 0 => Temporary(n) = {})
  BY <1>2, FS_CardinalityType, FS_EmptySet
<1> QED BY <1>1, <1>3 DEF NodeOk, Sound

\* A task goes on with j and the node has the record e; references and buffers stay.
LEMMA TaskMoves ==
  ASSUME RefInv, NEW a \in Tasks, NEW n \in Nodes \cup {None}, NEW j \in JobType, NEW e,
         job' = [job EXCEPT ![a] = j], node' = [node EXCEPT ![n] = e], calls' \in Nat,
         UNCHANGED <<life, ref, olock, held, lost>>,
         job[a].node \in {n, None}, j.node \in {n, None}
  PROVE  /\ Moves(a, Server, n) /\ job'[a] = j /\ (n \in Nodes => node'[n] = e)
         /\ Refs(n)' = Refs(n) /\ StrongRefs(n)' = StrongRefs(n) /\ Counted(n)' = Counted(n)
<1>1. job' \in [Tasks -> JobType] /\ job'[a] = j /\ \A b \in Tasks : b # a => job'[b] = job[b]
  BY DEF RefInv, Types
<1>2. /\ node' = [m \in Nodes |-> node'[m]] /\ \A m \in Nodes : m # n => node'[m] = node[m]
      /\ n \in Nodes => node'[n] = e
  BY DEF RefInv, Types, TypeOK
<1>3. Moves(a, Server, n)
  BY <1>1, <1>2 DEF Moves, RefInv, Types, TypeOK, RefType
<1>4. Refs(n)' = Refs(n) /\ StrongRefs(n)' = StrongRefs(n) /\ Counted(n)' = Counted(n)
  BY DEF Refs, StrongRefs, Counted
<1> QED BY <1>1, <1>2, <1>3, <1>4

\* The record fits and the node stays.
LEMMA TaskKeeps ==
  ASSUME RefInv, NEW a \in Tasks, NEW n \in Nodes, NEW j \in JobType, NEW d,
         job' = [job EXCEPT ![a] = j], node' = [node EXCEPT ![n] = d], calls' \in Nat,
         UNCHANGED <<life, ref, olock, held, lost>>,
         job[a].node \in {n, None}, j.node \in {n, None},
         node[n].mem \in {"live", "reap"}, Fits(d, a, Server, n), Kept(d, Refs(n), lost[n]), JobSound(a)'
  PROVE  RefInv'
<1>1. /\ Moves(a, Server, n) /\ node'[n] = d /\ Refs(n)' = Refs(n) /\ lost' = lost
  BY TaskMoves
<1>2. NodeOk(n)'
  <2>1. Kept(d, Refs(n)', lost'[n])
    BY <1>1
  <2> QED BY <1>1, <2>1, Marks, KeepStep
<1>3. d \in NodeType /\ (node[n].mgr => d.mgr) /\ d.ptr = node[n].ptr /\ d.tree = node[n].tree
  BY DEF Fits
<1>4. ref'[Server][n] = ref[Server][n] /\ (ref[Server][n].desc = -1 => ref[Server][n] = NoRef)
  BY Marks DEF RefInv, RefsSound
<1> QED BY <1>1, <1>2, <1>3, <1>4, Marks, OneStep

\* A count went down and the node is settled.
LEMMA TaskSettles ==
  ASSUME RefInv, NEW a \in Tasks, NEW n \in Nodes, NEW j \in JobType, NEW d, NEW strong \in BOOLEAN,
         NEW e, e = Settle(d, strong, Refs(n)),
         job' = [job EXCEPT ![a] = j], node' = [node EXCEPT ![n] = e], calls' \in Nat, UNCHANGED <<life, ref, olock, held, lost>>,
         job[a].node \in {n, None}, j.node \in {n, None},
         node[n].mem = "live", Fits(d, a, Server, n), d.mem = "live", JobSound(a)'
  PROVE  RefInv'
<1>1. /\ Moves(a, Server, n) /\ node'[n] = Settle(d, strong, Refs(n)) /\ Refs(n)' = Refs(n) /\ lost' = lost
  <2>1. Moves(a, Server, n) /\ node'[n] = e /\ Refs(n)' = Refs(n)
    BY ONLY RefInv, a \in Tasks, n \in Nodes, j \in JobType, job' = [job EXCEPT ![a] = j],
            node' = [node EXCEPT ![n] = e], calls' \in Nat, UNCHANGED <<life, ref, olock, held, lost>>,
            job[a].node \in {n, None}, j.node \in {n, None}, TaskMoves
  <2> QED BY <2>1
<1>2. /\ NodeOk(n)' /\ node'[n] \in NodeType
      /\ (node[n].mgr => node'[n].mgr) /\ node'[n].ptr = node[n].ptr /\ (node'[n].tree => node[n].tree)
  <2>1. PICK refs : refs = Refs(n)' /\ node'[n] = Settle(d, strong, refs)
    BY <1>1
  <2> QED BY <1>1, <2>1, Marks, SettleStep
<1>4. ref'[Server][n] = ref[Server][n] /\ (ref[Server][n].desc = -1 => ref[Server][n] = NoRef)
  BY Marks DEF RefInv, RefsSound
<1> QED BY <1>1, <1>2, <1>4, Marks, OneStep

-----------------------------------------------------------------------------
(* Temporary references.                                                   *)

\* A step of one task that changes counts of the node, and no reference.
LEMMA TaskFits ==
  ASSUME RefInv, NEW a \in Tasks, NEW n \in Nodes, node[n].mem \in {"live", "reap"}, ref' = ref,
         NEW e \in NodeType, Alike(e, node[n]), TaskCounts(e, a, n), Erased(n)' = Erased(n),
         ~node[n].proc => held'[n] = NoHeld
  PROVE  Fits(e, a, Server, n)
<1>1. Counted(n)' = Counted(n) /\ Refs(n)' = Refs(n)
  BY DEF Counted, Refs
<1>2. ref'[Server][n].strong = ref[Server][n].strong /\ e.internal \in Nat /\ One(ref[Server][n].strong > 0) \in Nat
  BY OneInt DEF NodeType
<1>3. e.internal = node[n].internal + One(ref'[Server][n].strong > 0) - One(ref[Server][n].strong > 0)
  BY <1>2 DEF Alike
<1>4. Counts(e, a, Server, n)
  BY <1>3 DEF Counts
<1>5. Told(e)
  BY LiveFacts DEF Told, Alike
<1> QED BY <1>1, <1>4, <1>5, LiveFacts DEF Fits, Alike

\* The record with another number of temporary references.
LEMMA TmpRecord ==
  ASSUME NEW d \in NodeType, NEW k \in Nat
  PROVE  LET e == [d EXCEPT !.tmp = k] IN
         /\ e \in NodeType /\ e.tmp = k /\ Alike(e, d)
         /\ e.strong = d.strong /\ e.weak = d.weak /\ e.pend_s = d.pend_s /\ e.pend_w = d.pend_w
BY DEF NodeType, Alike

\* A task that gains or loses a temporary reference, and nothing else.
LEMMA TmpFits ==
  ASSUME RefInv, NEW a \in Tasks, NEW n \in Nodes, node[n].mem \in {"live", "reap"}, ref' = ref, held' = held,
         NEW k \in Nat, k = node[n].tmp + One(a \in Temporary(n)') - One(a \in Temporary(n)),
         a \in Calling(n)' <=> a \in Calling(n),
         a \in Carried(n, TRUE)' <=> a \in Carried(n, TRUE),
         a \in Carried(n, FALSE)' <=> a \in Carried(n, FALSE),
         Erased(n)' = Erased(n)
  PROVE  Fits([node[n] EXCEPT !.tmp = k], a, Server, n) /\ Alike([node[n] EXCEPT !.tmp = k], node[n])
<1> PICK e : e = [node[n] EXCEPT !.tmp = k]
  OBVIOUS
<1>1. node[n] \in NodeType /\ (~node[n].proc => held[n] = NoHeld)
  BY LiveFacts
<1>2. /\ e \in NodeType /\ e.tmp = k /\ Alike(e, node[n]) /\ e.strong = node[n].strong
      /\ e.weak = node[n].weak /\ e.pend_s = node[n].pend_s /\ e.pend_w = node[n].pend_w
  BY <1>1, TmpRecord
<1>3. TaskCounts(e, a, n)
  BY <1>2 DEF TaskCounts, One, Alike
<1>4. Fits(e, a, Server, n)
  BY <1>1, <1>2, <1>3, TaskFits
<1> QED BY <1>2, <1>4

\* binder_put_node() by the task that has the reference.
LEMMA PutOk ==
  ASSUME RefInv, NEW a \in Tasks, Put(a)
  PROVE  RefInv'
<1>1. PICK n \in Nodes : n = job[a].node
  BY DEF RefInv, JobSound, Put
<1>2. JobSound(a) /\ job[a] \in JobType /\ job[a].pc = "put" /\ node[n].mem = "live"
  BY <1>1, TypeFacts DEF RefInv, Put, Unlocked
<1>3. PICK j \in JobType : /\ job' = [job EXCEPT ![a] = j] /\ job'[a] = j
                           /\ j = IF job[a].next \in {"idle", "mgr"} THEN Idle ELSE [job[a] EXCEPT !.pc = job[a].next]
  <2>1. Idle \in JobType
    BY DEF Idle, JobType
  <2>2. job[a].next \notin {"idle", "mgr"} => [job[a] EXCEPT !.pc = job[a].next] \in JobType
    BY <1>2 DEF JobType
  <2>3. job \in [Tasks -> JobType]
    BY DEF RefInv, Types
  <2> QED BY <2>1, <2>2, <2>3 DEF Put, Become
<1>4. job[a].node \in {n, None} /\ j.node \in {n, None}
  BY <1>1, <1>2, <1>3 DEF JobType, Idle
<1>5. /\ a \in Temporary(n) /\ a \notin Temporary(n)'
      /\ a \in Calling(n)' <=> a \in Calling(n)
      /\ a \in Carried(n, TRUE)' <=> a \in Carried(n, TRUE)
      /\ a \in Carried(n, FALSE)' <=> a \in Carried(n, FALSE)
  BY <1>1, <1>2, <1>3 DEF Temporary, Calling, Carried, Users, Idle, JobSound, JobType
<1>6. Erased(n)' = Erased(n)
  BY <1>1, <1>2, <1>3 DEF Erased, Idle, JobType, RefInv, Types
<1>7. PICK k \in Nat : k = node[n].tmp - 1
  BY <1>2, <1>5, LiveFacts
<1>8. Fits([node[n] EXCEPT !.tmp = k], a, Server, n) /\ Alike([node[n] EXCEPT !.tmp = k], node[n])
  <2>1. k = node[n].tmp + One(a \in Temporary(n)') - One(a \in Temporary(n))
    BY <1>2, <1>5, <1>7, LiveFacts DEF One
  <2>2. ref' = ref /\ held' = held
    BY DEF Put
  <2> QED BY <1>2, <1>5, <1>6, <2>1, <2>2, TmpFits
<1>9. node' = [node EXCEPT ![n] = Settle([node[n] EXCEPT !.tmp = k], FALSE, Refs(n))]
  BY <1>1, <1>7 DEF Put, Set, PutNode, DecNode
<1>10. JobSound(a)'
  BY <1>2, <1>3 DEF JobSound, Idle, JobType, Put
<1>11. UNCHANGED <<life, ref, olock, held, lost>> /\ calls' \in Nat
  BY DEF Put, RefInv, Types
<1>12. PICK d : d = [node[n] EXCEPT !.tmp = k]
  OBVIOUS
<1>13. Fits(d, a, Server, n) /\ d.mem = "live" /\ node' = [node EXCEPT ![n] = Settle(d, FALSE, Refs(n))]
  BY <1>2, <1>8, <1>9, <1>12 DEF Alike
<1> QED BY <1>2, <1>3, <1>4, <1>10, <1>11, <1>13, TaskSettles

\* A worker that does not start or end binder_node_release() erases no node.
LEMMA ErasedSame ==
  ASSUME NEW a \in Tasks, NEW n, \A b \in Tasks : b # a => job'[b] = job[b],
         job[a].pc # "release", job'[a].pc # "release"
  PROVE  Erased(n)' = Erased(n)
<1>1. CASE a = Worker
  BY <1>1 DEF Erased
<1>2. CASE a # Worker
  BY <1>2, Marks DEF Erased
<1> QED BY <1>1, <1>2

\* A task takes a temporary reference.
LEMMA TmpUp ==
  ASSUME RefInv, NEW a \in Tasks, NEW n \in Nodes, NEW j \in JobType, node[n].mem \in {"live", "reap"},
         job' = [job EXCEPT ![a] = j], node' = [node EXCEPT ![n] = [node[n] EXCEPT !.tmp = node[n].tmp + 1]],
         calls' \in Nat, UNCHANGED <<life, ref, olock, held, lost>>,
         job[a].node \in {n, None}, j.node = n, job[a].pc # "release", j.pc # "release",
         a \notin Temporary(n), a \in Temporary(n)',
         a \in Calling(n)' <=> a \in Calling(n),
         a \in Carried(n, TRUE)' <=> a \in Carried(n, TRUE),
         a \in Carried(n, FALSE)' <=> a \in Carried(n, FALSE),
         JobSound(a)'
  PROVE  RefInv'
<1>1. job'[a] = j /\ \A b \in Tasks : b # a => job'[b] = job[b]
  BY DEF RefInv, Types
<1>2. Erased(n)' = Erased(n)
  BY <1>1, ErasedSame
<1>3. PICK k \in Nat : k = node[n].tmp + 1
  BY LiveFacts
<1>4. PICK d : d = [node[n] EXCEPT !.tmp = k]
  OBVIOUS
<1>5. k = node[n].tmp + One(a \in Temporary(n)') - One(a \in Temporary(n))
  BY <1>3, LiveFacts DEF One
<1>6. Fits(d, a, Server, n)
  BY <1>2, <1>4, <1>5, TmpFits
<1>7. d.tmp = k /\ node' = [node EXCEPT ![n] = d]
  BY <1>3, <1>4, LiveFacts DEF NodeType
<1>8. Kept(d, Refs(n), lost[n])
  BY <1>3, <1>7, LiveFacts DEF Kept, Unused
<1> HIDE <1>4
<1> QED BY <1>6, <1>7, <1>8, TaskKeeps

\* A task moves on, or is done with the node, and leaves all counts alone.
LEMMA TaskQuiet ==
  ASSUME RefInv, NEW a \in Tasks, NEW n \in Nodes, NEW j \in JobType,
         job' = [job EXCEPT ![a] = j], node' = node, calls' \in Nat,
         UNCHANGED <<life, ref, olock, held, lost>>,
         job[a].node \in {n, None}, j.node \in {n, None}, job[a].pc # "release", j.pc # "release",
         node[n].mem \in {"live", "reap"} \/ (node[n].mem = "freed" /\ j = Idle),
         a \in Temporary(n)' <=> a \in Temporary(n),
         a \in Calling(n)' <=> a \in Calling(n),
         a \in Carried(n, TRUE)' => a \in Carried(n, TRUE),
         a \in Carried(n, FALSE)' => a \in Carried(n, FALSE),
         node[n].tree => (a \in Carried(n, TRUE) => a \in Carried(n, TRUE)')
                         /\ (a \in Carried(n, FALSE) => a \in Carried(n, FALSE)'),
         JobSound(a)'
  PROVE  RefInv'
<1>1. Moves(a, Server, n) /\ job'[a] = j /\ Refs(n)' = Refs(n) /\ StrongRefs(n)' = StrongRefs(n)
      /\ Counted(n)' = Counted(n)
  <2>1. PICK e : node' = [node EXCEPT ![n] = e]
    BY DEF RefInv, Types, TypeOK
  <2> QED BY ONLY RefInv, a \in Tasks, n \in Nodes, j \in JobType, job' = [job EXCEPT ![a] = j],
                  <2>1, calls' \in Nat, UNCHANGED <<life, ref, olock, held, lost>>,
                  job[a].node \in {n, None}, j.node \in {n, None}, TaskMoves
<1>2. \A b \in Tasks : b # a => job'[b] = job[b]
  BY <1>1 DEF Moves
<1>3. Erased(n)' = Erased(n)
  BY <1>1, <1>2, ErasedSame
<1>4. NodeOk(n) /\ node[n] \in NodeType
  BY TypeFacts DEF RefInv
<1>5. Temporary(n)' = Temporary(n) /\ Calling(n)' = Calling(n)
      /\ Carried(n, TRUE)' \subseteq Carried(n, TRUE) /\ Carried(n, FALSE)' \subseteq Carried(n, FALSE)
  BY <1>2 DEF Temporary, Calling, Carried, Users
<1>6. node[n].tree => Carried(n, TRUE)' = Carried(n, TRUE) /\ Carried(n, FALSE)' = Carried(n, FALSE)
  BY <1>2 DEF Temporary, Calling, Carried, Users
<1>7. node[n].tree => LocalStrong(n)' = LocalStrong(n) /\ LocalWeak(n)' = LocalWeak(n)
  BY <1>5, <1>6 DEF LocalStrong, LocalWeak
<1>8. j = Idle => Users(n)' \subseteq Users(n) /\ \A b \in Users(n)' : job'[b] = job[b]
  BY <1>1, <1>2 DEF Users, Idle
<1>9. NodeOk(n)'
  <2>1. CASE node[n].mem \in {"live", "reap"}
    <3>1. node'[n] = node[n] /\ held'[n] = held[n] /\ lost'[n] = lost[n] /\ life' = life
      OBVIOUS
    <3> QED BY <1>1, <1>3, <1>4, <1>5, <1>6, <1>7, <2>1, <3>1 DEF NodeOk, Sound, Kept
  <2>2. CASE node[n].mem = "freed" /\ j = Idle
    <3>1. node'[n] = node[n] /\ held'[n] = held[n] /\ lost'[n] = lost[n] /\ life' = life
      OBVIOUS
    <3> QED BY <1>1, <1>4, <1>5, <1>8, <2>2, <3>1 DEF NodeOk
  <2> QED BY <2>1, <2>2
<1>10. ref'[Server][n] = ref[Server][n] /\ (ref[Server][n].desc = -1 => ref[Server][n] = NoRef)
  BY Marks DEF RefInv, RefsSound
<1>11. node'[n] = node[n]
  OBVIOUS
<1> QED BY <1>1, <1>4, <1>9, <1>10, <1>11, Marks, OneStep

\* An idle task uses no node.
LEMMA IdleTask ==
  ASSUME RefInv, NEW a \in Tasks, job[a].pc = "idle"
  PROVE  /\ job[a] = Idle /\ job[a].node = None /\ job[a].pc # "release"
         /\ \A n : /\ a \notin Temporary(n) /\ a \notin Calling(n)
                   /\ a \notin Carried(n, TRUE) /\ a \notin Carried(n, FALSE)
<1>1. JobSound(a)
  BY DEF RefInv
<1>2. job[a] = Idle
  BY <1>1 DEF JobSound
<1> QED BY <1>2 DEF Idle, Temporary, Calling, Carried, Users

\* What job' holds when one task moves on.
LEMMA NewJob ==
  ASSUME RefInv, NEW a \in Tasks, NEW j, Become(a, j)
  PROVE  /\ job' = [job EXCEPT ![a] = j] /\ job'[a] = j
         /\ \A b \in Tasks : b # a => job'[b] = job[b]
BY DEF RefInv, Types, Become

\* BC_INCREFS_DONE and BC_ACQUIRE_DONE.
LEMMA DoneOk ==
  ASSUME RefInv, NEW a \in Locals, NEW n \in Nodes, NEW strong \in BOOLEAN, Done(a, n, strong)
  PROVE  RefInv'
<1>1. a \in Tasks /\ job[a].pc = "idle" /\ life[Server] = "open" /\ node[n].tree
  BY Marks DEF Done, Ready
<1>2. PICK j : j = [Idle EXCEPT !.pc = "done", !.node = n, !.strong = strong]
  OBVIOUS
<1>3. j \in JobType /\ j.pc = "done" /\ j.node = n /\ j.next = "idle" /\ j.list = "none"
  BY <1>2 DEF Idle, JobType
<1>4. job' = [job EXCEPT ![a] = j] /\ job'[a] = j
  BY <1>1, <1>2, NewJob DEF Done
<1>5. node[n].mem \in {"live", "reap"}
  BY <1>1 DEF RefInv, NodeOk
<1>6. /\ a \in Temporary(n)' /\ a \notin Calling(n)' /\ a \notin Carried(n, TRUE)'
      /\ a \notin Carried(n, FALSE)'
  BY <1>1, <1>3, <1>4 DEF Temporary, Calling, Carried, Users
<1>7. /\ node' = [node EXCEPT ![n] = [node[n] EXCEPT !.tmp = node[n].tmp + 1]]
      /\ UNCHANGED <<life, ref, olock, held, lost>> /\ calls' \in Nat
  BY DEF Done, Set, RefInv, Types
<1>8. JobSound(a)'
  BY <1>1, <1>3, <1>4, <1>7 DEF JobSound
<1> QED BY <1>1, <1>3, <1>4, <1>5, <1>6, <1>7, <1>8, IdleTask, TmpUp

\* A HANDLE object: the node is kept by a temporary reference.
LEMMA TranslateHandleOk ==
  ASSUME RefInv, NEW a \in Senders, NEW c \in Clients, NEW n \in Nodes, NEW strong \in BOOLEAN,
         NEW to \in Procs, TranslateHandle(a, c, n, to, strong)
  PROVE  RefInv'
<1>1. a \in Tasks /\ a \notin Locals /\ job[a].pc = "idle" /\ node[n].mem \in {"live", "reap"}
  BY Marks DEF TranslateHandle, Free, Unlocked
<1>2. PICK j : j = [Idle EXCEPT !.pc = "handle", !.node = n, !.proc = to, !.strong = strong]
  OBVIOUS
<1>3. j \in JobType /\ j.pc = "handle" /\ j.node = n /\ j.proc = to /\ j.next = "idle" /\ j.list = "none"
  BY <1>2 DEF Idle, JobType
<1>4. job' = [job EXCEPT ![a] = j] /\ job'[a] = j
  BY <1>1, <1>2, NewJob DEF TranslateHandle
<1>6. /\ a \in Temporary(n)' /\ a \notin Calling(n)' /\ a \notin Carried(n, TRUE)'
      /\ a \notin Carried(n, FALSE)'
  BY <1>1, <1>3, <1>4 DEF Temporary, Calling, Carried, Users
<1>7. /\ node' = [node EXCEPT ![n] = [node[n] EXCEPT !.tmp = node[n].tmp + 1]]
      /\ UNCHANGED <<life, ref, olock, held, lost>> /\ calls' \in Nat
  BY DEF TranslateHandle, Set, RefInv, Types, Call
<1>8. JobSound(a)'
  BY <1>1, <1>3, <1>4, <1>7 DEF JobSound
<1> QED BY <1>1, <1>3, <1>4, <1>6, <1>7, <1>8, IdleTask, TmpUp

\* binder_state_show() on binder_dead_nodes.
LEMMA ShowDeadNodeOk ==
  ASSUME RefInv, NEW n \in Nodes, ShowDeadNode(n)
  PROVE  RefInv'
<1>1. Reader \in Tasks /\ Reader \notin Locals /\ job[Reader].pc = "idle" /\ node[n].mem \in {"live", "reap"}
  BY Marks DEF ShowDeadNode
<1>2. PICK j : j = [Idle EXCEPT !.pc = "put", !.node = n]
  OBVIOUS
<1>3. j \in JobType /\ j.pc = "put" /\ j.node = n /\ j.next = "idle" /\ j.list = "none"
  BY <1>2 DEF Idle, JobType
<1>4. job' = [job EXCEPT ![Reader] = j] /\ job'[Reader] = j
  BY <1>1, <1>2, NewJob DEF ShowDeadNode
<1>6. /\ Reader \in Temporary(n)' /\ Reader \notin Calling(n)' /\ Reader \notin Carried(n, TRUE)'
      /\ Reader \notin Carried(n, FALSE)'
  BY <1>1, <1>3, <1>4 DEF Temporary, Calling, Carried, Users
<1>7. /\ node' = [node EXCEPT ![n] = [node[n] EXCEPT !.tmp = node[n].tmp + 1]]
      /\ UNCHANGED <<life, ref, olock, held, lost>> /\ calls' \in Nat
  BY DEF ShowDeadNode, Set, RefInv, Types
<1>8. JobSound(Reader)'
  BY <1>1, <1>3, <1>4, <1>7 DEF JobSound
<1> QED BY <1>1, <1>3, <1>4, <1>6, <1>7, <1>8, IdleTask, TmpUp

\* Handle 0: the reference is raised under context_mgr_node_lock.
LEMMA BcIncMgrOk ==
  ASSUME RefInv, NEW a \in Senders, NEW c \in Clients, NEW n \in Nodes, NEW strong \in BOOLEAN,
         BcIncMgr(a, c, n, strong)
  PROVE  RefInv'
<1>1. /\ a \in Tasks /\ a \notin Locals /\ job[a].pc = "idle" /\ c \in Procs /\ node[n].mgr
      /\ life[Server] = "open"
  BY Marks DEF BcIncMgr, Free, Procs
<1>2. PICK j : j = [Idle EXCEPT !.pc = "ref", !.node = n, !.proc = c, !.strong = strong, !.next = "mgr"]
  OBVIOUS
<1>3. j \in JobType /\ j.pc = "ref" /\ j.node = n /\ j.proc = c /\ j.next = "mgr" /\ j.list = "none"
  BY <1>1, <1>2 DEF Idle, JobType
<1>4. job' = [job EXCEPT ![a] = j] /\ job'[a] = j
  BY <1>1, <1>2, NewJob DEF BcIncMgr
<1>5. node[n].mem \in {"live", "reap"}
  BY <1>1 DEF RefInv, NodeOk
<1>6. /\ a \notin Temporary(n)' /\ a \notin Calling(n)' /\ a \notin Carried(n, TRUE)'
      /\ a \notin Carried(n, FALSE)'
  BY <1>1, <1>3, <1>4 DEF Temporary, Calling, Carried, Users
<1>7. UNCHANGED <<life, ref, olock, held, lost>> /\ calls' \in Nat /\ node' = node
  BY DEF BcIncMgr, RefInv, Types, Call
<1>8. JobSound(a)'
  BY <1>1, <1>3, <1>4, <1>7 DEF JobSound
<1> QED BY <1>1, <1>3, <1>4, <1>5, <1>6, <1>7, <1>8, IdleTask, TaskQuiet

\* A BINDER object given back: its node is looked up again, or is gone.
LEMMA UndoBinderOk ==
  ASSUME RefInv, NEW a \in Tasks, UndoBinder(a)
  PROVE  RefInv'
<1>1. JobSound(a) /\ job[a] \in JobType /\ job[a].pc = "sent_binder"
  BY TypeFacts DEF RefInv, UndoBinder
<1>2. PICK n \in Nodes : n = job[a].node
  BY <1>1 DEF JobSound
<1>3. /\ UNCHANGED <<life, ref, olock, held, lost>> /\ calls' \in Nat
      /\ ReleaseBinder(a, n, job[a].strong)
  BY <1>2 DEF UndoBinder, RefInv, Types
<1>4. job[a].next = "sent_binder" /\ a \notin Temporary(n) /\ a \notin Calling(n)
  BY <1>1 DEF JobSound, Temporary, Calling
<1>5. CASE node[n].tree
  <2>1. PICK j : j = [Idle EXCEPT !.pc = "drop", !.node = n, !.strong = job[a].strong]
    OBVIOUS
  <2>2. j \in JobType /\ j.pc = "drop" /\ j.node = n /\ j.next = "idle" /\ j.list = "none" /\ j.strong = job[a].strong
    BY <1>1, <2>1 DEF Idle, JobType
  <2>3. job' = [job EXCEPT ![a] = j] /\ job'[a] = j
    BY <1>3, <1>5, <2>1, NewJob DEF ReleaseBinder
  <2>4. node[n].mem \in {"live", "reap"}
    BY <1>5 DEF RefInv, NodeOk
  <2>5. /\ a \in Temporary(n)' /\ a \notin Calling(n)'
        /\ a \in Carried(n, TRUE)' <=> a \in Carried(n, TRUE)
        /\ a \in Carried(n, FALSE)' <=> a \in Carried(n, FALSE)
    BY <1>1, <1>2, <1>4, <2>2, <2>3 DEF Temporary, Calling, Carried, Users
  <2>6. node' = [node EXCEPT ![n] = [node[n] EXCEPT !.tmp = node[n].tmp + 1]]
    BY <1>3, <1>5 DEF ReleaseBinder, Set
  <2>7. a \in Locals => life[Server] = "open"
    BY <1>1 DEF JobSound
  <2>8. JobSound(a)'
    BY <1>3, <2>2, <2>3, <2>7 DEF JobSound
  <2> QED BY <1>1, <1>2, <1>3, <1>4, <2>2, <2>3, <2>4, <2>5, <2>6, <2>8, TmpUp
<1>6. CASE ~node[n].tree
  <2>1. PICK j : j = Idle
    OBVIOUS
  <2>2. j \in JobType /\ j.pc = "idle" /\ j.node = None /\ j.next = "idle" /\ j.list = "none"
    BY <2>1 DEF Idle, JobType
  <2>3. job' = [job EXCEPT ![a] = j] /\ job'[a] = j /\ node' = node
    BY <1>3, <1>6, <2>1, NewJob DEF ReleaseBinder
  <2>4. a \in Users(n)
    BY <1>1, <1>2 DEF Users
  <2>5. node[n].mem \in {"live", "reap"} \/ node[n].mem = "freed"
    <3>1. node[n].mem \in {"unused", "live", "reap", "freed"} /\ NodeOk(n)
      BY TypeFacts DEF RefInv, NodeType
    <3> QED BY <2>4, <3>1 DEF NodeOk
  <2>6. /\ a \notin Temporary(n)' /\ a \notin Calling(n)' /\ a \notin Carried(n, TRUE)'
        /\ a \notin Carried(n, FALSE)'
    BY <2>2, <2>3 DEF Temporary, Calling, Carried, Users
  <2>7. JobSound(a)'
    BY <2>1, <2>2, <2>3 DEF JobSound
  <2> QED BY <1>1, <1>2, <1>3, <1>4, <1>6, <2>1, <2>2, <2>3, <2>5, <2>6, <2>7, TaskQuiet
<1> QED BY <1>5, <1>6

\* A BINDER object: binder_get_node() finds the node, or a new one is to be made.
LEMMA TranslateBinderOk ==
  ASSUME RefInv, NEW a \in Locals, NEW p \in Ptrs, NEW c \in Clients, NEW strong \in BOOLEAN,
         TranslateBinder(a, p, c, strong)
  PROVE  RefInv'
<1>1. a \in Tasks /\ job[a].pc = "idle" /\ life[Server] = "open" /\ c \in Procs
  BY Marks DEF TranslateBinder, Ready, Procs
<1>2. UNCHANGED <<life, ref, olock, held, lost>> /\ calls' \in Nat
  <2>1. UNCHANGED <<life, ref, olock, held, lost>> /\ calls' = calls + 1
    BY DEF TranslateBinder, Call
  <2>2. calls \in Nat
    BY DEF RefInv, Types
  <2> QED BY <2>1, <2>2
<1>3. PICK i : i = [Idle EXCEPT !.proc = c, !.ptr = p, !.strong = strong, !.list = a, !.next = "sent"]
  OBVIOUS
<1>4. i \in JobType /\ i.proc = c /\ i.ptr = p /\ i.list = a /\ i.next = "sent" /\ i.node = None
  BY <1>1, <1>3 DEF Idle, JobType
<1>5. \/ \E n \in InTree(p) : /\ Set(n, [node[n] EXCEPT !.tmp = @ + 1])
                             /\ Become(a, [i EXCEPT !.pc = "ref", !.node = n])
      \/ node' = node /\ Become(a, [i EXCEPT !.pc = "new"])
  BY <1>3 DEF TranslateBinder
<1>6. ASSUME NEW n \in InTree(p), Set(n, [node[n] EXCEPT !.tmp = @ + 1]),
             Become(a, [i EXCEPT !.pc = "ref", !.node = n])
      PROVE  RefInv'
  <2>1. n \in Nodes /\ node[n].tree
    BY DEF InTree
  <2>2. PICK j : j = [i EXCEPT !.pc = "ref", !.node = n]
    OBVIOUS
  <2>3. /\ j \in JobType /\ j.pc = "ref" /\ j.node = n /\ j.next = "sent" /\ j.list = a /\ j.proc = c
    BY <1>4, <2>1, <2>2 DEF JobType
  <2>4. job' = [job EXCEPT ![a] = j] /\ job'[a] = j
    BY <1>1, <1>6, <2>2, NewJob
  <2>5. node[n].mem \in {"live", "reap"}
    BY <2>1 DEF RefInv, NodeOk
  <2>6. /\ a \in Temporary(n)' /\ a \notin Calling(n)' /\ a \notin Carried(n, TRUE)'
        /\ a \notin Carried(n, FALSE)'
    BY <1>1, <2>3, <2>4 DEF Temporary, Calling, Carried, Users
  <2>7. node' = [node EXCEPT ![n] = [node[n] EXCEPT !.tmp = node[n].tmp + 1]]
    BY <1>6 DEF Set
  <2>8. JobSound(a)'
    BY <1>1, <1>2, <2>1, <2>3, <2>4 DEF JobSound
  <2> QED BY <1>1, <1>2, <2>1, <2>3, <2>4, <2>5, <2>6, <2>7, <2>8, IdleTask, TmpUp
<1>7. ASSUME node' = node, Become(a, [i EXCEPT !.pc = "new"])
      PROVE  RefInv'
  <2>1. PICK j : j = [i EXCEPT !.pc = "new"]
    OBVIOUS
  <2>2. /\ j \in JobType /\ j.pc = "new" /\ j.node = None /\ j.next = "sent" /\ j.list = a /\ j.proc = c
        /\ j.ptr = p
    BY <1>4, <2>1 DEF JobType
  <2>3. job' = [job EXCEPT ![a] = j] /\ job'[a] = j
    BY <1>1, <1>7, <2>1, NewJob
  <2>4. JobSound(a)'
    BY <1>1, <1>2, <2>2, <2>3 DEF JobSound
  <2>5. PICK e : node' = [node EXCEPT ![None] = e]
    BY <1>7, Marks DEF RefInv, Types, TypeOK
  <2>6. job[a].node \in {None} /\ j.node \in {None}
    BY <1>1, <2>2, IdleTask
  <2>7. Moves(a, Server, None)
    BY ONLY RefInv, <1>1, <1>2, <2>2, <2>3, <2>5, <2>6, TaskMoves
  <2> QED BY <1>1, <2>4, <2>7, Marks, OneStep
<1> QED BY <1>5, <1>6, <1>7

\* A new node, for its first task: its record is sound.
LEMMA NewNodeSound ==
  ASSUME RefInv, NEW a \in Tasks, NEW n \in Nodes, node[n].mem = "unused", life[Server] = "open",
         Moves(a, Server, n), ref' = ref, held' = held, NEW d, d = node'[n], d \in NodeType,
         d.mem = "live" /\ d.proc /\ d.tree /\ d.internal = 0 /\ d.tmp = 1 /\ d.work = "none",
         d.strong = One(d.mgr) /\ d.weak = One(d.mgr) /\ ~d.pend_s /\ ~d.pend_w /\ (d.has_s => d.has_w),
         job'[a].node = n, job'[a].pc # "release", job[a].pc # "release",
         a \in Temporary(n)', a \notin Calling(n)', a \notin Carried(n, TRUE)', a \notin Carried(n, FALSE)'
  PROVE  NodeOk(n)'
<1>1. NodeOk(n) /\ life' = life /\ \A b \in Tasks : b # a => job'[b] = job[b]
  BY DEF RefInv, Moves
<1>2. Users(n) = {} /\ Refs(n) = {} /\ held[n] = NoHeld
  BY <1>1 DEF NodeOk
<1>3. Refs(n)' = {} /\ held'[n] = NoHeld
  BY <1>2 DEF Refs
<1>4. StrongRefs(n)' = {} /\ ~Counted(n)'
  <2>1. \A p \in Procs : ref'[p][n] = NoRef
    BY <1>3 DEF Refs
  <2> QED BY <2>1 DEF StrongRefs, Counted, NoRef
<1>5. \A b \in Tasks : b # a => b \notin Users(n)'
  BY <1>1, <1>2 DEF Users
<1>6. Temporary(n)' = {a} /\ Calling(n)' = {} /\ Carried(n, TRUE)' = {} /\ Carried(n, FALSE)' = {}
  BY <1>5 DEF Temporary, Calling, Carried, Users
<1>7. Cardinality(StrongRefs(n)') = 0 /\ Cardinality(Temporary(n)') = 1
  BY <1>4, <1>6, FS_EmptySet, FS_Singleton
<1>8. LocalStrong(n)' = 0 /\ LocalWeak(n)' = 0
  <2>1. /\ Cardinality(Calling(n)') = 0 /\ Cardinality(Carried(n, TRUE)') = 0
        /\ Cardinality(Carried(n, FALSE)') = 0
    BY <1>6, FS_EmptySet
  <2>2. held'[n].target = 0 /\ held'[n].strong = 0 /\ held'[n].weak = 0
    BY <1>3 DEF NoHeld
  <2>3. /\ LocalStrong(n)' = held'[n].target + held'[n].strong + Cardinality(Calling(n)')
                             + Cardinality(Carried(n, TRUE)')
        /\ LocalWeak(n)' = held'[n].weak + Cardinality(Carried(n, FALSE)')
    BY DEF LocalStrong, LocalWeak
  <2>4. PICK x, y, z : x = Cardinality(Calling(n)') /\ y = Cardinality(Carried(n, TRUE)')
                       /\ z = Cardinality(Carried(n, FALSE)')
    OBVIOUS
  <2>5. x = 0 /\ y = 0 /\ z = 0
    BY <2>1, <2>4
  <2>6. LocalStrong(n)' = held'[n].target + held'[n].strong + x + y /\ LocalWeak(n)' = held'[n].weak + z
    BY <2>3, <2>4
  <2> QED BY ONLY <2>2, <2>5, <2>6
<1>9. ~Erased(n)'
  <2>1. JobSound(Worker)
    BY Marks DEF RefInv
  <2>2. ~Erased(n)
    BY <2>1 DEF Erased, JobSound
  <2>3. Erased(n)' = Erased(n)
    BY <1>1, ErasedSame
  <2> QED BY <2>2, <2>3
<1>10. Sound(d, Refs(n)', Cardinality(StrongRefs(n))', Cardinality(Temporary(n))', LocalStrong(n)',
             LocalWeak(n)', life'[Server] = "open", Erased(n)', Counted(n)', lost'[n])
  BY <1>1, <1>3, <1>4, <1>7, <1>8, <1>9 DEF Sound, One
<1>11. Kept(d, Refs(n)', lost'[n])
  BY DEF Kept, Unused
<1>12. Told(d)
  BY DEF Told
<1> QED BY <1>3, <1>10, <1>11, <1>12 DEF NodeOk, Sound, Kept

\* binder_init_node_ilocked(): a new node, or the one that another thread made.
LEMMA NewNodeOk ==
  ASSUME RefInv, NEW a \in Locals, NEW n \in Nodes, NewNode(a, n)
  PROVE  RefInv'
<1>1. a \in Tasks /\ job[a].pc = "new" /\ JobSound(a) /\ job[a] \in JobType
  BY Marks, TypeFacts DEF NewNode, RefInv
<1>2. job[a].node = None /\ job[a].ptr \in Ptrs /\ job[a].next = "sent" /\ life[Server] = "open"
      /\ job[a].proc \in Procs /\ (job[a].list # "none" => job[a].list = a)
  BY <1>1 DEF JobSound
<1>3. UNCHANGED <<life, ref, olock, held, lost>> /\ calls' \in Nat
  BY DEF NewNode, RefInv, Types
<1>4. PICK j : j = [job[a] EXCEPT !.pc = "ref", !.node = n]
  OBVIOUS
<1>5. /\ j \in JobType /\ j.pc = "ref" /\ j.node = n /\ j.next = "sent" /\ j.list = job[a].list
      /\ j.proc \in Procs
  BY <1>1, <1>2, <1>4 DEF JobType
<1>6. job' = [job EXCEPT ![a] = j] /\ job'[a] = j
  BY <1>1, <1>4, NewJob DEF NewNode
<1>7. /\ a \in Temporary(n)' /\ a \notin Calling(n)' /\ a \notin Carried(n, TRUE)'
      /\ a \notin Carried(n, FALSE)'
  BY <1>1, <1>5, <1>6 DEF Temporary, Calling, Carried, Users
<1>8. /\ a \notin Temporary(n) /\ a \notin Calling(n) /\ a \notin Carried(n, TRUE)
      /\ a \notin Carried(n, FALSE)
  BY <1>1, <1>2, Marks DEF Temporary, Calling, Carried, Users
<1>9. JobSound(a)'
  BY <1>1, <1>2, <1>3, <1>5, <1>6 DEF JobSound
<1>10. CASE n \in InTree(job[a].ptr) /\ Set(n, [node[n] EXCEPT !.tmp = @ + 1])
  <2>1. node[n].mem \in {"live", "reap"}
    BY <1>10 DEF RefInv, NodeOk, InTree
  <2>2. node' = [node EXCEPT ![n] = [node[n] EXCEPT !.tmp = node[n].tmp + 1]]
    BY <1>10 DEF Set
  <2> QED BY <1>1, <1>2, <1>3, <1>5, <1>6, <1>7, <1>8, <1>9, <2>1, <2>2, TmpUp
<1>11. CASE InTree(job[a].ptr) = {} /\ node[n].mem = "unused" /\ Set(n, NewNodeOf(job[a].ptr))
  <2>1. PICK d : d = NewNodeOf(job[a].ptr)
    OBVIOUS
  <2>2. /\ d \in NodeType /\ d.mem = "live" /\ d.proc /\ d.tree /\ d.internal = 0 /\ d.tmp = 1
        /\ d.work = "none" /\ d.strong = 0 /\ d.weak = 0 /\ ~d.mgr /\ ~d.pend_s /\ ~d.pend_w /\ ~d.has_s
        /\ d.ptr = job[a].ptr
    <3>1. PICK p \in Ptrs : p = job[a].ptr
      BY <1>2
    <3>2. d = [mem |-> "live", ptr |-> p, proc |-> TRUE, tree |-> TRUE, mgr |-> FALSE,
               internal |-> 0, strong |-> 0, weak |-> 0, tmp |-> 1, work |-> "none",
               has_s |-> FALSE, has_w |-> FALSE, pend_s |-> FALSE, pend_w |-> FALSE]
      BY <2>1, <3>1 DEF NewNodeOf, NoNode
    <3>3. d \in NodeType
      BY <3>2 DEF NodeType
    <3> QED BY <3>1, <3>2, <3>3
  <2>3. node' = [node EXCEPT ![n] = d]
    BY <1>11, <2>1 DEF Set
  <2>9. a \in Tasks /\ j \in JobType /\ job[a].node \in {n, None} /\ j.node \in {n, None}
    BY <1>1, <1>2, <1>5
  <2>10. job' = [job EXCEPT ![a] = j]
    BY <1>6
  <2>4. Moves(a, Server, n) /\ node'[n] = d
    BY ONLY RefInv, n \in Nodes, <1>3, <2>3, <2>9, <2>10, TaskMoves
  <2>5. NodeOk(n)'
    BY <1>1, <1>2, <1>3, <1>5, <1>6, <1>7, <1>11, <2>2, <2>4, NewNodeSound DEF One
  <2>6. \A m \in Nodes : m # n /\ node[m].tree => node[m].ptr # d.ptr
    BY <1>11, <2>2 DEF InTree
  <2>7. ~node[n].mgr
    <3>1. NodeOk(n)
      BY DEF RefInv
    <3>2. node[n] = NoNode
      BY <1>11, <3>1 DEF NodeOk
    <3> QED BY <3>2 DEF NoNode
  <2>8. ref'[Server][n] = ref[Server][n] /\ (ref[Server][n].desc = -1 => ref[Server][n] = NoRef)
    BY <1>3, Marks DEF RefInv, RefsSound
  <2> QED BY <1>1, <1>9, <2>2, <2>4, <2>5, <2>6, <2>7, <2>8, Marks, OneStep
<1> QED BY <1>10, <1>11 DEF NewNode, InitNode

\* BINDER_SET_CONTEXT_MGR, with a node that exists or a new one.
LEMMA SetContextMgrOk ==
  ASSUME RefInv, NEW a \in Locals, NEW n \in Nodes, SetContextMgr(a, n)
  PROVE  RefInv'
<1>1. a \in Tasks /\ job[a].pc = "idle" /\ life[Server] = "open" /\ ~node[n].mgr
  BY Marks DEF SetContextMgr, Ready
<1>2. UNCHANGED <<life, ref, olock, held, lost>> /\ calls' \in Nat
  <2>1. UNCHANGED <<life, ref, olock, held, lost>> /\ calls' = calls + 1
    BY DEF SetContextMgr, Call
  <2>2. calls \in Nat
    BY DEF RefInv, Types
  <2> QED BY <2>1, <2>2
<1>3. PICK j : j = [Idle EXCEPT !.pc = "put", !.node = n, !.next = "mgr"]
  OBVIOUS
<1>4. j \in JobType /\ j.pc = "put" /\ j.node = n /\ j.next = "mgr" /\ j.list = "none"
  BY <1>3 DEF Idle, JobType
<1>5. job' = [job EXCEPT ![a] = j] /\ job'[a] = j /\ \A b \in Tasks : b # a => job'[b] = job[b]
  BY <1>1, <1>3, NewJob DEF SetContextMgr
<1>6. /\ a \in Temporary(n)' /\ a \notin Calling(n)' /\ a \notin Carried(n, TRUE)'
      /\ a \notin Carried(n, FALSE)'
  BY <1>1, <1>4, <1>5 DEF Temporary, Calling, Carried, Users
<1>7. /\ a \notin Temporary(n) /\ a \notin Calling(n) /\ a \notin Carried(n, TRUE)
      /\ a \notin Carried(n, FALSE) /\ job[a].node = None /\ job[a].pc # "release"
  BY <1>1, IdleTask
<1>8. JobSound(a)'
  BY <1>1, <1>2, <1>4, <1>5 DEF JobSound
<1>9. job[a].node \in {n, None} /\ j.node \in {n, None} /\ j \in JobType /\ a \in Tasks
      /\ job' = [job EXCEPT ![a] = j]
  BY <1>1, <1>4, <1>5, <1>7
<1>10. CASE n \in InTree(Mgr)
  <2>1. node[n].mem \in {"live", "reap"} /\ node[n].tree /\ NodeOk(n)
    BY <1>10 DEF RefInv, NodeOk, InTree
  <2>2. PICK d : /\ node' = [node EXCEPT ![n] = d]
                 /\ d = [[node[n] EXCEPT !.tmp = node[n].tmp + 1]
                           EXCEPT !.weak = @ + 1, !.strong = @ + 1, !.has_s = TRUE, !.has_w = TRUE, !.mgr = TRUE]
    BY <1>10 DEF SetContextMgr, Set
  <2>3. /\ node[n] \in NodeType /\ node[n].tmp \in Nat /\ node[n].weak \in Int /\ node[n].strong \in Int
        /\ node[n].internal \in Nat
    BY <2>1, LiveFacts DEF NodeType
  <2>4. d = [node[n] EXCEPT !.tmp = node[n].tmp + 1, !.weak = node[n].weak + 1, !.strong = node[n].strong + 1,
                            !.has_s = TRUE, !.has_w = TRUE, !.mgr = TRUE]
    BY <2>2, <2>3 DEF NodeType
  <2>5. node[n].tmp + 1 \in Nat /\ node[n].weak + 1 \in Int /\ node[n].strong + 1 \in Int
    BY <2>3
  <2>6. d \in NodeType
    BY <2>3, <2>4, <2>5 DEF NodeType
  <2>7. /\ d.tmp = node[n].tmp + 1 /\ d.weak = node[n].weak + 1 /\ d.strong = node[n].strong + 1
        /\ d.has_s /\ d.has_w /\ d.mgr /\ d.mem = node[n].mem /\ d.proc = node[n].proc
        /\ d.tree = node[n].tree /\ d.ptr = node[n].ptr /\ d.internal = node[n].internal
        /\ d.work = node[n].work /\ d.pend_s = node[n].pend_s /\ d.pend_w = node[n].pend_w
    BY <2>3, <2>4 DEF NodeType
  <2>8. TaskCounts(d, a, n)
    <3>1. d.tmp = node[n].tmp + One(a \in Temporary(n)') - One(a \in Temporary(n))
      BY <1>6, <1>7, <2>3, <2>7 DEF One
    <3>2. held[n].target \in Nat /\ held[n].strong \in Nat /\ held[n].weak \in Nat /\ held' = held
      BY <1>2, TypeFacts DEF RefInv, HeldType
    <3>3. /\ d.strong - One(d.pend_s) - One(d.mgr) = node[n].strong - One(node[n].pend_s) - One(node[n].mgr)
          /\ d.weak - One(d.pend_w) - One(d.mgr) = node[n].weak - One(node[n].pend_w) - One(node[n].mgr)
      BY <1>1, <2>3, <2>7 DEF One
    <3> QED BY <1>6, <1>7, <2>3, <2>7, <3>1, <3>2, <3>3 DEF TaskCounts, One
  <2>9. Counts(d, a, Server, n)
    <3>1. One(ref[Server][n].strong > 0) \in Nat
      BY OneInt
    <3> QED BY <1>2, <2>3, <2>7, <2>8, <3>1 DEF Counts
  <2>10. Erased(n)' = Erased(n)
    BY <1>1, <1>4, <1>5, <1>7, ErasedSame
  <2>11. node[n].work # "none" => node[n].proc
    BY <2>1, LiveFacts
  <2>12. node[n].proc
    BY <1>1, <2>1, OpenTree
  <2>13. Refs(n)' = Refs(n)
    BY <1>2 DEF Refs
  <2>14. Fits(d, a, Server, n)
    <3>1. Told(d)
      BY <2>7 DEF Told
    <3> QED BY <2>6, <2>7, <2>9, <2>10, <2>12, <2>13, <3>1 DEF Fits
  <2>15. Kept(d, Refs(n), lost[n])
    BY <2>3, <2>7 DEF Kept, Unused
  <2> HIDE <2>2
  <2>16. node' = [node EXCEPT ![n] = d]
    BY <2>2
  <2> QED BY ONLY RefInv, n \in Nodes, <1>2, <1>8, <1>9, <2>1, <2>14, <2>15, <2>16, TaskKeeps
<1>11. CASE n \notin InTree(Mgr)
  <2>0. InTree(Mgr) = {} /\ node[n].mem = "unused"
    BY <1>11 DEF SetContextMgr
  <2>1. PICK d : /\ node' = [node EXCEPT ![n] = d]
                 /\ d = [NewNodeOf(Mgr) EXCEPT !.weak = @ + 1, !.strong = @ + 1, !.has_s = TRUE, !.has_w = TRUE,
                                               !.mgr = TRUE]
    BY <1>11 DEF SetContextMgr, Set
  <2>2. d = [mem |-> "live", ptr |-> Mgr, proc |-> TRUE, tree |-> TRUE, mgr |-> TRUE,
             internal |-> 0, strong |-> 1, weak |-> 1, tmp |-> 1, work |-> "none",
             has_s |-> TRUE, has_w |-> TRUE, pend_s |-> FALSE, pend_w |-> FALSE]
    <3>1. PICK p, e : p = Mgr /\ e = NewNodeOf(p)
      OBVIOUS
    <3>2. e = [mem |-> "live", ptr |-> p, proc |-> TRUE, tree |-> TRUE, mgr |-> FALSE,
               internal |-> 0, strong |-> 0, weak |-> 0, tmp |-> 1, work |-> "none",
               has_s |-> FALSE, has_w |-> FALSE, pend_s |-> FALSE, pend_w |-> FALSE]
      BY <3>1 DEF NewNodeOf, NoNode
    <3>3. d = [e EXCEPT !.weak = @ + 1, !.strong = @ + 1, !.has_s = TRUE, !.has_w = TRUE, !.mgr = TRUE]
      BY <2>1, <3>1
    <3>4. e.weak + 1 = 1 /\ e.strong + 1 = 1
      BY <3>2
    <3>5. d = [e EXCEPT !.weak = 1, !.strong = 1, !.has_s = TRUE, !.has_w = TRUE, !.mgr = TRUE]
      BY <3>3, <3>4
    <3>6. d = [mem |-> "live", ptr |-> p, proc |-> TRUE, tree |-> TRUE, mgr |-> TRUE,
             internal |-> 0, strong |-> 1, weak |-> 1, tmp |-> 1, work |-> "none",
             has_s |-> TRUE, has_w |-> TRUE, pend_s |-> FALSE, pend_w |-> FALSE]
      BY <3>2, <3>5
    <3> QED BY <3>1, <3>6
  <2>3. d \in NodeType
    BY <2>2 DEF NodeType
  <2>4. /\ d.mem = "live" /\ d.proc /\ d.tree /\ d.internal = 0 /\ d.tmp = 1 /\ d.work = "none"
        /\ d.strong = 1 /\ d.weak = 1 /\ d.mgr /\ ~d.pend_s /\ ~d.pend_w /\ d.has_w /\ d.ptr = Mgr
    BY <2>2
  <2>5. node' = [node EXCEPT ![n] = d]
    BY <2>1
  <2>6. Moves(a, Server, n) /\ node'[n] = d
    BY ONLY RefInv, n \in Nodes, <1>2, <1>9, <2>5, TaskMoves
  <2>7. d.strong = One(d.mgr) /\ d.weak = One(d.mgr)
    BY <2>4 DEF One
  <2>8. NodeOk(n)'
    BY <1>1, <1>2, <1>4, <1>5, <1>6, <1>7, <2>0, <2>3, <2>4, <2>6, <2>7, NewNodeSound
  <2>9. \A m \in Nodes : m # n /\ node[m].tree => node[m].ptr # d.ptr
    BY <2>0, <2>4 DEF InTree
  <2>10. ref'[Server][n] = ref[Server][n] /\ (ref[Server][n].desc = -1 => ref[Server][n] = NoRef)
    BY <1>2, Marks DEF RefInv, RefsSound
  <2> QED BY <1>1, <1>8, <2>3, <2>4, <2>6, <2>8, <2>9, <2>10, Marks, OneStep
<1> QED BY <1>10, <1>11

\* binder_node_release() begins: the node is off the tree and the worker has it.
LEMMA EraseNodeOk ==
  ASSUME RefInv, NEW n \in Nodes, EraseNode(n)
  PROVE  RefInv'
<1>1. Worker \in Tasks /\ Worker \notin Locals /\ job[Worker].pc = "idle" /\ life[Server] = "releasing" /\ node[n].tree
  BY Marks DEF EraseNode
<1>2. UNCHANGED <<life, ref, olock, held, lost>> /\ calls' \in Nat
  BY DEF EraseNode, RefInv, Types
<1>3. PICK j : j = [Idle EXCEPT !.pc = "release", !.node = n]
  OBVIOUS
<1>4. j \in JobType /\ j.pc = "release" /\ j.node = n /\ j.next = "idle" /\ j.list = "none"
  BY <1>3 DEF Idle, JobType
<1>5. job' = [job EXCEPT ![Worker] = j] /\ job'[Worker] = j
  BY <1>1, <1>3, NewJob DEF EraseNode
<1>6. Worker \in Temporary(n)'
  BY <1>1, <1>4, <1>5 DEF Temporary, Users
<1>7. Worker \notin Temporary(n) /\ job[Worker].node = None
  BY <1>1, IdleTask
<1>8. JobSound(Worker)'
  BY <1>1, <1>2, <1>4, <1>5 DEF JobSound
<1>9. /\ node[n].mem = "live" /\ node[n].proc /\ NodeOk(n)
  BY <1>1 DEF RefInv, NodeOk, Sound
<1>10. PICK d : node' = [node EXCEPT ![n] = d] /\ d = [node[n] EXCEPT !.tmp = @ + 1, !.tree = FALSE]
  BY DEF EraseNode, Set
<1>11. node[n] \in NodeType /\ node[n].tmp \in Nat /\ node[n].tmp + 1 \in Nat /\ node[n].internal \in Nat
  BY <1>9, LiveFacts DEF NodeType
<1>12. d \in NodeType
  BY <1>10, <1>11 DEF NodeType
<1>13. /\ d.tmp = node[n].tmp + 1 /\ ~d.tree /\ d.mem = "live" /\ d.proc /\ d.internal = node[n].internal
       /\ d.work = node[n].work /\ d.has_s = node[n].has_s /\ d.has_w = node[n].has_w /\ d.mgr = node[n].mgr
       /\ d.pend_s = node[n].pend_s /\ d.pend_w = node[n].pend_w
  BY <1>9, <1>10, <1>11 DEF NodeType
<1>14. Counts(d, Worker, Server, n)
  <2>1. One(ref[Server][n].strong > 0) \in Nat
    BY OneInt
  <2>2. d.tmp = node[n].tmp + One(Worker \in Temporary(n)') - One(Worker \in Temporary(n))
    BY <1>6, <1>7, <1>11, <1>13 DEF One
  <2>3. d.internal = node[n].internal + One(ref'[Server][n].strong > 0) - One(ref[Server][n].strong > 0)
    BY <1>2, <1>11, <1>13, <2>1
  <2>4. TaskCounts(d, Worker, n)
    BY <1>13, <2>2 DEF TaskCounts
  <2> QED BY <2>3, <2>4 DEF Counts
<1>15. node' = [node EXCEPT ![n] = d]
  BY <1>10
<1>16. Worker \in Tasks /\ j \in JobType /\ job[Worker].node \in {n, None} /\ j.node \in {n, None}
       /\ job' = [job EXCEPT ![Worker] = j]
  BY <1>1, <1>4, <1>5, <1>7
<1>17. Moves(Worker, Server, n) /\ node'[n] = d /\ Refs(n)' = Refs(n) /\ Counted(n)' = Counted(n)
  BY ONLY RefInv, n \in Nodes, <1>2, <1>15, <1>16, TaskMoves
<1>18. d.internal = Cardinality(StrongRefs(n))' /\ d.tmp = Cardinality(Temporary(n))'
  BY <1>1, <1>9, <1>12, <1>13, <1>14, <1>17, Marks, NewCounts
<1>19. Erased(n)' /\ life'[Server] # "open"
  BY <1>1, <1>2, <1>4, <1>5 DEF Erased
<1>20. d.proc /\ d.work = "none" /\ ~lost'[n] =>
         (d.internal > 0 => d.has_s) /\ (Counted(n)' => d.has_w)
  BY <1>2, <1>9, <1>13, <1>17, LiveFacts
<1>21. Kept(d, Refs(n)', lost'[n])
  BY <1>11, <1>13 DEF Kept, Unused
<1>22. Sound(d, Refs(n)', Cardinality(StrongRefs(n))', Cardinality(Temporary(n))', LocalStrong(n)',
             LocalWeak(n)', life'[Server] = "open", Erased(n)', Counted(n)', lost'[n])
  BY <1>13, <1>18, <1>19, <1>20 DEF Sound
<1>23. Told(d)
  <2>1. Told(node[n]) /\ d.pend_s = node[n].pend_s /\ d.pend_w = node[n].pend_w
    BY <1>9, <1>13, LiveFacts
  <2> QED BY <1>13, <2>1 DEF Told
<1>24. NodeOk(n)'
  BY <1>13, <1>17, <1>19, <1>21, <1>22, <1>23 DEF NodeOk, Sound, Kept
<1>25. ref'[Server][n] = ref[Server][n] /\ (ref[Server][n].desc = -1 => ref[Server][n] = NoRef)
  BY <1>2, Marks DEF RefInv, RefsSound
<1> QED BY <1>1, <1>8, <1>12, <1>13, <1>17, <1>24, <1>25, Marks, OneStep

-----------------------------------------------------------------------------
(* Local counts.                                                           *)

\* The record with other local counts.
LEMMA LocalRecord ==
  ASSUME NEW d \in NodeType, NEW x \in Int, NEW y \in Int, NEW e, e = WithLocals(d, x, y)
  PROVE  /\ e \in NodeType /\ Alike(e, d) /\ e.strong = x /\ e.weak = y /\ e.tmp = d.tmp
         /\ e.pend_s = d.pend_s /\ e.pend_w = d.pend_w
BY DEF NodeType, Alike, WithLocals

\* Counts change together with what the task and the buffers have of the node.
LEMMA RecordFits ==
  ASSUME RefInv, NEW a \in Tasks, NEW n \in Nodes, node[n].mem = "live", ref' = ref,
         NEW x \in Int, NEW y \in Int, LocalsMove(a, n, x, y),
         NEW e \in NodeType, Alike(e, node[n]), LocalsAre(e, node[n], x, y), TmpPart(a, n, e.tmp),
         held' \in [Nodes -> HeldType], Erased(n)' = Erased(n), ~node[n].proc => held'[n] = NoHeld
  PROVE  Fits(e, a, Server, n) /\ e.mem = "live"
<1>1. node[n] \in NodeType
  BY LiveFacts
<1>3. TaskCounts(e, a, n)
  <2>1. e.tmp = node[n].tmp + One(a \in Temporary(n)') - One(a \in Temporary(n))
    BY DEF TmpPart
  <2>2. PICK s \in Int, w \in Int : s = node[n].strong /\ w = node[n].weak
    BY <1>1 DEF NodeType
  <2>3. PICK x1 \in Int, x2 \in Int, x3 \in Int, y1 \in Int, y2 \in Int, y3 \in Int :
          /\ x1 = held'[n].target /\ x2 = held'[n].strong /\ x3 = held'[n].weak
          /\ y1 = held[n].target /\ y2 = held[n].strong /\ y3 = held[n].weak
    <3>1. held[n].target \in Int /\ held[n].strong \in Int /\ held[n].weak \in Int
      BY TypeFacts DEF RefInv, HeldType
    <3>2. held'[n].target \in Int /\ held'[n].strong \in Int /\ held'[n].weak \in Int
      BY DEF HeldType
    <3> QED BY <3>1, <3>2
  <2>4. PICK p1 \in Int, p2 \in Int, p3 \in Int, q1 \in Int, q2 \in Int, q3 \in Int :
         /\ p1 = One(a \in Calling(n)') /\ q1 = One(a \in Calling(n))
         /\ p2 = One(a \in Carried(n, TRUE)') /\ q2 = One(a \in Carried(n, TRUE))
         /\ p3 = One(a \in Carried(n, FALSE)') /\ q3 = One(a \in Carried(n, FALSE))
    <3>1. One(a \in Calling(n)') \in Int /\ One(a \in Carried(n, TRUE)') \in Int
          /\ One(a \in Carried(n, FALSE)') \in Int
      BY OneInt
    <3>2. One(a \in Calling(n)) \in Int /\ One(a \in Carried(n, TRUE)) \in Int
          /\ One(a \in Carried(n, FALSE)) \in Int
      BY OneInt
    <3> QED BY <3>1, <3>2
  <2>5. PICK u1 \in Int, u2 \in Int, u3 \in Int, v1 \in Int, v2 \in Int, f \in Int, g \in Int :
          /\ u1 = One(node[n].pend_s) /\ u2 = One(node[n].pend_w) /\ u3 = One(node[n].mgr)
          /\ v1 = One(e.pend_s) /\ v2 = One(e.pend_w) /\ f = e.strong /\ g = e.weak
    <3>1. /\ One(node[n].pend_s) \in Int /\ One(node[n].pend_w) \in Int /\ One(node[n].mgr) \in Int
          /\ One(e.pend_s) \in Int /\ One(e.pend_w) \in Int
      BY OneInt
    <3>2. e.strong \in Int /\ e.weak \in Int
      BY DEF NodeType
    <3> QED BY <3>1, <3>2
  <2>9. f - v1 = x - u1 /\ g - v2 = y - u2
    BY <2>5 DEF LocalsAre
  <2>6. node[n].tree =>
          /\ x - x1 - x2 - p1 - p2 = s - y1 - y2 - q1 - q2
          /\ y - x3 - p3 = w - y3 - q3
    BY <2>2, <2>3, <2>4 DEF LocalsMove
  <2>7. node[n].tree =>
          /\ f - v1 - u3 - x1 - x2 - p1 - p2 = s - u1 - u3 - y1 - y2 - q1 - q2
          /\ g - v2 - u3 - x3 - p3 = w - u2 - u3 - y3 - q3
    <3>1. /\ x - x1 - x2 - p1 - p2 = s - y1 - y2 - q1 - q2
            => f - v1 - u3 - x1 - x2 - p1 - p2 = s - u1 - u3 - y1 - y2 - q1 - q2
          /\ y - x3 - p3 = w - y3 - q3 => g - v2 - u3 - x3 - p3 = w - u2 - u3 - y3 - q3
      BY ONLY <2>9, v1 \in Int, v2 \in Int, f \in Int, g \in Int, x \in Int, y \in Int, s \in Int, w \in Int, x1 \in Int, x2 \in Int, x3 \in Int,
              y1 \in Int, y2 \in Int, y3 \in Int, p1 \in Int, p2 \in Int, p3 \in Int, q1 \in Int,
              q2 \in Int, q3 \in Int, u1 \in Int, u2 \in Int, u3 \in Int
    <3> QED BY <2>6, <3>1
  <2>8. e.tree =>
          /\ e.strong - One(e.pend_s) - One(e.mgr) - held'[n].target - held'[n].strong
               - One(a \in Calling(n)') - One(a \in Carried(n, TRUE)')
             = node[n].strong - One(node[n].pend_s) - One(node[n].mgr) - held[n].target
               - held[n].strong - One(a \in Calling(n)) - One(a \in Carried(n, TRUE))
          /\ e.weak - One(e.pend_w) - One(e.mgr) - held'[n].weak - One(a \in Carried(n, FALSE)')
             = node[n].weak - One(node[n].pend_w) - One(node[n].mgr) - held[n].weak
               - One(a \in Carried(n, FALSE))
    <3>1. e.mgr = node[n].mgr /\ e.tree = node[n].tree
      BY DEF Alike
    <3> QED BY <2>2, <2>3, <2>4, <2>5, <2>7, <3>1
  <2> QED BY <2>1, <2>8 DEF TaskCounts
<1>4. Fits(e, a, Server, n)
  BY <1>3, TaskFits
<1> QED BY <1>4 DEF Alike

\* Local counts change together with what the task and the buffers have of the node.
LEMMA LocalFits ==
  ASSUME RefInv, NEW a \in Tasks, NEW n \in Nodes, node[n].mem = "live", ref' = ref,
         NEW x \in Int, NEW y \in Int, NEW e, e = WithLocals(node[n], x, y),
         a \in Temporary(n)' <=> a \in Temporary(n),
         LocalsMove(a, n, x, y),
         held' \in [Nodes -> HeldType], Erased(n)' = Erased(n), ~node[n].proc => held'[n] = NoHeld
  PROVE  Fits(e, a, Server, n) /\ e.mem = "live" /\ e.tmp = node[n].tmp
<1>1. node[n] \in NodeType
  BY LiveFacts
<1>2. /\ e \in NodeType /\ Alike(e, node[n]) /\ e.strong = x /\ e.weak = y /\ e.tmp = node[n].tmp
      /\ e.pend_s = node[n].pend_s /\ e.pend_w = node[n].pend_w
  BY <1>1, LocalRecord
<1>3. LocalsAre(e, node[n], x, y)
  BY <1>2 DEF LocalsAre
<1>4. TmpPart(a, n, e.tmp)
  BY <1>1, <1>2 DEF TmpPart, One, NodeType
<1> QED BY <1>2, <1>3, <1>4, RecordFits

\* What binder_dec_node() does to a local count, before the node is settled.
LEMMA DecLocal ==
  ASSUME NEW d \in NodeType, NEW strong \in BOOLEAN, NEW refs
  PROVE  /\ strong => DecNode(d, strong, FALSE, refs) =
                        Settle(WithLocals(d, d.strong - 1, d.weak), strong, refs)
         /\ ~strong => DecNode(d, strong, FALSE, refs) =
                        Settle(WithLocals(d, d.strong, d.weak - 1), strong, refs)
<1>1. /\ [d EXCEPT !.strong = d.strong - 1] = [d EXCEPT !.strong = d.strong - 1, !.weak = d.weak]
      /\ [d EXCEPT !.weak = d.weak - 1] = [d EXCEPT !.strong = d.strong, !.weak = d.weak - 1]
  BY DEF NodeType
<1> QED BY <1>1 DEF DecNode, WithLocals

\* What binder_inc_node() does to a local count when there is no todo list to use.
LEMMA IncLocal ==
  ASSUME NEW d \in NodeType, NEW strong \in BOOLEAN
  PROVE  /\ strong => IncNode(d, strong, FALSE, "none") = WithLocals(d, d.strong + 1, d.weak)
         /\ ~strong => IncNode(d, strong, FALSE, "none") = WithLocals(d, d.strong, d.weak + 1)
<1>1. /\ [d EXCEPT !.strong = d.strong + 1] = [d EXCEPT !.strong = d.strong + 1, !.weak = d.weak]
      /\ [d EXCEPT !.weak = d.weak + 1] = [d EXCEPT !.strong = d.strong, !.weak = d.weak + 1]
  BY DEF NodeType
<1> QED BY <1>1 DEF IncNode, IncFails, WithLocals

\* A BINDER object's local count is given back.
LEMMA DropOk ==
  ASSUME RefInv, NEW a \in Tasks, Drop(a)
  PROVE  RefInv'
<1>1. JobSound(a) /\ job[a] \in JobType /\ job[a].pc = "drop" /\ job[a].strong \in BOOLEAN
  BY TypeFacts DEF RefInv, Drop, JobType
<1>2. PICK n \in Nodes : n = job[a].node
  BY <1>1 DEF JobSound
<1>3. PICK strong \in BOOLEAN : strong = job[a].strong
  BY <1>1
<1>4. UNCHANGED <<life, ref, olock, held, lost>> /\ calls' \in Nat /\ node[n].mem = "live"
  BY <1>2 DEF Drop, RefInv, Types, Unlocked
<1>5. PICK j : j = [job[a] EXCEPT !.pc = "put"]
  OBVIOUS
<1>6. /\ j \in JobType /\ j.pc = "put" /\ j.node = n /\ j.next = "idle" /\ j.list = job[a].list
      /\ job[a].next = "idle"
  BY <1>1, <1>2, <1>5 DEF JobType, JobSound
<1>7. job' = [job EXCEPT ![a] = j] /\ job'[a] = j /\ \A b \in Tasks : b # a => job'[b] = job[b]
  BY <1>5, NewJob DEF Drop
<1>8. /\ a \in Temporary(n) /\ a \in Temporary(n)'
      /\ a \notin Calling(n)' /\ a \notin Calling(n)
      /\ a \notin Carried(n, TRUE)' /\ a \notin Carried(n, FALSE)'
      /\ a \in Carried(n, TRUE) <=> strong
      /\ a \in Carried(n, FALSE) <=> ~strong
  BY <1>1, <1>2, <1>3, <1>6, <1>7 DEF Temporary, Calling, Carried, Users
<1>9. JobSound(a)'
  BY <1>1, <1>4, <1>6, <1>7 DEF JobSound
<1>10. Erased(n)' = Erased(n)
  BY <1>1, <1>6, <1>7, ErasedSame
<1>11. node[n] \in NodeType /\ node[n].strong \in Int /\ node[n].weak \in Int
       /\ (~node[n].proc => held[n] = NoHeld)
  BY <1>4, LiveFacts DEF NodeType
<1>12. held[n].target \in Nat /\ held[n].strong \in Nat /\ held[n].weak \in Nat /\ held \in [Nodes -> HeldType]
  BY TypeFacts DEF RefInv, HeldType, Types
<1>13. PICK k \in Int, l \in Int : /\ k = One(strong) /\ l = One(~strong)
                                   /\ strong => k = 1 /\ l = 0
                                   /\ ~strong => k = 0 /\ l = 1
  BY DEF One
<1>14. PICK x \in Int, y \in Int : x = node[n].strong - k /\ y = node[n].weak - l
  BY <1>11
<1>14a. PICK d : d = WithLocals(node[n], x, y)
  OBVIOUS
<1>15. /\ One(a \in Calling(n)') = 0 /\ One(a \in Calling(n)) = 0 /\ One(a \in Carried(n, TRUE)') = 0
       /\ One(a \in Carried(n, FALSE)') = 0 /\ One(a \in Carried(n, TRUE)) = k
       /\ One(a \in Carried(n, FALSE)) = l
  BY <1>8, <1>13 DEF One
<1>16. Fits(d, a, Server, n) /\ d.mem = "live"
  <2>1. held' = held /\ held' \in [Nodes -> HeldType]
    BY <1>4, <1>12
  <2>2. PICK t \in Int, u \in Int, v \in Int, s \in Int, w \in Int :
          t = held[n].target /\ u = held[n].strong /\ v = held[n].weak /\ s = node[n].strong /\ w = node[n].weak
    BY <1>11, <1>12
  <2>3. x - t - u - 0 - 0 = s - t - u - 0 - k /\ y - v - 0 = w - v - l
    BY <1>14, <2>2
  <2>5. LocalsMove(a, n, x, y)
    BY <1>15, <2>1, <2>2, <2>3 DEF LocalsMove
  <2>4. ref' = ref /\ (~node[n].proc => held'[n] = NoHeld)
    BY <1>4, <1>11
  <2>6. node[n].mem = "live" /\ (a \in Temporary(n)' <=> a \in Temporary(n)) /\ x \in Int /\ y \in Int
    BY <1>4, <1>8
  <2>7. d = WithLocals(node[n], x, y)
    BY <1>14a
  <2> QED BY ONLY RefInv, a \in Tasks, n \in Nodes, <1>10, <2>1, <2>4, <2>5, <2>6, <2>7, LocalFits
<1>17. PICK e : e = Settle(d, strong, Refs(n)) /\ node' = [node EXCEPT ![n] = e]
  <2>1. node' = [node EXCEPT ![n] = DecNode(node[n], strong, FALSE, Refs(n))]
    BY <1>2, <1>3 DEF Drop, Set
  <2>3. DecNode(node[n], strong, FALSE, Refs(n)) = Settle(d, strong, Refs(n))
    <3>1. CASE strong
      <4>2. x = node[n].strong - 1 /\ y = node[n].weak
        <5>1. k = 1 /\ l = 0
          BY <1>13, <3>1
        <5> QED BY <1>11, <1>14, <5>1
      <4>1. d = WithLocals(node[n], node[n].strong - 1, node[n].weak)
        BY <1>14a, <4>2
      <4> QED BY <1>11, <3>1, <4>1, DecLocal
    <3>2. CASE ~strong
      <4>2. x = node[n].strong /\ y = node[n].weak - 1
        <5>1. k = 0 /\ l = 1
          BY <1>13, <3>2
        <5> QED BY <1>11, <1>14, <5>1
      <4>1. d = WithLocals(node[n], node[n].strong, node[n].weak - 1)
        BY <1>14a, <4>2
      <4> QED BY <1>11, <3>2, <4>1, DecLocal
    <3> QED BY <3>1, <3>2
  <2> QED BY <2>1, <2>3
<1> QED BY <1>2, <1>4, <1>6, <1>7, <1>9, <1>16, <1>17, TaskSettles

\* The change of the local counts, from the changes of their owners.
LEMMA MoveLocals ==
  ASSUME RefInv, NEW a, NEW n \in Nodes, node[n].mem = "live", held' \in [Nodes -> HeldType],
         NEW k \in Int, NEW l \in Int, NEW g \in Int, NEW h \in Int,
         TaskPart(a, n, k, l), BufferPart(n, g, h)
  PROVE  \E x \in Int, y \in Int : /\ x = node[n].strong + k + g /\ y = node[n].weak + l + h
                                   /\ LocalsMove(a, n, x, y)
<1>1. node[n].strong \in Int /\ node[n].weak \in Int
  BY LiveFacts DEF NodeType
<1>2. PICK x \in Int, y \in Int : x = node[n].strong + k + g /\ y = node[n].weak + l + h
  BY <1>1
<1>p. PICK p1 \in Int, p2 \in Int, p3 \in Int, q1 \in Int, q2 \in Int, q3 \in Int :
        /\ One(a \in Calling(n)') = p1 /\ One(a \in Carried(n, TRUE)') = p2 /\ One(a \in Carried(n, FALSE)') = p3
        /\ One(a \in Calling(n)) = q1 /\ One(a \in Carried(n, TRUE)) = q2 /\ One(a \in Carried(n, FALSE)) = q3
  <2>1. One(a \in Calling(n)') \in Int /\ One(a \in Carried(n, TRUE)') \in Int
        /\ One(a \in Carried(n, FALSE)') \in Int
    BY OneInt
  <2>2. One(a \in Calling(n)) \in Int /\ One(a \in Carried(n, TRUE)) \in Int
        /\ One(a \in Carried(n, FALSE)) \in Int
    BY OneInt
  <2> QED BY <2>1, <2>2
<1>3. PICK s \in Int, w \in Int, x1 \in Int, x2 \in Int, x3 \in Int, y1 \in Int, y2 \in Int, y3 \in Int :
        /\ s = node[n].strong /\ w = node[n].weak
        /\ x1 = held'[n].target /\ x2 = held'[n].strong /\ x3 = held'[n].weak
        /\ y1 = held[n].target /\ y2 = held[n].strong /\ y3 = held[n].weak
  <2>1. held[n].target \in Int /\ held[n].strong \in Int /\ held[n].weak \in Int
    BY TypeFacts DEF RefInv, HeldType
  <2>2. held'[n].target \in Int /\ held'[n].strong \in Int /\ held'[n].weak \in Int
    BY DEF HeldType
  <2> QED BY <1>1, <2>1, <2>2
<1>4. /\ x = s + k + g /\ y = w + l + h /\ g = x1 - y1 + x2 - y2 /\ h = x3 - y3
      /\ k = p1 + p2 - q1 - q2 /\ l = p3 - q3
  BY <1>2, <1>3, <1>p DEF TaskPart, BufferPart
<1>5. x - x1 - x2 - p1 - p2 = s - y1 - y2 - q1 - q2 /\ y - x3 - p3 = w - y3 - q3
  BY ONLY <1>4, x \in Int, y \in Int, s \in Int, w \in Int, x1 \in Int, x2 \in Int, x3 \in Int,
          y1 \in Int, y2 \in Int, y3 \in Int, p1 \in Int, p2 \in Int, p3 \in Int, q1 \in Int,
          q2 \in Int, q3 \in Int, k \in Int, l \in Int, g \in Int, h \in Int
<1>6. LocalsMove(a, n, x, y)
  BY <1>3, <1>5, <1>p DEF LocalsMove
<1> QED BY <1>2, <1>6

\* Buffers that stay have no part.
LEMMA BuffersStay ==
  ASSUME RefInv, NEW n \in Nodes, held' = held
  PROVE  BufferPart(n, 0, 0) /\ held' \in [Nodes -> HeldType]
<1>1. PICK t \in Int, u \in Int, v \in Int : t = held[n].target /\ u = held[n].strong /\ v = held[n].weak
  BY TypeFacts DEF RefInv, HeldType
<1>2. 0 = t - t + u - u /\ 0 = v - v
  OBVIOUS
<1> QED BY <1>1, <1>2 DEF BufferPart, RefInv, Types

\* binder_transaction() gives up: the local count on the target is given back.
LEMMA TransactionFailedOk ==
  ASSUME RefInv, NEW a \in Tasks, TransactionFailed(a)
  PROVE  RefInv'
<1>1. JobSound(a) /\ job[a] \in JobType /\ job[a].pc = "txn"
  BY TypeFacts DEF RefInv, TransactionFailed
<1>2. PICK n \in Nodes : n = job[a].node
  BY <1>1 DEF JobSound
<1>4. UNCHANGED <<life, ref, olock, held, lost>> /\ calls' \in Nat /\ node[n].mem = "live"
  BY <1>2 DEF TransactionFailed, RefInv, Types, Unlocked
<1>5. PICK j : j = [job[a] EXCEPT !.pc = "put"]
  OBVIOUS
<1>6. /\ j \in JobType /\ j.pc = "put" /\ j.node = n /\ j.next = "idle" /\ j.list = job[a].list
      /\ job[a].next = "idle"
  BY <1>1, <1>2, <1>5 DEF JobType, JobSound
<1>7. job' = [job EXCEPT ![a] = j] /\ job'[a] = j /\ \A b \in Tasks : b # a => job'[b] = job[b]
  BY <1>5, NewJob DEF TransactionFailed
<1>8. /\ a \in Temporary(n) /\ a \in Temporary(n)' /\ a \notin Calling(n)' /\ a \in Calling(n)
      /\ a \notin Carried(n, TRUE)' /\ a \notin Carried(n, FALSE)'
      /\ a \notin Carried(n, TRUE) /\ a \notin Carried(n, FALSE)
  BY <1>1, <1>2, <1>6, <1>7 DEF Temporary, Calling, Carried, Users
<1>9. JobSound(a)'
  BY <1>1, <1>4, <1>6, <1>7 DEF JobSound
<1>10. Erased(n)' = Erased(n)
  BY <1>1, <1>6, <1>7, ErasedSame
<1>11. node[n] \in NodeType /\ node[n].strong \in Int /\ node[n].weak \in Int
       /\ (~node[n].proc => held[n] = NoHeld) /\ held \in [Nodes -> HeldType]
  BY <1>4, LiveFacts DEF NodeType, RefInv, Types
<1>12. TaskPart(a, n, -1, 0)
  BY <1>8 DEF TaskPart, One
<1>13. PICK x \in Int, y \in Int : x = node[n].strong + (-1) + 0 /\ y = node[n].weak + 0 + 0 /\ LocalsMove(a, n, x, y)
  <2>1. BufferPart(n, 0, 0) /\ held' \in [Nodes -> HeldType] /\ -1 \in Int /\ 0 \in Int
    BY <1>4, BuffersStay
  <2> QED BY <1>4, <1>12, <2>1, MoveLocals
<1>14. x = node[n].strong - 1 /\ y = node[n].weak
  BY <1>11, <1>13
<1>15. PICK d : d = WithLocals(node[n], x, y)
  OBVIOUS
<1>16. Fits(d, a, Server, n) /\ d.mem = "live"
  <2>1. held' \in [Nodes -> HeldType] /\ ref' = ref /\ (~node[n].proc => held'[n] = NoHeld)
    BY <1>4, <1>11
  <2> QED BY <1>4, <1>8, <1>10, <1>13, <1>15, <2>1, LocalFits
<1>17. PICK e : e = Settle(d, TRUE, Refs(n)) /\ node' = [node EXCEPT ![n] = e]
  <2>1. node' = [node EXCEPT ![n] = DecNode(node[n], TRUE, FALSE, Refs(n))]
    BY <1>2 DEF TransactionFailed, Set
  <2>2. DecNode(node[n], TRUE, FALSE, Refs(n)) = Settle(d, TRUE, Refs(n))
    BY <1>11, <1>14, <1>15, DecLocal
  <2> QED BY <2>1, <2>2
<1> QED BY <1>2, <1>4, <1>6, <1>7, <1>9, <1>16, <1>17, TaskSettles

\* binder_translate_handle(): the owner gets a local count, another process goes on to a reference.
LEMMA HandleTargetOk ==
  ASSUME RefInv, NEW a \in Tasks, HandleTarget(a)
  PROVE  RefInv'
<1>1. JobSound(a) /\ job[a] \in JobType /\ job[a].pc = "handle" /\ job[a].strong \in BOOLEAN
  BY TypeFacts DEF RefInv, HandleTarget, JobType
<1>2. PICK n \in Nodes : n = job[a].node
  BY <1>1 DEF JobSound
<1>3. PICK strong \in BOOLEAN : strong = job[a].strong
  BY <1>1
<1>4. UNCHANGED <<life, ref, olock, held, lost>> /\ calls' \in Nat /\ node[n].mem = "live"
  BY <1>2 DEF HandleTarget, RefInv, Types, Unlocked
<1>5. /\ job[a].next = "idle" /\ job[a].proc \in Procs /\ (job[a].list # "none" => job[a].list = a)
      /\ (a \in Locals => life[Server] = "open") /\ a \in Temporary(n) /\ a \notin Calling(n)
      /\ a \notin Carried(n, TRUE) /\ a \notin Carried(n, FALSE)
  BY <1>1, <1>2 DEF JobSound, Temporary, Calling, Carried, Users
<1>6. CASE /\ node[n].proc /\ job[a].proc = Server
           /\ Set(n, IncNode(node[n], strong, FALSE, "none"))
           /\ Become(a, [job[a] EXCEPT !.pc = "put", !.next = "sent_binder"])
  <2>1. PICK j : j = [job[a] EXCEPT !.pc = "put", !.next = "sent_binder"]
    OBVIOUS
  <2>2. /\ j \in JobType /\ j.pc = "put" /\ j.node = n /\ j.next = "sent_binder" /\ j.list = job[a].list
        /\ j.proc = Server /\ j.strong = strong
    BY <1>1, <1>2, <1>3, <1>6, <2>1 DEF JobType
  <2>3. job' = [job EXCEPT ![a] = j] /\ job'[a] = j /\ \A b \in Tasks : b # a => job'[b] = job[b]
    BY <1>6, <2>1, NewJob
  <2>4. /\ a \in Temporary(n)' /\ a \notin Calling(n)'
        /\ a \in Carried(n, TRUE)' <=> strong
        /\ a \in Carried(n, FALSE)' <=> ~strong
    BY <2>2, <2>3 DEF Temporary, Calling, Carried, Users
  <2>5. JobSound(a)'
    BY <1>1, <1>4, <1>5, <2>2, <2>3, Marks DEF JobSound
  <2>6. Erased(n)' = Erased(n)
    BY <1>1, <2>2, <2>3, ErasedSame
  <2>7. node[n] \in NodeType /\ node[n].strong \in Int /\ node[n].weak \in Int
        /\ (~node[n].proc => held[n] = NoHeld) /\ node[n].tmp > 0
    BY <1>4, <1>5, LiveFacts DEF NodeType
  <2>8. PICK k \in Int, l \in Int : /\ k = One(strong) /\ l = One(~strong)
                                    /\ strong => k = 1 /\ l = 0
                                    /\ ~strong => k = 0 /\ l = 1
    BY DEF One
  <2>9. TaskPart(a, n, k, l)
    <3>1. /\ One(a \in Calling(n)') = 0 /\ One(a \in Calling(n)) = 0 /\ One(a \in Carried(n, TRUE)) = 0
          /\ One(a \in Carried(n, FALSE)) = 0 /\ One(a \in Carried(n, TRUE)') = k
          /\ One(a \in Carried(n, FALSE)') = l
      BY <1>5, <2>4, <2>8 DEF One
    <3>2. k = 0 + k - 0 - 0 /\ l = l - 0
      BY ONLY k \in Int, l \in Int
    <3> QED BY ONLY <3>1, <3>2 DEF TaskPart
  <2>10. PICK x \in Int, y \in Int : x = node[n].strong + k + 0 /\ y = node[n].weak + l + 0 /\ LocalsMove(a, n, x, y)
    <3>1. BufferPart(n, 0, 0) /\ held' \in [Nodes -> HeldType] /\ 0 \in Int
      BY <1>4, BuffersStay
    <3> QED BY <1>4, <2>9, <3>1, MoveLocals
  <2>11. PICK d : d = WithLocals(node[n], x, y)
    OBVIOUS
  <2>12. Fits(d, a, Server, n) /\ d.mem = "live" /\ d.tmp = node[n].tmp
    <3>1. held' \in [Nodes -> HeldType] /\ ref' = ref /\ (~node[n].proc => held'[n] = NoHeld)
      BY <1>4, <2>7 DEF RefInv, Types
    <3> QED BY <1>4, <1>5, <2>4, <2>6, <2>10, <2>11, <3>1, LocalFits
  <2>13. node' = [node EXCEPT ![n] = d]
    <3>1. node' = [node EXCEPT ![n] = IncNode(node[n], strong, FALSE, "none")]
      BY <1>6 DEF Set
    <3>2. CASE strong
      <4>1. k = 1 /\ l = 0
        BY <2>8, <3>2
      <4>2. x = node[n].strong + 1 /\ y = node[n].weak
        BY <2>7, <2>10, <4>1
      <4>3. IncNode(node[n], strong, FALSE, "none") = WithLocals(node[n], node[n].strong + 1, node[n].weak)
        BY <2>7, <3>2, IncLocal
      <4> QED BY <2>11, <3>1, <4>2, <4>3
    <3>3. CASE ~strong
      <4>1. k = 0 /\ l = 1
        BY <2>8, <3>3
      <4>2. x = node[n].strong /\ y = node[n].weak + 1
        BY <2>7, <2>10, <4>1
      <4>3. IncNode(node[n], strong, FALSE, "none") = WithLocals(node[n], node[n].strong, node[n].weak + 1)
        BY <2>7, <3>3, IncLocal
      <4> QED BY <2>11, <3>1, <4>2, <4>3
    <3> QED BY <3>2, <3>3
  <2>14. Kept(d, Refs(n), lost[n])
    BY <2>7, <2>12 DEF Kept, Unused
  <2>15. job[a].node \in {n, None} /\ j.node \in {n, None} /\ j \in JobType
    BY <1>2, <2>2
  <2>16. job' = [job EXCEPT ![a] = j]
    BY <2>3
  <2> QED BY ONLY RefInv, a \in Tasks, n \in Nodes, <1>4, <2>5, <2>12, <2>13, <2>14, <2>15, <2>16, TaskKeeps
<1>7. CASE Become(a, [job[a] EXCEPT !.pc = "ref", !.next = "sent"]) /\ node' = node
  <2>1. PICK j : j = [job[a] EXCEPT !.pc = "ref", !.next = "sent"]
    OBVIOUS
  <2>2. /\ j \in JobType /\ j.pc = "ref" /\ j.node = n /\ j.next = "sent" /\ j.list = job[a].list
        /\ j.proc = job[a].proc
    BY <1>1, <1>2, <2>1 DEF JobType
  <2>3. job' = [job EXCEPT ![a] = j] /\ job'[a] = j
    BY <1>7, <2>1, NewJob
  <2>4. /\ a \in Temporary(n)' /\ a \notin Calling(n)' /\ a \notin Carried(n, TRUE)' /\ a \notin Carried(n, FALSE)'
    BY <2>2, <2>3 DEF Temporary, Calling, Carried, Users
  <2>5. JobSound(a)'
    BY <1>1, <1>4, <1>5, <2>2, <2>3 DEF JobSound
  <2> QED BY <1>1, <1>2, <1>4, <1>5, <1>7, <2>2, <2>3, <2>4, <2>5, TaskQuiet
<1> QED BY <1>2, <1>3, <1>6, <1>7 DEF HandleTarget

\* BC_TRANSACTION takes a local strong count and a temporary reference on its target.
LEMMA TransactionOk ==
  ASSUME RefInv, NEW a \in Senders, NEW c \in Clients, NEW n \in Nodes, Transaction(a, c, n)
  PROVE  RefInv'
<1>1. a \in Tasks /\ a \notin Locals /\ job[a].pc = "idle" /\ node[n].mem = "live"
  BY Marks DEF Transaction, Free, Unlocked
<1>2. UNCHANGED <<life, ref, olock, held, lost>> /\ calls' \in Nat
  <2>1. UNCHANGED <<life, ref, olock, held, lost>> /\ calls' = calls + 1
    BY DEF Transaction, Call
  <2>2. calls \in Nat
    BY DEF RefInv, Types
  <2> QED BY <2>1, <2>2
<1>3. PICK j : j = [Idle EXCEPT !.pc = "txn", !.node = n]
  OBVIOUS
<1>4. j \in JobType /\ j.pc = "txn" /\ j.node = n /\ j.next = "idle" /\ j.list = "none"
  BY <1>3 DEF Idle, JobType
<1>5. job' = [job EXCEPT ![a] = j] /\ job'[a] = j /\ \A b \in Tasks : b # a => job'[b] = job[b]
  BY <1>1, <1>3, NewJob DEF Transaction
<1>6. /\ a \in Temporary(n)' /\ a \in Calling(n)' /\ a \notin Carried(n, TRUE)'
      /\ a \notin Carried(n, FALSE)'
  BY <1>1, <1>4, <1>5 DEF Temporary, Calling, Carried, Users
<1>7. /\ a \notin Temporary(n) /\ a \notin Calling(n) /\ a \notin Carried(n, TRUE)
      /\ a \notin Carried(n, FALSE) /\ job[a].node = None /\ job[a].pc # "release"
  BY <1>1, IdleTask
<1>8. JobSound(a)'
  BY <1>1, <1>4, <1>5 DEF JobSound
<1>9. node[n] \in NodeType /\ node[n].strong \in Int /\ node[n].weak \in Int /\ node[n].tmp \in Nat
      /\ (~node[n].proc => held[n] = NoHeld)
  BY <1>1, LiveFacts DEF NodeType
<1>10. PICK x \in Int, y \in Int : x = node[n].strong + 1 + 0 /\ y = node[n].weak + 0 + 0 /\ LocalsMove(a, n, x, y)
  <2>1. BufferPart(n, 0, 0) /\ held' \in [Nodes -> HeldType] /\ 0 \in Int /\ 1 \in Int
    BY <1>2, BuffersStay
  <2>2. TaskPart(a, n, 1, 0)
    BY <1>6, <1>7 DEF TaskPart, One
  <2> QED BY <1>1, <2>1, <2>2, MoveLocals
<1>11. PICK t \in Nat : t = node[n].tmp + 1
  BY <1>9
<1>12. PICK d : d = [WithLocals(node[n], x, y) EXCEPT !.tmp = t]
  OBVIOUS
<1>13. /\ d \in NodeType /\ Alike(d, node[n]) /\ d.strong = x /\ d.weak = y /\ d.tmp = t
       /\ d.pend_s = node[n].pend_s /\ d.pend_w = node[n].pend_w
  <2>1. PICK z : z = WithLocals(node[n], x, y)
    OBVIOUS
  <2>2. /\ z \in NodeType /\ Alike(z, node[n]) /\ z.strong = x /\ z.weak = y /\ z.tmp = node[n].tmp
        /\ z.pend_s = node[n].pend_s /\ z.pend_w = node[n].pend_w
    <3>1. node[n] \in NodeType
      BY <1>9
    <3> QED BY ONLY <3>1, x \in Int, y \in Int, <2>1, LocalRecord
  <2>3. d = [z EXCEPT !.tmp = t]
    BY <1>12, <2>1
  <2>4. /\ d \in NodeType /\ d.tmp = t /\ Alike(d, z)
        /\ d.strong = z.strong /\ d.weak = z.weak /\ d.pend_s = z.pend_s /\ d.pend_w = z.pend_w
    BY <2>2, <2>3, TmpRecord
  <2> QED BY <2>2, <2>4 DEF Alike
<1>14. node' = [node EXCEPT ![n] = d]
  <2>1. node' = [node EXCEPT ![n] = [IncNode(node[n], TRUE, FALSE, "none") EXCEPT !.tmp = @ + 1]]
    BY DEF Transaction, Set, GetNodeRefsForTxn
  <2>2. IncNode(node[n], TRUE, FALSE, "none") = WithLocals(node[n], node[n].strong + 1, node[n].weak)
    BY <1>9, IncLocal
  <2>3. x = node[n].strong + 1 /\ y = node[n].weak
    BY <1>9, <1>10
  <2>4. PICK z : z = WithLocals(node[n], x, y)
    OBVIOUS
  <2>5. z.tmp = node[n].tmp
    BY <1>9, <2>4, LocalRecord
  <2>6. [z EXCEPT !.tmp = @ + 1] = [z EXCEPT !.tmp = t]
    BY <1>11, <2>5
  <2> QED BY <1>12, <2>1, <2>2, <2>3, <2>4, <2>6
<1>15. LocalsAre(d, node[n], x, y) /\ TmpPart(a, n, d.tmp)
  <2>1. LocalsAre(d, node[n], x, y)
    BY <1>13 DEF LocalsAre
  <2>2. TmpPart(a, n, d.tmp)
    BY <1>6, <1>7, <1>9, <1>11, <1>13 DEF TmpPart, One
  <2> QED BY <2>1, <2>2
<1>16. Erased(n)' = Erased(n)
  BY <1>1, <1>4, <1>5, <1>7, ErasedSame
<1>17. Fits(d, a, Server, n)
  <2>1. held' \in [Nodes -> HeldType] /\ ref' = ref /\ (~node[n].proc => held'[n] = NoHeld)
    BY <1>2, <1>9 DEF RefInv, Types
  <2> QED BY <1>1, <1>10, <1>13, <1>15, <1>16, <2>1, RecordFits
<1>18. Kept(d, Refs(n), lost[n])
  BY <1>9, <1>11, <1>13 DEF Kept, Unused
<1>19. job[a].node \in {n, None} /\ j.node \in {n, None} /\ j \in JobType /\ a \in Tasks
       /\ node[n].mem \in {"live", "reap"} /\ job' = [job EXCEPT ![a] = j]
  BY <1>1, <1>4, <1>5, <1>7
<1> QED BY ONLY RefInv, n \in Nodes, <1>2, <1>8, <1>14, <1>17, <1>18, <1>19, TaskKeeps

\* A node with a temporary reference does not end.
LEMMA SettleKeeps ==
  ASSUME NEW d \in NodeType, d.mem = "live", d.tmp # 0, NEW strong \in BOOLEAN, NEW refs
  PROVE  Settle(d, strong, refs).mem = "live"
<1>1. ~Unused(d, refs)
  BY DEF Unused
<1>2. [d EXCEPT !.work = IF d.work = "none" THEN "todo" ELSE d.work].mem = d.mem
  BY DEF NodeType
<1> QED BY <1>1, <1>2 DEF Settle

\* BC_ACQUIRE_DONE or BC_INCREFS_DONE gives the announcement's count back.
LEMMA DoneCountOk ==
  ASSUME RefInv, NEW a \in Tasks, DoneCount(a)
  PROVE  RefInv'
<1>1. JobSound(a) /\ job[a] \in JobType /\ job[a].pc = "done" /\ job[a].strong \in BOOLEAN
  BY TypeFacts DEF RefInv, DoneCount, JobType
<1>2. PICK n \in Nodes : n = job[a].node
  BY <1>1 DEF JobSound
<1>3. PICK strong \in BOOLEAN : strong = job[a].strong
  BY <1>1
<1>4. UNCHANGED <<life, ref, olock, held, lost>> /\ calls' \in Nat /\ node[n].mem = "live"
  BY <1>2 DEF DoneCount, RefInv, Types, Unlocked
<1>5. PICK j : j = [job[a] EXCEPT !.pc = "put"]
  OBVIOUS
<1>6. /\ j \in JobType /\ j.pc = "put" /\ j.node = n /\ j.next = "idle" /\ j.list = job[a].list
      /\ job[a].next = "idle"
  BY <1>1, <1>2, <1>5 DEF JobType, JobSound
<1>7. job' = [job EXCEPT ![a] = j] /\ job'[a] = j /\ \A b \in Tasks : b # a => job'[b] = job[b]
  BY <1>5, NewJob DEF DoneCount
<1>8. /\ a \in Temporary(n) /\ a \in Temporary(n)' /\ a \notin Calling(n)' /\ a \notin Calling(n)
      /\ a \notin Carried(n, TRUE)' /\ a \notin Carried(n, FALSE)'
      /\ a \notin Carried(n, TRUE) /\ a \notin Carried(n, FALSE)
  BY <1>1, <1>2, <1>6, <1>7 DEF Temporary, Calling, Carried, Users
<1>9. JobSound(a)'
  BY <1>1, <1>4, <1>6, <1>7 DEF JobSound
<1>10. Erased(n)' = Erased(n)
  BY <1>1, <1>6, <1>7, ErasedSame
<1>11. /\ node[n] \in NodeType /\ node[n].strong \in Int /\ node[n].weak \in Int /\ node[n].tmp \in Nat
       /\ (~node[n].proc => held[n] = NoHeld) /\ node[n].tmp > 0
       /\ node[n].pend_s \in BOOLEAN /\ node[n].pend_w \in BOOLEAN
  BY <1>4, <1>8, LiveFacts DEF NodeType
<1>12. PICK e : /\ e = DoneDec(node[n], strong, Refs(n))
                /\ node' = [node EXCEPT ![n] = IF e.mem = "live" THEN e ELSE [e EXCEPT !.mem = "bug"]]
  BY <1>2, <1>3 DEF DoneCount, Set
<1>13. CASE (strong /\ ~node[n].pend_s) \/ (~strong /\ ~node[n].pend_w)
  <2>1. e = node[n]
    BY <1>12, <1>13 DEF DoneDec
  <2>2. node' = node
    BY <1>4, <1>12, <2>1 DEF RefInv, Types, TypeOK
  <2> QED BY <1>1, <1>2, <1>4, <1>6, <1>7, <1>8, <1>9, <2>2, TaskQuiet
<1>14. CASE ~((strong /\ ~node[n].pend_s) \/ (~strong /\ ~node[n].pend_w))
  <2>1. PICK d : d = IF strong THEN [node[n] EXCEPT !.pend_s = FALSE, !.strong = node[n].strong - 1]
                               ELSE [node[n] EXCEPT !.pend_w = FALSE, !.weak = node[n].weak - 1]
    OBVIOUS
  <2>2. d \in NodeType /\ Alike(d, node[n]) /\ d.tmp = node[n].tmp
    <3>1. node[n].strong - 1 \in Int /\ node[n].weak - 1 \in Int
      BY <1>11
    <3>2. CASE strong
      BY <1>11, <2>1, <3>1, <3>2 DEF NodeType, Alike
    <3>3. CASE ~strong
      BY <1>11, <2>1, <3>1, <3>3 DEF NodeType, Alike
    <3> QED BY <3>2, <3>3
  <2>3. LocalsAre(d, node[n], node[n].strong, node[n].weak)
    <3>2. CASE strong
      <4>1. node[n].pend_s /\ ~d.pend_s /\ d.strong = node[n].strong - 1
            /\ d.weak = node[n].weak /\ d.pend_w = node[n].pend_w
        BY <1>11, <1>14, <2>1, <3>2 DEF NodeType
      <4>2. One(node[n].pend_s) = 1 /\ One(d.pend_s) = 0
        BY <4>1 DEF One
      <4>3. d.strong - One(d.pend_s) = node[n].strong - One(node[n].pend_s)
        <5>1. PICK s \in Int : s = node[n].strong
          BY <1>11
        <5>2. d.strong = s - 1
          BY <4>1, <5>1
        <5>3. (s - 1) - 0 = s - 1
          OBVIOUS
        <5> QED BY ONLY <4>2, <5>1, <5>2, <5>3
      <4>4. d.weak - One(d.pend_w) = node[n].weak - One(node[n].pend_w)
        BY <4>1
      <4> QED BY <4>3, <4>4 DEF LocalsAre
    <3>3. CASE ~strong
      <4>1. node[n].pend_w /\ ~d.pend_w /\ d.weak = node[n].weak - 1
            /\ d.strong = node[n].strong /\ d.pend_s = node[n].pend_s
        BY <1>11, <1>14, <2>1, <3>3 DEF NodeType
      <4>2. One(node[n].pend_w) = 1 /\ One(d.pend_w) = 0
        BY <4>1 DEF One
      <4>3. d.weak - One(d.pend_w) = node[n].weak - One(node[n].pend_w)
        <5>1. PICK s \in Int : s = node[n].weak
          BY <1>11
        <5>2. d.weak = s - 1
          BY <4>1, <5>1
        <5>3. (s - 1) - 0 = s - 1
          OBVIOUS
        <5> QED BY ONLY <4>2, <5>1, <5>2, <5>3
      <4>4. d.strong - One(d.pend_s) = node[n].strong - One(node[n].pend_s)
        BY <4>1
      <4> QED BY <4>3, <4>4 DEF LocalsAre
    <3> QED BY <3>2, <3>3
  <2>4. PICK x \in Int, y \in Int : x = node[n].strong + 0 + 0 /\ y = node[n].weak + 0 + 0 /\ LocalsMove(a, n, x, y)
    <3>1. BufferPart(n, 0, 0) /\ held' \in [Nodes -> HeldType] /\ 0 \in Int
      BY <1>4, BuffersStay
    <3>2. TaskPart(a, n, 0, 0)
      BY <1>8 DEF TaskPart, One
    <3> QED BY <1>4, <3>1, <3>2, MoveLocals
  <2>5. LocalsAre(d, node[n], x, y)
    <3>1. x = node[n].strong /\ y = node[n].weak
      BY <1>11, <2>4
    <3> QED BY <2>3, <3>1
  <2>6. TmpPart(a, n, d.tmp)
    BY <1>8, <1>11, <2>2 DEF TmpPart, One
  <2>7. Fits(d, a, Server, n) /\ d.mem = "live"
    <3>1. held' \in [Nodes -> HeldType] /\ ref' = ref /\ (~node[n].proc => held'[n] = NoHeld)
      BY <1>4, <1>11 DEF RefInv, Types
    <3> QED BY <1>4, <1>10, <2>2, <2>4, <2>5, <2>6, <3>1, RecordFits
  <2>8. e = Settle(d, strong, Refs(n))
    <3>1. CASE strong
      <4>1. e = Settle([[node[n] EXCEPT !.pend_s = FALSE] EXCEPT !.strong = @ - 1], strong, Refs(n))
        BY <1>12, <1>14, <3>1 DEF DoneDec, DecNode
      <4>2. [[node[n] EXCEPT !.pend_s = FALSE] EXCEPT !.strong = @ - 1] = d
        BY <1>11, <2>1, <3>1 DEF NodeType
      <4> QED BY <4>1, <4>2
    <3>2. CASE ~strong
      <4>1. e = Settle([[node[n] EXCEPT !.pend_w = FALSE] EXCEPT !.weak = @ - 1], strong, Refs(n))
        BY <1>12, <1>14, <3>2 DEF DoneDec, DecNode
      <4>2. [[node[n] EXCEPT !.pend_w = FALSE] EXCEPT !.weak = @ - 1] = d
        BY <1>11, <2>1, <3>2 DEF NodeType
      <4> QED BY <4>1, <4>2
    <3> QED BY <3>1, <3>2
  <2>9. e.mem = "live"
    <3>1. d.tmp # 0
      BY <1>11, <2>2
    <3> QED BY <2>2, <2>7, <2>8, <3>1, SettleKeeps
  <2>10. node' = [node EXCEPT ![n] = e]
    BY <1>12, <2>9
  <2>11. job[a].node \in {n, None} /\ j.node \in {n, None} /\ j \in JobType /\ job' = [job EXCEPT ![a] = j]
    BY <1>2, <1>6, <1>7
  <2> QED BY ONLY RefInv, a \in Tasks, n \in Nodes, strong \in BOOLEAN, <1>4, <1>9, <2>7, <2>8, <2>10, <2>11, TaskSettles
<1> QED BY <1>13, <1>14

-----------------------------------------------------------------------------
(* Counts of buffers.                                                      *)

\* As TaskMoves, with the counts that buffers of the server own.
LEMMA HeldMoves ==
  ASSUME RefInv, NEW a \in Tasks, NEW n \in Nodes, NEW j \in JobType, NEW e, NEW h \in HeldType,
         Become(a, j), Set(n, e), Hold(n, h),
         UNCHANGED <<life, ref, olock, lost, calls>>,
         job[a].node \in {n, None}, j.node \in {n, None}
  PROVE  /\ Moves(a, Server, n) /\ job'[a] = j /\ node'[n] = e /\ held'[n] = h
         /\ held' \in [Nodes -> HeldType] /\ Refs(n)' = Refs(n) /\ Counted(n)' = Counted(n)
         /\ \A b \in Tasks : b # a => job'[b] = job[b]
<1>1. job' \in [Tasks -> JobType] /\ job'[a] = j /\ \A b \in Tasks : b # a => job'[b] = job[b]
  BY DEF RefInv, Types, Become
<1>2. /\ node' = [m \in Nodes |-> node'[m]] /\ \A m \in Nodes : m # n => node'[m] = node[m]
      /\ node'[n] = e
  BY DEF RefInv, Types, TypeOK, Set
<1>3. /\ held' \in [Nodes -> HeldType] /\ \A m \in Nodes : m # n => held'[m] = held[m]
      /\ held'[n] = h
  BY DEF RefInv, Types, Hold
<1>4. Moves(a, Server, n)
  BY <1>1, <1>2, <1>3 DEF Moves, RefInv, Types, TypeOK, RefType
<1>5. Refs(n)' = Refs(n) /\ Counted(n)' = Counted(n)
  BY DEF Refs, Counted
<1> QED BY <1>1, <1>2, <1>3, <1>4, <1>5

\* A record that fits stays.
LEMMA HeldKeeps ==
  ASSUME RefInv, NEW a \in Tasks, NEW n \in Nodes, NEW d, Moves(a, Server, n), d = node'[n], ref' = ref,
         node[n].mem \in {"live", "reap"}, Fits(d, a, Server, n), Kept(d, Refs(n), lost[n]), JobSound(a)'
  PROVE  RefInv'
<1>1. Refs(n)' = Refs(n) /\ lost' = lost
  BY DEF Moves, Refs
<1>2. NodeOk(n)'
  <2>1. Kept(d, Refs(n)', lost'[n])
    BY <1>1
  <2> QED BY <2>1, Marks, KeepStep
<1>3. d \in NodeType /\ (node[n].mgr => d.mgr) /\ d.ptr = node[n].ptr /\ d.tree = node[n].tree
  BY DEF Fits
<1>4. ref'[Server][n] = ref[Server][n] /\ (ref[Server][n].desc = -1 => ref[Server][n] = NoRef)
  BY Marks DEF RefInv, RefsSound
<1> QED BY <1>2, <1>3, <1>4, Marks, OneStep

\* A task that works on a node keeps it, as long as it has more than the object it sent.
LEMMA UserLive ==
  ASSUME RefInv, NEW a \in Tasks, job[a].pc \notin {"idle", "new", "sent", "sent_binder"}
  PROVE  job[a].node \in Nodes /\ node[job[a].node].mem \in {"live", "reap"}
<1>1. JobSound(a)
  BY DEF RefInv
<1>2. job[a].node \in Nodes
  BY <1>1 DEF JobSound
<1>3. a \in Users(job[a].node)
  BY DEF Users
<1>4. NodeOk(job[a].node)
  BY <1>2 DEF RefInv
<1> QED BY <1>2, <1>3, <1>4 DEF NodeOk

\* The transaction is queued: its buffer has the local count now.
LEMMA TransactionSentOk ==
  ASSUME RefInv, NEW a \in Tasks, TransactionSent(a)
  PROVE  RefInv'
<1>1. JobSound(a) /\ job[a] \in JobType /\ job[a].pc = "txn" /\ life[Server] = "open"
  BY TypeFacts DEF RefInv, TransactionSent
<1>2. PICK n \in Nodes : n = job[a].node
  BY <1>1 DEF JobSound
<1>3. node[n].mem = "live" /\ node[n].proc
  BY <1>1, <1>2, UserLive, OpenTree
<1>5. PICK j : j = [job[a] EXCEPT !.pc = "put"]
  OBVIOUS
<1>6. /\ j \in JobType /\ j.pc = "put" /\ j.node = n /\ j.next = "idle" /\ j.list = job[a].list
      /\ job[a].next = "idle"
  BY <1>1, <1>2, <1>5 DEF JobType, JobSound
<1>7. held[n] \in HeldType /\ held[n].target \in Nat /\ held[n].strong \in Nat /\ held[n].weak \in Nat
      /\ held[n].target + 1 \in Nat
  BY TypeFacts DEF RefInv, HeldType
<1>8. PICK h : h = [held[n] EXCEPT !.target = held[n].target + 1]
  OBVIOUS
<1>9. h \in HeldType /\ h.target = held[n].target + 1 /\ h.strong = held[n].strong /\ h.weak = held[n].weak
  BY <1>7, <1>8 DEF HeldType
<1>10. PICK e : e = node[n] /\ Set(n, e) /\ Hold(n, h) /\ Become(a, j)
                /\ UNCHANGED <<life, ref, olock, lost, calls>>
  BY <1>2, <1>5, <1>8 DEF TransactionSent, Set, Hold, RefInv, Types, TypeOK
<1>11. /\ Moves(a, Server, n) /\ job'[a] = j /\ node'[n] = e /\ held'[n] = h
       /\ held' \in [Nodes -> HeldType] /\ \A b \in Tasks : b # a => job'[b] = job[b]
  <2>1. job[a].node \in {n, None} /\ j.node \in {n, None} /\ j \in JobType /\ h \in HeldType
    BY <1>2, <1>6, <1>9
  <2> QED BY ONLY RefInv, a \in Tasks, n \in Nodes, <1>10, <2>1, HeldMoves
<1>12. /\ a \in Temporary(n) /\ a \in Temporary(n)' /\ a \notin Calling(n)' /\ a \in Calling(n)
       /\ a \notin Carried(n, TRUE)' /\ a \notin Carried(n, FALSE)'
       /\ a \notin Carried(n, TRUE) /\ a \notin Carried(n, FALSE)
  BY <1>1, <1>2, <1>6, <1>11 DEF Temporary, Calling, Carried, Users
<1>13. JobSound(a)'
  BY <1>1, <1>10, <1>6, <1>11 DEF JobSound
<1>14. Erased(n)' = Erased(n)
  BY <1>1, <1>6, <1>11, ErasedSame
<1>15. /\ node[n] \in NodeType /\ node[n].strong \in Int /\ node[n].weak \in Int /\ node[n].tmp \in Nat
  BY <1>3, LiveFacts DEF NodeType
<1>16. TaskPart(a, n, -1, 0)
  BY <1>12 DEF TaskPart, One
<1>17. BufferPart(n, 1, 0)
  BY <1>7, <1>9, <1>11 DEF BufferPart
<1>18. PICK x \in Int, y \in Int : x = node[n].strong + (-1) + 1 /\ y = node[n].weak + 0 + 0 /\ LocalsMove(a, n, x, y)
  <2>1. -1 \in Int /\ 0 \in Int /\ 1 \in Int
    OBVIOUS
  <2> QED BY <1>3, <1>11, <1>16, <1>17, <2>1, MoveLocals
<1>19. x = node[n].strong /\ y = node[n].weak
  BY <1>15, <1>18
<1>20. LocalsAre(e, node[n], x, y) /\ TmpPart(a, n, e.tmp) /\ Alike(e, node[n])
  <2>1. TmpPart(a, n, node[n].tmp)
    BY <1>12, <1>15 DEF TmpPart, One
  <2> QED BY <1>10, <1>19, <2>1 DEF LocalsAre, Alike
<1>21. Fits(e, a, Server, n)
  BY <1>3, <1>10, <1>11, <1>14, <1>15, <1>18, <1>20, RecordFits
<1>22. Kept(e, Refs(n), lost[n])
  <2>1. e.tmp > 0
    BY <1>3, <1>10, <1>12, LiveFacts
  <2> QED BY <2>1 DEF Kept, Unused
<1> QED BY <1>3, <1>10, <1>11, <1>13, <1>21, <1>22, HeldKeeps

\* The buffer takes what the task has for it.
LEMMA DeliverOk ==
  ASSUME RefInv, NEW a \in Tasks, Deliver(a)
  PROVE  RefInv'
<1>1. /\ JobSound(a) /\ job[a] \in JobType /\ job[a].pc \in {"sent", "sent_binder"}
      /\ job[a].strong \in BOOLEAN /\ job[a].next = job[a].pc
  BY TypeFacts DEF RefInv, Deliver, JobType, JobSound
<1>2. PICK n \in Nodes : n = job[a].node
  BY <1>1 DEF JobSound
<1>3. PICK j : j = Idle
  OBVIOUS
<1>4. j \in JobType /\ j.pc = "idle" /\ j.node = None /\ j.next = "idle" /\ j.list = "none"
  BY <1>3 DEF Idle, JobType
<1>5. /\ job' = [job EXCEPT ![a] = j] /\ job'[a] = j /\ \A b \in Tasks : b # a => job'[b] = job[b]
  BY <1>3, NewJob DEF Deliver
<1>6. UNCHANGED <<life, node, ref, olock, lost, calls>> /\ calls' \in Nat
  BY DEF Deliver, RefInv, Types
<1>7. /\ a \notin Temporary(n)' /\ a \notin Calling(n)' /\ a \notin Carried(n, TRUE)'
      /\ a \notin Carried(n, FALSE)' /\ a \notin Temporary(n) /\ a \notin Calling(n)
  BY <1>1, <1>2, <1>4, <1>5 DEF Temporary, Calling, Carried, Users
<1>8. JobSound(a)'
  BY <1>3, <1>4, <1>5 DEF JobSound
<1>9. a \in Users(n) /\ NodeOk(n) /\ node[n] \in NodeType
  BY <1>1, <1>2, TypeFacts DEF Users, RefInv
<1>10. node[n].mem \in {"live", "reap"} \/ node[n].mem = "freed"
  BY <1>9 DEF NodeOk, NodeType
<1>11. CASE job[a].pc = "sent"
  <2>1. a \notin Carried(n, TRUE) /\ a \notin Carried(n, FALSE)
    BY <1>1, <1>11 DEF Carried, Users
  <2>2. held' = held
    BY <1>11 DEF Deliver
  <2>3. job[a].node \in {n, None} /\ j.node \in {n, None} /\ job[a].pc # "release" /\ j.pc # "release"
    BY <1>2, <1>4, <1>11
  <2>4. UNCHANGED <<life, ref, olock, held, lost>> /\ node' = node
    BY <1>6, <2>2
  <2>5. node[n].mem \in {"live", "reap"} \/ (node[n].mem = "freed" /\ j = Idle)
    BY <1>3, <1>10
  <2> QED BY <1>4, <1>5, <1>6, <1>7, <1>8, <2>1, <2>3, <2>4, <2>5, TaskQuiet
<1>12. CASE job[a].pc = "sent_binder"
  <2>1. PICK strong \in BOOLEAN : strong = job[a].strong
    BY <1>1
  <2>2. /\ strong => a \in Carried(n, TRUE) /\ a \notin Carried(n, FALSE)
        /\ ~strong => a \notin Carried(n, TRUE) /\ a \in Carried(n, FALSE)
    BY <1>2, <1>9, <1>12, <2>1 DEF Carried, Users
  <2>3. life[Server] = "open"
    BY <1>1, <1>12 DEF JobSound, Deliver
  <2>4. node[n].tree
    <3>1. Carried(n, TRUE) # {} \/ Carried(n, FALSE) # {}
      BY <2>1, <2>2
    <3> QED BY <1>9, <2>3, <3>1 DEF NodeOk
  <2>5. node[n].mem = "live" /\ node[n].proc
    <3>1. node[n].mem \in {"live", "reap"}
      BY <1>9, <2>4 DEF NodeOk
    <3> QED BY <2>3, <3>1, OpenTree
  <2>6. /\ held[n] \in HeldType /\ held[n].target \in Nat /\ held[n].strong \in Nat /\ held[n].weak \in Nat
        /\ held[n].strong + 1 \in Nat /\ held[n].weak + 1 \in Nat
    BY TypeFacts DEF RefInv, HeldType
  <2>7. PICK h : h = IF strong THEN [held[n] EXCEPT !.strong = held[n].strong + 1]
                               ELSE [held[n] EXCEPT !.weak = held[n].weak + 1]
    OBVIOUS
  <2>8. /\ h \in HeldType /\ h.target = held[n].target
        /\ strong => h.strong = held[n].strong + 1 /\ h.weak = held[n].weak
        /\ ~strong => h.strong = held[n].strong /\ h.weak = held[n].weak + 1
    <3>1. CASE strong
      BY <2>6, <2>7, <3>1 DEF HeldType
    <3>2. CASE ~strong
      BY <2>6, <2>7, <3>2 DEF HeldType
    <3> QED BY <3>1, <3>2
  <2>9. Hold(n, h)
    <3>1. CASE strong
      BY <1>2, <1>12, <2>1, <2>7, <3>1 DEF Deliver, Hold
    <3>2. CASE ~strong
      BY <1>2, <1>12, <2>1, <2>7, <3>2 DEF Deliver, Hold
    <3> QED BY <3>1, <3>2
  <2>10. PICK e : e = node[n] /\ Set(n, e)
    BY <1>6 DEF RefInv, Types, TypeOK, Set
  <2>11. /\ Moves(a, Server, n) /\ job'[a] = j /\ node'[n] = e /\ held'[n] = h
         /\ held' \in [Nodes -> HeldType] /\ \A b \in Tasks : b # a => job'[b] = job[b]
    <3>1. job[a].node \in {n, None} /\ j.node \in {n, None} /\ j \in JobType /\ h \in HeldType
      BY <1>2, <1>4, <2>8
    <3>2. UNCHANGED <<life, ref, olock, lost, calls>> /\ Become(a, j)
      BY <1>5, <1>6 DEF Become
    <3> QED BY ONLY RefInv, a \in Tasks, n \in Nodes, <2>9, <2>10, <3>1, <3>2, HeldMoves
  <2>12. PICK k \in Int, l \in Int : k = (IF strong THEN 1 ELSE 0) /\ l = (IF strong THEN 0 ELSE 1)
    OBVIOUS
  <2>13. PICK g \in Int, i \in Int : g = (IF strong THEN -1 ELSE 0) /\ i = (IF strong THEN 0 ELSE -1)
    OBVIOUS
  <2>14. TaskPart(a, n, g, i)
    <3>1. CASE strong
      <4>1. g = -1 /\ i = 0
        BY <2>13, <3>1
      <4>2. TaskPart(a, n, -1, 0)
        BY <1>7, <2>2, <3>1 DEF TaskPart, One
      <4> QED BY <4>1, <4>2
    <3>2. CASE ~strong
      <4>1. g = 0 /\ i = -1
        BY <2>13, <3>2
      <4>2. TaskPart(a, n, 0, -1)
        BY <1>7, <2>2, <3>2 DEF TaskPart, One
      <4> QED BY <4>1, <4>2
    <3> QED BY <3>1, <3>2
  <2>15. BufferPart(n, k, l)
    <3>1. CASE strong
      <4>1. k = 1 /\ l = 0
        BY <2>12, <3>1
      <4> QED BY <2>6, <2>8, <2>11, <3>1, <4>1 DEF BufferPart
    <3>2. CASE ~strong
      <4>1. k = 0 /\ l = 1
        BY <2>12, <3>2
      <4> QED BY <2>6, <2>8, <2>11, <3>2, <4>1 DEF BufferPart
    <3> QED BY <3>1, <3>2
  <2>16. PICK x \in Int, y \in Int : x = node[n].strong + g + k /\ y = node[n].weak + i + l
                                     /\ LocalsMove(a, n, x, y)
    BY <2>5, <2>11, <2>13, <2>14, <2>15, MoveLocals
  <2>17. node[n].strong \in Int /\ node[n].weak \in Int /\ node[n].tmp \in Nat
    BY <1>9 DEF NodeType
  <2>18. x = node[n].strong /\ y = node[n].weak
    <3>1. CASE strong
      <4>1. g = -1 /\ i = 0 /\ k = 1 /\ l = 0
        BY <2>12, <2>13, <3>1
      <4> QED BY <2>16, <2>17, <4>1
    <3>2. CASE ~strong
      <4>1. g = 0 /\ i = -1 /\ k = 0 /\ l = 1
        BY <2>12, <2>13, <3>2
      <4> QED BY <2>16, <2>17, <4>1
    <3> QED BY <3>1, <3>2
  <2>19. Erased(n)' = Erased(n)
    BY <1>1, <1>4, <1>5, ErasedSame
  <2>20. LocalsAre(e, node[n], x, y) /\ TmpPart(a, n, e.tmp) /\ Alike(e, node[n])
    <3>1. TmpPart(a, n, node[n].tmp)
      BY <1>7, <2>17 DEF TmpPart, One
    <3> QED BY <2>10, <2>18, <3>1 DEF LocalsAre, Alike
  <2>21. Fits(e, a, Server, n)
    <3>1. ref' = ref /\ e \in NodeType
      BY <1>6, <1>9, <2>10
    <3> QED BY <2>5, <2>11, <2>16, <2>19, <2>20, <3>1, RecordFits
  <2>22. Kept(e, Refs(n), lost[n])
    BY <1>9, <2>5, <2>10 DEF NodeOk
  <2>23. ref' = ref
    BY <1>6
  <2> QED BY <1>8, <2>5, <2>11, <2>21, <2>22, <2>23, HeldKeeps
<1> QED BY <1>1, <1>11, <1>12

\* The server frees a buffer: its node loses a count, and may end with it.
LEMMA FreeTargetOk ==
  ASSUME RefInv, NEW a \in Locals, NEW n \in Nodes, FreeTarget(a, n)
  PROVE  RefInv'
<1>1. /\ a \in Tasks /\ job[a].pc = "idle" /\ life[Server] = "open" /\ node[n].mem = "live"
      /\ held[n].target > 0 /\ UNCHANGED <<life, ref, olock, job, lost, calls>>
  BY Marks DEF FreeTarget, Ready, Unlocked
<1>2. PICK j : j = job[a]
  OBVIOUS
<1>3. j \in JobType /\ job' = [job EXCEPT ![a] = j] /\ j.node = None /\ job[a].node = None /\ j.pc # "release"
  BY <1>1, <1>2, TypeFacts, IdleTask DEF RefInv, Types
<1>4. node[n].proc /\ node[n].tree
  BY <1>1, OpenTree
<1>5. /\ held[n] \in HeldType /\ held[n].target \in Nat /\ held[n].strong \in Nat /\ held[n].weak \in Nat
      /\ held[n].target - 1 \in Nat
  BY <1>1, TypeFacts DEF RefInv, HeldType
<1>6. PICK h : h = [held[n] EXCEPT !.target = held[n].target - 1]
  OBVIOUS
<1>7. h \in HeldType /\ h.target = held[n].target - 1 /\ h.strong = held[n].strong /\ h.weak = held[n].weak
  BY <1>5, <1>6 DEF HeldType
<1>8. PICK e : e = DecNode(node[n], TRUE, FALSE, Refs(n)) /\ Set(n, e) /\ Hold(n, h)
  BY <1>6 DEF FreeTarget, Hold
<1>9. /\ Moves(a, Server, n) /\ job'[a] = j /\ node'[n] = e /\ held'[n] = h /\ Refs(n)' = Refs(n)
      /\ held' \in [Nodes -> HeldType] /\ \A b \in Tasks : b # a => job'[b] = job[b]
  <2>1. job[a].node \in {n, None} /\ j.node \in {n, None} /\ j \in JobType /\ h \in HeldType
    BY <1>3, <1>7
  <2>2. UNCHANGED <<life, ref, olock, lost, calls>> /\ Become(a, j)
    BY <1>1, <1>3 DEF Become
  <2>3. a \in Tasks /\ Set(n, e) /\ Hold(n, h)
    BY <1>1, <1>8
  <2> QED BY ONLY RefInv, n \in Nodes, <2>1, <2>2, <2>3, HeldMoves
<1>10. /\ a \notin Temporary(n) /\ a \notin Calling(n) /\ a \notin Carried(n, TRUE) /\ a \notin Carried(n, FALSE)
  BY <1>1, IdleTask
<1>11. /\ a \notin Temporary(n)' /\ a \notin Calling(n)' /\ a \notin Carried(n, TRUE)'
       /\ a \notin Carried(n, FALSE)'
  BY <1>1, <1>9, <1>2 DEF Temporary, Calling, Carried, Users
<1>12. JobSound(a)'
  <2>1. JobSound(a)
    BY <1>1 DEF RefInv
  <2> QED BY <1>1, <1>2, <1>9, <2>1, IdleTask DEF JobSound, Idle
<1>13. TaskPart(a, n, 0, 0)
  BY <1>10, <1>11 DEF TaskPart, One
<1>14. BufferPart(n, -1, 0)
  BY <1>5, <1>7, <1>9 DEF BufferPart
<1>15. PICK x \in Int, y \in Int : x = node[n].strong + 0 + (-1) /\ y = node[n].weak + 0 + 0
                                   /\ LocalsMove(a, n, x, y)
  <2>1. -1 \in Int /\ 0 \in Int
    OBVIOUS
  <2> QED BY <1>1, <1>9, <1>13, <1>14, <2>1, MoveLocals
<1>16. node[n] \in NodeType /\ node[n].strong \in Int /\ node[n].weak \in Int /\ node[n].tmp \in Nat
  BY <1>1, LiveFacts DEF NodeType
<1>17. x = node[n].strong - 1 /\ y = node[n].weak
  BY <1>15, <1>16
<1>18. PICK d : d = WithLocals(node[n], x, y)
  OBVIOUS
<1>19. e = Settle(d, TRUE, Refs(n))
  <2>1. DecNode(node[n], TRUE, FALSE, Refs(n))
          = Settle(WithLocals(node[n], node[n].strong - 1, node[n].weak), TRUE, Refs(n))
    BY <1>16, DecLocal
  <2> QED BY <1>8, <1>17, <1>18, <2>1
<1>20. Erased(n)' = Erased(n)
  BY <1>1 DEF Erased
<1>21. Fits(d, a, Server, n) /\ d.mem = "live"
  <2>1. ref' = ref
    BY <1>1
  <2>2. a \in Temporary(n)' <=> a \in Temporary(n)
    BY <1>10, <1>11
  <2> QED BY <1>1, <1>4, <1>9, <1>15, <1>18, <1>20, <2>1, <2>2, LocalFits
<1>22. /\ NodeOk(n)' /\ node'[n] \in NodeType
       /\ (node[n].mgr => node'[n].mgr) /\ node'[n].ptr = node[n].ptr /\ (node'[n].tree => node[n].tree)
  <2>1. PICK refs : refs = Refs(n)' /\ node'[n] = Settle(d, TRUE, refs)
    BY <1>9, <1>19
  <2>2. a \in Tasks /\ node[n].mem = "live" /\ TRUE \in BOOLEAN /\ Server \in Procs
    BY <1>1, Marks
  <2> QED BY ONLY RefInv, n \in Nodes, <1>9, <1>12, <1>21, <2>1, <2>2, SettleStep
<1>23. ref'[Server][n] = ref[Server][n] /\ (ref[Server][n].desc = -1 => ref[Server][n] = NoRef)
  BY <1>1, Marks DEF RefInv, RefsSound
<1> QED BY <1>1, <1>9, <1>12, <1>22, <1>23, Marks, OneStep

\* An object in a buffer of the server is released: a task takes its count over.
LEMMA FreeObjectOk ==
  ASSUME RefInv, NEW a \in Locals, NEW n \in Nodes, NEW strong \in BOOLEAN, FreeObject(a, n, strong)
  PROVE  RefInv'
<1>1. /\ a \in Tasks /\ job[a].pc = "idle" /\ life[Server] = "open"
      /\ (strong => held[n].strong > 0) /\ (~strong => held[n].weak > 0)
      /\ UNCHANGED <<life, ref, olock, lost, calls>>
  BY Marks DEF FreeObject, Ready
<1>2. node[n].mem = "live" /\ node[n].proc /\ node[n].tree
  <2>1. held[n] # NoHeld
    BY <1>1 DEF NoHeld
  <2>2. node[n].mem \in {"live", "reap"}
    BY <2>1 DEF RefInv, NodeOk
  <2> QED BY <1>1, <2>2, OpenTree
<1>3. PICK j : j = [Idle EXCEPT !.pc = "drop", !.node = n, !.strong = strong]
  OBVIOUS
<1>4. /\ j \in JobType /\ j.pc = "drop" /\ j.node = n /\ j.next = "idle" /\ j.list = "none"
      /\ j.strong = strong
  BY <1>3 DEF Idle, JobType
<1>5. node[n] \in NodeType /\ node[n].strong \in Int /\ node[n].weak \in Int /\ node[n].tmp \in Nat
      /\ node[n].tmp + 1 \in Nat
  BY <1>2, LiveFacts DEF NodeType
<1>6. PICK e : e = [node[n] EXCEPT !.tmp = node[n].tmp + 1] /\ Set(n, e) /\ Become(a, j)
  BY <1>2, <1>3 DEF FreeObject, ReleaseBinder, Set
<1>7. /\ e \in NodeType /\ e.tmp = node[n].tmp + 1 /\ Alike(e, node[n])
      /\ e.strong = node[n].strong /\ e.weak = node[n].weak /\ e.pend_s = node[n].pend_s
      /\ e.pend_w = node[n].pend_w
  BY <1>5, <1>6, TmpRecord
<1>8. /\ held[n] \in HeldType /\ held[n].target \in Nat /\ held[n].strong \in Nat /\ held[n].weak \in Nat
  BY TypeFacts DEF RefInv, HeldType
<1>9. PICK h : h = IF strong THEN [held[n] EXCEPT !.strong = held[n].strong - 1]
                             ELSE [held[n] EXCEPT !.weak = held[n].weak - 1]
  OBVIOUS
<1>10. /\ h \in HeldType /\ h.target = held[n].target
       /\ strong => h.strong = held[n].strong - 1 /\ h.weak = held[n].weak
       /\ ~strong => h.strong = held[n].strong /\ h.weak = held[n].weak - 1
  <2>1. CASE strong
    <3>1. held[n].strong - 1 \in Nat
      BY <1>1, <1>8, <2>1
    <3> QED BY <1>8, <1>9, <2>1, <3>1 DEF HeldType
  <2>2. CASE ~strong
    <3>1. held[n].weak - 1 \in Nat
      BY <1>1, <1>8, <2>2
    <3> QED BY <1>8, <1>9, <2>2, <3>1 DEF HeldType
  <2> QED BY <2>1, <2>2
<1>11. Hold(n, h)
  <2>1. CASE strong
    BY <1>9, <2>1 DEF FreeObject, Hold
  <2>2. CASE ~strong
    BY <1>9, <2>2 DEF FreeObject, Hold
  <2> QED BY <2>1, <2>2
<1>12. /\ a \notin Temporary(n) /\ a \notin Calling(n) /\ a \notin Carried(n, TRUE) /\ a \notin Carried(n, FALSE)
       /\ job[a].node = None /\ job[a].pc # "release"
  BY <1>1, IdleTask
<1>13. /\ Moves(a, Server, n) /\ job'[a] = j /\ node'[n] = e /\ held'[n] = h
       /\ held' \in [Nodes -> HeldType] /\ \A b \in Tasks : b # a => job'[b] = job[b]
  <2>1. job[a].node \in {n, None} /\ j.node \in {n, None} /\ j \in JobType /\ h \in HeldType
    BY <1>4, <1>10, <1>12
  <2>2. UNCHANGED <<life, ref, olock, lost, calls>> /\ a \in Tasks /\ Set(n, e) /\ Become(a, j)
    BY <1>1, <1>6
  <2> QED BY ONLY RefInv, n \in Nodes, <1>11, <2>1, <2>2, HeldMoves
<1>14. /\ a \in Temporary(n)' /\ a \notin Calling(n)'
       /\ strong => a \in Carried(n, TRUE)' /\ a \notin Carried(n, FALSE)'
       /\ ~strong => a \notin Carried(n, TRUE)' /\ a \in Carried(n, FALSE)'
  BY <1>1, <1>4, <1>13 DEF Temporary, Calling, Carried, Users
<1>15. JobSound(a)'
  BY <1>1, <1>4, <1>13 DEF JobSound
<1>16. PICK k \in Int, l \in Int : k = (IF strong THEN 1 ELSE 0) /\ l = (IF strong THEN 0 ELSE 1)
  OBVIOUS
<1>17. PICK g \in Int, i \in Int : g = (IF strong THEN -1 ELSE 0) /\ i = (IF strong THEN 0 ELSE -1)
  OBVIOUS
<1>18. TaskPart(a, n, k, l)
  <2>1. CASE strong
    <3>1. k = 1 /\ l = 0
      BY <1>16, <2>1
    <3>2. TaskPart(a, n, 1, 0)
      BY <1>12, <1>14, <2>1 DEF TaskPart, One
    <3> QED BY <3>1, <3>2
  <2>2. CASE ~strong
    <3>1. k = 0 /\ l = 1
      BY <1>16, <2>2
    <3>2. TaskPart(a, n, 0, 1)
      BY <1>12, <1>14, <2>2 DEF TaskPart, One
    <3> QED BY <3>1, <3>2
  <2> QED BY <2>1, <2>2
<1>19. BufferPart(n, g, i)
  <2>1. CASE strong
    <3>1. g = -1 /\ i = 0
      BY <1>17, <2>1
    <3> QED BY <1>8, <1>10, <1>13, <2>1, <3>1 DEF BufferPart
  <2>2. CASE ~strong
    <3>1. g = 0 /\ i = -1
      BY <1>17, <2>2
    <3> QED BY <1>8, <1>10, <1>13, <2>2, <3>1 DEF BufferPart
  <2> QED BY <2>1, <2>2
<1>20. PICK x \in Int, y \in Int : x = node[n].strong + k + g /\ y = node[n].weak + l + i
                                   /\ LocalsMove(a, n, x, y)
  BY <1>2, <1>13, <1>18, <1>19, MoveLocals
<1>21. x = node[n].strong /\ y = node[n].weak
  <2>1. CASE strong
    <3>1. g = -1 /\ i = 0 /\ k = 1 /\ l = 0
      BY <1>16, <1>17, <2>1
    <3> QED BY <1>5, <1>20, <3>1
  <2>2. CASE ~strong
    <3>1. g = 0 /\ i = -1 /\ k = 0 /\ l = 1
      BY <1>16, <1>17, <2>2
    <3> QED BY <1>5, <1>20, <3>1
  <2> QED BY <2>1, <2>2
<1>22. Erased(n)' = Erased(n)
  BY <1>1, <1>4, <1>13, <1>12, ErasedSame
<1>23. LocalsAre(e, node[n], x, y) /\ TmpPart(a, n, e.tmp)
  <2>1. TmpPart(a, n, e.tmp)
    BY <1>5, <1>7, <1>12, <1>14 DEF TmpPart, One
  <2> QED BY <1>7, <1>21, <2>1 DEF LocalsAre
<1>24. Fits(e, a, Server, n)
  <2>1. ref' = ref
    BY <1>1
  <2> QED BY <1>1, <1>2, <1>7, <1>13, <1>20, <1>22, <1>23, <2>1, RecordFits
<1>25. Kept(e, Refs(n), lost[n])
  BY <1>5, <1>7 DEF Kept, Unused
<1>26. ref' = ref /\ a \in Tasks
  BY <1>1
<1> QED BY <1>2, <1>13, <1>15, <1>24, <1>25, <1>26, HeldKeeps

-----------------------------------------------------------------------------
(* The end of a dead node, and the owner's read.                           *)

\* A step that no task takes notice of.
LEMMA NodeMoves ==
  ASSUME RefInv, NEW a \in Tasks, NEW n \in Nodes, NEW e, Set(n, e),
         UNCHANGED <<life, ref, olock, job, held, lost, calls>>
  PROVE  /\ Moves(a, Server, n) /\ node'[n] = e /\ ref' = ref
         /\ Refs(n)' = Refs(n) /\ Counted(n)' = Counted(n) /\ Erased(n)' = Erased(n)
         /\ Temporary(n)' = Temporary(n) /\ Calling(n)' = Calling(n)
         /\ Carried(n, TRUE)' = Carried(n, TRUE) /\ Carried(n, FALSE)' = Carried(n, FALSE)
         /\ Users(n)' = Users(n)
<1>1. /\ node' = [m \in Nodes |-> node'[m]] /\ \A m \in Nodes : m # n => node'[m] = node[m]
      /\ node'[n] = e
  BY DEF RefInv, Types, TypeOK, Set
<1>2. Moves(a, Server, n)
  BY <1>1 DEF Moves, RefInv, Types, TypeOK, RefType
<1>3. Refs(n)' = Refs(n) /\ Counted(n)' = Counted(n) /\ Erased(n)' = Erased(n)
  BY DEF Refs, Counted, Erased
<1>4. Users(n)' = Users(n)
  BY DEF Users
<1>5. /\ Temporary(n)' = Temporary(n) /\ Calling(n)' = Calling(n)
      /\ Carried(n, TRUE)' = Carried(n, TRUE) /\ Carried(n, FALSE)' = Carried(n, FALSE)
  BY <1>4 DEF Temporary, Calling, Carried
<1> QED BY <1>1, <1>2, <1>3, <1>4, <1>5

\* The same for its place in its call.
LEMMA SameJob ==
  ASSUME RefInv, NEW a \in Tasks, NEW n \in Nodes, Moves(a, Server, n), job' = job, ref' = ref, olock' = olock,
         node[n].mgr => node'[n].mgr
  PROVE  \A b \in Tasks : JobSound(b)' /\ job'[b] \in JobType
<1>1. \A b \in Tasks : b # a => JobSound(b)'
  BY Marks, OtherTasks
<1>2. JobSound(a) /\ life' = life /\ \A m \in Nodes : node[m].mgr => node'[m].mgr
  BY DEF RefInv, Moves
<1>3. job[a].pc \in {"ref", "alloc"} => job[a].node \in Nodes
  BY <1>2 DEF JobSound
<1>4. JobSound(a)'
  BY <1>2, <1>3 DEF JobSound
<1> QED BY <1>1, <1>4, TypeFacts DEF RefInv

\* Somebody took a temporary reference between the two locks, or the node is freed.
LEMMA ReapOk ==
  ASSUME RefInv, NEW n \in Nodes, Reap(n)
  PROVE  RefInv'
<1>1. node[n].mem = "reap" /\ UNCHANGED <<life, ref, olock, job, held, lost, calls>>
  BY DEF Reap
<1>2. PICK a \in Tasks : TRUE
  BY Marks
<1>3. PICK e : e = [node[n] EXCEPT !.mem = IF node[n].tmp # 0 THEN "live" ELSE "freed"] /\ Set(n, e)
  BY DEF Reap
<1>4. /\ Moves(a, Server, n) /\ node'[n] = e /\ ref' = ref
      /\ Refs(n)' = Refs(n) /\ Counted(n)' = Counted(n) /\ Erased(n)' = Erased(n)
      /\ Temporary(n)' = Temporary(n) /\ Calling(n)' = Calling(n)
      /\ Carried(n, TRUE)' = Carried(n, TRUE) /\ Carried(n, FALSE)' = Carried(n, FALSE)
      /\ Users(n)' = Users(n)
  BY <1>1, <1>3, NodeMoves
<1>5. node[n] \in NodeType /\ NodeOk(n) /\ node[n].tmp \in Nat /\ node[n].internal \in Nat
  BY TypeFacts DEF RefInv, NodeType
<1>6. /\ ~node[n].proc /\ ~node[n].tree /\ Refs(n) = {} /\ held[n] = NoHeld /\ node[n].work = "none"
      /\ life[Server] # "open" /\ Told(node[n]) /\ node[n].tmp = Cardinality(Temporary(n))
  BY <1>1, <1>5 DEF NodeOk, Sound
<1>7. /\ e \in NodeType /\ e.mem = (IF node[n].tmp # 0 THEN "live" ELSE "freed")
      /\ e.ptr = node[n].ptr /\ e.proc = node[n].proc /\ e.tree = node[n].tree /\ e.mgr = node[n].mgr
      /\ e.internal = node[n].internal /\ e.strong = node[n].strong /\ e.weak = node[n].weak
      /\ e.tmp = node[n].tmp /\ e.work = node[n].work
      /\ e.has_s = node[n].has_s /\ e.has_w = node[n].has_w /\ e.pend_s = node[n].pend_s
      /\ e.pend_w = node[n].pend_w
  BY <1>3, <1>5 DEF NodeType
<1>8. Told(e)
  BY <1>6, <1>7 DEF Told
<1>9. \A b \in Tasks : JobSound(b)' /\ job'[b] \in JobType
  BY <1>1, <1>4, <1>7, SameJob
<1>10. CASE node[n].tmp # 0
  <2>1. Counts(e, a, Server, n)
    <3>1. One(ref[Server][n].strong > 0) \in Int /\ One(a \in Temporary(n)) \in Int
      BY OneInt
    <3>2. e.internal = node[n].internal + One(ref'[Server][n].strong > 0) - One(ref[Server][n].strong > 0)
      BY <1>4, <1>5, <1>7, <3>1
    <3>3. e.tmp = node[n].tmp + One(a \in Temporary(n)') - One(a \in Temporary(n))
      BY <1>4, <1>5, <1>7, <3>1
    <3> QED BY <1>6, <1>7, <3>2, <3>3 DEF Counts, TaskCounts
  <2>2. Fits(e, a, Server, n)
    BY <1>1, <1>4, <1>6, <1>7, <1>8, <1>10, <2>1 DEF Fits
  <2>3. Kept(e, Refs(n), lost[n])
    BY <1>7, <1>10 DEF Kept, Unused
  <2> QED BY <1>1, <1>4, <1>9, <2>2, <2>3, HeldKeeps
<1>11. CASE node[n].tmp = 0
  <2>1. Temporary(n) = {}
    <3>1. IsFiniteSet(Temporary(n))
      BY CountedFinite
    <3> QED BY <1>6, <1>11, <3>1, FS_EmptySet
  <2>2. \A b \in Users(n)' : job'[b].pc \in {"sent", "sent_binder"}
    <3> SUFFICES ASSUME NEW b \in Users(n)' PROVE job'[b].pc \in {"sent", "sent_binder"}
      OBVIOUS
    <3>1. b \in Tasks
      BY DEF Users
    <3>2. \/ b \in Temporary(n)' \/ job'[b].pc \in {"sent", "sent_binder"} \/ Refs(n)' # {}
          \/ life'[Server] = "open" /\ node'[n].mgr
      BY <1>9, <3>1, UserKinds
    <3> QED BY <1>1, <1>4, <1>6, <2>1, <3>2
  <2>3. NodeOk(n)'
    <3>1. e.mem = "freed"
      BY <1>7, <1>11
    <3> QED BY <1>1, <1>4, <1>6, <1>7, <1>8, <2>2, <3>1 DEF NodeOk
  <2>4. ref'[Server][n] = ref[Server][n] /\ (ref[Server][n].desc = -1 => ref[Server][n] = NoRef)
    BY <1>1, Marks DEF RefInv, RefsSound
  <2> QED BY <1>4, <1>6, <1>7, <1>9, <2>3, <2>4, Marks, OneStep
<1> QED BY <1>10, <1>11

\* What the owner finds when it reads its work: counts that are not negative and
\* cover what it has not answered.
LEMMA ReadFinds ==
  ASSUME RefInv, NEW n \in Nodes, node[n].mem = "live", node[n].tree
  PROVE  /\ node[n] \in NodeType /\ node[n].strong \in Nat /\ node[n].weak \in Nat /\ node[n].tmp \in Nat
         /\ node[n].internal \in Nat
         /\ (node[n].strong = 0 => LocalStrong(n) = 0 /\ ~node[n].pend_s /\ ~node[n].mgr)
         /\ (node[n].weak = 0 => LocalWeak(n) = 0 /\ ~node[n].pend_w /\ ~node[n].mgr)
         /\ (node[n].internal > 0 => Refs(n) # {})
         /\ (node[n].tmp = 0 => Temporary(n) = {})
         /\ (LocalStrong(n) = 0 /\ LocalWeak(n) = 0 =>
               held[n] = NoHeld /\ Carried(n, TRUE) = {} /\ Carried(n, FALSE) = {})
<1>1. /\ node[n] \in NodeType /\ NodeOk(n) /\ held[n] \in HeldType
  BY TypeFacts DEF RefInv
<1>2. /\ node[n].internal = Cardinality(StrongRefs(n)) /\ node[n].tmp = Cardinality(Temporary(n))
      /\ node[n].strong = LocalStrong(n) + One(node[n].pend_s) + One(node[n].mgr)
      /\ node[n].weak = LocalWeak(n) + One(node[n].pend_w) + One(node[n].mgr)
  BY <1>1 DEF NodeOk, Sound
<1>3. /\ IsFiniteSet(StrongRefs(n)) /\ IsFiniteSet(Temporary(n)) /\ IsFiniteSet(Calling(n))
      /\ IsFiniteSet(Carried(n, TRUE)) /\ IsFiniteSet(Carried(n, FALSE))
  BY CountedFinite
<1>4. PICK x \in Nat, y \in Nat, z \in Nat :
        /\ x = Cardinality(Calling(n)) /\ y = Cardinality(Carried(n, TRUE)) /\ z = Cardinality(Carried(n, FALSE))
        /\ (y = 0 => Carried(n, TRUE) = {}) /\ (z = 0 => Carried(n, FALSE) = {})
  BY <1>3, FS_CardinalityType, FS_EmptySet
<1>5. /\ node[n].tmp \in Nat /\ node[n].internal \in Nat
      /\ (node[n].internal > 0 => StrongRefs(n) # {}) /\ (node[n].tmp = 0 => Temporary(n) = {})
  BY <1>2, <1>3, FS_CardinalityType, FS_EmptySet
<1>6. StrongRefs(n) \subseteq Refs(n)
  BY DEF StrongRefs, Refs, NoRef
<1>7. PICK i \in Nat, k \in Nat, l \in Nat : held[n].target = i /\ held[n].strong = k /\ held[n].weak = l
  BY <1>1 DEF HeldType
<1>8. LocalStrong(n) = i + k + x + y /\ LocalWeak(n) = l + z
  BY <1>4, <1>7 DEF LocalStrong, LocalWeak
<1>9. /\ LocalStrong(n) \in Nat /\ LocalWeak(n) \in Nat
      /\ (LocalStrong(n) = 0 => i = 0 /\ k = 0 /\ y = 0) /\ (LocalWeak(n) = 0 => l = 0 /\ z = 0)
  BY ONLY <1>8, i \in Nat, k \in Nat, l \in Nat, x \in Nat, y \in Nat, z \in Nat
<1>10. i = 0 /\ k = 0 /\ l = 0 => held[n] = NoHeld
  BY <1>1, <1>7 DEF HeldType, NoHeld
<1>11. PICK s \in Nat, w \in Nat, b \in Nat, c \in Nat, m \in Nat :
         /\ s = LocalStrong(n) /\ w = LocalWeak(n) /\ b = One(node[n].pend_s) /\ c = One(node[n].pend_w)
         /\ m = One(node[n].mgr) /\ (b = 0 => ~node[n].pend_s) /\ (c = 0 => ~node[n].pend_w)
         /\ (m = 0 => ~node[n].mgr)
  BY <1>9 DEF One
<1>12. node[n].strong = s + b + m /\ node[n].weak = w + c + m
  BY <1>2, <1>11
<1>13. /\ node[n].strong \in Nat /\ node[n].weak \in Nat
       /\ (node[n].strong = 0 => s = 0 /\ b = 0 /\ m = 0) /\ (node[n].weak = 0 => w = 0 /\ c = 0 /\ m = 0)
  <2>1. PICK u \in Nat, v \in Nat : u = s + b + m /\ v = w + c + m
    OBVIOUS
  <2>2. (u = 0 => s = 0 /\ b = 0 /\ m = 0) /\ (v = 0 => w = 0 /\ c = 0 /\ m = 0)
    BY ONLY <2>1, s \in Nat, w \in Nat, b \in Nat, c \in Nat, m \in Nat, u \in Nat, v \in Nat
  <2> QED BY <1>12, <2>1, <2>2
<1> QED BY <1>1, <1>4, <1>5, <1>6, <1>9, <1>10, <1>11, <1>13

\* The owner's new record, before the node is freed or kept.
ReadRecord(d, s, w) ==
  [d EXCEPT !.work = "none", !.has_s = s, !.has_w = w,
            !.pend_w = IF w /\ ~d.has_w THEN TRUE ELSE @, !.weak = IF w /\ ~d.has_w THEN @ + 1 ELSE @,
            !.pend_s = IF s /\ ~d.has_s THEN TRUE ELSE @, !.strong = IF s /\ ~d.has_s THEN @ + 1 ELSE @]
Reads(e, d, s, w) ==
  /\ e \in NodeType /\ e.work = "none" /\ e.has_s = s /\ e.has_w = w
  /\ e.mem = d.mem /\ e.ptr = d.ptr /\ e.proc = d.proc /\ e.tree = d.tree /\ e.mgr = d.mgr
  /\ e.internal = d.internal /\ e.tmp = d.tmp
  /\ e.pend_w = (IF w /\ ~d.has_w THEN TRUE ELSE d.pend_w)
  /\ e.weak = (IF w /\ ~d.has_w THEN d.weak + 1 ELSE d.weak)
  /\ e.pend_s = (IF s /\ ~d.has_s THEN TRUE ELSE d.pend_s)
  /\ e.strong = (IF s /\ ~d.has_s THEN d.strong + 1 ELSE d.strong)

\* Its fields.
LEMMA ReadFields ==
  ASSUME NEW d \in NodeType, d.strong \in Nat, d.weak \in Nat, NEW s \in BOOLEAN, NEW w \in BOOLEAN,
         NEW e, e = ReadRecord(d, s, w)
  PROVE  Reads(e, d, s, w)
<1>1. PICK pw, lw, ps, ls : /\ pw = (IF w /\ ~d.has_w THEN TRUE ELSE d.pend_w)
                            /\ lw = (IF w /\ ~d.has_w THEN d.weak + 1 ELSE d.weak)
                            /\ ps = (IF s /\ ~d.has_s THEN TRUE ELSE d.pend_s)
                            /\ ls = (IF s /\ ~d.has_s THEN d.strong + 1 ELSE d.strong)
  OBVIOUS
<1>2. pw \in BOOLEAN /\ lw \in Int /\ ps \in BOOLEAN /\ ls \in Int
  <2>1. pw \in BOOLEAN /\ ps \in BOOLEAN
    BY <1>1 DEF NodeType
  <2>2. lw \in Int /\ ls \in Int
    BY <1>1
  <2> QED BY <2>1, <2>2
<1>3. e = [d EXCEPT !.work = "none", !.has_s = s, !.has_w = w, !.pend_w = pw, !.weak = lw,
                    !.pend_s = ps, !.strong = ls]
  BY <1>1 DEF ReadRecord, NodeType
<1>4. /\ e \in NodeType /\ e.work = "none" /\ e.has_s = s /\ e.has_w = w
      /\ e.mem = d.mem /\ e.ptr = d.ptr /\ e.proc = d.proc /\ e.tree = d.tree /\ e.mgr = d.mgr
      /\ e.internal = d.internal /\ e.tmp = d.tmp
      /\ e.pend_w = pw /\ e.weak = lw /\ e.pend_s = ps /\ e.strong = ls
  <2>1. PICK f : f = [d EXCEPT !.work = "none", !.has_s = s, !.has_w = w]
    OBVIOUS
  <2>2. PICK g : g = [f EXCEPT !.pend_w = pw, !.weak = lw]
    OBVIOUS
  <2>3. e = [g EXCEPT !.pend_s = ps, !.strong = ls]
    BY <1>3, <2>1, <2>2
  <2>4. /\ f \in NodeType /\ f.work = "none" /\ f.has_s = s /\ f.has_w = w
        /\ f.mem = d.mem /\ f.ptr = d.ptr /\ f.proc = d.proc /\ f.tree = d.tree /\ f.mgr = d.mgr
        /\ f.internal = d.internal /\ f.tmp = d.tmp
    BY ONLY d \in NodeType, s \in BOOLEAN, w \in BOOLEAN, <2>1 DEF NodeType
  <2>5. /\ g \in NodeType /\ g.work = f.work /\ g.has_s = f.has_s /\ g.has_w = f.has_w
        /\ g.mem = f.mem /\ g.ptr = f.ptr /\ g.proc = f.proc /\ g.tree = f.tree /\ g.mgr = f.mgr
        /\ g.internal = f.internal /\ g.tmp = f.tmp /\ g.pend_w = pw /\ g.weak = lw
    BY ONLY <1>2, <2>2, <2>4 DEF NodeType
  <2>6. /\ e \in NodeType /\ e.work = g.work /\ e.has_s = g.has_s /\ e.has_w = g.has_w
        /\ e.mem = g.mem /\ e.ptr = g.ptr /\ e.proc = g.proc /\ e.tree = g.tree /\ e.mgr = g.mgr
        /\ e.internal = g.internal /\ e.tmp = g.tmp /\ e.pend_w = g.pend_w /\ e.weak = g.weak
        /\ e.pend_s = ps /\ e.strong = ls
    BY ONLY <1>2, <2>3, <2>5 DEF NodeType
  <2> QED BY <2>4, <2>5, <2>6
<1> QED BY <1>1, <1>4 DEF Reads

\* BINDER_WORK_NODE: the owner is told what has changed, or frees its node.
LEMMA ReadNodeOk ==
  ASSUME RefInv, NEW a \in Locals, NEW n \in Nodes, ReadNode(a, n)
  PROVE  /\ RefInv'
         /\ \A m \in Nodes : /\ node[m].has_s /\ ~node'[m].has_s => ~node[m].pend_s
                             /\ node[m].has_w /\ ~node'[m].has_w => ~node[m].pend_w /\ ~node'[m].has_s
<1>1. /\ a \in Tasks /\ life[Server] = "open" /\ node[n].mem = "live"
      /\ UNCHANGED <<life, ref, olock, job, held, lost, calls>>
  BY Marks DEF ReadNode, Ready, Unlocked
<1>2. node[n].tree /\ node[n].proc
  BY <1>1, OpenTree
<1>3. /\ node[n] \in NodeType /\ node[n].strong \in Nat /\ node[n].weak \in Nat /\ node[n].tmp \in Nat
      /\ node[n].internal \in Nat
      /\ (node[n].strong = 0 => LocalStrong(n) = 0 /\ ~node[n].pend_s /\ ~node[n].mgr)
      /\ (node[n].weak = 0 => LocalWeak(n) = 0 /\ ~node[n].pend_w /\ ~node[n].mgr)
      /\ (node[n].internal > 0 => Refs(n) # {})
      /\ (node[n].tmp = 0 => Temporary(n) = {})
      /\ (LocalStrong(n) = 0 /\ LocalWeak(n) = 0 =>
            held[n] = NoHeld /\ Carried(n, TRUE) = {} /\ Carried(n, FALSE) = {})
  BY <1>1, <1>2, ReadFinds
<1>4. PICK s \in BOOLEAN, w \in BOOLEAN : s = HasStrong(node[n]) /\ w = HasWeak(node[n], Refs(n))
  BY DEF HasStrong, HasWeak
<1>5. /\ s <=> (node[n].internal # 0 \/ node[n].strong # 0)
      /\ w <=> (Refs(n) # {} \/ node[n].weak # 0 \/ node[n].tmp # 0 \/ s)
  BY <1>4 DEF HasStrong, HasWeak
<1>6. PICK e : e = ReadRecord(node[n], s, w)
  OBVIOUS
<1>7. Set(n, IF w \/ s THEN e ELSE [e EXCEPT !.tree = FALSE, !.mem = "freed"])
  BY <1>4, <1>6 DEF ReadNode, ReadRecord
<1>8. /\ e \in NodeType /\ e.work = "none" /\ e.has_s = s /\ e.has_w = w
      /\ e.mem = "live" /\ e.ptr = node[n].ptr /\ e.proc = node[n].proc /\ e.tree = node[n].tree /\ e.mgr = node[n].mgr
      /\ e.internal = node[n].internal /\ e.tmp = node[n].tmp
      /\ e.pend_w = (IF w /\ ~node[n].has_w THEN TRUE ELSE node[n].pend_w)
      /\ e.weak = (IF w /\ ~node[n].has_w THEN node[n].weak + 1 ELSE node[n].weak)
      /\ e.pend_s = (IF s /\ ~node[n].has_s THEN TRUE ELSE node[n].pend_s)
      /\ e.strong = (IF s /\ ~node[n].has_s THEN node[n].strong + 1 ELSE node[n].strong)
  <2>1. node[n] \in NodeType /\ node[n].strong \in Nat /\ node[n].weak \in Nat
    BY <1>3
  <2>2. /\ e \in NodeType /\ e.work = "none" /\ e.has_s = s /\ e.has_w = w
        /\ e.mem = node[n].mem /\ e.ptr = node[n].ptr /\ e.proc = node[n].proc /\ e.tree = node[n].tree
        /\ e.mgr = node[n].mgr /\ e.internal = node[n].internal /\ e.tmp = node[n].tmp
        /\ e.pend_w = (IF w /\ ~node[n].has_w THEN TRUE ELSE node[n].pend_w)
        /\ e.weak = (IF w /\ ~node[n].has_w THEN node[n].weak + 1 ELSE node[n].weak)
        /\ e.pend_s = (IF s /\ ~node[n].has_s THEN TRUE ELSE node[n].pend_s)
        /\ e.strong = (IF s /\ ~node[n].has_s THEN node[n].strong + 1 ELSE node[n].strong)
    <3>1. Reads(e, node[n], s, w)
      BY ONLY <1>6, <2>1, s \in BOOLEAN, w \in BOOLEAN, ReadFields
    <3> QED BY <3>1 DEF Reads
  <2> QED BY <1>1, <2>2
<1>9. Told(node[n]) /\ node[n].pend_s \in BOOLEAN /\ node[n].pend_w \in BOOLEAN
      /\ node[n].has_s \in BOOLEAN /\ node[n].has_w \in BOOLEAN
  BY <1>1, <1>3, LiveFacts DEF NodeType
<1>10. (node[n].pend_s => s) /\ (node[n].pend_w => w)
  BY <1>3, <1>5
<1>11. Told(e)
  BY <1>5, <1>8, <1>9, <1>10 DEF Told
<1>12. /\ node[n].has_s /\ ~e.has_s => ~node[n].pend_s
       /\ node[n].has_w /\ ~e.has_w => ~node[n].pend_w /\ ~e.has_s
  BY <1>5, <1>8, <1>10
<1>13. CASE w
  <2>1. Set(n, e)
    BY <1>7, <1>13
  <2>2. /\ Moves(a, Server, n) /\ node'[n] = e /\ ref' = ref
        /\ Refs(n)' = Refs(n) /\ Counted(n)' = Counted(n) /\ Erased(n)' = Erased(n)
        /\ Temporary(n)' = Temporary(n) /\ Calling(n)' = Calling(n)
        /\ Carried(n, TRUE)' = Carried(n, TRUE) /\ Carried(n, FALSE)' = Carried(n, FALSE)
    BY <1>1, <2>1, NodeMoves
  <2>3. e.strong - One(e.pend_s) = node[n].strong - One(node[n].pend_s)
    <3>1. CASE s /\ ~node[n].has_s
      <4>1. e.strong = node[n].strong + 1 /\ e.pend_s /\ ~node[n].pend_s
        BY <1>8, <1>9, <3>1 DEF Told
      <4> QED BY <1>3, <4>1 DEF One
    <3>2. CASE ~(s /\ ~node[n].has_s)
      <4>1. e.strong = node[n].strong /\ e.pend_s = node[n].pend_s
        BY <1>8, <3>2
      <4> QED BY <4>1
    <3> QED BY <3>1, <3>2
  <2>4. e.weak - One(e.pend_w) = node[n].weak - One(node[n].pend_w)
    <3>1. CASE ~node[n].has_w
      <4>1. e.weak = node[n].weak + 1 /\ e.pend_w /\ ~node[n].pend_w
        BY <1>8, <1>9, <1>13, <3>1 DEF Told
      <4> QED BY <1>3, <4>1 DEF One
    <3>2. CASE node[n].has_w
      <4>1. e.weak = node[n].weak /\ e.pend_w = node[n].pend_w
        BY <1>8, <3>2
      <4> QED BY <4>1
    <3> QED BY <3>1, <3>2
  <2>5. Counts(e, a, Server, n)
    <3>1. One(ref[Server][n].strong > 0) \in Int /\ One(a \in Temporary(n)) \in Int
      BY OneInt
    <3>2. e.internal = node[n].internal + One(ref'[Server][n].strong > 0) - One(ref[Server][n].strong > 0)
      BY <1>3, <1>8, <2>2, <3>1
    <3>3. e.tmp = node[n].tmp + One(a \in Temporary(n)') - One(a \in Temporary(n))
      BY <1>3, <1>8, <2>2, <3>1
    <3>4. held' = held /\ e.mgr = node[n].mgr
      BY <1>1, <1>8
    <3> QED BY <2>2, <2>3, <2>4, <3>2, <3>3, <3>4 DEF Counts, TaskCounts
  <2>6. Counted(n) => w
    BY <1>13
  <2>7. Fits(e, a, Server, n)
    BY <1>2, <1>5, <1>8, <1>11, <1>13, <2>2, <2>5 DEF Fits
  <2>8. Kept(e, Refs(n), lost[n])
    <3>1. CASE Refs(n) # {} \/ node[n].tmp # 0
      BY <1>8, <3>1 DEF Kept, Unused
    <3>2. CASE Refs(n) = {} /\ node[n].tmp = 0
      <4>1. node[n].weak # 0 \/ node[n].strong # 0
        BY <1>3, <1>5, <1>13, <3>2
      <4>2. (node[n].weak # 0 => e.weak # 0) /\ (node[n].strong # 0 => e.strong # 0)
        BY <1>3, <1>8
      <4> QED BY <4>1, <4>2 DEF Kept, Unused
    <3> QED BY <3>1, <3>2
  <2>9. JobSound(a)'
    BY <1>1, <1>8, <2>2, SameJob
  <2>10. RefInv'
    BY <1>1, <2>2, <2>7, <2>8, <2>9, HeldKeeps
  <2>11. \A m \in Nodes : m # n => node'[m] = node[m]
    BY <2>2 DEF Moves
  <2> QED BY <1>12, <2>2, <2>10, <2>11
<1>14. CASE ~w
  <2>1. ~s /\ Refs(n) = {} /\ node[n].strong = 0 /\ node[n].weak = 0 /\ node[n].tmp = 0
    BY <1>5, <1>14
  <2>2. PICK f : f = [e EXCEPT !.tree = FALSE, !.mem = "freed"]
    OBVIOUS
  <2>3. Set(n, f)
    BY <1>7, <1>14, <2>1, <2>2
  <2>4. /\ f \in NodeType /\ f.mem = "freed" /\ ~f.tree /\ f.work = "none" /\ f.mgr = e.mgr /\ f.ptr = e.ptr
        /\ f.has_s = e.has_s /\ f.has_w = e.has_w /\ f.pend_s = e.pend_s /\ f.pend_w = e.pend_w
    BY <1>8, <2>2 DEF NodeType
  <2>5. /\ Moves(a, Server, n) /\ node'[n] = f /\ ref' = ref
        /\ Refs(n)' = Refs(n) /\ Temporary(n)' = Temporary(n)
        /\ Carried(n, TRUE)' = Carried(n, TRUE) /\ Carried(n, FALSE)' = Carried(n, FALSE)
    BY <1>1, <2>3, NodeMoves
  <2>6. /\ held[n] = NoHeld /\ Carried(n, TRUE) = {} /\ Carried(n, FALSE) = {} /\ Temporary(n) = {}
        /\ ~node[n].mgr
    BY <1>3, <2>1
  <2>7. \A b \in Tasks : JobSound(b)' /\ job'[b] \in JobType
    BY <1>1, <1>8, <2>4, <2>5, SameJob
  <2>8. \A b \in Users(n)' : job'[b].pc \in {"sent", "sent_binder"}
    <3> SUFFICES ASSUME NEW b \in Users(n)' PROVE job'[b].pc \in {"sent", "sent_binder"}
      OBVIOUS
    <3>1. b \in Tasks
      BY DEF Users
    <3>2. \/ b \in Temporary(n)' \/ job'[b].pc \in {"sent", "sent_binder"} \/ Refs(n)' # {}
          \/ life'[Server] = "open" /\ node'[n].mgr
      BY <2>7, <3>1, UserKinds
    <3> QED BY <1>8, <2>1, <2>4, <2>5, <2>6, <3>2
  <2>9. Told(f)
    BY <1>11, <2>4 DEF Told
  <2>10. NodeOk(n)'
    BY <1>1, <1>8, <2>1, <2>4, <2>5, <2>6, <2>8, <2>9 DEF NodeOk
  <2>11. ref'[Server][n] = ref[Server][n] /\ (ref[Server][n].desc = -1 => ref[Server][n] = NoRef)
    BY <1>1, Marks DEF RefInv, RefsSound
  <2>12. RefInv'
    BY <1>1, <2>4, <2>5, <2>6, <2>7, <2>10, <2>11, Marks, OneStep
  <2>13. \A m \in Nodes : m # n => node'[m] = node[m]
    BY <2>5 DEF Moves
  <2> QED BY <1>12, <2>4, <2>5, <2>12, <2>13
<1> QED BY <1>13, <1>14

\* binder_node_release(): the node has no owner any more, and is freed if nobody else has it.
LEMMA NodeReleaseOk ==
  ASSUME RefInv, NodeRelease
  PROVE  RefInv'
<1>1. /\ JobSound(Worker) /\ job[Worker] \in JobType /\ job[Worker].pc = "release" /\ Worker \in Tasks
      /\ Server \in Procs
  BY Marks, TypeFacts DEF RefInv, NodeRelease
<1>2. PICK n \in Nodes : n = job[Worker].node
  BY <1>1 DEF JobSound
<1>3. /\ node[n].mem = "live" /\ life[Server] = "releasing" /\ job[Worker].next = "idle"
      /\ UNCHANGED <<life, ref, olock, lost, calls>>
  BY <1>1, <1>2 DEF JobSound, NodeRelease, Unlocked
<1>4. /\ node[n] \in NodeType /\ NodeOk(n) /\ node[n].internal \in Nat /\ node[n].tmp \in Nat
  BY TypeFacts DEF RefInv, NodeType
<1>5. Erased(n) /\ Worker \in Temporary(n)
  BY <1>1, <1>2, <1>3 DEF Erased, Temporary, Users
<1>6. /\ node[n].proc /\ ~node[n].tree /\ node[n].internal = Cardinality(StrongRefs(n))
      /\ node[n].tmp = Cardinality(Temporary(n)) /\ Told(node[n])
  BY <1>3, <1>4, <1>5 DEF NodeOk, Sound
<1>7. node[n].tmp > 0
  BY <1>3, <1>5, LiveFacts
<1>8. PICK h : h = NoHeld
  OBVIOUS
<1>9. h \in HeldType /\ Hold(n, h)
  BY <1>2, <1>8 DEF NoHeld, HeldType, NodeRelease, Hold
<1>10. PICK d : d = Dequeued(node[n])
  OBVIOUS
<1>11. /\ d \in NodeType /\ d.work = "none" /\ d.mem = "live" /\ d.proc /\ ~d.tree /\ d.mgr = node[n].mgr
       /\ d.ptr = node[n].ptr /\ d.internal = node[n].internal /\ d.tmp = node[n].tmp
       /\ d.has_s = node[n].has_s /\ d.has_w = node[n].has_w /\ d.pend_s = node[n].pend_s
       /\ d.pend_w = node[n].pend_w
  BY <1>3, <1>4, <1>6, <1>10 DEF Dequeued, NodeType
<1>12. ref'[Server][n] = ref[Server][n] /\ (ref[Server][n].desc = -1 => ref[Server][n] = NoRef)
  BY <1>1, <1>3 DEF RefInv, RefsSound
<1>13. CASE Refs(n) = {} /\ d.tmp = 1
  <2>1. PICK e, j : e = [d EXCEPT !.mem = "freed"] /\ Set(n, e) /\ j = Idle /\ Become(Worker, j)
    BY <1>2, <1>10, <1>13 DEF NodeRelease
  <2>2. j \in JobType /\ j.pc = "idle" /\ j.node = None /\ j.next = "idle" /\ j.list = "none"
    BY <2>1 DEF Idle, JobType
  <2>3. /\ e \in NodeType /\ e.mem = "freed" /\ ~e.tree /\ e.work = "none" /\ e.mgr = node[n].mgr
        /\ e.ptr = node[n].ptr /\ e.has_s = node[n].has_s /\ e.has_w = node[n].has_w
        /\ e.pend_s = node[n].pend_s /\ e.pend_w = node[n].pend_w
    BY <1>11, <2>1 DEF NodeType
  <2>4. /\ Moves(Worker, Server, n) /\ job'[Worker] = j /\ node'[n] = e /\ held'[n] = h
        /\ Refs(n)' = Refs(n) /\ \A b \in Tasks : b # Worker => job'[b] = job[b]
    <3>1. /\ Worker \in Tasks /\ job[Worker].node \in {n, None} /\ j.node \in {n, None} /\ j \in JobType
          /\ h \in HeldType /\ Set(n, e) /\ Become(Worker, j) /\ Hold(n, h)
          /\ UNCHANGED <<life, ref, olock, lost, calls>>
      BY <1>1, <1>2, <1>3, <1>9, <2>1, <2>2
    <3> QED BY ONLY RefInv, n \in Nodes, <3>1, HeldMoves
  <2>5. JobSound(Worker)'
    BY <2>1, <2>2, <2>4 DEF JobSound
  <2>6. \A b \in Tasks : JobSound(b)' /\ job'[b] \in JobType
    <3>1. \A b \in Tasks : b # Worker => JobSound(b)'
      BY <1>1, <2>3, <2>4, OtherTasks
    <3> QED BY <2>4, <2>5, <3>1 DEF Moves
  <2>7. Temporary(n)' = {}
    <3>1. Worker \notin Temporary(n)'
      BY <2>2, <2>4 DEF Temporary, Users
    <3>2. Cardinality(Temporary(n))' = Cardinality(Temporary(n)) + One(Worker \in Temporary(n)')
                                         - One(Worker \in Temporary(n))
      BY <1>1, <2>4, TaskMembers
    <3>3. One(Worker \in Temporary(n)') = 0 /\ One(Worker \in Temporary(n)) = 1
      BY <1>5, <3>1 DEF One
    <3>4. Cardinality(Temporary(n)) = 1
      BY <1>6, <1>11, <1>13
    <3>5. Cardinality(Temporary(n))' = 0
      BY <3>2, <3>3, <3>4
    <3>6. job' \in [Tasks -> JobType] /\ held' \in [Nodes -> HeldType]
      BY <2>4 DEF Moves
    <3> QED BY <3>5, <3>6, CountTypes
  <2>8. \A b \in Users(n)' : job'[b].pc \in {"sent", "sent_binder"}
    <3> SUFFICES ASSUME NEW b \in Users(n)' PROVE job'[b].pc \in {"sent", "sent_binder"}
      OBVIOUS
    <3>1. b \in Tasks
      BY DEF Users
    <3>2. \/ b \in Temporary(n)' \/ job'[b].pc \in {"sent", "sent_binder"} \/ Refs(n)' # {}
          \/ life'[Server] = "open" /\ node'[n].mgr
      BY <2>6, <3>1, UserKinds
    <3> QED BY <1>3, <1>13, <2>4, <2>7, <3>2
  <2>9. Told(e)
    BY <1>6, <2>3 DEF Told
  <2>10. NodeOk(n)'
    BY <1>3, <1>8, <1>13, <2>3, <2>4, <2>8, <2>9 DEF NodeOk
  <2> QED BY <1>1, <1>12, <2>3, <2>4, <2>5, <2>10, OneStep
<1>14. CASE ~(Refs(n) = {} /\ d.tmp = 1)
  <2>1. PICK e, j : /\ e = [d EXCEPT !.proc = FALSE, !.strong = 0, !.weak = 0] /\ Set(n, e)
                    /\ j = [job[Worker] EXCEPT !.pc = "put"] /\ Become(Worker, j)
    BY <1>2, <1>10, <1>14 DEF NodeRelease
  <2>2. j \in JobType /\ j.pc = "put" /\ j.node = n /\ j.next = "idle" /\ j.list = job[Worker].list
    BY <1>1, <1>2, <1>3, <2>1 DEF JobType
  <2>3. /\ e \in NodeType /\ e.mem = "live" /\ ~e.tree /\ ~e.proc /\ e.work = "none" /\ e.mgr = node[n].mgr
        /\ e.ptr = node[n].ptr /\ e.has_s = node[n].has_s /\ e.has_w = node[n].has_w
        /\ e.pend_s = node[n].pend_s /\ e.pend_w = node[n].pend_w
        /\ e.internal = node[n].internal /\ e.tmp = node[n].tmp
    <3>1. PICK z \in Int : z = 0
      OBVIOUS
    <3>2. e = [d EXCEPT !.proc = FALSE, !.strong = z, !.weak = z] /\ d \in NodeType
      BY <1>11, <2>1, <3>1
    <3>3. /\ e \in NodeType /\ e.mem = d.mem /\ e.tree = d.tree /\ ~e.proc /\ e.work = d.work
          /\ e.mgr = d.mgr /\ e.ptr = d.ptr /\ e.has_s = d.has_s /\ e.has_w = d.has_w
          /\ e.pend_s = d.pend_s /\ e.pend_w = d.pend_w /\ e.internal = d.internal /\ e.tmp = d.tmp
      BY ONLY <3>2, z \in Int DEF NodeType
    <3> QED BY <1>11, <3>1, <3>3
  <2>4. /\ Moves(Worker, Server, n) /\ job'[Worker] = j /\ node'[n] = e /\ held'[n] = h
        /\ Refs(n)' = Refs(n) /\ \A b \in Tasks : b # Worker => job'[b] = job[b]
    <3>1. /\ Worker \in Tasks /\ job[Worker].node \in {n, None} /\ j.node \in {n, None} /\ j \in JobType
          /\ h \in HeldType /\ Set(n, e) /\ Become(Worker, j) /\ Hold(n, h)
          /\ UNCHANGED <<life, ref, olock, lost, calls>>
      BY <1>1, <1>2, <1>3, <1>9, <2>1, <2>2
    <3> QED BY ONLY RefInv, n \in Nodes, <3>1, HeldMoves
  <2>5. JobSound(Worker)'
    BY <1>1, <2>2, <2>4 DEF JobSound
  <2>6. e.tmp = Cardinality(Temporary(n))'
    <3>1. Worker \in Temporary(n)'
      BY <1>1, <2>2, <2>4 DEF Temporary, Users
    <3>2. /\ Cardinality(Temporary(n))' = Cardinality(Temporary(n)) + One(Worker \in Temporary(n)')
                                         - One(Worker \in Temporary(n))
          /\ Cardinality(Temporary(n)) \in Nat
      BY <1>1, <2>4, TaskMembers
    <3>3. One(Worker \in Temporary(n)') = 1 /\ One(Worker \in Temporary(n)) = 1
      BY <1>5, <3>1 DEF One
    <3>4. Cardinality(Temporary(n))' = Cardinality(Temporary(n))
      BY <3>2, <3>3
    <3> QED BY <1>6, <2>3, <3>4
  <2>7. e.internal = Cardinality(StrongRefs(n))'
    <3>1. StrongRefs(n)' = StrongRefs(n)
      BY <1>3 DEF StrongRefs
    <3> QED BY <1>6, <2>3, <3>1
  <2>8. ~Erased(n)'
    BY <2>2, <2>4 DEF Erased
  <2>9. Sound(e, Refs(n)', Cardinality(StrongRefs(n))', Cardinality(Temporary(n))', LocalStrong(n)',
              LocalWeak(n)', life'[Server] = "open", Erased(n)', Counted(n)', lost'[n])
    BY <1>3, <2>3, <2>6, <2>7, <2>8 DEF Sound
  <2>10. Kept(e, Refs(n)', lost'[n])
    BY <1>7, <2>3 DEF Kept, Unused
  <2>11. Told(e)
    BY <1>6, <2>3 DEF Told
  <2>12. NodeOk(n)'
    BY <1>3, <1>8, <2>3, <2>4, <2>9, <2>10, <2>11 DEF NodeOk
  <2> QED BY <1>1, <1>12, <2>3, <2>4, <2>5, <2>12, OneStep
<1> QED BY <1>13, <1>14

-----------------------------------------------------------------------------
(* References are made and counted up.                                     *)

PutRef(c, n, r) == ref' = [ref EXCEPT ![c][n] = r]

\* A record that differs in the strong references and in the work item only.
Likewise(e, d) ==
  /\ e.mem = d.mem /\ e.ptr = d.ptr /\ e.proc = d.proc /\ e.tree = d.tree /\ e.mgr = d.mgr
  /\ e.strong = d.strong /\ e.weak = d.weak /\ e.tmp = d.tmp
  /\ e.has_s = d.has_s /\ e.has_w = d.has_w /\ e.pend_s = d.pend_s /\ e.pend_w = d.pend_w

\* The task's part in the counts of the node is what it was.
SameTask(a, n) ==
  /\ a \in Temporary(n)' <=> a \in Temporary(n)
  /\ a \in Calling(n)' <=> a \in Calling(n)
  /\ a \in Carried(n, TRUE)' <=> a \in Carried(n, TRUE)
  /\ a \in Carried(n, FALSE)' <=> a \in Carried(n, FALSE)

\* As TaskMoves, with a reference.
LEMMA RefMoves ==
  ASSUME RefInv, NEW a \in Tasks, NEW c \in Procs, NEW n \in Nodes, NEW j \in JobType, NEW e, NEW r \in RefType,
         Become(a, j), Set(n, e), PutRef(c, n, r), calls' \in Nat, UNCHANGED <<life, held, lost>>,
         olock' \in [Procs -> Tasks \cup {None}],
         \A p \in Procs : olock'[p] = olock[p] \/ olock[p] \in {None, a},
         r = NoRef => ref[c][n] = NoRef \/ olock[c] \in {None, a},
         job[a].node \in {n, None}, j.node \in {n, None}
  PROVE  /\ Moves(a, c, n) /\ job'[a] = j /\ node'[n] = e /\ ref'[c][n] = r
         /\ \A p \in Procs : p # c => ref'[p][n] = ref[p][n]
         /\ \A b \in Tasks : b # a => job'[b] = job[b]
<1>1. job' \in [Tasks -> JobType] /\ job'[a] = j /\ \A b \in Tasks : b # a => job'[b] = job[b]
  BY DEF RefInv, Types, Become
<1>2. /\ node' = [m \in Nodes |-> node'[m]] /\ \A m \in Nodes : m # n => node'[m] = node[m]
      /\ node'[n] = e
  BY DEF RefInv, Types, TypeOK, Set
<1>3. /\ ref' \in [Procs -> [Nodes -> RefType]] /\ ref'[c][n] = r
      /\ \A p \in Procs : \A m \in Nodes : m # n \/ p # c => ref'[p][m] = ref[p][m]
  <2>1. ref \in [Procs -> [Nodes -> RefType]]
    BY DEF RefInv, Types, TypeOK, RefType
  <2> QED BY <2>1 DEF PutRef
<1>4. held' \in [Nodes -> HeldType] /\ held' = held
  BY DEF RefInv, Types
<1>5. Moves(a, c, n)
  BY <1>1, <1>2, <1>3, <1>4 DEF Moves
<1> QED BY <1>1, <1>2, <1>3, <1>5

\* A record fits if the reference's strong count is the only one that changes.
LEMMA RefFits ==
  ASSUME RefInv, NEW a \in Tasks, NEW c \in Procs, NEW n \in Nodes, Moves(a, c, n), held' = held,
         node[n].mem = "live", NEW d \in NodeType, Likewise(d, node[n]), SameTask(a, n),
         Erased(n)' = Erased(n), d.work # "none" => d.proc,
         d.internal = node[n].internal + One(ref'[c][n].strong > 0) - One(ref[c][n].strong > 0),
         d.proc /\ d.work = "none" /\ ~lost[n] => (d.internal > 0 => d.has_s) /\ (Counted(n)' => d.has_w)
  PROVE  Fits(d, a, c, n) /\ d.mem = "live"
<1>1. Told(node[n]) /\ (~node[n].proc => held[n] = NoHeld) /\ node[n].tmp \in Nat
  BY LiveFacts DEF NodeType
<1>2. Told(d)
  BY <1>1 DEF Told, Likewise
<1>3. TaskCounts(d, a, n)
  <2>1. One(a \in Temporary(n)) \in Int
    BY OneInt
  <2>2. /\ One(a \in Temporary(n)') = One(a \in Temporary(n)) /\ One(a \in Calling(n)') = One(a \in Calling(n))
        /\ One(a \in Carried(n, TRUE)') = One(a \in Carried(n, TRUE))
        /\ One(a \in Carried(n, FALSE)') = One(a \in Carried(n, FALSE))
    BY DEF SameTask, One
  <2>3. d.tmp = node[n].tmp + One(a \in Temporary(n)') - One(a \in Temporary(n))
    BY <1>1, <2>1, <2>2 DEF Likewise
  <2> QED BY <2>2, <2>3 DEF TaskCounts, Likewise
<1>4. Counts(d, a, c, n)
  BY <1>3 DEF Counts
<1> QED BY <1>1, <1>2, <1>4 DEF Fits, Likewise

\* binder_inc_node_nilocked() for a reference: an increment that does not fail is known
\* to the owner, or the work item is queued.
Incs(e, d, strong, list) ==
  /\ e \in NodeType /\ Likewise(e, d)
  /\ e.internal = (IF strong /\ ~IncFails(d, strong, TRUE, list) THEN d.internal + 1 ELSE d.internal)
  /\ e.work \in {d.work, list} /\ (d.work # "none" => e.work # "none")
  /\ ~IncFails(d, strong, TRUE, list) /\ e.work = "none" =>
       (strong => d.has_s \/ d.internal > 0) /\ (~strong => d.has_w)

\* The fields of the record it leaves.
LEMMA IncFields ==
  ASSUME NEW d \in NodeType, NEW strong \in BOOLEAN, NEW list \in Locals \cup {"none"},
         NEW e, e = IncNode(d, strong, TRUE, list)
  PROVE  Incs(e, d, strong, list)
<1>1. d.internal \in Nat /\ d.internal + 1 \in Nat /\ d.work \in {"none", "todo"} \cup Locals
      /\ d.has_s \in BOOLEAN /\ d.has_w \in BOOLEAN
  BY DEF NodeType
<1>2. CASE IncFails(d, strong, TRUE, list)
  <2>1. e = d
    <3>1. CASE strong
      BY <1>2, <3>1 DEF IncNode, IncFails
    <3>2. CASE ~strong
      BY <1>2, <3>2 DEF IncNode, IncFails
    <3> QED BY <3>1, <3>2
  <2> QED BY <1>2, <2>1 DEF Incs, Likewise
<1>3. CASE ~IncFails(d, strong, TRUE, list) /\ strong
  <2>1. PICK f : f = [d EXCEPT !.internal = d.internal + 1]
    OBVIOUS
  <2>2. f \in NodeType /\ Likewise(f, d) /\ f.internal = d.internal + 1 /\ f.work = d.work
    BY <1>1, <2>1 DEF NodeType, Likewise
  <2>3. CASE list # "none" /\ ~d.has_s
    <3>1. e = [f EXCEPT !.work = list]
      BY <1>3, <2>1, <2>3 DEF IncNode
    <3>2. e \in NodeType /\ Likewise(e, f) /\ e.internal = f.internal /\ e.work = list
      BY <2>2, <3>1 DEF NodeType, Likewise
    <3> QED BY <1>3, <2>2, <2>3, <3>2 DEF Incs, Likewise
  <2>4. CASE ~(list # "none" /\ ~d.has_s)
    <3>1. e = f
      BY <1>3, <2>1, <2>4 DEF IncNode
    <3>2. d.has_s \/ d.internal > 0
      BY <1>1, <1>3, <2>4 DEF IncFails
    <3> QED BY <1>3, <2>2, <3>1, <3>2 DEF Incs
  <2> QED BY <2>3, <2>4
<1>4. CASE ~IncFails(d, strong, TRUE, list) /\ ~strong
  <2>1. CASE list # "none" /\ ~d.has_w /\ d.work = "none"
    <3>1. e = [d EXCEPT !.work = list]
      BY <1>4, <2>1 DEF IncNode
    <3>2. e \in NodeType /\ Likewise(e, d) /\ e.internal = d.internal /\ e.work = list
      BY <3>1 DEF NodeType, Likewise
    <3> QED BY <1>4, <2>1, <3>2 DEF Incs
  <2>2. CASE ~(list # "none" /\ ~d.has_w /\ d.work = "none")
    <3>1. e = d
      BY <1>4, <2>2 DEF IncNode
    <3>2. e.work = "none" => d.has_w
      BY <1>4, <2>2, <3>1 DEF IncFails
    <3> QED BY <1>4, <3>1, <3>2 DEF Incs, Likewise
  <2> QED BY <2>1, <2>2
<1> QED BY <1>2, <1>3, <1>4

\* binder_inc_ref_olocked() keeps the invariant, for a reference that is there or is new.
LEMMA IncRefOk ==
  ASSUME RefInv, NEW a \in Tasks, NEW c \in Procs, NEW n \in Nodes, NEW strong \in BOOLEAN,
         NEW list \in Locals \cup {"none"}, NEW j \in JobType, NEW r \in RefType,
         node[n].mem = "live", IncRef(c, n, r, strong, list), Become(a, j), list # "none" => node[n].proc,
         r.strong = ref[c][n].strong, r.weak = ref[c][n].weak, r.desc # -1,
         \/ r.desc = ref[c][n].desc
         \/ (\A m \in Nodes : m # n => ref[c][m].desc # r.desc) /\ (r.desc = 0 => node[n].mgr),
         calls' \in Nat, UNCHANGED <<life, olock, held, lost>>,
         job[a].node \in {n, None}, j.node \in {n, None}, SameTask(a, n),
         job[a].pc # "release", j.pc # "release", JobSound(a)'
  PROVE  RefInv'
<1>1. r.strong \in Nat /\ r.weak \in Nat /\ r.strong + 1 \in Nat /\ r.weak + 1 \in Nat
  BY DEF RefType
<1>2. PICK fails \in BOOLEAN : fails = IncFails(node[n], strong, TRUE, list)
  BY DEF IncFails
<1>3. PICK first \in BOOLEAN : first = (Count(r, strong) = 0)
  OBVIOUS
<1>4. PICK q : q = (IF first /\ fails THEN r ELSE Add(r, strong, 1)) /\ PutRef(c, n, q)
  BY <1>2, <1>3 DEF IncRef, PutRef
<1>5. PICK e : e = (IF first THEN IncNode(node[n], strong, TRUE, list) ELSE node[n]) /\ Set(n, e)
  BY <1>3 DEF IncRef
<1>6. /\ q \in RefType /\ q.desc = r.desc
      /\ first /\ fails => q = r
      /\ ~(first /\ fails) /\ strong => q.strong = r.strong + 1 /\ q.weak = r.weak
      /\ ~(first /\ fails) /\ ~strong => q.strong = r.strong /\ q.weak = r.weak + 1
  <2>1. CASE first /\ fails
    BY <1>4, <2>1
  <2>2. CASE ~(first /\ fails) /\ strong
    BY <1>1, <1>4, <2>2 DEF Add, RefType
  <2>3. CASE ~(first /\ fails) /\ ~strong
    BY <1>1, <1>4, <2>3 DEF Add, RefType
  <2> QED BY <2>1, <2>2, <2>3
<1>7. q # NoRef
  BY <1>6 DEF NoRef
<1>8. /\ Moves(a, c, n) /\ job'[a] = j /\ node'[n] = e /\ ref'[c][n] = q
      /\ \A p \in Procs : p # c => ref'[p][n] = ref[p][n]
      /\ \A b \in Tasks : b # a => job'[b] = job[b]
  <2>1. /\ olock' \in [Procs -> Tasks \cup {None}]
        /\ \A p \in Procs : olock'[p] = olock[p] \/ olock[p] \in {None, a}
    BY DEF RefInv, Types, TypeOK
  <2>2. UNCHANGED <<life, held, lost>> /\ q \in RefType /\ PutRef(c, n, q) /\ Set(n, e)
        /\ (q = NoRef => ref[c][n] = NoRef \/ olock[c] \in {None, a})
    BY <1>4, <1>5, <1>6, <1>7
  <2> QED BY ONLY RefInv, a \in Tasks, c \in Procs, n \in Nodes, j \in JobType, Become(a, j), calls' \in Nat,
                  job[a].node \in {n, None}, j.node \in {n, None}, <2>1, <2>2, RefMoves
<1>9. Refs(n)' # {} /\ (Counted(n)' => Counted(n) \/ q.strong + q.weak > 0)
  <2>1. Refs(n)' # {}
    BY <1>7, <1>8 DEF Refs
  <2>2. Counted(n)' => Counted(n) \/ q.strong + q.weak > 0
    BY <1>8 DEF Counted
  <2> QED BY <2>1, <2>2
<1>10. /\ node[n] \in NodeType /\ node[n].internal \in Nat /\ Told(node[n])
       /\ node[n].work # "none" => node[n].proc
       /\ node[n].proc /\ node[n].work = "none" /\ ~lost[n] =>
            (node[n].internal > 0 => node[n].has_s) /\ (Counted(n) => node[n].has_w)
  BY LiveFacts DEF NodeType
<1>11. r.strong + r.weak > 0 => Counted(n)
  BY DEF Counted
<1>12. /\ e \in NodeType /\ Likewise(e, node[n])
       /\ e.internal = (IF first /\ strong /\ ~fails THEN node[n].internal + 1 ELSE node[n].internal)
       /\ e.work \in {node[n].work, list} /\ (node[n].work # "none" => e.work # "none")
       /\ first /\ ~fails /\ e.work = "none" =>
            (strong => node[n].has_s \/ node[n].internal > 0) /\ (~strong => node[n].has_w)
  <2>1. CASE first
    <3>1. e = IncNode(node[n], strong, TRUE, list)
      BY <1>5, <2>1
    <3>2. Incs(e, node[n], strong, list)
      BY ONLY <1>10, strong \in BOOLEAN, list \in Locals \cup {"none"}, <3>1, IncFields
    <3> QED BY <1>2, <2>1, <3>2 DEF Incs
  <2>2. CASE ~first
    <3>1. e = node[n]
      BY <1>5, <2>2
    <3> QED BY <1>10, <2>2, <3>1 DEF Likewise
  <2> QED BY <2>1, <2>2
<1>13. e.internal = node[n].internal + One(ref'[c][n].strong > 0) - One(ref[c][n].strong > 0)
  <2>1. CASE first /\ strong /\ ~fails
    <3>1. r.strong = 0 /\ q.strong = 1
      BY <1>3, <1>6, <2>1 DEF Count
    <3>2. One(ref'[c][n].strong > 0) = 1 /\ One(ref[c][n].strong > 0) = 0
      BY <1>8, <3>1 DEF One
    <3>3. e.internal = node[n].internal + 1
      BY <1>12, <2>1
    <3> QED BY <1>10, <3>2, <3>3
  <2>2. CASE ~(first /\ strong /\ ~fails)
    <3>1. q.strong > 0 <=> r.strong > 0
      <4>1. CASE strong /\ ~first
        <5>1. r.strong # 0 /\ q.strong = r.strong + 1
          BY <1>3, <1>6, <4>1 DEF Count
        <5> QED BY <1>1, <5>1
      <4>2. CASE ~strong
        BY <1>6, <4>2
      <4>3. CASE strong /\ first
        BY <1>6, <2>2, <4>3
      <4> QED BY <4>1, <4>2, <4>3
    <3>2. One(ref'[c][n].strong > 0) = One(ref[c][n].strong > 0) /\ One(ref[c][n].strong > 0) \in Int
      BY <1>8, <3>1, OneInt DEF One
    <3>3. e.internal = node[n].internal
      BY <1>12, <2>2
    <3> QED BY <1>10, <3>2, <3>3
  <2> QED BY <2>1, <2>2
<1>14. e.work # "none" => e.proc
  BY <1>10, <1>12 DEF Likewise
<1>15. e.proc /\ e.work = "none" /\ ~lost[n] => (e.internal > 0 => e.has_s) /\ (Counted(n)' => e.has_w)
  <2> SUFFICES ASSUME e.proc, e.work = "none", ~lost[n]
               PROVE  (e.internal > 0 => e.has_s) /\ (Counted(n)' => e.has_w)
    OBVIOUS
  <2>1. e.has_s = node[n].has_s /\ e.has_w = node[n].has_w /\ e.proc = node[n].proc
    BY <1>12 DEF Likewise
  <2>2. (node[n].internal > 0 => node[n].has_s) /\ (Counted(n) => node[n].has_w)
    BY <1>10, <1>12, <2>1
  <2>3. first /\ ~fails => (strong => node[n].has_s) /\ (~strong => node[n].has_w)
    BY <1>12, <2>2
  <2>4. node[n].has_s => node[n].has_w
    BY <1>10 DEF Told
  <2>5. e.internal > 0 => node[n].has_s
    BY <1>12, <2>2, <2>3
  <2>6. q.strong + q.weak > 0 => Counted(n) \/ (first /\ ~fails)
    <3>1. CASE first /\ fails
      BY <1>6, <1>11, <3>1
    <3>2. CASE ~first
      <4>1. r.strong # 0 \/ r.weak # 0
        BY <1>3, <3>2 DEF Count
      <4>2. r.strong + r.weak > 0
        <5>1. PICK x \in Nat, y \in Nat : x = r.strong /\ y = r.weak
          BY <1>1
        <5>2. x # 0 \/ y # 0
          BY <4>1, <5>1
        <5>3. x + y > 0
          BY ONLY <5>2, x \in Nat, y \in Nat
        <5> QED BY <5>1, <5>3
      <4> QED BY <1>11, <4>2
    <3> QED BY <3>1, <3>2
  <2>7. Counted(n)' => node[n].has_w
    BY <1>9, <2>2, <2>3, <2>4, <2>6
  <2> QED BY <2>1, <2>5, <2>7
<1>16. Erased(n)' = Erased(n)
  BY <1>8, ErasedSame
<1>17. Fits(e, a, c, n)
  BY <1>8, <1>12, <1>13, <1>14, <1>15, <1>16, RefFits
<1>18. Kept(e, Refs(n)', lost'[n])
  BY <1>9 DEF Kept, Unused
<1>19. NodeOk(n)'
  BY <1>8, <1>17, <1>18, KeepStep
<1>20. e.mgr = node[n].mgr /\ e.tree = node[n].tree /\ e.ptr = node[n].ptr
  BY <1>12 DEF Likewise
<1>21. /\ ref'[c][n].desc = -1 => ref'[c][n] = NoRef
       /\ \/ ref'[c][n].desc = ref[c][n].desc
          \/ /\ \A m \in Nodes : m # n => ref[c][m].desc # ref'[c][n].desc
             /\ ref'[c][n].desc = 0 => node'[n].mgr
  BY <1>6, <1>8, <1>20
<1> QED BY <1>8, <1>12, <1>19, <1>20, <1>21, OneStep

\* A nonempty set of numbers has a lowest one.
LEMMA LowestIs ==
  ASSUME NEW S, S \subseteq Nat, S # {}
  PROVE  (CHOOSE d \in S : \A e \in S : d <= e) \in S
<1> DEFINE R == OpToRel(<, Nat)
<1>1. IsWellFoundedOn(R, Nat)
  BY NatLessThanWellFounded
<1>2. \A i, j \in Nat : i < j => <<i, j>> \in R
  BY DEF OpToRel
<1> HIDE DEF R
<1>3. PICK n \in S : \A k \in S : ~(<<k, n>> \in R)
  BY <1>1, WFMin
<1>4. \A k \in S : ~(k < n)
  BY <1>2, <1>3, Zenon
<1>5. \A k \in S : n <= k
  BY <1>4
<1> QED BY <1>5

\* There are more handles than nodes, so that a new reference gets one nobody has.
LEMMA NewDescFree ==
  ASSUME RefInv, NEW c \in Procs, NEW n \in Nodes
  PROVE  /\ NewDesc(c, n) \in Nat
         /\ \A m \in Nodes : ref[c][m].desc # NewDesc(c, n)
         /\ NewDesc(c, n) = 0 => node[n].mgr
<1> DEFINE have == {m \in Nodes : ref[c][m] # NoRef}
           used == {ref[c][m].desc : m \in have}
           lo == IF node[n].mgr /\ life[Server] = "open" THEN 0 ELSE 1
           hi == Cardinality(Nodes) + 1
           free == (lo .. hi) \ used
<1>1. IsFiniteSet(Nodes) /\ Cardinality(Nodes) \in Nat
  BY RefAssumption, FS_CardinalityType
<1>2. IsFiniteSet(have) /\ Cardinality(have) \in Nat /\ Cardinality(have) <= Cardinality(Nodes)
  <2>1. have \in SUBSET Nodes
    OBVIOUS
  <2> HIDE DEF have
  <2> QED BY <1>1, <2>1, FS_Subset, FS_CardinalityType
<1>3. IsFiniteSet(used) /\ Cardinality(used) \in Nat /\ Cardinality(used) <= Cardinality(have)
  <2>1. PICK f : f = [m \in have |-> ref[c][m].desc]
    OBVIOUS
  <2>2. f \in Surjection(have, used)
    BY <2>1 DEF Surjection
  <2> HIDE DEF have, used
  <2> QED BY <1>2, <2>2, FS_Surjection, FS_CardinalityType
<1>4. lo \in Nat /\ hi \in Nat /\ lo <= 1
  BY <1>1
<1>5. IsFiniteSet(lo .. hi) /\ Cardinality(lo .. hi) = (IF lo > hi THEN 0 ELSE hi - lo + 1)
  <2>1. lo \in Int /\ hi \in Int
    BY <1>4
  <2> HIDE DEF lo, hi
  <2> QED BY <2>1, FS_Interval
<1>6. Cardinality(lo .. hi) > Cardinality(used)
  <2>1. PICK x \in Nat, y \in Nat, z \in Nat : x = Cardinality(Nodes) /\ y = Cardinality(used) /\ z = Cardinality(have)
    BY <1>1, <1>2, <1>3
  <2>2. y <= z /\ z <= x /\ hi = x + 1
    BY <1>2, <1>3, <2>1
  <2>3. PICK k \in Nat : k = lo /\ k <= 1
    BY <1>4
  <2>4. Cardinality(lo .. hi) = (x + 1) - k + 1
    BY <1>5, <2>2, <2>3
  <2>5. (x + 1) - k + 1 > y
    BY ONLY <2>2, <2>3, x \in Nat, y \in Nat, z \in Nat, k \in Nat
  <2> QED BY <2>1, <2>4, <2>5
<1>7. free # {}
  <2> SUFFICES ASSUME free = {} PROVE FALSE
    OBVIOUS
  <2>1. (lo .. hi) \in SUBSET used
    OBVIOUS
  <2>2. Cardinality(lo .. hi) <= Cardinality(used)
    <3> HIDE DEF lo, hi, used
    <3> QED BY <1>3, <2>1, FS_Subset
  <2>3. Cardinality(lo .. hi) \in Nat
    <3> HIDE DEF lo, hi, used
    <3> QED BY <1>5, FS_CardinalityType
  <2> HIDE DEF lo, hi, used, free
  <2> QED BY <1>3, <1>6, <2>2, <2>3
<1>8. free \subseteq Nat
  BY <1>4
<1>9. NewDesc(c, n) = CHOOSE d \in free : \A e \in free : d <= e
  BY DEF NewDesc
<1>10. NewDesc(c, n) \in free
  <2> HIDE DEF free
  <2> QED BY <1>7, <1>8, <1>9, LowestIs
<1>11. NewDesc(c, n) \in Nat /\ NewDesc(c, n) \notin used
  BY <1>8, <1>10
<1>12. \A m \in Nodes : ref[c][m].desc # NewDesc(c, n)
  BY <1>11 DEF NoRef
<1>13. NewDesc(c, n) = 0 => node[n].mgr
  BY <1>10
<1> QED BY <1>11, <1>12, <1>13

\* Where the caller goes on, and what it has of the node then.
LEMMA AfterIncOk ==
  ASSUME RefInv, NEW a \in Tasks, job[a].pc \in {"ref", "alloc"}, NEW n \in Nodes, n = job[a].node,
         NEW fails \in BOOLEAN, NEW j, j = AfterInc(job[a], fails), Become(a, j), life' = life
  PROVE  /\ j \in JobType /\ j.node \in {n, None} /\ j.pc \in {"put", "idle"} /\ SameTask(a, n) /\ JobSound(a)'
         /\ job'[a] = j
<1>1. JobSound(a) /\ job[a] \in JobType /\ job[a].next \in {"sent", "mgr"}
  BY TypeFacts DEF RefInv, JobSound
<1>2. job'[a] = j
  BY NewJob
<1>3. CASE job[a].next = "mgr"
  <2>1. j = Idle
    BY <1>3 DEF AfterInc
  <2>2. j \in JobType /\ j.pc = "idle" /\ j.node = None /\ j.next = "idle" /\ j.list = "none"
    BY <2>1 DEF Idle, JobType
  <2>3. /\ a \notin Temporary(n)' /\ a \notin Calling(n)' /\ a \notin Carried(n, TRUE)' /\ a \notin Carried(n, FALSE)'
    BY <1>2, <2>2 DEF Temporary, Calling, Carried, Users
  <2>4. /\ a \notin Temporary(n) /\ a \notin Calling(n) /\ a \notin Carried(n, TRUE) /\ a \notin Carried(n, FALSE)
    BY <1>3 DEF Temporary, Calling, Carried, Users
  <2>5. JobSound(a)'
    BY <1>2, <2>1, <2>2 DEF JobSound
  <2> QED BY <1>2, <2>2, <2>3, <2>4, <2>5 DEF SameTask
<1>4. CASE job[a].next = "sent"
  <2>1. /\ j \in JobType /\ j.pc = "put" /\ j.node = n /\ j.next \in {"idle", "sent"} /\ j.list = job[a].list
        /\ j.proc = job[a].proc
    <3>1. CASE fails
      <4>1. j = [job[a] EXCEPT !.pc = "put", !.next = "idle"]
        BY <1>4, <3>1 DEF AfterInc
      <4> QED BY <1>1, <4>1 DEF JobType
    <3>2. CASE ~fails
      <4>1. j = [job[a] EXCEPT !.pc = "put"]
        BY <1>4, <3>2 DEF AfterInc
      <4> QED BY <1>1, <1>4, <4>1 DEF JobType
    <3> QED BY <3>1, <3>2
  <2>2. /\ a \in Temporary(n)' /\ a \notin Calling(n)' /\ a \notin Carried(n, TRUE)' /\ a \notin Carried(n, FALSE)'
    BY <1>2, <2>1 DEF Temporary, Calling, Carried, Users
  <2>3. /\ a \in Temporary(n) /\ a \notin Calling(n) /\ a \notin Carried(n, TRUE) /\ a \notin Carried(n, FALSE)
    BY <1>4 DEF Temporary, Calling, Carried, Users
  <2>4. JobSound(a)'
    BY <1>1, <1>2, <2>1 DEF JobSound
  <2> QED BY <1>2, <2>1, <2>2, <2>3, <2>4 DEF SameTask
<1> QED BY <1>1, <1>3, <1>4

\* Who counts a reference up from a todo list is a thread of the owner.
LEMMA ListOwner ==
  ASSUME RefInv, NEW a \in Tasks, job[a].pc \in {"ref", "alloc"}
  PROVE  /\ job[a].node \in Nodes /\ job[a].proc \in Procs /\ job[a].strong \in BOOLEAN
         /\ job[a].list \in Locals \cup {"none"} /\ node[job[a].node].mem \in {"live", "reap"}
         /\ job[a].list # "none" => node[job[a].node].proc
<1>1. JobSound(a) /\ job[a] \in JobType
  BY TypeFacts DEF RefInv
<1>2. /\ job[a].node \in Nodes /\ job[a].proc \in Procs /\ job[a].strong \in BOOLEAN
      /\ job[a].list \in Locals \cup {"none"}
  BY <1>1 DEF JobSound, JobType
<1>3. node[job[a].node].mem \in {"live", "reap"}
  BY UserLive
<1>4. job[a].list # "none" => life[Server] = "open"
  BY <1>1, <1>2 DEF JobSound
<1> QED BY <1>2, <1>3, <1>4, OpenTree

\* binder_inc_ref_for_node() on a reference that is there, or on the way to a new one.
LEMMA IncRefForNodeOk ==
  ASSUME RefInv, NEW a \in Tasks, IncRefForNode(a)
  PROVE  RefInv'
<1>1. job[a].pc = "ref" /\ JobSound(a) /\ job[a] \in JobType
  BY TypeFacts DEF RefInv, IncRefForNode
<1>2. PICK n \in Nodes, c \in Procs, strong \in BOOLEAN, list \in Locals \cup {"none"} :
        /\ n = job[a].node /\ c = job[a].proc /\ strong = job[a].strong /\ list = job[a].list
        /\ list # "none" => node[n].proc
  BY <1>1, ListOwner
<1>3. node[n].mem = "live" /\ UNCHANGED <<life, olock, held, lost>> /\ calls' \in Nat /\ n # None
  BY <1>2, Marks DEF IncRefForNode, Unlocked, RefInv, Types
<1>4. CASE ref[c][n] = NoRef /\ Become(a, [job[a] EXCEPT !.pc = "alloc"]) /\ UNCHANGED <<node, ref>>
  <2>1. PICK j : j = [job[a] EXCEPT !.pc = "alloc"]
    OBVIOUS
  <2>2. /\ j \in JobType /\ j.pc = "alloc" /\ j.node = n /\ j.next = job[a].next /\ j.list = job[a].list
        /\ j.proc = job[a].proc
    BY <1>1, <1>2, <2>1 DEF JobType
  <2>3. job' = [job EXCEPT ![a] = j] /\ job'[a] = j
    BY <1>4, <2>1, NewJob
  <2>4. /\ a \in Temporary(n)' <=> a \in Temporary(n)
        /\ a \notin Calling(n)' /\ a \notin Calling(n)
        /\ a \in Carried(n, TRUE)' <=> a \in Carried(n, TRUE)
        /\ a \in Carried(n, FALSE)' <=> a \in Carried(n, FALSE)
    <3>1. job[a].next \in {"sent", "mgr"}
      BY <1>1 DEF JobSound
    <3> QED BY <1>1, <1>2, <2>2, <2>3, <3>1 DEF Temporary, Calling, Carried, Users
  <2>5. JobSound(a)'
    BY <1>1, <1>2, <1>3, <1>4, <2>2, <2>3 DEF JobSound
  <2>6. UNCHANGED <<life, ref, olock, held, lost>> /\ node' = node
    BY <1>3, <1>4
  <2> QED BY <1>1, <1>2, <1>3, <2>2, <2>3, <2>4, <2>5, <2>6, TaskQuiet
<1>5. CASE ref[c][n] # NoRef /\ IncRef(c, n, ref[c][n], strong, list)
           /\ Become(a, AfterInc(job[a], IncRefFails(n, ref[c][n], strong, list)))
  <2>1. PICK r : r = ref[c][n]
    OBVIOUS
  <2>2. r \in RefType /\ r.desc # -1
    BY <1>5, <2>1, TypeFacts DEF RefInv, RefsSound
  <2>3. PICK fails \in BOOLEAN : fails = IncRefFails(n, r, strong, list)
    BY DEF IncRefFails
  <2>4. PICK j : j = AfterInc(job[a], fails) /\ Become(a, j)
    BY <1>5, <2>1, <2>3
  <2>5. /\ j \in JobType /\ j.node \in {n, None} /\ j.pc \in {"put", "idle"} /\ SameTask(a, n) /\ JobSound(a)'
    <3>1. job[a].pc \in {"ref", "alloc"} /\ n = job[a].node /\ life' = life
      BY <1>1, <1>2, <1>3
    <3> QED BY ONLY RefInv, a \in Tasks, n \in Nodes, fails \in BOOLEAN, <2>4, <3>1, AfterIncOk
  <2>6. /\ r.strong = ref[c][n].strong /\ r.weak = ref[c][n].weak /\ r.desc = ref[c][n].desc
        /\ IncRef(c, n, r, strong, list) /\ job[a].node \in {n, None}
        /\ job[a].pc # "release" /\ j.pc # "release" /\ (list # "none" => node[n].proc)
    BY <1>1, <1>2, <1>5, <2>1, <2>5
  <2> QED BY ONLY RefInv, a \in Tasks, c \in Procs, n \in Nodes, strong \in BOOLEAN,
                  list \in Locals \cup {"none"}, <1>3, <2>2, <2>4, <2>5, <2>6, IncRefOk
<1> QED BY <1>2, <1>4, <1>5 DEF IncRefForNode

\* The lock is taken again with a new reference, unless it could not be allocated.
LEMMA IncRefForNodeNewOk ==
  ASSUME RefInv, NEW a \in Tasks, IncRefForNodeNew(a)
  PROVE  RefInv'
<1>1. job[a].pc = "alloc" /\ JobSound(a) /\ job[a] \in JobType
  BY TypeFacts DEF RefInv, IncRefForNodeNew
<1>2. PICK n \in Nodes, c \in Procs, strong \in BOOLEAN, list \in Locals \cup {"none"} :
        /\ n = job[a].node /\ c = job[a].proc /\ strong = job[a].strong /\ list = job[a].list
        /\ node[n].mem \in {"live", "reap"} /\ (list # "none" => node[n].proc)
  BY <1>1, ListOwner
<1>3. UNCHANGED <<life, olock, held, lost>> /\ calls' \in Nat /\ n # None
  BY <1>2, Marks DEF IncRefForNodeNew, RefInv, Types
<1>4. job[a].pc \in {"ref", "alloc"} /\ n = job[a].node /\ life' = life
  BY <1>1, <1>2, <1>3
<1>5. CASE Become(a, AfterInc(job[a], TRUE)) /\ UNCHANGED <<node, ref>>
  <2>0. PICK fails \in BOOLEAN : fails = TRUE
    OBVIOUS
  <2>1. PICK j : fails = TRUE /\ j = AfterInc(job[a], fails) /\ Become(a, j)
    BY <1>5, <2>0
  <2>2. /\ j \in JobType /\ j.node \in {n, None} /\ j.pc \in {"put", "idle"} /\ SameTask(a, n) /\ JobSound(a)'
    BY ONLY RefInv, a \in Tasks, n \in Nodes, fails \in BOOLEAN, <1>4, <2>1, AfterIncOk
  <2>3. UNCHANGED <<life, ref, olock, held, lost>> /\ node' = node /\ job' = [job EXCEPT ![a] = j]
    BY <1>3, <1>5, <2>1 DEF Become
  <2>4. job[a].node \in {n, None} /\ job[a].pc # "release" /\ j.pc # "release" /\ j.node \in {n, None}
    BY <1>1, <1>2, <2>2
  <2>5. /\ a \in Temporary(n)' <=> a \in Temporary(n)
        /\ a \in Calling(n)' <=> a \in Calling(n)
        /\ a \in Carried(n, TRUE)' <=> a \in Carried(n, TRUE)
        /\ a \in Carried(n, FALSE)' <=> a \in Carried(n, FALSE)
    BY <2>2 DEF SameTask
  <2> QED BY <1>2, <1>3, <2>2, <2>3, <2>4, <2>5, TaskQuiet
<1>6. CASE /\ node[n].mem = "live" /\ IncRef(c, n, OldOrNew(c, n), strong, list)
           /\ Become(a, AfterInc(job[a], IncRefFails(n, OldOrNew(c, n), strong, list)))
  <2>1. PICK r : r = OldOrNew(c, n)
    OBVIOUS
  <2>2. /\ r \in RefType /\ r.desc # -1 /\ r.strong = ref[c][n].strong /\ r.weak = ref[c][n].weak
        /\ \/ r.desc = ref[c][n].desc
           \/ (\A m \in Nodes : m # n => ref[c][m].desc # r.desc) /\ (r.desc = 0 => node[n].mgr)
    <3>1. ref[c][n] \in RefType /\ (ref[c][n].desc = -1 => ref[c][n] = NoRef)
      BY TypeFacts DEF RefInv, RefsSound
    <3>2. CASE ref[c][n] # NoRef
      BY <2>1, <3>1, <3>2 DEF OldOrNew
    <3>3. CASE ref[c][n] = NoRef
      <4>1. PICK d \in Nat : d = NewDesc(c, n) /\ (\A m \in Nodes : ref[c][m].desc # d) /\ (d = 0 => node[n].mgr)
        BY NewDescFree
      <4>2. r = [desc |-> d, strong |-> 0, weak |-> 0]
        BY <2>1, <3>3, <4>1 DEF OldOrNew
      <4> QED BY <3>3, <4>1, <4>2 DEF RefType, NoRef
    <3> QED BY <3>2, <3>3
  <2>3. PICK fails \in BOOLEAN : fails = IncRefFails(n, r, strong, list)
    BY DEF IncRefFails
  <2>4. PICK j : j = AfterInc(job[a], fails) /\ Become(a, j)
    BY <1>6, <2>1, <2>3
  <2>5. /\ j \in JobType /\ j.node \in {n, None} /\ j.pc \in {"put", "idle"} /\ SameTask(a, n) /\ JobSound(a)'
    BY ONLY RefInv, a \in Tasks, n \in Nodes, fails \in BOOLEAN, <1>4, <2>4, AfterIncOk
  <2>6. /\ IncRef(c, n, r, strong, list) /\ job[a].node \in {n, None} /\ node[n].mem = "live"
        /\ job[a].pc # "release" /\ j.pc # "release" /\ (list # "none" => node[n].proc)
    BY <1>1, <1>2, <1>6, <2>1, <2>5
  <2> QED BY ONLY RefInv, a \in Tasks, c \in Procs, n \in Nodes, strong \in BOOLEAN,
                  list \in Locals \cup {"none"}, <1>3, <2>2, <2>4, <2>5, <2>6, IncRefOk
<1> QED BY <1>2, <1>5, <1>6 DEF IncRefForNodeNew, Unlocked

\* BC_INCREFS and BC_ACQUIRE.
LEMMA BcIncOk ==
  ASSUME RefInv, NEW a \in Senders, NEW c \in Clients, NEW n \in Nodes, NEW strong \in BOOLEAN,
         BcInc(a, c, n, strong)
  PROVE  RefInv'
<1>1. /\ a \in Tasks /\ a \notin Locals /\ c \in Procs /\ job[a].pc = "idle" /\ node[n].mem = "live" /\ ref[c][n] # NoRef
      /\ UNCHANGED <<life, olock, job, held, lost>> /\ calls' = calls + 1
  BY Marks DEF BcInc, Free, Unlocked, Call, Procs
<1>2. PICK j, r, list : j = job[a] /\ r = ref[c][n] /\ list = "none"
  OBVIOUS
<1>3. r \in RefType /\ r.desc # -1 /\ calls' \in Nat
  <2>1. calls \in Nat
    BY DEF RefInv, Types
  <2> QED BY <1>1, <1>2, <2>1, TypeFacts DEF RefInv, RefsSound
<1>4. j \in JobType /\ j.node = None /\ job[a].node = None /\ j.pc = "idle" /\ Become(a, j)
  BY <1>1, <1>2, TypeFacts, IdleTask DEF RefInv, Types, Become
<1>5. SameTask(a, n)
  BY <1>1 DEF SameTask, Temporary, Calling, Carried, Users
<1>6. JobSound(a)'
  <2>1. JobSound(a) /\ job'[a] = job[a] /\ job[a] = Idle
    BY <1>1, IdleTask DEF RefInv
  <2> QED BY <1>1, <2>1 DEF JobSound, Idle
<1>7. /\ IncRef(c, n, r, strong, list) /\ list \in Locals \cup {"none"} /\ (list # "none" => node[n].proc)
      /\ r.strong = ref[c][n].strong /\ r.weak = ref[c][n].weak /\ r.desc = ref[c][n].desc
      /\ job[a].pc # "release" /\ j.pc # "release" /\ job[a].node \in {n, None} /\ j.node \in {n, None}
      /\ UNCHANGED <<life, olock, held, lost>> /\ node[n].mem = "live" /\ a \in Tasks /\ c \in Procs
  BY <1>1, <1>2, <1>4 DEF BcInc
<1> QED BY ONLY RefInv, n \in Nodes, strong \in BOOLEAN, <1>3, <1>4, <1>5, <1>6, <1>7, IncRefOk

-----------------------------------------------------------------------------
(* References are counted down and cleaned up.                             *)

\* One strong reference less.
LEMMA LessInternal ==
  ASSUME NEW d \in NodeType, NEW k \in Nat, NEW f, f = [d EXCEPT !.internal = k]
  PROVE  f \in NodeType /\ Likewise(f, d) /\ f.internal = k /\ f.work = d.work
BY DEF NodeType, Likewise

\* The strong references of the node after one of them changed.
LEMMA InternalIs ==
  ASSUME RefInv, NEW a \in Tasks, NEW c \in Procs, NEW n \in Nodes, node[n].mem = "live",
         \A p \in Procs : p # c => ref'[p][n] = ref[p][n]
  PROVE  \E k \in Nat : k = node[n].internal + One(ref'[c][n].strong > 0) - One(ref[c][n].strong > 0)
<1>1. node[n].internal = Cardinality(StrongRefs(n))
  BY LiveFacts
<1>2. /\ Cardinality(StrongRefs(n))' \in Nat
      /\ Cardinality(StrongRefs(n))' =
           Cardinality(StrongRefs(n)) + One(ref'[c][n].strong > 0) - One(ref[c][n].strong > 0)
  BY RefCounts
<1> QED BY <1>1, <1>2

\* A task that has no count of any node.
LEMMA NoPart ==
  ASSUME NEW a, NEW n, job[a].pc \in {"idle", "sent", "cleanup"}, job[a].next # "sent_binder",
         job'[a].pc \in {"idle", "sent", "cleanup"}, job'[a].next # "sent_binder"
  PROVE  SameTask(a, n)
BY DEF SameTask, Temporary, Calling, Carried, Users

\* binder_dec_ref_olocked().
LEMMA DecRefOk ==
  ASSUME RefInv, NEW a \in Tasks, NEW c \in Procs, NEW n \in Nodes, NEW strong \in BOOLEAN,
         DecRef(a, c, n, strong), UNCHANGED <<life, held, lost>>, calls' \in Nat,
         job[a].node \in {n, None}, job[a].pc \in {"idle", "sent"}, a \in Locals => life[Server] = "open"
  PROVE  RefInv'
<1>1. olock[c] = None /\ node[n].mem = "live" /\ Count(ref[c][n], strong) > 0 /\ JobSound(a)
  BY DEF DecRef, Unlocked, RefInv
<1>2. PICK q : q = ref[c][n]
  OBVIOUS
<1>3. q \in RefType /\ q.strong \in Nat /\ q.weak \in Nat /\ (q.desc = -1 => q = NoRef)
  BY <1>2, TypeFacts DEF RefInv, RefsSound, RefType
<1>4. PICK r : r = Add(q, strong, -1)
  OBVIOUS
<1>5. /\ r \in RefType /\ r.desc = q.desc
      /\ strong => q.strong > 0 /\ r.strong = q.strong - 1 /\ r.weak = q.weak
      /\ ~strong => q.weak > 0 /\ r.strong = q.strong /\ r.weak = q.weak - 1
  <2>1. CASE strong
    <3>1. q.strong > 0 /\ r = [q EXCEPT !.strong = q.strong + (-1)]
      BY <1>1, <1>2, <1>4, <2>1 DEF Count, Add
    <3>2. q.strong + (-1) \in Nat /\ q.strong + (-1) = q.strong - 1
      BY <1>3, <3>1
    <3> QED BY <1>3, <2>1, <3>1, <3>2 DEF RefType
  <2>2. CASE ~strong
    <3>1. q.weak > 0 /\ r = [q EXCEPT !.weak = q.weak + (-1)]
      BY <1>1, <1>2, <1>4, <2>2 DEF Count, Add
    <3>2. q.weak + (-1) \in Nat /\ q.weak + (-1) = q.weak - 1
      BY <1>3, <3>1
    <3> QED BY <1>3, <2>2, <3>1, <3>2 DEF RefType
  <2> QED BY <2>1, <2>2
<1>6. q # NoRef /\ q.desc # -1 /\ r # NoRef /\ Counted(n)
  <2>1. q # NoRef
    BY <1>5 DEF NoRef
  <2>2. q.strong + q.weak > 0
    <3>1. PICK x \in Nat, y \in Nat : x = q.strong /\ y = q.weak
      BY <1>3
    <3>2. x > 0 \/ y > 0
      BY <1>5, <3>1
    <3>3. x + y > 0
      BY ONLY <3>2, x \in Nat, y \in Nat
    <3> QED BY <3>1, <3>3
  <2>3. Counted(n)
    BY <1>2, <2>2 DEF Counted
  <2>4. r # NoRef
    BY <1>3, <1>5, <2>1 DEF NoRef
  <2> QED BY <1>3, <2>1, <2>3, <2>4
<1>7. PICK zero \in BOOLEAN : zero = (r.strong = 0 /\ r.weak = 0)
  OBVIOUS
<1>8. PICK j : j = IF zero THEN [Idle EXCEPT !.pc = "cleanup", !.proc = c, !.node = n] ELSE Idle
  OBVIOUS
<1>9. /\ j \in JobType /\ j.node \in {n, None} /\ j.next = "idle" /\ j.list = "none"
      /\ zero => j.pc = "cleanup" /\ j.node = n /\ j.proc = c
      /\ ~zero => j = Idle /\ j.pc = "idle"
  BY <1>8 DEF Idle, JobType
<1>10. PICK e : e = (IF strong /\ r.strong = 0 THEN DecNode(node[n], TRUE, TRUE, Refs(n)) ELSE node[n]) /\ Set(n, e)
  BY <1>2, <1>4 DEF DecRef
<1>11. Become(a, j) /\ PutRef(c, n, r)
  BY <1>2, <1>4, <1>7, <1>8 DEF DecRef, PutRef
<1>12. /\ olock' \in [Procs -> Tasks \cup {None}]
       /\ \A p \in Procs : olock'[p] = olock[p] \/ olock[p] \in {None, a}
       /\ zero => olock'[c] = a
  <2>0. olock \in [Procs -> Tasks \cup {None}]
    BY DEF RefInv, Types, TypeOK
  <2>1. CASE zero
    BY <1>1, <1>2, <1>4, <1>7, <2>0, <2>1 DEF DecRef
  <2>2. CASE ~zero
    BY <1>2, <1>4, <1>7, <2>0, <2>2 DEF DecRef
  <2> QED BY <2>1, <2>2
<1>13. /\ Moves(a, c, n) /\ job'[a] = j /\ node'[n] = e /\ ref'[c][n] = r
       /\ \A p \in Procs : p # c => ref'[p][n] = ref[p][n]
       /\ \A b \in Tasks : b # a => job'[b] = job[b]
  <2>1. r \in RefType /\ (r = NoRef => ref[c][n] = NoRef \/ olock[c] \in {None, a}) /\ j \in JobType
        /\ j.node \in {n, None} /\ Set(n, e)
    BY <1>1, <1>5, <1>9, <1>10
  <2> QED BY ONLY RefInv, a \in Tasks, c \in Procs, n \in Nodes, UNCHANGED <<life, held, lost>>, calls' \in Nat,
                  job[a].node \in {n, None}, <1>11, <1>12, <2>1, RefMoves
<1>14. Refs(n)' = Refs(n)
  BY <1>2, <1>6, <1>13 DEF Refs
<1>15. JobSound(a)'
  <2>1. CASE zero
    <3>1. /\ job'[a].pc = "cleanup" /\ job'[a].proc = c /\ job'[a].node = n /\ job'[a].next = "idle"
          /\ job'[a].list = "none" /\ olock'[c] = a /\ ref'[c][n] # NoRef /\ life' = life
      BY <1>6, <1>9, <1>12, <1>13, <2>1
    <3> QED BY <3>1 DEF JobSound
  <2>2. CASE ~zero
    <3>1. job'[a] = Idle
      BY <1>9, <1>13, <2>2
    <3> QED BY <3>1 DEF JobSound, Idle
  <2> QED BY <2>1, <2>2
<1>16. job[a].next # "sent_binder"
  BY <1>1 DEF JobSound, Idle
<1>17. SameTask(a, n)
  BY <1>9, <1>13, <1>16, NoPart
<1>18. Erased(n)' = Erased(n)
  BY <1>9, <1>13, ErasedSame
<1>19. PICK k \in Nat : k = node[n].internal + One(ref'[c][n].strong > 0) - One(ref[c][n].strong > 0)
  BY <1>1, <1>13, InternalIs
<1>20. /\ node[n] \in NodeType /\ node[n].internal \in Nat /\ (node[n].work # "none" => node[n].proc)
       /\ node[n].proc /\ node[n].work = "none" /\ ~lost[n] =>
            (node[n].internal > 0 => node[n].has_s) /\ node[n].has_w
  BY <1>1, <1>6, LiveFacts DEF NodeType
<1>21. (r.strong > 0 => q.strong > 0) /\ k <= node[n].internal
  <2>1. r.strong > 0 => q.strong > 0
    BY <1>3, <1>5
  <2>2. PICK x \in Int, y \in Int : x = One(ref'[c][n].strong > 0) /\ y = One(ref[c][n].strong > 0)
    BY OneInt
  <2>3. x <= y
    BY <1>2, <1>13, <2>1, <2>2 DEF One
  <2>4. k = node[n].internal + x - y
    BY <1>19, <2>2
  <2>5. PICK i \in Nat : i = node[n].internal
    BY <1>20
  <2>6. k = i + x - y
    BY <2>4, <2>5
  <2>7. k <= i
    BY ONLY <2>3, <2>6, k \in Nat, i \in Nat, x \in Int, y \in Int
  <2> QED BY <2>1, <2>5, <2>7
<1>22. PICK d : d = [node[n] EXCEPT !.internal = k]
  OBVIOUS
<1>23. d \in NodeType /\ Likewise(d, node[n]) /\ d.internal = k /\ d.work = node[n].work
  BY <1>20, <1>22, LessInternal
<1>24. Fits(d, a, c, n) /\ d.mem = "live"
  <2>1. d.work # "none" => d.proc
    BY <1>20, <1>23 DEF Likewise
  <2>2. d.proc /\ d.work = "none" /\ ~lost[n] => (d.internal > 0 => d.has_s) /\ (Counted(n)' => d.has_w)
    BY <1>20, <1>21, <1>23 DEF Likewise
  <2>3. d.internal = node[n].internal + One(ref'[c][n].strong > 0) - One(ref[c][n].strong > 0)
    BY <1>19, <1>23
  <2>4. held' = held
    OBVIOUS
  <2> QED BY <1>1, <1>13, <1>17, <1>18, <1>23, <2>1, <2>2, <2>3, <2>4, RefFits
<1>25. /\ NodeOk(n)' /\ node'[n] \in NodeType
       /\ (node[n].mgr => node'[n].mgr) /\ node'[n].ptr = node[n].ptr /\ (node'[n].tree => node[n].tree)
  <2>1. CASE strong /\ r.strong = 0
    <3>1. q.strong = 1
      BY <1>3, <1>5, <2>1
    <3>2. One(ref'[c][n].strong > 0) = 0 /\ One(ref[c][n].strong > 0) = 1
      BY <1>2, <1>13, <2>1, <3>1 DEF One
    <3>3. k = node[n].internal - 1
      BY <1>19, <1>20, <3>2
    <3>4. e = Settle(d, TRUE, Refs(n))
      BY <1>10, <1>22, <2>1, <3>3 DEF DecNode
    <3>5. PICK refs : refs = Refs(n)' /\ node'[n] = Settle(d, TRUE, refs)
      BY <1>13, <1>14, <3>4
    <3>6. TRUE \in BOOLEAN
      OBVIOUS
    <3> QED BY ONLY RefInv, a \in Tasks, c \in Procs, n \in Nodes, <1>1, <1>13, <1>15, <1>24, <3>5, <3>6, SettleStep
  <2>2. CASE ~(strong /\ r.strong = 0)
    <3>1. e = node[n]
      BY <1>10, <2>2
    <3>2. One(ref'[c][n].strong > 0) = One(ref[c][n].strong > 0)
      <4>1. r.strong > 0 <=> q.strong > 0
        <5>1. CASE strong
          <6>1. r.strong # 0 /\ r.strong = q.strong - 1
            BY <1>5, <2>2, <5>1
          <6>2. r.strong \in Nat
            BY <1>5 DEF RefType
          <6> QED BY <1>3, <6>1, <6>2
        <5>2. CASE ~strong
          BY <1>5, <5>2
        <5> QED BY <5>1, <5>2
      <4> QED BY <1>2, <1>13, <4>1 DEF One
    <3>3. k = node[n].internal
      <4>1. One(ref[c][n].strong > 0) \in Int
        BY OneInt
      <4> QED BY <1>19, <1>20, <3>2, <4>1
    <3>4. d = node[n]
      BY <1>20, <1>22, <3>3 DEF NodeType
    <3>5. Kept(node[n], Refs(n)', lost'[n])
      <4>1. c \in Refs(n)
        BY <1>2, <1>6 DEF Refs
      <4> QED BY <1>14, <4>1 DEF Kept, Unused
    <3>6. NodeOk(n)'
      <4>1. d = node'[n] /\ Kept(d, Refs(n)', lost'[n]) /\ node[n].mem \in {"live", "reap"}
        BY <1>1, <1>13, <3>1, <3>4, <3>5
      <4> QED BY ONLY RefInv, a \in Tasks, c \in Procs, n \in Nodes, <1>13, <1>24, <4>1, KeepStep
    <3> QED BY <1>13, <1>20, <3>1, <3>6
  <2> QED BY <2>1, <2>2
<1>26. ref'[c][n].desc = ref[c][n].desc /\ (ref'[c][n].desc = -1 => ref'[c][n] = NoRef)
  BY <1>2, <1>5, <1>6, <1>13
<1> QED BY <1>13, <1>15, <1>25, <1>26, OneStep

\* BC_RELEASE and BC_DECREFS.
LEMMA BcDecOk ==
  ASSUME RefInv, NEW a \in Senders, NEW c \in Clients, NEW n \in Nodes, NEW strong \in BOOLEAN,
         BcDec(a, c, n, strong)
  PROVE  RefInv'
<1>1. /\ a \in Tasks /\ a \notin Locals /\ c \in Procs /\ job[a].pc \in {"idle", "sent"} /\ job[a].pc = "idle"
      /\ UNCHANGED <<life, held, lost>> /\ calls' = calls + 1 /\ DecRef(a, c, n, strong)
  BY Marks DEF BcDec, Free, Call, Procs
<1>2. job[a].node \in {n, None} /\ calls' \in Nat
  <2>1. calls \in Nat
    BY DEF RefInv, Types
  <2>2. job[a].node = None
    BY <1>1 DEF RefInv, JobSound, Idle
  <2>3. calls' \in Nat
    BY ONLY <1>1, <2>1
  <2> QED BY <2>2, <2>3
<1> QED BY <1>1, <1>2, DecRefOk

\* The handle that was made for a transaction that failed is dropped, if it is still there.
LEMMA UndoHandleOk ==
  ASSUME RefInv, NEW a \in Tasks, UndoHandle(a)
  PROVE  RefInv'
<1>1. /\ JobSound(a) /\ job[a] \in JobType /\ job[a].pc = "sent" /\ job[a].next = "sent"
      /\ job[a].strong \in BOOLEAN /\ UNCHANGED <<life, held, lost, calls>> /\ calls' \in Nat
  BY TypeFacts DEF RefInv, UndoHandle, JobType, JobSound, Types
<1>2. PICK n \in Nodes, c \in Procs, strong \in BOOLEAN : n = job[a].node /\ c = job[a].proc /\ strong = job[a].strong
  BY <1>1 DEF JobSound
<1>3. CASE DecRef(a, c, n, strong)
  <2>1. /\ job[a].node \in {n, None} /\ job[a].pc \in {"idle", "sent"} /\ (a \in Locals => life[Server] = "open")
        /\ UNCHANGED <<life, held, lost>> /\ calls' \in Nat
    BY <1>1, <1>2 DEF JobSound
  <2> QED BY ONLY RefInv, a \in Tasks, c \in Procs, n \in Nodes, strong \in BOOLEAN, <1>3, <2>1, DecRefOk
<1>4. CASE Become(a, Idle) /\ UNCHANGED <<node, ref, olock>>
  <2>1. PICK j : j = Idle
    OBVIOUS
  <2>2. j \in JobType /\ j.pc = "idle" /\ j.node = None /\ j.next = "idle" /\ j.list = "none"
    BY <2>1 DEF Idle, JobType
  <2>3. /\ job' = [job EXCEPT ![a] = j] /\ job'[a] = j
    BY <1>4, <2>1, NewJob
  <2>4. SameTask(a, n)
    BY <1>1, <2>2, <2>3, NoPart
  <2>5. JobSound(a)'
    BY <2>1, <2>2, <2>3 DEF JobSound
  <2>6. node[n].mem \in {"live", "reap"} \/ (node[n].mem = "freed" /\ j = Idle)
    <3>1. a \in Users(n) /\ NodeOk(n) /\ node[n] \in NodeType
      BY <1>1, <1>2, TypeFacts DEF Users, RefInv
    <3> QED BY <2>1, <3>1 DEF NodeOk, NodeType
  <2>7. /\ job[a].node \in {n, None} /\ j.node \in {n, None} /\ job[a].pc # "release" /\ j.pc # "release"
        /\ UNCHANGED <<life, ref, olock, held, lost>> /\ node' = node
    BY <1>1, <1>2, <1>4, <2>2
  <2>8. /\ a \in Temporary(n)' <=> a \in Temporary(n)
        /\ a \in Calling(n)' <=> a \in Calling(n)
        /\ a \in Carried(n, TRUE)' <=> a \in Carried(n, TRUE)
        /\ a \in Carried(n, FALSE)' <=> a \in Carried(n, FALSE)
    BY <2>4 DEF SameTask
  <2> QED BY <1>1, <2>2, <2>3, <2>5, <2>6, <2>7, <2>8, TaskQuiet
<1> QED BY <1>2, <1>3, <1>4 DEF UndoHandle

\* A node with a reference does not end.
LEMMA SettleStays ==
  ASSUME NEW d \in NodeType, NEW refs, refs # {}, NEW e, e = Settle(d, TRUE, refs)
  PROVE  /\ e \in NodeType /\ Likewise(e, d) /\ e.internal = d.internal
         /\ (e.work = "none" => d.work = "none") /\ (e.work # "none" => d.work # "none" \/ d.proc)
<1>1. ~Unused(d, refs)
  BY DEF Unused
<1>2. e = d \/ (d.proc /\ e = [d EXCEPT !.work = IF d.work = "none" THEN "todo" ELSE d.work])
  BY <1>1 DEF Settle
<1>3. CASE e = d
  BY <1>3 DEF Likewise
<1>4. CASE d.proc /\ e = [d EXCEPT !.work = IF d.work = "none" THEN "todo" ELSE d.work]
  BY <1>4 DEF Likewise, NodeType
<1> QED BY <1>2, <1>3, <1>4

\* binder_cleanup_ref_olocked(): the node loses a reference and what it counted.
LEMMA CleanupOk ==
  ASSUME RefInv, NEW a \in Tasks, NEW c \in Procs, NEW n \in Nodes, NEW j, j = Idle,
         node[n].mem = "live", ref[c][n] # NoRef, Cleanup(c, n), Become(a, j),
         UNCHANGED <<life, held, lost>>, calls' \in Nat,
         olock' \in [Procs -> Tasks \cup {None}],
         \A p \in Procs : olock'[p] = olock[p] \/ olock[p] \in {None, a},
         olock[c] \in {None, a}, job[a].node \in {n, None}, job[a].pc \in {"idle", "cleanup"}
  PROVE  RefInv'
<1>1. JobSound(a) /\ job[a].next # "sent_binder"
  BY DEF RefInv, JobSound, Idle
<1>2. j \in JobType /\ j.pc = "idle" /\ j.node = None /\ j.next = "idle" /\ j.list = "none"
  BY DEF Idle, JobType
<1>3. PICK q, r : q = ref[c][n] /\ r = NoRef /\ PutRef(c, n, r)
  BY DEF Cleanup, PutRef
<1>4. q \in RefType /\ q.strong \in Nat /\ q.weak \in Nat /\ r \in RefType /\ r.strong = 0 /\ r.weak = 0 /\ r.desc = -1
  BY <1>3, TypeFacts DEF RefInv, RefType, NoRef
<1>5. PICK g : g = (IF q.strong > 0 THEN DecNode(node[n], TRUE, TRUE, Refs(n)) ELSE node[n])
  OBVIOUS
<1>6. PICK e : e = DecNode(g, FALSE, TRUE, Refs(n) \ {c}) /\ Set(n, e)
  BY <1>3, <1>5 DEF Cleanup
<1>7. /\ Moves(a, c, n) /\ job'[a] = j /\ node'[n] = e /\ ref'[c][n] = r
      /\ \A p \in Procs : p # c => ref'[p][n] = ref[p][n]
      /\ \A b \in Tasks : b # a => job'[b] = job[b]
  <2>1. /\ r \in RefType /\ (r = NoRef => ref[c][n] = NoRef \/ olock[c] \in {None, a}) /\ j \in JobType
        /\ j.node \in {n, None} /\ Set(n, e) /\ PutRef(c, n, r)
        /\ \A p \in Procs : olock'[p] = olock[p] \/ olock[p] \in {None, a}
    BY <1>2, <1>3, <1>4, <1>6
  <2> QED BY ONLY RefInv, a \in Tasks, c \in Procs, n \in Nodes, UNCHANGED <<life, held, lost>>, calls' \in Nat,
                  olock' \in [Procs -> Tasks \cup {None}],
                  job[a].node \in {n, None}, Become(a, j), <2>1, RefMoves
<1>8. Refs(n)' = Refs(n) \ {c} /\ (Counted(n)' => Counted(n)) /\ c \in Refs(n)
  <2>1. Refs(n)' = Refs(n) \ {c} /\ c \in Refs(n)
    BY <1>3, <1>7 DEF Refs
  <2>2. Counted(n)' => Counted(n)
    BY <1>4, <1>7 DEF Counted
  <2> QED BY <2>1, <2>2
<1>9. JobSound(a)'
  BY <1>2, <1>7 DEF JobSound
<1>10. SameTask(a, n) /\ Erased(n)' = Erased(n)
  BY <1>1, <1>2, <1>7, NoPart, ErasedSame
<1>11. PICK k \in Nat : k = node[n].internal + One(ref'[c][n].strong > 0) - One(ref[c][n].strong > 0)
  BY <1>7, InternalIs
<1>12. /\ node[n] \in NodeType /\ node[n].internal \in Nat /\ (node[n].work # "none" => node[n].proc)
       /\ node[n].proc /\ node[n].work = "none" /\ ~lost[n] =>
            (node[n].internal > 0 => node[n].has_s) /\ (Counted(n) => node[n].has_w)
  BY LiveFacts DEF NodeType
<1>13. One(ref'[c][n].strong > 0) = 0 /\ k <= node[n].internal
  <2>1. One(ref'[c][n].strong > 0) = 0
    BY <1>4, <1>7 DEF One
  <2>2. PICK y \in Nat, i \in Nat : y = One(ref[c][n].strong > 0) /\ i = node[n].internal
    BY <1>12, OneInt
  <2>3. k = i + 0 - y
    BY <1>11, <2>1, <2>2
  <2>4. k <= i
    BY ONLY <2>3, k \in Nat, i \in Nat, y \in Nat
  <2> QED BY <2>1, <2>2, <2>4
<1>14. /\ g \in NodeType /\ Likewise(g, node[n]) /\ g.internal = k
       /\ (g.work = "none" => node[n].work = "none") /\ (g.work # "none" => node[n].proc)
  <2>1. CASE q.strong > 0
    <3>1. One(ref[c][n].strong > 0) = 1
      BY <1>3, <2>1 DEF One
    <3>2. k = node[n].internal - 1
      BY <1>11, <1>12, <1>13, <3>1
    <3>3. PICK d : d = [node[n] EXCEPT !.internal = k]
      OBVIOUS
    <3>4. d \in NodeType /\ Likewise(d, node[n]) /\ d.internal = k /\ d.work = node[n].work
      BY <1>12, <3>3, LessInternal
    <3>5. g = Settle(d, TRUE, Refs(n)) /\ Refs(n) # {}
      BY <1>5, <1>8, <2>1, <3>2, <3>3 DEF DecNode
    <3>6. /\ g \in NodeType /\ Likewise(g, d) /\ g.internal = d.internal
          /\ (g.work = "none" => d.work = "none") /\ (g.work # "none" => d.work # "none" \/ d.proc)
      BY ONLY <3>4, <3>5, SettleStays
    <3> QED BY <1>12, <3>4, <3>6 DEF Likewise
  <2>2. CASE ~(q.strong > 0)
    <3>1. One(ref[c][n].strong > 0) = 0
      BY <1>3, <2>2 DEF One
    <3>2. k = node[n].internal
      BY <1>11, <1>12, <1>13, <3>1
    <3>3. g = node[n]
      BY <1>5, <2>2
    <3> QED BY <1>12, <3>2, <3>3 DEF Likewise
  <2> QED BY <2>1, <2>2
<1>15. Fits(g, a, c, n) /\ g.mem = "live"
  <2>1. g.work # "none" => g.proc
    BY <1>14 DEF Likewise
  <2>2. g.proc /\ g.work = "none" /\ ~lost[n] => (g.internal > 0 => g.has_s) /\ (Counted(n)' => g.has_w)
    BY <1>8, <1>12, <1>13, <1>14 DEF Likewise
  <2>3. g.internal = node[n].internal + One(ref'[c][n].strong > 0) - One(ref[c][n].strong > 0)
    BY <1>11, <1>14
  <2>4. held' = held
    OBVIOUS
  <2> QED BY <1>7, <1>10, <1>14, <2>1, <2>2, <2>3, <2>4, RefFits
<1>16. /\ NodeOk(n)' /\ node'[n] \in NodeType
       /\ (node[n].mgr => node'[n].mgr) /\ node'[n].ptr = node[n].ptr /\ (node'[n].tree => node[n].tree)
  <2>1. e = Settle(g, FALSE, Refs(n) \ {c})
    BY <1>6 DEF DecNode
  <2>2. PICK refs : refs = Refs(n)' /\ node'[n] = Settle(g, FALSE, refs)
    BY <1>7, <1>8, <2>1
  <2>3. FALSE \in BOOLEAN /\ node[n].mem = "live"
    OBVIOUS
  <2> QED BY ONLY RefInv, a \in Tasks, c \in Procs, n \in Nodes, <1>7, <1>9, <1>15, <2>2, <2>3, SettleStep
<1>17. ref'[c][n] = NoRef
  BY <1>3, <1>7
<1> QED BY <1>7, <1>9, <1>16, <1>17, OneStep

\* The reference without a count is cleaned up under the lock that was kept for it.
LEMMA CleanupRefOk ==
  ASSUME RefInv, NEW a \in Tasks, CleanupRef(a)
  PROVE  RefInv'
<1>1. JobSound(a) /\ job[a].pc = "cleanup"
  BY DEF RefInv, CleanupRef
<1>2. PICK n \in Nodes, c \in Procs : n = job[a].node /\ c = job[a].proc
  BY <1>1 DEF JobSound
<1>3. olock[c] = a /\ ref[c][n] # NoRef
  BY <1>1, <1>2 DEF JobSound
<1>4. PICK j : j = Idle /\ Become(a, j)
  BY DEF CleanupRef
<1>5. /\ node[n].mem = "live" /\ Cleanup(c, n) /\ UNCHANGED <<life, held, lost>> /\ calls' \in Nat
      /\ job[a].node \in {n, None} /\ job[a].pc \in {"idle", "cleanup"} /\ olock[c] \in {None, a}
  BY <1>1, <1>2, <1>3 DEF CleanupRef, Unlocked, RefInv, Types
<1>6. /\ olock' \in [Procs -> Tasks \cup {None}]
      /\ \A p \in Procs : olock'[p] = olock[p] \/ olock[p] \in {None, a}
  <2>1. olock' = [olock EXCEPT ![c] = None] /\ olock \in [Procs -> Tasks \cup {None}]
    BY <1>2 DEF CleanupRef, RefInv, Types, TypeOK
  <2> QED BY <1>3, <2>1
<1> QED BY ONLY RefInv, a \in Tasks, n \in Nodes, c \in Procs, <1>3, <1>4, <1>5, <1>6, CleanupOk

\* The same for the references of a process that is released.
LEMMA ReleaseRefOk ==
  ASSUME RefInv, NEW p \in Procs, NEW n \in Nodes, ReleaseRef(p, n)
  PROVE  RefInv'
<1>1. /\ Worker \in Tasks /\ job[Worker].pc = "idle" /\ job[Worker] = Idle /\ job[Worker].node = None
  BY Marks, IdleTask DEF ReleaseRef
<1>2. PICK j : j = Idle /\ Become(Worker, j)
  BY <1>1 DEF ReleaseRef, Become, RefInv, Types
<1>3. /\ node[n].mem = "live" /\ Cleanup(p, n) /\ UNCHANGED <<life, held, lost>> /\ calls' \in Nat
      /\ job[Worker].node \in {n, None} /\ job[Worker].pc \in {"idle", "cleanup"} /\ olock[p] \in {None, Worker}
      /\ ref[p][n] # NoRef
  BY <1>1 DEF ReleaseRef, Unlocked, RefInv, Types
<1>4. /\ olock' \in [Procs -> Tasks \cup {None}]
      /\ \A q \in Procs : olock'[q] = olock[q] \/ olock[q] \in {None, Worker}
  BY DEF ReleaseRef, RefInv, Types, TypeOK
<1> QED BY ONLY RefInv, n \in Nodes, p \in Procs, <1>1, <1>2, <1>3, <1>4, CleanupOk


-----------------------------------------------------------------------------
(* Threads and processes that go away.                                     *)

\* A step that changes the lives of processes and drops work items, and nothing else.
Quiet ==
  /\ UNCHANGED <<ref, olock, job, held, calls>>
  /\ life' \in [Procs -> {"open", "releasing", "released"}] /\ lost' \in [Nodes -> BOOLEAN]
  /\ node' = [m \in Nodes |-> node'[m]]
  /\ \A m \in Nodes : \/ node'[m] = node[m] /\ lost'[m] = lost[m]
                      \/ node[m].work # "none" /\ node'[m] = Dequeued(node[m]) /\ lost'[m]
  /\ life'[Server] = "open" => life[Server] = "open"
  /\ life'[Server] # life[Server] =>
       MgrUnlocked /\ (\A b \in Locals : job[b].pc = "idle") /\ job[Worker].pc = "idle"

\* Such a step leaves the record of a node as it is, but for its work item.
LEMMA QuietRecord ==
  ASSUME RefInv, Quiet, NEW m \in Nodes
  PROVE  /\ node'[m] \in NodeType
         /\ node'[m].mem = node[m].mem /\ node'[m].ptr = node[m].ptr /\ node'[m].proc = node[m].proc
         /\ node'[m].tree = node[m].tree /\ node'[m].mgr = node[m].mgr
         /\ node'[m].internal = node[m].internal /\ node'[m].strong = node[m].strong
         /\ node'[m].weak = node[m].weak /\ node'[m].tmp = node[m].tmp
         /\ node'[m].has_s = node[m].has_s /\ node'[m].has_w = node[m].has_w
         /\ node'[m].pend_s = node[m].pend_s /\ node'[m].pend_w = node[m].pend_w
         /\ \/ node'[m] = node[m] /\ lost'[m] = lost[m]
            \/ node[m].work # "none" /\ node'[m].work = "none" /\ lost'[m]
<1>1. node[m] \in NodeType
  BY DEF RefInv, Types, TypeOK, NodeType
<1>2. CASE node'[m] = node[m] /\ lost'[m] = lost[m]
  BY <1>1, <1>2
<1>3. CASE node[m].work # "none" /\ node'[m] = Dequeued(node[m]) /\ lost'[m]
  <2>1. node'[m] = [node[m] EXCEPT !.work = "none"]
    BY <1>3 DEF Dequeued
  <2> QED BY <1>1, <1>3, <2>1 DEF NodeType
<1> QED BY <1>2, <1>3 DEF Quiet

\* It preserves the invariant: a node whose work item goes has lost it.
LEMMA QuietOk ==
  ASSUME RefInv, Quiet
  PROVE  RefInv'
<1>1. Types'
  <2>1. node' \in [Nodes -> NodeType]
    BY QuietRecord DEF Quiet
  <2> QED BY <2>1 DEF RefInv, Quiet, Types, TypeOK, NodeType
<1>2. RefsSound'
  BY DEF RefInv, Quiet, RefsSound
<1>3. HandlesUnique'
  <2>1. \A m \in Nodes : node'[m].ptr = node[m].ptr /\ node'[m].tree = node[m].tree /\ node'[m].mgr = node[m].mgr
    BY QuietRecord
  <2>2. HandlesUnique /\ ref' = ref
    BY DEF RefInv, Quiet
  <2> QED BY ONLY <2>1, <2>2 DEF HandlesUnique
<1>4. ASSUME NEW m \in Nodes
      PROVE  NodeOk(m)'
  <2> PICK d : d = node[m]
    OBVIOUS
  <2> PICK e : e = node'[m]
    OBVIOUS
  <2>1. /\ Refs(m)' = Refs(m) /\ Cardinality(StrongRefs(m))' = Cardinality(StrongRefs(m))
        /\ Cardinality(Temporary(m))' = Cardinality(Temporary(m)) /\ LocalStrong(m)' = LocalStrong(m)
        /\ LocalWeak(m)' = LocalWeak(m) /\ Erased(m)' = Erased(m) /\ Counted(m)' = Counted(m)
        /\ Users(m)' = Users(m) /\ Carried(m, TRUE)' = Carried(m, TRUE) /\ Carried(m, FALSE)' = Carried(m, FALSE)
        /\ held' = held /\ job' = job
    BY DEF Quiet, Refs, StrongRefs, Temporary, LocalStrong, LocalWeak, Erased, Counted, Users, Carried, Calling
  <2>2. /\ e.mem = d.mem /\ e.ptr = d.ptr /\ e.proc = d.proc /\ e.tree = d.tree /\ e.mgr = d.mgr
        /\ e.internal = d.internal /\ e.strong = d.strong /\ e.weak = d.weak /\ e.tmp = d.tmp
        /\ e.has_s = d.has_s /\ e.has_w = d.has_w /\ e.pend_s = d.pend_s /\ e.pend_w = d.pend_w
        /\ \/ e = d /\ lost'[m] = lost[m]
           \/ d.work # "none" /\ e.work = "none" /\ lost'[m]
    BY QuietRecord
  <2>3. NodeOk(m) /\ (life'[Server] = "open" => life[Server] = "open")
    BY DEF RefInv, Quiet
  <2>4. d.mem \in {"live", "reap"} =>
          /\ Sound(e, Refs(m), Cardinality(StrongRefs(m)), Cardinality(Temporary(m)), LocalStrong(m),
                   LocalWeak(m), life'[Server] = "open", Erased(m), Counted(m), lost'[m])
          /\ Kept(e, Refs(m), lost'[m])
    <3> HAVE d.mem \in {"live", "reap"}
    <3>1. /\ Sound(d, Refs(m), Cardinality(StrongRefs(m)), Cardinality(Temporary(m)), LocalStrong(m),
                   LocalWeak(m), life[Server] = "open", Erased(m), Counted(m), lost[m])
          /\ Kept(d, Refs(m), lost[m])
      BY <2>3 DEF NodeOk
    <3>2. Sound(e, Refs(m), Cardinality(StrongRefs(m)), Cardinality(Temporary(m)), LocalStrong(m),
                   LocalWeak(m), life'[Server] = "open", Erased(m), Counted(m), lost'[m])
      BY ONLY <2>2, <2>3, <3>1 DEF Sound
    <3>3. Kept(e, Refs(m), lost'[m])
      <4>1. Unused(e, Refs(m)) <=> Unused(d, Refs(m))
        BY ONLY <2>2 DEF Unused
      <4>2. d.work # "none" => d.proc
        BY ONLY <3>1 DEF Sound
      <4> QED BY ONLY <2>2, <3>1, <4>1, <4>2 DEF Kept
    <3> QED BY <3>2, <3>3
  <2>5. d.mem \notin {"live", "reap"} =>
          /\ Refs(m) = {} /\ held[m] = NoHeld /\ ~e.tree /\ e.work = "none"
          /\ \A b \in Users(m) : job[b].pc \in {"sent", "sent_binder"}
    BY ONLY <2>2, <2>3, d = node[m] DEF NodeOk
  <2>6. d.mem = "unused" => e = NoNode /\ Users(m) = {}
    <3> HAVE d.mem = "unused"
    <3>1. d = NoNode /\ Users(m) = {}
      BY ONLY <2>3, d = node[m], d.mem = "unused" DEF NodeOk
    <3> QED BY ONLY <2>2, <3>1 DEF NoNode
  <2>7. life'[Server] = "open" =>
          /\ Carried(m, TRUE) # {} \/ Carried(m, FALSE) # {} => e.tree
          /\ e.mgr => e.tree
    BY ONLY <2>2, <2>3, d = node[m] DEF NodeOk
  <2>8. Told(e) /\ (d.mem \in {"live", "reap"} => (~e.proc => held[m] = NoHeld))
    BY ONLY <2>2, <2>3, d = node[m] DEF NodeOk, Told
  <2> QED BY ONLY <2>1, <2>2, <2>4, <2>5, <2>6, <2>7, <2>8, e = node'[m] DEF NodeOk
<1>5. ASSUME NEW b \in Tasks
      PROVE  JobSound(b)'
  <2>1. JobSound(b) /\ job' = job /\ olock' = olock /\ ref' = ref
    BY DEF RefInv, Quiet
  <2>2. /\ job[b].next = "mgr" => life'[Server] = life[Server]
        /\ b \in Locals /\ job[b].pc # "idle" => life'[Server] = life[Server]
        /\ b = Worker /\ job[b].pc = "release" => life'[Server] = life[Server]
    BY DEF Quiet, MgrUnlocked
  <2>3. job[b].node \in Nodes => node'[job[b].node].mgr = node[job[b].node].mgr
    BY QuietRecord
  <2> QED BY ONLY <2>1, <2>2, <2>3 DEF JobSound
<1> QED BY <1>1, <1>2, <1>3, <1>4, <1>5 DEF RefInv

\* binder_thread_release() and what it does to a todo list.
LEMMA ThreadExitOk ==
  ASSUME RefInv, NEW a \in Locals, ThreadExit(a)
  PROVE  RefInv'
<1>1. /\ UNCHANGED <<ref, olock, job, held, calls, life>>
      /\ node' = [n \in Nodes |-> IF node[n].work \in {a} THEN Dequeued(node[n]) ELSE node[n]]
      /\ lost' = [n \in Nodes |-> lost[n] \/ node[n].work \in {a}]
  BY DEF ThreadExit, DropWork, Dequeued
<1>2. lost \in [Nodes -> BOOLEAN] /\ life \in [Procs -> {"open", "releasing", "released"}] /\ a # "none"
  BY Marks DEF RefInv, Types, TypeOK
<1>3. ASSUME NEW m \in Nodes
      PROVE  \/ node'[m] = node[m] /\ lost'[m] = lost[m]
             \/ node[m].work # "none" /\ node'[m] = Dequeued(node[m]) /\ lost'[m]
  BY <1>1, <1>2
<1>4. lost' \in [Nodes -> BOOLEAN]
  BY <1>1, <1>2
<1>5. node' = [m \in Nodes |-> node'[m]]
  BY <1>1
<1>6. Quiet
  BY ONLY <1>1, <1>2, <1>3, <1>4, <1>5 DEF Quiet
<1> QED BY <1>6, QuietOk

\* binder_deferred_release() up to the threads.
LEMMA StartReleaseOk ==
  ASSUME RefInv, NEW p \in Procs, StartRelease(p)
  PROVE  RefInv'
<1>1. /\ UNCHANGED <<ref, olock, job, held, calls>> /\ life[p] = "open"
      /\ life' = [life EXCEPT ![p] = "releasing"] /\ job[Worker].pc = "idle"
  BY DEF StartRelease
<1>2. lost \in [Nodes -> BOOLEAN] /\ life \in [Procs -> {"open", "releasing", "released"}] /\ "none" \notin Locals
  BY Marks DEF RefInv, Types, TypeOK
<1>3. life' \in [Procs -> {"open", "releasing", "released"}]
  BY <1>1, <1>2
<1>4. node \in [Nodes -> NodeType] /\ Server \in Procs
  BY Marks DEF RefInv, Types, TypeOK, NodeType
<1>5. CASE p = Server
  <2>1. /\ MgrUnlocked /\ (\A b \in Locals : job[b].pc = "idle")
        /\ node' = [n \in Nodes |-> IF node[n].work \in Locals THEN Dequeued(node[n]) ELSE node[n]]
        /\ lost' = [n \in Nodes |-> lost[n] \/ node[n].work \in Locals]
    BY <1>5 DEF StartRelease, ThreadsOf, DropWork, Dequeued
  <2>2. ASSUME NEW m \in Nodes
        PROVE  \/ node'[m] = node[m] /\ lost'[m] = lost[m]
               \/ node[m].work # "none" /\ node'[m] = Dequeued(node[m]) /\ lost'[m]
    BY <1>2, <2>1
  <2>3. lost' \in [Nodes -> BOOLEAN] /\ node' = [m \in Nodes |-> node'[m]]
    BY <1>2, <2>1
  <2>4. life'[Server] = "releasing"
    BY <1>1, <1>2, <1>4, <1>5
  <2>5. Quiet
    BY ONLY <1>1, <1>3, <2>1, <2>2, <2>3, <2>4 DEF Quiet
  <2> QED BY <2>5, QuietOk
<1>6. CASE p # Server
  <2>1. node' = node /\ lost' = lost
    BY <1>6 DEF StartRelease
  <2>2. life'[Server] = life[Server]
    BY <1>1, <1>2, <1>4, <1>6
  <2>3. node' = [m \in Nodes |-> node'[m]]
    BY <1>4, <2>1
  <2>4. Quiet
    BY ONLY <1>1, <1>2, <1>3, <2>1, <2>2, <2>3 DEF Quiet
  <2> QED BY <2>4, QuietOk
<1> QED BY <1>5, <1>6

\* The end of binder_deferred_release().
LEMMA EndReleaseOk ==
  ASSUME RefInv, NEW p \in Procs, EndRelease(p)
  PROVE  RefInv'
<1>1. /\ UNCHANGED <<node, lost, ref, olock, job, held, calls>> /\ life[p] = "releasing"
      /\ life' = [life EXCEPT ![p] = "released"] /\ job[Worker].pc = "idle"
  BY DEF EndRelease
<1>2. /\ lost \in [Nodes -> BOOLEAN] /\ life \in [Procs -> {"open", "releasing", "released"}]
      /\ node \in [Nodes -> NodeType] /\ Server \in Procs /\ Locals \subseteq Tasks
  BY Marks DEF RefInv, Types, TypeOK, NodeType
<1>3. life' \in [Procs -> {"open", "releasing", "released"}] /\ (life'[Server] = "open" => life[Server] = "open")
  BY <1>1, <1>2
<1>4. node' = [m \in Nodes |-> node'[m]]
  BY <1>1, <1>2
<1>5. life'[Server] # life[Server] => MgrUnlocked /\ (\A b \in Locals : job[b].pc = "idle")
  <2>1. HAVE life'[Server] # life[Server]
  <2>2. life[Server] # "open"
    BY <1>1, <1>2, <2>1
  <2>3. \A b \in Tasks : job[b].next # "mgr" /\ (b \in Locals => job[b].pc = "idle")
    BY <2>2 DEF RefInv, JobSound
  <2> QED BY <1>2, <2>3 DEF MgrUnlocked
<1>6. Quiet
  BY ONLY <1>1, <1>2, <1>3, <1>4, <1>5 DEF Quiet
<1> QED BY <1>6, QuietOk

-----------------------------------------------------------------------------
(* The invariant, step by step, and what follows from it.                  *)

\* At the start there are no nodes, references or calls.
LEMMA InitOk == Init => RefInv
<1> SUFFICES ASSUME Init PROVE RefInv
  OBVIOUS
<1>1. Types
  <2>1. NoNode \in NodeType
    BY DEF NoNode, NodeType
  <2>2. NoRef \in RefType
    BY DEF NoRef, RefType
  <2>3. Idle \in JobType
    BY DEF Idle, JobType
  <2>4. NoHeld \in HeldType
    BY DEF NoHeld, HeldType
  <2>5. \A a \in Tasks : job[a].node \in Nodes \cup {None}
    BY <2>3 DEF Init, JobType
  <2>6. node \in [Nodes -> NodeType]
    BY <2>1 DEF Init
  <2>7. ref \in [Procs -> [Nodes -> RefType]]
    BY <2>2 DEF Init
  <2>8. job \in [Tasks -> JobType] /\ held \in [Nodes -> HeldType] /\ calls \in Nat
    BY <2>3, <2>4 DEF Init
  <2>9. /\ life \in [Procs -> {"open", "releasing", "released"}] /\ olock \in [Procs -> Tasks \cup {None}]
        /\ lost \in [Nodes -> BOOLEAN]
    BY DEF Init
  <2> QED BY ONLY <2>5, <2>6, <2>7, <2>8, <2>9 DEF Types, TypeOK, NodeType, RefType
<1>2. RefsSound
  BY DEF Init, RefsSound
<1>3. HandlesUnique
  BY DEF Init, HandlesUnique, NoNode, NoRef
<1>4. ASSUME NEW n \in Nodes
      PROVE  NodeOk(n)
  <2>1. node[n] = NoNode /\ held[n] = NoHeld
    BY DEF Init
  <2>2. Users(n) = {}
    BY DEF Init, Users, Idle
  <2>3. Refs(n) = {}
    BY DEF Init, Refs
  <2>4. Carried(n, TRUE) = {} /\ Carried(n, FALSE) = {}
    BY <2>2 DEF Carried
  <2>5. node[n].mem = "unused" /\ ~node[n].tree /\ node[n].work = "none" /\ ~node[n].mgr /\ Told(node[n])
    BY <2>1 DEF NoNode, Told
  <2> QED BY ONLY <2>1, <2>2, <2>3, <2>4, <2>5 DEF NodeOk
<1>5. ASSUME NEW a \in Tasks
      PROVE  JobSound(a)
  <2>1. job[a] = Idle
    BY DEF Init
  <2> QED BY <2>1 DEF JobSound, Idle
<1> QED BY <1>1, <1>2, <1>3, <1>4, <1>5 DEF RefInv

\* Every step of every task keeps the invariant.
LEMMA NextOk == RefInv /\ [Next]_vars => RefInv'
<1> SUFFICES ASSUME RefInv, [Next]_vars PROVE RefInv'
  OBVIOUS
<1>1. ASSUME NEW a \in Tasks, \/ IncRefForNode(a) \/ IncRefForNodeNew(a) \/ CleanupRef(a) \/ Put(a)
                              \/ DoneCount(a) \/ HandleTarget(a) \/ Deliver(a) \/ UndoHandle(a)
                              \/ UndoBinder(a) \/ Drop(a) \/ TransactionSent(a) \/ TransactionFailed(a)
      PROVE  RefInv'
  BY <1>1, IncRefForNodeOk, IncRefForNodeNewOk, CleanupRefOk, PutOk, DoneCountOk, HandleTargetOk, DeliverOk,
     UndoHandleOk, UndoBinderOk, DropOk, TransactionSentOk, TransactionFailedOk
<1>2. ASSUME NEW n \in Nodes, Reap(n) \/ ShowDeadNode(n) \/ EraseNode(n)
      PROVE  RefInv'
  BY <1>2, ReapOk, ShowDeadNodeOk, EraseNodeOk
<1>3. ASSUME NEW a \in Locals, NEW n \in Nodes,
             \/ NewNode(a, n) \/ SetContextMgr(a, n) \/ ReadNode(a, n) \/ FreeTarget(a, n)
             \/ \E strong \in BOOLEAN : Done(a, n, strong) \/ FreeObject(a, n, strong)
      PROVE  RefInv'
  BY <1>3, Marks, NewNodeOk, SetContextMgrOk, ReadNodeOk, FreeTargetOk, DoneOk, FreeObjectOk
<1>4. ASSUME NEW a \in Locals, NEW p \in Ptrs, NEW c \in Clients, NEW strong \in BOOLEAN,
             TranslateBinder(a, p, c, strong)
      PROVE  RefInv'
  BY <1>4, Marks, TranslateBinderOk DEF Procs
<1>5. ASSUME NEW a \in Locals, ThreadExit(a)
      PROVE  RefInv'
  BY <1>5, ThreadExitOk
<1>6. ASSUME NEW a \in Senders, NEW c \in Clients, NEW n \in Nodes,
             \/ Transaction(a, c, n)
             \/ \E strong \in BOOLEAN :
                  \/ BcInc(a, c, n, strong) \/ BcIncMgr(a, c, n, strong) \/ BcDec(a, c, n, strong)
                  \/ \E to \in Procs : TranslateHandle(a, c, n, to, strong)
      PROVE  RefInv'
  BY <1>6, Marks, TransactionOk, BcIncOk, BcIncMgrOk, BcDecOk, TranslateHandleOk DEF Procs
<1>7. CASE NodeRelease
  BY <1>7, NodeReleaseOk
<1>8. ASSUME NEW p \in Procs, StartRelease(p) \/ EndRelease(p) \/ \E n \in Nodes : ReleaseRef(p, n)
      PROVE  RefInv'
  BY <1>8, StartReleaseOk, EndReleaseOk, ReleaseRefOk
<1>9. CASE UNCHANGED vars
  <2>1. Quiet
    <3>1. /\ lost \in [Nodes -> BOOLEAN] /\ life \in [Procs -> {"open", "releasing", "released"}]
          /\ node \in [Nodes -> NodeType]
      BY DEF RefInv, Types, TypeOK, NodeType
    <3>2. UNCHANGED <<life, node, ref, olock, job, held, lost, calls>>
      BY <1>9 DEF vars
    <3> QED BY ONLY <3>1, <3>2 DEF Quiet
  <2> QED BY <2>1, QuietOk
<1> QED BY ONLY [Next]_vars, <1>1, <1>2, <1>3, <1>4, <1>5, <1>6, <1>7, <1>8, <1>9 DEF Next

\* The invariant holds in every reachable state.
THEOREM RefInvariant == Spec => []RefInv
BY InitOk, NextOk, PTL DEF Spec

\* A node is freed once and not used afterwards, whoever drops the last count.
THEOREM NodesAlwaysSound == Spec => []NodesSound
<1>1. RefInv => NodesSound
  <2> SUFFICES ASSUME RefInv PROVE NodesSound
    OBVIOUS
  <2>1. TypeOK
    BY DEF RefInv, Types
  <2>2. ASSUME NEW n \in Nodes
        PROVE  /\ node[n].mem # "bug" /\ (node[n].work # "none" => node[n].proc /\ node[n].mem = "live")
               /\ node[n].mem \notin {"live", "reap"} =>
                    /\ Refs(n) = {} /\ held[n] = NoHeld
                    /\ \A a \in Users(n) : job[a].pc \in {"sent", "sent_binder"}
                    /\ ~node[n].tree /\ node[n].work = "none"
    <3>1. NodeOk(n) /\ node[n].mem \in {"unused", "live", "reap", "freed"}
      BY <2>1 DEF RefInv, TypeOK
    <3>2. node[n].mem \in {"live", "reap"} =>
            (node[n].work # "none" => node[n].proc) /\ (node[n].mem = "reap" => ~node[n].proc)
      BY <3>1 DEF NodeOk, Sound
    <3> QED BY ONLY <3>1, <3>2 DEF NodeOk
  <2> QED BY <2>1, <2>2 DEF NodesSound, NoUseAfterFree, NoAssertionFails
<1> QED BY <1>1, RefInvariant, PTL

\* Every count of a node is owned by a reference, a task, a buffer, an announcement that
\* was not answered, or the context manager.
THEOREM CountsAlwaysOwned == Spec => []CountsOwned
<1>1. RefInv => CountsOwned
  <2> SUFFICES ASSUME RefInv, NEW n \in Nodes, node[n].mem \in {"live", "reap"}
               PROVE  /\ node[n].internal = Cardinality({p \in Procs : ref[p][n].strong > 0})
                      /\ node[n].tmp = Cardinality(Temporary(n))
                      /\ node[n].tree =>
                           /\ node[n].strong = held[n].target + held[n].strong + One(node[n].pend_s)
                                + One(node[n].mgr) + Cardinality(Calling(n)) + Cardinality(Carried(n, TRUE))
                           /\ node[n].weak = held[n].weak + One(node[n].pend_w) + One(node[n].mgr)
                                + Cardinality(Carried(n, FALSE))
    BY DEF CountsOwned
  <2>1. Sound(node[n], Refs(n), Cardinality(StrongRefs(n)), Cardinality(Temporary(n)), LocalStrong(n),
              LocalWeak(n), life[Server] = "open", Erased(n), Counted(n), lost[n])
    BY DEF RefInv, NodeOk
  <2>2. node[n].internal = Cardinality({p \in Procs : ref[p][n].strong > 0}) /\ node[n].tmp = Cardinality(Temporary(n))
    BY <2>1 DEF Sound, StrongRefs
  <2>3. /\ held[n].target \in Nat /\ held[n].strong \in Nat /\ held[n].weak \in Nat
    BY DEF RefInv, Types, HeldType
  <2>4. /\ Cardinality(Calling(n)) \in Nat /\ Cardinality(Carried(n, TRUE)) \in Nat
        /\ Cardinality(Carried(n, FALSE)) \in Nat
    BY CountedFinite, FS_CardinalityType
  <2>5. One(node[n].pend_s) \in Int /\ One(node[n].pend_w) \in Int /\ One(node[n].mgr) \in Int
    BY OneInt
  <2>6. ASSUME node[n].tree
        PROVE  /\ node[n].strong = LocalStrong(n) + One(node[n].pend_s) + One(node[n].mgr)
               /\ node[n].weak = LocalWeak(n) + One(node[n].pend_w) + One(node[n].mgr)
    BY ONLY <2>1, <2>6 DEF Sound
  <2>7. ASSUME node[n].tree
        PROVE  /\ node[n].strong = held[n].target + held[n].strong + One(node[n].pend_s)
                    + One(node[n].mgr) + Cardinality(Calling(n)) + Cardinality(Carried(n, TRUE))
               /\ node[n].weak = held[n].weak + One(node[n].pend_w) + One(node[n].mgr)
                    + Cardinality(Carried(n, FALSE))
    <3>0. PICK h, k, l, u, v, x, y, z, q :
          /\ h = held[n].target /\ k = held[n].strong /\ l = held[n].weak /\ u = Cardinality(Calling(n))
          /\ v = Cardinality(Carried(n, TRUE)) /\ q = Cardinality(Carried(n, FALSE))
          /\ x = One(node[n].pend_s) /\ y = One(node[n].pend_w) /\ z = One(node[n].mgr)
      OBVIOUS
    <3>1. /\ h \in Int /\ k \in Int /\ l \in Int /\ u \in Int /\ v \in Int /\ x \in Int /\ y \in Int
          /\ z \in Int /\ q \in Int
      <4>1. h \in Int /\ k \in Int /\ l \in Int
        BY <2>3, <3>0
      <4>2. u \in Int /\ v \in Int /\ q \in Int
        <5>1. u \in Nat
          BY ONLY <2>4, <3>0, Zenon
        <5>2. v \in Nat
          BY ONLY <2>4, <3>0, Zenon
        <5>3. q \in Nat
          BY ONLY <2>4, <3>0, Zenon
        <5> QED BY ONLY <5>1, <5>2, <5>3
      <4>3. x \in Int /\ y \in Int /\ z \in Int
        BY <2>5, <3>0
      <4> QED BY <4>1, <4>2, <4>3
    <3>2. node[n].strong = (h + k + u + v) + x + z /\ node[n].weak = (l + q) + y + z
      BY <3>0, <2>6, <2>7 DEF LocalStrong, LocalWeak
    <3>3. (h + k + u + v) + x + z = h + k + x + z + u + v /\ (l + q) + y + z = l + y + z + q
      BY ONLY <3>1
    <3> QED BY ONLY <3>0, <3>2, <3>3
  <2> QED BY <2>2, <2>7
<1> QED BY <1>1, RefInvariant, PTL

\* A process has one handle per node, the owner one node per ptr.
THEOREM HandlesAlwaysUnique == Spec => []HandlesUnique
<1>1. RefInv => HandlesUnique
  BY DEF RefInv
<1> QED BY <1>1, RefInvariant, PTL

\* The owner of a node knows of its references or has work that tells it, and a node
\* without counts is not forgotten.
THEOREM OwnerAlwaysInformed == Spec => []OwnerInformed
<1>1. RefInv => OwnerInformed
  <2> SUFFICES ASSUME RefInv PROVE NothingLeaks /\ OwnerIsTold
    BY DEF OwnerInformed
  <2>1. ASSUME NEW n \in Nodes, node[n].mem = "live", Unused(node[n], Refs(n))
        PROVE  node[n].proc /\ (node[n].work # "none" \/ lost[n])
    <3>1. Kept(node[n], Refs(n), lost[n])
      BY <2>1 DEF RefInv, NodeOk
    <3> QED BY <2>1, <3>1 DEF Kept
  <2>2. ASSUME NEW n \in Nodes, node[n].mem = "live", node[n].proc, node[n].work = "none", ~lost[n]
        PROVE  /\ node[n].internal > 0 => node[n].has_s
               /\ \A p \in Refs(n) : ref[p][n].strong + ref[p][n].weak > 0 => node[n].has_w
    <3>1. Sound(node[n], Refs(n), Cardinality(StrongRefs(n)), Cardinality(Temporary(n)), LocalStrong(n),
                LocalWeak(n), life[Server] = "open", Erased(n), Counted(n), lost[n])
      BY <2>2 DEF RefInv, NodeOk
    <3>2. (node[n].internal > 0 => node[n].has_s) /\ (Counted(n) => node[n].has_w)
      BY ONLY <2>2, <3>1 DEF Sound
    <3> QED BY <3>2 DEF Counted, Refs
  <2> QED BY <2>1, <2>2 DEF NothingLeaks, OwnerIsTold
<1> QED BY <1>1, RefInvariant, PTL

-----------------------------------------------------------------------------
(* Only the owner's read takes an announcement back.                       *)

\* Records in the middle of a step, whose counts may still be wrong.
LooseType ==
  [mem : {"unused", "live", "reap", "freed", "bug"}, ptr : Ptrs \cup {Mgr, None},
   proc : BOOLEAN, tree : BOOLEAN, mgr : BOOLEAN, internal : Int, strong : Int, weak : Int, tmp : Int,
   work : {"none", "todo"} \cup Locals,
   has_s : BOOLEAN, has_w : BOOLEAN, pend_s : BOOLEAN, pend_w : BOOLEAN]
Knows(d, e) == (d.has_s => e.has_s) /\ (d.has_w => e.has_w)
Same(d, e) == e \in LooseType /\ e.has_s = d.has_s /\ e.has_w = d.has_w
NothingTakenBack == \A m \in Nodes : Knows(node[m], node'[m])

\* The record of a node.
LEMMA LooseNode ==
  ASSUME RefInv, NEW n \in Nodes
  PROVE  node[n] \in LooseType
<1>1. node[n] \in NodeType
  BY DEF RefInv, Types, TypeOK, NodeType
<1> QED BY <1>1 DEF NodeType, LooseType

\* The end of a decrement leaves the announcements as they are.
LEMMA SettleSame ==
  ASSUME NEW d \in LooseType, NEW strong, NEW refs
  PROVE  Same(d, Settle(d, strong, refs))
<1>1. Same(d, d)
  BY DEF Same
<1>2. Same(d, [d EXCEPT !.work = IF @ = "none" THEN "todo" ELSE @])
  BY DEF Same, LooseType
<1>3. Same(d, Delete(d))
  <2>1. CASE d.proc
    <3>1. \A x \in {"freed", "bug"} : Same(d, [d EXCEPT !.mem = x, !.work = "none", !.tree = FALSE])
      BY DEF Same, LooseType
    <3> QED BY <2>1, <3>1 DEF Delete
  <2>2. CASE ~d.proc
    <3>1. \A x \in {"reap", "bug"} : Same(d, [d EXCEPT !.mem = x])
      BY DEF Same, LooseType
    <3> QED BY <2>2, <3>1 DEF Delete
  <2> QED BY <2>1, <2>2
<1> QED BY <1>1, <1>2, <1>3 DEF Settle

\* A decrement leaves the announcements as they are.
LEMMA DecSame ==
  ASSUME NEW d \in LooseType, NEW strong \in BOOLEAN, NEW internal \in BOOLEAN, NEW refs
  PROVE  Same(d, DecNode(d, strong, internal, refs))
<1> PICK e : e = CASE strong /\ internal -> [d EXCEPT !.internal = @ - 1]
                   [] strong /\ ~internal -> [d EXCEPT !.strong = @ - 1]
                   [] ~strong /\ internal -> d
                   [] OTHER -> [d EXCEPT !.weak = @ - 1]
  OBVIOUS
<1>1. Same(d, e)
  <2>1. /\ Same(d, d) /\ Same(d, [d EXCEPT !.internal = @ - 1])
        /\ Same(d, [d EXCEPT !.strong = @ - 1]) /\ Same(d, [d EXCEPT !.weak = @ - 1])
    BY DEF Same, LooseType
  <2>2. CASE strong
    BY <2>1, <2>2
  <2>3. CASE ~strong
    BY <2>1, <2>3
  <2> QED BY <2>2, <2>3
<1>2. DecNode(d, strong, internal, refs) = Settle(e, strong, refs)
  BY DEF DecNode
<1>3. e \in LooseType
  BY <1>1 DEF Same
<1>4. Same(e, Settle(e, strong, refs))
  BY <1>3, SettleSame
<1> QED BY <1>1, <1>2, <1>4 DEF Same

\* An increment does so too.
LEMMA IncSame ==
  ASSUME NEW d \in LooseType, NEW strong \in BOOLEAN, NEW internal \in BOOLEAN, NEW list \in Locals \cup {"none"}
  PROVE  Same(d, IncNode(d, strong, internal, list))
<1> PICK e : e = CASE strong /\ internal -> [d EXCEPT !.internal = @ + 1]
                   [] strong /\ ~internal -> [d EXCEPT !.strong = @ + 1]
                   [] ~strong /\ internal -> d
                   [] OTHER -> [d EXCEPT !.weak = @ + 1]
  OBVIOUS
<1>1. Same(d, e) /\ Same(d, d)
  <2>1. /\ Same(d, d) /\ Same(d, [d EXCEPT !.internal = @ + 1])
        /\ Same(d, [d EXCEPT !.strong = @ + 1]) /\ Same(d, [d EXCEPT !.weak = @ + 1])
    BY DEF Same, LooseType
  <2>2. CASE strong
    BY <2>1, <2>2
  <2>3. CASE ~strong
    BY <2>1, <2>3
  <2> QED BY <2>1, <2>2, <2>3
<1>2. Same(d, [e EXCEPT !.work = list])
  BY <1>1 DEF Same, LooseType
<1>3. IncNode(d, strong, internal, list) \in {d, e, [e EXCEPT !.work = list]}
  <2>1. IncNode(d, strong, internal, list) =
          CASE IncFails(d, strong, internal, list) -> IF strong THEN d ELSE e
            [] list # "none" /\ strong /\ ~d.has_s -> [e EXCEPT !.work = list]
            [] list # "none" /\ ~strong /\ ~d.has_w /\ d.work = "none" -> [e EXCEPT !.work = list]
            [] OTHER -> e
    BY DEF IncNode
  <2>2. IncFails(d, strong, internal, list) => list = "none"
    BY DEF IncFails
  <2> HIDE DEF IncFails
  <2>3. CASE IncFails(d, strong, internal, list)
    BY <2>1, <2>2, <2>3
  <2>4. CASE ~IncFails(d, strong, internal, list)
    BY <2>1, <2>4
  <2> QED BY <2>3, <2>4
<1> QED BY <1>1, <1>2, <1>3

\* A step that puts one record in place.
LEMMA SetKnows ==
  ASSUME RefInv, NEW n \in Nodes, NEW d, Set(n, d), Knows(node[n], d)
  PROVE  NothingTakenBack
<1>1. node' = [node EXCEPT ![n] = d] /\ DOMAIN node = Nodes
  BY DEF Set, RefInv, Types, TypeOK
<1>2. \A m \in Nodes : Knows(node[m], node[m])
  BY DEF Knows
<1> QED BY <1>1, <1>2 DEF NothingTakenBack

\* A step that puts a record with the same announcements in place.
LEMMA SetSame ==
  ASSUME RefInv, NEW n \in Nodes, NEW d, Set(n, d), Same(node[n], d)
  PROVE  NothingTakenBack
<1>1. Knows(node[n], d)
  BY DEF Knows, Same
<1> QED BY <1>1, SetKnows

\* No other action than ReadNode does so.
LEMMA OthersTakeNothingBack ==
  ASSUME RefInv, RefInv', [Next]_vars, ~NothingTakenBack
  PROVE  \E a \in Locals, n \in Nodes : ReadNode(a, n)
<1>0. node \in [Nodes -> NodeType] /\ job \in [Tasks -> JobType] /\ \A a \in Tasks : JobSound(a)
  BY DEF RefInv, Types, TypeOK, NodeType
<1>1. ASSUME node' = node PROVE NothingTakenBack
  BY <1>1 DEF NothingTakenBack, Knows
<1>2. ASSUME NEW n \in Nodes, NEW x \in Int, Set(n, [node[n] EXCEPT !.tmp = x])
      PROVE  NothingTakenBack
  <2>1. Same(node[n], [node[n] EXCEPT !.tmp = x])
    BY LooseNode DEF Same, LooseType
  <2> QED BY ONLY RefInv, n \in Nodes, <1>2, <2>1, SetSame
<1>3. ASSUME NEW n \in Nodes, NEW strong \in BOOLEAN, NEW internal \in BOOLEAN,
             Set(n, DecNode(node[n], strong, internal, Refs(n)))
      PROVE  NothingTakenBack
  BY <1>3, LooseNode, DecSame, SetSame
<1>4. ASSUME NEW n \in Nodes, NEW c, NEW r, NEW strong \in BOOLEAN, NEW list \in Locals \cup {"none"},
             IncRef(c, n, r, strong, list)
      PROVE  NothingTakenBack
  <2>1. Same(node[n], IncNode(node[n], strong, TRUE, list)) /\ Same(node[n], node[n])
    BY LooseNode, IncSame DEF Same
  <2> QED BY <1>4, <2>1, SetSame DEF IncRef
<1>5. ASSUME NEW n \in Nodes, NEW c, Cleanup(c, n)
      PROVE  NothingTakenBack
  <2> PICK d : d = IF ref[c][n].strong > 0 THEN DecNode(node[n], TRUE, TRUE, Refs(n)) ELSE node[n]
    OBVIOUS
  <2>1. Same(node[n], d)
    BY LooseNode, DecSame DEF Same
  <2>2. Same(d, DecNode(d, FALSE, TRUE, Refs(n) \ {c}))
    <3>1. d \in LooseType
      BY <2>1 DEF Same
    <3> QED BY <3>1, DecSame
  <2>3. Same(node[n], DecNode(d, FALSE, TRUE, Refs(n) \ {c}))
    BY <2>1, <2>2 DEF Same
  <2> QED BY <1>5, <2>3, SetSame DEF Cleanup
<1>6. ASSUME NEW n \in Nodes, NEW a, NEW c, NEW strong \in BOOLEAN, DecRef(a, c, n, strong)
      PROVE  NothingTakenBack
  <2>1. Same(node[n], DecNode(node[n], TRUE, TRUE, Refs(n))) /\ Same(node[n], node[n])
    BY LooseNode, DecSame DEF Same
  <2> QED BY <1>6, <2>1, SetSame DEF DecRef
<1>7. ASSUME NEW n \in Nodes, NEW a, NEW strong, ReleaseBinder(a, n, strong)
      PROVE  NothingTakenBack
  <2>1. node[n].tmp + 1 \in Int
    BY <1>0 DEF NodeType
  <2> QED BY <1>1, <1>2, <1>7, <2>1 DEF ReleaseBinder
<1>8. ASSUME NEW n \in Nodes, node[n].mem = "unused", NEW d, Set(n, d)
      PROVE  NothingTakenBack
  <2>1. node[n] = NoNode
    BY <1>8 DEF RefInv, NodeOk
  <2>2. Knows(node[n], d)
    BY <2>1 DEF Knows, NoNode
  <2> QED BY ONLY RefInv, n \in Nodes, <1>8, <2>2, SetKnows
<1>9. ASSUME NEW a \in Tasks, job[a].pc \notin {"idle", "new"}
      PROVE  job[a].node \in Nodes /\ job[a].strong \in BOOLEAN /\ job[a].list \in Locals \cup {"none"}
  BY <1>0, <1>9 DEF JobSound, JobType
<1>10. ASSUME NEW a \in Tasks, IncRefForNode(a) \/ IncRefForNodeNew(a)
       PROVE  NothingTakenBack
  <2>1. job[a].pc \in {"ref", "alloc"} /\ (node' = node \/ \E r : IncRef(job[a].proc, job[a].node, r, job[a].strong, job[a].list))
    BY <1>10 DEF IncRefForNode, IncRefForNodeNew
  <2> QED BY <1>1, <1>4, <1>9, <2>1
<1>11. ASSUME NEW a \in Tasks, CleanupRef(a)
       PROVE  NothingTakenBack
  <2>1. job[a].pc = "cleanup" /\ Cleanup(job[a].proc, job[a].node)
    BY <1>11 DEF CleanupRef
  <2> QED BY <1>5, <1>9, <2>1
<1>12. ASSUME NEW a \in Tasks, Put(a)
       PROVE  NothingTakenBack
  <2> PICK n : n = job[a].node
    OBVIOUS
  <2>1. job[a].pc = "put" /\ Set(n, DecNode([node[n] EXCEPT !.tmp = @ - 1], FALSE, TRUE, Refs(n)))
    BY <1>12 DEF Put, PutNode
  <2>2. n \in Nodes
    BY <1>9, <2>1
  <2> PICK d : d = [node[n] EXCEPT !.tmp = @ - 1]
    OBVIOUS
  <2>3. Same(node[n], d)
    BY <2>2, LooseNode DEF Same, LooseType
  <2>4. Same(d, DecNode(d, FALSE, TRUE, Refs(n)))
    <3>1. d \in LooseType
      BY <2>3 DEF Same
    <3> QED BY <3>1, DecSame
  <2>5. Same(node[n], DecNode(d, FALSE, TRUE, Refs(n)))
    BY <2>3, <2>4 DEF Same
  <2> QED BY <2>1, <2>2, <2>5, SetSame
<1>13. ASSUME NEW a \in Tasks, DoneCount(a)
       PROVE  NothingTakenBack
  <2> PICK n : n = job[a].node
    OBVIOUS
  <2> PICK d : d = DoneDec(node[n], job[a].strong, Refs(n))
    OBVIOUS
  <2>1. job[a].pc = "done" /\ Set(n, IF d.mem = "live" THEN d ELSE [d EXCEPT !.mem = "bug"])
    BY <1>13 DEF DoneCount
  <2>2. n \in Nodes /\ job[a].strong \in BOOLEAN
    BY <1>9, <2>1
  <2>3. Same(node[n], d)
    <3> PICK e : e = IF job[a].strong THEN [node[n] EXCEPT !.pend_s = FALSE] ELSE [node[n] EXCEPT !.pend_w = FALSE]
      OBVIOUS
    <3>1. Same(node[n], node[n]) /\ Same(node[n], e)
      <4>1. node[n] \in LooseType
        BY <2>2, LooseNode
      <4>2. Same(node[n], [node[n] EXCEPT !.pend_s = FALSE])
        BY <4>1 DEF Same, LooseType
      <4>3. Same(node[n], [node[n] EXCEPT !.pend_w = FALSE])
        BY <4>1 DEF Same, LooseType
      <4> QED BY <4>1, <4>2, <4>3 DEF Same
    <3>2. Same(e, DecNode(e, job[a].strong, FALSE, Refs(n)))
      <4>1. e \in LooseType
        BY <3>1 DEF Same
      <4> QED BY <2>2, <4>1, DecSame
    <3>3. Same(node[n], DecNode(e, job[a].strong, FALSE, Refs(n)))
      BY <3>1, <3>2 DEF Same
    <3> QED BY <3>1, <3>3 DEF DoneDec
  <2>4. Same(node[n], [d EXCEPT !.mem = "bug"])
    BY <2>3 DEF Same, LooseType
  <2> QED BY <2>1, <2>2, <2>3, <2>4, SetSame
<1>14. ASSUME NEW a \in Tasks, HandleTarget(a)
       PROVE  NothingTakenBack
  <2> PICK n : n = job[a].node
    OBVIOUS
  <2>1. job[a].pc = "handle" /\ (node' = node \/ Set(n, IncNode(node[n], job[a].strong, FALSE, "none")))
    BY <1>14 DEF HandleTarget
  <2>2. n \in Nodes /\ job[a].strong \in BOOLEAN
    BY <1>9, <2>1
  <2>3. Same(node[n], IncNode(node[n], job[a].strong, FALSE, "none"))
    BY <2>2, LooseNode, IncSame
  <2> QED BY <1>1, <2>1, <2>2, <2>3, SetSame
<1>15. ASSUME NEW a \in Tasks, UndoHandle(a) \/ UndoBinder(a)
       PROVE  NothingTakenBack
  <2>1. \/ node' = node
        \/ job[a].pc = "sent" /\ DecRef(a, job[a].proc, job[a].node, job[a].strong)
        \/ job[a].pc = "sent_binder" /\ ReleaseBinder(a, job[a].node, job[a].strong)
    BY <1>15 DEF UndoHandle, UndoBinder
  <2> QED BY <1>1, <1>6, <1>7, <1>9, <2>1
<1>16. ASSUME NEW a \in Tasks, Drop(a) \/ TransactionFailed(a)
       PROVE  NothingTakenBack
  <2>1. /\ job[a].pc \in {"drop", "txn"}
        /\ \/ Set(job[a].node, DecNode(node[job[a].node], job[a].strong, FALSE, Refs(job[a].node)))
           \/ Set(job[a].node, DecNode(node[job[a].node], TRUE, FALSE, Refs(job[a].node)))
    BY <1>16 DEF Drop, TransactionFailed
  <2> QED BY <1>3, <1>9, <2>1
<1>17. ASSUME NEW a \in Tasks, Deliver(a) \/ TransactionSent(a)
       PROVE  NothingTakenBack
  <2>1. node' = node
    BY <1>17 DEF Deliver, TransactionSent
  <2> QED BY <1>1, <2>1
<1>18. ASSUME NEW n \in Nodes, Reap(n) \/ ShowDeadNode(n) \/ EraseNode(n)
       PROVE  NothingTakenBack
  <2>1. CASE Reap(n)
    <3>1. \A x \in {"live", "freed"} : Same(node[n], [node[n] EXCEPT !.mem = x])
      BY LooseNode DEF Same, LooseType
    <3> QED BY <2>1, <3>1, SetSame DEF Reap
  <2>2. CASE ShowDeadNode(n)
    <3>1. node[n].tmp + 1 \in Int
      BY <1>0 DEF NodeType
    <3> QED BY <1>2, <2>2, <3>1 DEF ShowDeadNode
  <2>3. CASE EraseNode(n)
    <3>1. Knows(node[n], [node[n] EXCEPT !.tmp = @ + 1, !.tree = FALSE])
      BY LooseNode DEF Knows, LooseType
    <3> QED BY <2>3, <3>1, SetKnows DEF EraseNode
  <2> QED BY <1>18, <2>1, <2>2, <2>3
<1>19. ASSUME NEW a \in Locals, NEW n \in Nodes, NewNode(a, n) \/ SetContextMgr(a, n) \/ FreeTarget(a, n)
       PROVE  NothingTakenBack
  <2>0. node[n].tmp + 1 \in Int
    BY <1>0 DEF NodeType
  <2>1. CASE NewNode(a, n)
    BY <1>2, <1>8, <2>0, <2>1 DEF NewNode, InitNode
  <2>2. CASE SetContextMgr(a, n)
    <3>1. CASE n \in InTree(Mgr)
      <4> PICK d : d = [node[n] EXCEPT !.tmp = @ + 1]
        OBVIOUS
      <4>1. Set(n, [d EXCEPT !.weak = @ + 1, !.strong = @ + 1, !.has_s = TRUE, !.has_w = TRUE, !.mgr = TRUE])
        BY <2>2, <3>1 DEF SetContextMgr
      <4>2. d \in LooseType
        BY LooseNode DEF LooseType
      <4>3. Knows(node[n], [d EXCEPT !.weak = @ + 1, !.strong = @ + 1, !.has_s = TRUE, !.has_w = TRUE, !.mgr = TRUE])
        BY <4>2 DEF Knows, LooseType
      <4> QED BY <4>1, <4>3, SetKnows
    <3>2. CASE n \notin InTree(Mgr)
      <4>1. node[n].mem = "unused" /\ \E d : Set(n, d)
        BY <2>2, <3>2 DEF SetContextMgr
      <4> QED BY <1>8, <4>1
    <3> QED BY <3>1, <3>2
  <2>3. CASE FreeTarget(a, n)
    BY <1>3, <2>3 DEF FreeTarget
  <2> QED BY <1>19, <2>1, <2>2, <2>3
<1>20. ASSUME NEW a \in Locals, NEW n \in Nodes, NEW strong \in BOOLEAN, Done(a, n, strong) \/ FreeObject(a, n, strong)
       PROVE  NothingTakenBack
  <2>0. node[n].tmp + 1 \in Int
    BY <1>0 DEF NodeType
  <2>1. CASE Done(a, n, strong)
    BY <1>2, <2>0, <2>1 DEF Done
  <2>2. CASE FreeObject(a, n, strong)
    BY <1>7, <2>2 DEF FreeObject
  <2> QED BY <1>20, <2>1, <2>2
<1>21. ASSUME NEW a \in Locals, NEW p \in Ptrs, NEW c \in Clients, NEW strong \in BOOLEAN, TranslateBinder(a, p, c, strong)
       PROVE  NothingTakenBack
  <2>1. node' = node \/ \E n \in Nodes : Set(n, [node[n] EXCEPT !.tmp = node[n].tmp + 1])
    BY <1>21 DEF TranslateBinder, InTree
  <2>2. \A n \in Nodes : node[n].tmp + 1 \in Int
    BY <1>0 DEF NodeType
  <2> QED BY <1>1, <1>2, <2>1, <2>2
<1>22. ASSUME \E lists : DropWork(lists)
       PROVE  NothingTakenBack
  <2> PICK lists : DropWork(lists)
    BY <1>22
  <2>1. ASSUME NEW m \in Nodes
        PROVE  Knows(node[m], node'[m])
    <3>1. Same(node[m], [node[m] EXCEPT !.work = "none"]) /\ Same(node[m], node[m])
      BY LooseNode DEF Same, LooseType
    <3>2. node'[m] \in {node[m], [node[m] EXCEPT !.work = "none"]}
      BY DEF DropWork
    <3> QED BY <3>1, <3>2 DEF Same, Knows
  <2> QED BY <2>1 DEF NothingTakenBack
<1>23. ASSUME NEW a \in Locals, ThreadExit(a)
       PROVE  NothingTakenBack
  BY <1>22, <1>23 DEF ThreadExit
<1>24. ASSUME NEW a \in Senders, NEW c \in Clients, NEW n \in Nodes,
              \/ Transaction(a, c, n)
              \/ \E strong \in BOOLEAN :
                   \/ BcInc(a, c, n, strong) \/ BcIncMgr(a, c, n, strong) \/ BcDec(a, c, n, strong)
                   \/ \E to \in Procs : TranslateHandle(a, c, n, to, strong)
       PROVE  NothingTakenBack
  <2>0. node[n].tmp + 1 \in Int
    BY <1>0 DEF NodeType
  <2>1. CASE Transaction(a, c, n)
    <3> PICK d : d = IncNode(node[n], TRUE, FALSE, "none")
      OBVIOUS
    <3>1. Same(node[n], d)
      BY LooseNode, IncSame
    <3>2. Knows(node[n], [d EXCEPT !.tmp = @ + 1])
      BY <3>1 DEF Same, Knows, LooseType
    <3>3. Set(n, [d EXCEPT !.tmp = @ + 1])
      BY <2>1 DEF Transaction, GetNodeRefsForTxn
    <3> QED BY <3>2, <3>3, SetKnows
  <2>2. ASSUME NEW strong \in BOOLEAN, BcInc(a, c, n, strong)
        PROVE  NothingTakenBack
    BY <1>4, <2>2 DEF BcInc
  <2>3. ASSUME NEW strong \in BOOLEAN, BcIncMgr(a, c, n, strong)
        PROVE  NothingTakenBack
    BY <1>1, <2>3 DEF BcIncMgr
  <2>4. ASSUME NEW strong \in BOOLEAN, BcDec(a, c, n, strong)
        PROVE  NothingTakenBack
    BY <1>6, <2>4 DEF BcDec
  <2>5. ASSUME NEW strong \in BOOLEAN, NEW to \in Procs, TranslateHandle(a, c, n, to, strong)
        PROVE  NothingTakenBack
    BY <1>2, <2>0, <2>5 DEF TranslateHandle
  <2> QED BY <1>24, <2>1, <2>2, <2>3, <2>4, <2>5
<1>25. ASSUME NodeRelease
       PROVE  NothingTakenBack
  <2> PICK n : n = job[Worker].node
    OBVIOUS
  <2> PICK d : d = Dequeued(node[n])
    OBVIOUS
  <2>1. /\ job[Worker].pc = "release"
        /\ \/ Set(n, [d EXCEPT !.mem = "freed"])
           \/ Set(n, [d EXCEPT !.proc = FALSE, !.strong = 0, !.weak = 0])
    BY <1>25 DEF NodeRelease
  <2>2. n \in Nodes
    BY <1>9, <2>1, Marks
  <2>3. Same(node[n], d)
    BY <2>2, LooseNode DEF Same, LooseType, Dequeued
  <2>4. Knows(node[n], [d EXCEPT !.mem = "freed"])
    BY <2>3 DEF Same, Knows, LooseType
  <2>5. Knows(node[n], [d EXCEPT !.proc = FALSE, !.strong = 0, !.weak = 0])
    BY <2>3 DEF Same, Knows, LooseType
  <2> QED BY <2>1, <2>2, <2>4, <2>5, SetKnows
<1>26. ASSUME NEW p \in Procs, StartRelease(p) \/ EndRelease(p) \/ \E n \in Nodes : ReleaseRef(p, n)
       PROVE  NothingTakenBack
  <2>1. node' = node \/ DropWork(Locals) \/ \E n \in Nodes : Cleanup(p, n)
    BY <1>26 DEF StartRelease, EndRelease, ReleaseRef
  <2> QED BY <1>1, <1>5, <1>22, <2>1
<1>27. UNCHANGED vars => NothingTakenBack
  BY <1>1 DEF vars
<1> QED BY ONLY [Next]_vars, ~NothingTakenBack, <1>10, <1>11, <1>12, <1>13, <1>14, <1>15, <1>16, <1>17, <1>18, <1>19,
           <1>20, <1>21, <1>23, <1>24, <1>25, <1>26, <1>27 DEF Next

\* BR_ACQUIRE comes inside BR_INCREFS, and BR_RELEASE or BR_DECREFS only after the
\* announcement it takes back was answered.
THEOREM AnnouncementsAlwaysNest == Spec => AnnouncementsNest
<1>1. ASSUME RefInv, RefInv', [Next]_vars
      PROVE  \A n \in Nodes :
               /\ node'[n].has_s => node'[n].has_w
               /\ node[n].has_s /\ ~node'[n].has_s => ~node[n].pend_s
               /\ node[n].has_w /\ ~node'[n].has_w => ~node[n].pend_w /\ ~node'[n].has_s
  <2>1. \A n \in Nodes : node'[n].has_s => node'[n].has_w
    BY <1>1 DEF RefInv, NodeOk, Told
  <2>2. CASE NothingTakenBack
    BY <2>1, <2>2 DEF NothingTakenBack, Knows
  <2>3. CASE ~NothingTakenBack
    <3>1. PICK a \in Locals, n \in Nodes : ReadNode(a, n)
      BY <1>1, <2>3, OthersTakeNothingBack
    <3> QED BY <1>1, <2>1, <3>1, ReadNodeOk
  <2> QED BY <2>2, <2>3
<1>2. RefInv /\ [Next]_vars => RefInv'
  BY NextOk
<1> QED BY <1>1, <1>2, InitOk, PTL DEF Spec, AnnouncementsNest
=====
