----------------------------- MODULE BinderAlloc ----------------------------
(***************************************************************************)
(* binder/binder_alloc.c: the buffer allocator of one binder process, with  *)
(* the callers of binder.c that take, hand over and give back its buffers.  *)
(*                                                                         *)
(* The address-ordered list alloc->buffers is the function buffers, from    *)
(* the start address of a buffer to its record; a buffer ends where the     *)
(* next one starts.  free_buffers, a search tree keyed by a size that the   *)
(* list determines, is its in-order sequence of addresses; the tree keyed   *)
(* by address is the set allocated_buffers.  Addresses are offsets into the *)
(* mapping, and sizes wrap like size_t.                                     *)
(*                                                                         *)
(* A transaction is carried by its sender until it is queued and by a       *)
(* reader of the target process afterwards.  A freer is a thread of the     *)
(* target in BC_FREE_BUFFER.  alloc->mutex is held between two steps only   *)
(* by an allocation, which reads alloc->vma twice.                          *)
(***************************************************************************)
EXTENDS Integers, FiniteSets, FiniteSetsExt, Sequences, SequencesExt

CONSTANTS
  Word,         \* sizeof(void *)
  PageSize, NPages,
  Header,       \* sizeof(struct binder_buffer)
  SizeT,        \* 2^width of size_t
  Txns, Freers,
  Requests,     \* the buffers senders ask for: [data, offsets, extra, async]
  Faults,       \* which calls may fail: "alloc_page", "vm_insert_page", "kzalloc",
                \* "copy", "put_user", "fixup"
  Reclaim,      \* whether anything walks binder_alloc_lru (nothing in the build does)
  None

Length == PageSize * NPages
Page == 0 .. NPages - 1
Addr == 0 .. Length - 1

ASSUME AllocAssumption ==
  /\ Word \in Nat \ {0} /\ PageSize \in Nat \ {0} /\ NPages \in Nat \ {0}
  /\ Header \in Nat /\ PageSize % Word = 0 /\ SizeT \in Nat /\ SizeT % Word = 0
  /\ Length + PageSize <= SizeT
  /\ Requests \subseteq [data : 0 .. SizeT - 1, offsets : 0 .. SizeT - 1,
                         extra : 0 .. SizeT - 1, async : BOOLEAN]
  /\ Reclaim \in BOOLEAN
  /\ None \notin Txns \cup Freers \cup Addr

VARIABLES
  buffer_size,        \* alloc->buffer_size, 0 until an mmap claims the allocator
  vma, mm,            \* alloc->vma is not NULL; the address space still has users
  buffers, free_buffers, allocated_buffers, pages, free_async_space,
  mutex,              \* the transaction that holds alloc->mutex between two steps
  tpc, treq, tbuf,    \* per transaction: place, request, t->buffer
  upc, ubuf,          \* per freer: place, buffer being freed
  stuck,              \* buffers whose delivery failed (history)
  life,               \* of the process: "open", "dead", "releasing", "gone"
  failed              \* the BUG_ON, WARN_ON and bad accesses that have happened

mapVars == <<buffer_size, vma, mm>>
heapVars == <<buffers, free_buffers, allocated_buffers, pages, free_async_space>>
txnVars == <<tpc, treq, tbuf>>
freerVars == <<upc, ubuf>>
vars == <<mapVars, stuck, heapVars, mutex, txnVars, freerVars, life, failed>>

-----------------------------------------------------------------------------
(* Sizes and pages.                                                          *)
Align(n) == (((n + Word - 1) \div Word) * Word) % SizeT
PageOf(a) == a \div PageSize
PageUp(a) == (a + PageSize - 1) \div PageSize

DataOffsetsSize(r) == (Align(r.data) + Align(r.offsets)) % SizeT
RequestSize(r) == (DataOffsetsSize(r) + Align(r.extra)) % SizeT
\* Mutant: the sum with the extra buffers is not checked for overflow.
SizeUnchecked(r) == DataOffsetsSize(r) >= r.data
SizeValid(r) ==
  /\ DataOffsetsSize(r) >= r.data /\ DataOffsetsSize(r) >= r.offsets
  /\ RequestSize(r) >= DataOffsetsSize(r) /\ RequestSize(r) >= r.extra
\* Pad 0-size buffers so they get assigned unique addresses.
PaddedSize(r) == Max({RequestSize(r), Word})

NoRequest == [data |-> 0, offsets |-> 0, extra |-> 0, async |-> FALSE]
FreeBuffer == [free |-> TRUE, allow_user_free |-> FALSE, transaction |-> None, req |-> NoRequest]
NewBuffer(r) == [free |-> FALSE, allow_user_free |-> FALSE, transaction |-> None, req |-> r]
NoPage == [page_ptr |-> FALSE, lru |-> FALSE]
Active == [page_ptr |-> TRUE, lru |-> FALSE]
OnLru == [page_ptr |-> TRUE, lru |-> TRUE]

\* The end of the buffer that starts at a, in a list with start addresses S.
EndOf(S, a) == Min({b \in S : b > a} \cup {buffer_size})
PrevOf(S, a) == Max({b \in S : b < a})
SizeIn(S, a) == EndOf(S, a) - a
Starts == DOMAIN buffers
FreeIn(S) == {a \in S : buffers[a].free}

-----------------------------------------------------------------------------
(* The tree of free buffers.  Whatever its shape, a descent that looks for   *)
(* a key ends between two in-order neighbours that it has both compared.     *)
\* The places in tree where smaller buffers end and larger ones begin.
Gaps(tree, smaller, larger) ==
  {i \in 0 .. Len(tree) : /\ i > 0 => tree[i] \in smaller
                          /\ i < Len(tree) => tree[i + 1] \in larger}

\* binder_insert_free_buffer: the trees an insertion of a can produce.
Inserted(tree, S, a) ==
  LET smaller == {b \in S : SizeIn(S, b) <= SizeIn(S, a)}
  IN {InsertAt(tree, i + 1, a) : i \in Gaps(tree, smaller, S \ smaller)}

\* The node of a leaves its tree.
rb_erase(tree, a) == RemoveAt(tree, CHOOSE k \in DOMAIN tree : tree[k] = a)

\* The search of binder_alloc_new_buf_locked: a buffer of exactly the size,
\* or the successor of the gap in which the descent ends.
BestFits(size) ==
  LET smaller == {b \in Starts : SizeIn(Starts, b) < size}
      larger == {b \in Starts : size < SizeIn(Starts, b)}
  IN {a \in Range(free_buffers) : SizeIn(Starts, a) = size}
       \cup {free_buffers[i + 1] :
               i \in Gaps(free_buffers, smaller, larger) \ {Len(free_buffers)}}

-----------------------------------------------------------------------------
(* binder_update_page_range.                                                 *)
PutOnLru(P) == [p \in Page |-> IF p \in P THEN [pages[p] EXCEPT !.lru = TRUE] ELSE pages[p]]
\* WARN_ON(!ret) of list_lru_add: a page that is absent, or on the list already.
LruAddWarns(P) == \E p \in P : ~pages[p].page_ptr \/ pages[p].lru
LruDelWarns(P) == \E p \in P : pages[p].page_ptr /\ ~pages[p].lru
Warn(cond, what) == IF cond THEN {what} ELSE {}

\* The pages an allocation of size bytes in the free buffer at a has to provide.
PagesFor(a, size) ==
  PageUp(a) .. Min({PageUp(a + size), PageOf(EndOf(Starts, a))}) - 1
NeedMm(P) == \E p \in P : ~pages[p].page_ptr
GotVma(P) == NeedMm(P) => mm /\ vma
Provided(P) == [p \in Page |-> IF p \in P THEN Active ELSE pages[p]]
\* Mutant: the pages that were provided before the failure are kept.
NotUndone(P, f) == [p \in Page |-> IF p \in P /\ p < f THEN Active ELSE pages[p]]
\* The pages of P before f, taken from the lru or allocated and then put back.
Undone(P, f) == [p \in Page |-> IF p \in P /\ p < f THEN OnLru ELSE pages[p]]

-----------------------------------------------------------------------------
Init ==
  /\ buffer_size = 0 /\ vma = FALSE /\ mm = TRUE
  /\ buffers = [a \in {} |-> FreeBuffer] /\ free_buffers = <<>> /\ allocated_buffers = {}
  /\ pages = [p \in Page |-> NoPage] /\ free_async_space = 0
  /\ mutex = None
  /\ tpc = [t \in Txns |-> "idle"] /\ treq = [t \in Txns |-> NoRequest]
  /\ tbuf = [t \in Txns |-> None]
  /\ upc = [u \in Freers |-> "idle"] /\ ubuf = [u \in Freers |-> None]
  /\ life = "open" /\ failed = {} /\ stuck = {}

(* binder_mmap and binder_alloc_mmap_handler.  The size is claimed under     *)
(* binder_alloc_mmap_lock, the rest is set up without a lock, and alloc->vma *)
(* publishes it.  A second mmap finds the size claimed: EBUSY.               *)
Claimed == life = "open" /\ buffer_size # 0 /\ Starts = {}

MmapClaim ==
  /\ life = "open" /\ mm /\ buffer_size = 0
  /\ buffer_size' = Length
  /\ UNCHANGED <<stuck, vma, mm, heapVars, mutex, txnVars, freerVars, life, failed>>

MmapReady ==
  /\ Claimed
  /\ buffers' = [a \in {0} |-> FreeBuffer] /\ free_buffers' = <<0>>
  /\ free_async_space' = buffer_size \div 2
  /\ vma' = TRUE
  /\ UNCHANGED <<stuck, buffer_size, mm, allocated_buffers, pages, mutex, txnVars, freerVars, life, failed>>

MmapFails ==
  /\ Claimed /\ "kzalloc" \in Faults
  /\ buffer_size' = 0
  /\ UNCHANGED <<stuck, vma, mm, heapVars, mutex, txnVars, freerVars, life, failed>>

\* binder_vma_close, on munmap or exit: under the mmap lock, not alloc->mutex.
VmaClose ==
  /\ vma /\ vma' = FALSE
  /\ UNCHANGED <<stuck, buffer_size, mm, heapVars, mutex, txnVars, freerVars, life, failed>>

\* The last thread of the process is gone and with it the users of the mm.
MmExit ==
  /\ mm /\ ~Claimed /\ \A u \in Freers : upc[u] = "idle"
  /\ mm' = FALSE
  /\ UNCHANGED <<stuck, buffer_size, vma, heapVars, mutex, txnVars, freerVars, life, failed>>

-----------------------------------------------------------------------------
(* binder_alloc_new_buf.  A request that is refused changes nothing, so only *)
(* the ones that get as far as a buffer are steps.                           *)
AsyncSpaceFor(r) == r.async => free_async_space >= (RequestSize(r) + Header) % SizeT

NewBufFind(t, r, a) ==
  /\ tpc[t] = "idle" /\ life = "open" /\ mutex = None
  /\ vma /\ SizeValid(r) /\ AsyncSpaceFor(r)
  /\ a \in BestFits(PaddedSize(r))
  /\ mutex' = t
  /\ tpc' = [tpc EXCEPT ![t] = "find"] /\ treq' = [treq EXCEPT ![t] = r]
  /\ tbuf' = [tbuf EXCEPT ![t] = a]
  /\ UNCHANGED <<mapVars, stuck, heapVars, freerVars, life, failed>>

NewBufRefused(t) ==
  /\ mutex' = None
  /\ tpc' = [tpc EXCEPT ![t] = "idle"] /\ treq' = [treq EXCEPT ![t] = NoRequest]
  /\ tbuf' = [tbuf EXCEPT ![t] = None]
  /\ UNCHANGED <<mapVars, stuck, buffers, free_buffers, allocated_buffers, free_async_space, freerVars, life>>

TxnPages(t) == PagesFor(tbuf[t], PaddedSize(treq[t]))

\* The mapping went away between binder_alloc_get_vma and the page update.
NewBufNoVma(t) ==
  /\ tpc[t] = "find" /\ ~GotVma(TxnPages(t))
  /\ NewBufRefused(t) /\ UNCHANGED <<pages, failed>>

\* alloc_page or vm_insert_page failed for the absent page f.
NewBufPageFails(t, f) ==
  /\ tpc[t] = "find" /\ GotVma(TxnPages(t))
  /\ Faults \cap {"alloc_page", "vm_insert_page"} # {}
  /\ f \in TxnPages(t) /\ ~pages[f].page_ptr
  /\ pages' = Undone(TxnPages(t), f)
  /\ failed' = failed \cup Warn(LruDelWarns({p \in TxnPages(t) : p < f}), "lru_del")
  /\ NewBufRefused(t)

\* The pages are there, the struct binder_buffer for the rest is not.
NewBufSplitFails(t) ==
  /\ tpc[t] = "find" /\ GotVma(TxnPages(t)) /\ "kzalloc" \in Faults
  /\ PaddedSize(treq[t]) # SizeIn(Starts, tbuf[t])
  /\ pages' = Undone(TxnPages(t), NPages)
  /\ failed' = failed \cup Warn(LruDelWarns(TxnPages(t)), "lru_del")
  /\ NewBufRefused(t)

\* The free buffer at a is taken for r; what it has too much becomes a buffer
\* of its own, which enters the tree while a is still in it.
SplitBuffers(a, r) ==
  LET rest == a + PaddedSize(r)
  IN IF rest = EndOf(Starts, a)
       THEN [buffers EXCEPT ![a] = NewBuffer(r)]
       ELSE [b \in Starts \cup {rest} |->
               IF b = rest THEN FreeBuffer ELSE IF b = a THEN NewBuffer(r) ELSE buffers[b]]
SplitTrees(a, r) ==
  LET rest == a + PaddedSize(r)
  IN IF rest = EndOf(Starts, a)
       THEN {rb_erase(free_buffers, a)}
       ELSE {rb_erase(tree, a) : tree \in Inserted(free_buffers, Starts \cup {rest}, rest)}

NewBufDone(t) ==
  LET a == tbuf[t]
      r == treq[t]
  IN /\ tpc[t] = "find" /\ GotVma(TxnPages(t))
     /\ pages' = Provided(TxnPages(t))
     /\ free_buffers' \in SplitTrees(a, r)
     /\ buffers' = SplitBuffers(a, r)
     /\ allocated_buffers' = allocated_buffers \cup {a}
     /\ free_async_space' = IF r.async THEN (free_async_space - (PaddedSize(r) + Header)) % SizeT
                                       ELSE free_async_space
     /\ failed' = failed \cup Warn(LruDelWarns(TxnPages(t)), "lru_del")
                         \cup Warn(a \in allocated_buffers, "allocated twice")
     /\ mutex' = None
     /\ tpc' = [tpc EXCEPT ![t] = "alloc"]
     /\ UNCHANGED <<mapVars, stuck, treq, tbuf, freerVars, life>>

-----------------------------------------------------------------------------
(* binder_free_buf_locked and binder_delete_free_buffer.                     *)

\* Mutant: the next buffer is not looked at.
DeleteIgnoresNext(S, a) ==
  IF PageOf(PrevOf(S, a) - 1) # PageOf(a) /\ a % PageSize # 0 THEN {PageOf(a)} ELSE {}
\* The page the free buffer at a starts in, when neither the buffer before its
\* free predecessor nor the next buffer has a part of it.
DeletePages(S, a) ==
  IF /\ PageOf(PrevOf(S, a) - 1) # PageOf(a)
     /\ PageOf(EndOf(S, a)) # PageOf(a)
     /\ a % PageSize # 0
  THEN {PageOf(a)} ELSE {}

MergesPrev(a) == \E b \in FreeIn(Starts) : b < a /\ b = PrevOf(Starts, a)
MergesNext(a) == EndOf(Starts, a) \in FreeIn(Starts)

\* Mutant: the header is charged but not given back.
AsyncSizeOnly(r) == RequestSize(r)
AsyncGivenBack(r) == RequestSize(r) + Header

FreeBufLocked(a) ==
  LET next == EndOf(Starts, a)
      withNext == MergesNext(a)
      S1 == IF withNext THEN Starts \ {next} ELSE Starts
      withPrev == MergesPrev(a)
      prev == PrevOf(Starts, a)
      kept == IF withPrev THEN prev ELSE a
      S2 == IF withPrev THEN S1 \ {a} ELSE S1
      whole == PageUp(a) .. PageOf(next) - 1
      nextPage == IF withNext THEN DeletePages(Starts, next) ELSE {}
      prevPage == IF withPrev THEN DeletePages(S1, a) ELSE {}
      tree1 == IF withNext THEN rb_erase(free_buffers, next) ELSE free_buffers
      tree2 == IF withPrev THEN rb_erase(tree1, prev) ELSE tree1
      req == buffers[a].req
  IN /\ free_async_space' = IF req.async THEN (free_async_space + AsyncGivenBack(req)) % SizeT
                                         ELSE free_async_space
     /\ pages' = PutOnLru(whole \cup nextPage \cup prevPage)
     /\ allocated_buffers' = allocated_buffers \ {a}
     /\ buffers' = [b \in S2 |-> IF b = kept THEN FreeBuffer ELSE buffers[b]]
     /\ free_buffers' \in Inserted(tree2, S2, kept)
     /\ failed' = failed
          \cup Warn(buffers[a].free, "freed twice")
          \cup Warn(RequestSize(req) > next - a, "buffer too small")
          \cup Warn(buffers[a].transaction # None, "freed with its transaction")
          \cup Warn(\/ LruAddWarns(whole \cup nextPage \cup prevPage)
                    \/ nextPage \cap prevPage # {} \/ whole \cap (nextPage \cup prevPage) # {}, "lru_add")

-----------------------------------------------------------------------------
(* The callers in binder.c.                                                  *)
SetTransaction(a, t) == [buffers EXCEPT ![a].transaction = t]
Untied(a, t) == SetTransaction(a, None)
\* Mutant: the buffer is delivered without the right to free it.
HandedOverOnly(a) == buffers
HandedOver(a) == [buffers EXCEPT ![a].allow_user_free = TRUE]
TxnDone(t) ==
  /\ tpc' = [tpc EXCEPT ![t] = "idle"] /\ treq' = [treq EXCEPT ![t] = NoRequest]
  /\ tbuf' = [tbuf EXCEPT ![t] = None]

\* binder_alloc_copy_user_to_buffer: what it finds at the bytes it writes.
CopyPages(a, r) == {PageOf(b) : b \in a .. a + r.data - 1}
                     \cup {PageOf(b) : b \in a + Align(r.data) .. a + Align(r.data) + r.offsets - 1}
check_buffer(a, r) ==
  /\ SizeIn(Starts, a) >= r.data /\ SizeIn(Starts, a) >= Align(r.data) + r.offsets
  /\ ~buffers[a].free
  /\ ~buffers[a].allow_user_free \/ buffers[a].transaction = None

\* binder_transaction after the allocation: the buffer is tied to its
\* transaction and filled; binder_proc_transaction queues it unless the target
\* is dead.
CopyAndQueue(t) ==
  LET a == tbuf[t]
  IN /\ tpc[t] = "alloc"
     /\ failed' = failed
          \cup Warn(~check_buffer(a, treq[t]), "check_buffer")
          \cup Warn(\E p \in CopyPages(a, treq[t]) : pages[p] # Active, "copy to a page not held")
     /\ \/ /\ life = "open"
           /\ buffers' = SetTransaction(a, t)
           /\ tpc' = [tpc EXCEPT ![t] = "queued"]
        \/ /\ life = "dead" \/ "copy" \in Faults
           /\ buffers' = Untied(a, t)
           /\ tpc' = [tpc EXCEPT ![t] = "failed"]
     /\ UNCHANGED <<mapVars, stuck, free_buffers, allocated_buffers, pages, free_async_space,
                    mutex, treq, tbuf, freerVars, life>>

\* binder_alloc_free_buf on the error paths.
FreeFailed(t) ==
  /\ tpc[t] = "failed" /\ mutex = None
  /\ FreeBufLocked(tbuf[t])
  /\ TxnDone(t)
  /\ UNCHANGED <<mapVars, stuck, mutex, freerVars, life>>

\* binder_thread_read hands the buffer to user space, which may free it from
\* now on; the reader has not dropped the transaction yet.
Deliver(t) ==
  /\ tpc[t] = "queued" /\ life = "open" /\ mm
  /\ buffers' = HandedOver(tbuf[t])
  /\ tpc' = [tpc EXCEPT ![t] = "delivered"]
  /\ UNCHANGED <<mapVars, stuck, free_buffers, allocated_buffers, pages, free_async_space,
                 mutex, treq, tbuf, freerVars, life, failed>>

\* binder_apply_fd_fixups failed: the reader gives the buffer back itself.
FixupFails(t) ==
  /\ tpc[t] = "queued" /\ life = "open" /\ mm /\ "fixup" \in Faults
  /\ buffers' = SetTransaction(tbuf[t], None)
  /\ tpc' = [tpc EXCEPT ![t] = "failed"]
  /\ UNCHANGED <<mapVars, stuck, free_buffers, allocated_buffers, pages, free_async_space,
                 mutex, treq, tbuf, freerVars, life, failed>>

\* put_user or copy_to_user failed: the transaction goes, the buffer stays
\* allocated and nobody may free it before the process is released.
DeliverFails(t) ==
  /\ tpc[t] = "queued" /\ life = "open" /\ mm /\ "put_user" \in Faults
  /\ buffers' = SetTransaction(tbuf[t], None)
  /\ TxnDone(t) /\ stuck' = stuck \cup {tbuf[t]}
  /\ UNCHANGED <<mapVars, free_buffers, allocated_buffers, pages, free_async_space,
                 mutex, freerVars, life, failed>>

\* Mutant: binder_release_work leaves the queue of a dead process alone.
DropsDeliveredOnly(t) == tpc[t] = "delivered"
DropsTransaction(t) == tpc[t] = "delivered" \/ (tpc[t] = "queued" /\ life = "dead")

\* binder_free_transaction: at once for a one-way call or a reply, when the
\* reply comes for a call; in binder_thread_release and binder_release_work
\* once the process is dead.
DropTransaction(t) ==
  /\ DropsTransaction(t)
  /\ buffers' = IF tbuf[t] = None THEN buffers ELSE SetTransaction(tbuf[t], None)
  /\ TxnDone(t)
  /\ UNCHANGED <<mapVars, stuck, free_buffers, allocated_buffers, pages, free_async_space,
                 mutex, freerVars, life, failed>>

Freeable(a) == a \in allocated_buffers /\ buffers[a].allow_user_free

\* BC_FREE_BUFFER.  No match and EPERM change nothing.
PrepareToFree(u, a) ==
  /\ upc[u] = "idle" /\ life = "open" /\ mm /\ mutex = None
  /\ Freeable(a)
  /\ buffers' = [buffers EXCEPT ![a].allow_user_free = FALSE]
  /\ upc' = [upc EXCEPT ![u] = "prepared"] /\ ubuf' = [ubuf EXCEPT ![u] = a]
  /\ UNCHANGED <<mapVars, stuck, free_buffers, allocated_buffers, pages, free_async_space,
                 mutex, txnVars, life, failed>>

\* binder_free_buf: buffer and transaction forget each other under the inner lock.
Detach(u) ==
  LET t == buffers[ubuf[u]].transaction
  IN /\ upc[u] = "prepared"
     /\ tbuf' = IF t = None THEN tbuf ELSE [tbuf EXCEPT ![t] = None]
     /\ buffers' = SetTransaction(ubuf[u], None)
     /\ upc' = [upc EXCEPT ![u] = "detached"]
     /\ UNCHANGED <<mapVars, stuck, free_buffers, allocated_buffers, pages, free_async_space,
                    mutex, tpc, treq, ubuf, life, failed>>

FreeBuf(u) ==
  /\ upc[u] = "detached" /\ mutex = None
  /\ FreeBufLocked(ubuf[u])
  /\ upc' = [upc EXCEPT ![u] = "idle"] /\ ubuf' = [ubuf EXCEPT ![u] = None]
  /\ UNCHANGED <<mapVars, stuck, mutex, txnVars, life>>

-----------------------------------------------------------------------------
(* The end of the process.  The mapping holds the file, so binder_release    *)
(* comes after the last binder_vma_close.                                    *)
Release ==
  /\ life = "open" /\ ~vma /\ ~Claimed
  /\ \A u \in Freers : upc[u] = "idle"
  /\ life' = "dead"
  /\ UNCHANGED <<mapVars, stuck, heapVars, mutex, txnVars, freerVars, failed>>

\* binder_alloc_deferred_release, once the last temporary reference is dropped.
DeferredRelease ==
  /\ life = "dead" /\ \A t \in Txns : tpc[t] = "idle"
  /\ life' = "releasing"
  /\ failed' = failed \cup Warn(vma, "released with its vma")
  /\ UNCHANGED <<mapVars, stuck, heapVars, mutex, txnVars, freerVars>>

DeferredFree ==
  /\ life = "releasing" /\ allocated_buffers # {}
  /\ FreeBufLocked(Min(allocated_buffers))
  /\ UNCHANGED <<mapVars, stuck, mutex, txnVars, freerVars, life>>

DeferredDone ==
  /\ life = "releasing" /\ allocated_buffers = {}
  /\ failed' = failed \cup Warn(FreeIn(Starts) # Starts \/ Cardinality(Starts) > 1, "buffers left over")
  /\ buffers' = [a \in {} |-> FreeBuffer] /\ free_buffers' = <<>>
  /\ pages' = [p \in Page |-> NoPage]
  /\ life' = "gone"
  /\ UNCHANGED <<mapVars, stuck, allocated_buffers, free_async_space, mutex, txnVars, freerVars>>

\* binder_alloc_free_page, the lru callback: it skips a page when the mutex is
\* taken or the mm has no users.
FreePage(p) ==
  /\ Reclaim /\ mutex = None /\ life \in {"open", "dead"}
  /\ pages[p].lru /\ pages[p].page_ptr /\ mm
  /\ pages' = [pages EXCEPT ![p] = NoPage]
  /\ UNCHANGED <<mapVars, stuck, buffers, free_buffers, allocated_buffers, free_async_space,
                 mutex, txnVars, freerVars, life, failed>>

TxnStep(t) ==
  \/ NewBufNoVma(t) \/ (\E f \in Page : NewBufPageFails(t, f)) \/ NewBufSplitFails(t) \/ NewBufDone(t)
  \/ CopyAndQueue(t) \/ FreeFailed(t)
  \/ Deliver(t) \/ FixupFails(t) \/ DeliverFails(t) \/ DropTransaction(t)
ProcessStep == Release \/ DeferredRelease \/ DeferredFree \/ DeferredDone

Next ==
  \/ MmapClaim \/ MmapReady \/ MmapFails \/ VmaClose \/ MmExit
  \/ \E t \in Txns : TxnStep(t) \/ \E r \in Requests, a \in Addr : NewBufFind(t, r, a)
  \/ \E u \in Freers : Detach(u) \/ FreeBuf(u) \/ \E a \in Addr : PrepareToFree(u, a)
  \/ ProcessStep
  \/ \E p \in Page : FreePage(p)

Spec == Init /\ [][Next]_vars

\* A sender in the kernel runs on, binder_thread_release and binder_release_work
\* clean up after a dead process, and the work queue runs the deferred release.
\* Nothing makes user space read, reply, free or exit.
KernelStep(t) ==
  \/ NewBufNoVma(t) \/ (\E f \in Page : NewBufPageFails(t, f)) \/ NewBufSplitFails(t) \/ NewBufDone(t)
  \/ CopyAndQueue(t) \/ FreeFailed(t)
  \/ life = "dead" /\ DropTransaction(t)
FairSpec ==
  /\ Spec
  /\ \A t \in Txns : WF_vars(KernelStep(t))
  /\ WF_vars(DeferredRelease \/ DeferredFree \/ DeferredDone)

-----------------------------------------------------------------------------
BufferRecord ==
  [free : BOOLEAN, allow_user_free : BOOLEAN, transaction : Txns \cup {None},
   req : Requests \cup {NoRequest}]

TypeOK ==
  /\ buffer_size \in {0, Length} /\ vma \in BOOLEAN /\ mm \in BOOLEAN
  /\ Starts \subseteq Addr /\ \A a \in Starts : buffers[a] \in BufferRecord
  /\ free_buffers \in Seq(Addr) /\ allocated_buffers \subseteq Addr
  /\ pages \in [Page -> {NoPage, Active, OnLru}]
  /\ free_async_space \in 0 .. SizeT - 1
  /\ mutex \in Txns \cup {None}
  /\ tpc \in [Txns -> {"idle", "find", "alloc", "failed", "queued", "delivered"}]
  /\ treq \in [Txns -> Requests \cup {NoRequest}] /\ tbuf \in [Txns -> Addr \cup {None}]
  /\ upc \in [Freers -> {"idle", "prepared", "detached"}] /\ ubuf \in [Freers -> Addr \cup {None}]
  /\ life \in {"open", "dead", "releasing", "gone"}

\* Freeing merges with both neighbours, so no two neighbours in alloc->buffers
\* are free and every byte of the mapping belongs to exactly one buffer.  The
\* page arithmetic of binder_delete_free_buffer depends on it.
FreeNeighboursMerged ==
  /\ Starts # {} => 0 \in Starts
  /\ \A a \in FreeIn(Starts) : EndOf(Starts, a) \notin FreeIn(Starts)

\* Each buffer is in the one tree its free flag names, and free_buffers is in
\* order of size although insertions meet a node whose size has just changed.
TreesAgree ==
  /\ Range(free_buffers) = FreeIn(Starts) /\ IsInjective(free_buffers)
  /\ allocated_buffers = Starts \ FreeIn(Starts)
  /\ \A i \in 1 .. Len(free_buffers) - 1 :
       SizeIn(Starts, free_buffers[i]) <= SizeIn(Starts, free_buffers[i + 1])

\* A page is held (present and off the lru) exactly when an allocated buffer
\* has a byte in it, whichever of the buffers that share it came or went first
\* and whichever allocation failed half-way (binder_update_page_range,
\* binder_delete_free_buffer).
PagesHeldByBuffers ==
  \A p \in Page :
    pages[p] = Active <=> \E a \in allocated_buffers : p \in PageOf(a) .. PageOf(EndOf(Starts, a) - 1)

\* The three views of the address space agree: the list, the tree of free buffers by
\* size and the tree of allocated ones, and the pages follow them.
LayoutSound == TypeOK /\ FreeNeighboursMerged /\ TreesAgree /\ PagesHeldByBuffers

\* No BUG_ON or WARN_ON of the allocator fires, and the kernel copies only into
\* pages that are held.
NoAssertionFails == failed = {}

\* Whoever holds a buffer (the transaction until it is dropped or told, a
\* BC_FREE_BUFFER after binder_alloc_prepare_to_free) holds a live one, and no
\* two hold it to free it: a duplicated or early BC_FREE_BUFFER never reaches
\* binder_alloc_free_buf.
HeldBuffersLive ==
  /\ \A t \in Txns : tbuf[t] # None /\ tpc[t] # "find" =>
       /\ tbuf[t] \in allocated_buffers
       /\ tpc[t] \in {"queued", "delivered"} => buffers[tbuf[t]].transaction = t
  /\ \A u \in Freers : ubuf[u] # None =>
       /\ ubuf[u] \in allocated_buffers /\ ~buffers[ubuf[u]].allow_user_free
       /\ \A v \in Freers \ {u} : ubuf[v] # ubuf[u]
       /\ \A t \in Txns : tbuf[t] = ubuf[u] => upc[u] = "prepared" /\ tpc[t] = "delivered"
  /\ \A a \in Starts : buffers[a].transaction # None => tbuf[buffers[a].transaction] = a

\* Every allocated buffer is still in somebody's hands: user space may free it, or a
\* transaction or a BC_FREE_BUFFER holds it.  Only a delivery that failed leaves one behind.
NoBufferLost ==
  life = "open" =>
    \A a \in allocated_buffers \ stuck :
      \/ buffers[a].allow_user_free
      \/ \E t \in Txns : tbuf[t] = a
      \/ \E u \in Freers : ubuf[u] = a

\* Each buffer has one holder that will free it, at any point of delivery, failure and
\* BC_FREE_BUFFER: never two, and never none while the process lives.
BuffersOwned == HeldBuffersLive /\ NoBufferLost

\* free_async_space and the async buffers add up to half the mapping
\* (binder_alloc.h: "VA space available for async buffers").
AsyncBuffers == {a \in allocated_buffers : buffers[a].req.async}
AsyncCost(a) == SizeIn(Starts, a) + Header
AsyncSpaceConserved ==
  Starts # {} => free_async_space + MapThenSumSet(AsyncCost, AsyncBuffers) = buffer_size \div 2

\* A dead process is released, its buffers and pages with it, whatever its
\* transactions were doing when it died.
DeadIsReleased == life = "dead" ~> life = "gone"
=============================================================================
