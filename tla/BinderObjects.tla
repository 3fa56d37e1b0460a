--------------------------- MODULE BinderObjects ----------------------------
(***************************************************************************)
(* The objects of one transaction, binder/binder.c: binder_transaction()   *)
(* checks and translates them one by one, the target's thread installs the *)
(* files they carry, and the buffer gives back what it holds when it is    *)
(* freed, by the sender's error exit or by the target.                     *)
(*                                                                         *)
(* Sizes and offsets are in units of sizeof(u32); a pointer takes Ptr of   *)
(* them.  What an object says is chosen when the loop reaches it, which is *)
(* the first time the driver looks.  The object with index i lies at       *)
(* first + i - 1 of the data.  The buffers of BINDER_TYPE_PTR objects fill *)
(* the scatter-gather area, 0..Extra-1 here.  Any object may be refused    *)
(* (a bad handle, fd or offset, no memory), so Fail is always possible and *)
(* the checks of the code are the guards of success.                       *)
(***************************************************************************)
EXTENDS Integers, Sequences, FiniteSets

CONSTANTS
  MaxObjs,   \* bound: objects in the transaction
  Extra,     \* extra_buffers_size
  Ptr,       \* sizeof(binder_uintptr_t)
  Lens,      \* binder_buffer_object.length values sent
  Offs,      \* parent_offset values sent
  NumFds,    \* binder_fd_array_object.num_fds values sent
  Flat,      \* flat_binder_object types sent
  Fds,       \* fd numbers a process can have (RLIMIT_NOFILE)
  SentFds,   \* fd numbers that occur in the payload, the sender's numbers
  MaxOpens,  \* bound: files the target opens by itself
  MaxSkips,  \* bound: closes given up for want of memory
  None, Own  \* no file; a file the target opened itself

ASSUME ObjectsAssumption ==
  /\ MaxObjs \in Nat \ {0} /\ {Extra, Ptr, MaxOpens, MaxSkips} \subseteq Nat
  /\ Lens \cup Offs \cup NumFds \subseteq Nat /\ Extra % Ptr = 0 /\ Ptr > 0
  /\ Fds \subseteq Nat /\ IsFiniteSet(Fds) /\ SentFds \subseteq Fds
  /\ Flat \subseteq {"binder", "weak_binder", "handle", "weak_handle"}
  /\ {None, Own} \cap Nat = {} /\ None # Own

VARIABLES
  pc,      \* where the transaction is
  first,   \* offset of the first object in the data
  objs,    \* the objects translated so far, as they stand in the buffer
  sg,      \* sg_buf_offset, from the start of the area
  last,    \* last_fixup_obj_off and last_fixup_min_off
  fda,     \* the fd array being translated: its object and how many fds are done
  word,    \* the fd words of the buffer: sender's numbers, then the target's
  fixups,  \* t->fd_fixups: slot and file, None once the file is installed
  table,   \* the fd table of the target
  puts,    \* per file taken with fget(): times fput() was called
  owned,   \* per type: counts the buffer holds in the target
  opens, skips

vars == <<pc, first, objs, sg, last, fda, word, fixups, table, puts, owned, opens, skips>>

FlatTypes == {"binder", "weak_binder", "handle", "weak_handle"}
Slots == 0..(Extra + MaxObjs)
Object(type, parent, off, n, at) ==
  [type |-> type, parent |-> parent, off |-> off, n |-> n, at |-> at]
NoLast == [off |-> 0, min |-> 0]
NoFda == [obj |-> Object("none", 0, 0, 0, 0), done |-> 0]

Init ==
  /\ pc = "new" /\ first \in {0, 1} /\ objs = <<>> /\ sg = 0 /\ last = NoLast
  /\ fda = NoFda /\ word = [s \in Slots |-> None] /\ fixups = <<>>
  /\ table = [d \in Fds |-> IF d = 0 THEN Own ELSE None]
  /\ puts = <<>> /\ owned = [k \in FlatTypes |-> 0] /\ opens = 0 /\ skips = 0

-----------------------------------------------------------------------------
(* Checks.                                                                 *)

Offset(i) == first + i - 1
Index(offset) == offset - first + 1

\* binder_validate_ptr(): the index is below num_valid and names a buffer object.
ValidParent(p) == p \in 1..Len(objs) /\ objs[p].type = "ptr"

\* The walk of binder_validate_fixup() from object i up to the parent p: the lowest
\* offset it allows in p, or -1 where it gives up.
MinOffset(p, i) ==
  LET walk[k \in 1..Len(objs)] ==
        IF objs[k].parent = 0 THEN -1
        ELSE IF objs[k].parent = p THEN objs[k].off + Ptr
        ELSE walk[objs[k].parent]
  IN walk[i]

\* A bug that walks to the parent and keeps the minimum of the object it came from.
FixupAllowed_keeps_min(p, off) ==
  /\ last.off # 0
  /\ Index(last.off) # p => MinOffset(p, Index(last.off)) >= 0
  /\ off >= last.min

\* binder_validate_fixup(): only in the last object fixed up or one of its parents,
\* and past what was fixed up there.  Offset 0 stands for "no object yet".
FixupAllowed(p, off) ==
  /\ last.off # 0
  /\ IF Index(last.off) = p THEN off >= last.min
     ELSE LET m == MinOffset(p, Index(last.off)) IN m >= 0 /\ off >= m

\* The room that n units at off of the parent need.
Fits(p, off, n) == n <= objs[p].n /\ off <= objs[p].n - n

AlignPtr(n) == ((n + Ptr - 1) \div Ptr) * Ptr

-----------------------------------------------------------------------------
(* binder_transaction(): the loop over the offsets.                        *)

NextIndex == Len(objs) + 1

\* The data and the offsets were copied and the two sizes are aligned.
Copied ==
  /\ pc = "new" /\ pc' = "build"
  /\ UNCHANGED <<first, objs, sg, last, fda, word, fixups, table, puts, owned, opens, skips>>

MoreObjects == pc = "build" /\ Len(objs) < MaxObjs

\* What the target sees of a flat object: a node of the sender becomes a handle, a
\* handle stays one unless the target owns the node.
Translated(type) ==
  CASE type = "binder" -> {"handle"}
    [] type = "weak_binder" -> {"weak_handle"}
    [] type = "handle" -> {"handle", "binder"}
    [] type = "weak_handle" -> {"weak_handle", "weak_binder"}

\* binder_translate_binder() or binder_translate_handle() takes a count for the buffer.
TranslateFlat ==
  /\ MoreObjects
  /\ \E type \in Flat : \E k \in Translated(type) :
       /\ objs' = Append(objs, Object(k, 0, 0, 0, 0))
       /\ owned' = [owned EXCEPT ![k] = @ + 1]
  /\ UNCHANGED <<pc, first, sg, last, fda, word, fixups, table, puts, opens, skips>>

\* binder_translate_fd(): takes the file and leaves the fd to the target's thread.
AddFixup(slot, fd) ==
  /\ word' = [word EXCEPT ![slot] = fd]
  /\ puts' = Append(puts, 0)
  /\ fixups' = Append(fixups, [slot |-> slot, file |-> Len(puts) + 1])

TranslateFd ==
  /\ MoreObjects
  /\ \E fd \in SentFds : AddFixup(Extra + NextIndex, fd)
  /\ objs' = Append(objs, Object("fd", 0, 0, 0, 0))
  /\ UNCHANGED <<pc, first, sg, last, fda, table, owned, opens, skips>>

\* BINDER_TYPE_FDA up to the loop of binder_translate_fd_array().
BeginFda ==
  /\ MoreObjects
  /\ \E p \in 1..Len(objs), off \in Offs, n \in NumFds :
       /\ ValidParent(p) /\ FixupAllowed(p, off) /\ Fits(p, off, n)
       /\ fda' = [obj |-> Object("fda", p, off, n, objs[p].at + off), done |-> 0]
  /\ pc' = "fda"
  /\ UNCHANGED <<first, objs, sg, last, word, fixups, table, puts, owned, opens, skips>>

TranslateFda ==
  /\ pc = "fda" /\ fda.done < fda.obj.n
  /\ \E fd \in SentFds : AddFixup(fda.obj.at + fda.done, fd)
  /\ fda' = [fda EXCEPT !.done = @ + 1]
  /\ UNCHANGED <<pc, first, objs, sg, last, table, owned, opens, skips>>

EndFda ==
  /\ pc = "fda" /\ fda.done = fda.obj.n
  /\ objs' = Append(objs, fda.obj)
  /\ last' = [off |-> Offset(fda.obj.parent), min |-> fda.obj.off + fda.obj.n]
  /\ pc' = "build" /\ fda' = NoFda
  /\ UNCHANGED <<first, sg, word, fixups, table, puts, owned, opens, skips>>

\* binder_fixup_parent() succeeds: no parent (0), or room for a pointer where it may go.
ParentFixed(p, off) ==
  IF p = 0 THEN off = 0
  ELSE ValidParent(p) /\ FixupAllowed(p, off) /\ Fits(p, off, Ptr)

\* BINDER_TYPE_PTR: its buffer is copied to the free part of the area, then its
\* address into the parent (binder_fixup_parent()), if it has one.
TranslatePtr ==
  /\ MoreObjects
  /\ \E n \in Lens, p \in 0..Len(objs), off \in Offs :
       /\ n <= Extra - sg /\ ParentFixed(p, off)
       /\ objs' = Append(objs, Object("ptr", p, off, n, sg))
       /\ sg' = sg + AlignPtr(n)
  /\ last' = [off |-> Offset(NextIndex), min |-> 0]
  /\ UNCHANGED <<pc, first, fda, word, fixups, table, puts, owned, opens, skips>>

-----------------------------------------------------------------------------
(* What a buffer gives back.                                               *)

Unused == {d \in Fds : table[d] = None}
Lowest(S) == CHOOSE d \in S : \A e \in S : d <= e
CountOf(type, n) == Cardinality({i \in 1..n : objs[i].type = type})

\* A bug that stops one object short.
Release_short(n) == owned' = [k \in FlatTypes |-> owned[k] - CountOf(k, n - 1)]

\* binder_transaction_buffer_release() drops the counts of the first n objects, by the
\* types the translation left in them.
Release(n) == owned' = [k \in FlatTypes |-> owned[k] - CountOf(k, n)]

\* The fd words of the fd arrays, which the release closes when the target runs it.
FdaWords ==
  UNION {{word[s] : s \in objs[i].at..(objs[i].at + objs[i].n - 1)} :
           i \in {i \in 1..Len(objs) : objs[i].type = "fda"}}

\* fput() on the files of a set, files of the target itself aside.
Put(files) == [f \in DOMAIN puts |-> IF f \in files THEN puts[f] + 1 ELSE puts[f]]

\* binder_deferred_fd_close() of each number in ds, and fput() of the files in more.  A
\* close whose callback cannot be allocated does not happen.
CloseAll(ds, more) ==
  \E lost \in SUBSET {d \in ds : table[d] # None} :
    LET closed == ds \ lost IN
    /\ skips + Cardinality(lost) <= MaxSkips
    /\ skips' = skips + Cardinality(lost)
    /\ puts' = Put({table[d] : d \in closed} \cup more)
    /\ table' = [d \in Fds |-> IF d \in closed THEN None ELSE table[d]]

FixupFiles == {fixups[k].file : k \in 1..Len(fixups)}

\* A bug: the error exit forgets the files.
Fail_keeps_files ==
  /\ pc \in {"new", "build", "fda"} /\ pc' = "failed"
  /\ fixups' = <<>> /\ UNCHANGED puts
  /\ Release(Len(objs)) /\ fda' = NoFda
  /\ UNCHANGED <<first, objs, sg, last, word, table, opens, skips>>

\* The error exit of binder_transaction(): the copies failed, an object was refused, or
\* the target died before the transaction was queued.  buffer_offset is 0 before the
\* loop and names the object that failed in it.  The sender runs the release, which
\* therefore leaves the words of fd arrays alone.
Fail ==
  /\ pc \in {"new", "build", "fda"} /\ pc' = "failed"
  /\ puts' = Put(FixupFiles) /\ fixups' = <<>>
  /\ Release(Len(objs)) /\ fda' = NoFda
  /\ UNCHANGED <<first, objs, sg, last, word, table, opens, skips>>

-----------------------------------------------------------------------------
(* The target.                                                             *)

Queue ==
  /\ pc = "build" /\ pc' = "queued"
  /\ UNCHANGED <<first, objs, sg, last, fda, word, fixups, table, puts, owned, opens, skips>>

\* A thread of the target takes the transaction and starts on the fixups.
Read ==
  /\ pc = "queued" /\ pc' = "apply"
  /\ UNCHANGED <<first, objs, sg, last, fda, word, fixups, table, puts, owned, opens, skips>>

Pending == {k \in 1..Len(fixups) : fixups[k].file # None}

\* A bug: the new number is not written to the buffer.
ApplyFixup_unwritten ==
  /\ pc = "apply" /\ Pending # {} /\ Unused # {}
  /\ LET k == Lowest(Pending) IN
     /\ table' = [table EXCEPT ![Lowest(Unused)] = fixups[k].file]
     /\ fixups' = [fixups EXCEPT ![k].file = None]
  /\ UNCHANGED <<pc, first, objs, sg, last, fda, word, puts, owned, opens, skips>>

\* binder_apply_fd_fixups(): one file gets a number, and the number goes to the buffer.
ApplyFixup ==
  /\ pc = "apply" /\ Pending # {} /\ Unused # {}
  /\ LET k == Lowest(Pending)  fd == Lowest(Unused) IN
     /\ table' = [table EXCEPT ![fd] = fixups[k].file]
     /\ word' = [word EXCEPT ![fixups[k].slot] = fd]
     /\ fixups' = [fixups EXCEPT ![k].file = None]
  /\ UNCHANGED <<pc, first, objs, sg, last, fda, puts, owned, opens, skips>>

\* No fd left: files still pending are put, numbers already given are read back from the
\* buffer and closed, and binder_thread_read() goes on to free the buffer.
ApplyFails ==
  /\ pc = "apply" /\ Pending # {} /\ Unused = {} /\ pc' = "undo"
  /\ CloseAll({word[fixups[k].slot] : k \in (1..Len(fixups)) \ Pending},
              {fixups[k].file : k \in Pending})
  /\ fixups' = <<>>
  /\ UNCHANGED <<first, objs, sg, last, fda, word, owned, opens>>

Delivered ==
  /\ pc = "apply" /\ Pending = {} /\ pc' = "delivered" /\ fixups' = <<>>
  /\ UNCHANGED <<first, objs, sg, last, fda, word, table, puts, owned, opens, skips>>

\* binder_free_buf(), for BC_FREE_BUFFER or after the fixups failed: the target runs the
\* release.
FreeBuf ==
  /\ pc \in {"delivered", "undo"} /\ pc' = "gone"
  /\ Release(Len(objs)) /\ CloseAll(FdaWords, {})
  /\ UNCHANGED <<first, objs, sg, last, fda, word, fixups, opens>>

\* The target dies.  binder_free_transaction() frees the fixups of a queued transaction;
\* the fd table, the references and the buffer go with the process.
Die ==
  /\ pc \in {"queued", "delivered"} /\ pc' = "dropped"
  /\ puts' = Put(FixupFiles \cup {table[d] : d \in Fds}) /\ fixups' = <<>>
  /\ table' = [d \in Fds |-> None] /\ owned' = [k \in FlatTypes |-> 0]
  /\ UNCHANGED <<first, objs, sg, last, fda, word, opens, skips>>

\* Other threads of the target open files...
UserOpen ==
  /\ opens < MaxOpens /\ Unused # {} /\ pc # "dropped" /\ opens' = opens + 1
  /\ table' = [table EXCEPT ![Lowest(Unused)] = Own]
  /\ UNCHANGED <<pc, first, objs, sg, last, fda, word, fixups, puts, owned, skips>>

\* ... and close the files that BINDER_TYPE_FD objects brought.
UserClose ==
  /\ pc \in {"delivered", "gone"}
  /\ \E i \in 1..Len(objs) :
       /\ objs[i].type = "fd" /\ table[word[Extra + i]] \in DOMAIN puts
       /\ puts' = Put({table[word[Extra + i]]})
       /\ table' = [table EXCEPT ![word[Extra + i]] = None]
  /\ UNCHANGED <<pc, first, objs, sg, last, fda, word, fixups, owned, opens, skips>>

Next ==
  \/ Copied \/ TranslateFlat \/ TranslateFd \/ BeginFda \/ TranslateFda \/ EndFda
  \/ TranslatePtr \/ Fail \/ Queue \/ Read \/ ApplyFixup \/ ApplyFails \/ Delivered
  \/ FreeBuf \/ Die \/ UserOpen \/ UserClose

Spec == Init /\ [][Next]_vars

-----------------------------------------------------------------------------
(* Properties.                                                             *)

Area(i) == objs[i].at..(objs[i].at + objs[i].n - 1)

\* Where the driver writes for object i outside the object itself: a pointer in the
\* parent's buffer, or the fds of an array.
Written(i) ==
  LET start == objs[objs[i].parent].at + objs[i].off IN
  IF objs[i].parent = 0 THEN {}
  ELSE start..(start + (IF objs[i].type = "fda" THEN objs[i].n ELSE Ptr) - 1)

\* "We only allow fixups inside a buffer to happen at increasing offsets": whatever tree
\* of parents the objects describe, every pointer and every fd array is written inside its
\* parent's buffer, no two of them overlap, and no two buffers share the area.
FixupsDisjoint ==
  /\ \A i \in 1..Len(objs) :
       /\ objs[i].type = "ptr" => Area(i) \subseteq 0..(Extra - 1)
       /\ Written(i) # {} => Written(i) \subseteq Area(objs[i].parent)
  /\ \A i, j \in 1..Len(objs) : i # j =>
       /\ Written(i) \cap Written(j) = {}
       /\ objs[i].type = "ptr" /\ objs[j].type = "ptr" => Area(i) \cap Area(j) = {}

\* A file taken from the sender has one owner at any time, a fixup or an fd of the target,
\* or was put once: on every path of success, refusal, a full fd table and a dead target.
FilesBalanced ==
  \A f \in DOMAIN puts :
    Cardinality({k \in 1..Len(fixups) : fixups[k].file = f})
      + Cardinality({d \in Fds : table[d] = f}) + puts[f] = 1

\* The buffer holds one count for each object translated, and a buffer that was freed
\* holds none: the error exit undoes the objects before the one that failed and no other.
\* Of the files of an fd array none stays open past the buffer, but for closes that found
\* no memory.
BufferGivesBack ==
  /\ pc \in {"build", "fda", "queued", "apply", "delivered", "undo"} =>
       \A k \in FlatTypes : owned[k] = CountOf(k, Len(objs))
  /\ pc \in {"failed", "gone"} => \A k \in FlatTypes : owned[k] = 0
  /\ pc = "gone" =>
       Cardinality({table[d] : d \in FdaWords} \cap DOMAIN puts) <= skips

\* The driver closes no file that the target opened itself, although the numbers in an
\* fd array are the sender's until the fixups are applied.  After a failed fixup the code
\* does not keep to this: the release then reads words that were never translated.
ClosesOnlyItsOwn ==
  [][\A d \in Fds : table[d] = Own /\ table'[d] # Own => pc = "undo" \/ pc' = "dropped"]_vars
=============================================================================
