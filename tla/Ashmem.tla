------------------------------- MODULE Ashmem -------------------------------
(***************************************************************************)
(* The ashmem driver, ashmem/ashmem.c: areas and their backing files,      *)
(* mappings, pinning and unpinning of page ranges by client threads, and   *)
(* the shrinker that purges unpinned ranges from several reclaim contexts. *)
(*                                                                         *)
(* Critical sections of ashmem_mutex that never block are single steps.    *)
(* ashmem_pin_unpin() blocks inside its section, in wait_event(), so it    *)
(* holds the mutex over several steps; the shrinker drops the mutex around *)
(* fallocate(), so a scan is several steps too.                            *)
(***************************************************************************)
EXTENDS AshmemRanges, AshmemSystem

CONSTANTS
  Sizes,          \* arguments of ASHMEM_SET_SIZE, in bytes
  Names,          \* arguments of ASHMEM_SET_NAME
  Cmds,           \* the pin commands the clients use
  Offsets, Lens,  \* fields of struct ashmem_pin, in bytes
  RangeIds,       \* ashmem_range objects the slab can hand out
  Vmas,           \* mappings that can exist at once
  Prots,          \* protections asked for, sets of PROT bits
  ReadImpliesExec,\* the personalities of the callers, a set of Booleans
  VmFlagsClear,   \* whether compat_vm_flags_clear() clears (kernel 6.3 on)
  ScanCounts      \* nr_to_scan of a scan; LONG_MAX is any large member

ASSUME AshmemAssumption ==
  /\ NoThread \notin Clients /\ "none" \notin Areas
  /\ RangeIds \subseteq Nat \ {0} /\ IsFiniteSet(Vmas) /\ IsFiniteSet(Shrinkers)
  /\ Offsets \subseteq 0..U32 - 1 /\ Lens \subseteq 0..U32 - 1
  /\ Sizes \subseteq Nat /\ ScanCounts \subseteq Nat \ {0}
  /\ ReadImpliesExec \subseteq BOOLEAN /\ VmFlagsClear \in BOOLEAN

VARIABLES
  area,            \* per area: state, size, name, prot_mask, file present
  range,           \* the ashmem_range objects
  unpinned_list,   \* per area, the identities of its ranges
  ashmem_lru_list, lru_count,
  mutex,           \* the client that holds ashmem_mutex between steps
  f_count,         \* per area, references on its backing file
  vma,             \* per mapping: area, protection, VM_MAY bits, mask at mmap
  pc, req, ret,    \* per client: place, request, last return value
  scan             \* per shrinker: its local variables

vars == <<area, range, unpinned_list, ashmem_lru_list, lru_count, mutex, inflight,
          f_count, vma, pc, req, ret, spc, scan, lost>>
rangeVars == <<range, unpinned_list, ashmem_lru_list, lru_count>>
clientVars == <<pc, req, ret>>
shrinkVars == <<spc, scan, inflight>>

Prot == {"r", "w", "x"}
NoReq == [cmd |-> "none", asma |-> "none", offset |-> 0, len |-> 0, new |-> 0]
NoScan == [nr |-> 0, file |-> "none", pages |-> {}]
NoRet == [cmd |-> "none", val |-> 0]
NoVma == [file |-> "none", flags |-> {}, may |-> {}, mask |-> {}]

Pages(a) == 0..(PAGE_ALIGN(area[a].size) \div PageSize) - 1
FreeIds == {i \in RangeIds : range[i] = NoRange /\ \A t \in Clients : req[t].new # i}
InUse(a) == \E t \in Clients : pc[t] # "idle" /\ req[t].asma = a
Unlocked == mutex = NoThread

Init ==
  /\ area = [a \in Areas |-> [st |-> "none", size |-> 0, name |-> "none",
                              prot_mask |-> {}, file |-> FALSE]]
  /\ range = [i \in RangeIds |-> NoRange]
  /\ unpinned_list = [a \in Areas |-> <<>>]
  /\ ashmem_lru_list = <<>> /\ lru_count = 0
  /\ mutex = NoThread /\ inflight = 0
  /\ f_count = [a \in Areas |-> 0]
  /\ vma = [v \in Vmas |-> NoVma]
  /\ pc = [t \in Clients |-> "idle"] /\ req = [t \in Clients |-> NoReq]
  /\ ret = [t \in Clients |-> NoRet]
  /\ spc = [s \in Shrinkers |-> "idle"] /\ scan = [s \in Shrinkers |-> NoScan]
  /\ lost = [a \in Areas |-> {}]

-----------------------------------------------------------------------------
(* The life of an area.                                                    *)

ashmem_open(a) ==
  /\ area[a].st = "none" /\ Unlocked
  /\ area' = [area EXCEPT ![a].st = "open", ![a].prot_mask = Prot]
  /\ UNCHANGED <<rangeVars, mutex, f_count, vma, clientVars, shrinkVars, lost>>

\* Called when the last reference to the device file goes, so no call on it runs.
ashmem_release(a) ==
  /\ area[a].st = "open" /\ Unlocked /\ ~InUse(a)
  /\ LET Del(h, i) == range_del(h, i)
         h == FoldLeft(Del, [rng |-> range, list |-> unpinned_list[a],
                             lru |-> ashmem_lru_list, cnt |-> lru_count],
                       unpinned_list[a])
     IN  /\ range' = h.rng /\ unpinned_list' = [unpinned_list EXCEPT ![a] = h.list]
         /\ ashmem_lru_list' = h.lru /\ lru_count' = h.cnt
  /\ f_count' = [f_count EXCEPT ![a] = IF area[a].file THEN @ - 1 ELSE @]
  /\ area' = [area EXCEPT ![a].st = "closed", ![a].file = FALSE]
  /\ UNCHANGED <<mutex, vma, clientVars, shrinkVars, lost>>

set_size(a, size) ==
  /\ area[a].st = "open" /\ Unlocked /\ ~area[a].file
  /\ area' = [area EXCEPT ![a].size = size]
  /\ UNCHANGED <<rangeVars, mutex, f_count, vma, clientVars, shrinkVars, lost>>

set_name(a, name) ==
  /\ area[a].st = "open" /\ Unlocked /\ ~area[a].file
  /\ area' = [area EXCEPT ![a].name = name]
  /\ UNCHANGED <<rangeVars, mutex, f_count, vma, clientVars, shrinkVars, lost>>

\* the user can only remove, not add, protection bits
set_prot_mask(a, prot, implies) ==
  /\ area[a].st = "open" /\ Unlocked
  /\ prot \subseteq area[a].prot_mask
  /\ area' = [area EXCEPT ![a].prot_mask =
                IF "r" \in prot /\ implies THEN prot \cup {"x"} ELSE prot]
  /\ UNCHANGED <<rangeVars, mutex, f_count, vma, clientVars, shrinkVars, lost>>

-----------------------------------------------------------------------------
(* Mappings.                                                               *)

\* The checks of ashmem_mmap() before it touches the backing file.
MmapAllowed(a, prot, bytes) ==
  /\ area[a].st = "open" /\ Unlocked
  /\ area[a].size # 0
  /\ bytes <= PAGE_ALIGN(area[a].size)
  /\ prot \subseteq area[a].prot_mask

\* Mutant: no VM_MAY bit is cleared.
MayFlags_unmasked(a) == Prot
MayFlags(a) == IF VmFlagsClear THEN area[a].prot_mask ELSE Prot

\* The area's own reference, taken when the file is created, and the mapping's.
ashmem_mmap(a, v, prot, bytes) ==
  /\ MmapAllowed(a, prot, bytes) /\ vma[v] = NoVma
  /\ f_count' = [f_count EXCEPT ![a] = IF area[a].file THEN @ + 1 ELSE 2]
  /\ area' = [area EXCEPT ![a].file = TRUE]
  /\ vma' = [vma EXCEPT ![v] = [file |-> a, flags |-> prot, may |-> MayFlags(a),
                                mask |-> area[a].prot_mask]]
  /\ UNCHANGED <<rangeVars, mutex, clientVars, shrinkVars, lost>>

\* Mutant: the error path lacks its fput().
ashmem_mmap_fails_leaks(a, prot, bytes) ==
  /\ MmapAllowed(a, prot, bytes)
  /\ f_count' = [f_count EXCEPT ![a] = IF area[a].file THEN @ + 1 ELSE 2]
  /\ area' = [area EXCEPT ![a].file = TRUE]
  /\ UNCHANGED <<rangeVars, mutex, vma, clientVars, shrinkVars, lost>>

\* shmem_zero_setup() fails on a shared mapping: get_file() is undone, a file
\* created by this call stays.
ashmem_mmap_fails(a, prot, bytes) ==
  /\ MmapAllowed(a, prot, bytes)
  /\ f_count' = [f_count EXCEPT ![a] = IF area[a].file THEN @ + 1 - 1 ELSE 2 - 1]
  /\ area' = [area EXCEPT ![a].file = TRUE]
  /\ UNCHANGED <<rangeVars, mutex, vma, clientVars, shrinkVars, lost>>

\* The kernel's side of a mapping: mprotect() within VM_MAY bits, and munmap().
mprotect(v, prot) ==
  /\ vma[v] # NoVma /\ prot \subseteq vma[v].may
  /\ vma' = [vma EXCEPT ![v].flags = prot]
  /\ UNCHANGED <<area, rangeVars, mutex, f_count, clientVars, shrinkVars, lost>>

munmap(v) ==
  /\ vma[v] # NoVma
  /\ f_count' = [f_count EXCEPT ![vma[v].file] = @ - 1]
  /\ vma' = [vma EXCEPT ![v] = NoVma]
  /\ UNCHANGED <<area, rangeVars, mutex, clientVars, shrinkVars, lost>>

-----------------------------------------------------------------------------
(* Pin, unpin and get_pin_status: ashmem_pin_unpin().                      *)

Allocates(cmd) == cmd \in {"PIN", "UNPIN"}

\* Up to mutex_lock().  With no object left kmem_cache_zalloc() fails and the
\* call returns -ENOMEM without a trace.
PinCall(t, cmd, a, offset, len) ==
  /\ pc[t] = "idle" /\ area[a].st = "open"
  /\ Allocates(cmd) => FreeIds # {}
  /\ req' = [req EXCEPT ![t] = [cmd |-> cmd, asma |-> a, offset |-> offset, len |-> len,
                                new |-> IF Allocates(cmd) THEN Min(FreeIds) ELSE 0]]
  /\ pc' = [pc EXCEPT ![t] = "lock"] /\ ret' = [ret EXCEPT ![t] = NoRet]
  /\ UNCHANGED <<area, rangeVars, mutex, f_count, vma, shrinkVars, lost>>

PinLock(t) ==
  /\ pc[t] = "lock" /\ Unlocked
  /\ mutex' = t /\ pc' = [pc EXCEPT ![t] = "wait"]
  /\ UNCHANGED <<area, rangeVars, f_count, vma, req, ret, shrinkVars, lost>>

\* wait_event(): sleep with the mutex held until the last purge in flight wakes us.
PinSleep(t) ==
  /\ pc[t] = "wait" /\ inflight # 0
  /\ pc' = [pc EXCEPT ![t] = "sleep"]
  /\ UNCHANGED <<area, rangeVars, mutex, f_count, vma, req, ret, shrinkVars, lost>>

\* The checks on the request, and the page interval they let through.
PinValid(t) ==
  LET a == req[t].asma IN
  area[a].file /\ PinArgsOk(area[a].size, req[t].offset, req[t].len)
ReqStart(t) == FirstPage(req[t].offset)
ReqEnd(t) == LastPage(area[req[t].asma].size, req[t].offset, req[t].len)

Heap(t) ==
  [rng |-> range, list |-> unpinned_list[req[t].asma], lru |-> ashmem_lru_list,
   cnt |-> lru_count, new |-> req[t].new, ret |-> 0, stop |-> FALSE]

PinResult(t) ==
  LET a == req[t].asma
      h == Heap(t)
  IN  CASE ~PinValid(t) -> [h EXCEPT !.ret = EINVAL]
        [] PinValid(t) /\ req[t].cmd = "PIN" -> ashmem_pin(h, a, ReqStart(t), ReqEnd(t))
        [] PinValid(t) /\ req[t].cmd = "UNPIN" -> ashmem_unpin(h, a, ReqStart(t), ReqEnd(t))
        [] PinValid(t) /\ req[t].cmd = "STATUS" ->
             [h EXCEPT !.ret = ashmem_get_pin_status(h, ReqStart(t), ReqEnd(t))]

PinReq(t) == ReqStart(t)..ReqEnd(t)

\* Mutant: the call does not wait for the purges in flight.
ashmem_pin_unpin_no_wait(t) ==
  /\ pc[t] = "wait"
  /\ LET h == PinResult(t)
         a == req[t].asma
     IN  /\ range' = h.rng /\ unpinned_list' = [unpinned_list EXCEPT ![a] = h.list]
         /\ ashmem_lru_list' = h.lru /\ lru_count' = h.cnt
         /\ ret' = [ret EXCEPT ![t] = [cmd |-> req[t].cmd, val |-> h.ret]]
         /\ lost' = IF PinValid(t) /\ req[t].cmd = "PIN"
                      THEN [lost EXCEPT ![a] = @ \ PinReq(t)] ELSE lost
  /\ mutex' = NoThread /\ pc' = [pc EXCEPT ![t] = "idle"]
  /\ req' = [req EXCEPT ![t] = NoReq]
  /\ UNCHANGED <<area, f_count, vma, shrinkVars>>

\* The rest of ashmem_pin_unpin(), once no purge is in flight; an object that
\* was not used is freed with the request.
ashmem_pin_unpin(t) ==
  /\ pc[t] = "wait" /\ inflight = 0
  /\ LET h == PinResult(t)
         a == req[t].asma
     IN  /\ range' = h.rng /\ unpinned_list' = [unpinned_list EXCEPT ![a] = h.list]
         /\ ashmem_lru_list' = h.lru /\ lru_count' = h.cnt
         /\ ret' = [ret EXCEPT ![t] = [cmd |-> req[t].cmd, val |-> h.ret]]
         /\ lost' = IF PinValid(t) /\ req[t].cmd = "PIN"
                      THEN [lost EXCEPT ![a] = @ \ PinReq(t)] ELSE lost
  /\ mutex' = NoThread /\ pc' = [pc EXCEPT ![t] = "idle"]
  /\ req' = [req EXCEPT ![t] = NoReq]
  /\ UNCHANGED <<area, f_count, vma, shrinkVars>>

-----------------------------------------------------------------------------
(* ashmem_read_iter() and ashmem_llseek(): the backing file is looked up   *)
(* under the mutex and used after it is dropped.                           *)

ReadBegin(t, a) ==
  /\ pc[t] = "idle" /\ area[a].st = "open" /\ Unlocked
  /\ area[a].size # 0 /\ area[a].file
  /\ pc' = [pc EXCEPT ![t] = "io"] /\ req' = [req EXCEPT ![t].asma = a]
  /\ UNCHANGED <<area, rangeVars, mutex, f_count, vma, ret, shrinkVars, lost>>

ReadEnd(t) ==
  /\ pc[t] = "io" /\ Unlocked
  /\ pc' = [pc EXCEPT ![t] = "idle"] /\ req' = [req EXCEPT ![t] = NoReq]
  /\ UNCHANGED <<area, rangeVars, mutex, f_count, vma, ret, shrinkVars, lost>>

-----------------------------------------------------------------------------
(* ashmem_shrink_scan(), by memory reclaim or ASHMEM_PURGE_ALL_CACHES.     *)

\* Mutant: the purge is not counted in ashmem_shrink_inflight.
TakeOldest_uncounted(s, nr) ==
  LET i == Head(ashmem_lru_list)
      r == range[i]
  IN  /\ range' = [range EXCEPT ![i].purged = WAS_PURGED]
      /\ ashmem_lru_list' = Tail(ashmem_lru_list)
      /\ lru_count' = lru_count - range_size(r)
      /\ f_count' = [f_count EXCEPT ![r.asma] = @ + 1]
      /\ inflight' = inflight
      /\ spc' = [spc EXCEPT ![s] = "punch"]
      /\ scan' = [scan EXCEPT ![s] = [nr |-> nr, file |-> r.asma,
                    pages |-> IF range_size(r) = 0 THEN {} ELSE r.pgstart..r.pgend]]

\* The body of the loop up to mutex_unlock(): the oldest range is marked purged.
\* A range of size 0 gives fallocate() an empty interval, which it rejects.
TakeOldest(s, nr) ==
  LET i == Head(ashmem_lru_list)
      r == range[i]
  IN  /\ range' = [range EXCEPT ![i].purged = WAS_PURGED]
      /\ ashmem_lru_list' = Tail(ashmem_lru_list)
      /\ lru_count' = lru_count - range_size(r)
      /\ f_count' = [f_count EXCEPT ![r.asma] = @ + 1]
      /\ inflight' = inflight + 1
      /\ spc' = [spc EXCEPT ![s] = "punch"]
      /\ scan' = [scan EXCEPT ![s] = [nr |-> nr, file |-> r.asma,
                    pages |-> IF range_size(r) = 0 THEN {} ELSE r.pgstart..r.pgend]]

ScanReturns(s) ==
  /\ spc' = [spc EXCEPT ![s] = "idle"] /\ scan' = [scan EXCEPT ![s] = NoScan]
  /\ UNCHANGED <<range, ashmem_lru_list, lru_count, f_count, inflight>>

ScanBegin(s, nr) ==
  /\ spc[s] = "idle" /\ Unlocked /\ ashmem_lru_list # <<>>
  /\ TakeOldest(s, nr)
  /\ UNCHANGED <<area, unpinned_list, mutex, vma, clientVars, lost>>

\* fallocate(PUNCH_HOLE), then fput().
ScanPunch(s) ==
  /\ spc[s] = "punch"
  /\ lost' = [lost EXCEPT ![scan[s].file] = @ \cup scan[s].pages]
  /\ f_count' = [f_count EXCEPT ![scan[s].file] = @ - 1]
  /\ spc' = [spc EXCEPT ![s] = "dec"]
  /\ scan' = [scan EXCEPT ![s].file = "none", ![s].pages = {}]
  /\ UNCHANGED <<area, rangeVars, mutex, inflight, vma, clientVars>>

\* Mutant: nobody is woken.
ScanDec_no_wake(s) ==
  /\ spc[s] = "dec"
  /\ inflight' = inflight - 1
  /\ spc' = [spc EXCEPT ![s] = "retry"]
  /\ UNCHANGED <<area, rangeVars, mutex, f_count, vma, clientVars, scan, lost>>

\* atomic_dec_and_test() and wake_up_all().
ScanDec(s) ==
  /\ spc[s] = "dec"
  /\ inflight' = inflight - 1
  /\ pc' = [t \in Clients |-> IF inflight' = 0 /\ pc[t] = "sleep" THEN "wait" ELSE pc[t]]
  /\ spc' = [spc EXCEPT ![s] = "retry"]
  /\ UNCHANGED <<area, rangeVars, mutex, f_count, vma, req, ret, scan, lost>>

\* mutex_trylock() succeeds; nr_to_scan is decremented once for a range.
ScanNext(s) ==
  /\ spc[s] = "retry" /\ Unlocked
  /\ IF scan[s].nr - 1 <= 0 \/ ashmem_lru_list = <<>>
       THEN ScanReturns(s)
       ELSE TakeOldest(s, scan[s].nr - 1)
  /\ UNCHANGED <<area, unpinned_list, mutex, vma, clientVars, lost>>

\* mutex_trylock() fails: some thread is inside a critical section.
ScanGivesUp(s) ==
  /\ spc[s] = "retry" /\ ScanReturns(s)
  /\ UNCHANGED <<area, unpinned_list, mutex, vma, clientVars, lost>>

-----------------------------------------------------------------------------
AreaNext ==
  \E a \in Areas :
    \/ ashmem_open(a)
    \/ ashmem_release(a)
    \/ \E size \in Sizes : set_size(a, size)
    \/ \E name \in Names : set_name(a, name)
    \/ \E prot \in Prots, implies \in ReadImpliesExec : set_prot_mask(a, prot, implies)

MapNext ==
  \/ \E a \in Areas, prot \in Prots, bytes \in Sizes \ {0} :
       \/ \E v \in Vmas : ashmem_mmap(a, v, prot, bytes)
       \/ ashmem_mmap_fails(a, prot, bytes)
  \/ \E v \in Vmas : munmap(v) \/ \E prot \in Prots : mprotect(v, prot)

ClientNext(t) ==
  \/ \E cmd \in Cmds, a \in Areas, offset \in Offsets, len \in Lens :
       PinCall(t, cmd, a, offset, len)
  \/ PinLock(t) \/ PinSleep(t) \/ ashmem_pin_unpin(t)
  \/ \E a \in Areas : ReadBegin(t, a)
  \/ ReadEnd(t)

ShrinkNext(s) ==
  \/ \E nr \in ScanCounts : ScanBegin(s, nr)
  \/ ScanPunch(s) \/ ScanDec(s) \/ ScanNext(s) \/ ScanGivesUp(s)

Next ==
  \/ AreaNext
  \/ MapNext
  \/ \E t \in Clients : ClientNext(t)
  \/ \E s \in Shrinkers : ShrinkNext(s)

Spec == Init /\ [][Next]_vars

\* A thread inside a call runs on; ashmem_mutex hands over to a waiter, so a
\* client that keeps finding it free is not overtaken for ever.
Fairness ==
  /\ \A t \in Clients :
       SF_vars(PinLock(t)) /\ WF_vars(PinSleep(t)) /\ WF_vars(ashmem_pin_unpin(t))
  /\ \A s \in Shrinkers : WF_vars(ScanPunch(s)) /\ WF_vars(ScanDec(s))

FairSpec == Spec /\ Fairness

-----------------------------------------------------------------------------
(* Properties.                                                             *)

Covered(a, purge) ==
  UNION {r.pgstart..r.pgend : r \in {range[unpinned_list[a][k]] : k \in
           {k \in DOMAIN unpinned_list[a] : range[unpinned_list[a][k]].purged \in purge}}}

TypeOK ==
  /\ \A a \in Areas :
       /\ area[a].st \in {"none", "open", "closed"} /\ area[a].size \in Nat
       /\ area[a].prot_mask \subseteq Prot /\ area[a].file \in BOOLEAN
       /\ unpinned_list[a] \in Seq(RangeIds)
       /\ f_count[a] \in Nat /\ lost[a] \subseteq Nat
  /\ \A i \in RangeIds :
       range[i] = NoRange \/ range[i] \in [asma : Areas, pgstart : Nat, pgend : Nat,
                                           purged : {NOT_PURGED, WAS_PURGED}]
  /\ ashmem_lru_list \in Seq(RangeIds) /\ lru_count \in Nat /\ inflight \in Nat
  /\ mutex \in Clients \cup {NoThread}
  /\ \A t \in Clients : pc[t] \in {"idle", "lock", "wait", "sleep", "io"}
  /\ \A s \in Shrinkers : spc[s] \in {"idle", "punch", "dec", "retry"}

\* ashmem_pin() promises to return "whether it was previously purged": a pin
\* that answers ASHMEM_NOT_PURGED covers no page whose contents the shrinker
\* punched out since that page was last pinned, whatever the reclaim contexts did
\* between the client's steps.
PinReportsLoss ==
  [][\A t \in Clients :
       (pc[t] = "wait" /\ ret'[t] = [cmd |-> "PIN", val |-> NOT_PURGED])
         => lost[req[t].asma] \cap PinReq(t) = {}]_vars

\* Pages are punched outside the mutex (ashmem_shrink_scan() drops it around
\* fallocate()), and still only while a range marked purged covers them: no page
\* is pinned between the moment it is chosen and the moment it is punched.
PunchOnlyUnpinned ==
  \A s \in Shrinkers :
    spc[s] = "punch" /\ area[scan[s].file].st = "open"
      => scan[s].pages \subseteq Covered(scan[s].file, {WAS_PURGED})

\* A page whose loss has not been reported yet lies in a range marked purged, so
\* that merging, splitting and shrinking of ranges never forgets a purge.
LossIsRecorded ==
  \A a \in Areas : area[a].st = "open" => lost[a] \subseteq Covered(a, {WAS_PURGED})

\* The short cuts of the three walks ("we can short circuit", "this is our
\* insertion point") are sound: the list of an area runs from high pages to low
\* ones and its ranges are disjoint.
ListSorted ==
  \A a \in Areas : \A j, k \in DOMAIN unpinned_list[a] :
    j < k => range[unpinned_list[a][j]].pgstart > range[unpinned_list[a][k]].pgend

\* lru_add(), lru_del() and range_shrink() keep the LRU list and its page count
\* in step with the ranges: the list holds each range that is not purged once, and
\* lru_count, what the shrinker reports to reclaim, is the sum of their sizes.
LruExact ==
  /\ ToSet(ashmem_lru_list) = {i \in RangeIds : range[i] # NoRange /\ range_on_lru(range[i])}
  /\ IsInjective(ashmem_lru_list)
  /\ lru_count = SumFunction([k \in DOMAIN ashmem_lru_list |->
                                range_size(range[ashmem_lru_list[k]])])

\* An ashmem_range lives "from unpin to pin": every object in use is linked in the
\* list of its area, which is open and has a backing file (the shrinker takes
\* range->asma->file without a check), and no list holds a freed object.
RangesOwned ==
  /\ \A i \in RangeIds : range[i] # NoRange =>
       /\ i \in ToSet(unpinned_list[range[i].asma])
       /\ area[range[i].asma].st = "open" /\ area[range[i].asma].file
  /\ \A a \in Areas : \A i \in ToSet(unpinned_list[a]) : range[i].asma = a

\* The backing file has exactly one reference for its area, one for each mapping
\* and one for each purge in progress, so it outlives all of its users and is
\* freed with the last one, also after a failed mmap() and after release().
FileRefsExact ==
  \A a \in Areas :
    f_count[a] = (IF area[a].file THEN 1 ELSE 0)
                 + Cardinality({v \in Vmas : vma[v].file = a})
                 + Cardinality({s \in Shrinkers : spc[s] = "punch" /\ scan[s].file = a})

\* ashmem_read_iter() and ashmem_llseek() use asma->file after mutex_unlock(): it
\* is still there, "once asma->file is set it will never be changed".
ReaderHasFile ==
  \A t \in Clients : pc[t] = "io" => area[req[t].asma].file /\ f_count[req[t].asma] > 0

\* The backing file is there for everyone who uses it outside the mutex, and no longer.
FilesSound == FileRefsExact /\ ReaderHasFile

\* A range that is not empty lies inside the backing file, whatever order size,
\* mmap and pin requests came in (ASHMEM_SET_SIZE is refused once there is a file).
RangesInFile ==
  \A i \in RangeIds :
    range[i] # NoRange /\ range_size(range[i]) # 0
      => range[i].pgstart..range[i].pgend \subseteq Pages(range[i].asma)

\* The unpinned ranges of an area, the LRU list and the count agree: no walk misses a
\* range and reclaim is told the truth.
RangeListsSound == TypeOK /\ ListSorted /\ LruExact /\ RangesOwned /\ RangesInFile

\* A mapping never gains a protection that was not in the area's mask when it was
\* created, through any sequence of mprotect() calls: ashmem_mmap() clears the
\* VM_MAY bits of what the mask forbids.
VmaWithinMask ==
  \A v \in Vmas : vma[v].flags \subseteq vma[v].mask

\* Every pin, unpin or status call returns, although it sleeps with ashmem_mutex
\* held until the purges in flight end: the shrinker only tries the mutex.
PinReturns ==
  \A t \in Clients : pc[t] = "lock" ~> pc[t] = "idle"

\* "Returns ASHMEM_IS_UNPINNED if _any_ pages in the given interval are unpinned
\* and ASHMEM_IS_PINNED otherwise" (ashmem_get_pin_status), although the walk stops
\* at the first range before the interval.  While the list holds a range with no
\* page, left by an unpin of the empty interval at the end of an area, the answer
\* for the last page is not specified.
StatusMatchesPages ==
  [][\A t \in Clients :
       (/\ pc[t] = "wait" /\ pc'[t] = "idle" /\ req[t].cmd = "STATUS" /\ PinValid(t)
        /\ \A i \in ToSet(unpinned_list[req[t].asma]) : range[i].pgstart <= range[i].pgend)
         => (ret'[t].val = IS_UNPINNED
               <=> PinReq(t) \cap Covered(req[t].asma, {NOT_PURGED, WAS_PURGED}) # {})]_vars

-----------------------------------------------------------------------------
(* The promise about pages that the driver implements.                     *)

PagesSpec ==
  INSTANCE AshmemPages WITH
    Page     <- 0..(U32 \div PageSize) - 1,
    life     <- [a \in Areas |-> area[a].st],
    unpinned <- [a \in Areas |-> Covered(a, {NOT_PURGED, WAS_PURGED})],
    purged   <- [a \in Areas |-> Covered(a, {WAS_PURGED})],
    holder   <- mutex,
    cpc      <- [t \in Clients |-> IF pc[t] = "io" THEN "idle" ELSE pc[t]],
    told     <- [t \in Clients |->
                   IF ret[t] = [cmd |-> "PIN", val |-> NOT_PURGED] THEN "intact"
                   ELSE IF ret[t] = [cmd |-> "PIN", val |-> WAS_PURGED] THEN "purged"
                   ELSE "none"],
    file     <- [s \in Shrinkers |-> scan[s].file],
    target   <- [s \in Shrinkers |-> scan[s].pages]

\* Every step of the driver, on lists of ranges and byte intervals, is a step of
\* the page-level promise or leaves it alone.
ImplementsPages == PagesSpec!Promise
=============================================================================
