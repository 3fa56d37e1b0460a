------------------------------- MODULE Binderfs ------------------------------
(***************************************************************************)
(* The binderfs file system, binder/binderfs.c: mounts with their control  *)
(* device and the binder devices made through it, the minor numbers all    *)
(* mounts share, and struct binder_device, which the processes of          *)
(* binder.c keep after its inode is gone.                                  *)
(*                                                                         *)
(* Locks.  binderfs_minors_mutex covers minors and device_count, the inode *)
(* lock of the root a lookup with the instantiation that follows.  Nothing *)
(* covers the mount options: a remount parses into them step by step.  The *)
(* control file a BINDER_CTL_ADD goes through keeps the mount.  Uids,      *)
(* inode numbers and the files of binder_logs have no part in this.        *)
(***************************************************************************)
EXTENDS Naturals, Integers, Sequences, FiniteSets

CONSTANTS
  Mounts, Tasks, Names,
  Slots,       \* devices with their inodes: bound on those alive at a time
  InitNs,      \* mounts of the initial ipc namespace, which use the reserve
  Defaults,    \* binder_devices_param: the names every mount starts with
  MaxMinor,    \* BINDERFS_MAX_MINOR
  Reserve,     \* the minors BINDERFS_MAX_MINOR_CAPPED leaves out
  Options,     \* option strings of mount and remount, as sequences
  MaxOpt,      \* the number in a max= option
  MaxFaults,   \* bound: failed allocations and copies
  MaxOpens,    \* bound: open files and unreleased processes of a device
  None

ASSUME BinderfsAssumption ==
  /\ Defaults \in Seq(Names) /\ "binder-control" \notin Names /\ InitNs \subseteq Mounts
  /\ MaxMinor \in Nat /\ Reserve \in 0 .. MaxMinor /\ MaxOpt \in Nat /\ MaxFaults \in Nat
  /\ IsFiniteSet(Tasks) /\ IsFiniteSet(Slots)
  /\ Options \subseteq Seq({"max", "stats", "bad"})
  /\ None \notin Mounts \cup Slots \cup Names \cup Nat

VARIABLES
  minors,   \* binderfs_minors
  leaked,   \* of them, those nobody will give back
  sb,       \* per mount: super block with its binderfs_info
  dev,      \* per slot: inode, dentry and struct binder_device
  job,      \* per task: its place in the file system
  faults
vars == <<minors, leaked, sb, dev, job, faults>>

NoSb == [state |-> "none", max |-> 0, stats |-> FALSE, count |-> 0]
NoDev == [kind |-> "none", mount |-> None, minor |-> None, name |-> None, inode |-> FALSE,
          private |-> FALSE, linked |-> FALSE, open |-> 0, late |-> 0, ref |-> 0]
Idle == [pc |-> "idle", mount |-> None, dev |-> None, minor |-> None, name |-> None,
         filling |-> FALSE, left |-> <<>>, prev |-> FALSE]

Init ==
  /\ minors = {} /\ leaked = {} /\ sb = [m \in Mounts |-> NoSb] /\ dev = [d \in Slots |-> NoDev]
  /\ job = [x \in Tasks |-> Idle] /\ faults = 0

Become(x, j) == job' = [job EXCEPT ![x] = j]
Fault == faults < MaxFaults /\ faults' = faults + 1
Free(d) == dev[d].kind = "none" /\ \A x \in Tasks : job[x].dev # d

\* ida_alloc_max() takes the lowest number that is free, up to and including its limit.
Limit(m) == IF m \in InitNs THEN MaxMinor ELSE MaxMinor - Reserve
Available(m) == (0 .. Limit(m)) \ minors
Lowest(S) == CHOOSE n \in S : \A k \in S : n <= k

-----------------------------------------------------------------------------
(* binderfs_evict_inode()                                                  *)

\* The inode has its device: only then was a minor and a count handed over to it.
Counted(d) == dev[d].private

\* refcount_dec_and_test(): with the last reference the struct is freed, too.
DropRef(e) ==
  IF e.ref = 1 /\ ~e.inode THEN NoDev ELSE [e EXCEPT !.ref = @ - 1]

\* Mutant: the minor is not given back.
Returned_none(d) == {}
\* ida_free()
Returned(d) == IF Counted(d) THEN {dev[d].minor} ELSE {}

EvictInode(d) ==
  LET e == dev[d] IN
  /\ minors' = minors \ Returned(d)
  /\ sb' = IF Counted(d) THEN [sb EXCEPT ![e.mount].count = @ - 1] ELSE sb
  /\ dev' = [dev EXCEPT ![d] = IF Counted(d) THEN DropRef([e EXCEPT !.inode = FALSE, !.private = FALSE,
                                                                    !.linked = FALSE])
                               ELSE NoDev]

\* The last reference to an inode without a name goes, or the mount comes down.
Evict(d) ==
  /\ dev[d].inode /\ dev[d].private /\ dev[d].open = 0
  /\ ~dev[d].linked \/ sb[dev[d].mount].state = "dying"
  /\ EvictInode(d) /\ UNCHANGED <<leaked, job, faults>>

-----------------------------------------------------------------------------
(* binderfs_binder_device_create(), for BINDER_CTL_ADD and in a mount.     *)

CtlAdd(x, m, n) ==
  /\ job[x].pc = "idle" /\ sb[m].state = "mounted"
  /\ Become(x, [Idle EXCEPT !.pc = "reserve", !.mount = m, !.name = n])
  /\ UNCHANGED <<minors, leaked, sb, dev, faults>>

\* Where a task goes on after a device: a mount makes the next one, or comes down.
AfterDevice(x, ok) ==
  LET j == job[x] IN
  Become(x, IF ~j.filling THEN Idle
            ELSE IF ~ok THEN [Idle EXCEPT !.pc = "kill", !.mount = j.mount]
            ELSE IF Len(j.left) = 0 THEN [j EXCEPT !.pc = "logs", !.dev = None, !.minor = None]
            ELSE [j EXCEPT !.pc = "reserve", !.dev = None, !.minor = None, !.name = Head(j.left),
                           !.left = Tail(j.left)])

\* The device fits into the mount's limit, and a minor is free.
MayReserve(m) == sb[m].count < sb[m].max /\ Available(m) # {}

\* One section of the mutex: the count, then a minor.
ReserveMinor(x) ==
  LET j == job[x]
      n == Lowest(Available(j.mount)) IN
  /\ j.pc = "reserve" /\ MayReserve(j.mount)
  /\ minors' = minors \cup {n} /\ sb' = [sb EXCEPT ![j.mount].count = @ + 1]
  /\ Become(x, [j EXCEPT !.pc = "build", !.minor = n])
  /\ UNCHANGED <<leaked, dev, faults>>

ReserveFails(x) ==
  /\ job[x].pc = "reserve" /\ ~MayReserve(job[x].mount) /\ AfterDevice(x, FALSE)
  /\ UNCHANGED <<minors, leaked, sb, dev, faults>>

\* struct binder_device, the inode and the copy for user space.
Build(x, d) ==
  LET j == job[x] IN
  /\ j.pc = "build" /\ Free(d)
  /\ dev' = [dev EXCEPT ![d] = [NoDev EXCEPT !.kind = "dev", !.mount = j.mount, !.minor = j.minor,
                                             !.name = j.name, !.inode = TRUE]]
  /\ Become(x, [j EXCEPT !.pc = "link", !.dev = d])
  /\ UNCHANGED <<minors, leaked, sb, faults>>

\* One of the allocations fails before there is an inode.
BuildFails(x) ==
  /\ job[x].pc = "build" /\ Fault /\ Become(x, [job[x] EXCEPT !.pc = "err"])
  /\ UNCHANGED <<minors, leaked, sb, dev>>

Taken(m, n) == \E d \in Slots : dev[d].linked /\ dev[d].mount = m /\ dev[d].name = n

\* Under the inode lock of the root: the name is free, and from now on the inode owns minor
\* and count.
Link(x) ==
  LET j == job[x] IN
  /\ j.pc = "link" /\ ~Taken(j.mount, j.name)
  /\ dev' = [dev EXCEPT ![j.dev].private = TRUE, ![j.dev].linked = TRUE, ![j.dev].ref = 1]
  /\ AfterDevice(x, TRUE)
  /\ UNCHANGED <<minors, leaked, sb, faults>>

\* The name exists, or the copy of the name, the copy to user space or the lookup fails.
LinkFails(x) ==
  /\ job[x].pc = "link"
  /\ IF Taken(job[x].mount, job[x].name) THEN faults' = faults ELSE Fault
  /\ Become(x, [job[x] EXCEPT !.pc = "err"])
  /\ UNCHANGED <<minors, leaked, sb, dev>>

\* The error exit: minor and count go back, then the inode.
Err(x) ==
  LET j == job[x] IN
  /\ j.pc = "err" /\ minors' = minors \ {j.minor}
  /\ sb' = [sb EXCEPT ![j.mount].count = @ - 1]
  /\ IF j.dev = None THEN AfterDevice(x, FALSE) ELSE Become(x, [j EXCEPT !.pc = "iput", !.minor = None])
  /\ UNCHANGED <<leaked, dev, faults>>

Iput(x) ==
  /\ job[x].pc = "iput" /\ EvictInode(job[x].dev) /\ AfterDevice(x, FALSE)
  /\ UNCHANGED <<leaked, faults>>

-----------------------------------------------------------------------------
(* binderfs_fill_super(), binderfs_kill_super() and binderfs_remount().    *)

\* The value a number in an option gives to max.
OptMax(o) == IF \E i \in DOMAIN o : o[i] = "max" THEN MaxOpt ELSE MaxMinor

\* A mount whose options parse; one that fails before the control device leaves nothing.
Mount(x, m, o) ==
  /\ job[x].pc = "idle" /\ sb[m].state = "none" /\ "bad" \notin {o[i] : i \in DOMAIN o}
  /\ sb' = [sb EXCEPT ![m] = [NoSb EXCEPT !.state = "filling", !.max = OptMax(o),
                                !.stats = "stats" \in {o[i] : i \in DOMAIN o}]]
  /\ Become(x, [Idle EXCEPT !.pc = "ctl", !.mount = m, !.filling = TRUE, !.left = Defaults])
  /\ UNCHANGED <<minors, leaked, dev, faults>>

\* binderfs_binder_ctl_create(): a minor, but no count.
CtlCreate(x, d) ==
  LET j == job[x]
      m == j.mount IN
  /\ j.pc = "ctl" /\ Free(d) /\ Available(m) # {}
  /\ LET n == Lowest(Available(m)) IN
     /\ minors' = minors \cup {n}
     /\ dev' = [dev EXCEPT ![d] = [NoDev EXCEPT !.kind = "ctl", !.mount = m, !.minor = n,
                                                !.name = "binder-control", !.inode = TRUE]]
  /\ Become(x, [j EXCEPT !.pc = "ctllink", !.dev = d])
  /\ UNCHANGED <<leaked, sb, faults>>

\* No memory, or no minor.
CtlFails(x) ==
  /\ job[x].pc = "ctl" /\ IF Available(job[x].mount) = {} THEN faults' = faults ELSE Fault
  /\ AfterDevice(x, FALSE) /\ UNCHANGED <<minors, leaked, sb, dev>>

CtlLink(x) ==
  LET d == job[x].dev IN
  /\ job[x].pc = "ctllink"
  /\ dev' = [dev EXCEPT ![d].private = TRUE, ![d].linked = TRUE, ![d].ref = 1]
  /\ AfterDevice(x, TRUE) /\ UNCHANGED <<minors, leaked, sb, faults>>

\* Without a dentry the inode goes; the minor stays reserved for ever.
CtlLinkFails(x) ==
  LET d == job[x].dev IN
  /\ job[x].pc = "ctllink" /\ Fault
  /\ leaked' = leaked \cup {dev[d].minor} /\ dev' = [dev EXCEPT ![d] = NoDev]
  /\ AfterDevice(x, FALSE) /\ UNCHANGED <<minors, sb>>

\* init_binder_logs() of a mount with stats=global, then the mount is up.
Logs(x) ==
  LET j == job[x] IN
  /\ j.pc = "logs" /\ Become(x, Idle) /\ sb' = [sb EXCEPT ![j.mount].state = "mounted"]
  /\ UNCHANGED <<minors, leaked, dev, faults>>
LogsFail(x) ==
  /\ job[x].pc = "logs" /\ sb[job[x].mount].stats /\ Fault
  /\ Become(x, [Idle EXCEPT !.pc = "kill", !.mount = job[x].mount])
  /\ UNCHANGED <<minors, leaked, sb, dev>>

\* A mount that failed, or an unmount: no file of it is open, no task inside.
Kill(x) ==
  /\ job[x].pc = "kill" /\ Become(x, Idle)
  /\ sb' = [sb EXCEPT ![job[x].mount].state = "dying"]
  /\ UNCHANGED <<minors, leaked, dev, faults>>
Umount(m) ==
  /\ sb[m].state = "mounted" /\ \A x \in Tasks : job[x].mount # m
  /\ \A d \in Slots : dev[d].mount = m => dev[d].open = 0
  /\ sb' = [sb EXCEPT ![m].state = "dying"]
  /\ UNCHANGED <<minors, leaked, dev, job, faults>>
\* All inodes evicted, kfree(info).
KillSuper(m) ==
  /\ sb[m].state = "dying" /\ \A d \in Slots : dev[d].inode => dev[d].mount # m
  /\ sb' = [sb EXCEPT ![m] = NoSb]
  /\ UNCHANGED <<minors, leaked, dev, job, faults>>

\* binderfs_parse_mount_opts() on the options in use: first the defaults, then one by one.
Remount(x, m, o) ==
  /\ job[x].pc = "idle" /\ sb[m].state = "mounted"
  /\ \A y \in Tasks : ~(job[y].pc = "parse" /\ job[y].mount = m)
  /\ sb' = [sb EXCEPT ![m].max = MaxMinor, ![m].stats = FALSE]
  /\ Become(x, [Idle EXCEPT !.pc = "parse", !.mount = m, !.left = o, !.prev = sb[m].stats])
  /\ UNCHANGED <<minors, leaked, dev, faults>>
Parse(x) ==
  LET j == job[x]
      o == Head(j.left)
      m == j.mount IN
  /\ j.pc = "parse" /\ Len(j.left) > 0
  /\ sb' = [sb EXCEPT ![m].max = IF o = "max" THEN MaxOpt ELSE @,
                      ![m].stats = @ \/ o = "stats"]
  /\ Become(x, IF o = "bad" THEN Idle ELSE [j EXCEPT !.left = Tail(@)])
  /\ UNCHANGED <<minors, leaked, dev, faults>>
\* Accepted, or refused for a change of the stats mode, which is put back.
RemountEnd(x) ==
  LET j == job[x] IN
  /\ j.pc = "parse" /\ Len(j.left) = 0 /\ sb' = [sb EXCEPT ![j.mount].stats = j.prev]
  /\ Become(x, Idle) /\ UNCHANGED <<minors, leaked, dev, faults>>

-----------------------------------------------------------------------------
(* Files: binderfs_unlink(), and from binder.c open, release and the end   *)
(* of a process.                                                           *)

\* The control device cannot be unlinked.
Unlink(d) ==
  /\ dev[d].kind = "dev" /\ dev[d].linked /\ sb[dev[d].mount].state = "mounted"
  /\ dev' = [dev EXCEPT ![d].linked = FALSE]
  /\ UNCHANGED <<minors, leaked, sb, job, faults>>

\* Mutant: a process does not count itself.
OpenRef_none(d) == [dev[d] EXCEPT !.open = @ + 1]
\* binder_open(): refcount_inc(&binder_dev->ref)
OpenRef(d) == [dev[d] EXCEPT !.open = @ + 1, !.ref = @ + 1]
Open(d) ==
  /\ dev[d].kind = "dev" /\ dev[d].linked /\ sb[dev[d].mount].state = "mounted"
  /\ dev[d].open + dev[d].late < MaxOpens
  /\ dev' = [dev EXCEPT ![d] = OpenRef(d)]
  /\ UNCHANGED <<minors, leaked, sb, job, faults>>

\* binder_release(): the file lets the inode go, the process is released later.
Close(d) ==
  /\ dev[d].open > 0 /\ dev' = [dev EXCEPT ![d].open = @ - 1, ![d].late = @ + 1]
  /\ UNCHANGED <<minors, leaked, sb, job, faults>>
\* binder_free_proc()
FreeProc(d) ==
  /\ dev[d].late > 0 /\ dev' = [dev EXCEPT ![d] = DropRef([dev[d] EXCEPT !.late = @ - 1])]
  /\ UNCHANGED <<minors, leaked, sb, job, faults>>

-----------------------------------------------------------------------------
Next ==
  \/ \E x \in Tasks :
       \/ ReserveMinor(x) \/ ReserveFails(x) \/ BuildFails(x) \/ Link(x) \/ LinkFails(x) \/ Err(x)
       \/ Iput(x) \/ CtlFails(x) \/ CtlLink(x) \/ CtlLinkFails(x) \/ Logs(x) \/ LogsFail(x)
       \/ Kill(x) \/ Parse(x) \/ RemountEnd(x)
       \/ \E d \in Slots : Build(x, d) \/ CtlCreate(x, d)
       \/ \E m \in Mounts : \/ \E n \in Names : CtlAdd(x, m, n)
                            \/ \E o \in Options : Mount(x, m, o) \/ Remount(x, m, o)
  \/ \E m \in Mounts : Umount(m) \/ KillSuper(m)
  \/ \E d \in Slots : Evict(d) \/ Unlink(d) \/ Open(d) \/ Close(d) \/ FreeProc(d)

Spec == Init /\ [][Next]_vars

-----------------------------------------------------------------------------
(* What makes it correct.                                                  *)

Minors == 0 .. MaxMinor
Words == Names \cup {"binder-control", "max", "stats", "bad"}
SuperType == [state : {"none", "filling", "mounted", "dying"}, max : Nat, stats : BOOLEAN, count : Int]
DevType ==
  [kind : {"none", "dev", "ctl"}, mount : Mounts \cup {None}, minor : Minors \cup {None},
   name : Words \cup {None}, inode : BOOLEAN, private : BOOLEAN, linked : BOOLEAN,
   open : Nat, late : Nat, ref : Nat]
JobType ==
  [pc : {"idle", "reserve", "build", "link", "err", "iput", "ctl", "ctllink", "logs", "kill", "parse"},
   mount : Mounts \cup {None}, dev : Slots \cup {None}, minor : Minors \cup {None},
   name : Words \cup {None}, filling : BOOLEAN, left : Seq(Words), prev : BOOLEAN]
TypeOK ==
  /\ minors \subseteq Minors /\ leaked \subseteq minors /\ faults \in 0 .. MaxFaults
  /\ sb \in [Mounts -> SuperType] /\ dev \in [Slots -> DevType] /\ job \in [Tasks -> JobType]

\* Creations between the reservation and the end of their error exit.
Creating(m) == {x \in Tasks : job[x].mount = m /\ job[x].pc \in {"build", "link", "err"}}
Inodes == {d \in Slots : dev[d].inode /\ (dev[d].private \/ dev[d].kind = "ctl")}

\* A reserved minor has exactly one owner, a creation under way or an inode, whichever of
\* the paths of creation, failure, unlink and unmount are taken at the same time: no two
\* devices share a number, and none is lost but by a failed control device.
MinorsOwned ==
  LET jobs == {x \in Tasks : job[x].pc \in {"build", "link", "err"}}
      own == {job[x].minor : x \in jobs} \cup {dev[d].minor : d \in Inodes} IN
  /\ minors = own \cup leaked /\ own \cap leaked = {}
  /\ Cardinality(own) = Cardinality(jobs) + Cardinality(Inodes)

\* device_count is the number of devices of the mount, being made or with an inode; the
\* control device is not counted, except that its eviction takes one off a mount that ends.
CountExact ==
  \A m \in Mounts :
    LET n == Cardinality(Creating(m)) + Cardinality({d \in Inodes : dev[d].kind = "dev" /\ dev[d].mount = m})
    IN  /\ sb[m].state \in {"filling", "mounted"} => sb[m].count = n
        /\ sb[m].state = "dying" => sb[m].count \in {n, n - 1}
        /\ sb[m].state = "none" => n = 0

\* What a device reserves is given back once, by whichever path ends it.
ReservationsExact == TypeOK /\ MinorsOwned /\ CountExact

\* struct binder_device lives exactly as long as its inode, an open file or a process that
\* is still to be released needs it, also after unlink and unmount.
DeviceRefs ==
  \A d \in Slots : dev[d].private \/ dev[d].open > 0 \/ dev[d].late > 0 =>
    dev[d].ref = dev[d].open + dev[d].late + (IF dev[d].private THEN 1 ELSE 0)
=============================================================================
