---------------------------- MODULE BinderfsProofs ---------------------------
(***************************************************************************)
(* For any numbers of mounts, tasks, devices and minors: what binderfs     *)
(* reserves has exactly one owner, and a device lives as long as it is     *)
(* needed.  FsInv adds to the properties of Binderfs which step of which   *)
(* task owns an inode, and which state its mount is in.                    *)
(***************************************************************************)
EXTENDS Binderfs, FiniteSetTheorems, FunctionTheorems, WellFoundedInduction, TLAPS

Reserving == {x \in Tasks : job[x].pc \in {"build", "link", "err"}}
Filling(x) == job[x].filling \/ job[x].pc = "kill"
DevicesOf(m) == {d \in Inodes : dev[d].kind = "dev" /\ dev[d].mount = m}

\* A slot without a device is empty; an inode is private once it has its device, and an open
\* file keeps it; a device without an inode waits for its last process.
DeviceSound(d) ==
  /\ dev[d].kind = "none" => dev[d] = NoDev
  /\ dev[d].kind # "none" => dev[d].mount \in Mounts /\ dev[d].minor \in Minors
  /\ dev[d].private => dev[d].inode
  /\ dev[d].linked => dev[d].private
  /\ dev[d].open > 0 => dev[d].private
  /\ dev[d].inode /\ ~dev[d].private => dev[d].open = 0 /\ dev[d].late = 0 /\ dev[d].ref = 0
  /\ dev[d].kind # "none" /\ ~dev[d].inode => dev[d].late > 0
  /\ dev[d].kind = "ctl" => /\ dev[d].inode /\ dev[d].open = 0 /\ dev[d].late = 0
                            /\ dev[d].private => dev[d].linked
  /\ dev[d].inode => dev[d].kind # "none" /\ sb[dev[d].mount].state # "none"
  /\ dev[d].open \in Nat /\ dev[d].late \in Nat /\ dev[d].ref \in Nat
DevicesSound == \A d \in Slots : DeviceSound(d)

\* Where a task is tells what it holds and the state of its mount.
JobSound(x) ==
  /\ job[x].pc = "idle" => job[x] = Idle
  /\ job[x].pc # "idle" => /\ job[x].mount \in Mounts
                           /\ sb[job[x].mount].state = IF Filling(x) THEN "filling" ELSE "mounted"
  /\ job[x].pc \in {"ctl", "ctllink", "logs"} => job[x].filling
  /\ job[x].pc \in {"kill", "parse"} => ~job[x].filling
  /\ job[x].pc \in {"build", "link", "err"} => job[x].minor \in Minors
  /\ job[x].pc \in {"link", "ctllink", "iput"} => job[x].dev # None
  /\ job[x].pc \in {"reserve", "build", "ctl", "logs", "kill", "parse"} => job[x].dev = None
  /\ job[x].pc = "ctl" => \A d \in Slots : dev[d].kind = "ctl" => dev[d].mount # job[x].mount
JobsSound == \A x \in Tasks : JobSound(x)

\* An inode under construction belongs to its task.
InodesOwned ==
  \A x \in Tasks : job[x].dev # None =>
    LET e == dev[job[x].dev] IN
    /\ job[x].dev \in Slots /\ e.inode /\ ~e.private /\ e.mount = job[x].mount
    /\ e.kind = IF job[x].pc = "ctllink" THEN "ctl" ELSE "dev"
    /\ job[x].pc \in {"link", "err"} => e.minor = job[x].minor

\* Tasks share no inode under construction, and one task fills a mount.
JobsApart ==
  \A x, y \in Tasks : x # y =>
    /\ job[x].dev # None => job[x].dev # job[y].dev
    /\ Filling(x) /\ Filling(y) => job[x].mount # job[y].mount

\* A mount has one control device.
OneControl ==
  \A d, e \in Slots : d # e /\ dev[d].kind = "ctl" /\ dev[e].kind = "ctl" => dev[d].mount # dev[e].mount

\* MinorsOwned without its cardinalities.
OwnersApart ==
  /\ \A x \in Reserving : job[x].minor \in minors \ leaked
  /\ \A d \in Inodes : dev[d].minor \in minors \ leaked
  /\ \A n \in minors \ leaked : (\E x \in Reserving : job[x].minor = n) \/ \E d \in Inodes : dev[d].minor = n
  /\ \A x, y \in Reserving : job[x].minor = job[y].minor => x = y
  /\ \A d, e \in Inodes : dev[d].minor = dev[e].minor => d = e
  /\ \A x \in Reserving, d \in Inodes : job[x].minor # dev[d].minor

\* CountExact; the control device of a mount that ends is still to take its one off.
Reserved(m) == Cardinality(Creating(m)) + Cardinality(DevicesOf(m))
CountsKept ==
  \A m \in Mounts :
    /\ sb[m].state \in {"filling", "mounted"} => sb[m].count = Reserved(m)
    /\ sb[m].state = "dying" => sb[m].count \in {Reserved(m), Reserved(m) - 1}
    /\ sb[m].state = "dying" /\ (\E d \in Slots : dev[d].kind = "ctl" /\ dev[d].mount = m)
         => sb[m].count = Reserved(m)
    /\ sb[m].state = "none" => Reserved(m) = 0

FsInv ==
  /\ TypeOK /\ DevicesSound /\ JobsSound /\ InodesOwned /\ JobsApart /\ OneControl /\ OwnersApart
  /\ CountsKept /\ DeviceRefs

-----------------------------------------------------------------------------
(* The operators.                                                          *)

\* A nonempty set of numbers has a lowest one: ida_alloc_max() returns a free minor.
LEMMA LowestIn == ASSUME NEW S, S \subseteq Nat, S # {} PROVE Lowest(S) \in S
<1> DEFINE R == OpToRel(<, Nat)
<1>1. IsWellFoundedOn(R, Nat)
  BY NatLessThanWellFounded
<1>2. \A i, j \in Nat : i < j => <<i, j>> \in R
  BY DEF OpToRel
<1> HIDE DEF R
<1>3. PICK n \in S : \A k \in S : ~(<<k, n>> \in R)
  BY <1>1, WFMin
<1>4. \A k \in S : ~(k < n)
  BY <1>2, <1>3, Zenon
<1>5. \A k \in S : n <= k
  BY <1>4
<1> QED BY <1>5 DEF Lowest

\* The minor a mount gets is a new one.
LEMMA FreeMinor ==
  ASSUME TypeOK, NEW m \in Mounts, Available(m) # {}
  PROVE  Lowest(Available(m)) \in Minors \ minors
<1> USE BinderfsAssumption
<1>1. Limit(m) \in 0 .. MaxMinor
  BY DEF Limit
<1>2. Available(m) \subseteq Minors \ minors
  BY <1>1 DEF Available, Minors
<1>3. Available(m) \subseteq Nat
  BY <1>2 DEF Minors
<1> QED BY <1>2, <1>3, LowestIn

\* The records a task, a slot and a mount start with.
LEMMA StartTypes == Idle \in JobType /\ NoDev \in DevType /\ NoSb \in SuperType
BY DEF JobType, DevType, SuperType, Idle, NoDev, NoSb, Words

\* The sets that are counted are finite.
LEMMA CountedFinite ==
  ASSUME NEW m \in Mounts
  PROVE  /\ IsFiniteSet(Creating(m)) /\ IsFiniteSet(DevicesOf(m))
         /\ Cardinality(Creating(m)) \in Nat /\ Cardinality(DevicesOf(m)) \in Nat
<1>1. Creating(m) \in SUBSET Tasks /\ DevicesOf(m) \in SUBSET Slots
  BY DEF Creating, DevicesOf, Inodes
<1>2. IsFiniteSet(Creating(m)) /\ IsFiniteSet(DevicesOf(m))
  BY <1>1, FS_Subset, BinderfsAssumption
<1> QED BY <1>2, FS_CardinalityType

\* A step that neither reserves nor gives back leaves minors and counts with their owners.
LEMMA SameOwners ==
  ASSUME OwnersApart, UNCHANGED <<minors, leaked>>, Reserving' = Reserving, Inodes' = Inodes,
         \A x \in Reserving : job'[x].minor = job[x].minor /\ job'[x].mount = job[x].mount,
         \A d \in Inodes : /\ dev'[d].minor = dev[d].minor /\ dev'[d].kind = dev[d].kind
                           /\ dev'[d].mount = dev[d].mount
  PROVE  OwnersApart' /\ \A m \in Mounts : Reserved(m)' = Reserved(m)
<1>1. OwnersApart'
  BY DEF OwnersApart
<1>2. ASSUME NEW m \in Mounts PROVE Reserved(m)' = Reserved(m)
  <2>1. Creating(m) = {x \in Reserving : job[x].mount = m}
    BY DEF Creating, Reserving
  <2>2. Creating(m)' = {x \in Reserving' : job'[x].mount = m}
    BY DEF Creating, Reserving
  <2>3. Creating(m)' = Creating(m)
    BY <2>1, <2>2
  <2>4. DevicesOf(m)' = DevicesOf(m)
    BY DEF DevicesOf
  <2> QED BY <2>3, <2>4 DEF Reserved
<1> QED BY <1>1, <1>2

\* Where a task goes on after a device: out of the mount, to the next device, or to its end.
Leaves(x) ==
  /\ job' \in [Tasks -> JobType] /\ \A y \in Tasks : y # x => job'[y] = job[y]
  /\ job'[x].pc \in {"idle", "kill", "logs", "reserve"} /\ job'[x].dev = None
  /\ job'[x].pc = "idle" => job'[x] = Idle
  /\ job'[x].pc = "idle" <=> ~job[x].filling
  /\ job'[x].pc # "idle" => /\ job'[x].mount = job[x].mount
                            /\ job'[x].filling <=> job'[x].pc # "kill"

\* AfterDevice() keeps the mount of a task that fills it.
LEMMA AfterDeviceLeaves ==
  ASSUME TypeOK, NEW x \in Tasks, NEW ok \in BOOLEAN, AfterDevice(x, ok)
  PROVE  Leaves(x)
<1> USE DEF AfterDevice, Become, Leaves
<1>1. CASE ~job[x].filling
  BY <1>1, StartTypes DEF TypeOK, Idle
<1>2. CASE job[x].filling /\ ~ok
  <2>1. [Idle EXCEPT !.pc = "kill", !.mount = job[x].mount] \in JobType
    BY StartTypes DEF TypeOK, JobType
  <2> QED BY <1>2, <2>1 DEF TypeOK, Idle
<1>3. CASE job[x].filling /\ ok /\ Len(job[x].left) = 0
  <2>1. [job[x] EXCEPT !.pc = "logs", !.dev = None, !.minor = None] \in JobType
    BY DEF TypeOK, JobType
  <2> QED BY <1>3, <2>1 DEF TypeOK, JobType
<1>4. CASE job[x].filling /\ ok /\ Len(job[x].left) # 0
  <2>1. job[x].left \in Seq(Words) /\ job[x].left # <<>>
    BY <1>4 DEF TypeOK, JobType
  <2>2. Head(job[x].left) \in Words /\ Tail(job[x].left) \in Seq(Words)
    BY <2>1
  <2>3. [job[x] EXCEPT !.pc = "reserve", !.dev = None, !.minor = None,
                       !.name = Head(job[x].left), !.left = Tail(job[x].left)] \in JobType
    BY <2>2 DEF TypeOK, JobType
  <2> QED BY <1>4, <2>3 DEF TypeOK, JobType
<1> QED BY <1>1, <1>2, <1>3, <1>4 DEF TypeOK, JobType

-----------------------------------------------------------------------------
(* FsInv is inductive, one lemma per action.                               *)

\* Nothing is mounted at first.
LEMMA InitFs == Init => FsInv
<1> SUFFICES ASSUME Init PROVE FsInv OBVIOUS
<1> USE DEF Init
<1>1. TypeOK
  BY StartTypes, BinderfsAssumption DEF TypeOK
<1>2. DevicesSound /\ OneControl /\ DeviceRefs
  BY BinderfsAssumption DEF DevicesSound, DeviceSound, OneControl, DeviceRefs, NoDev
<1>3. JobsSound /\ InodesOwned /\ JobsApart
  BY BinderfsAssumption DEF JobsSound, JobSound, InodesOwned, JobsApart, Idle, Filling
<1>4. Reserving = {} /\ Inodes = {}
  BY DEF Reserving, Inodes, Idle, NoDev
<1>5. OwnersApart
  BY <1>4 DEF OwnersApart
<1>6. ASSUME NEW m \in Mounts PROVE Reserved(m) = 0
  <2>1. Creating(m) = {} /\ DevicesOf(m) = {}
    BY <1>4 DEF Creating, DevicesOf, Reserving
  <2>2. Cardinality({}) = 0
    BY FS_EmptySet
  <2> QED BY <2>1, <2>2 DEF Reserved
<1>7. CountsKept
  BY <1>6 DEF CountsKept, NoSb
<1> QED BY <1>1, <1>2, <1>3, <1>5, <1>7 DEF FsInv

\* BINDER_CTL_ADD enters a mount that is up.
LEMMA CtlAddFs ==
  ASSUME FsInv, NEW x \in Tasks, NEW m \in Mounts, NEW n \in Names, CtlAdd(x, m, n)
  PROVE  FsInv'
<1> USE BinderfsAssumption DEF FsInv, CtlAdd, Become
<1>0. [Idle EXCEPT !.pc = "reserve", !.mount = m, !.name = n] \in JobType
  BY StartTypes DEF TypeOK, JobType, Words
<1>1. TypeOK'
  BY <1>0 DEF TypeOK
<1>2. DevicesSound' /\ OneControl' /\ DeviceRefs'
  BY DEF DevicesSound, DeviceSound, OneControl, DeviceRefs, TypeOK
<1>3. JobsSound'
  BY <1>0 DEF JobsSound, JobSound, TypeOK, Idle, Filling
<1>4. InodesOwned'
  BY <1>0 DEF InodesOwned, TypeOK, Idle
<1>5. JobsApart'
  BY <1>0 DEF JobsApart, TypeOK, Idle, Filling
<1>6. Reserving' = Reserving /\ Inodes' = Inodes
  BY <1>0 DEF Reserving, Inodes, TypeOK, Idle
<1>7. OwnersApart' /\ \A k \in Mounts : Reserved(k)' = Reserved(k)
  <2>1. /\ \A y \in Reserving : job'[y].minor = job[y].minor /\ job'[y].mount = job[y].mount
        /\ \A k \in Inodes : /\ dev'[k].minor = dev[k].minor /\ dev'[k].kind = dev[k].kind
                             /\ dev'[k].mount = dev[k].mount
    BY <1>0 DEF Reserving, Inodes, TypeOK
  <2> QED BY <1>6, <2>1, SameOwners
<1>8. CountsKept'
  BY <1>7 DEF CountsKept, TypeOK
<1> QED BY <1>1, <1>2, <1>3, <1>4, <1>5, <1>7, <1>8

\* No minor, or the limit of the mount: the task leaves as it came.
LEMMA ReserveFailsFs ==
  ASSUME FsInv, NEW x \in Tasks, ReserveFails(x)
  PROVE  FsInv'
<1> USE BinderfsAssumption DEF FsInv, ReserveFails
<1>0. Leaves(x)
  BY AfterDeviceLeaves
<1>1. TypeOK'
  BY <1>0 DEF TypeOK, Leaves
<1>2. DevicesSound' /\ OneControl' /\ DeviceRefs'
  BY DEF DevicesSound, DeviceSound, OneControl, DeviceRefs, TypeOK
<1>3. JobsSound'
  BY <1>0 DEF JobsSound, JobSound, Leaves, Idle, Filling
<1>4. InodesOwned'
  BY <1>0 DEF InodesOwned, Leaves
<1>5. JobsApart'
  BY <1>0 DEF JobsApart, Leaves, Idle, Filling
<1>6. Reserving' = Reserving /\ Inodes' = Inodes
  BY <1>0 DEF Reserving, Inodes, Leaves
<1>7. OwnersApart' /\ \A k \in Mounts : Reserved(k)' = Reserved(k)
  <2>1. \A y \in Reserving : job'[y] = job[y]
    BY <1>0 DEF Reserving, Leaves
  <2> QED BY <1>6, <2>1, SameOwners
<1>8. CountsKept'
  BY <1>7 DEF CountsKept, TypeOK
<1> QED BY <1>1, <1>2, <1>3, <1>4, <1>5, <1>7, <1>8

\* The inode under construction is in nobody's reach but the task's.
LEMMA BuildFs ==
  ASSUME FsInv, NEW x \in Tasks, NEW d \in Slots, Build(x, d)
  PROVE  FsInv'
<1> USE BinderfsAssumption DEF FsInv, Free
<1>0. /\ job' \in [Tasks -> JobType] /\ dev' \in [Slots -> DevType]
      /\ job[x].mount \in Mounts /\ job[x].minor \in Minors /\ job[x].pc = "build" /\ job[x].dev = None
      /\ job'[x].pc = "link" /\ job'[x].dev = d /\ job'[x].mount = job[x].mount
      /\ job'[x].minor = job[x].minor /\ job'[x].filling = job[x].filling
      /\ \A y \in Tasks : y # x => job'[y] = job[y] /\ job[y].dev # d
      /\ dev[d].kind = "none" /\ dev'[d].kind = "dev" /\ dev'[d].mount = job[x].mount
      /\ dev'[d].minor = job[x].minor /\ dev'[d].inode /\ ~dev'[d].private /\ ~dev'[d].linked
      /\ dev'[d].open = 0 /\ dev'[d].late = 0 /\ dev'[d].ref = 0
      /\ \A k \in Slots : k # d => dev'[k] = dev[k]
      /\ UNCHANGED <<minors, leaked, sb, faults>>
  <2> USE DEF Build, Become
  <2>1. job[x] \in JobType /\ job[x].mount \in Mounts /\ job[x].minor \in Minors /\ job[x].dev = None
    BY DEF TypeOK, JobsSound, JobSound
  <2>2. [job[x] EXCEPT !.pc = "link", !.dev = d] \in JobType
    BY <2>1 DEF JobType
  <2>3. [NoDev EXCEPT !.kind = "dev", !.mount = job[x].mount, !.minor = job[x].minor,
                      !.name = job[x].name, !.inode = TRUE] \in DevType
    BY <2>1, StartTypes DEF DevType, JobType
  <2>4. job' \in [Tasks -> JobType] /\ dev' \in [Slots -> DevType]
    BY <2>2, <2>3 DEF TypeOK
  <2>5. /\ job'[x].pc = "link" /\ job'[x].dev = d /\ job'[x].mount = job[x].mount
        /\ job'[x].minor = job[x].minor /\ job'[x].filling = job[x].filling
        /\ \A y \in Tasks : y # x => job'[y] = job[y] /\ job[y].dev # d
    BY <2>1 DEF TypeOK, JobType
  <2>6. /\ dev'[d].kind = "dev" /\ dev'[d].mount = job[x].mount
        /\ dev'[d].minor = job[x].minor /\ dev'[d].inode /\ ~dev'[d].private /\ ~dev'[d].linked
        /\ dev'[d].open = 0 /\ dev'[d].late = 0 /\ dev'[d].ref = 0
        /\ \A k \in Slots : k # d => dev'[k] = dev[k]
    BY DEF TypeOK, NoDev
  <2> QED BY <2>1, <2>4, <2>5, <2>6
<1>1. TypeOK'
  BY <1>0 DEF TypeOK
<1>2. DevicesSound' /\ OneControl' /\ DeviceRefs'
  <2>1. \A k \in Slots : k # d => DeviceSound(k)'
    BY <1>0 DEF DevicesSound, DeviceSound
  <2>2. DeviceSound(d)'
    BY <1>0 DEF DeviceSound, JobsSound, JobSound
  <2>3. OneControl' /\ DeviceRefs'
    BY <1>0 DEF OneControl, DeviceRefs
  <2> QED BY <2>1, <2>2, <2>3 DEF DevicesSound
<1>3. JobsSound'
  BY <1>0 DEF JobsSound, JobSound, TypeOK, Filling
<1>4. InodesOwned'
  <2>1. \A y \in Tasks : y # x /\ job'[y].dev # None => dev'[job'[y].dev] = dev[job[y].dev]
    BY <1>0 DEF TypeOK, JobType
  <2> QED BY <1>0, <2>1 DEF InodesOwned, TypeOK
<1>5. JobsApart'
  BY <1>0 DEF JobsApart, TypeOK, Filling
<1>6. Reserving' = Reserving /\ Inodes' = Inodes
  <2>1. d \notin Inodes
    BY <1>0 DEF Inodes, DevicesSound, DeviceSound, NoDev
  <2>2. d \notin Inodes'
    BY <1>0 DEF Inodes
  <2>3. \A k \in Slots : k # d => (k \in Inodes' <=> k \in Inodes)
    BY <1>0 DEF Inodes
  <2>4. Inodes' = Inodes
    BY <2>1, <2>2, <2>3 DEF Inodes
  <2> QED BY <1>0, <2>4 DEF Reserving
<1>7. OwnersApart' /\ \A k \in Mounts : Reserved(k)' = Reserved(k)
  <2>1. d \notin Inodes
    BY <1>0 DEF Inodes, DevicesSound, DeviceSound, NoDev
  <2>2. /\ \A y \in Reserving : job'[y].minor = job[y].minor /\ job'[y].mount = job[y].mount
        /\ \A k \in Inodes : dev'[k] = dev[k]
    BY <1>0, <2>1 DEF Reserving, Inodes
  <2> QED BY <1>0, <1>6, <2>2, SameOwners
<1>8. CountsKept'
  BY <1>0, <1>7 DEF CountsKept, TypeOK
<1> QED BY <1>1, <1>2, <1>3, <1>4, <1>5, <1>7, <1>8

\* A failed allocation goes to the error exit, with the minor.
LEMMA BuildFailsFs ==
  ASSUME FsInv, NEW x \in Tasks, BuildFails(x)
  PROVE  FsInv'
<1> USE BinderfsAssumption DEF FsInv, BuildFails, Become, Fault
<1>0. [job[x] EXCEPT !.pc = "err"] \in JobType
  BY StartTypes DEF TypeOK, JobType, Words
<1>1. TypeOK'
  BY <1>0 DEF TypeOK
<1>2. DevicesSound' /\ OneControl' /\ DeviceRefs'
  BY DEF DevicesSound, DeviceSound, OneControl, DeviceRefs, TypeOK
<1>3. JobsSound'
  BY <1>0 DEF JobsSound, JobSound, TypeOK, Idle, Filling
<1>4. InodesOwned'
  BY DEF InodesOwned, JobsSound, JobSound, TypeOK, JobType
<1>5. JobsApart'
  BY <1>0 DEF JobsApart, TypeOK, Idle, Filling
<1>6. Reserving' = Reserving /\ Inodes' = Inodes
  BY <1>0 DEF Reserving, Inodes, TypeOK, Idle
<1>7. OwnersApart' /\ \A k \in Mounts : Reserved(k)' = Reserved(k)
  <2>1. /\ \A y \in Reserving : job'[y].minor = job[y].minor /\ job'[y].mount = job[y].mount
        /\ \A k \in Inodes : /\ dev'[k].minor = dev[k].minor /\ dev'[k].kind = dev[k].kind
                             /\ dev'[k].mount = dev[k].mount
    BY <1>0 DEF Reserving, Inodes, TypeOK
  <2> QED BY <1>6, <2>1, SameOwners
<1>8. CountsKept'
  BY <1>7 DEF CountsKept, TypeOK
<1> QED BY <1>1, <1>2, <1>3, <1>4, <1>5, <1>7, <1>8

\* So does a name that is taken, with minor and inode.
LEMMA LinkFailsFs ==
  ASSUME FsInv, NEW x \in Tasks, LinkFails(x)
  PROVE  FsInv'
<1> USE BinderfsAssumption DEF FsInv, LinkFails, Become, Fault
<1>0. [job[x] EXCEPT !.pc = "err"] \in JobType
  BY StartTypes DEF TypeOK, JobType, Words
<1>1. TypeOK'
  BY <1>0 DEF TypeOK
<1>2. DevicesSound' /\ OneControl' /\ DeviceRefs'
  BY DEF DevicesSound, DeviceSound, OneControl, DeviceRefs, TypeOK
<1>3. JobsSound'
  BY <1>0 DEF JobsSound, JobSound, TypeOK, Idle, Filling
<1>4. InodesOwned'
  BY <1>0 DEF InodesOwned, TypeOK, Idle
<1>5. JobsApart'
  BY <1>0 DEF JobsApart, TypeOK, Idle, Filling
<1>6. Reserving' = Reserving /\ Inodes' = Inodes
  BY <1>0 DEF Reserving, Inodes, TypeOK, Idle
<1>7. OwnersApart' /\ \A k \in Mounts : Reserved(k)' = Reserved(k)
  <2>1. /\ \A y \in Reserving : job'[y].minor = job[y].minor /\ job'[y].mount = job[y].mount
        /\ \A k \in Inodes : /\ dev'[k].minor = dev[k].minor /\ dev'[k].kind = dev[k].kind
                             /\ dev'[k].mount = dev[k].mount
    BY <1>0 DEF Reserving, Inodes, TypeOK
  <2> QED BY <1>6, <2>1, SameOwners
<1>8. CountsKept'
  BY <1>7 DEF CountsKept, TypeOK
<1> QED BY <1>1, <1>2, <1>3, <1>4, <1>5, <1>7, <1>8

\* A mount without its control device comes down.
LEMMA CtlFailsFs ==
  ASSUME FsInv, NEW x \in Tasks, CtlFails(x)
  PROVE  FsInv'
<1> USE BinderfsAssumption DEF FsInv, CtlFails, Fault
<1>0. Leaves(x)
  BY AfterDeviceLeaves
<1>1. TypeOK'
  BY <1>0 DEF TypeOK, Leaves
<1>2. DevicesSound' /\ OneControl' /\ DeviceRefs'
  BY DEF DevicesSound, DeviceSound, OneControl, DeviceRefs, TypeOK
<1>3. JobsSound'
  BY <1>0 DEF JobsSound, JobSound, Leaves, Idle, Filling
<1>4. InodesOwned'
  BY <1>0 DEF InodesOwned, Leaves
<1>5. JobsApart'
  BY <1>0 DEF JobsApart, Leaves, Idle, Filling
<1>6. Reserving' = Reserving /\ Inodes' = Inodes
  BY <1>0 DEF Reserving, Inodes, Leaves
<1>7. OwnersApart' /\ \A k \in Mounts : Reserved(k)' = Reserved(k)
  <2>1. \A y \in Reserving : job'[y] = job[y]
    BY <1>0 DEF Reserving, Leaves
  <2> QED BY <1>6, <2>1, SameOwners
<1>8. CountsKept'
  BY <1>7 DEF CountsKept, TypeOK
<1> QED BY <1>1, <1>2, <1>3, <1>4, <1>5, <1>7, <1>8

\* So does one whose log files fail.
LEMMA LogsFailFs ==
  ASSUME FsInv, NEW x \in Tasks, LogsFail(x)
  PROVE  FsInv'
<1> USE BinderfsAssumption DEF FsInv, LogsFail, Become, Fault
<1>0. [Idle EXCEPT !.pc = "kill", !.mount = job[x].mount] \in JobType
  BY StartTypes DEF TypeOK, JobType, Words
<1>1. TypeOK'
  BY <1>0 DEF TypeOK
<1>2. DevicesSound' /\ OneControl' /\ DeviceRefs'
  BY DEF DevicesSound, DeviceSound, OneControl, DeviceRefs, TypeOK
<1>3. JobsSound'
  BY <1>0 DEF JobsSound, JobSound, TypeOK, Idle, Filling
<1>4. InodesOwned'
  BY <1>0 DEF InodesOwned, TypeOK, Idle
<1>5. JobsApart'
  BY DEF JobsApart, JobsSound, JobSound, TypeOK, Idle, Filling
<1>6. Reserving' = Reserving /\ Inodes' = Inodes
  BY <1>0 DEF Reserving, Inodes, TypeOK, Idle
<1>7. OwnersApart' /\ \A k \in Mounts : Reserved(k)' = Reserved(k)
  <2>1. /\ \A y \in Reserving : job'[y].minor = job[y].minor /\ job'[y].mount = job[y].mount
        /\ \A k \in Inodes : /\ dev'[k].minor = dev[k].minor /\ dev'[k].kind = dev[k].kind
                             /\ dev'[k].mount = dev[k].mount
    BY <1>0 DEF Reserving, Inodes, TypeOK
  <2> QED BY <1>6, <2>1, SameOwners
<1>8. CountsKept'
  BY <1>7 DEF CountsKept, TypeOK
<1> QED BY <1>1, <1>2, <1>3, <1>4, <1>5, <1>7, <1>8

\* A remount writes limit and stats mode of a mount that is up, and no count.
LEMMA RemountFs ==
  ASSUME FsInv, NEW x \in Tasks, NEW m \in Mounts, NEW o \in Options, Remount(x, m, o)
  PROVE  FsInv'
<1> USE BinderfsAssumption DEF FsInv
<1>a. sb' \in [Mounts -> SuperType]
  BY DEF Remount, TypeOK, SuperType
<1>b. \A k \in Mounts : sb'[k].state = sb[k].state /\ sb'[k].count = sb[k].count
  BY DEF Remount, TypeOK, SuperType
<1>c. /\ job' \in [Tasks -> JobType] /\ \A y \in Tasks : y # x => job'[y] = job[y]
      /\ job'[x].pc = "parse" /\ job'[x].mount = m /\ job'[x].dev = None /\ ~job'[x].filling
      /\ job[x].pc = "idle" /\ sb[m].state = "mounted"
  <2>1. o \in Seq(Words) /\ sb[m].stats \in BOOLEAN
    BY DEF Words, TypeOK, SuperType
  <2>2. [Idle EXCEPT !.pc = "parse", !.mount = m, !.left = o, !.prev = sb[m].stats] \in JobType
    BY <2>1, StartTypes DEF JobType
  <2> QED BY <2>2 DEF Remount, Become, TypeOK, Idle
<1>d. UNCHANGED <<minors, leaked, dev, faults>>
  BY DEF Remount
<1>1. TypeOK'
  BY <1>a, <1>b, <1>c, <1>d DEF TypeOK
<1>2. DevicesSound'
  BY <1>a, <1>b, <1>c, <1>d DEF DevicesSound, DeviceSound
<1>3. OneControl'
  BY <1>a, <1>b, <1>c, <1>d DEF OneControl
<1>4. DeviceRefs'
  BY <1>a, <1>b, <1>c, <1>d DEF DeviceRefs
<1>5. JobsSound'
  BY <1>a, <1>b, <1>c, <1>d DEF JobsSound, JobSound, Filling
<1>6. InodesOwned'
  BY <1>a, <1>b, <1>c, <1>d DEF InodesOwned
<1>7. JobsApart'
  BY <1>a, <1>b, <1>c, <1>d DEF JobsApart, Filling
<1>8. Reserving' = Reserving /\ Inodes' = Inodes
  BY <1>a, <1>b, <1>c, <1>d DEF Reserving, Inodes
<1>9. OwnersApart' /\ \A k \in Mounts : Reserved(k)' = Reserved(k)
  BY <1>a, <1>b, <1>c, <1>d, <1>8, SameOwners DEF Reserving, Inodes
<1>10. CountsKept'
  BY <1>a, <1>b, <1>c, <1>d, <1>9 DEF CountsKept
<1> QED BY <1>1, <1>2, <1>3, <1>4, <1>5, <1>6, <1>7, <1>9, <1>10

\* Nor does the parser of its options.
LEMMA ParseFs ==
  ASSUME FsInv, NEW x \in Tasks, Parse(x)
  PROVE  FsInv'
<1> USE BinderfsAssumption DEF FsInv
<1>a. job[x].mount \in Mounts /\ job[x].pc = "parse"
  BY DEF Parse, JobsSound, JobSound
<1>b. sb' \in [Mounts -> SuperType]
  <2>1. \A o : [sb[job[x].mount] EXCEPT !.max = IF o = "max" THEN MaxOpt ELSE @,
                                      !.stats = @ \/ o = "stats"] \in SuperType
    BY <1>a DEF TypeOK, SuperType
  <2> QED BY <1>a, <2>1 DEF Parse, TypeOK, SuperType
<1>c. \A k \in Mounts : sb'[k].state = sb[k].state /\ sb'[k].count = sb[k].count
  BY <1>a DEF Parse, TypeOK, SuperType
<1>d. /\ job' \in [Tasks -> JobType] /\ \A y \in Tasks : y # x => job'[y] = job[y]
      /\ job'[x] = Idle \/ /\ job'[x].pc = "parse" /\ job'[x].mount = job[x].mount
                             /\ job'[x].dev = job[x].dev /\ job'[x].filling = job[x].filling
  <2>1. job[x].left \in Seq(Words) /\ job[x].left # <<>>
    BY DEF Parse, TypeOK, JobType
  <2>2. [job[x] EXCEPT !.left = Tail(job[x].left)] \in JobType
    <3>1. Tail(job[x].left) \in Seq(Words)
      BY <2>1
    <3> QED BY <3>1 DEF TypeOK, JobType
  <2> QED BY <1>a, <2>2, StartTypes DEF Parse, Become, TypeOK, JobType
<1>e. UNCHANGED <<minors, leaked, dev, faults>>
  BY DEF Parse
<1>1. TypeOK'
  BY <1>a, <1>b, <1>c, <1>d, <1>e DEF TypeOK
<1>2. DevicesSound'
  BY <1>a, <1>b, <1>c, <1>d, <1>e DEF DevicesSound, DeviceSound
<1>3. OneControl'
  BY <1>a, <1>b, <1>c, <1>d, <1>e DEF OneControl
<1>4. DeviceRefs'
  BY <1>a, <1>b, <1>c, <1>d, <1>e DEF DeviceRefs
<1>5. JobsSound'
  BY <1>a, <1>b, <1>c, <1>d, <1>e DEF JobsSound, JobSound, Filling, Idle
<1>6. InodesOwned'
  BY <1>a, <1>b, <1>c, <1>d, <1>e DEF InodesOwned, JobsSound, JobSound, Idle
<1>7. JobsApart'
  BY <1>a, <1>b, <1>c, <1>d, <1>e DEF JobsApart, JobsSound, JobSound, Filling, Idle
<1>8. Reserving' = Reserving /\ Inodes' = Inodes
  BY <1>a, <1>b, <1>c, <1>d, <1>e DEF Reserving, Inodes, Idle
<1>9. OwnersApart' /\ \A k \in Mounts : Reserved(k)' = Reserved(k)
  BY <1>a, <1>b, <1>c, <1>d, <1>e, <1>8, SameOwners DEF Reserving, Inodes
<1>10. CountsKept'
  BY <1>a, <1>b, <1>c, <1>d, <1>e, <1>9 DEF CountsKept
<1> QED BY <1>1, <1>2, <1>3, <1>4, <1>5, <1>6, <1>7, <1>9, <1>10

\* Its end puts the stats mode back.
LEMMA RemountEndFs ==
  ASSUME FsInv, NEW x \in Tasks, RemountEnd(x)
  PROVE  FsInv'
<1> USE BinderfsAssumption DEF FsInv
<1>a. job[x].mount \in Mounts /\ job[x].pc = "parse"
  BY DEF RemountEnd, JobsSound, JobSound
<1>b. sb' \in [Mounts -> SuperType]
  <2>1. job[x].prev \in BOOLEAN
    BY DEF TypeOK, JobType
  <2> QED BY <1>a, <2>1 DEF RemountEnd, TypeOK, SuperType
<1>c. \A k \in Mounts : sb'[k].state = sb[k].state /\ sb'[k].count = sb[k].count
  BY <1>a DEF RemountEnd, TypeOK, SuperType
<1>d. /\ job' \in [Tasks -> JobType] /\ \A y \in Tasks : y # x => job'[y] = job[y]
      /\ job'[x] = Idle
  BY StartTypes DEF RemountEnd, Become, TypeOK
<1>e. UNCHANGED <<minors, leaked, dev, faults>>
  BY DEF RemountEnd
<1>1. TypeOK'
  BY <1>a, <1>b, <1>c, <1>d, <1>e DEF TypeOK
<1>2. DevicesSound'
  BY <1>a, <1>b, <1>c, <1>d, <1>e DEF DevicesSound, DeviceSound
<1>3. OneControl'
  BY <1>a, <1>b, <1>c, <1>d, <1>e DEF OneControl
<1>4. DeviceRefs'
  BY <1>a, <1>b, <1>c, <1>d, <1>e DEF DeviceRefs
<1>5. JobsSound'
  BY <1>a, <1>b, <1>c, <1>d, <1>e DEF JobsSound, JobSound, Filling, Idle
<1>6. InodesOwned'
  BY <1>a, <1>b, <1>c, <1>d, <1>e DEF InodesOwned, Idle
<1>7. JobsApart'
  BY <1>a, <1>b, <1>c, <1>d, <1>e DEF JobsApart, Filling, Idle
<1>8. Reserving' = Reserving /\ Inodes' = Inodes
  BY <1>a, <1>b, <1>c, <1>d, <1>e DEF Reserving, Inodes, Idle
<1>9. OwnersApart' /\ \A k \in Mounts : Reserved(k)' = Reserved(k)
  BY <1>a, <1>b, <1>c, <1>d, <1>e, <1>8, SameOwners DEF Reserving, Inodes
<1>10. CountsKept'
  BY <1>a, <1>b, <1>c, <1>d, <1>e, <1>9 DEF CountsKept
<1> QED BY <1>1, <1>2, <1>3, <1>4, <1>5, <1>6, <1>7, <1>9, <1>10

\* An unlink takes the name only.
LEMMA UnlinkFs ==
  ASSUME FsInv, NEW d \in Slots, Unlink(d)
  PROVE  FsInv'
<1> USE BinderfsAssumption DEF FsInv
<1>a. /\ dev' \in [Slots -> DevType] /\ \A k \in Slots : k # d => dev'[k] = dev[k]
  <2>1. dev' = [dev EXCEPT ![d] = [dev[d] EXCEPT !.linked = FALSE]] /\ dev[d].kind = "dev" /\ dev[d].linked
    BY DEF Unlink, TypeOK, DevType
  <2>2. [dev[d] EXCEPT !.linked = FALSE] \in DevType
    BY <2>1 DEF TypeOK, DevType
  <2> QED BY <2>1, <2>2 DEF TypeOK
<1>b. /\ dev'[d].kind = dev[d].kind /\ dev'[d].mount = dev[d].mount /\ dev'[d].minor = dev[d].minor
      /\ dev'[d].inode = dev[d].inode /\ dev'[d].private = dev[d].private
      /\ dev[d].kind = "dev" /\ ~dev'[d].linked
      /\ dev'[d].open = dev[d].open /\ dev'[d].late = dev[d].late /\ dev'[d].ref = dev[d].ref
  <2>1. dev' = [dev EXCEPT ![d] = [dev[d] EXCEPT !.linked = FALSE]] /\ dev[d].kind = "dev" /\ dev[d].linked
    BY DEF Unlink, TypeOK, DevType
  <2>2. dev[d] \in DevType
    BY DEF TypeOK
  <2> QED BY <2>1, <2>2 DEF TypeOK, DevType
<1>c. UNCHANGED <<minors, leaked, sb, job, faults>>
  BY DEF Unlink
<1>1. TypeOK'
  BY <1>a, <1>b, <1>c DEF TypeOK
<1>2. DevicesSound'
  <2>1. \A k \in Slots : k # d => DeviceSound(k)'
    BY <1>a, <1>b, <1>c DEF DevicesSound, DeviceSound
  <2>2. DeviceSound(d)'
    BY <1>a, <1>b, <1>c DEF DevicesSound, DeviceSound, DeviceRefs
  <2> QED BY <2>1, <2>2 DEF DevicesSound
<1>3. OneControl'
  BY <1>a, <1>b, <1>c DEF OneControl
<1>4. DeviceRefs'
  <2>1. DeviceSound(d)
    BY DEF DevicesSound
  <2>2. dev'[d].private \/ dev'[d].open > 0 \/ dev'[d].late > 0 =>
          dev'[d].ref = dev'[d].open + dev'[d].late + (IF dev'[d].private THEN 1 ELSE 0)
    BY <1>a, <1>b, <1>c, <2>1 DEF DeviceRefs, DeviceSound
  <2> QED BY <1>a, <1>b, <1>c, <2>2 DEF DeviceRefs
<1>5. JobsSound'
  BY <1>a, <1>b, <1>c DEF JobsSound, JobSound, Filling
<1>6. InodesOwned'
  BY <1>a, <1>b, <1>c DEF InodesOwned
<1>7. JobsApart'
  BY <1>a, <1>b, <1>c DEF JobsApart, Filling
<1>8. Reserving' = Reserving /\ Inodes' = Inodes
  BY <1>a, <1>b, <1>c DEF Reserving, Inodes
<1>9. OwnersApart' /\ \A k \in Mounts : Reserved(k)' = Reserved(k)
  BY <1>a, <1>b, <1>c, <1>8, SameOwners DEF Reserving, Inodes
<1>10. CountsKept'
  BY <1>a, <1>b, <1>c, <1>9 DEF CountsKept
<1> QED BY <1>1, <1>2, <1>3, <1>4, <1>5, <1>6, <1>7, <1>9, <1>10

\* An open file counts a reference.
LEMMA OpenFs ==
  ASSUME FsInv, NEW d \in Slots, Open(d)
  PROVE  FsInv'
<1> USE BinderfsAssumption DEF FsInv
<1>a. /\ dev' \in [Slots -> DevType] /\ \A k \in Slots : k # d => dev'[k] = dev[k]
  <2>1. dev' = [dev EXCEPT ![d] = [dev[d] EXCEPT !.open = @ + 1, !.ref = @ + 1]] /\ dev[d].kind = "dev" /\ dev[d].linked
    BY DEF Open, OpenRef, TypeOK, DevType
  <2>2. [dev[d] EXCEPT !.open = @ + 1, !.ref = @ + 1] \in DevType
    <3>1. dev[d] \in DevType /\ dev[d].open + 1 \in Nat /\ dev[d].ref + 1 \in Nat
      BY DEF TypeOK, DevType
    <3> QED BY <3>1 DEF DevType
  <2> QED BY <2>1, <2>2 DEF TypeOK
<1>b. /\ dev'[d].kind = dev[d].kind /\ dev'[d].mount = dev[d].mount /\ dev'[d].minor = dev[d].minor
      /\ dev'[d].inode = dev[d].inode /\ dev'[d].private = dev[d].private
      /\ dev[d].kind = "dev" /\ dev[d].linked /\ dev'[d].linked
      /\ dev'[d].open = dev[d].open + 1 /\ dev'[d].late = dev[d].late /\ dev'[d].ref = dev[d].ref + 1
  <2>1. dev' = [dev EXCEPT ![d] = [dev[d] EXCEPT !.open = @ + 1, !.ref = @ + 1]] /\ dev[d].kind = "dev" /\ dev[d].linked
    BY DEF Open, OpenRef, TypeOK, DevType
  <2>2. dev[d] \in DevType
    BY DEF TypeOK
  <2> QED BY <2>1, <2>2 DEF TypeOK, DevType
<1>c. UNCHANGED <<minors, leaked, sb, job, faults>>
  BY DEF Open
<1>1. TypeOK'
  BY <1>a, <1>b, <1>c DEF TypeOK
<1>2. DevicesSound'
  <2>1. \A k \in Slots : k # d => DeviceSound(k)'
    BY <1>a, <1>b, <1>c DEF DevicesSound, DeviceSound
  <2>2. DeviceSound(d)'
    BY <1>a, <1>b, <1>c DEF DevicesSound, DeviceSound, DeviceRefs
  <2> QED BY <2>1, <2>2 DEF DevicesSound
<1>3. OneControl'
  BY <1>a, <1>b, <1>c DEF OneControl
<1>4. DeviceRefs'
  <2>1. DeviceSound(d)
    BY DEF DevicesSound
  <2>2. dev'[d].private \/ dev'[d].open > 0 \/ dev'[d].late > 0 =>
          dev'[d].ref = dev'[d].open + dev'[d].late + (IF dev'[d].private THEN 1 ELSE 0)
    BY <1>a, <1>b, <1>c, <2>1 DEF DeviceRefs, DeviceSound
  <2> QED BY <1>a, <1>b, <1>c, <2>2 DEF DeviceRefs
<1>5. JobsSound'
  BY <1>a, <1>b, <1>c DEF JobsSound, JobSound, Filling
<1>6. InodesOwned'
  BY <1>a, <1>b, <1>c DEF InodesOwned
<1>7. JobsApart'
  BY <1>a, <1>b, <1>c DEF JobsApart, Filling
<1>8. Reserving' = Reserving /\ Inodes' = Inodes
  BY <1>a, <1>b, <1>c DEF Reserving, Inodes
<1>9. OwnersApart' /\ \A k \in Mounts : Reserved(k)' = Reserved(k)
  BY <1>a, <1>b, <1>c, <1>8, SameOwners DEF Reserving, Inodes
<1>10. CountsKept'
  BY <1>a, <1>b, <1>c, <1>9 DEF CountsKept
<1> QED BY <1>1, <1>2, <1>3, <1>4, <1>5, <1>6, <1>7, <1>9, <1>10

\* The file is closed; its process keeps the reference.
LEMMA CloseFs ==
  ASSUME FsInv, NEW d \in Slots, Close(d)
  PROVE  FsInv'
<1> USE BinderfsAssumption DEF FsInv
<1>a. /\ dev' \in [Slots -> DevType] /\ \A k \in Slots : k # d => dev'[k] = dev[k]
  <2>1. dev' = [dev EXCEPT ![d] = [dev[d] EXCEPT !.open = @ - 1, !.late = @ + 1]] /\ dev[d].open > 0
    BY DEF Close, TypeOK, DevType
  <2>2. [dev[d] EXCEPT !.open = @ - 1, !.late = @ + 1] \in DevType
    <3>1. dev[d] \in DevType /\ dev[d].open - 1 \in Nat /\ dev[d].late + 1 \in Nat
      BY <2>1 DEF TypeOK, DevType
    <3> QED BY <3>1 DEF DevType
  <2> QED BY <2>1, <2>2 DEF TypeOK
<1>b. /\ dev'[d].kind = dev[d].kind /\ dev'[d].mount = dev[d].mount /\ dev'[d].minor = dev[d].minor
      /\ dev'[d].inode = dev[d].inode /\ dev'[d].private = dev[d].private
      /\ dev[d].open > 0 /\ dev'[d].linked = dev[d].linked
      /\ dev'[d].open = dev[d].open - 1 /\ dev'[d].late = dev[d].late + 1 /\ dev'[d].ref = dev[d].ref
  <2>1. dev' = [dev EXCEPT ![d] = [dev[d] EXCEPT !.open = @ - 1, !.late = @ + 1]] /\ dev[d].open > 0
    BY DEF Close, TypeOK, DevType
  <2>2. dev[d] \in DevType
    BY DEF TypeOK
  <2> QED BY <2>1, <2>2 DEF TypeOK, DevType
<1>c. UNCHANGED <<minors, leaked, sb, job, faults>>
  BY DEF Close
<1>1. TypeOK'
  BY <1>a, <1>b, <1>c DEF TypeOK
<1>2. DevicesSound'
  <2>1. \A k \in Slots : k # d => DeviceSound(k)'
    BY <1>a, <1>b, <1>c DEF DevicesSound, DeviceSound
  <2>2. DeviceSound(d)'
    BY <1>a, <1>b, <1>c DEF DevicesSound, DeviceSound, DeviceRefs
  <2> QED BY <2>1, <2>2 DEF DevicesSound
<1>3. OneControl'
  BY <1>a, <1>b, <1>c DEF OneControl
<1>4. DeviceRefs'
  <2>1. DeviceSound(d)
    BY DEF DevicesSound
  <2>2. dev'[d].private \/ dev'[d].open > 0 \/ dev'[d].late > 0 =>
          dev'[d].ref = dev'[d].open + dev'[d].late + (IF dev'[d].private THEN 1 ELSE 0)
    BY <1>a, <1>b, <1>c, <2>1 DEF DeviceRefs, DeviceSound
  <2> QED BY <1>a, <1>b, <1>c, <2>2 DEF DeviceRefs
<1>5. JobsSound'
  BY <1>a, <1>b, <1>c DEF JobsSound, JobSound, Filling
<1>6. InodesOwned'
  BY <1>a, <1>b, <1>c DEF InodesOwned
<1>7. JobsApart'
  BY <1>a, <1>b, <1>c DEF JobsApart, Filling
<1>8. Reserving' = Reserving /\ Inodes' = Inodes
  BY <1>a, <1>b, <1>c DEF Reserving, Inodes
<1>9. OwnersApart' /\ \A k \in Mounts : Reserved(k)' = Reserved(k)
  BY <1>a, <1>b, <1>c, <1>8, SameOwners DEF Reserving, Inodes
<1>10. CountsKept'
  BY <1>a, <1>b, <1>c, <1>9 DEF CountsKept
<1> QED BY <1>1, <1>2, <1>3, <1>4, <1>5, <1>6, <1>7, <1>9, <1>10

\* The last process of a device without an inode frees it.
LEMMA FreeProcFs ==
  ASSUME FsInv, NEW d \in Slots, FreeProc(d)
  PROVE  FsInv'
<1> USE BinderfsAssumption DEF FsInv
<1>a. /\ dev[d].late > 0 /\ ~(dev[d].inode /\ ~dev[d].private) /\ dev[d].kind = "dev"
      /\ dev[d].ref = dev[d].open + dev[d].late + (IF dev[d].private THEN 1 ELSE 0)
      /\ dev[d].open \in Nat /\ dev[d].late \in Nat /\ dev[d].ref \in Nat
      /\ DeviceSound(d)
  BY DEF FreeProc, DevicesSound, DeviceSound, DeviceRefs, NoDev, TypeOK, DevType
<1>b. /\ dev' \in [Slots -> DevType] /\ \A k \in Slots : k # d => dev'[k] = dev[k]
      /\ \/ dev'[d] = NoDev /\ ~dev[d].inode
         \/ /\ dev'[d].kind = dev[d].kind /\ dev'[d].mount = dev[d].mount /\ dev'[d].minor = dev[d].minor
            /\ dev'[d].inode = dev[d].inode /\ dev'[d].private = dev[d].private
            /\ dev'[d].linked = dev[d].linked /\ dev'[d].open = dev[d].open
            /\ dev'[d].late = dev[d].late - 1 /\ dev'[d].ref = dev[d].ref - 1
            /\ dev[d].ref # 1 \/ dev[d].inode
  <2> DEFINE e == [dev[d] EXCEPT !.late = @ - 1]
             f == [e EXCEPT !.ref = @ - 1]
  <2>0. dev[d].ref = dev[d].open + dev[d].late + 1 \/ dev[d].ref = dev[d].open + dev[d].late
    BY <1>a
  <2>1. dev[d] \in DevType /\ dev[d].late - 1 \in Nat /\ dev[d].ref - 1 \in Nat
    BY <1>a, <2>0 DEF TypeOK
  <2>2. e \in DevType /\ e.ref = dev[d].ref /\ e.inode = dev[d].inode
    BY <2>1 DEF DevType
  <2>3. f \in DevType
    BY <2>1, <2>2 DEF DevType
  <2>4. /\ f.kind = dev[d].kind /\ f.mount = dev[d].mount /\ f.minor = dev[d].minor
        /\ f.inode = dev[d].inode /\ f.private = dev[d].private
        /\ f.linked = dev[d].linked /\ f.open = dev[d].open
        /\ f.late = dev[d].late - 1 /\ f.ref = dev[d].ref - 1
    BY <2>1 DEF DevType
  <2>5. \/ dev' = [dev EXCEPT ![d] = NoDev] /\ ~e.inode
        \/ dev' = [dev EXCEPT ![d] = f] /\ (e.ref # 1 \/ e.inode)
    BY DEF FreeProc, DropRef
  <2> HIDE DEF e, f
  <2> QED BY <2>2, <2>3, <2>4, <2>5, StartTypes DEF TypeOK
<1>c. UNCHANGED <<minors, leaked, sb, job, faults>>
  BY DEF FreeProc
<1>1. TypeOK'
  BY <1>a, <1>b, <1>c DEF TypeOK
<1>2. DevicesSound'
  <2>1. \A k \in Slots : k # d => DeviceSound(k)'
    BY <1>a, <1>b, <1>c DEF DevicesSound, DeviceSound
  <2>2. CASE dev'[d] = NoDev
    <3>1. DeviceSound(d)'
      BY <2>2 DEF DeviceSound, NoDev
    <3> QED BY <2>1, <3>1 DEF DevicesSound
  <2>3. CASE dev'[d] # NoDev
    <3>1. dev[d].private => dev[d].ref = dev[d].open + dev[d].late + 1
      BY <1>a
    <3>2. ~dev[d].private => dev[d].ref = dev[d].late /\ dev[d].ref # 1
      BY <1>a, <1>b, <2>3 DEF DeviceSound
    <3>3. DeviceSound(d)'
      BY <1>a, <1>b, <1>c, <2>3, <3>1, <3>2 DEF DeviceSound
    <3> QED BY <2>1, <3>3 DEF DevicesSound
  <2> QED BY <2>2, <2>3
<1>3. OneControl'
  BY <1>a, <1>b, <1>c DEF OneControl, NoDev
<1>4. DeviceRefs'
  <2>1. DeviceSound(d)
    BY DEF DevicesSound
  <2>2. dev'[d].private \/ dev'[d].open > 0 \/ dev'[d].late > 0 =>
          dev'[d].ref = dev'[d].open + dev'[d].late + (IF dev'[d].private THEN 1 ELSE 0)
    BY <1>a, <1>b, <1>c, <2>1 DEF DeviceRefs, DeviceSound, NoDev
  <2> QED BY <1>a, <1>b, <1>c, <2>2 DEF DeviceRefs
<1>5. JobsSound'
  BY <1>a, <1>b, <1>c DEF JobsSound, JobSound, Filling, NoDev
<1>6. InodesOwned'
  BY <1>a, <1>b, <1>c DEF InodesOwned, DeviceSound
<1>7. JobsApart'
  BY <1>a, <1>b, <1>c DEF JobsApart, Filling
<1>8. Reserving' = Reserving /\ Inodes' = Inodes
  BY <1>a, <1>b, <1>c DEF Reserving, Inodes, NoDev, DeviceSound
<1>9. OwnersApart' /\ \A k \in Mounts : Reserved(k)' = Reserved(k)
  BY <1>a, <1>b, <1>c, <1>8, SameOwners DEF Inodes
<1>10. CountsKept'
  BY <1>a, <1>b, <1>c, <1>9 DEF CountsKept, NoDev
<1> QED BY <1>1, <1>2, <1>3, <1>4, <1>5, <1>6, <1>7, <1>9, <1>10

\* The inode of a failed creation goes, and gives nothing back a second time.
LEMMA IputFs ==
  ASSUME FsInv, NEW x \in Tasks, Iput(x)
  PROVE  FsInv'
<1> USE BinderfsAssumption DEF FsInv
<1>a. Leaves(x)
  BY AfterDeviceLeaves DEF Iput
<1>b. /\ job[x].pc = "iput" /\ job[x].dev \in Slots /\ dev[job[x].dev].inode /\ ~dev[job[x].dev].private
      /\ dev[job[x].dev].kind = "dev" /\ \A y \in Tasks : y # x => job[y].dev # job[x].dev
  <2>1. job[x].pc = "iput" /\ job[x].dev # None
    BY DEF Iput, JobsSound, JobSound
  <2>2. /\ job[x].dev \in Slots /\ dev[job[x].dev].inode /\ ~dev[job[x].dev].private
        /\ dev[job[x].dev].kind = "dev"
    BY <2>1 DEF InodesOwned
  <2> QED BY <2>1, <2>2 DEF JobsApart
<1>c. dev' = [dev EXCEPT ![job[x].dev] = NoDev] /\ UNCHANGED <<minors, leaked, sb, faults>>
  BY <1>b DEF Iput, EvictInode, Counted, Returned
<1>d. dev' \in [Slots -> DevType] /\ dev'[job[x].dev] = NoDev /\ \A k \in Slots : k # job[x].dev => dev'[k] = dev[k]
  BY <1>b, <1>c, StartTypes DEF TypeOK
<1>1. TypeOK'
  BY <1>a, <1>b, <1>c, <1>d DEF TypeOK, Leaves
<1>2. DevicesSound'
  BY <1>a, <1>b, <1>c, <1>d DEF DevicesSound, DeviceSound, NoDev
<1>3. OneControl'
  BY <1>a, <1>b, <1>c, <1>d DEF OneControl, NoDev
<1>4. DeviceRefs'
  BY <1>a, <1>b, <1>c, <1>d DEF DeviceRefs, NoDev
<1>5. JobsSound'
  BY <1>a, <1>b, <1>c, <1>d DEF JobsSound, JobSound, Leaves, Idle, Filling, NoDev
<1>6. InodesOwned'
  BY <1>a, <1>b, <1>c, <1>d DEF InodesOwned, Leaves
<1>7. JobsApart'
  BY <1>a, <1>b, <1>c, <1>d DEF JobsApart, Leaves, Idle, Filling
<1>8. Reserving' = Reserving /\ Inodes' = Inodes
  BY <1>a, <1>b, <1>c, <1>d DEF Reserving, Inodes, Leaves, NoDev
<1>9. OwnersApart' /\ \A k \in Mounts : Reserved(k)' = Reserved(k)
  BY <1>a, <1>b, <1>c, <1>d, <1>8, SameOwners DEF Reserving, Inodes, Leaves
<1>10. CountsKept'
  BY <1>a, <1>b, <1>c, <1>d, <1>9 DEF CountsKept, NoDev
<1> QED BY <1>1, <1>2, <1>3, <1>4, <1>5, <1>6, <1>7, <1>9, <1>10

\* A mount starts with nothing reserved, a task that fills it and no inode of its own.
LEMMA MountFs ==
  ASSUME FsInv, NEW x \in Tasks, NEW m \in Mounts, NEW o \in Options, Mount(x, m, o)
  PROVE  FsInv'
<1> USE BinderfsAssumption DEF FsInv
<1>a. /\ sb' \in [Mounts -> SuperType] /\ \A k \in Mounts : k # m => sb'[k] = sb[k]
      /\ sb[m].state = "none" /\ sb'[m].state = "filling" /\ sb'[m].count = 0
  <2>1. OptMax(o) \in Nat /\ ("stats" \in {o[i] : i \in DOMAIN o}) \in BOOLEAN
    BY DEF OptMax
  <2>2. [NoSb EXCEPT !.state = "filling", !.max = OptMax(o), !.stats = "stats" \in {o[i] : i \in DOMAIN o}] \in SuperType
    BY <2>1, StartTypes DEF SuperType
  <2> QED BY <2>2 DEF Mount, TypeOK, NoSb
<1>b. /\ job' \in [Tasks -> JobType] /\ \A y \in Tasks : y # x => job'[y] = job[y]
      /\ job[x].pc = "idle" /\ job'[x].pc = "ctl" /\ job'[x].mount = m /\ job'[x].dev = None /\ job'[x].filling
  <2>1. Defaults \in Seq(Words)
    BY DEF Words
  <2>2. [Idle EXCEPT !.pc = "ctl", !.mount = m, !.filling = TRUE, !.left = Defaults] \in JobType
    BY <2>1, StartTypes DEF JobType
  <2> QED BY <2>2 DEF Mount, Become, TypeOK, Idle
<1>c. UNCHANGED <<minors, leaked, dev, faults>>
  BY DEF Mount
<1>d. \A y \in Tasks : job[y].pc # "idle" => job[y].mount # m
  BY <1>a DEF JobsSound, JobSound
<1>e. \A d \in Slots : dev[d].inode \/ dev[d].kind = "ctl" => dev[d].mount # m
  BY <1>a DEF DevicesSound, DeviceSound
<1>1. TypeOK'
  BY <1>a, <1>b, <1>c, <1>d, <1>e DEF TypeOK
<1>2. DevicesSound'
  BY <1>a, <1>b, <1>c, <1>d, <1>e DEF DevicesSound, DeviceSound
<1>3. OneControl'
  BY <1>a, <1>b, <1>c, <1>d, <1>e DEF OneControl
<1>4. DeviceRefs'
  BY <1>a, <1>b, <1>c, <1>d, <1>e DEF DeviceRefs
<1>5. JobsSound'
  BY <1>a, <1>b, <1>c, <1>d, <1>e DEF JobsSound, JobSound, Filling, Idle
<1>6. InodesOwned'
  BY <1>a, <1>b, <1>c, <1>d, <1>e DEF InodesOwned
<1>7. JobsApart'
  BY <1>a, <1>b, <1>c, <1>d, <1>e DEF JobsApart, JobsSound, JobSound, Filling, Idle
<1>8. Reserving' = Reserving /\ Inodes' = Inodes
  BY <1>a, <1>b, <1>c, <1>d, <1>e DEF Reserving, Inodes
<1>9. OwnersApart' /\ \A k \in Mounts : Reserved(k)' = Reserved(k)
  BY <1>a, <1>b, <1>c, <1>d, <1>e, <1>8, SameOwners DEF Reserving, Inodes
<1>10. CountsKept'
  BY <1>a, <1>b, <1>c, <1>d, <1>e, <1>9 DEF CountsKept
<1> QED BY <1>1, <1>2, <1>3, <1>4, <1>5, <1>6, <1>7, <1>9, <1>10

\* The mount is up, and no other task was in it.
LEMMA LogsFs ==
  ASSUME FsInv, NEW x \in Tasks, Logs(x)
  PROVE  FsInv'
<1> USE BinderfsAssumption DEF FsInv
<1>a. /\ job[x].pc = "logs" /\ Filling(x) /\ job[x].mount \in Mounts /\ sb[job[x].mount].state = "filling"
  BY DEF Logs, JobsSound, JobSound, Filling
<1>b. \A y \in Tasks : y # x /\ job[y].pc # "idle" => job[y].mount # job[x].mount
  BY <1>a DEF JobsSound, JobSound, JobsApart, Filling
<1>c. /\ sb' \in [Mounts -> SuperType] /\ \A k \in Mounts : k # job[x].mount => sb'[k] = sb[k]
      /\ sb'[job[x].mount].state = "mounted" /\ sb'[job[x].mount].count = sb[job[x].mount].count
  BY <1>a DEF Logs, TypeOK, SuperType
<1>d. /\ job' \in [Tasks -> JobType] /\ \A y \in Tasks : y # x => job'[y] = job[y]
      /\ job'[x] = Idle
  BY StartTypes DEF Logs, Become, TypeOK
<1>e. UNCHANGED <<minors, leaked, dev, faults>>
  BY DEF Logs
<1>1. TypeOK'
  BY <1>a, <1>b, <1>c, <1>d, <1>e DEF TypeOK
<1>2. DevicesSound'
  BY <1>a, <1>b, <1>c, <1>d, <1>e DEF DevicesSound, DeviceSound
<1>3. OneControl'
  BY <1>a, <1>b, <1>c, <1>d, <1>e DEF OneControl
<1>4. DeviceRefs'
  BY <1>a, <1>b, <1>c, <1>d, <1>e DEF DeviceRefs
<1>5. JobsSound'
  BY <1>a, <1>b, <1>c, <1>d, <1>e DEF JobsSound, JobSound, Filling, Idle
<1>6. InodesOwned'
  BY <1>a, <1>b, <1>c, <1>d, <1>e DEF InodesOwned, Idle
<1>7. JobsApart'
  BY <1>a, <1>b, <1>c, <1>d, <1>e DEF JobsApart, Filling, Idle
<1>8. Reserving' = Reserving /\ Inodes' = Inodes
  BY <1>a, <1>b, <1>c, <1>d, <1>e DEF Reserving, Inodes, Idle
<1>9. OwnersApart' /\ \A k \in Mounts : Reserved(k)' = Reserved(k)
  BY <1>a, <1>b, <1>c, <1>d, <1>e, <1>8, SameOwners DEF Reserving, Inodes
<1>10. CountsKept'
  BY <1>a, <1>b, <1>c, <1>d, <1>e, <1>9 DEF CountsKept
<1> QED BY <1>1, <1>2, <1>3, <1>4, <1>5, <1>6, <1>7, <1>9, <1>10

\* A mount that failed comes down, and no other task was in it.
LEMMA KillFs ==
  ASSUME FsInv, NEW x \in Tasks, Kill(x)
  PROVE  FsInv'
<1> USE BinderfsAssumption DEF FsInv
<1>a. /\ job[x].pc = "kill" /\ Filling(x) /\ job[x].mount \in Mounts /\ sb[job[x].mount].state = "filling"
  BY DEF Kill, JobsSound, JobSound, Filling
<1>b. \A y \in Tasks : y # x /\ job[y].pc # "idle" => job[y].mount # job[x].mount
  BY <1>a DEF JobsSound, JobSound, JobsApart, Filling
<1>c. /\ sb' \in [Mounts -> SuperType] /\ \A k \in Mounts : k # job[x].mount => sb'[k] = sb[k]
      /\ sb'[job[x].mount].state = "dying" /\ sb'[job[x].mount].count = sb[job[x].mount].count
  BY <1>a DEF Kill, TypeOK, SuperType
<1>d. /\ job' \in [Tasks -> JobType] /\ \A y \in Tasks : y # x => job'[y] = job[y]
      /\ job'[x] = Idle
  BY StartTypes DEF Kill, Become, TypeOK
<1>e. UNCHANGED <<minors, leaked, dev, faults>>
  BY DEF Kill
<1>1. TypeOK'
  BY <1>a, <1>b, <1>c, <1>d, <1>e DEF TypeOK
<1>2. DevicesSound'
  BY <1>a, <1>b, <1>c, <1>d, <1>e DEF DevicesSound, DeviceSound
<1>3. OneControl'
  BY <1>a, <1>b, <1>c, <1>d, <1>e DEF OneControl
<1>4. DeviceRefs'
  BY <1>a, <1>b, <1>c, <1>d, <1>e DEF DeviceRefs
<1>5. JobsSound'
  BY <1>a, <1>b, <1>c, <1>d, <1>e DEF JobsSound, JobSound, Filling, Idle
<1>6. InodesOwned'
  BY <1>a, <1>b, <1>c, <1>d, <1>e DEF InodesOwned, Idle
<1>7. JobsApart'
  BY <1>a, <1>b, <1>c, <1>d, <1>e DEF JobsApart, Filling, Idle
<1>8. Reserving' = Reserving /\ Inodes' = Inodes
  BY <1>a, <1>b, <1>c, <1>d, <1>e DEF Reserving, Inodes, Idle
<1>9. OwnersApart' /\ \A k \in Mounts : Reserved(k)' = Reserved(k)
  BY <1>a, <1>b, <1>c, <1>d, <1>e, <1>8, SameOwners DEF Reserving, Inodes
<1>10. CountsKept'
  BY <1>a, <1>b, <1>c, <1>d, <1>e, <1>9 DEF CountsKept
<1> QED BY <1>1, <1>2, <1>3, <1>4, <1>5, <1>6, <1>7, <1>9, <1>10

\* A mount ends when no task is in it.
LEMMA UmountFs ==
  ASSUME FsInv, NEW m \in Mounts, Umount(m)
  PROVE  FsInv'
<1> USE BinderfsAssumption DEF FsInv
<1>a. /\ sb' \in [Mounts -> SuperType] /\ \A k \in Mounts : k # m => sb'[k] = sb[k]
      /\ sb[m].state = "mounted" /\ sb'[m].state = "dying" /\ sb'[m].count = sb[m].count
      /\ \A y \in Tasks : job[y].mount # m
  BY DEF Umount, TypeOK, SuperType
<1>b. UNCHANGED <<minors, leaked, dev, job, faults>>
  BY DEF Umount
<1>1. TypeOK'
  BY <1>a, <1>b DEF TypeOK
<1>2. DevicesSound'
  BY <1>a, <1>b DEF DevicesSound, DeviceSound
<1>3. OneControl'
  BY <1>a, <1>b DEF OneControl
<1>4. DeviceRefs'
  BY <1>a, <1>b DEF DeviceRefs
<1>5. JobsSound'
  BY <1>a, <1>b DEF JobsSound, JobSound, Filling
<1>6. InodesOwned'
  BY <1>a, <1>b DEF InodesOwned
<1>7. JobsApart'
  BY <1>a, <1>b DEF JobsApart, Filling
<1>8. Reserving' = Reserving /\ Inodes' = Inodes
  BY <1>a, <1>b DEF Reserving, Inodes
<1>9. OwnersApart' /\ \A k \in Mounts : Reserved(k)' = Reserved(k)
  BY <1>a, <1>b, <1>8, SameOwners
<1>10. CountsKept'
  BY <1>a, <1>b, <1>9 DEF CountsKept
<1> QED BY <1>1, <1>2, <1>3, <1>4, <1>5, <1>6, <1>7, <1>9, <1>10

\* Without inodes nothing of the mount is reserved.
LEMMA KillSuperFs ==
  ASSUME FsInv, NEW m \in Mounts, KillSuper(m)
  PROVE  FsInv'
<1> USE BinderfsAssumption DEF FsInv
<1>a. /\ sb' \in [Mounts -> SuperType] /\ \A k \in Mounts : k # m => sb'[k] = sb[k]
      /\ sb[m].state = "dying" /\ sb'[m].state = "none"
  BY StartTypes DEF KillSuper, TypeOK, NoSb
<1>b. \A d \in Slots : dev[d].inode => dev[d].mount # m
  BY DEF KillSuper
<1>c. UNCHANGED <<minors, leaked, dev, job, faults>>
  BY DEF KillSuper
<1>d. \A y \in Tasks : job[y].pc # "idle" => job[y].mount # m
  BY <1>a DEF JobsSound, JobSound
<1>1. TypeOK'
  BY <1>a, <1>b, <1>c, <1>d DEF TypeOK
<1>2. DevicesSound'
  BY <1>a, <1>b, <1>c, <1>d DEF DevicesSound, DeviceSound
<1>3. OneControl'
  BY <1>a, <1>b, <1>c, <1>d DEF OneControl
<1>4. DeviceRefs'
  BY <1>a, <1>b, <1>c, <1>d DEF DeviceRefs
<1>5. JobsSound'
  BY <1>a, <1>b, <1>c, <1>d DEF JobsSound, JobSound, Filling
<1>6. InodesOwned'
  BY <1>a, <1>b, <1>c, <1>d DEF InodesOwned
<1>7. JobsApart'
  BY <1>a, <1>b, <1>c, <1>d DEF JobsApart, Filling
<1>8. Reserving' = Reserving /\ Inodes' = Inodes
  BY <1>a, <1>b, <1>c, <1>d DEF Reserving, Inodes
<1>9. OwnersApart' /\ \A k \in Mounts : Reserved(k)' = Reserved(k)
  BY <1>a, <1>b, <1>c, <1>d, <1>8, SameOwners
<1>10. CountsKept'
  <2>1. Creating(m) = {} /\ DevicesOf(m) = {}
    BY <1>a, <1>b, <1>c, <1>d DEF Creating, DevicesOf, Inodes
  <2>2. Cardinality({}) = 0
    BY FS_EmptySet
  <2>3. Reserved(m) = 0
    BY <2>1, <2>2 DEF Reserved
  <2> QED BY <1>a, <1>b, <1>c, <1>d, <1>9, <2>3 DEF CountsKept
<1> QED BY <1>1, <1>2, <1>3, <1>4, <1>5, <1>6, <1>7, <1>9, <1>10

\* A reservation is the task's: a minor nobody had, and one more device of the mount.
LEMMA ReserveMinorFs ==
  ASSUME FsInv, NEW x \in Tasks, ReserveMinor(x)
  PROVE  FsInv'
<1> USE BinderfsAssumption DEF FsInv
<1>a. PICK m \in Mounts : /\ m = job[x].mount /\ sb[m].state \in {"filling", "mounted"}
                          /\ job[x].pc = "reserve" /\ job[x].dev = None /\ x \notin Reserving
  BY DEF ReserveMinor, JobsSound, JobSound, Reserving
<1>b. /\ minors' = minors \cup {job'[x].minor} /\ job'[x].minor \in Minors \ minors
      /\ job' \in [Tasks -> JobType] /\ \A y \in Tasks : y # x => job'[y] = job[y]
      /\ job'[x].pc = "build" /\ job'[x].mount = m /\ job'[x].dev = None
      /\ job'[x].filling = job[x].filling
  <2> DEFINE n == Lowest(Available(job[x].mount))
  <2>1. n \in Minors \ minors
    BY <1>a, FreeMinor DEF ReserveMinor, MayReserve
  <2>2. minors' = minors \cup {n} /\ job' = [job EXCEPT ![x] = [job[x] EXCEPT !.pc = "build", !.minor = n]]
    BY DEF ReserveMinor, Become
  <2> HIDE DEF n
  <2>3. [job[x] EXCEPT !.pc = "build", !.minor = n] \in JobType
    BY <2>1 DEF TypeOK, JobType
  <2> QED BY <1>a, <2>1, <2>2, <2>3 DEF TypeOK, JobType
<1>c. /\ sb' \in [Mounts -> SuperType] /\ \A k \in Mounts : sb'[k].state = sb[k].state
      /\ sb'[m].count = sb[m].count + 1 /\ \A k \in Mounts : k # m => sb'[k] = sb[k]
  <2>1. sb' = [sb EXCEPT ![m] = [sb[m] EXCEPT !.count = @ + 1]]
    BY <1>a DEF ReserveMinor, TypeOK, SuperType
  <2>2. sb[m] \in SuperType /\ sb[m].count + 1 \in Int
    BY DEF TypeOK, SuperType
  <2>3. [sb[m] EXCEPT !.count = @ + 1] \in SuperType
    BY <2>2 DEF SuperType
  <2> QED BY <2>1, <2>2, <2>3 DEF TypeOK, SuperType
<1>d. UNCHANGED <<leaked, dev, faults>>
  BY DEF ReserveMinor
<1>e. Reserving' = Reserving \cup {x} /\ Inodes' = Inodes
  BY <1>a, <1>b, <1>d DEF Reserving, Inodes
<1>1. TypeOK'
  BY <1>a, <1>b, <1>c, <1>d, <1>e DEF TypeOK
<1>2. DevicesSound'
  BY <1>a, <1>b, <1>c, <1>d, <1>e DEF DevicesSound, DeviceSound
<1>3. OneControl'
  BY <1>a, <1>b, <1>c, <1>d, <1>e DEF OneControl
<1>4. DeviceRefs'
  BY <1>a, <1>b, <1>c, <1>d, <1>e DEF DeviceRefs
<1>5. JobsSound'
  BY <1>a, <1>b, <1>c, <1>d, <1>e DEF JobsSound, JobSound, Filling
<1>6. InodesOwned'
  BY <1>a, <1>b, <1>c, <1>d, <1>e DEF InodesOwned
<1>7. JobsApart'
  BY <1>a, <1>b, <1>c, <1>d, <1>e DEF JobsApart, Filling
<1>9. OwnersApart'
  BY <1>a, <1>b, <1>c, <1>d, <1>e DEF OwnersApart, Reserving, TypeOK
<1>10. CountsKept'
  <2>1. \A k \in Mounts : k # m => Creating(k)' = Creating(k) /\ DevicesOf(k)' = DevicesOf(k)
    BY <1>a, <1>b, <1>c, <1>d, <1>e DEF Creating, DevicesOf, Inodes
  <2>2. /\ Creating(m)' = Creating(m) \cup {x} /\ x \notin Creating(m)
        /\ DevicesOf(m)' = DevicesOf(m)
    BY <1>a, <1>b, <1>c, <1>d, <1>e DEF Creating, DevicesOf, Inodes
  <2>3. \A k \in Mounts : k # m => Reserved(k)' = Reserved(k)
    BY <2>1 DEF Reserved
  <2>4. Reserved(m)' = Reserved(m) + 1
    <3>1. /\ IsFiniteSet(Creating(m)) /\ IsFiniteSet(DevicesOf(m))
          /\ Cardinality(Creating(m)) \in Nat /\ Cardinality(DevicesOf(m)) \in Nat
      BY CountedFinite
    <3>2. Cardinality(Creating(m) \cup {x}) = Cardinality(Creating(m)) + 1
      BY <2>2, <3>1, FS_AddElement
    <3> QED BY <2>2, <3>1, <3>2 DEF Reserved
  <2> QED BY <1>a, <1>b, <1>c, <1>d, <1>e, <2>3, <2>4 DEF CountsKept
<1> QED BY <1>1, <1>2, <1>3, <1>4, <1>5, <1>6, <1>7, <1>9, <1>10

\* Minor and count pass from the task to the inode, which is in reach from now on.
LEMMA LinkFs ==
  ASSUME FsInv, NEW x \in Tasks, Link(x)
  PROVE  FsInv'
<1> USE BinderfsAssumption DEF FsInv
<1>a. PICK m \in Mounts : m = job[x].mount /\ job[x].pc = "link" /\ x \in Reserving
  BY DEF Link, Reserving, JobsSound, JobSound
<1>b. PICK d \in Slots : /\ d = job[x].dev /\ dev[d].inode /\ ~dev[d].private /\ dev[d].kind = "dev"
                         /\ dev[d].mount = m /\ dev[d].minor = job[x].minor
                         /\ \A y \in Tasks : y # x => job[y].dev # d
  <2>1. job[x].dev # None
    BY <1>a DEF JobsSound, JobSound
  <2>2. PICK d \in Slots : /\ d = job[x].dev /\ dev[d].inode /\ ~dev[d].private /\ dev[d].kind = "dev"
                         /\ dev[d].mount = m /\ dev[d].minor = job[x].minor
    BY <1>a, <2>1 DEF InodesOwned
  <2>3. \A y \in Tasks : y # x => job[y].dev # d
    BY <2>1, <2>2 DEF JobsApart
  <2> QED BY <2>2, <2>3
<1>c. Leaves(x)
  BY AfterDeviceLeaves DEF Link
<1>d. /\ dev' \in [Slots -> DevType] /\ \A k \in Slots : k # d => dev'[k] = dev[k]
      /\ dev'[d].kind = dev[d].kind /\ dev'[d].mount = dev[d].mount /\ dev'[d].minor = dev[d].minor
      /\ dev'[d].inode /\ dev'[d].private /\ dev'[d].linked
      /\ dev'[d].ref = 1 /\ dev'[d].open = 0 /\ dev'[d].late = 0
  <2> DEFINE e == [dev[d] EXCEPT !.private = TRUE, !.linked = TRUE, !.ref = 1]
  <2>1. dev' = [dev EXCEPT ![d] = e]
    BY <1>b DEF Link, TypeOK, DevType
  <2>2. dev[d] \in DevType /\ dev[d].open = 0 /\ dev[d].late = 0
    BY <1>b DEF TypeOK, DevicesSound, DeviceSound
  <2>3. /\ e \in DevType /\ e.kind = dev[d].kind /\ e.mount = dev[d].mount /\ e.minor = dev[d].minor
        /\ e.inode = dev[d].inode /\ e.private /\ e.linked /\ e.ref = 1 /\ e.open = 0 /\ e.late = 0
    BY <2>2 DEF DevType
  <2> HIDE DEF e
  <2> QED BY <1>b, <2>1, <2>3 DEF TypeOK
<1>e. UNCHANGED <<minors, leaked, sb, faults>>
  BY DEF Link
<1>f. Reserving' = Reserving \ {x} /\ Inodes' = Inodes \cup {d} /\ d \notin Inodes
  BY <1>a, <1>b, <1>c, <1>d DEF Reserving, Inodes, Leaves
<1>1. TypeOK'
  BY <1>a, <1>b, <1>c, <1>d, <1>e, <1>f DEF TypeOK, Leaves
<1>2. DevicesSound'
  <2>1. \A k \in Slots : k # d => DeviceSound(k)'
    BY <1>a, <1>b, <1>c, <1>d, <1>e, <1>f DEF DevicesSound, DeviceSound
  <2>2. DeviceSound(d)'
    BY <1>a, <1>b, <1>c, <1>d, <1>e, <1>f DEF DevicesSound, DeviceSound, DeviceRefs
  <2> QED BY <2>1, <2>2 DEF DevicesSound
<1>3. OneControl'
  BY <1>a, <1>b, <1>c, <1>d, <1>e, <1>f DEF OneControl
<1>4. DeviceRefs'
  BY <1>a, <1>b, <1>c, <1>d, <1>e, <1>f DEF DeviceRefs
<1>5. JobsSound'
  BY <1>a, <1>b, <1>c, <1>d, <1>e, <1>f DEF JobsSound, JobSound, Leaves, Idle, Filling
<1>6. InodesOwned'
  BY <1>a, <1>b, <1>c, <1>d, <1>e, <1>f DEF InodesOwned, Leaves
<1>7. JobsApart'
  BY <1>a, <1>b, <1>c, <1>d, <1>e, <1>f DEF JobsApart, Leaves, Idle, Filling
<1>9. OwnersApart'
  BY <1>a, <1>b, <1>c, <1>d, <1>e, <1>f DEF OwnersApart, Reserving, Inodes, Leaves
<1>10. CountsKept'
  <2>1. \A k \in Mounts : k # m => Creating(k)' = Creating(k) /\ DevicesOf(k)' = DevicesOf(k)
    BY <1>a, <1>b, <1>c, <1>d, <1>e, <1>f DEF Creating, DevicesOf, Inodes, Leaves
  <2>2. /\ Creating(m)' = Creating(m) \ {x} /\ x \in Creating(m)
        /\ DevicesOf(m)' = DevicesOf(m) \cup {d} /\ d \notin DevicesOf(m)
    BY <1>a, <1>b, <1>c, <1>d, <1>e, <1>f DEF Creating, DevicesOf, Inodes, Leaves
  <2>3. \A k \in Mounts : k # m => Reserved(k)' = Reserved(k)
    BY <2>1 DEF Reserved
  <2>4. Reserved(m)' = Reserved(m)
    <3>1. /\ IsFiniteSet(Creating(m)) /\ IsFiniteSet(DevicesOf(m))
          /\ Cardinality(Creating(m)) \in Nat /\ Cardinality(DevicesOf(m)) \in Nat
      BY CountedFinite
    <3>2. Cardinality(Creating(m) \ {x}) = Cardinality(Creating(m)) - 1
      BY <2>2, <3>1, FS_RemoveElement
    <3>3. Cardinality(DevicesOf(m) \cup {d}) = Cardinality(DevicesOf(m)) + 1
      BY <2>2, <3>1, FS_AddElement
    <3> QED BY <2>2, <3>1, <3>2, <3>3 DEF Reserved
  <2> QED BY <1>a, <1>b, <1>c, <1>d, <1>e, <1>f, <2>3, <2>4 DEF CountsKept
<1> QED BY <1>1, <1>2, <1>3, <1>4, <1>5, <1>6, <1>7, <1>9, <1>10

\* The control device keeps its minor.
LEMMA CtlLinkFs ==
  ASSUME FsInv, NEW x \in Tasks, CtlLink(x)
  PROVE  FsInv'
<1> USE BinderfsAssumption DEF FsInv
<1>a. job[x].pc = "ctllink" /\ x \notin Reserving
  BY DEF CtlLink, Reserving
<1>b. PICK d \in Slots : /\ d = job[x].dev /\ dev[d].inode /\ ~dev[d].private /\ dev[d].kind = "ctl"
                         /\ dev[d].mount = job[x].mount
                         /\ \A y \in Tasks : y # x => job[y].dev # d
  <2>1. job[x].dev # None
    BY <1>a DEF JobsSound, JobSound
  <2>2. PICK d \in Slots : /\ d = job[x].dev /\ dev[d].inode /\ ~dev[d].private /\ dev[d].kind = "ctl"
                         /\ dev[d].mount = job[x].mount
    BY <1>a, <2>1 DEF InodesOwned
  <2>3. \A y \in Tasks : y # x => job[y].dev # d
    BY <2>1, <2>2 DEF JobsApart
  <2> QED BY <2>2, <2>3
<1>c. Leaves(x)
  BY AfterDeviceLeaves DEF CtlLink
<1>d. /\ dev' \in [Slots -> DevType] /\ \A k \in Slots : k # d => dev'[k] = dev[k]
      /\ dev'[d].kind = dev[d].kind /\ dev'[d].mount = dev[d].mount /\ dev'[d].minor = dev[d].minor
      /\ dev'[d].inode /\ dev'[d].private /\ dev'[d].linked
      /\ dev'[d].ref = 1 /\ dev'[d].open = 0 /\ dev'[d].late = 0
  <2> DEFINE e == [dev[d] EXCEPT !.private = TRUE, !.linked = TRUE, !.ref = 1]
  <2>1. dev' = [dev EXCEPT ![d] = e]
    BY <1>b DEF CtlLink, TypeOK, DevType
  <2>2. dev[d] \in DevType /\ dev[d].open = 0 /\ dev[d].late = 0
    BY <1>b DEF TypeOK, DevicesSound, DeviceSound
  <2>3. /\ e \in DevType /\ e.kind = dev[d].kind /\ e.mount = dev[d].mount /\ e.minor = dev[d].minor
        /\ e.inode = dev[d].inode /\ e.private /\ e.linked /\ e.ref = 1 /\ e.open = 0 /\ e.late = 0
    BY <2>2 DEF DevType
  <2> HIDE DEF e
  <2> QED BY <1>b, <2>1, <2>3 DEF TypeOK
<1>e. UNCHANGED <<minors, leaked, sb, faults>>
  BY DEF CtlLink
<1>1. TypeOK'
  BY <1>a, <1>b, <1>c, <1>d, <1>e DEF TypeOK, Leaves
<1>2. DevicesSound'
  <2>1. \A k \in Slots : k # d => DeviceSound(k)'
    BY <1>a, <1>b, <1>c, <1>d, <1>e DEF DevicesSound, DeviceSound
  <2>2. DeviceSound(d)'
    BY <1>a, <1>b, <1>c, <1>d, <1>e DEF DevicesSound, DeviceSound, DeviceRefs
  <2> QED BY <2>1, <2>2 DEF DevicesSound
<1>3. OneControl'
  BY <1>a, <1>b, <1>c, <1>d, <1>e DEF OneControl
<1>4. DeviceRefs'
  BY <1>a, <1>b, <1>c, <1>d, <1>e DEF DeviceRefs
<1>5. JobsSound'
  BY <1>a, <1>b, <1>c, <1>d, <1>e DEF JobsSound, JobSound, Leaves, Idle, Filling
<1>6. InodesOwned'
  BY <1>a, <1>b, <1>c, <1>d, <1>e DEF InodesOwned, Leaves
<1>7. JobsApart'
  BY <1>a, <1>b, <1>c, <1>d, <1>e DEF JobsApart, Leaves, Idle, Filling
<1>8. Reserving' = Reserving /\ Inodes' = Inodes
  BY <1>a, <1>b, <1>c, <1>d, <1>e DEF Reserving, Inodes, Leaves
<1>9. OwnersApart' /\ \A k \in Mounts : Reserved(k)' = Reserved(k)
  BY <1>a, <1>b, <1>c, <1>d, <1>e, <1>8, SameOwners DEF Reserving, Inodes, Leaves
<1>10. CountsKept'
  BY <1>a, <1>b, <1>c, <1>d, <1>e, <1>9 DEF CountsKept
<1> QED BY <1>1, <1>2, <1>3, <1>4, <1>5, <1>6, <1>7, <1>9, <1>10

\* The error exit gives minor and count back, and keeps the inode for the next step.
LEMMA ErrFs ==
  ASSUME FsInv, NEW x \in Tasks, Err(x)
  PROVE  FsInv'
<1> USE BinderfsAssumption DEF FsInv
<1>a. PICK m \in Mounts : m = job[x].mount /\ job[x].pc = "err" /\ x \in Reserving
  BY DEF Err, Reserving, JobsSound, JobSound
<1>b. /\ job' \in [Tasks -> JobType] /\ \A y \in Tasks : y # x => job'[y] = job[y]
      /\ job'[x].pc \notin {"build", "link", "err"}
      /\ Leaves(x) \/ /\ job'[x].pc = "iput" /\ job'[x].mount = m /\ job'[x].dev = job[x].dev
                      /\ job'[x].filling = job[x].filling /\ job[x].dev # None
  <2>1. CASE job[x].dev = None
    <3>1. Leaves(x)
      BY <2>1, AfterDeviceLeaves DEF Err
    <3> QED BY <3>1 DEF Leaves
  <2>2. CASE job[x].dev # None
    <3>1. [job[x] EXCEPT !.pc = "iput", !.minor = None] \in JobType
      BY DEF TypeOK, JobType
    <3>2. job' = [job EXCEPT ![x] = [job[x] EXCEPT !.pc = "iput", !.minor = None]]
      BY <2>2 DEF Err, Become
    <3> QED BY <1>a, <2>2, <3>1, <3>2 DEF TypeOK, JobType
  <2> QED BY <2>1, <2>2
<1>c. /\ sb' \in [Mounts -> SuperType] /\ \A k \in Mounts : sb'[k].state = sb[k].state
      /\ sb'[m].count = sb[m].count - 1 /\ \A k \in Mounts : k # m => sb'[k] = sb[k]
  <2>1. sb' = [sb EXCEPT ![m] = [sb[m] EXCEPT !.count = @ - 1]]
    BY <1>a DEF Err, TypeOK, SuperType
  <2>2. sb[m] \in SuperType /\ sb[m].count - 1 \in Int
    BY DEF TypeOK, SuperType
  <2>3. [sb[m] EXCEPT !.count = @ - 1] \in SuperType
    BY <2>2 DEF SuperType
  <2> QED BY <2>1, <2>2, <2>3 DEF TypeOK, SuperType
<1>d. minors' = minors \ {job[x].minor} /\ UNCHANGED <<leaked, dev, faults>>
  BY DEF Err
<1>e. Reserving' = Reserving \ {x} /\ Inodes' = Inodes
  BY <1>a, <1>b, <1>d DEF Reserving, Inodes
<1>1. TypeOK'
  BY <1>a, <1>b, <1>c, <1>d, <1>e DEF TypeOK, OwnersApart, Reserving
<1>2. DevicesSound'
  BY <1>a, <1>b, <1>c, <1>d, <1>e DEF DevicesSound, DeviceSound
<1>3. OneControl'
  BY <1>a, <1>b, <1>c, <1>d, <1>e DEF OneControl
<1>4. DeviceRefs'
  BY <1>a, <1>b, <1>c, <1>d, <1>e DEF DeviceRefs
<1>5. JobsSound'
  BY <1>a, <1>b, <1>c, <1>d, <1>e DEF JobsSound, JobSound, Filling, Leaves, Idle
<1>6. InodesOwned'
  BY <1>a, <1>b, <1>c, <1>d, <1>e DEF InodesOwned, Leaves
<1>7. JobsApart'
  BY <1>a, <1>b, <1>c, <1>d, <1>e DEF JobsApart, Filling, Leaves, Idle
<1>9. OwnersApart'
  BY <1>a, <1>b, <1>c, <1>d, <1>e DEF OwnersApart, Reserving
<1>10. CountsKept'
  <2>1. \A k \in Mounts : k # m => Creating(k)' = Creating(k) /\ DevicesOf(k)' = DevicesOf(k)
    BY <1>a, <1>b, <1>c, <1>d, <1>e DEF Creating, DevicesOf, Inodes
  <2>2. /\ Creating(m)' = Creating(m) \ {x} /\ x \in Creating(m)
        /\ DevicesOf(m)' = DevicesOf(m)
    BY <1>a, <1>b, <1>c, <1>d, <1>e DEF Creating, DevicesOf, Inodes
  <2>3. \A k \in Mounts : k # m => Reserved(k)' = Reserved(k)
    BY <2>1 DEF Reserved
  <2>4. Reserved(m)' = Reserved(m) - 1
    <3>1. /\ IsFiniteSet(Creating(m)) /\ IsFiniteSet(DevicesOf(m))
          /\ Cardinality(Creating(m)) \in Nat /\ Cardinality(DevicesOf(m)) \in Nat
      BY CountedFinite
    <3>2. Cardinality(Creating(m) \ {x}) = Cardinality(Creating(m)) - 1
      BY <2>2, <3>1, FS_RemoveElement
    <3> QED BY <2>2, <3>1, <3>2 DEF Reserved
  <2>5. sb[m].state \in {"filling", "mounted"}
    BY <1>a DEF JobsSound, JobSound
  <2> QED BY <1>a, <1>b, <1>c, <1>d, <1>e, <2>3, <2>4, <2>5 DEF CountsKept
<1> QED BY <1>1, <1>2, <1>3, <1>4, <1>5, <1>6, <1>7, <1>9, <1>10

\* The control device gets a minor of its own.
LEMMA CtlCreateFs ==
  ASSUME FsInv, NEW x \in Tasks, NEW d \in Slots, CtlCreate(x, d)
  PROVE  FsInv'
<1> USE BinderfsAssumption DEF FsInv
<1>a. PICK m \in Mounts : /\ m = job[x].mount /\ job[x].pc = "ctl" /\ job[x].dev = None /\ job[x].filling
                          /\ x \notin Reserving /\ sb[m].state # "none"
                          /\ \A k \in Slots : dev[k].kind = "ctl" => dev[k].mount # m
  BY DEF CtlCreate, Reserving, JobsSound, JobSound, Filling
<1>b. /\ dev[d].kind = "none" /\ d \notin Inodes /\ \A y \in Tasks : job[y].dev # d
  BY DEF CtlCreate, Free, DevicesSound, DeviceSound, Inodes
<1>c. /\ minors' = minors \cup {dev'[d].minor} /\ dev'[d].minor \in Minors \ minors
      /\ dev' \in [Slots -> DevType] /\ \A k \in Slots : k # d => dev'[k] = dev[k]
      /\ dev'[d].kind = "ctl" /\ dev'[d].mount = m /\ dev'[d].inode /\ ~dev'[d].private
      /\ ~dev'[d].linked /\ dev'[d].open = 0 /\ dev'[d].late = 0 /\ dev'[d].ref = 0
  <2> DEFINE n == Lowest(Available(m))
             e == [NoDev EXCEPT !.kind = "ctl", !.mount = m, !.minor = n,
                                !.name = "binder-control", !.inode = TRUE]
  <2>1. n \in Minors \ minors
    BY <1>a, FreeMinor DEF CtlCreate
  <2>2. minors' = minors \cup {n} /\ dev' = [dev EXCEPT ![d] = e]
    BY <1>a DEF CtlCreate
  <2> HIDE DEF n
  <2>3. e \in DevType
    BY <2>1, StartTypes DEF DevType, Words
  <2>4. /\ e.kind = "ctl" /\ e.mount = m /\ e.minor = n /\ e.inode /\ ~e.private
        /\ ~e.linked /\ e.open = 0 /\ e.late = 0 /\ e.ref = 0
    BY DEF NoDev
  <2> HIDE DEF e
  <2> QED BY <2>1, <2>2, <2>3, <2>4 DEF TypeOK
<1>d. /\ job' \in [Tasks -> JobType] /\ \A y \in Tasks : y # x => job'[y] = job[y]
      /\ job'[x].pc = "ctllink" /\ job'[x].mount = m /\ job'[x].dev = d
      /\ job'[x].filling
  <2>1. [job[x] EXCEPT !.pc = "ctllink", !.dev = d] \in JobType
    BY DEF TypeOK, JobType
  <2> QED BY <1>a, <2>1 DEF CtlCreate, Become, TypeOK, JobType
<1>e. UNCHANGED <<leaked, sb, faults>>
  BY DEF CtlCreate
<1>f. Reserving' = Reserving /\ Inodes' = Inodes \cup {d}
  BY <1>a, <1>b, <1>c, <1>d DEF Reserving, Inodes
<1>1. TypeOK'
  BY <1>a, <1>b, <1>c, <1>d, <1>e, <1>f DEF TypeOK
<1>2. DevicesSound'
  <2>1. \A k \in Slots : k # d => DeviceSound(k)'
    BY <1>a, <1>b, <1>c, <1>d, <1>e, <1>f DEF DevicesSound, DeviceSound
  <2>2. DeviceSound(d)'
    BY <1>a, <1>b, <1>c, <1>d, <1>e, <1>f DEF DevicesSound, DeviceSound, DeviceRefs
  <2> QED BY <2>1, <2>2 DEF DevicesSound
<1>3. OneControl'
  BY <1>a, <1>b, <1>c, <1>d, <1>e, <1>f DEF OneControl
<1>4. DeviceRefs'
  BY <1>a, <1>b, <1>c, <1>d, <1>e, <1>f DEF DeviceRefs
<1>5. JobsSound'
  BY <1>a, <1>b, <1>c, <1>d, <1>e, <1>f DEF JobsSound, JobSound, JobsApart, Filling
<1>6. InodesOwned'
  BY <1>a, <1>b, <1>c, <1>d, <1>e, <1>f DEF InodesOwned
<1>7. JobsApart'
  BY <1>a, <1>b, <1>c, <1>d, <1>e, <1>f DEF JobsApart, Filling
<1>9. OwnersApart'
  BY <1>a, <1>b, <1>c, <1>d, <1>e, <1>f DEF OwnersApart, Reserving, Inodes, TypeOK
<1>10. CountsKept'
  <2>1. \A k \in Mounts : Creating(k)' = Creating(k) /\ DevicesOf(k)' = DevicesOf(k)
    BY <1>a, <1>b, <1>c, <1>d, <1>e, <1>f DEF Creating, DevicesOf, Inodes
  <2>2. \A k \in Mounts : Reserved(k)' = Reserved(k)
    BY <2>1 DEF Reserved
  <2>3. sb[m].state = "filling"
    BY <1>a DEF JobsSound, JobSound, Filling
  <2> QED BY <1>a, <1>b, <1>c, <1>d, <1>e, <1>f, <2>2, <2>3 DEF CountsKept
<1> QED BY <1>1, <1>2, <1>3, <1>4, <1>5, <1>6, <1>7, <1>9, <1>10

\* A control device that fails keeps its minor from everyone for ever.
LEMMA CtlLinkFailsFs ==
  ASSUME FsInv, NEW x \in Tasks, CtlLinkFails(x)
  PROVE  FsInv'
<1> USE BinderfsAssumption DEF FsInv
<1>a. job[x].pc = "ctllink" /\ x \notin Reserving
  BY DEF CtlLinkFails, Reserving
<1>b. PICK d \in Slots : /\ d = job[x].dev /\ dev[d].inode /\ ~dev[d].private /\ dev[d].kind = "ctl"
                         /\ dev[d].mount = job[x].mount
                         /\ \A y \in Tasks : y # x => job[y].dev # d
  <2>1. job[x].dev # None
    BY <1>a DEF JobsSound, JobSound
  <2>2. PICK d \in Slots : /\ d = job[x].dev /\ dev[d].inode /\ ~dev[d].private /\ dev[d].kind = "ctl"
                         /\ dev[d].mount = job[x].mount
    BY <1>a, <2>1 DEF InodesOwned
  <2>3. \A y \in Tasks : y # x => job[y].dev # d
    BY <2>1, <2>2 DEF JobsApart
  <2> QED BY <2>2, <2>3
<1>c. Leaves(x)
  BY AfterDeviceLeaves DEF CtlLinkFails
<1>d. /\ dev' \in [Slots -> DevType] /\ dev'[d] = NoDev /\ \A k \in Slots : k # d => dev'[k] = dev[k]
      /\ leaked' = leaked \cup {dev[d].minor} /\ faults' \in 0 .. MaxFaults /\ UNCHANGED <<minors, sb>>
  BY <1>b, StartTypes DEF CtlLinkFails, Fault, TypeOK
<1>e. Reserving' = Reserving /\ Inodes' = Inodes \ {d} /\ d \in Inodes
  BY <1>a, <1>b, <1>c, <1>d DEF Reserving, Inodes, Leaves, NoDev
<1>1. TypeOK'
  BY <1>a, <1>b, <1>c, <1>d, <1>e DEF TypeOK, Leaves, OwnersApart
<1>2. DevicesSound'
  <2>1. \A k \in Slots : k # d => DeviceSound(k)'
    BY <1>a, <1>b, <1>c, <1>d, <1>e DEF DevicesSound, DeviceSound
  <2>2. DeviceSound(d)'
    BY <1>a, <1>b, <1>c, <1>d, <1>e DEF DevicesSound, DeviceSound, DeviceRefs, NoDev
  <2> QED BY <2>1, <2>2 DEF DevicesSound
<1>3. OneControl'
  BY <1>a, <1>b, <1>c, <1>d, <1>e DEF OneControl, NoDev
<1>4. DeviceRefs'
  BY <1>a, <1>b, <1>c, <1>d, <1>e DEF DeviceRefs, NoDev
<1>5. JobsSound'
  BY <1>a, <1>b, <1>c, <1>d, <1>e DEF JobsSound, JobSound, Leaves, Idle, Filling, NoDev
<1>6. InodesOwned'
  BY <1>a, <1>b, <1>c, <1>d, <1>e DEF InodesOwned, Leaves
<1>7. JobsApart'
  BY <1>a, <1>b, <1>c, <1>d, <1>e DEF JobsApart, Leaves, Idle, Filling
<1>9. OwnersApart'
  BY <1>a, <1>b, <1>c, <1>d, <1>e DEF OwnersApart, Reserving, Inodes, Leaves
<1>10. CountsKept'
  <2>1. \A k \in Mounts : Creating(k)' = Creating(k) /\ DevicesOf(k)' = DevicesOf(k)
    BY <1>a, <1>b, <1>c, <1>d, <1>e DEF Creating, DevicesOf, Inodes, Leaves, NoDev
  <2>2. \A k \in Mounts : Reserved(k)' = Reserved(k)
    BY <2>1 DEF Reserved
  <2> QED BY <1>a, <1>b, <1>c, <1>d, <1>e, <2>2 DEF CountsKept, NoDev
<1> QED BY <1>1, <1>2, <1>3, <1>4, <1>5, <1>6, <1>7, <1>9, <1>10

\* An eviction gives minor and count back; that of the control device is the last of its mount.
LEMMA EvictFs ==
  ASSUME FsInv, NEW d \in Slots, Evict(d)
  PROVE  FsInv'
<1> USE BinderfsAssumption DEF FsInv
<1>a. PICK m \in Mounts : /\ m = dev[d].mount /\ dev[d].inode /\ dev[d].private /\ dev[d].open = 0
                          /\ dev[d].kind \in {"dev", "ctl"} /\ d \in Inodes
                          /\ sb[m].state # "none" /\ (dev[d].kind = "ctl" => sb[m].state = "dying")
                          /\ dev[d].ref = dev[d].late + 1 /\ dev[d].late \in Nat
                          /\ dev[d].kind = "ctl" => dev[d].late = 0
  <2>1. dev[d].inode /\ dev[d].private /\ dev[d].open = 0 /\ (dev[d].linked => sb[dev[d].mount].state = "dying")
    BY DEF Evict
  <2>2. DeviceSound(d) /\ dev[d].kind \in {"none", "dev", "ctl"}
    BY DEF DevicesSound, TypeOK, DevType
  <2>3. dev[d].ref = dev[d].open + dev[d].late + 1
    BY <2>1 DEF DeviceRefs
  <2> QED BY <2>1, <2>2, <2>3 DEF DeviceSound, Inodes
<1>b. /\ dev' \in [Slots -> DevType] /\ \A k \in Slots : k # d => dev'[k] = dev[k]
      /\ \/ dev'[d] = NoDev
         \/ /\ dev[d].late > 0 /\ dev'[d].kind = dev[d].kind /\ dev'[d].mount = dev[d].mount
            /\ dev'[d].minor = dev[d].minor /\ ~dev'[d].inode /\ ~dev'[d].private /\ ~dev'[d].linked
            /\ dev'[d].open = 0 /\ dev'[d].late = dev[d].late /\ dev'[d].ref = dev[d].late
  <2> DEFINE e == [dev[d] EXCEPT !.inode = FALSE, !.private = FALSE, !.linked = FALSE]
             f == [e EXCEPT !.ref = @ - 1]
  <2>1. dev[d] \in DevType /\ dev[d].ref - 1 \in Nat
    BY <1>a DEF TypeOK
  <2>2. e \in DevType /\ e.ref = dev[d].ref /\ ~e.inode
    BY <2>1 DEF DevType
  <2>3. f \in DevType
    BY <2>1, <2>2 DEF DevType
  <2>4. /\ f.kind = dev[d].kind /\ f.mount = dev[d].mount /\ f.minor = dev[d].minor
        /\ ~f.inode /\ ~f.private /\ ~f.linked /\ f.open = dev[d].open
        /\ f.late = dev[d].late /\ f.ref = dev[d].ref - 1
    BY <2>1 DEF DevType
  <2>5. \/ dev' = [dev EXCEPT ![d] = NoDev]
        \/ dev' = [dev EXCEPT ![d] = f] /\ e.ref # 1
    BY <1>a, <2>2 DEF Evict, EvictInode, Counted, DropRef
  <2> HIDE DEF e, f
  <2>6. CASE dev' = [dev EXCEPT ![d] = NoDev]
    BY <2>6, StartTypes DEF TypeOK
  <2>7. CASE dev' = [dev EXCEPT ![d] = f] /\ e.ref # 1
    <3>1. dev[d].ref = dev[d].late + 1 /\ dev[d].late \in Nat /\ dev[d].ref # 1
      BY <1>a, <2>2, <2>7
    <3>2. dev[d].late > 0 /\ f.ref = dev[d].late /\ f.open = 0
      BY <1>a, <3>1, <2>4
    <3>3. dev'[d] = f /\ dev' \in [Slots -> DevType] /\ \A k \in Slots : k # d => dev'[k] = dev[k]
      BY <2>3, <2>7 DEF TypeOK
    <3> QED BY <2>4, <3>2, <3>3
  <2> QED BY <2>5, <2>6, <2>7
<1>c. /\ sb' \in [Mounts -> SuperType] /\ \A k \in Mounts : sb'[k].state = sb[k].state
      /\ sb'[m].count = sb[m].count - 1 /\ \A k \in Mounts : k # m => sb'[k] = sb[k]
  <2>1. sb' = [sb EXCEPT ![m] = [sb[m] EXCEPT !.count = @ - 1]]
    BY <1>a DEF Evict, EvictInode, Counted, TypeOK, SuperType
  <2>2. sb[m] \in SuperType /\ sb[m].count - 1 \in Int
    BY DEF TypeOK, SuperType
  <2>3. [sb[m] EXCEPT !.count = @ - 1] \in SuperType
    BY <2>2 DEF SuperType
  <2> QED BY <2>1, <2>2, <2>3 DEF TypeOK, SuperType
<1>d. minors' = minors \ {dev[d].minor} /\ UNCHANGED <<leaked, job, faults>>
  BY <1>a DEF Evict, EvictInode, Counted, Returned
<1>e. Reserving' = Reserving /\ Inodes' = Inodes \ {d}
  BY <1>a, <1>b, <1>d DEF Reserving, Inodes, NoDev
<1>1. TypeOK'
  BY <1>a, <1>b, <1>c, <1>d, <1>e DEF TypeOK, OwnersApart
<1>2. DevicesSound'
  <2>1. \A k \in Slots : k # d => DeviceSound(k)'
    BY <1>a, <1>b, <1>c, <1>d, <1>e DEF DevicesSound, DeviceSound
  <2>2. CASE dev'[d] = NoDev
    <3>1. DeviceSound(d)'
      BY <2>2 DEF DeviceSound, NoDev
    <3> QED BY <2>1, <3>1 DEF DevicesSound
  <2>3. CASE dev'[d] # NoDev
    <3>1. DeviceSound(d)'
      BY <1>a, <1>b, <1>c, <1>d, <1>e, <2>3 DEF DevicesSound, DeviceSound
    <3> QED BY <2>1, <3>1 DEF DevicesSound
  <2> QED BY <2>2, <2>3
<1>3. OneControl'
  BY <1>a, <1>b, <1>c, <1>d, <1>e DEF OneControl, NoDev
<1>4. DeviceRefs'
  <2>1. dev'[d].private \/ dev'[d].open > 0 \/ dev'[d].late > 0 =>
          dev'[d].ref = dev'[d].open + dev'[d].late + (IF dev'[d].private THEN 1 ELSE 0)
    BY <1>a, <1>b, <1>c, <1>d, <1>e DEF NoDev
  <2> QED BY <1>a, <1>b, <1>c, <1>d, <1>e, <2>1 DEF DeviceRefs
<1>5. JobsSound'
  BY <1>a, <1>b, <1>c, <1>d, <1>e DEF JobsSound, JobSound, Filling, NoDev
<1>6. InodesOwned'
  BY <1>a, <1>b, <1>c, <1>d, <1>e DEF InodesOwned
<1>7. JobsApart'
  BY <1>a, <1>b, <1>c, <1>d, <1>e DEF JobsApart, Filling
<1>9. OwnersApart'
  BY <1>a, <1>b, <1>c, <1>d, <1>e DEF OwnersApart, Reserving, Inodes
<1>10. CountsKept'
  <2>1. \A k \in Mounts : Creating(k)' = Creating(k)
    BY <1>a, <1>b, <1>c, <1>d, <1>e DEF Creating
  <2>2. \A k \in Mounts : k # m => DevicesOf(k)' = DevicesOf(k)
    BY <1>a, <1>b, <1>c, <1>d, <1>e DEF DevicesOf, Inodes, NoDev
  <2>3. \A k \in Mounts : k # m => Reserved(k)' = Reserved(k)
    BY <2>1, <2>2 DEF Reserved
  <2>4. CASE dev[d].kind = "dev"
    <3>1. DevicesOf(m)' = DevicesOf(m) \ {d} /\ d \in DevicesOf(m)
      BY <1>a, <1>b, <1>c, <1>d, <1>e, <2>4 DEF DevicesOf, Inodes, NoDev
    <3>2. /\ IsFiniteSet(DevicesOf(m))
          /\ Cardinality(Creating(m)) \in Nat /\ Cardinality(DevicesOf(m)) \in Nat
      BY CountedFinite
    <3>3. Cardinality(DevicesOf(m) \ {d}) = Cardinality(DevicesOf(m)) - 1
      BY <3>1, <3>2, FS_RemoveElement
    <3>4. Reserved(m)' = Reserved(m) - 1 /\ Reserved(m) \in Nat
      BY <2>1, <3>1, <3>2, <3>3 DEF Reserved
    <3> QED BY <1>a, <1>b, <1>c, <1>d, <1>e, <2>3, <2>4, <3>4 DEF CountsKept, NoDev
  <2>5. CASE dev[d].kind = "ctl"
    <3>1. DevicesOf(m)' = DevicesOf(m)
      BY <1>a, <1>b, <1>c, <1>d, <1>e, <2>5 DEF DevicesOf, Inodes, NoDev
    <3>2. Reserved(m)' = Reserved(m)
      BY <2>1, <3>1 DEF Reserved
    <3>3. sb[m].count = Reserved(m) /\ sb[m].state = "dying"
      BY <1>a, <2>5 DEF CountsKept
    <3>4. \A k \in Slots : dev'[k].kind = "ctl" => dev'[k].mount # m
      BY <1>a, <1>b, <1>c, <1>d, <1>e, <2>5 DEF OneControl, NoDev
    <3> QED BY <1>a, <1>b, <1>c, <1>d, <1>e, <2>3, <3>2, <3>3, <3>4 DEF CountsKept, NoDev
  <2> QED BY <1>a, <2>4, <2>5
<1> QED BY <1>1, <1>2, <1>3, <1>4, <1>5, <1>6, <1>7, <1>9, <1>10

-----------------------------------------------------------------------------
(* The theorems.                                                           *)

\* Every step keeps FsInv.
LEMMA NextFs == FsInv /\ [Next]_vars => FsInv'
<1> SUFFICES ASSUME FsInv, [Next]_vars PROVE FsInv' OBVIOUS
<1>1. CASE UNCHANGED vars
  <2>1. TypeOK' /\ DevicesSound' /\ JobsSound' /\ InodesOwned' /\ JobsApart' /\ OneControl' /\ DeviceRefs'
    BY <1>1 DEF vars, FsInv, TypeOK, DevicesSound, DeviceSound, JobsSound, JobSound, InodesOwned, JobsApart,
                OneControl, DeviceRefs, Filling
  <2>2. Reserving' = Reserving /\ Inodes' = Inodes
    BY <1>1 DEF vars, Reserving, Inodes
  <2>3. OwnersApart' /\ \A m \in Mounts : Reserved(m)' = Reserved(m)
    BY <1>1, <2>2, SameOwners DEF vars, FsInv
  <2>4. CountsKept'
    BY <1>1, <2>3 DEF vars, FsInv, CountsKept
  <2> QED BY <2>1, <2>3, <2>4 DEF FsInv
<1>2. ASSUME NEW x \in Tasks,
             \/ ReserveMinor(x) \/ ReserveFails(x) \/ BuildFails(x) \/ Link(x) \/ LinkFails(x) \/ Err(x)
             \/ Iput(x) \/ CtlFails(x) \/ CtlLink(x) \/ CtlLinkFails(x) \/ Logs(x) \/ LogsFail(x)
             \/ Kill(x) \/ Parse(x) \/ RemountEnd(x)
      PROVE  FsInv'
  BY <1>2, ReserveMinorFs, ReserveFailsFs, BuildFailsFs, LinkFs, LinkFailsFs, ErrFs, IputFs, CtlFailsFs,
     CtlLinkFs, CtlLinkFailsFs, LogsFs, LogsFailFs, KillFs, ParseFs, RemountEndFs
<1>3. ASSUME NEW x \in Tasks, NEW d \in Slots, Build(x, d) \/ CtlCreate(x, d) PROVE FsInv'
  BY <1>3, BuildFs, CtlCreateFs
<1>4. ASSUME NEW x \in Tasks, NEW m \in Mounts,
             \/ \E n \in Names : CtlAdd(x, m, n)
             \/ \E o \in Options : Mount(x, m, o) \/ Remount(x, m, o)
      PROVE  FsInv'
  BY <1>4, CtlAddFs, MountFs, RemountFs
<1>5. ASSUME NEW m \in Mounts, Umount(m) \/ KillSuper(m) PROVE FsInv'
  BY <1>5, UmountFs, KillSuperFs
<1>6. ASSUME NEW d \in Slots, Evict(d) \/ Unlink(d) \/ Open(d) \/ Close(d) \/ FreeProc(d) PROVE FsInv'
  BY <1>6, EvictFs, UnlinkFs, OpenFs, CloseFs, FreeProcFs
<1> QED BY <1>1, <1>2, <1>3, <1>4, <1>5, <1>6 DEF Next

\* FsInv holds in every state.
THEOREM FsInvariant == Spec => []FsInv
BY InitFs, NextFs, PTL DEF Spec

\* As many minors as owners, when no two owners share one.
LEMMA ImageCount ==
  ASSUME NEW S, IsFiniteSet(S), NEW f, \A x, y \in S : f[x] = f[y] => x = y
  PROVE  IsFiniteSet({f[x] : x \in S}) /\ Cardinality({f[x] : x \in S}) = Cardinality(S)
<1> DEFINE T == {f[x] : x \in S}
           g == [x \in S |-> f[x]]
<1>1. g \in Bijection(S, T)
  BY DEF Bijection, Injection, Surjection, IsInjective
<1>2. ExistsBijection(S, T)
  BY <1>1 DEF ExistsBijection
<1> QED BY <1>2, FS_Bijection

\* The owners of FsInv are those MinorsOwned counts.
LEMMA OwnersCounted == FsInv => MinorsOwned
<1> SUFFICES ASSUME FsInv PROVE MinorsOwned OBVIOUS
<1> DEFINE f == [x \in Tasks |-> job[x].minor]
           g == [d \in Slots |-> dev[d].minor]
           A == {f[x] : x \in Reserving}
           B == {g[d] : d \in Inodes}
<1>1. Reserving \in SUBSET Tasks /\ Inodes \in SUBSET Slots
  BY DEF Reserving, Inodes
<1>2. /\ A = {job[x].minor : x \in Reserving} /\ B = {dev[d].minor : d \in Inodes}
      /\ \A x \in Reserving : f[x] = job[x].minor
      /\ \A d \in Inodes : g[d] = dev[d].minor
  BY <1>1
<1>3. IsFiniteSet(Reserving) /\ IsFiniteSet(Inodes)
  BY <1>1, FS_Subset, BinderfsAssumption
<1>4. /\ \A x, y \in Reserving : f[x] = f[y] => x = y
      /\ \A d, e \in Inodes : g[d] = g[e] => d = e
      /\ A \cap B = {} /\ minors \ leaked = A \cup B
  <2> HIDE DEF f, g, A, B
  <2>1. /\ \A x, y \in Reserving : f[x] = f[y] => x = y
        /\ \A d, e \in Inodes : g[d] = g[e] => d = e
    BY <1>2 DEF FsInv, OwnersApart
  <2>2. A \cap B = {}
    BY <1>2 DEF FsInv, OwnersApart
  <2>3. minors \ leaked = A \cup B
    BY <1>2 DEF FsInv, OwnersApart
  <2> QED BY <2>1, <2>2, <2>3
<1> HIDE DEF f, g
<1>5. IsFiniteSet(A) /\ Cardinality(A) = Cardinality(Reserving)
  BY <1>3, <1>4, ImageCount
<1>6. IsFiniteSet(B) /\ Cardinality(B) = Cardinality(Inodes)
  BY <1>3, <1>4, ImageCount
<1>7. Cardinality(A \cup B) = Cardinality(A) + Cardinality(B)
  <2>1. Cardinality(A \cup B) = Cardinality(A) + Cardinality(B) - Cardinality(A \cap B)
    BY <1>5, <1>6, FS_Union
  <2>2. Cardinality(A \cap B) = 0
    BY <1>4, FS_EmptySet
  <2>3. Cardinality(A) \in Nat /\ Cardinality(B) \in Nat
    BY <1>5, <1>6, FS_CardinalityType
  <2> QED BY <2>1, <2>2, <2>3
<1>8. minors = (A \cup B) \cup leaked /\ (A \cup B) \cap leaked = {}
  BY <1>4 DEF FsInv, TypeOK
<1> HIDE DEF A, B
<1> QED BY <1>2, <1>5, <1>6, <1>7, <1>8 DEF MinorsOwned, Reserving

\* Minors and device counts: whatever a creation, a failed step, an eviction, an unlink or an
\* unmount gives back was reserved and is given back once; no two devices share a minor.
THEOREM ReservationsAlwaysExact == Spec => []ReservationsExact
<1>1. FsInv => CountExact
  BY DEF FsInv, CountsKept, CountExact, Reserved, DevicesOf
<1>2. FsInv => ReservationsExact
  BY <1>1, OwnersCounted DEF ReservationsExact, FsInv
<1> QED BY <1>2, FsInvariant, PTL

\* The reference count of struct binder_device is the number of those who need it.
THEOREM DeviceRefsAlwaysExact == Spec => []DeviceRefs
BY FsInvariant, PTL DEF FsInv

=====
