---------------------------- MODULE AshmemProofs ----------------------------
(***************************************************************************)
(* For any areas, clients, mappings and reclaim contexts: no mapping       *)
(* outgrows the mask it was created under, and a reader of a backing file  *)
(* still has it after the mutex is dropped.  The references on a file are  *)
(* exactly those of its area, its mappings and the purges under way as     *)
(* long as the range lists are sound: the shrinker takes range->asma->file *)
(* of the oldest range without a look, so this rests on what the walks     *)
(* over the lists compute, which is model-checked (RangeListsSound).  Of   *)
(* the promise about pages, AshmemPages: no purge is ever silent.          *)
(***************************************************************************)
EXTENDS Ashmem, AshmemPages, FiniteSetTheorems, TLAPS

AreaType ==
  [st : {"none", "open", "closed"}, size : Nat, name : Names \cup {"none"}, prot_mask : SUBSET Prot, file : BOOLEAN]
VmaType == [file : Areas \cup {"none"}, flags : SUBSET Prot, may : SUBSET Prot, mask : SUBSET Prot]
Shapes ==
  /\ area \in [Areas -> AreaType] /\ vma \in [Vmas -> VmaType]
  /\ pc \in [Clients -> {"idle", "lock", "wait", "sleep", "io"}]
  /\ spc \in [Shrinkers -> {"idle", "punch", "dec", "retry"}]
  /\ DOMAIN scan = Shrinkers /\ DOMAIN req = Clients /\ DOMAIN f_count = Areas

\* Who has a reference on the backing file of an area.
Maps(a) == {v \in Vmas : vma[v].file = a}
Punches(a) == {s \in Shrinkers : spc[s] = "punch" /\ scan[s].file = a}
Own(a) == IF area[a].file THEN 1 ELSE 0
RefsOn(a) == f_count[a] = Own(a) + Cardinality(Maps(a)) + Cardinality(Punches(a))

\* An area that never had a file has no users of one; what is used is the file of an area.
Unused(a) == ~area[a].file /\ area[a].st # "closed" => Maps(a) = {} /\ Punches(a) = {}
Punching(s) == spc[s] = "punch" => scan[s].file \in Areas
Mapped(v) == vma[v] = NoVma \/ vma[v].file \in Areas

\* A client outside a call has no request; a reader has an area with its file.
Reading(t) ==
  /\ pc[t] = "idle" => req[t] = NoReq
  /\ pc[t] = "io" => req[t].asma \in Areas /\ area[req[t].asma].file

\* What mprotect() may give is within the mask at the time of mmap().
MayWithinMask(v) == VmFlagsClear => vma[v].flags \subseteq vma[v].mask /\ vma[v].may \subseteq vma[v].mask

\* What holds whatever the range lists are.
AccessInv ==
  /\ Shapes
  /\ \A t \in Clients : Reading(t)
  /\ \A v \in Vmas : MayWithinMask(v)

\* What holds when the oldest range belongs to an area with a file.
FileInv ==
  /\ \A a \in Areas : RefsOn(a) /\ Unused(a)
  /\ \A s \in Shrinkers : Punching(s)
  /\ \A v \in Vmas : Mapped(v)

\* The users of a file are finitely many.
LEMMA UsersFinite ==
  ASSUME NEW a
  PROVE  /\ IsFiniteSet(Maps(a)) /\ Cardinality(Maps(a)) \in Nat
         /\ IsFiniteSet(Punches(a)) /\ Cardinality(Punches(a)) \in Nat
<1>1. Maps(a) \subseteq Vmas /\ Punches(a) \subseteq Shrinkers
  BY DEF Maps, Punches
<1>2. IsFiniteSet(Maps(a)) /\ IsFiniteSet(Punches(a))
  BY <1>1, AshmemAssumption, FS_Subset
<1> QED BY <1>2, FS_CardinalityType

\* The counts of references are numbers.
LEMMA FileCounts ==
  ASSUME FileInv
  PROVE  \A a \in Areas : f_count[a] \in Int
BY UsersFinite DEF FileInv, RefsOn, Own

\* A user of a file comes or goes: one member of a set, and the count with it.
LEMMA OneMore ==
  ASSUME NEW S, NEW U, NEW x, IsFiniteSet(S), U = S \cup {x}, x \notin S
  PROVE  Cardinality(U) = Cardinality(S) + 1
BY FS_AddElement

\* The same for one that goes.
LEMMA OneLess ==
  ASSUME NEW S, NEW U, NEW x, IsFiniteSet(S), U = S \ {x}, x \in S
  PROVE  Cardinality(U) = Cardinality(S) - 1
BY FS_RemoveElement

\* At the start there are no files.
LEMMA InitFiles == Init => AccessInv /\ FileInv
<1> SUFFICES ASSUME Init PROVE AccessInv /\ FileInv OBVIOUS
<1>1. Shapes
  BY DEF Init, Shapes, AreaType, VmaType, NoVma, Prot
<1>2. ASSUME NEW a \in Areas PROVE RefsOn(a) /\ Unused(a)
  <2>1. Maps(a) = {} /\ Punches(a) = {} /\ Own(a) = 0 /\ f_count[a] = 0
    BY AshmemAssumption DEF Init, Maps, Punches, Own, NoVma
  <2>2. Cardinality({}) = 0
    BY FS_EmptySet
  <2> QED BY <2>1, <2>2 DEF RefsOn, Unused
<1>3. ASSUME NEW t \in Clients PROVE Reading(t)
  BY DEF Init, Reading
<1>4. ASSUME NEW v \in Vmas PROVE MayWithinMask(v) /\ Mapped(v)
  BY DEF Init, MayWithinMask, NoVma, Mapped
<1>5. ASSUME NEW s \in Shrinkers PROVE Punching(s)
  BY DEF Init, Punching
<1> QED BY <1>1, <1>2, <1>3, <1>4, <1>5 DEF AccessInv, FileInv

\* A step that leaves mappings and purges alone, and the files of all areas.
LEMMA FilesKept ==
  ASSUME FileInv, UNCHANGED <<f_count, vma>>,
         \A a \in Areas : /\ area'[a].file = area[a].file /\ Punches(a)' = Punches(a)
                          /\ area[a].st = "closed" => area'[a].st = "closed",
         \A s \in Shrinkers : Punching(s)'
  PROVE  FileInv'
<1>1. ASSUME NEW a \in Areas PROVE RefsOn(a)' /\ Unused(a)'
  <2>1. Maps(a)' = Maps(a) /\ Punches(a)' = Punches(a) /\ Own(a)' = Own(a) /\ f_count'[a] = f_count[a]
    BY DEF Maps, Own
  <2>2. RefsOn(a) /\ Unused(a)
    BY DEF FileInv
  <2> QED BY <2>1, <2>2 DEF RefsOn, Unused
<1>2. \A v \in Vmas : Mapped(v)'
  BY DEF FileInv, Mapped
<1> QED BY <1>1, <1>2 DEF FileInv

\* The life of an area: only ashmem_release() touches a file, when no call is under way.
LEMMA AreaFiles ==
  ASSUME AccessInv, AreaNext
  PROVE  AccessInv' /\ (FileInv => FileInv')
<1> PICK a \in Areas : \/ ashmem_open(a) \/ ashmem_release(a) \/ \E size \in Sizes : set_size(a, size)
                       \/ \E name \in Names : set_name(a, name)
                       \/ \E prot \in Prots, implies \in ReadImpliesExec : set_prot_mask(a, prot, implies)
  BY DEF AreaNext
<1>0. Shapes /\ area[a] \in AreaType
  BY DEF AccessInv, Shapes
<1>1. ASSUME NEW r \in AreaType, area' = [area EXCEPT ![a] = r], r.file = area[a].file, area[a].st # "closed",
             UNCHANGED <<f_count, vma, spc, scan, pc, req>>
      PROVE  AccessInv' /\ (FileInv => FileInv')
  <2>1. Shapes'
    BY <1>0, <1>1 DEF Shapes
  <2>2. \A b \in Areas : /\ area'[b].file = area[b].file /\ Punches(b)' = Punches(b)
                         /\ area[b].st = "closed" => area'[b].st = "closed"
    BY <1>0, <1>1 DEF Shapes, Punches
  <2>3. \A t \in Clients : Reading(t)'
    BY <1>1, <2>2 DEF AccessInv, Reading
  <2>4. \A v \in Vmas : MayWithinMask(v)'
    BY <1>1 DEF AccessInv, MayWithinMask
  <2>5. FileInv => \A s \in Shrinkers : Punching(s)'
    BY <1>1 DEF FileInv, Punching
  <2>6. FileInv => FileInv'
    BY ONLY <1>1, <2>2, <2>5, FilesKept
  <2> QED BY <2>1, <2>3, <2>4, <2>6 DEF AccessInv
<1>2. CASE ashmem_open(a)
  <2>1. area' = [area EXCEPT ![a] = [area[a] EXCEPT !.st = "open", !.prot_mask = Prot]] /\ area[a].st # "closed"
    BY <1>2 DEF ashmem_open
  <2>2. [area[a] EXCEPT !.st = "open", !.prot_mask = Prot] \in AreaType
    BY <1>0 DEF AreaType
  <2>3. [area[a] EXCEPT !.st = "open", !.prot_mask = Prot].file = area[a].file
    BY <1>0 DEF AreaType
  <2>4. UNCHANGED <<f_count, vma, spc, scan, pc, req>>
    BY <1>2 DEF ashmem_open, clientVars, shrinkVars
  <2> QED BY <1>1, <2>1, <2>2, <2>3, <2>4
<1>3. CASE \E size \in Sizes : set_size(a, size)
  <2> PICK size \in Sizes : set_size(a, size)
    BY <1>3
  <2>1. area' = [area EXCEPT ![a] = [area[a] EXCEPT !.size = size]] /\ area[a].st # "closed"
    BY DEF set_size
  <2>2. [area[a] EXCEPT !.size = size] \in AreaType /\ [area[a] EXCEPT !.size = size].file = area[a].file
    BY <1>0, AshmemAssumption DEF AreaType
  <2>3. UNCHANGED <<f_count, vma, spc, scan, pc, req>>
    BY DEF set_size, clientVars, shrinkVars
  <2> QED BY <1>1, <2>1, <2>2, <2>3
<1>4. CASE \E name \in Names : set_name(a, name)
  <2> PICK name \in Names : set_name(a, name)
    BY <1>4
  <2>1. area' = [area EXCEPT ![a] = [area[a] EXCEPT !.name = name]] /\ area[a].st # "closed"
    BY DEF set_name
  <2>2. [area[a] EXCEPT !.name = name] \in AreaType /\ [area[a] EXCEPT !.name = name].file = area[a].file
    BY <1>0 DEF AreaType
  <2>3. UNCHANGED <<f_count, vma, spc, scan, pc, req>>
    BY DEF set_name, clientVars, shrinkVars
  <2> QED BY <1>1, <2>1, <2>2, <2>3
<1>5. CASE \E prot \in Prots, implies \in ReadImpliesExec : set_prot_mask(a, prot, implies)
  <2> PICK prot \in Prots, implies \in ReadImpliesExec : set_prot_mask(a, prot, implies)
    BY <1>5
  <2> DEFINE mask == IF "r" \in prot /\ implies THEN prot \cup {"x"} ELSE prot
  <2>1. area' = [area EXCEPT ![a] = [area[a] EXCEPT !.prot_mask = mask]] /\ area[a].st # "closed"
    BY DEF set_prot_mask
  <2>2. mask \in SUBSET Prot
    BY <1>0 DEF set_prot_mask, AreaType, Prot
  <2> HIDE DEF mask
  <2>3. [area[a] EXCEPT !.prot_mask = mask] \in AreaType /\ [area[a] EXCEPT !.prot_mask = mask].file = area[a].file
    BY <1>0, <2>2 DEF AreaType
  <2>4. UNCHANGED <<f_count, vma, spc, scan, pc, req>>
    BY DEF set_prot_mask, clientVars, shrinkVars
  <2> QED BY <1>1, <2>1, <2>3, <2>4
<1>6. CASE ashmem_release(a)
  <2>1. /\ f_count' = [f_count EXCEPT ![a] = IF area[a].file THEN @ - 1 ELSE @]
        /\ area' = [area EXCEPT ![a] = [area[a] EXCEPT !.st = "closed", !.file = FALSE]]
        /\ UNCHANGED <<vma, spc, scan, pc, req>>
    BY <1>6 DEF ashmem_release, clientVars, shrinkVars
  <2>2. [area[a] EXCEPT !.st = "closed", !.file = FALSE] \in AreaType
    BY <1>0 DEF AreaType
  <2>3. [area[a] EXCEPT !.st = "closed", !.file = FALSE].st = "closed" /\ ~[area[a] EXCEPT !.st = "closed", !.file = FALSE].file
    BY <1>0 DEF AreaType
  <2>4. /\ \A b \in Areas : b # a => area'[b] = area[b]
        /\ ~area'[a].file /\ area'[a].st = "closed"
    BY <1>0, <2>1, <2>3 DEF Shapes
  <2>5. Shapes'
    BY <1>0, <2>1, <2>2 DEF Shapes
  <2>6. ASSUME NEW t \in Clients PROVE Reading(t)'
    <3>1. pc[t] = "io" => req[t].asma # a
      BY <1>6 DEF ashmem_release, InUse
    <3> QED BY <2>1, <2>4, <3>1 DEF AccessInv, Reading
  <2>7. \A v \in Vmas : MayWithinMask(v)'
    BY <2>1 DEF AccessInv, MayWithinMask
  <2>8. ASSUME FileInv PROVE FileInv'
    <3>0. \A b \in Areas : f_count[b] \in Int
      BY <2>8, FileCounts
    <3>1. f_count'[a] = f_count[a] - Own(a) /\ \A b \in Areas : b # a => f_count'[b] = f_count[b]
      BY <1>0, <2>1, <3>0 DEF Own, Shapes
    <3>2. ASSUME NEW b \in Areas PROVE RefsOn(b)' /\ Unused(b)'
      <4>1. Maps(b)' = Maps(b) /\ Punches(b)' = Punches(b) /\ RefsOn(b) /\ Unused(b)
        BY <2>1, <2>8 DEF Maps, Punches, FileInv
      <4>2. Cardinality(Maps(b)) \in Nat /\ Cardinality(Punches(b)) \in Nat
        BY UsersFinite
      <4>3. CASE b = a
        <5>1. Own(b)' = 0 /\ Own(b) \in Int
          BY <2>4, <4>3 DEF Own
        <5> QED BY <2>4, <3>1, <4>1, <4>2, <4>3, <5>1 DEF RefsOn, Unused
      <4>4. CASE b # a
        BY <2>4, <3>1, <4>1, <4>4 DEF RefsOn, Unused, Own
      <4> QED BY <4>3, <4>4
    <3>3. \A s \in Shrinkers : Punching(s)'
      BY <2>1, <2>8 DEF FileInv, Punching
    <3>4. \A v \in Vmas : Mapped(v)'
      BY <2>1, <2>8 DEF FileInv, Mapped
    <3> QED BY <3>2, <3>3, <3>4 DEF FileInv
  <2> QED BY <2>5, <2>6, <2>7, <2>8 DEF AccessInv
<1> QED BY <1>2, <1>3, <1>4, <1>5, <1>6

\* An area gets its file: what every mmap() does to the areas and to the readers.
LEMMA FileMade ==
  ASSUME AccessInv, NEW a \in Areas, area' = [area EXCEPT ![a].file = TRUE], DOMAIN f_count' = Areas,
         vma' \in [Vmas -> VmaType], \A v \in Vmas : MayWithinMask(v)', UNCHANGED <<spc, scan, pc, req>>
  PROVE  /\ AccessInv'
         /\ area'[a].file /\ \A b \in Areas : b # a => area'[b] = area[b]
<1>1. Shapes /\ area[a] \in AreaType
  BY DEF AccessInv, Shapes
<1>2. [area[a] EXCEPT !.file = TRUE] \in AreaType /\ [area[a] EXCEPT !.file = TRUE].file
  BY <1>1 DEF AreaType
<1>3. area' = [area EXCEPT ![a] = [area[a] EXCEPT !.file = TRUE]]
  OBVIOUS
<1>4. area' \in [Areas -> AreaType]
  BY <1>1, <1>2, <1>3 DEF Shapes
<1>5. Shapes'
  BY <1>1, <1>4 DEF Shapes
<1>6. area'[a].file /\ \A b \in Areas : b # a => area'[b] = area[b]
  BY <1>1, <1>2, <1>3 DEF Shapes
<1>7. \A t \in Clients : Reading(t)'
  BY <1>6 DEF AccessInv, Reading
<1> QED BY <1>5, <1>6, <1>7 DEF AccessInv

\* ashmem_mmap(): a reference for the mapping if it succeeds, and one for the area if it made
\* the file; the mapping starts within the mask.
LEMMA MmapFiles ==
  ASSUME AccessInv, NEW a \in Areas, NEW v \in Vmas, NEW prot, NEW bytes, ashmem_mmap(a, v, prot, bytes)
  PROVE  AccessInv' /\ (FileInv => FileInv')
<1> DEFINE m == [file |-> a, flags |-> prot, may |-> MayFlags(a), mask |-> area[a].prot_mask]
<1>1. /\ prot \subseteq area[a].prot_mask /\ vma[v] = NoVma /\ area[a].st = "open"
      /\ f_count' = [f_count EXCEPT ![a] = IF area[a].file THEN @ + 1 ELSE 2]
      /\ area' = [area EXCEPT ![a].file = TRUE] /\ vma' = [vma EXCEPT ![v] = m]
      /\ UNCHANGED <<spc, scan, pc, req>>
  BY DEF ashmem_mmap, MmapAllowed, clientVars, shrinkVars
<1>2. Shapes /\ area[a] \in AreaType
  BY DEF AccessInv, Shapes
<1>3. m \in VmaType /\ m.file = a /\ m.flags = prot /\ m.may = MayFlags(a) /\ m.mask = area[a].prot_mask
  BY <1>1, <1>2 DEF VmaType, AreaType, MayFlags
<1> HIDE DEF m
<1>4. vma' \in [Vmas -> VmaType] /\ vma'[v] = m /\ \A w \in Vmas : w # v => vma'[w] = vma[w]
  BY <1>1, <1>2, <1>3 DEF Shapes
<1>5. \A w \in Vmas : MayWithinMask(w)'
  BY <1>1, <1>3, <1>4 DEF AccessInv, MayWithinMask, MayFlags
<1>6. DOMAIN f_count' = Areas
  BY <1>1, <1>2 DEF Shapes
<1>7. AccessInv' /\ area'[a].file /\ \A b \in Areas : b # a => area'[b] = area[b]
  BY ONLY AccessInv, a \in Areas, <1>1, <1>4, <1>5, <1>6, FileMade
<1>8. ASSUME FileInv PROVE FileInv'
  <2>1. \A b \in Areas : f_count[b] \in Int
    BY <1>8, FileCounts
  <2>2. /\ \A b \in Areas : b # a => f_count'[b] = f_count[b]
        /\ (area[a].file => f_count'[a] = f_count[a] + 1) /\ (~area[a].file => f_count'[a] = 2)
    BY <1>1, <1>2 DEF Shapes
  <2>3. vma[v].file \notin Areas
    BY <1>1, AshmemAssumption DEF NoVma
  <2>4. ASSUME NEW b \in Areas PROVE RefsOn(b)' /\ Unused(b)'
    <3>1. Punches(b)' = Punches(b) /\ RefsOn(b) /\ Unused(b)
      BY <1>1, <1>8 DEF Punches, FileInv
    <3>2. Cardinality(Maps(b)) \in Nat /\ Cardinality(Punches(b)) \in Nat /\ IsFiniteSet(Maps(b))
      BY UsersFinite
    <3>3. CASE b = a
      <4>1. Maps(a)' = Maps(a) \cup {v} /\ v \notin Maps(a)
        BY <1>3, <1>4, <2>3 DEF Maps
      <4>2. Cardinality(Maps(a)') = Cardinality(Maps(a)) + 1
        BY <3>2, <3>3, <4>1, OneMore
      <4>3. Own(a)' = 1 /\ (area[a].file => Own(a) = 1) /\ (~area[a].file => Own(a) = 0)
        BY <1>7 DEF Own
      <4>4. f_count[a] = Own(a) + Cardinality(Maps(a)) + Cardinality(Punches(a))
        BY <3>1, <3>3 DEF RefsOn
      <4>5. ~area[a].file => Cardinality(Maps(a)) = 0 /\ Cardinality(Punches(a)) = 0
        BY <1>1, <3>1, <3>3, FS_EmptySet DEF Unused
      <4>6. f_count'[a] = 1 + (Cardinality(Maps(a)) + 1) + Cardinality(Punches(a))
        BY <2>2, <3>2, <3>3, <4>3, <4>4, <4>5
      <4> QED BY <1>7, <3>1, <3>3, <4>2, <4>3, <4>6 DEF RefsOn, Unused
    <3>4. CASE b # a
      <4>1. Maps(b)' = Maps(b)
        BY <1>3, <1>4, <2>3, <3>4 DEF Maps
      <4>2. Own(b)' = Own(b)
        BY <1>7, <3>4 DEF Own
      <4> QED BY <1>7, <2>2, <3>1, <3>4, <4>1, <4>2 DEF RefsOn, Unused
    <3> QED BY <3>3, <3>4
  <2>5. \A s \in Shrinkers : Punching(s)'
    BY <1>1, <1>8 DEF FileInv, Punching
  <2>6. \A w \in Vmas : Mapped(w)'
    BY <1>3, <1>4, <1>8 DEF FileInv, Mapped
  <2> QED BY <2>4, <2>5, <2>6 DEF FileInv
<1> QED BY <1>7, <1>8

\* The error path of ashmem_mmap(): the mapping's reference is given back, the file stays.
LEMMA MmapFailsFiles ==
  ASSUME AccessInv, NEW a \in Areas, NEW prot, NEW bytes, ashmem_mmap_fails(a, prot, bytes)
  PROVE  AccessInv' /\ (FileInv => FileInv')
<1>1. /\ area[a].st = "open"
      /\ f_count' = [f_count EXCEPT ![a] = IF area[a].file THEN @ + 1 - 1 ELSE 2 - 1]
      /\ area' = [area EXCEPT ![a].file = TRUE]
      /\ UNCHANGED <<vma, spc, scan, pc, req>>
  BY DEF ashmem_mmap_fails, MmapAllowed, clientVars, shrinkVars
<1>2. Shapes
  BY DEF AccessInv
<1>3. vma' \in [Vmas -> VmaType] /\ DOMAIN f_count' = Areas
  BY <1>1, <1>2 DEF Shapes
<1>4. \A w \in Vmas : MayWithinMask(w)'
  BY <1>1 DEF AccessInv, MayWithinMask
<1>5. AccessInv' /\ area'[a].file /\ \A b \in Areas : b # a => area'[b] = area[b]
  BY ONLY AccessInv, a \in Areas, <1>1, <1>3, <1>4, FileMade
<1>6. ASSUME FileInv PROVE FileInv'
  <2>1. \A b \in Areas : f_count[b] \in Int
    BY <1>6, FileCounts
  <2>2. /\ \A b \in Areas : b # a => f_count'[b] = f_count[b]
        /\ (area[a].file => f_count'[a] = f_count[a]) /\ (~area[a].file => f_count'[a] = 1)
    BY <1>1, <1>2, <2>1 DEF Shapes
  <2>3. ASSUME NEW b \in Areas PROVE RefsOn(b)' /\ Unused(b)'
    <3>1. Punches(b)' = Punches(b) /\ Maps(b)' = Maps(b) /\ RefsOn(b) /\ Unused(b)
      BY <1>1, <1>6 DEF Punches, Maps, FileInv
    <3>2. Cardinality(Maps(b)) \in Nat /\ Cardinality(Punches(b)) \in Nat
      BY UsersFinite
    <3>3. CASE b = a
      <4>1. Own(a)' = 1 /\ (area[a].file => Own(a) = 1) /\ (~area[a].file => Own(a) = 0)
        BY <1>5 DEF Own
      <4>2. f_count[a] = Own(a) + Cardinality(Maps(a)) + Cardinality(Punches(a))
        BY <3>1, <3>3 DEF RefsOn
      <4>3. ~area[a].file => Cardinality(Maps(a)) = 0 /\ Cardinality(Punches(a)) = 0
        BY <1>1, <3>1, <3>3, FS_EmptySet DEF Unused
      <4>4. f_count'[a] = 1 + Cardinality(Maps(a)) + Cardinality(Punches(a))
        BY <2>2, <3>2, <3>3, <4>1, <4>2, <4>3
      <4> QED BY <1>5, <3>1, <3>3, <4>1, <4>4 DEF RefsOn, Unused
    <3>4. CASE b # a
      <4>1. Own(b)' = Own(b)
        BY <1>5, <3>4 DEF Own
      <4> QED BY <1>5, <2>2, <3>1, <3>4, <4>1 DEF RefsOn, Unused
    <3> QED BY <3>3, <3>4
  <2>4. \A s \in Shrinkers : Punching(s)'
    BY <1>1, <1>6 DEF FileInv, Punching
  <2>5. \A w \in Vmas : Mapped(w)'
    BY <1>1, <1>6 DEF FileInv, Mapped
  <2> QED BY <2>3, <2>4, <2>5 DEF FileInv
<1> QED BY <1>5, <1>6

\* mprotect() stays within the VM_MAY bits.
LEMMA MprotectFiles ==
  ASSUME AccessInv, NEW v \in Vmas, NEW prot, mprotect(v, prot)
  PROVE  AccessInv' /\ (FileInv => FileInv')
<1>1. /\ vma[v] # NoVma /\ prot \subseteq vma[v].may
      /\ vma' = [vma EXCEPT ![v] = [vma[v] EXCEPT !.flags = prot]]
      /\ UNCHANGED <<area, f_count, spc, scan, pc, req>>
  BY DEF mprotect, clientVars, shrinkVars
<1>2. Shapes /\ vma[v] \in VmaType
  BY DEF AccessInv, Shapes
<1> DEFINE m == [vma[v] EXCEPT !.flags = prot]
<1>3. m \in VmaType /\ m.file = vma[v].file /\ m.flags = prot /\ m.may = vma[v].may /\ m.mask = vma[v].mask
  BY <1>1, <1>2 DEF VmaType
<1> HIDE DEF m
<1>4. vma' \in [Vmas -> VmaType] /\ vma'[v] = m /\ \A w \in Vmas : w # v => vma'[w] = vma[w]
  BY <1>1, <1>2, <1>3 DEF Shapes, m
<1>5. Shapes'
  BY <1>1, <1>2, <1>4 DEF Shapes
<1>6. \A w \in Vmas : MayWithinMask(w)'
  BY <1>1, <1>3, <1>4 DEF AccessInv, MayWithinMask
<1>7. \A t \in Clients : Reading(t)'
  BY <1>1 DEF AccessInv, Reading
<1>8. ASSUME FileInv PROVE FileInv'
  <2>1. \A w \in Vmas : vma'[w].file = vma[w].file /\ (Mapped(w) => Mapped(w)')
    BY <1>1, <1>3, <1>4 DEF Mapped
  <2>2. ASSUME NEW b \in Areas PROVE RefsOn(b)' /\ Unused(b)'
    <3>1. Maps(b)' = Maps(b) /\ Punches(b)' = Punches(b) /\ Own(b)' = Own(b)
      BY <1>1, <2>1 DEF Maps, Punches, Own
    <3> QED BY <1>1, <1>8, <3>1 DEF FileInv, RefsOn, Unused
  <2>3. \A s \in Shrinkers : Punching(s)'
    BY <1>1, <1>8 DEF FileInv, Punching
  <2> QED BY <1>8, <2>1, <2>2, <2>3 DEF FileInv
<1> QED BY <1>5, <1>6, <1>7, <1>8 DEF AccessInv

\* munmap() drops the reference of the mapping.
LEMMA MunmapFiles ==
  ASSUME AccessInv, NEW v \in Vmas, munmap(v)
  PROVE  AccessInv' /\ (FileInv => FileInv')
<1> DEFINE a == vma[v].file
<1>1. /\ vma[v] # NoVma /\ vma' = [vma EXCEPT ![v] = NoVma]
      /\ f_count' = [f_count EXCEPT ![a] = @ - 1]
      /\ UNCHANGED <<area, spc, scan, pc, req>>
  BY DEF munmap, clientVars, shrinkVars
<1> HIDE DEF a
<1>2. Shapes /\ NoVma \in VmaType
  BY DEF AccessInv, VmaType, NoVma
<1>3. vma' \in [Vmas -> VmaType] /\ vma'[v] = NoVma /\ \A w \in Vmas : w # v => vma'[w] = vma[w]
  BY <1>1, <1>2 DEF Shapes
<1>4. Shapes'
  BY <1>1, <1>2, <1>3 DEF Shapes
<1>5. \A w \in Vmas : MayWithinMask(w)'
  BY <1>3 DEF AccessInv, MayWithinMask, NoVma
<1>6. \A t \in Clients : Reading(t)'
  BY <1>1 DEF AccessInv, Reading
<1>7. ASSUME FileInv PROVE FileInv'
  <2>1. a \in Areas /\ NoVma.file \notin Areas
    BY <1>1, <1>7, AshmemAssumption DEF FileInv, Mapped, NoVma, a
  <2>2. \A b \in Areas : f_count[b] \in Int
    BY <1>7, FileCounts
  <2>3. f_count'[a] = f_count[a] - 1 /\ \A b \in Areas : b # a => f_count'[b] = f_count[b]
    BY <1>1, <1>2, <2>1 DEF Shapes
  <2>4. ASSUME NEW b \in Areas PROVE RefsOn(b)' /\ Unused(b)'
    <3>1. Punches(b)' = Punches(b) /\ Own(b)' = Own(b) /\ RefsOn(b) /\ Unused(b)
      BY <1>1, <1>7 DEF Punches, Own, FileInv
    <3>2. Cardinality(Maps(b)) \in Nat /\ Cardinality(Punches(b)) \in Nat /\ IsFiniteSet(Maps(b)) /\ Own(b) \in Int
      BY UsersFinite DEF Own
    <3>3. CASE b = a
      <4>1. Maps(b)' = Maps(b) \ {v} /\ v \in Maps(b)
        BY <1>3, <2>1, <3>3 DEF Maps, a
      <4>2. Cardinality(Maps(b)') = Cardinality(Maps(b)) - 1
        BY <3>2, <4>1, OneLess
      <4> QED BY <1>1, <2>2, <2>3, <3>1, <3>2, <3>3, <4>1, <4>2 DEF RefsOn, Unused
    <3>4. CASE b # a
      <4>1. Maps(b)' = Maps(b)
        BY <1>3, <2>1, <3>4 DEF Maps, a
      <4> QED BY <1>1, <2>3, <3>1, <3>4, <4>1 DEF RefsOn, Unused
    <3> QED BY <3>3, <3>4
  <2>5. \A s \in Shrinkers : Punching(s)'
    BY <1>1, <1>7 DEF FileInv, Punching
  <2>6. \A w \in Vmas : Mapped(w)'
    BY <1>3, <1>7 DEF FileInv, Mapped
  <2> QED BY <2>4, <2>5, <2>6 DEF FileInv
<1> QED BY <1>4, <1>5, <1>6, <1>7 DEF AccessInv

\* The steps of a client: a reader finds the file under the mutex, and no other step leaves it
\* reading.
LEMMA ClientFiles ==
  ASSUME AccessInv, NEW t \in Clients, ClientNext(t)
  PROVE  AccessInv' /\ (FileInv => FileInv')
<1>1. UNCHANGED <<area, f_count, vma, spc, scan>>
  BY DEF ClientNext, PinCall, PinLock, PinSleep, ashmem_pin_unpin, ReadBegin, ReadEnd, shrinkVars
<1>2. Shapes
  BY DEF AccessInv
<1>3. /\ \A u \in Clients : u # t => pc'[u] = pc[u] /\ req'[u] = req[u]
      /\ pc' \in [Clients -> {"idle", "lock", "wait", "sleep", "io"}] /\ DOMAIN req' = Clients
      /\ Reading(t)'
  <2>0. pc \in [Clients -> {"idle", "lock", "wait", "sleep", "io"}] /\ DOMAIN req = Clients
    BY <1>2 DEF Shapes
  <2>1. CASE \E cmd \in Cmds, a \in Areas, offset \in Offsets, len \in Lens : PinCall(t, cmd, a, offset, len)
    <3>1. PICK r : req' = [req EXCEPT ![t] = r] /\ pc' = [pc EXCEPT ![t] = "lock"]
      BY <2>1 DEF PinCall
    <3> QED BY <2>0, <3>1 DEF Reading
  <2>2. CASE PinLock(t)
    BY <2>0, <2>2 DEF PinLock, Reading
  <2>3. CASE PinSleep(t)
    BY <2>0, <2>3 DEF PinSleep, Reading
  <2>4. CASE ashmem_pin_unpin(t)
    <3>1. pc' = [pc EXCEPT ![t] = "idle"] /\ req' = [req EXCEPT ![t] = NoReq]
      BY <2>4 DEF ashmem_pin_unpin
    <3> QED BY <2>0, <3>1 DEF Reading
  <2>5. CASE \E a \in Areas : ReadBegin(t, a)
    <3>1. PICK a \in Areas : ReadBegin(t, a)
      BY <2>5
    <3>2. pc' = [pc EXCEPT ![t] = "io"] /\ req' = [req EXCEPT ![t].asma = a] /\ area[a].file /\ pc[t] = "idle"
      BY <3>1 DEF ReadBegin
    <3>3. req[t] = NoReq
      BY <3>2 DEF AccessInv, Reading
    <3>4. req'[t] = [NoReq EXCEPT !.asma = a]
      BY <2>0, <3>2, <3>3
    <3>5. req'[t].asma = a
      BY <3>4 DEF NoReq
    <3>6. /\ \A u \in Clients : u # t => pc'[u] = pc[u] /\ req'[u] = req[u]
          /\ pc' \in [Clients -> {"idle", "lock", "wait", "sleep", "io"}] /\ DOMAIN req' = Clients /\ pc'[t] = "io"
      BY <2>0, <3>2
    <3> QED BY <1>1, <3>2, <3>5, <3>6 DEF Reading
  <2>6. CASE ReadEnd(t)
    <3>1. pc' = [pc EXCEPT ![t] = "idle"] /\ req' = [req EXCEPT ![t] = NoReq]
      BY <2>6 DEF ReadEnd
    <3> QED BY <2>0, <3>1 DEF Reading
  <2> QED BY <2>1, <2>2, <2>3, <2>4, <2>5, <2>6 DEF ClientNext
<1>4. Shapes'
  BY <1>1, <1>2, <1>3 DEF Shapes
<1>5. \A u \in Clients : Reading(u)'
  BY <1>1, <1>3 DEF AccessInv, Reading
<1>6. \A v \in Vmas : MayWithinMask(v)'
  BY <1>1 DEF AccessInv, MayWithinMask
<1>7. ASSUME FileInv PROVE FileInv'
  <2>1. \A a \in Areas : /\ area'[a].file = area[a].file /\ Punches(a)' = Punches(a)
                         /\ area[a].st = "closed" => area'[a].st = "closed"
    BY <1>1 DEF Punches
  <2>2. \A s \in Shrinkers : Punching(s)'
    BY <1>1, <1>7 DEF FileInv, Punching
  <2> QED BY ONLY <1>1, <1>7, <2>1, <2>2, FilesKept
<1> QED BY <1>4, <1>5, <1>6, <1>7 DEF AccessInv

\* Sound lists: the oldest range belongs to an area with a file.
LEMMA OldestHasFile ==
  ASSUME RangeListsSound, ashmem_lru_list # <<>>
  PROVE  range[Head(ashmem_lru_list)].asma \in Areas /\ area[range[Head(ashmem_lru_list)].asma].file
<1> DEFINE i == Head(ashmem_lru_list)
<1>1. ashmem_lru_list \in Seq(RangeIds)
  BY DEF RangeListsSound, TypeOK
<1>2. ashmem_lru_list[1] = i /\ 1 \in DOMAIN ashmem_lru_list
  BY <1>1
<1>3. i \in ToSet(ashmem_lru_list)
  BY <1>2 DEF ToSet
<1>4. i \in RangeIds /\ range[i] # NoRange
  BY <1>3 DEF RangeListsSound, LruExact
<1>5. range[i] \in [asma : Areas, pgstart : Nat, pgend : Nat, purged : {NOT_PURGED, WAS_PURGED}]
  BY <1>4 DEF RangeListsSound, TypeOK
<1>6. area[range[i].asma].file
  BY <1>4 DEF RangeListsSound, RangesOwned
<1> QED BY <1>5, <1>6

\* A purge begins: it has a reference on the file until it has punched the hole.
LEMMA TakeFiles ==
  ASSUME AccessInv, FileInv, NEW s \in Shrinkers, NEW nr, TakeOldest(s, nr), spc[s] # "punch",
         RangeListsSound, ashmem_lru_list # <<>>, UNCHANGED <<area, vma>>
  PROVE  FileInv'
<1>1. PICK a, pages : /\ a = range[Head(ashmem_lru_list)].asma
                      /\ f_count' = [f_count EXCEPT ![a] = @ + 1] /\ spc' = [spc EXCEPT ![s] = "punch"]
                      /\ scan' = [scan EXCEPT ![s] = [nr |-> nr, file |-> a, pages |-> pages]]
  BY DEF TakeOldest
<1>2. a \in Areas /\ area[a].file
  BY ONLY <1>1, RangeListsSound, ashmem_lru_list # <<>>, OldestHasFile
<1>3. Shapes
  BY DEF AccessInv
<1>4. \A b \in Areas : f_count[b] \in Int
  BY FileCounts
<1>5. f_count'[a] = f_count[a] + 1 /\ \A b \in Areas : b # a => f_count'[b] = f_count[b]
  BY <1>1, <1>2, <1>3 DEF Shapes
<1>6. /\ spc'[s] = "punch" /\ scan'[s].file = a
      /\ \A x \in Shrinkers : x # s => spc'[x] = spc[x] /\ scan'[x] = scan[x]
  BY <1>1, <1>3 DEF Shapes
<1>7. ASSUME NEW b \in Areas PROVE RefsOn(b)' /\ Unused(b)'
  <2>1. Maps(b)' = Maps(b) /\ Own(b)' = Own(b) /\ RefsOn(b) /\ Unused(b)
    BY DEF Maps, Own, FileInv
  <2>2. Cardinality(Maps(b)) \in Nat /\ Cardinality(Punches(b)) \in Nat /\ IsFiniteSet(Punches(b)) /\ Own(b) \in Int
    BY UsersFinite DEF Own
  <2>3. CASE b = a
    <3>1. Punches(b)' = Punches(b) \cup {s} /\ s \notin Punches(b)
      BY <1>6, <2>3 DEF Punches
    <3>2. Cardinality(Punches(b)') = Cardinality(Punches(b)) + 1
      BY <2>2, <3>1, OneMore
    <3> QED BY <1>2, <1>4, <1>5, <2>1, <2>2, <2>3, <3>2 DEF RefsOn, Unused
  <2>4. CASE b # a
    <3>1. Punches(b)' = Punches(b)
      BY <1>6, <2>4 DEF Punches
    <3> QED BY <1>5, <2>1, <2>4, <3>1 DEF RefsOn, Unused
  <2> QED BY <2>3, <2>4
<1>8. \A x \in Shrinkers : Punching(x)'
  BY <1>2, <1>6 DEF FileInv, Punching
<1>9. \A v \in Vmas : Mapped(v)'
  BY DEF FileInv, Mapped
<1> QED BY <1>7, <1>8, <1>9 DEF FileInv

\* fallocate() and fput(): the purge gives its reference back.
LEMMA PunchFiles ==
  ASSUME AccessInv, FileInv, NEW s \in Shrinkers, ScanPunch(s)
  PROVE  FileInv'
<1> DEFINE a == scan[s].file
<1>1. /\ spc[s] = "punch" /\ f_count' = [f_count EXCEPT ![a] = @ - 1] /\ spc' = [spc EXCEPT ![s] = "dec"]
      /\ scan' = [scan EXCEPT ![s].file = "none", ![s].pages = {}] /\ UNCHANGED <<area, vma>>
  BY DEF ScanPunch
<1>2. a \in Areas
  BY <1>1 DEF FileInv, Punching
<1> HIDE DEF a
<1>3. Shapes
  BY DEF AccessInv
<1>4. \A b \in Areas : f_count[b] \in Int
  BY FileCounts
<1>5. f_count'[a] = f_count[a] - 1 /\ \A b \in Areas : b # a => f_count'[b] = f_count[b]
  BY <1>1, <1>2, <1>3 DEF Shapes
<1>6. spc'[s] = "dec" /\ \A x \in Shrinkers : x # s => spc'[x] = spc[x] /\ scan'[x] = scan[x]
  BY <1>1, <1>3 DEF Shapes
<1>7. ASSUME NEW b \in Areas PROVE RefsOn(b)' /\ Unused(b)'
  <2>1. Maps(b)' = Maps(b) /\ Own(b)' = Own(b) /\ RefsOn(b) /\ Unused(b)
    BY <1>1 DEF Maps, Own, FileInv
  <2>2. Cardinality(Maps(b)) \in Nat /\ Cardinality(Punches(b)) \in Nat /\ IsFiniteSet(Punches(b)) /\ Own(b) \in Int
    BY UsersFinite DEF Own
  <2>3. CASE b = a
    <3>1. Punches(b)' = Punches(b) \ {s} /\ s \in Punches(b)
      BY <1>1, <1>6, <2>3 DEF Punches, a
    <3>2. Cardinality(Punches(b)') = Cardinality(Punches(b)) - 1
      BY <2>2, <3>1, OneLess
    <3> QED BY <1>1, <1>4, <1>5, <2>1, <2>2, <2>3, <3>1, <3>2 DEF RefsOn, Unused
  <2>4. CASE b # a
    <3>1. Punches(b)' = Punches(b)
      BY <1>1, <1>6, <2>4 DEF Punches, a
    <3> QED BY <1>1, <1>5, <2>1, <2>4, <3>1 DEF RefsOn, Unused
  <2> QED BY <2>3, <2>4
<1>8. \A x \in Shrinkers : Punching(x)'
  BY <1>6 DEF FileInv, Punching
<1>9. \A v \in Vmas : Mapped(v)'
  BY <1>1 DEF FileInv, Mapped
<1> QED BY <1>7, <1>8, <1>9 DEF FileInv

\* The steps of a reclaim context.
LEMMA ShrinkFiles ==
  ASSUME AccessInv, NEW s \in Shrinkers, ShrinkNext(s)
  PROVE  AccessInv' /\ (FileInv /\ RangeListsSound => FileInv')
<1>1. UNCHANGED <<area, vma, req>>
  BY DEF ShrinkNext, ScanBegin, ScanPunch, ScanDec, ScanNext, ScanGivesUp, clientVars
<1>2. Shapes
  BY DEF AccessInv
<1>3. /\ spc' \in [Shrinkers -> {"idle", "punch", "dec", "retry"}]
      /\ DOMAIN scan' = Shrinkers /\ DOMAIN f_count' = Areas
  <2>1. PICK p \in {"idle", "punch", "dec", "retry"} : spc' = [spc EXCEPT ![s] = p]
    BY DEF ShrinkNext, ScanBegin, ScanPunch, ScanDec, ScanNext, ScanGivesUp, TakeOldest, ScanReturns
  <2>2. DOMAIN scan' = DOMAIN scan
    BY DEF ShrinkNext, ScanBegin, ScanPunch, ScanDec, ScanNext, ScanGivesUp, TakeOldest, ScanReturns
  <2>3. DOMAIN f_count' = DOMAIN f_count
    BY DEF ShrinkNext, ScanBegin, ScanPunch, ScanDec, ScanNext, ScanGivesUp, TakeOldest, ScanReturns
  <2> QED BY <1>2, <2>1, <2>2, <2>3 DEF Shapes
<1>4. /\ pc' \in [Clients -> {"idle", "lock", "wait", "sleep", "io"}]
      /\ \A t \in Clients : pc'[t] = pc[t] \/ pc'[t] = "wait"
  <2>1. CASE ScanDec(s)
    BY <1>2, <2>1 DEF ScanDec, Shapes
  <2>2. CASE ~ScanDec(s)
    <3>1. pc' = pc
      BY <2>2 DEF ShrinkNext, ScanBegin, ScanPunch, ScanNext, ScanGivesUp, clientVars
    <3> QED BY <1>2, <3>1 DEF Shapes
  <2> QED BY <2>1, <2>2
<1>5. Shapes'
  BY <1>1, <1>2, <1>3, <1>4 DEF Shapes
<1>6. \A u \in Clients : Reading(u)'
  BY <1>1, <1>4 DEF AccessInv, Reading
<1>7. \A v \in Vmas : MayWithinMask(v)'
  BY <1>1 DEF AccessInv, MayWithinMask
<1>8. ASSUME FileInv, RangeListsSound PROVE FileInv'
  <2>1. ASSUME UNCHANGED f_count, spc[s] # "punch", spc'[s] # "punch",
               \A x \in Shrinkers : x # s => spc'[x] = spc[x] /\ scan'[x] = scan[x]
        PROVE  FileInv'
    <3>1. \A a \in Areas : /\ area'[a].file = area[a].file /\ Punches(a)' = Punches(a)
                           /\ area[a].st = "closed" => area'[a].st = "closed"
      BY <1>1, <2>1 DEF Punches
    <3>2. \A x \in Shrinkers : Punching(x)'
      BY <1>8, <2>1 DEF FileInv, Punching
    <3> QED BY ONLY <1>1, <1>8, <2>1, <3>1, <3>2, FilesKept
  <2>2. ASSUME ScanReturns(s), spc[s] # "punch" PROVE FileInv'
    BY <1>2, <2>1, <2>2 DEF ScanReturns, Shapes
  <2>3. ASSUME NEW nr, TakeOldest(s, nr), spc[s] # "punch", ashmem_lru_list # <<>> PROVE FileInv'
    BY <1>1, <1>8, <2>3, TakeFiles
  <2>4. CASE \E nr \in ScanCounts : ScanBegin(s, nr)
    BY <2>3, <2>4 DEF ScanBegin
  <2>5. CASE ScanPunch(s)
    BY <1>8, <2>5, PunchFiles
  <2>6. CASE ScanDec(s)
    BY <1>2, <2>1, <2>6 DEF ScanDec, Shapes
  <2>7. CASE ScanNext(s)
    BY <2>2, <2>3, <2>7 DEF ScanNext
  <2>8. CASE ScanGivesUp(s)
    BY <2>2, <2>8 DEF ScanGivesUp
  <2> QED BY <2>4, <2>5, <2>6, <2>7, <2>8 DEF ShrinkNext
<1> QED BY <1>5, <1>6, <1>7, <1>8 DEF AccessInv

\* Every step, and a step that changes nothing.
LEMMA StepFiles ==
  ASSUME AccessInv, [Next]_vars
  PROVE  AccessInv' /\ (FileInv /\ RangeListsSound => FileInv')
<1>1. CASE AreaNext
  BY <1>1, AreaFiles
<1>2. CASE MapNext
  BY <1>2, MmapFiles, MmapFailsFiles, MprotectFiles, MunmapFiles DEF MapNext
<1>3. CASE \E t \in Clients : ClientNext(t)
  BY <1>3, ClientFiles
<1>4. CASE \E s \in Shrinkers : ShrinkNext(s)
  BY <1>4, ShrinkFiles
<1>5. CASE UNCHANGED vars
  <2>1. UNCHANGED <<area, f_count, vma, pc, req, spc, scan>>
    BY <1>5 DEF vars
  <2>2. AccessInv'
    BY <2>1 DEF AccessInv, Shapes, Reading, MayWithinMask
  <2>3. ASSUME FileInv PROVE FileInv'
    <3>1. \A a \in Areas : /\ area'[a].file = area[a].file /\ Punches(a)' = Punches(a)
                           /\ area[a].st = "closed" => area'[a].st = "closed"
      BY <2>1 DEF Punches
    <3>2. \A x \in Shrinkers : Punching(x)'
      BY <2>1, <2>3 DEF FileInv, Punching
    <3> QED BY ONLY <2>1, <2>3, <3>1, <3>2, FilesKept
  <2> QED BY <2>2, <2>3
<1> QED BY <1>1, <1>2, <1>3, <1>4, <1>5 DEF Next

\* In every reachable state a client that reads outside the mutex has an area with a backing
\* file, and what mprotect() may still give to a mapping is within the mask of its mmap().
THEOREM AccessInvariant == Spec => []AccessInv
<1>1. Init => AccessInv
  BY InitFiles
<1>2. AccessInv /\ [Next]_vars => AccessInv'
  BY StepFiles
<1> QED BY <1>1, <1>2, PTL DEF Spec

\* On the kernels on which compat_vm_flags_clear() clears anything, no mapping ever has a
\* protection that was not in the area's mask when ashmem_mmap() created it, for any number of
\* areas, mappings and mprotect() calls.
THEOREM MaskAlwaysBinds == Spec => [](VmFlagsClear => VmaWithinMask)
<1>1. AccessInv => (VmFlagsClear => VmaWithinMask)
  BY DEF AccessInv, MayWithinMask, VmaWithinMask
<1> QED BY <1>1, AccessInvariant, PTL

\* As long as the range lists are sound, the references on a backing file are exactly those of
\* the area, its mappings and the purges outside the mutex, so that it outlives its users and is
\* freed with the last of them, through failed mmap() calls and release().
THEOREM FilesFollowLists == Spec /\ []RangeListsSound => []FilesSound
<1>1. Init => AccessInv /\ FileInv
  BY InitFiles
<1>2. AccessInv /\ FileInv /\ RangeListsSound /\ [Next]_vars => AccessInv' /\ FileInv'
  BY StepFiles
<1>3. AccessInv /\ FileInv => FilesSound
  <2> SUFFICES ASSUME AccessInv, FileInv PROVE FilesSound OBVIOUS
  <2>1. FileRefsExact
    BY DEF FileInv, RefsOn, Own, Maps, Punches, FileRefsExact
  <2>2. ASSUME NEW t \in Clients, pc[t] = "io" PROVE area[req[t].asma].file /\ f_count[req[t].asma] > 0
    <3>1. PICK a \in Areas : a = req[t].asma /\ area[a].file
      BY <2>2 DEF AccessInv, Reading
    <3>2. f_count[a] = 1 + Cardinality(Maps(a)) + Cardinality(Punches(a))
      BY <3>1 DEF FileInv, RefsOn, Own
    <3>3. f_count[a] > 0
      BY <3>2, UsersFinite
    <3> QED BY <3>1, <3>3
  <2>3. ReaderHasFile
    BY <2>2 DEF ReaderHasFile
  <2> QED BY <2>1, <2>3 DEF FilesSound
<1> QED BY <1>1, <1>2, <1>3, PTL DEF Spec

-----------------------------------------------------------------------------
(* The promise about pages, AshmemPages, for any areas, pages, clients and  *)
(* finitely many reclaim contexts: no purge is ever silent.  PagesInv is    *)
(* inductive; the heart of it is that inflight counts the purges under way, *)
(* so that a client which has the mutex and sees 0 knows that nothing is    *)
(* about to be punched.                                                     *)

\* A client that reads ashmem_shrink_inflight = 0 finds no shrinker at its punch.
LEMMA QuietWhenZero ==
  ASSUME InflightExact, inflight = 0
  PROVE  \A s \in Shrinkers : spc[s] \notin {"punch", "dec"}
<1>1. IsFiniteSet(Purging)
  BY PagesAssumption, FS_Subset DEF Purging
<1>2. Purging = {}
  BY <1>1, FS_EmptySet DEF InflightExact
<1> QED BY <1>2 DEF Purging

\* Initially every area is empty and nothing is under way.
LEMMA InitPages == PagesInit => PagesInv
<1> SUFFICES ASSUME PagesInit PROVE PagesInv OBVIOUS
<1>1. Purging = {}
  BY DEF PagesInit, Purging
<1>2. InflightExact
  BY <1>1, FS_EmptySet DEF PagesInit, InflightExact
<1>3. PagesTypeOK
  BY DEF PagesInit, PagesTypeOK
<1>4. PunchMarked /\ NoSilentLoss /\ PurgedUnpinned /\ FileIsArea
  BY DEF PagesInit, PunchMarked, NoSilentLoss, PurgedUnpinned, FileIsArea
<1>5. HolderWaits
  BY PagesAssumption DEF PagesInit, HolderWaits
<1> QED BY <1>2, <1>3, <1>4, <1>5 DEF PagesInv

\* A step that leaves the places of the shrinkers and the counter alone.
LEMMA CountKept ==
  ASSUME InflightExact, UNCHANGED <<spc, inflight>>
  PROVE  InflightExact'
BY DEF InflightExact, Purging

\* The counter follows a purge that begins, goes on and ends.
LEMMA CountStep ==
  ASSUME PagesTypeOK, InflightExact, NEW s \in Shrinkers,
         \/ spc[s] \in {"idle", "retry"} /\ inflight' = inflight + 1
              /\ spc' = [spc EXCEPT ![s] = "punch"]
         \/ spc[s] = "punch" /\ inflight' = inflight /\ spc' = [spc EXCEPT ![s] = "dec"]
         \/ spc[s] = "dec" /\ inflight' = inflight - 1 /\ spc' = [spc EXCEPT ![s] = "retry"]
         \/ spc[s] = "retry" /\ inflight' = inflight /\ spc' = [spc EXCEPT ![s] = "idle"]
  PROVE  InflightExact'
<1>0. IsFiniteSet(Purging) /\ Cardinality(Purging) \in Nat
  BY PagesAssumption, FS_Subset, FS_CardinalityType DEF Purging
<1>1. CASE spc[s] \in {"idle", "retry"} /\ inflight' = inflight + 1
             /\ spc' = [spc EXCEPT ![s] = "punch"]
  <2>1. Purging' = Purging \cup {s} /\ s \notin Purging
    BY <1>1 DEF Purging, PagesTypeOK
  <2> QED BY <1>0, <1>1, <2>1, FS_AddElement DEF InflightExact
<1>2. CASE spc[s] = "punch" /\ inflight' = inflight /\ spc' = [spc EXCEPT ![s] = "dec"]
  <2>1. Purging' = Purging
    BY <1>2 DEF Purging, PagesTypeOK
  <2> QED BY <1>2, <2>1 DEF InflightExact
<1>3. CASE spc[s] = "dec" /\ inflight' = inflight - 1 /\ spc' = [spc EXCEPT ![s] = "retry"]
  <2>1. Purging' = Purging \ {s} /\ s \in Purging
    BY <1>3 DEF Purging, PagesTypeOK
  <2> QED BY <1>0, <1>3, <2>1, FS_RemoveElement DEF InflightExact
<1>4. CASE spc[s] = "retry" /\ inflight' = inflight /\ spc' = [spc EXCEPT ![s] = "idle"]
  <2>1. Purging' = Purging
    BY <1>4 DEF Purging, PagesTypeOK
  <2> QED BY <1>4, <2>1 DEF InflightExact
<1> QED BY <1>1, <1>2, <1>3, <1>4

\* Every step keeps PagesInv.
LEMMA NextPages == PagesInv /\ [PagesNext]_promiseVars => PagesInv'
<1> SUFFICES ASSUME PagesInv, [PagesNext]_promiseVars PROVE PagesInv' OBVIOUS
<1> USE PagesAssumption
<1>1. ASSUME NEW a \in Areas, Open(a) PROVE PagesInv'
  <2>1. InflightExact' BY <1>1, CountKept DEF PagesInv, Open, purgeVars
  <2>2. PagesTypeOK' BY <1>1 DEF PagesInv, PagesTypeOK, Open, pageVars, purgeVars
  <2>3. PunchMarked' /\ FileIsArea'
    BY <1>1 DEF PagesInv, PagesTypeOK, PunchMarked, FileIsArea, Open, pageVars, purgeVars
  <2>4. NoSilentLoss' /\ HolderWaits' /\ PurgedUnpinned'
    BY <1>1 DEF PagesInv, PagesTypeOK, NoSilentLoss, HolderWaits, PurgedUnpinned, Open,
                pageVars, purgeVars
  <2> QED BY <2>1, <2>2, <2>3, <2>4 DEF PagesInv
<1>2. ASSUME NEW a \in Areas, Close(a) PROVE PagesInv'
  <2>1. InflightExact' BY <1>2, CountKept DEF PagesInv, Close, purgeVars
  <2>2. PagesTypeOK' BY <1>2 DEF PagesInv, PagesTypeOK, Close, purgeVars
  <2>3. PunchMarked' /\ FileIsArea'
    BY <1>2 DEF PagesInv, PagesTypeOK, PunchMarked, FileIsArea, Close, purgeVars
  <2>4. NoSilentLoss' /\ HolderWaits' /\ PurgedUnpinned'
    BY <1>2 DEF PagesInv, PagesTypeOK, NoSilentLoss, HolderWaits, PurgedUnpinned, Close,
                purgeVars
  <2> QED BY <2>1, <2>2, <2>3, <2>4 DEF PagesInv
<1>3. ASSUME NEW t \in Clients, Call(t) \/ Lock(t) \/ Sleep(t) \/ NoEffect(t)
      PROVE PagesInv'
  <2>1. InflightExact'
    BY <1>3, CountKept DEF PagesInv, Call, Lock, Sleep, NoEffect, Return, purgeVars
  <2>2. PagesTypeOK'
    BY <1>3 DEF PagesInv, PagesTypeOK, Call, Lock, Sleep, NoEffect, Return, pageVars, purgeVars
  <2>3. PunchMarked' /\ FileIsArea' /\ NoSilentLoss' /\ PurgedUnpinned'
    BY <1>3 DEF PagesInv, PunchMarked, FileIsArea, NoSilentLoss, PurgedUnpinned, Call, Lock,
                Sleep, NoEffect, Return, pageVars, purgeVars
  <2>4. HolderWaits'
    BY <1>3 DEF PagesInv, PagesTypeOK, HolderWaits, Call, Lock, Sleep, NoEffect, Return
  <2> QED BY <2>1, <2>2, <2>3, <2>4 DEF PagesInv
<1>4. ASSUME NEW t \in Clients, NEW a \in Areas, NEW S \in SUBSET Page, Pin(t, a, S)
      PROVE PagesInv'
  <2>0. \A s \in Shrinkers : spc[s] \notin {"punch", "dec"}
    BY <1>4, QuietWhenZero DEF PagesInv, Pin, Return
  <2>1. InflightExact' BY <1>4, CountKept DEF PagesInv, Pin, Return, purgeVars
  <2>2. PagesTypeOK' BY <1>4 DEF PagesInv, PagesTypeOK, Pin, Return, purgeVars
  <2>3. PunchMarked' /\ FileIsArea'
    BY <1>4, <2>0 DEF PunchMarked, FileIsArea, Pin, Return, purgeVars
  <2>4. NoSilentLoss' /\ PurgedUnpinned'
    BY <1>4 DEF PagesInv, PagesTypeOK, NoSilentLoss, PurgedUnpinned, Pin, Return
  <2>5. HolderWaits' BY <1>4 DEF PagesInv, PagesTypeOK, HolderWaits, Pin, Return
  <2> QED BY <2>1, <2>2, <2>3, <2>4, <2>5 DEF PagesInv
<1>5. ASSUME NEW t \in Clients, NEW a \in Areas, NEW S \in SUBSET Page, Unpin(t, a, S)
      PROVE PagesInv'
  <2>0. PICK more \in SUBSET (unpinned[a] \cup S) : purged' = [purged EXCEPT ![a] = @ \cup more]
    BY <1>5 DEF Unpin
  <2>1. InflightExact' BY <1>5, CountKept DEF PagesInv, Unpin, Return, purgeVars
  <2>2. PagesTypeOK' BY <1>5, <2>0 DEF PagesInv, PagesTypeOK, Unpin, Return, purgeVars
  <2>3. PunchMarked' /\ FileIsArea'
    BY <1>5, <2>0 DEF PagesInv, PagesTypeOK, PunchMarked, FileIsArea, Unpin, Return, purgeVars
  <2>4. NoSilentLoss' /\ PurgedUnpinned'
    BY <1>5, <2>0 DEF PagesInv, PagesTypeOK, NoSilentLoss, PurgedUnpinned, Unpin, Return
  <2>5. HolderWaits' BY <1>5 DEF PagesInv, PagesTypeOK, HolderWaits, Unpin, Return
  <2> QED BY <2>1, <2>2, <2>3, <2>4, <2>5 DEF PagesInv
<1>6. ASSUME NEW s \in Shrinkers, NEW a \in Areas, NEW S \in SUBSET Page, Take(s, a, S)
      PROVE PagesInv'
  <2>0. PICK P \in {S, {}} : target' = [target EXCEPT ![s] = P]
    BY <1>6 DEF Take
  <2>1. InflightExact' BY <1>6, CountStep DEF PagesInv, Take
  <2>2. PagesTypeOK' BY <1>6, <2>0 DEF PagesInv, PagesTypeOK, Take
  <2>3. PunchMarked' /\ FileIsArea'
    BY <1>6, <2>0 DEF PagesInv, PagesTypeOK, PunchMarked, FileIsArea, Take
  <2>4. NoSilentLoss' /\ PurgedUnpinned' /\ HolderWaits'
    BY <1>6 DEF PagesInv, PagesTypeOK, NoSilentLoss, PurgedUnpinned, HolderWaits, Take
  <2> QED BY <2>1, <2>2, <2>3, <2>4 DEF PagesInv
<1>7. ASSUME NEW s \in Shrinkers, Punch(s) PROVE PagesInv'
  <2>1. InflightExact' BY <1>7, CountStep DEF PagesInv, Punch
  <2>2. PagesTypeOK' BY <1>7 DEF PagesInv, PagesTypeOK, FileIsArea, Punch
  <2>3. PunchMarked' /\ FileIsArea'
    BY <1>7 DEF PagesInv, PagesTypeOK, PunchMarked, FileIsArea, Punch
  <2>4. NoSilentLoss'
    BY <1>7 DEF PagesInv, PagesTypeOK, PunchMarked, FileIsArea, NoSilentLoss, Punch
  <2>5. PurgedUnpinned' /\ HolderWaits'
    BY <1>7 DEF PagesInv, PurgedUnpinned, HolderWaits, Punch
  <2> QED BY <2>1, <2>2, <2>3, <2>4, <2>5 DEF PagesInv
<1>8. ASSUME NEW s \in Shrinkers, Dec(s) PROVE PagesInv'
  <2>1. InflightExact' BY <1>8, CountStep DEF PagesInv, Dec
  <2>2. PagesTypeOK' BY <1>8 DEF PagesInv, PagesTypeOK, Dec, pageVars
  <2>3. PunchMarked' /\ FileIsArea' /\ NoSilentLoss' /\ PurgedUnpinned'
    BY <1>8 DEF PagesInv, PagesTypeOK, PunchMarked, FileIsArea, NoSilentLoss, PurgedUnpinned,
                Dec, pageVars
  <2>4. HolderWaits' BY <1>8 DEF PagesInv, PagesTypeOK, HolderWaits, Dec
  <2> QED BY <2>1, <2>2, <2>3, <2>4 DEF PagesInv
<1>9. ASSUME NEW s \in Shrinkers, Stop(s) PROVE PagesInv'
  <2>1. InflightExact' BY <1>9, CountStep DEF PagesInv, Stop
  <2>2. PagesTypeOK' BY <1>9 DEF PagesInv, PagesTypeOK, Stop, pageVars
  <2>3. PunchMarked' /\ FileIsArea' /\ NoSilentLoss' /\ PurgedUnpinned' /\ HolderWaits'
    BY <1>9 DEF PagesInv, PagesTypeOK, PunchMarked, FileIsArea, NoSilentLoss, PurgedUnpinned,
                HolderWaits, Stop, pageVars
  <2> QED BY <2>1, <2>2, <2>3 DEF PagesInv
<1>10. CASE UNCHANGED promiseVars
  <2>1. InflightExact' BY <1>10, CountKept DEF PagesInv, promiseVars
  <2>2. PagesTypeOK' BY <1>10 DEF PagesInv, PagesTypeOK, promiseVars
  <2>3. PunchMarked' /\ FileIsArea' /\ NoSilentLoss' /\ PurgedUnpinned' /\ HolderWaits'
    BY <1>10 DEF PagesInv, PunchMarked, FileIsArea, NoSilentLoss, PurgedUnpinned,
                 HolderWaits, promiseVars
  <2> QED BY <2>1, <2>2, <2>3 DEF PagesInv
<1> QED BY <1>1, <1>2, <1>3, <1>4, <1>5, <1>6, <1>7, <1>8, <1>9, <1>10 DEF PagesNext

\* The type invariant and the whole protocol invariant of pinning against purging
\* hold in every reachable state, for any areas, pages, clients and shrinkers.
THEOREM PagesInvariant == Promise => []PagesInv
<1> QED BY InitPages, NextPages, PTL DEF Promise

\* Pages whose contents the shrinker punched out stay marked until a pin reports it.
THEOREM LossNeverSilent == Promise => []NoSilentLoss
<1>1. PagesInv => NoSilentLoss BY DEF PagesInv
<1> QED BY <1>1, PagesInvariant, PTL

\* A pin that answers ASHMEM_NOT_PURGED tells the truth.
THEOREM IntactIsTrue == Promise => IntactMeansIntact
<1>1. PagesInv /\ [PagesNext]_promiseVars
        => [\A t \in Clients : (told[t] # "intact" /\ told'[t] = "intact")
              => \A a \in Areas : life[a] = "open"
                   => (unpinned[a] \ unpinned'[a]) \cap lost[a] = {}]_promiseVars
  <2> SUFFICES ASSUME PagesInv, PagesNext, NEW t \in Clients,
                      told[t] # "intact", told'[t] = "intact",
                      NEW b \in Areas, life[b] = "open"
               PROVE  (unpinned[b] \ unpinned'[b]) \cap lost[b] = {}
    BY DEF promiseVars
  <2>1. PICK a \in Areas, S \in SUBSET Page : Pin(t, a, S)
    <3>1. told \in [Clients -> {"none", "intact", "purged"}]
      BY DEF PagesInv, PagesTypeOK
    <3> QED BY <3>1 DEF PagesNext, Open, Close, Call, Lock, Sleep, NoEffect, Pin, Unpin, Return,
                    Take, Punch, Dec, Stop
  <2>2. purged[a] \cap S = {}
    BY <2>1 DEF Pin, Return, PagesInv, PagesTypeOK
  <2>3. lost[b] \subseteq purged[b]
    BY DEF PagesInv, NoSilentLoss
  <2> QED BY <2>1, <2>2, <2>3 DEF Pin, PagesInv, PagesTypeOK
<1> QED BY <1>1, PagesInvariant, PTL DEF Promise, IntactMeansIntact
=============================================================================
